--------------------------- MODULE OlogWriteProofs ----------------------------
(***************************************************************************)
(* TLAPS proofs about OlogWrite, for every set of calls, logbooks, texts   *)
(* and files, any rate limit and any number of edits and deaths.           *)
(*                                                                         *)
(* The properties follow from what is known of a call at each step of its  *)
(* thread (Stage), of a request from the moment it is sent (Sent), and of  *)
(* its lines in the audit log (Log): a request is only ever sent for what  *)
(* the gate sanctioned, from arguments and a read that never change again. *)
(***************************************************************************)
EXTENDS OlogWrite, SequenceTheorems, TLAPS

(* The gate let pass what the call is about to write.                      *)
Sanctioned(c) ==
  IF c \in Creates THEN Precondition(args[c].books)
  ELSE raw[c] \in Entries /\ Safe(c) /\ Precondition(GateBooks(c))

(* Nothing is known of the call but to its thread.                         *)
Untouched(c) ==
  trail[c] = <<>> /\ c \notin wire /\ c \notin charged /\ ~HasApplied(c)

BeforeAdmission == {"idle", "called", "fetching", "fetched", "vetting", "admitting"}
PastGate == {"vetting", "admitting", "uploading", "sending", "posting"}

(* What the thread of a call knows at each of its steps.                   *)
Stage(c) ==
  /\ pc[c] # "idle" => args[c] \in Arguments(c)
  /\ pc[c] \in BeforeAdmission => Untouched(c)
  /\ pc[c] \in {"fetching", "fetched"} => c \notin Creates /\ open
  /\ pc[c] = "fetched" => raw[c] \in Entries
  /\ pc[c] \in PastGate => Sanctioned(c)
  /\ pc[c] \in {"uploading", "sending"} => c \notin wire /\ ~HasApplied(c)
  /\ pc[c] \in {"uploading", "sending", "posting"} => trail[c] = <<>> /\ c \in charged

(* What holds of a request that was sent, wherever its thread is.          *)
Sent(c) ==
  /\ c \in wire \/ HasApplied(c) =>
       /\ c \in charged /\ Sanctioned(c)
       /\ c \in Attaches => Offenders(raw[c]) = {}
       /\ pc[c] \in {"posting", "returned", "raised", "dead"}
       /\ pc[c] \in {"returned", "raised"} => trail[c] \in {<<"ALLOW">>, <<"FAILED">>}
  /\ c \in wire => ~HasApplied(c)

(* What the log says of a call.                                            *)
Log(c) ==
  /\ trail[c] \in {<<>>, <<"DENY">>, <<"ALLOW">>, <<"FAILED">>}
  /\ trail[c] = <<"DENY">> => c \notin wire /\ c \notin charged /\ ~HasApplied(c)
  /\ trail[c] # <<>> => pc[c] \in {"returned", "raised"}

CallInv(c) == Stage(c) /\ Sent(c) /\ Log(c)

(* What holds of the writes that the server applied.                       *)
AppliedInv == AppliedAtMostOnce /\ OnlyAllowedBooks /\ UndisturbedLosesNothing

(* What the server shows of an entry that has a source is that source.     *)
Shown(e) == e.source # NoSource => e.description = Render(e.source)

IInv == TypeOK /\ Shown(entry) /\ AppliedInv /\ \A c \in Calls : CallInv(c)

USE OlogWriteAssumption

(* A first line in a log is all that is in it. *)
LEMMA Lines ==
  ASSUME NEW e
  PROVE  /\ Append(<<>>, e) = <<e>>
         /\ <<e>> # <<>> /\ <<e>>[1] = e /\ Len(<<e>>) = 1
OBVIOUS

LEMMA LinesDiffer ==
  /\ <<"DENY">> # <<"ALLOW">> /\ <<"DENY">> # <<"FAILED">> /\ <<"ALLOW">> # <<"FAILED">>
  /\ \A e \in Events : <<e>> \in Seq(Events) /\ <<e>> # <<>>
<1>1. <<"DENY">>[1] # <<"ALLOW">>[1] /\ <<"DENY">>[1] # <<"FAILED">>[1]
      /\ <<"ALLOW">>[1] # <<"FAILED">>[1]
  BY Lines
<1>2. QED
  BY <1>1

(* The arguments of every tool are of one type; those of a create name the *)
(* logbooks.                                                               *)
LEMMA ArgumentsType ==
  ASSUME NEW c \in Calls, NEW a \in Arguments(c)
  PROVE  /\ a \in ArgumentTypes
         /\ c \in Creates => /\ a.books \in SUBSET Logbooks
                             /\ a.fields \in [Fields -> Texts] /\ a.body \in Texts
         /\ c \in Attaches => a.books = KeepBooks
         /\ c \in Updates => ~a.image
<1>1. CASE c \in Creates
  <2>1. a \in [books : SUBSET Logbooks, fields : [Fields -> Texts], body : Texts,
               image : BOOLEAN, big : BOOLEAN]
    BY <1>1 DEF Arguments
  <2>2. a.fields \in [Fields -> {Keep} \union Texts]
    BY <2>1
  <2>3. QED
    BY <1>1, <2>1, <2>2 DEF ArgumentTypes
<1>2. CASE c \in Attaches
  <2>1. a \in [books : {KeepBooks}, fields : {KeepFields}, body : {Keep},
               image : BOOLEAN, big : BOOLEAN]
    BY <1>2 DEF Arguments
  <2>2. a.fields \in [Fields -> {Keep} \union Texts]
    BY <2>1 DEF KeepFields
  <2>3. QED
    BY <1>2, <2>1, <2>2 DEF ArgumentTypes
<1>3. CASE c \in Updates
  <2>1. a \in [books : {KeepBooks} \union SUBSET Logbooks, fields : UpdatedFields,
               body : {Keep} \union Texts, image : {FALSE}, big : {FALSE}]
    BY <1>3 DEF Arguments
  <2>2. a.fields \in [Fields -> {Keep} \union Texts]
    BY <2>1 DEF UpdatedFields
  <2>3. QED
    BY <1>3, <2>1, <2>2 DEF ArgumentTypes
<1>4. QED
  BY <1>1, <1>2, <1>3 DEF Calls

(* The writes that the server applied, one by one. *)
LEMMA AppliedType ==
  ASSUME TypeOK, NEW i \in 1 .. Len(applied)
  PROVE  /\ applied[i] \in [by : Calls, before : Entries \union {NoEntry}, after : Entries]
         /\ applied[i].by \in Calls
<1> DEFINE R == [by : Calls, before : Entries \union {NoEntry}, after : Entries]
<1>1. applied \in Seq(R)
  BY DEF TypeOK
<1>2. applied[i] \in R
  <2> HIDE DEF R
  <2>1. QED
    BY <1>1
<1>3. QED
  BY <1>2

(* A write that the server applied is added, and none is taken away. *)
LEMMA RecordAdded ==
  ASSUME NEW R, applied \in Seq(R), NEW r \in R, applied' = Append(applied, r)
  PROVE  /\ applied' \in Seq(R)
         /\ Len(applied') = Len(applied) + 1 /\ Len(applied) \in Nat
         /\ \A i \in 1 .. Len(applied) : applied'[i] = applied[i]
         /\ applied'[Len(applied) + 1] = r
         /\ \A c \in Calls : HasApplied(c)' <=> HasApplied(c) \/ r.by = c
<1>1. /\ applied' \in Seq(R)
      /\ Len(applied') = Len(applied) + 1
      /\ \A k \in 1 .. Len(applied) : applied'[k] = applied[k]
      /\ applied'[Len(applied) + 1] = r
      /\ Len(applied) \in Nat
  BY AppendProperties
<1> SUFFICES ASSUME NEW c \in Calls PROVE HasApplied(c)' <=> HasApplied(c) \/ r.by = c
  BY <1>1
<1>2. ASSUME HasApplied(c)' PROVE HasApplied(c) \/ r.by = c
  <2>1. PICK k \in 1 .. Len(applied') : applied'[k].by = c
    BY <1>2 DEF HasApplied
  <2>2. k \in 1 .. Len(applied) \/ k = Len(applied) + 1
    BY <1>1
  <2>3. QED
    BY <1>1, <2>1, <2>2 DEF HasApplied
<1>3. ASSUME HasApplied(c) PROVE HasApplied(c)'
  BY <1>1, <1>3 DEF HasApplied
<1>4. ASSUME r.by = c PROVE HasApplied(c)'
  <2>1. Len(applied) + 1 \in 1 .. Len(applied')
    BY <1>1
  <2>2. QED
    BY <1>1, <1>4, <2>1 DEF HasApplied
<1>5. QED
  BY <1>2, <1>3, <1>4

(* What the gate decided depends on what was asked and read, and no more. *)
LEMMA DecisionStays ==
  ASSUME NEW c \in Calls, args'[c] = args[c], raw'[c] = raw[c], open' = open
  PROVE  /\ Sanctioned(c)' <=> Sanctioned(c)
         /\ Offenders(raw[c])' = Offenders(raw[c])
         /\ EffectiveBooks(c)' = EffectiveBooks(c)
BY DEF Sanctioned, Safe, Precondition, GateBooks, EffectiveBooks, Offenders, Fold

(* A call that a step does not touch keeps its invariant. *)
LEMMA FrameCall ==
  ASSUME NEW c \in Calls, CallInv(c), open' = open,
         pc'[c] = pc[c], args'[c] = args[c], raw'[c] = raw[c], trail'[c] = trail[c],
         c \in wire' <=> c \in wire, c \in charged' <=> c \in charged,
         HasApplied(c)' <=> HasApplied(c)
  PROVE  CallInv(c)'
<1>1. /\ Sanctioned(c)' <=> Sanctioned(c)
      /\ Offenders(raw[c])' = Offenders(raw[c])
  BY DecisionStays
<1>2. Arguments(c)' = Arguments(c)
  BY DEF Arguments
<1>3. Untouched(c)' <=> Untouched(c)
  BY DEF Untouched
<1>4. QED
  BY <1>1, <1>2, <1>3 DEF CallInv, Stage, Sent, Log

(* What the server applied stays lawful while no call that it applied      *)
(* changes.                                                                *)
LEMMA FrameApplied ==
  ASSUME TypeOK, AppliedInv, UNCHANGED <<open, applied>>,
         \A c \in Calls : HasApplied(c) => args'[c] = args[c] /\ raw'[c] = raw[c]
  PROVE  AppliedInv'
<1>1. \A i \in 1 .. Len(applied) :
        LET c == applied[i].by IN c \in Calls /\ args'[c] = args[c] /\ raw'[c] = raw[c]
  <2>1. \A i \in 1 .. Len(applied) : applied[i].by \in Calls
    BY AppliedType
  <2>2. \A i \in 1 .. Len(applied) : HasApplied(applied[i].by)
    BY DEF HasApplied
  <2>3. QED
    BY <2>1, <2>2
<1>2. AppliedAtMostOnce'
  BY DEF AppliedInv, AppliedAtMostOnce
<1>3. OnlyAllowedBooks'
  BY <1>1 DEF AppliedInv, OnlyAllowedBooks
<1>4. UndisturbedLosesNothing'
  BY <1>1 DEF AppliedInv, UndisturbedLosesNothing, BodyKept, Warned, Embedded
<1>5. QED
  BY <1>2, <1>3, <1>4 DEF AppliedInv
-----------------------------------------------------------------------------
(* A step of one call that the server does not see. *)
OwnStep(c) ==
  /\ UNCHANGED <<open, entry, applied>>
  /\ \A d \in Calls : d # c =>
       /\ pc'[d] = pc[d] /\ args'[d] = args[d] /\ raw'[d] = raw[d]
       /\ trail'[d] = trail[d]
       /\ (d \in wire' <=> d \in wire) /\ (d \in charged' <=> d \in charged)

CallAction(c) == (\E a \in Arguments(c) : Call(c, a)) \/ ThreadStep(c) \/ Lose(c)

(* Such a step keeps the invariant if it keeps that of its own call, and   *)
(* takes back nothing of a call whose write was applied.                   *)
LEMMA OwnStepKeeps ==
  ASSUME IInv, TypeOK', NEW c \in Calls, OwnStep(c), CallInv(c)',
         HasApplied(c) => args'[c] = args[c] /\ raw'[c] = raw[c]
  PROVE  IInv'
<1>1. AppliedInv'
  BY FrameApplied DEF IInv, OwnStep
<1>2. ASSUME NEW d \in Calls, d # c PROVE CallInv(d)'
  <2>1. HasApplied(d)' <=> HasApplied(d)
    BY DEF HasApplied, OwnStep
  <2>2. QED
    BY <1>2, <2>1, FrameCall DEF IInv, OwnStep
<1>3. QED
  BY <1>1, <1>2 DEF IInv, OwnStep, Shown

(* Every action of a call but the server's is such a step. *)
LEMMA CallActionOwn ==
  ASSUME TypeOK, NEW c \in Calls, CallAction(c)
  PROVE  OwnStep(c) /\ (HasApplied(c)' <=> HasApplied(c))
<1> USE DEF TypeOK, OwnStep, HasApplied, Goto, Audit, server
<1>1. CASE \E a \in Arguments(c) : Call(c, a)
  BY <1>1 DEF Call
<1>2. CASE DenyCreate(c) \/ BeginCreate(c) \/ DenyUnread(c) \/ BeginFetch(c)
  BY <1>2 DEF DenyCreate, BeginCreate, DenyUnread, BeginFetch, Deny, Proceed
<1>3. CASE Fetch(c) \/ FetchFail(c) \/ Vet(c) \/ VetFail(c)
  BY <1>3 DEF Fetch, FetchFail, Vet, VetFail, Proceed
<1>4. CASE RefuseUpdate(c) \/ DenyFetched(c) \/ PassFetched(c)
  BY <1>4 DEF RefuseUpdate, DenyFetched, PassFetched, Deny, Proceed
<1>5. CASE DenyAdmission(c) \/ Admit(c) \/ ReadUploads(c) \/ ReadUploadsFail(c)
  BY <1>5 DEF DenyAdmission, Admit, ReadUploads, ReadUploadsFail, Deny, Proceed
<1>6. CASE RefuseAttach(c) \/ Send(c) \/ PostOk(c) \/ PostFail(c)
  BY <1>6 DEF RefuseAttach, Send, PostOk, PostFail
<1>7. CASE Lose(c)
  BY <1>7 DEF Lose, local
<1>8. QED
  BY <1>1, <1>2, <1>3, <1>4, <1>5, <1>6, <1>7 DEF CallAction, ThreadStep

(* Each step keeps the types. *)
LEMMA TypeKept ==
  ASSUME IInv, NEW c \in Calls, CallAction(c)
  PROVE  TypeOK'
<1>0. TypeOK
  BY DEF IInv
<1> USE <1>0 DEF TypeOK, Working, Ended, Goto, server
<1>1. ASSUME NEW e \in Events, Audit(c, e) PROVE trail' \in [Calls -> Seq(Events)]
  BY <1>1 DEF Audit
<1>2. {"DENY", "ALLOW", "FAILED"} \subseteq Events
  BY DEF Events
<1>3. ASSUME NEW a \in Arguments(c), Call(c, a) PROVE TypeOK'
  BY <1>3, ArgumentsType DEF Call
<1>4. ASSUME NEW from, NEW to \in {"idle"} \union Working \union Ended, Proceed(c, from, to)
      PROVE  TypeOK'
  BY <1>4 DEF Proceed
<1>5. ASSUME NEW from, Deny(c, from) PROVE TypeOK'
  BY <1>1, <1>2, <1>5 DEF Deny
<1>6. CASE DenyCreate(c) \/ BeginCreate(c) \/ DenyUnread(c) \/ BeginFetch(c)
  BY <1>4, <1>5, <1>6 DEF DenyCreate, BeginCreate, DenyUnread, BeginFetch
<1>7. CASE Fetch(c)
  BY <1>7 DEF Fetch
<1>8. CASE FetchFail(c) \/ Vet(c) \/ VetFail(c)
  BY <1>4, <1>8 DEF FetchFail, Vet, VetFail
<1>9. CASE RefuseUpdate(c) \/ DenyFetched(c) \/ PassFetched(c)
  BY <1>4, <1>5, <1>9 DEF RefuseUpdate, DenyFetched, PassFetched
<1>10. CASE DenyAdmission(c) \/ ReadUploads(c) \/ ReadUploadsFail(c)
  BY <1>4, <1>5, <1>10 DEF DenyAdmission, ReadUploads, ReadUploadsFail
<1>11. CASE Admit(c)
  BY <1>11 DEF Admit
<1>12. CASE RefuseAttach(c) \/ PostOk(c) \/ PostFail(c)
  <2>1. trail' \in [Calls -> Seq(Events)]
    BY <1>1, <1>2, <1>12 DEF RefuseAttach, PostOk, PostFail
  <2>2. QED
    BY <1>12, <2>1 DEF RefuseAttach, PostOk, PostFail
<1>13. CASE Send(c)
  BY <1>13 DEF Send
<1>14. CASE Lose(c)
  BY <1>14 DEF Lose, local
<1>15. QED
  BY <1>3, <1>6, <1>7, <1>8, <1>9, <1>10, <1>11, <1>12, <1>13, <1>14
     DEF CallAction, ThreadStep
-----------------------------------------------------------------------------
(* A call denied by the gate leaves its line, and nothing else.            *)
LEMMA DenyKeeps ==
  ASSUME IInv, NEW c \in Calls, NEW from \in BeforeAdmission \ {"idle"}, Deny(c, from)
  PROVE  CallInv(c)'
<1>1. /\ pc[c] = from /\ pc'[c] = "raised" /\ Untouched(c) /\ args[c] \in Arguments(c)
      /\ trail'[c] = Append(trail[c], "DENY")
      /\ UNCHANGED <<args, wire, charged, applied>>
  BY DEF IInv, CallInv, Stage, TypeOK, Deny, Goto, Audit, server
<1>2. trail'[c] = <<"DENY">>
  BY <1>1, Lines DEF Untouched
<1>3. c \notin wire' /\ c \notin charged' /\ ~HasApplied(c)'
  BY <1>1 DEF Untouched, HasApplied
<1>4. Arguments(c)' = Arguments(c)
  BY DEF Arguments
<1>5. QED
  BY <1>1, <1>2, <1>3, <1>4, Lines
     DEF CallInv, Stage, Sent, Log, BeforeAdmission, PastGate

(* A call that goes on before its admission, or gives up without a line.   *)
LEMMA ProceedKeeps ==
  ASSUME IInv, NEW c \in Calls, NEW from \in BeforeAdmission \ {"idle"},
         NEW to \in {"fetching", "vetting", "admitting", "raised"},
         Proceed(c, from, to),
         to = "fetching" => c \notin Creates /\ open,
         to \in {"vetting", "admitting"} => Sanctioned(c)
  PROVE  CallInv(c)'
<1>1. /\ pc'[c] = to /\ Untouched(c) /\ args[c] \in Arguments(c)
      /\ UNCHANGED <<open, args, raw, trail, wire, charged, applied>>
  BY DEF IInv, CallInv, Stage, TypeOK, Proceed, Goto, server
<1>2. Untouched(c)'
  BY <1>1 DEF Untouched, HasApplied
<1>3. Sanctioned(c)' <=> Sanctioned(c)
  BY <1>1, DecisionStays
<1>4. Arguments(c)' = Arguments(c)
  BY DEF Arguments
<1>5. QED
  BY <1>1, <1>2, <1>3, <1>4, Lines
     DEF CallInv, Stage, Sent, Log, BeforeAdmission, PastGate, Untouched

(* The call and the read of the entry, which set what is written later.    *)
LEMMA InputsKeep ==
  ASSUME IInv, NEW c \in Calls, (\E a \in Arguments(c) : Call(c, a)) \/ Fetch(c)
  PROVE  CallInv(c)'
<1>1. /\ Untouched(c)
      /\ UNCHANGED <<open, trail, wire, charged, applied>>
  BY DEF IInv, CallInv, Stage, TypeOK, Call, Fetch, Goto, server, BeforeAdmission
<1>2. Untouched(c)'
  BY <1>1 DEF Untouched, HasApplied
<1>3. Arguments(c)' = Arguments(c)
  BY DEF Arguments
<1>4. CASE \E a \in Arguments(c) : Call(c, a)
  <2>1. pc'[c] = "called" /\ args'[c] \in Arguments(c)
    BY <1>4 DEF IInv, TypeOK, Call, Goto
  <2>2. QED
    BY <1>1, <1>2, <1>3, <2>1
       DEF CallInv, Stage, Sent, Log, BeforeAdmission, PastGate, Untouched
<1>5. CASE Fetch(c)
  <2>1. /\ pc'[c] = "fetched" /\ args' = args /\ args[c] \in Arguments(c)
        /\ raw'[c] = entry /\ entry \in Entries
        /\ c \notin Creates /\ open
    BY <1>5 DEF IInv, CallInv, Stage, TypeOK, Fetch, Goto
  <2>2. raw'[c] \in Entries'
    BY <2>1 DEF Entries, Names
  <2>3. QED
    BY <1>1, <1>2, <1>3, <2>1, <2>2
       DEF CallInv, Stage, Sent, Log, BeforeAdmission, PastGate, Untouched
<1>6. QED
  BY <1>4, <1>5

(* The steps up to the admission. *)
LEMMA GateKeeps ==
  ASSUME IInv, NEW c \in Calls,
         \/ DenyCreate(c) \/ BeginCreate(c) \/ DenyUnread(c) \/ BeginFetch(c)
         \/ FetchFail(c) \/ RefuseUpdate(c) \/ DenyFetched(c) \/ PassFetched(c)
         \/ Vet(c) \/ VetFail(c) \/ DenyAdmission(c)
  PROVE  CallInv(c)'
<1> USE DEF BeforeAdmission
<1>1. CASE DenyCreate(c) \/ DenyUnread(c) \/ DenyFetched(c) \/ DenyAdmission(c)
  BY <1>1, DenyKeeps DEF DenyCreate, DenyUnread, DenyFetched, DenyAdmission
<1>2. CASE BeginCreate(c)
  BY <1>2, ProceedKeeps DEF BeginCreate, Sanctioned
<1>3. CASE BeginFetch(c)
  BY <1>3, ProceedKeeps DEF BeginFetch
<1>4. CASE FetchFail(c) \/ RefuseUpdate(c) \/ VetFail(c)
  BY <1>4, ProceedKeeps DEF FetchFail, RefuseUpdate, VetFail
<1>5. CASE PassFetched(c)
  <2>1. c \notin Creates /\ raw[c] \in Entries
    BY <1>5 DEF IInv, CallInv, Stage, PassFetched
  <2>2. Sanctioned(c)
    BY <1>5, <2>1 DEF PassFetched, Sanctioned
  <2>3. QED
    BY <1>5, <2>2, ProceedKeeps DEF PassFetched
<1>6. CASE Vet(c)
  <2>1. Sanctioned(c)
    BY <1>6 DEF IInv, CallInv, Stage, Vet, Proceed, Goto, PastGate
  <2>2. QED
    BY <1>6, <2>1, ProceedKeeps DEF Vet
<1>7. QED
  BY <1>1, <1>2, <1>3, <1>4, <1>5, <1>6

(* From the admission to the request: one token, one request, one line.    *)
LEMMA WriteKeeps ==
  ASSUME IInv, TypeOK', NEW c \in Calls,
         \/ Admit(c) \/ ReadUploads(c) \/ ReadUploadsFail(c)
         \/ RefuseAttach(c) \/ Send(c) \/ PostOk(c) \/ PostFail(c) \/ Lose(c)
  PROVE  CallInv(c)'
<1>1. /\ UNCHANGED <<open, args, raw, applied>>
      /\ CallInv(c) /\ TypeOK
  BY DEF IInv, Admit, ReadUploads, ReadUploadsFail, Proceed, RefuseAttach, Send, PostOk,
         PostFail, Lose, local, server
<1>2. /\ Sanctioned(c)' <=> Sanctioned(c)
      /\ Offenders(raw[c])' = Offenders(raw[c])
      /\ HasApplied(c)' <=> HasApplied(c)
      /\ Arguments(c)' = Arguments(c)
  BY <1>1, DecisionStays DEF HasApplied, Arguments
<1> USE DEF CallInv, Stage, Sent, Log, BeforeAdmission, PastGate, Untouched
<1>3. CASE Admit(c)
  <2>1. /\ pc[c] = "admitting" /\ pc'[c] = "uploading"
        /\ charged' = charged \union {c} /\ UNCHANGED <<trail, wire>>
    BY <1>1, <1>3 DEF TypeOK, Admit, Goto
  <2>2. QED
    BY <1>1, <1>2, <2>1
<1>4. CASE ReadUploads(c) \/ ReadUploadsFail(c)
  <2>1. /\ pc[c] = "uploading" /\ pc'[c] \in {"sending", "raised"}
        /\ UNCHANGED <<trail, wire, charged>>
    BY <1>1, <1>4 DEF TypeOK, ReadUploads, ReadUploadsFail, Proceed, Goto
  <2>2. QED
    BY <1>1, <1>2, <2>1, Lines
<1>5. CASE RefuseAttach(c)
  <2>1. /\ pc[c] = "sending" /\ pc'[c] = "raised" /\ trail'[c] = Append(trail[c], "FAILED")
        /\ UNCHANGED <<wire, charged>>
    BY <1>1, <1>5 DEF TypeOK, RefuseAttach, Goto, Audit
  <2>2. trail'[c] = <<"FAILED">>
    BY <1>1, <2>1, Lines
  <2>3. QED
    BY <1>1, <1>2, <2>1, <2>2, LinesDiffer
<1>6. CASE Send(c)
  <2>1. /\ pc[c] = "sending" /\ pc'[c] = "posting"
        /\ c \in Attaches => Offenders(raw[c]) = {}
        /\ wire' = wire \union {c}
        /\ UNCHANGED <<trail, charged>>
    BY <1>1, <1>6 DEF TypeOK, Send, Goto
  <2>2. QED
    BY <1>1, <1>2, <2>1, Lines
<1>7. CASE PostOk(c) \/ PostFail(c)
  <2>1. PICK e \in {"ALLOW", "FAILED"} :
          /\ pc[c] = "posting" /\ pc'[c] \in {"returned", "raised"}
          /\ trail'[c] = Append(trail[c], e)
          /\ UNCHANGED <<wire, charged>>
    BY <1>1, <1>7 DEF TypeOK, PostOk, PostFail, Goto, Audit
  <2>2. trail'[c] = <<e>>
    BY <1>1, <2>1, Lines
  <2>3. QED
    BY <1>1, <1>2, <2>1, <2>2, LinesDiffer
<1>8. CASE Lose(c)
  <2>1. UNCHANGED <<pc, trail, charged>> /\ wire' = wire \ {c}
    BY <1>8 DEF Lose, local
  <2>2. QED
    BY <1>1, <1>2, <2>1
<1>9. QED
  BY <1>3, <1>4, <1>5, <1>6, <1>7, <1>8

(* No step of a thread takes back what a write that was applied was made of. *)
LEMMA CallActionKeeps ==
  ASSUME IInv, NEW c \in Calls, CallAction(c)
  PROVE  IInv'
<1>1. TypeOK' /\ OwnStep(c)
  BY TypeKept, CallActionOwn DEF IInv
<1>2. CallInv(c)'
  BY <1>1, GateKeeps, InputsKeep, WriteKeeps DEF CallAction, ThreadStep
<1>3. HasApplied(c) => args'[c] = args[c] /\ raw'[c] = raw[c]
  <2> SUFFICES ASSUME HasApplied(c) PROVE args'[c] = args[c] /\ raw'[c] = raw[c]
    OBVIOUS
  <2>1. pc[c] \notin BeforeAdmission
    BY DEF IInv, CallInv, Stage, Untouched
  <2>2. ~Fetch(c) /\ ~(\E a \in Arguments(c) : Call(c, a))
    BY <2>1 DEF Fetch, Call, Goto, BeforeAdmission
  <2>3. QED
    BY <2>2 DEF CallAction, ThreadStep, DenyCreate, BeginCreate, DenyUnread, BeginFetch,
       FetchFail, RefuseUpdate, DenyFetched, PassFetched, Vet, VetFail, DenyAdmission,
       Admit, ReadUploads, ReadUploadsFail, RefuseAttach, Send, PostOk, PostFail, Lose,
       Deny, Proceed, local
<1>4. QED
  BY <1>1, <1>2, <1>3, OwnStepKeeps
-----------------------------------------------------------------------------
(* The server.  The files that retainAll keeps of those that are all       *)
(* listed: every one, if no two have the same name.                        *)
LEMMA AllRetained ==
  ASSUME NEW e, Offenders(e) = {}, NEW kept \in Retained(e.files, e.files)
  PROVE  kept = e.files
<1>1. kept \subseteq e.files
  BY DEF Retained
<1>2. ASSUME NEW h \in e.files PROVE h \in kept
  <2>1. PICK g \in kept : Fold(g) = Fold(h)
    BY DEF Retained
  <2>2. g = h
    BY <1>1, <2>1 DEF Offenders
  <2>3. QED
    BY <2>2
<1>3. QED
  BY <1>1, <1>2

(* The renderer makes a body of a body. *)
LEMMA RenderType ==
  ASSUME NEW body \in Bodies
  PROVE  /\ Render(body) = [text |-> Rendered[body.text], images |-> body.images]
         /\ Render(body) \in Bodies
BY DEF Render, Bodies

(* What an attach or an update posts has the types of an entry. *)
LEMMA PostedType ==
  ASSUME NEW c \in Calls, args[c] \in ArgumentTypes, raw[c] \in Entries,
         args[c].image => c \in Attaches
  PROVE  /\ PostedFields(c) \in [Fields -> Texts]
         /\ PostedSource(c) \in Bodies \union {NoSource}
         /\ PostedDescription(c) \in Bodies
<1>1. /\ raw[c].fields \in [Fields -> Texts] /\ raw[c].description \in Bodies
      /\ raw[c].source \in Bodies \union {NoSource}
  BY DEF Entries
<1>2. args[c].fields \in [Fields -> {Keep} \union Texts] /\ args[c].body \in {Keep} \union Texts
  BY DEF ArgumentTypes
<1>3. PostedFields(c) \in [Fields -> Texts]
  BY <1>1, <1>2 DEF PostedFields
<1>4. args[c].body # Keep => [text |-> args[c].body, images |-> {}] \in Bodies
  BY <1>2 DEF Bodies
<1>5. PostedDescription(c) \in Bodies
  BY <1>1, <1>4 DEF PostedDescription
<1>6. args[c].image => [text |-> Blank, images |-> Embedded(c)] \in Bodies
  BY DEF Bodies, Embedded
<1>7. ASSUME args[c].image, raw[c].source # NoSource
      PROVE  [raw[c].source EXCEPT !.images = @ \union Embedded(c)] \in Bodies
  <2>1. raw[c].source \in [text : Texts, images : SUBSET Attaches]
    BY <1>1, <1>7 DEF Bodies
  <2>2. raw[c].source.images \union Embedded(c) \in SUBSET Attaches
    BY <1>7, <2>1 DEF Embedded
  <2>3. QED
    BY <2>1, <2>2 DEF Bodies
<1>8. PostedSource(c) \in Bodies \union {NoSource}
  <2>1. CASE args[c].body # Keep
    BY <1>4, <2>1 DEF PostedSource
  <2>2. CASE args[c].body = Keep /\ ~args[c].image
    BY <1>1, <2>2 DEF PostedSource
  <2>3. CASE args[c].body = Keep /\ args[c].image /\ raw[c].source = NoSource
    BY <1>6, <2>3 DEF PostedSource
  <2>4. CASE args[c].body = Keep /\ args[c].image /\ raw[c].source # NoSource
    BY <1>7, <2>4 DEF PostedSource
  <2>5. QED
    BY <2>1, <2>2, <2>3, <2>4
<1>9. QED
  BY <1>3, <1>5, <1>8

(* What becomes of the body of an entry that shows its source: the one     *)
(* that was asked for, or the one that was there.                          *)
LEMMA PostedBody ==
  ASSUME NEW c \in Calls, args[c] \in ArgumentTypes, raw[c] \in Entries,
         args[c].image => c \in Attaches,
         Shown(raw[c]), NEW e, e.source = PostedSource(c),
         e.description = Render(IF PostedSource(c) = NoSource THEN PostedDescription(c)
                                ELSE PostedSource(c)),
         c \notin Creates
  PROVE  /\ args[c].body # Keep => e.description.text = Rendered[args[c].body]
         /\ args[c].body = Keep => BodyKept(c, raw[c], e)
<1>1. /\ raw[c].description \in Bodies /\ raw[c].source \in Bodies \union {NoSource}
      /\ args[c].body \in {Keep} \union Texts
  BY DEF Entries, ArgumentTypes
<1>2. ASSUME args[c].body # Keep
      PROVE  e.description.text = Rendered[args[c].body]
  <2> DEFINE body == [text |-> args[c].body, images |-> {}]
  <2>1. body \in Bodies /\ body # NoSource
    BY <1>1, <1>2 DEF Bodies
  <2>2. PostedSource(c) = body
    BY <1>2 DEF PostedSource
  <2>3. e.description = Render(body)
    BY <2>1, <2>2
  <2>4. QED
    BY <2>1, <2>3, RenderType
<1>3. ASSUME args[c].body = Keep, raw[c].source # NoSource
      PROVE  /\ e.source.text = raw[c].source.text
             /\ e.description.text = raw[c].description.text
             /\ e.description.images = raw[c].description.images \union Embedded(c)
  <2>1. /\ raw[c].source \in [text : Texts, images : SUBSET Attaches]
        /\ raw[c].description = [text |-> Rendered[raw[c].source.text],
                                 images |-> raw[c].source.images]
    BY <1>1, <1>3, RenderType DEF Shown, Bodies
  <2>2. /\ e.source \in Bodies /\ e.source.text = raw[c].source.text
        /\ e.source.images = raw[c].source.images \union Embedded(c)
    <3>1. CASE ~args[c].image
      BY <1>1, <1>3, <3>1 DEF PostedSource, Embedded
    <3>2. CASE args[c].image
      <4>1. e.source = [raw[c].source EXCEPT !.images = @ \union Embedded(c)]
        BY <1>3, <3>2 DEF PostedSource
      <4>2. raw[c].source.images \union Embedded(c) \in SUBSET Attaches
        BY <2>1, <3>2 DEF Embedded
      <4>3. QED
        BY <2>1, <4>1, <4>2 DEF Bodies
    <3>3. QED
      BY <3>1, <3>2
  <2>3. e.source # NoSource
    BY <2>2
  <2>4. e.description = Render(e.source)
    BY <2>3
  <2>5. QED
    BY <2>1, <2>2, <2>4, RenderType
<1>4. ASSUME args[c].body = Keep, raw[c].source = NoSource, ~args[c].image
      PROVE  /\ e.description.images = raw[c].description.images
             /\ e.description.text = Rendered[raw[c].description.text]
  <2>1. PostedSource(c) = NoSource /\ PostedDescription(c) = raw[c].description
    BY <1>4 DEF PostedSource, PostedDescription
  <2>2. QED
    BY <1>1, <2>1, RenderType
<1>5. QED
  BY <1>2, <1>3, <1>4 DEF BodyKept, Warned

(* What a sanctioned call leaves the entry in: allowed logbooks, and some. *)
LEMMA SanctionedBooks ==
  ASSUME TypeOK, NEW c \in Calls, c \notin Creates, args[c] \in Arguments(c), Sanctioned(c)
  PROVE  /\ open /\ raw[c] \in Entries
         /\ raw[c].books \subseteq Allowed
         /\ EffectiveBooks(c) \subseteq Allowed /\ EffectiveBooks(c) # {}
         /\ EffectiveBooks(c) \in SUBSET Logbooks
<1>1. open /\ raw[c] \in Entries /\ Safe(c) /\ Precondition(GateBooks(c))
  BY DEF Sanctioned, Precondition
<1>2. CASE c \in Updates
  BY <1>1, <1>2 DEF Safe, Precondition, GateBooks
<1>3. CASE c \in Attaches
  <2>1. args[c].books = KeepBooks
    BY <1>3 DEF Arguments
  <2>2. EffectiveBooks(c) = raw[c].books /\ GateBooks(c) = raw[c].books
    BY <1>3, <2>1 DEF EffectiveBooks, GateBooks
  <2>3. QED
    BY <1>1, <2>2 DEF Precondition
<1>4. QED
  BY <1>2, <1>3 DEF Calls

(* UndisturbedLosesNothing, of one record. *)
Spared(r) ==
  LET c == r.by IN
    c \notin Creates /\ r.before = raw[c] =>
      /\ r.before.files \subseteq r.after.files
      /\ args[c].books = KeepBooks => r.after.books = r.before.books
      /\ \A f \in Fields :
           args[c].fields[f] = Keep => r.after.fields[f] = r.before.fields[f]
      /\ args[c].body # Keep => r.after.description.text = Rendered[args[c].body]
      /\ args[c].body = Keep => BodyKept(c, r.before, r.after)

(* The record of a write that the gate sanctioned is lawful. *)
Lawful(r) ==
  LET c == r.by IN
    /\ open
    /\ r.after.books # {} /\ r.after.books \subseteq Allowed
    /\ c \notin Creates => raw[c].books \subseteq Allowed
    /\ Spared(r)

Records == [by : Calls, before : Entries \union {NoEntry}, after : Entries]

(* One lawful record more, of a call with none, and all that is known of   *)
(* the applied writes still holds.                                         *)
LEMMA RecordKeeps ==
  ASSUME IInv, NEW c \in wire, NEW before, NEW after, Record(c, before, after),
         entry' \in Entries, Shown(entry'),
         [by |-> c, before |-> before, after |-> after] \in Records,
         Lawful([by |-> c, before |-> before, after |-> after])
  PROVE  IInv' /\ \A d \in Calls : HasApplied(d)' <=> HasApplied(d) \/ d = c
<1> DEFINE r == [by |-> c, before |-> before, after |-> after]
<1>1. /\ applied \in Seq(Records) /\ c \in Calls
      /\ wire' = wire \ {c} /\ applied' = Append(applied, r)
      /\ UNCHANGED <<open, tokens, pc, args, raw, trail, charged, outside, deaths>>
  BY DEF IInv, TypeOK, Records, Record, local
<1>2. /\ applied' \in Seq(Records)
      /\ Len(applied') = Len(applied) + 1 /\ Len(applied) \in Nat
      /\ \A i \in 1 .. Len(applied) : applied'[i] = applied[i]
      /\ applied'[Len(applied) + 1] = r
      /\ \A d \in Calls : HasApplied(d)' <=> HasApplied(d) \/ r.by = d
  <2> HIDE DEF r
  <2>1. r \in Records
    BY DEF r
  <2>2. QED
    BY <1>1, <2>1, RecordAdded
<1>3. TypeOK'
  BY <1>1, <1>2 DEF IInv, TypeOK, Records
<1>4. \A i \in 1 .. Len(applied') : i \in 1 .. Len(applied) \/ i = Len(applied) + 1
  BY <1>2
<1>5. \A i \in 1 .. Len(applied) : applied[i].by # c
  BY DEF IInv, CallInv, Sent, HasApplied, TypeOK
<1>6. AppliedAtMostOnce'
  BY <1>2, <1>4, <1>5 DEF IInv, AppliedInv, AppliedAtMostOnce
<1>7. OnlyAllowedBooks'
  <2>1. \A i \in 1 .. Len(applied) :
          LET d == applied[i].by IN
            /\ open /\ applied[i].after.books # {} /\ applied[i].after.books \subseteq Allowed
            /\ d \notin Creates => raw[d].books \subseteq Allowed
    BY DEF IInv, AppliedInv, OnlyAllowedBooks
  <2>2. QED
    BY <1>1, <1>2, <1>4, <2>1 DEF OnlyAllowedBooks, Lawful
<1>8. UndisturbedLosesNothing'
  <2>1. UNCHANGED <<args, raw>>
    BY <1>1
  <2>2. ASSUME NEW i \in 1 .. Len(applied'), NEW s, s = applied'[i] PROVE Spared(s)'
    <3>1. Spared(s)
      <4>1. ASSUME i \in 1 .. Len(applied) PROVE Spared(s)
        BY <1>2, <2>2, <4>1 DEF IInv, AppliedInv, UndisturbedLosesNothing, Spared
      <4>2. ASSUME i = Len(applied) + 1 PROVE Spared(s)
        <5>1. Spared(r)
          BY DEF Lawful
        <5>2. s = r
          BY <1>2, <2>2, <4>2
        <5> HIDE DEF r
        <5>3. QED
          BY <5>1, <5>2
      <4>3. QED
        BY <1>4, <2>2, <4>1, <4>2
    <3>2. QED
      BY <2>1, <3>1 DEF Spared, BodyKept, Warned, Embedded
  <2>3. QED
    BY <2>2 DEF UndisturbedLosesNothing, Spared
<1>9. CallInv(c)'
  <2>1. /\ Sanctioned(c)' <=> Sanctioned(c)
        /\ Offenders(raw[c])' = Offenders(raw[c])
        /\ Arguments(c)' = Arguments(c)
    BY <1>1, DecisionStays DEF Arguments
  <2>2. pc[c] \notin BeforeAdmission \union {"uploading", "sending"}
    BY DEF IInv, CallInv, Sent, TypeOK, BeforeAdmission
  <2>3. CallInv(c)
    BY <1>1 DEF IInv
  <2>4. trail[c] # <<"DENY">>
    BY <2>3 DEF CallInv, Log
  <2>5. QED
    BY <1>1, <1>2, <2>1, <2>2, <2>3, <2>4
       DEF CallInv, Stage, Sent, Log, Untouched, BeforeAdmission
<1>10. ASSUME NEW d \in Calls, d # c PROVE CallInv(d)'
  <2>1. HasApplied(d)' <=> HasApplied(d)
    BY <1>2, <1>10
  <2>2. QED
    BY <1>1, <1>10, <2>1, FrameCall DEF IInv
<1>11. QED
  BY <1>2, <1>3, <1>6, <1>7, <1>8, <1>9, <1>10 DEF IInv, AppliedInv, Shown

(* The server creates the entry that the gate let pass.                    *)
LEMMA ApplyCreateKeeps ==
  ASSUME IInv, NEW c \in Calls, ApplyCreate(c)
  PROVE  IInv' /\ \A d \in Calls : HasApplied(d)' <=> HasApplied(d) \/ d = c
<1>1. c \in wire /\ c \in Creates /\ entry' = entry
  BY DEF ApplyCreate
<1>2. Precondition(args[c].books) /\ args[c] \in Arguments(c)
  BY <1>1 DEF IInv, CallInv, Sent, Stage, Sanctioned
<1>3. /\ args[c].books \in SUBSET Logbooks
      /\ args[c].fields \in [Fields -> Texts] /\ args[c].body \in Texts
  BY <1>1, <1>2, ArgumentsType
<1> DEFINE body == [text |-> args[c].body, images |-> {}]
           after == [books |-> args[c].books, fields |-> args[c].fields,
                     source |-> body, description |-> Render(body),
                     owner |-> "account", files |-> {}]
<1>4. after \in Entries
  <2>1. body \in Bodies
    BY <1>3 DEF Bodies
  <2>2. Render(body) \in Bodies
    BY <2>1, RenderType
  <2> HIDE DEF body
  <2>3. QED
    BY <1>3, <2>1, <2>2 DEF Entries
<1>5. Record(c, NoEntry, after)
  BY DEF ApplyCreate
<1> HIDE DEF after
<1>6. [by |-> c, before |-> NoEntry, after |-> after] \in Records
  BY <1>4 DEF Records
<1>7. Lawful([by |-> c, before |-> NoEntry, after |-> after])
  BY <1>1, <1>2 DEF Lawful, Spared, Precondition, after
<1>8. entry' \in Entries /\ Shown(entry')
  BY <1>1 DEF IInv, TypeOK
<1>9. QED
  BY <1>1, <1>5, <1>6, <1>7, <1>8, RecordKeeps

(* The server replaces the entry by the post of an attach or an update.    *)
LEMMA ApplyPostKeeps ==
  ASSUME IInv, NEW c \in Calls, ApplyPost(c)
  PROVE  IInv' /\ \A d \in Calls : HasApplied(d)' <=> HasApplied(d) \/ d = c
<1>1. c \in wire /\ c \notin Creates
  BY DEF ApplyPost
<1>2. Sanctioned(c) /\ args[c] \in Arguments(c) /\ TypeOK
  BY <1>1 DEF IInv, CallInv, Sent, Stage
<1>3. /\ open /\ raw[c] \in Entries /\ raw[c].books \subseteq Allowed
      /\ EffectiveBooks(c) \subseteq Allowed /\ EffectiveBooks(c) # {}
      /\ EffectiveBooks(c) \in SUBSET Logbooks
  BY <1>1, <1>2, SanctionedBooks
<1>4. Offenders(raw[c]) = {}
  <2>1. c \in Attaches \/ c \in Updates
    BY <1>1 DEF Calls
  <2>2. QED
    BY <1>1, <1>2, <2>1 DEF IInv, CallInv, Sent, Sanctioned, Safe
<1>5. /\ args[c] \in ArgumentTypes /\ (args[c].image => c \in Attaches)
      /\ entry \in Entries /\ Shown(entry)
  BY <1>1, <1>2, ArgumentsType DEF IInv, TypeOK, Calls
<1> DEFINE source == PostedSource(c)
           description == Render(IF source = NoSource THEN PostedDescription(c) ELSE source)
<1>6. PICK kept \in Retained(entry.files, raw[c].files) :
        entry' = [books |-> EffectiveBooks(c), fields |-> PostedFields(c),
                  source |-> source, description |-> description,
                  owner |-> "account", files |-> kept \union ({c} \intersect Attaches)]
  BY DEF ApplyPost, Listed
<1>7. /\ PostedFields(c) \in [Fields -> Texts]
      /\ source \in Bodies \union {NoSource}
      /\ PostedDescription(c) \in Bodies
  BY <1>1, <1>3, <1>5, PostedType
<1>8. description \in Bodies
  BY <1>7, RenderType
<1>9. kept \subseteq Names
  BY <1>5 DEF Retained, Entries
<1>10. entry' \in Entries
  <2> HIDE DEF source, description
  <2>1. kept \union ({c} \intersect Attaches) \in SUBSET Names
    BY <1>9 DEF Names
  <2>2. QED
    BY <1>3, <1>6, <1>7, <1>8, <2>1 DEF Entries
<1>11. Shown(entry')
  BY <1>6 DEF Shown
<1>12. [by |-> c, before |-> entry, after |-> entry'] \in Records
  BY <1>5, <1>10 DEF Records
<1>13. Lawful([by |-> c, before |-> entry, after |-> entry'])
  <2>1. ASSUME entry = raw[c]
        PROVE  /\ entry.files \subseteq entry'.files
               /\ args[c].books = KeepBooks => entry'.books = entry.books
               /\ \A f \in Fields :
                    args[c].fields[f] = Keep => entry'.fields[f] = entry.fields[f]
               /\ args[c].body # Keep => entry'.description.text = Rendered[args[c].body]
               /\ args[c].body = Keep => BodyKept(c, entry, entry')
    <3>1. kept = entry.files
      BY <1>4, <1>6, <2>1, AllRetained
    <3>2. entry'.source = source /\ entry'.description = description
      BY <1>6
    <3>3. /\ entry.files \subseteq entry'.files
          /\ args[c].books = KeepBooks => entry'.books = entry.books
      BY <1>6, <2>1, <3>1 DEF EffectiveBooks
    <3>4. \A f \in Fields : args[c].fields[f] = Keep => entry'.fields[f] = entry.fields[f]
      BY <1>6, <2>1 DEF PostedFields
    <3> HIDE DEF source, description
    <3>5. /\ args[c].body # Keep => description.text = Rendered[args[c].body]
          /\ args[c].body = Keep => BodyKept(c, entry, entry')
      BY <1>1, <1>3, <1>5, <2>1, <3>2, PostedBody DEF source, description
    <3>6. QED
      BY <3>2, <3>3, <3>4, <3>5
  <2>2. QED
    BY <1>3, <1>6, <2>1 DEF Lawful, Spared
<1>14. Record(c, entry, entry')
  BY DEF ApplyPost
<1>15. QED
  BY <1>1, <1>10, <1>11, <1>12, <1>13, <1>14, RecordKeeps

(* What the process and the others do on their own: no call learns of it,  *)
(* but that it is dead.                                                    *)
LEMMA EnvironmentKeeps ==
  ASSUME IInv,
         \/ Expire \/ Die
         \/ \E books \in SUBSET Logbooks, files \in SUBSET Files : OutsideEdit(books, files)
  PROVE  IInv'
<1>1. UNCHANGED <<open, args, raw, trail, wire, applied, charged>>
  BY DEF Expire, Die, OutsideEdit, local, server
<1>2. AppliedInv'
  BY <1>1, FrameApplied DEF IInv
<1>3. \A c \in Calls : HasApplied(c)' <=> HasApplied(c)
  BY <1>1 DEF HasApplied
<1>4. CASE Expire
  <2>1. TypeOK'
    BY <1>1, <1>4 DEF IInv, TypeOK, Expire, local, server
  <2>2. \A c \in Calls : CallInv(c)'
    BY <1>1, <1>3, <1>4, FrameCall DEF IInv, Expire, local
  <2>3. QED
    BY <1>2, <2>1, <2>2, <1>4 DEF IInv, Shown, Expire, server
<1>5. CASE \E books \in SUBSET Logbooks, files \in SUBSET Files : OutsideEdit(books, files)
  <2>1. PICK books \in SUBSET Logbooks, files \in SUBSET Files : OutsideEdit(books, files)
    BY <1>5
  <2>2. entry' \in Entries
    <3>1. entry \in [books : SUBSET Logbooks, fields : [Fields -> Texts],
                     source : Bodies \union {NoSource}, description : Bodies,
                     owner : {"person", "account"}, files : SUBSET Names]
      BY DEF IInv, TypeOK, Entries
    <3>2. (entry.files \ Files) \union files \in SUBSET Names
      BY <3>1 DEF Names
    <3>3. entry' = [books |-> books, fields |-> entry.fields, source |-> entry.source,
                    description |-> entry.description, owner |-> entry.owner,
                    files |-> (entry.files \ Files) \union files]
      BY <2>1, <3>1 DEF OutsideEdit
    <3>4. QED
      BY <3>1, <3>2, <3>3 DEF Entries
  <2>3. TypeOK'
    <3>1. UNCHANGED <<tokens, pc, deaths>> /\ outside' \in Nat
      <4>1. UNCHANGED <<tokens, pc, deaths>> /\ outside' = outside + 1
        BY <2>1 DEF OutsideEdit, local
      <4>2. QED
        BY <4>1 DEF IInv, TypeOK
    <3>2. QED
      BY <1>1, <2>2, <3>1 DEF IInv, TypeOK
  <2>4. \A c \in Calls : CallInv(c)'
    BY <1>1, <1>3, <2>1, FrameCall DEF IInv, OutsideEdit, local
  <2>5. Shown(entry')
    <3>1. entry'.source = entry.source /\ entry'.description = entry.description
      BY <2>1 DEF IInv, TypeOK, Entries, OutsideEdit
    <3>2. QED
      BY <3>1 DEF IInv, Shown
  <2>6. QED
    BY <1>2, <2>3, <2>4, <2>5 DEF IInv, Shown
<1>6. CASE Die
  <2>1. TypeOK'
    <3>1. pc' \in [Calls -> {"idle"} \union Working \union Ended]
      BY <1>6 DEF IInv, TypeOK, Die, Ended
    <3>2. deaths' \in Nat /\ tokens' \in Nat /\ entry' = entry /\ outside' = outside
      BY <1>6 DEF IInv, TypeOK, Die, server
    <3>3. QED
      BY <1>1, <3>1, <3>2 DEF IInv, TypeOK
  <2>2. ASSUME NEW c \in Calls PROVE CallInv(c)'
    <3>1. \/ pc'[c] = pc[c]
          \/ pc[c] \in Working /\ pc'[c] = "dead"
      BY <1>6 DEF Die
    <3>2. CASE pc'[c] = pc[c]
      BY <1>1, <1>3, <3>2, FrameCall DEF IInv
    <3>3. CASE pc[c] \in Working /\ pc'[c] = "dead"
      <4>1. /\ Sanctioned(c)' <=> Sanctioned(c)
            /\ Offenders(raw[c])' = Offenders(raw[c])
            /\ Arguments(c)' = Arguments(c)
        BY <1>1, DecisionStays DEF Arguments
      <4>2. CallInv(c)
        BY DEF IInv
      <4>3. trail[c] = <<>> /\ args[c] \in Arguments(c)
        BY <3>3, <4>2 DEF CallInv, Log, Stage, Working
      <4>4. QED
        BY <1>1, <1>3, <3>3, <4>1, <4>2, <4>3, Lines
           DEF CallInv, Stage, Sent, Log, BeforeAdmission, PastGate
    <3>4. QED
      BY <3>1, <3>2, <3>3
  <2>3. QED
    BY <1>2, <2>1, <2>2, <1>6 DEF IInv, Shown, Die, server
<1>7. QED
  BY <1>4, <1>5, <1>6
-----------------------------------------------------------------------------
LEMMA InitIInv == Init => IInv
<1> SUFFICES ASSUME Init PROVE IInv
  OBVIOUS
<1>1. TypeOK
  <2>1. entry \in Entries
    BY DEF Init, Entries, Names
  <2>2. args \in [Calls -> ArgumentTypes]
    BY DEF Init, NoArguments, KeepFields, ArgumentTypes
  <2>3. applied \in Seq(Records)
    BY DEF Init
  <2>4. QED
    BY <2>1, <2>2, <2>3 DEF Init, TypeOK, Records
<1>2. Len(applied) = 0 /\ \A c \in Calls : ~HasApplied(c)
  BY DEF Init, HasApplied
<1>3. AppliedInv
  BY <1>2 DEF AppliedInv, AppliedAtMostOnce, OnlyAllowedBooks, UndisturbedLosesNothing
<1>4. \A c \in Calls : CallInv(c)
  BY <1>2, Lines DEF Init, CallInv, Stage, Sent, Log, Untouched, PastGate
<1>5. Shown(entry)
  BY DEF Init, Shown
<1>6. QED
  BY <1>1, <1>3, <1>4, <1>5 DEF IInv

LEMMA NextIInv == IInv /\ [Next]_vars => IInv'
<1> SUFFICES ASSUME IInv, [Next]_vars PROVE IInv'
  OBVIOUS
<1>1. ASSUME NEW c \in Calls, CallAction(c) PROVE IInv'
  BY <1>1, CallActionKeeps
<1>2. ASSUME NEW c \in Calls, ApplyCreate(c) \/ ApplyPost(c) PROVE IInv'
  BY <1>2, ApplyCreateKeeps, ApplyPostKeeps
<1>3. CASE \/ Expire \/ Die
           \/ \E books \in SUBSET Logbooks, files \in SUBSET Files : OutsideEdit(books, files)
  BY <1>3, EnvironmentKeeps
<1>4. CASE UNCHANGED vars
  <2>1. UNCHANGED <<open, tokens, pc, args, raw, trail, wire, entry, applied, charged,
                    outside, deaths>>
    BY <1>4 DEF vars
  <2>2. TypeOK' /\ AppliedInv'
    BY <2>1, FrameApplied DEF IInv, TypeOK
  <2>3. \A c \in Calls : CallInv(c)'
    BY <2>1, FrameCall DEF IInv, HasApplied
  <2>4. QED
    BY <2>1, <2>2, <2>3 DEF IInv, Shown
<1>5. QED
  BY <1>1, <1>2, <1>3, <1>4 DEF Next, Under, CallAction

(* The inductive invariant of the logbook writes. *)
THEOREM InvariantHolds == Spec => []IInv
BY InitIInv, NextIInv, PTL DEF Spec

(* Type correctness.  It is no invariant of its own: what is posted has    *)
(* the type of an entry only because what was read is one.                 *)
THEOREM TypeCorrect == Spec => []TypeOK
<1>1. IInv => TypeOK
  BY DEF IInv
<1>2. QED
  BY <1>1, InvariantHolds, PTL

(* Nothing reaches the logbook but what the gate let pass (check_write_    *)
(* preconditions of olog_safety.py), whatever others do to the entry       *)
(* between the read and the post.                                          *)
THEOREM WritesStayAllowed == Spec => []OnlyAllowedBooks
<1>1. IInv => OnlyAllowedBooks
  BY DEF IInv, AppliedInv
<1>2. QED
  BY <1>1, InvariantHolds, PTL

(* The read, the check of colliding file names and the post of an entry    *)
(* that nobody disturbs lose no file, no logbook and no plain field, and   *)
(* what a call keeps of a body is what BodyKept says: all of it if it has  *)
(* a source; without one, and without an image to embed, the same text or  *)
(* what the renderer makes of it, which an update warns of.  Nothing is    *)
(* said of the owner, whom the post replaces, nor of an image embedded in  *)
(* an entry without a source (AttachKeepsBody fails for it).  This is so   *)
(* for any file names, contents and renderer.                              *)
THEOREM NothingLost == Spec => []UndisturbedLosesNothing
<1>1. IInv => UndisturbedLosesNothing
  BY DEF IInv, AppliedInv
<1>2. QED
  BY <1>1, InvariantHolds, PTL

(* No write is applied twice: the write session does not retry.            *)
THEOREM WrittenOnce == Spec => []AppliedAtMostOnce
<1>1. IInv => AppliedAtMostOnce
  BY DEF IInv, AppliedInv
<1>2. QED
  BY <1>1, InvariantHolds, PTL

(* The audit log is true of every write: at most one line, no denied call  *)
(* sent or charged, no request without a token, no applied write of a      *)
(* finished call without a line.                                           *)
THEOREM LogIsTrue == Spec => []RecordTrue
<1>1. IInv => RecordTrue
  <2> SUFFICES ASSUME IInv, NEW c \in Calls
               PROVE  /\ Len(trail[c]) <= 1
                      /\ trail[c] = <<"DENY">> => c \notin wire \union charged /\ ~HasApplied(c)
                      /\ c \in wire \/ HasApplied(c) => c \in charged
                      /\ HasApplied(c) /\ pc[c] \in {"returned", "raised"} =>
                           trail[c] \in {<<"ALLOW">>, <<"FAILED">>}
    BY DEF RecordTrue
  <2>1. Sent(c) /\ Log(c)
    BY DEF IInv, CallInv
  <2>2. Len(trail[c]) <= 1
    <3>1. trail[c] = <<>> \/ \E e \in Events : trail[c] = <<e>>
      BY <2>1 DEF Log, Events
    <3>2. CASE trail[c] = <<>>
      BY <3>2
    <3>3. ASSUME NEW e \in Events, trail[c] = <<e>> PROVE Len(trail[c]) <= 1
      <4>1. Len(<<e>>) = 1
        BY Lines
      <4>2. QED
        BY <3>3, <4>1
    <3>4. QED
      BY <3>1, <3>2, <3>3
  <2>3. QED
    BY <2>1, <2>2 DEF Sent, Log
<1>2. QED
  BY <1>1, InvariantHolds, PTL
-----------------------------------------------------------------------------
(* The gated write, as GatedWrite sees a state. *)
Said(t) == IF t = <<>> THEN "nothing" ELSE t[1]

(* A first line in the log of one call is all that the gated write sees.   *)
LEMMA LineSaid ==
  ASSUME TypeOK, NEW c \in Calls, NEW e \in Events, trail[c] = <<>>, Audit(c, e)
  PROVE  /\ [d \in Calls |-> Said(trail[d])][c] = "nothing"
         /\ [d \in Calls |-> Said(trail[d])]'
              = [[d \in Calls |-> Said(trail[d])] EXCEPT ![c] = e]
<1>1. trail'[c] = <<e>> /\ \A d \in Calls : d # c => trail'[d] = trail[d]
  BY Lines DEF TypeOK, Audit
<1>2. Said(trail'[c]) = e /\ Said(trail[c]) = "nothing"
  BY <1>1, Lines DEF Said
<1>3. QED
  BY <1>1, <1>2

(* Every step of the three writes is a step of the gated write, or none.   *)
THEOREM GateImplemented == Spec => GateRefined
<1> DEFINE recorded == [c \in Calls |-> IF trail[c] = <<>> THEN "nothing" ELSE trail[c][1]]
           written == {c \in Calls : HasApplied(c)}
<1>1. Init => Gate!GateInit
  <2> SUFFICES ASSUME Init PROVE Gate!GateInit
    OBVIOUS
  <2>1. \A c \in Calls : trail[c] = <<>>
    BY DEF Init
  <2>2. \A c \in Calls : ~HasApplied(c)
    BY DEF Init, HasApplied
  <2>3. QED
    BY <2>1, <2>2 DEF Init, Gate!GateInit
<1>2. IInv /\ [Next]_vars => [Gate!GateNext]_(Gate!gateVars)
  <2> SUFFICES ASSUME IInv, [Next]_vars
               PROVE  Gate!GateNext \/ UNCHANGED <<recorded, charged, written>>
    BY DEF Gate!gateVars
  <2>1. TypeOK
    BY DEF IInv
  <2>2. recorded = [c \in Calls |-> Said(trail[c])]
        /\ recorded' = [c \in Calls |-> Said(trail[c])]'
    BY DEF Said
  <2>3. ASSUME NEW c \in Calls, NEW from \in BeforeAdmission \ {"idle"}, Deny(c, from)
        PROVE  Gate!GateNext
    <3>1. trail[c] = <<>> /\ c \notin charged /\ Audit(c, "DENY")
      BY <2>3 DEF IInv, CallInv, Stage, Untouched, Deny, Goto
    <3>2. UNCHANGED <<charged, written>>
      BY <2>3 DEF Deny, server, HasApplied
    <3>3. Gate!Deny(c)
      BY <2>1, <2>2, <3>1, <3>2, LineSaid DEF Gate!Deny, Gate!Say, Events
    <3>4. QED
      BY <3>3 DEF Gate!GateNext
  <2>4. ASSUME NEW c \in Calls,
               DenyCreate(c) \/ DenyUnread(c) \/ DenyFetched(c) \/ DenyAdmission(c)
        PROVE  Gate!GateNext
    BY <2>3, <2>4 DEF DenyCreate, DenyUnread, DenyFetched, DenyAdmission, BeforeAdmission
  <2>5. ASSUME NEW c \in Calls, Admit(c) PROVE Gate!GateNext
    <3>1. trail[c] = <<>> /\ c \notin charged
      BY <2>5 DEF IInv, CallInv, Stage, Untouched, Admit, Goto, BeforeAdmission
    <3>2. charged' = charged \union {c} /\ UNCHANGED <<recorded, written>>
      BY <2>5 DEF Admit, server, HasApplied
    <3>3. recorded[c] = "nothing"
      BY <3>1
    <3>4. Gate!Admit(c)
      BY <3>1, <3>2, <3>3 DEF Gate!Admit
    <3>5. QED
      BY <3>4 DEF Gate!GateNext
  <2>6. ASSUME NEW c \in Calls, RefuseAttach(c) \/ PostFail(c) PROVE Gate!GateNext
    <3>1. trail[c] = <<>> /\ c \in charged /\ Audit(c, "FAILED")
      BY <2>6 DEF IInv, CallInv, Stage, RefuseAttach, PostFail, Goto
    <3>2. UNCHANGED <<charged, written>>
      BY <2>6 DEF RefuseAttach, PostFail, server, HasApplied
    <3>3. Gate!Fail(c)
      BY <2>1, <2>2, <3>1, <3>2, LineSaid DEF Gate!Fail, Gate!Say, Events
    <3>4. QED
      BY <3>3 DEF Gate!GateNext
  <2>7. ASSUME NEW c \in Calls, PostOk(c) PROVE Gate!GateNext
    <3>1. trail[c] = <<>> /\ HasApplied(c) /\ Audit(c, "ALLOW")
      BY <2>7 DEF IInv, CallInv, Stage, PostOk, Goto
    <3>2. UNCHANGED <<charged, written>>
      BY <2>7 DEF PostOk, server, HasApplied
    <3>3. Gate!Allow(c)
      BY <2>1, <2>2, <3>1, <3>2, LineSaid DEF Gate!Allow, Gate!Say, Events
    <3>4. QED
      BY <3>3 DEF Gate!GateNext
  <2>8. ASSUME NEW c \in Calls, ApplyCreate(c) \/ ApplyPost(c) PROVE Gate!GateNext
    <3>1. \A d \in Calls : HasApplied(d)' <=> HasApplied(d) \/ d = c
      BY <2>8, ApplyCreateKeeps, ApplyPostKeeps
    <3>2. c \in charged /\ ~HasApplied(c)
      BY <2>8 DEF IInv, CallInv, Sent, ApplyCreate, ApplyPost
    <3>3. UNCHANGED <<trail, charged>>
      BY <2>8 DEF ApplyCreate, ApplyPost, Record
    <3>4. Gate!Write(c)
      BY <3>1, <3>2, <3>3 DEF Gate!Write
    <3>5. QED
      BY <3>4 DEF Gate!GateNext
  <2>9. ASSUME UNCHANGED <<trail, charged, applied>>
        PROVE  UNCHANGED <<recorded, charged, written>>
    BY <2>9 DEF HasApplied
  <2>10. ASSUME NEW c \in Calls,
                \/ \E a \in Arguments(c) : Call(c, a)
                \/ BeginCreate(c) \/ BeginFetch(c) \/ Fetch(c) \/ FetchFail(c)
                \/ RefuseUpdate(c) \/ PassFetched(c) \/ Vet(c) \/ VetFail(c)
                \/ ReadUploads(c) \/ ReadUploadsFail(c) \/ Send(c) \/ Lose(c)
         PROVE  UNCHANGED <<trail, charged, applied>>
    BY <2>10 DEF Call, BeginCreate, BeginFetch, Fetch, FetchFail, RefuseUpdate, PassFetched,
       Vet, VetFail, ReadUploads, ReadUploadsFail, Send, Lose, Proceed, server
  <2>11. CASE \/ Expire \/ Die \/ UNCHANGED vars
              \/ \E books \in SUBSET Logbooks, files \in SUBSET Files : OutsideEdit(books, files)
    BY <2>9, <2>11 DEF Expire, Die, OutsideEdit, vars, server
  <2>12. QED
    BY <2>4, <2>5, <2>6, <2>7, <2>8, <2>9, <2>10, <2>11 DEF Next, Under, ThreadStep
<1>3. QED
  BY <1>1, <1>2, InvariantHolds, PTL DEF Spec, GateRefined, Gate!GateSpec
=============================================================================
