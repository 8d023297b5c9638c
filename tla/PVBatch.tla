------------------------------- MODULE PVBatch -------------------------------
(***************************************************************************)
(* pv_get_batch (services/epics_client.py) and the check of a list of      *)
(* names in chunks of it, _validate_pvs (tools/validate.py).               *)
(*                                                                         *)
(* A batch is one native read of all names.  When it fails, each name is   *)
(* read by itself, all at once, and the answers, which arrive in any       *)
(* order, are put back together.  A name may be asked for twice, and the   *)
(* channel may come or go between the two reads.  The two loops over the   *)
(* names of a chunk take one name a step.                                  *)
(***************************************************************************)
EXTENDS Integers, Sequences, FiniteSets, SequencesExt, Functions

CONSTANTS PVs,
          MaxBatch,   \* max_batch_size
          MaxNames    \* bound: names asked for


VARIABLES
  caller,    \* "batch": the batch tool; "validate": the connectivity check
  names,     \* what was asked for
  at,        \* names whose chunk is done
  pc,
  outcome,   \* what the reads of this chunk gave
  looped,    \* names of this chunk that the loop over it has passed
  read,      \* history: what the reads gave, by the place of the name
  batch,     \* what pv_get_batch answers
  answer,    \* what _validate_pvs has gathered
  error      \* the error raised

vars == <<caller, names, at, pc, outcome, looped, read, batch, answer, error>>

Pending == "pending"
Ok == "ok"
Errors == {"missing", "timeout", "failed"}
Cancelled == "cancelled"

NoBatch == [results |-> <<>>, errors |-> <<>>]
NoAnswer == [pvs |-> <<>>, connected |-> 0, disconnected |-> 0]

(* The part of the names that is read now: all of it for the batch tool.   *)
Chunk ==
  IF caller = "batch" THEN names
  ELSE SubSeq(names, at + 1, IF at + MaxBatch < Len(names) THEN at + MaxBatch ELSE Len(names))

Places == 1 .. Len(Chunk)
-----------------------------------------------------------------------------
Init ==
  /\ caller \in {"batch", "validate"}
  /\ names \in BoundedSeq(PVs, MaxNames)
  /\ at = 0
  /\ pc = "called"
  /\ outcome = <<>>
  /\ looped = 0
  /\ read = [i \in 1 .. Len(names) |-> Pending]
  /\ batch = NoBatch
  /\ answer = NoAnswer
  /\ error = "none"

Raise(code) ==
  /\ pc' = "raised"
  /\ error' = code
  /\ UNCHANGED <<caller, names, at, outcome, looped, read, batch, answer>>

(* Either tool refuses an empty list.                                      *)
RefuseEmpty ==
  /\ pc = "called" /\ names = <<>>
  /\ Raise("INVALID_INPUT")

RefuseSize ==
  /\ pc = "called" /\ Len(Chunk) > MaxBatch
  /\ Raise("BATCH_TOO_LARGE")

StartNative ==
  /\ pc = "called"
  /\ names # <<>>
  /\ Len(Chunk) <= MaxBatch
  /\ pc' = "native"
  /\ UNCHANGED <<caller, names, at, outcome, looped, read, batch, answer, error>>

(* The loop over the names of the chunk and what was read of each begins.  *)
Sort(gave) ==
  /\ pc' = "sorting"
  /\ outcome' = gave
  /\ read' = [i \in DOMAIN read |-> IF i - at \in Places THEN gave[i - at] ELSE read[i]]
  /\ UNCHANGED <<caller, names, at, looped, batch, answer, error>>

(* The native batch answers; a value may be one that cannot be formatted.  *)
NativeOk == pc = "native" /\ \E gave \in [Places -> {Ok, "failed"}] : Sort(gave)

(* The provider answers with another number of values than it was asked.   *)
NativeContract == pc = "native" /\ Raise("UPSTREAM_CONTRACT_ERROR")

(* It fails: every name of the chunk is read by itself.                    *)
NativeFail ==
  /\ pc = "native"
  /\ outcome' = [i \in Places |-> Pending]
  /\ pc' = "reading"
  /\ UNCHANGED <<caller, names, at, looped, read, batch, answer, error>>

(* pv_get of one name ends.                                                *)
ReadEnds(i) ==
  /\ pc = "reading" /\ outcome[i] = Pending
  /\ \E gave \in Errors \union {Ok, Cancelled} :
       outcome' = [outcome EXCEPT ![i] = gave]
  /\ UNCHANGED <<caller, names, at, pc, looped, read, batch, answer, error>>

Gather == pc = "reading" /\ Pending \notin Range(outcome) /\ Sort(outcome)

(* Broken variant: no entry for a name whose read timed out.               *)
LossyFiled(i) ==
  LET entry == [pv |-> Chunk[i], place |-> at + i]
  IN [results |-> IF outcome[i] = Ok THEN Append(batch.results, entry) ELSE batch.results,
      errors |-> IF outcome[i] \in Errors \ {"timeout"} THEN Append(batch.errors, entry)
                 ELSE batch.errors]

(* {"results": [...], "errors": [...]} with one name more.                 *)
Filed(i) ==
  LET entry == [pv |-> Chunk[i], place |-> at + i]
  IN [results |-> IF outcome[i] = Ok THEN Append(batch.results, entry) ELSE batch.results,
      errors |-> IF outcome[i] = Ok THEN batch.errors ELSE Append(batch.errors, entry)]

(* One turn of the loop.                                                   *)
File ==
  /\ pc = "sorting" /\ looped < Len(Chunk)
  /\ outcome[looped + 1] # Cancelled
  /\ batch' = Filed(looped + 1)
  /\ looped' = looped + 1
  /\ UNCHANGED <<caller, names, at, pc, outcome, read, answer, error>>

(* A read that was cancelled ends the call when the loop comes to it.      *)
GatherCancelled ==
  /\ pc = "sorting" /\ looped < Len(Chunk)
  /\ outcome[looped + 1] = Cancelled
  /\ Raise("cancelled")

(* The envelope is returned, to the caller of the tool or to the check.    *)
ReturnBatch ==
  /\ pc = "sorting" /\ looped = Len(Chunk)
  /\ pc' = IF caller = "batch" THEN "returned" ELSE "merging"
  /\ looped' = 0
  /\ UNCHANGED <<caller, names, at, outcome, read, batch, answer, error>>

Named(entries) == {e.pv : e \in Range(entries)}

(* Broken variant: an error goes before a value.                           *)
GloomyStatus(pv) ==
  CASE pv \in Named(batch.errors) -> <<[pv |-> pv, status |-> "disconnected"]>>
    [] pv \in Named(batch.results) \ Named(batch.errors) ->
         <<[pv |-> pv, status |-> "connected"]>>
    [] OTHER -> <<>>

(* The status of one name, looked up by name: a value goes before an error.*)
Status(pv) ==
  CASE pv \in Named(batch.results) -> <<[pv |-> pv, status |-> "connected"]>>
    [] pv \in Named(batch.errors) \ Named(batch.results) ->
         <<[pv |-> pv, status |-> "disconnected"]>>
    [] OTHER -> <<>>

(* The names of the chunk are emitted in the input's order.                *)
Emit ==
  /\ pc = "merging" /\ looped < Len(Chunk)
  /\ answer' = [answer EXCEPT !.pvs = @ \o Status(Chunk[looped + 1])]
  /\ looped' = looped + 1
  /\ UNCHANGED <<caller, names, at, pc, outcome, read, batch, error>>

(* The chunk is counted; the next begins, or the end.                      *)
Merge ==
  /\ pc = "merging" /\ looped = Len(Chunk)
  /\ answer' = [answer EXCEPT !.connected = @ + Len(batch.results),
                              !.disconnected = @ + Len(batch.errors)]
  /\ at' = at + Len(Chunk)
  /\ pc' = IF at' < Len(names) THEN "called" ELSE "returned"
  /\ looped' = 0 /\ outcome' = <<>> /\ batch' = NoBatch
  /\ UNCHANGED <<caller, names, read, error>>
-----------------------------------------------------------------------------
Native == NativeOk \/ NativeContract \/ NativeFail
Fallback == (\E i \in DOMAIN outcome : ReadEnds(i)) \/ Gather

Next ==
  \/ RefuseEmpty \/ RefuseSize \/ StartNative
  \/ Native \/ Fallback
  \/ File \/ GatherCancelled \/ ReturnBatch
  \/ Emit \/ Merge

Spec == Init /\ [][Next]_vars
-----------------------------------------------------------------------------
Returned(who) == pc = "returned" /\ caller = who

ListedConnected == Cardinality({i \in DOMAIN answer.pvs : answer.pvs[i].status = "connected"})

(* No silent loss: a batch answers each place of its list once, either     *)
(* with a value or with an error, whether the native read worked or not.   *)
EveryPlaceAnswered ==
  Returned("batch") =>
    /\ Len(batch.results) + Len(batch.errors) = Len(names)
    /\ {e.place : e \in Range(batch.results) \union Range(batch.errors)} = 1 .. Len(names)
    /\ \A e \in Range(batch.results) : read[e.place] = Ok
    /\ \A e \in Range(batch.errors) : read[e.place] # Ok

(* The check lists the names as they were given, each as often, whatever   *)
(* the chunks; its counts add up to their number and, with no name twice,  *)
(* are those of the statuses listed.                                       *)
InputOrder ==
  Returned("validate") =>
    /\ [i \in DOMAIN answer.pvs |-> answer.pvs[i].pv] = names
    /\ answer.connected + answer.disconnected = Len(names)
    /\ IsInjective(names) => answer.connected = ListedConnected

(* "connected" is said of a name that gave a value in its own chunk, and   *)
(* "disconnected" of one that gave none.                                   *)
StatusEarned ==
  Returned("validate") =>
    \A i \in DOMAIN answer.pvs :
      LET chunk == {j \in DOMAIN names : (j - 1) \div MaxBatch = (i - 1) \div MaxBatch} IN
      (answer.pvs[i].status = "connected") <=>
        \E j \in chunk : names[j] = names[i] /\ read[j] = Ok

(* The check splits its list: it never asks for more than the maximum.     *)
ChunksFit == caller = "validate" => error # "BATCH_TOO_LARGE"

(* "a PV lands in exactly one, so the counts are unchanged"                *)
CountsAgree == Returned("validate") => answer.connected = ListedConnected
=============================================================================
