-------------------------------- MODULE MCLive ---------------------------------
(***************************************************************************)
(* The reads that go to the control system itself, for TLC: monitors       *)
(* (PVMonitor, extended here), the batch and the check of a list           *)
(* (PVBatch), and the views of a display file whose names such a check is  *)
(* given (DisplayViews).  A behaviour is one of the three, the others at   *)
(* rest.                                                                   *)
(*                                                                         *)
(* Of the monitors one has a stream that may exceed its cap by two and     *)
(* breaks in every way, and one stays silent and only holds its thread or  *)
(* its place in the queue, beside a read: they share nothing but pools.    *)
(***************************************************************************)
EXTENDS PVMonitor

CONSTANTS m1, m2,
          PVs, MaxBatch, MaxNames,
          NumFiles, Values, ContextCap

ASSUME LiveAssumption ==
  /\ MaxBatch \in Nat \ {0} /\ MaxNames \in Nat
  /\ NumFiles \in Nat \ {0} /\ ContextCap \in Nat \ {0} /\ IsFiniteSet(Values)

VARIABLES caller, names, at, pc, outcome, looped, read, batch, answer, error
VARIABLES embeds, plain, templated, contexts, capped, left, found
VARIABLE part    \* what the behaviour is about

batchVars == <<caller, names, at, pc, outcome, looped, read, batch, answer, error>>
viewVars == <<embeds, plain, templated, contexts, capped, left, found>>
liveVars == <<part, vars, batchVars, viewVars>>

Batch == INSTANCE PVBatch
Views == INSTANCE DisplayViews

LiveInit ==
  /\ part \in {"monitors", "batch", "views"}
  /\ part = "batch" \/ (part # "batch" /\ caller = "batch" /\ names = <<>>)
  /\ part = "views" \/ (part # "views" /\ embeds = {} /\ plain = {} /\ templated = {})
  /\ Init /\ Batch!Init /\ Views!Init

MonitorStep ==
  /\ part = "monitors"
  /\ Next /\ kinds'[m2] = {}
  /\ UNCHANGED <<part, batchVars, viewVars>>

BatchStep ==
  /\ part = "batch" /\ Batch!Next
  /\ UNCHANGED <<part, vars, viewVars>>

ViewStep ==
  /\ part = "views" /\ Views!Next
  /\ UNCHANGED <<part, vars, batchVars>>

LiveNext == MonitorStep \/ BatchStep \/ ViewStep

(* The reads are served and their threads run, every p4p read carries a    *)
(* timeout, and the event loop runs.                                       *)
LiveSpec ==
  /\ LiveInit /\ [][LiveNext]_liveVars
  /\ \A r \in Reads : WF_vars(StartRead(r)) /\ WF_vars(EndRead(r))
  /\ WF_liveVars(BatchStep)
-----------------------------------------------------------------------------
(* A monitor answers the first values of its channel, and says that it was *)
(* cut exactly if it was.                                                  *)
MonitorHonest == EventsAreFirst /\ TruncationHonest

(* What it says of the connection, and of an empty answer, is so.          *)
ConnectionExplained == ConnectionHonest /\ EmptyExplained

(* A batch and a check of a list answer every place once, in its order,    *)
(* and no chunk is refused.                                                *)
PlacesAnswered == Batch!EveryPlaceAnswered /\ Batch!InputOrder /\ Batch!ChunksFit

(* A name is called connected exactly if a read of its chunk gave a value. *)
StatusEarned == Batch!StatusEarned

(* A view that a larger cap would extend is called a lower bound, unless   *)
(* it is a display view and every file that was capped on the way to what  *)
(* it misses shows no channel of its own in it; a file view that could not *)
(* be extended is not called so.                                           *)
ViewsBounded ==
  Views!FileViewComplete /\ Views!FileViewNotSlandered /\ Views!DisplayViewComplete

(* Every read ends although no monitor need ever end; every monitor does   *)
(* if monitors are let run; every batch ends.                              *)
EveryLiveReadEnds ==
  /\ EveryReadEnds
  /\ EveryMonitorEnds
  /\ part = "batch" => <>(pc \in {"returned", "raised"})
-----------------------------------------------------------------------------
(* What the repository says of the program and the code does not do.       *)

(* "a capped X has necessarily contributed PVs here and is visible among   *)
(* the origin files": no display view misses a channel unflagged.          *)
CappedIsAmongOrigins == Views!CappedIsAmongOrigins
=============================================================================
