------------------------------ MODULE MCPVWrite -------------------------------
(* A call that writes 2 to the one PV the allowlist matches, a command     *)
(* record, and a second that may race it with a value the record cannot    *)
(* keep, or ask for a PV that is not matched; records with limits that     *)
(* exclude the 2, and without.                                             *)
EXTENDS PVWrite

CONSTANTS c1, c2, p, q

(* 3 is a fraction that the integer records keep as 2, and is not near it. *)
MCValues == {1, 2, 3}
MCRanges == {{1}}
MCCast == [r \in PVs |-> [v \in MCValues |-> IF v = 3 THEN 2 ELSE v]]
MCNear == [v \in MCValues |-> {v}]

(* All PVs start at 1, and the limits of a PV that cannot be written do    *)
(* not matter.                                                             *)
MCInit ==
  /\ Init
  /\ request[c1] = [pv |-> p, val |-> 2]
  /\ request[c2] \in {[pv |-> p, val |-> 3], [pv |-> q, val |-> 2]}
  /\ value = [r \in PVs |-> 1]
  /\ \A r \in PVs \ Writable : drive[r] = NoLimits

(* Nor does what the Outsider does to it.  The Outsider changes what it    *)
(* touches, and leaves setting a PV to 1 to the record that clears itself. *)
MCNext ==
  /\ Next
  /\ outside' # outside =>
       /\ \A r \in PVs \ Writable : value'[r] = value[r] /\ drive'[r] = drive[r]
       /\ value' # value \/ drive' # drive
       /\ \A r \in PVs : value'[r] # value[r] => value'[r] # 1

MCSpec == MCInit /\ [][MCNext]_vars

MCFairSpec ==
  MCSpec /\ \A c \in Calls : WF_vars(LoopStep(c) \/ ReadStep(c)) /\ WF_vars(WorkerStep(c))
=============================================================================
