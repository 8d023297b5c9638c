------------------------------ MODULE TokenPool ------------------------------
(***************************************************************************)
(* What a rate limiter promises, without a clock, a lock or timestamps: at *)
(* most Limit tokens are out at a time, a caller is admitted in one atomic *)
(* step that takes a token, it is refused only while every token is out,   *)
(* and a refusal takes nothing.  RateWindow implements this pool; PVWrite  *)
(* uses it in the place of the sliding window.                             *)
(***************************************************************************)
EXTENDS Naturals

CONSTANTS Callers, Limit

VARIABLES held,     \* tokens out
          verdict   \* what the call a caller is making was told

poolVars == <<held, verdict>>

Verdicts == {"none", "admitted", "refused"}

PoolInit ==
  /\ held = 0
  /\ verdict = [c \in Callers |-> "none"]

Tell(c, v) ==
  /\ verdict[c] = "none"
  /\ verdict' = [verdict EXCEPT ![c] = v]

Take(c) ==
  /\ held < Limit
  /\ held' = held + 1
  /\ Tell(c, "admitted")

Refuse(c) ==
  /\ held >= Limit
  /\ Tell(c, "refused")
  /\ UNCHANGED held

Forget(c) ==
  /\ verdict[c] # "none"
  /\ verdict' = [verdict EXCEPT ![c] = "none"]
  /\ UNCHANGED held

Expire ==
  /\ held > 0
  /\ held' = held - 1
  /\ UNCHANGED verdict

PoolNext ==
  \/ Expire
  \/ \E c \in Callers : Take(c) \/ Refuse(c) \/ Forget(c)

PoolSpec == PoolInit /\ [][PoolNext]_poolVars
=============================================================================
