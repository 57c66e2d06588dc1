--------------------------- MODULE PinnedPublish ---------------------------
(***************************************************************************)
(* What a targeted deployment promises its caller, with no shared map, no  *)
(* digests and no retries: a publish that gets as far as asking for its id *)
(* is told the id its own caller pinned, and the package is committed at   *)
(* that id or not at all.  TargetDeployment implements this specification. *)
(***************************************************************************)
CONSTANTS
  Threads,   \* callers
  Targets,   \* package ids a caller can pin
  None

VARIABLES
  phase,     \* of each caller's deployment
  pin,       \* the id it asked for
  answer,    \* the id its publish was told, or None
  placed     \* the id its last deployment was committed at, or None

vars == <<phase, pin, answer, placed>>

Init ==
  /\ phase = [t \in Threads |-> "idle"]
  /\ pin \in [Threads -> Targets]
  /\ answer = [t \in Threads |-> None]
  /\ placed = [t \in Threads |-> None]

Request(t, id) ==
  /\ phase[t] = "idle"
  /\ phase' = [phase EXCEPT ![t] = "pending"]
  /\ pin' = [pin EXCEPT ![t] = id]
  /\ UNCHANGED <<answer, placed>>

Publish(t) ==
  /\ phase[t] = "pending"
  /\ phase' = [phase EXCEPT ![t] = "told"]
  /\ answer' = [answer EXCEPT ![t] = pin[t]]
  /\ UNCHANGED <<pin, placed>>

Abort(t) ==
  /\ phase[t] \in {"pending", "told"}
  /\ phase' = [phase EXCEPT ![t] = "aborted"]
  /\ answer' = [answer EXCEPT ![t] = None]
  /\ UNCHANGED <<pin, placed>>

Finish(t) ==
  /\ phase[t] \in {"told", "aborted"}
  /\ phase' = [phase EXCEPT ![t] = "idle"]
  /\ placed' = [placed EXCEPT ![t] = answer[t]]
  /\ answer' = [answer EXCEPT ![t] = None]
  /\ UNCHANGED pin

Next ==
  \E t \in Threads :
    \/ \E id \in Targets : Request(t, id)
    \/ Publish(t) \/ Abort(t) \/ Finish(t)

Spec == Init /\ [][Next]_vars
=============================================================================
