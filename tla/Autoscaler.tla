----------------------------- MODULE Autoscaler -----------------------------
(***************************************************************************)
(* infrastructure/autoscaler/autoscale_executors.py: one process that goes   *)
(* round the executor families, reads the lag of each consumer group, asks   *)
(* docker how many containers the service has, and scales it to what the lag *)
(* asks for, unless it did so less than a cool-down ago.                     *)
(*                                                                           *)
(* The topics and the containers change between any two of its steps.  An    *)
(* exception ends the process; nothing but a new start of the whole system   *)
(* brings it back, and the time of the last scaling is forgotten.            *)
(***************************************************************************)
EXTENDS Integers

CONSTANTS
    NumRoutes,      \* executor families, each with a topic, a group and a service
    MinReplicas,    \* AUTOSCALER_MIN_REPLICAS_* of each route
    MaxReplicas,    \* AUTOSCALER_MAX_REPLICAS_*
    LagPerReplica,  \* AUTOSCALER_LAG_PER_REPLICA
    StartReplicas   \* EXECUTOR_*_REPLICAS of start_vortex.sh

Routes == 1..NumRoutes

\* Assumed where it is composed: in LoadControl.
AutoscalerAssumption ==
    /\ NumRoutes \in Nat \ {0}
    /\ MinReplicas \in [Routes -> Nat]
    /\ MaxReplicas \in [Routes -> Nat \ {0}]
    /\ \A k \in Routes : MinReplicas[k] <= MaxReplicas[k]
    /\ LagPerReplica \in Nat \ {0}
    /\ StartReplicas \in [Routes -> Nat]

VARIABLES
    appended,       \* appended[k]: messages ever appended to the topic of route k
    committed,      \* committed[k]: those its group has committed
    replicas,       \* replicas[k]: containers of the service of route k
    scaler,         \* how far the process has come in a round
    cooling         \* services that were scaled less than a cool-down ago (last_scaled_at)

scalerVars == <<scaler, cooling>>
vars == <<appended, committed, replicas, scalerVars>>

Off == [at |-> "off"]       \* ENABLE_EXECUTOR_AUTOSCALER is 0
Dead == [at |-> "dead"]
AtRoute(k) == [at |-> "ends", route |-> k]

Scaler ==
    [at : {"off", "dead"}]
    \cup [at : {"ends"}, route : Routes]
    \cup [at : {"commits"}, route : Routes, end : Nat]
    \cup [at : {"docker"}, route : Routes, lag : Nat]
    \cup [at : {"scale"}, route : Routes, target : Nat]

TypeOK ==
    /\ replicas \in [Routes -> Nat]
    /\ scaler \in Scaler
    /\ cooling \subseteq Routes

Init ==
    /\ replicas = StartReplicas
    /\ scaler \in {Off, AtRoute(1)}
    /\ cooling = {}

\* The next route, or after a pause the next round.
NextRoute(k) == AtRoute(IF k < NumRoutes THEN k + 1 ELSE 1)

-----------------------------------------------------------------------------

\* get_route_lag: end_offsets, then list_consumer_group_offsets.
ReadEnds ==
    /\ scaler.at = "ends"
    /\ scaler' = [at |-> "commits", route |-> scaler.route, end |-> appended[scaler.route]]
    /\ UNCHANGED <<appended, committed, replicas, cooling>>

LagOf(k, end) == IF end > committed[k] THEN end - committed[k] ELSE 0

ReadCommitted ==
    LET k == scaler.route
    IN  /\ scaler.at = "commits"
        /\ scaler' = [at |-> "docker", route |-> k, lag |-> LagOf(k, scaler.end)]
        /\ UNCHANGED <<appended, committed, replicas, cooling>>

\* Mutant: the quotient rounded down.
DesiredReplicasFloor(k, lag) ==
    LET wanted == lag \div LagPerReplica
    IN  IF wanted < MinReplicas[k] THEN MinReplicas[k]
        ELSE IF wanted > MaxReplicas[k] THEN MaxReplicas[k] ELSE wanted

\* Mutant: one to spare.
DesiredReplicasSpare(k, lag) ==
    LET wanted == lag \div LagPerReplica + 1
    IN  IF wanted < MinReplicas[k] THEN MinReplicas[k]
        ELSE IF wanted > MaxReplicas[k] THEN MaxReplicas[k] ELSE wanted

\* desired_replicas_for_route: the quotient rounded up, within the limits.
DesiredReplicas(k, lag) ==
    LET wanted == (lag + LagPerReplica - 1) \div LagPerReplica
    IN  IF wanted < MinReplicas[k] THEN MinReplicas[k]
        ELSE IF wanted > MaxReplicas[k] THEN MaxReplicas[k] ELSE wanted

\* get_current_replicas; then scale_service begins, or the route is left alone.
Decide ==
    LET k == scaler.route
        desired == DesiredReplicas(k, scaler.lag)
    IN  /\ scaler.at = "docker"
        /\ scaler' = IF desired # replicas[k] /\ k \notin cooling
                     THEN [at |-> "scale", route |-> k, target |-> desired]
                     ELSE NextRoute(k)
        /\ UNCHANGED <<appended, committed, replicas, cooling>>

\* docker compose up --scale returns.  The cool-down counts from before it began
\* and may be over by now.
Scale ==
    LET k == scaler.route
    IN  /\ scaler.at = "scale"
        /\ replicas' = [replicas EXCEPT ![k] = scaler.target]
        /\ cooling' \in {cooling \cup {k}, cooling}
        /\ scaler' = NextRoute(k)
        /\ UNCHANGED <<appended, committed>>

Between(m, n) == m..n \cup n..m

\* Kafka or docker raises; a scaling that had begun may have been done, or half done.
Dies ==
    /\ scaler.at \notin {"off", "dead"}
    /\ scaler' = Dead
    /\ cooling' = {}
    /\ IF scaler.at = "scale"
       THEN \E n \in Between(replicas[scaler.route], scaler.target) :
                replicas' = [replicas EXCEPT ![scaler.route] = n]
       ELSE UNCHANGED replicas
    /\ UNCHANGED <<appended, committed>>

CooldownEnds(k) ==
    /\ k \in cooling
    /\ cooling' = cooling \ {k}
    /\ UNCHANGED <<appended, committed, replicas, scaler>>

\* start_vortex.sh: a service with replicas of its own gets them, one without is left
\* as it is; the autoscaler, if it is enabled, begins anew.
Restart ==
    /\ replicas' = [k \in Routes |-> IF StartReplicas[k] > 0 THEN StartReplicas[k] ELSE replicas[k]]
    /\ scaler' = IF scaler = Off THEN Off ELSE AtRoute(1)
    /\ cooling' = {}

\* A service without a container serves nobody.
Serves(k) == replicas[k] > 0

Round == ReadEnds \/ ReadCommitted \/ Decide \/ Scale

Running == scaler.at \notin {"off", "dead"}

-----------------------------------------------------------------------------

\* What the autoscaler should come back to when no more submissions come.
Quiet == Running /\ \A k \in Routes : appended[k] = committed[k]
AtMinimum == \A k \in Routes : replicas[k] = MinReplicas[k]
=============================================================================
