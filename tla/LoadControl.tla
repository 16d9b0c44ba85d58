---------------------------- MODULE LoadControl ----------------------------
(***************************************************************************)
(* Throttle and Autoscaler around the submission topics: Django appends what *)
(* it admits, the executors that run commit it, and both the throttle and    *)
(* the autoscaler read the same lag, each in its own way and at its own time.*)
(* How an executor judges is module Executor; here it commits one message    *)
(* after the other as long as its service has a container, until the service *)
(* stalls: its executors may then go on judging but commit nothing.          *)
(***************************************************************************)
EXTENDS Integers, FiniteSets

CONSTANTS
    Threads, Students, Staff, NumRoutes, Configs, Rate,
    MinReplicas, MaxReplicas, LagPerReplica, StartReplicas,
    Bounds          \* bound: the deployments looked at, and of each one the threads that
                    \* take requests, the messages each topic may get, the times the
                    \* cache may raise for a user in a window, and the services that
                    \* may stall

VARIABLES
    appended, committed,
    published, cache, history, request, seen, exempt, granted, raised, overlaps,  \* Throttle
    replicas, scaler, cooling,                                              \* Autoscaler
    stalled         \* services that commit nothing, whatever containers they have

Web == INSTANCE Throttle
Scaling == INSTANCE Autoscaler

ASSUME LoadAssumption ==
    /\ Web!ThrottleAssumption
    /\ Scaling!AutoscalerAssumption
    /\ DOMAIN Bounds \subseteq BOOLEAN \X BOOLEAN
    /\ \A d \in DOMAIN Bounds :
          Bounds[d] \in [threads : SUBSET Threads, messages : [Web!Routes -> Nat],
                         raises : Nat, stalls : SUBSET Web!Routes]

webVars == <<published, cache, history, request, seen, exempt, granted, raised, overlaps>>
autoVars == <<replicas, scaler, cooling>>
vars == <<appended, committed, webVars, autoVars, stalled>>

\* Whether there are a control plane and an autoscaler: settings of a deployment.
Deployment == <<published # Web!NoControlPlane, scaler # Scaling!Off>>

Init == Web!Init /\ Scaling!Init /\ stalled = {} /\ Deployment \in DOMAIN Bounds

TypeOK == Web!TypeOK /\ Scaling!TypeOK /\ stalled \subseteq Web!Routes

-----------------------------------------------------------------------------

Arrives(t) ==
    /\ t \in Bounds[Deployment].threads
    /\ Web!Arrivals(t)
    /\ UNCHANGED <<autoVars, stalled>>

Proceeds(t) ==
    /\ Web!Proceeds(t)
    /\ \A k \in Web!Routes : appended'[k] <= Bounds[Deployment].messages[k]
    /\ \A u \in Students : raised'[u] <= Bounds[Deployment].raises
    /\ UNCHANGED <<autoVars, stalled>>

\* An executor of route k commits a message.
Judge(k) ==
    /\ Scaling!Serves(k) /\ k \notin stalled
    /\ Web!Commit(k)
    /\ UNCHANGED <<autoVars, stalled>>

\* The executors of route k commit nothing from now on: the partition has come back, after
\* a scaling, to a container whose tracker waits for an offset that another one settled
\* (main.py:51), or the next message is a job whose failure cannot be reported, as its
\* row was deleted (main.py:244-256).
Stalls(k) ==
    /\ Scaling!Serves(k) /\ k \in Bounds[Deployment].stalls \ stalled
    /\ stalled' = stalled \cup {k}
    /\ UNCHANGED <<appended, committed, webVars, autoVars>>

\* A container that begins from what is committed gets over it, if anything can.
Recovers(k) ==
    /\ k \in stalled
    /\ stalled' = stalled \ {k}
    /\ UNCHANGED <<appended, committed, webVars, autoVars>>

Around == (Web!PublishConfig \/ Web!TimePasses) /\ UNCHANGED <<autoVars, stalled>>

Scales == Scaling!Round /\ UNCHANGED <<webVars, stalled>>
ScalerDies == Scaling!Dies /\ UNCHANGED <<webVars, stalled>>
CooldownEnds(k) == Scaling!CooldownEnds(k) /\ UNCHANGED <<webVars, stalled>>

\* start_vortex.sh ends the web server and the autoscaler, sets the replicas, and
\* starts both again; what is in the topics stays.
StartVortex == Web!RestartWeb /\ Scaling!Restart /\ UNCHANGED stalled

Next ==
    \/ \E t \in Threads : Arrives(t) \/ Proceeds(t)
    \/ \E k \in Web!Routes : Judge(k) \/ Stalls(k) \/ Recovers(k) \/ CooldownEnds(k)
    \/ Around
    \/ Scales
    \/ ScalerDies
    \/ StartVortex

Spec == Init /\ [][Next]_vars

\* Django does not stand still while a request is in it, nor the executors of a service
\* that has not stalled while there are messages; the autoscaler goes on until it dies,
\* and time passes.  One thread may be slower than any other, nobody need submit, and
\* nothing makes a service that has stalled recover.
Fairness ==
    /\ WF_vars(\E t \in Threads : Proceeds(t))
    /\ \A k \in Web!Routes : WF_vars(Judge(k))
    /\ WF_vars(\E k \in Web!Routes : CooldownEnds(k))
    /\ WF_vars(Web!CacheExpires /\ UNCHANGED <<autoVars, stalled>>)
    /\ WF_vars(Scales)

FairSpec == Spec /\ Fairness

-----------------------------------------------------------------------------
(* What the two keep to (the comments in Throttle and Autoscaler say more). *)

\* A submission is limited for the backlog only when that backlog was there.
BusyIsReal == Web!BusyIsReal

\* Requests that looked at the same queue overshoot its threshold by one each.
OvershootBounded == Web!OvershootBounded

\* The rate of a user is exceeded by what overlapping requests and a failing cache allow.
RateHolds == Web!RateHolds

\* From some time on nothing of the backlog of route k is committed.
StandsStill(k) ==
    <>[](appended[k] > committed[k]) /\ <>[][committed'[k] = committed[k]]_vars

\* The autoscaler abandons no backlog, though it scales services down to nothing on lags
\* that it read before messages came (autoscale_executors.py:136-152).  Where messages
\* are left for good, its process is dead, or the service has containers for good and
\* it is their executors that commit nothing.
NoBacklogAbandoned ==
    \A k \in Web!Routes :
        StandsStill(k) => \/ []<>(scaler = Scaling!Dead)
                          \/ <>[]Scaling!Serves(k) /\ []<>(k \in stalled)

\* A change of the configuration gets through: as long as requests come and the
\* control plane answers them, all of them in the end use what it published last,
\* although a slow answer may put an older version into the cache, with a new term,
\* after a newer one (integrations.py:112-129).
ConfigConverges ==
    (/\ \E t \in Threads : []<>(request[t].at = "ends") /\ []<>(request[t] = Web!Idle)
     /\ <>[][~StartVortex /\ \A t \in Threads : ~Web!FetchFails(t)]_vars)
    => <>[](published \in {cache.version, Web!NoControlPlane})

\* When nothing more comes, every service goes back to its fewest replicas and
\* stays there, whatever was cooling down and whatever lag was read before
\* (autoscale_executors.py:138-153).
SettlesAtMinimum ==
    (<>[]Scaling!Quiet /\ <>[][~StartVortex]_vars) => <>[]Scaling!AtMinimum
=============================================================================
