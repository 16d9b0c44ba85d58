------------------------- MODULE LoadControlProofs -------------------------
(***************************************************************************)
(* The theorems about LoadControl, for any threads, students, topics,       *)
(* configurations, rate, replicas and deployments: what the throttle keeps  *)
(* to, with an autoscaler and executors at work at the other end of the     *)
(* topics.                                                                  *)
(***************************************************************************)
EXTENDS LoadControl, FiniteSetTheorems, WellFoundedInduction, TLAPS

-----------------------------------------------------------------------------
(* The invariants.                                                          *)

\* What the control plane answers is a version, as nobody asks one that is not there;
\* and nobody writes a history back that is longer than the rate.
WebTyped ==
    /\ Web!TypeOK
    /\ \A t \in Threads :
          /\ request[t].at = "asking" => published # Web!NoControlPlane
          /\ request[t].at = "rateStores" => request[t].entries < Rate

\* What a thread has added up, and what the topic it is at will add, was there
\* when the thread looked at the end of each topic.
SeenInv ==
    \A t \in Threads :
        LET q == request[t]
        IN  /\ q.at = "ends" => q.depth <= seen[t]
            /\ q.at = "commits" => q.depth + Web!DepthOf(q.route, q.end) <= seen[t]

\* Thread t holds the history of user u, which it has read and is to write back.
HoldsHistory(t, u) == request[t].at = "rateStores" /\ request[t].user = u

Holders(u) == {t \in Threads : HoldsHistory(t, u)}

\* So many admissions (g) are accounted for by the h entries of a history, o overlaps and
\* r failures of the cache, and n more requests may each take a history back.
Accounted(g, h, o, r, n) == g + Rate * n <= h + Rate * o + r

\* A request that writes a history back may take out what others have written since: each
\* one that holds it costs an overlap, but for the first one to write while all of those
\* that hold the history have the one that is there.
RateInv ==
    \A u \in Students :
        LET n == Cardinality(Holders(u))
        IN  \/ Accounted(granted[u], history[u], overlaps[u], raised[u], n)
            \/ /\ Accounted(granted[u], history[u], overlaps[u] + 1, raised[u], n)
               /\ Holders(u) # {}
               /\ \A t \in Holders(u) : request[t].entries = history[u]
-----------------------------------------------------------------------------
(* The types of the throttle.                                               *)

LEMMA Assumed ==
    /\ Staff \subseteq Students /\ NumRoutes \in Nat \ {0} /\ 0 \in Web!Versions /\ Rate \in Nat \ {0}
    /\ \A v \in Web!Versions : v \in Nat /\ Configs[v] \in Web!Config
    /\ 1 \in Web!Routes
    /\ \A k \in Web!Routes : k < NumRoutes => k + 1 \in Web!Routes
BY LoadAssumption DEF LoadAssumption, Web!ThrottleAssumption, Web!Versions, Web!Routes

\* What a request holds follows from how far it has come.
LEMMA Held ==
    ASSUME NEW q \in Web!Request
    PROVE  /\ q.at \in {"asking", "answered", "ends", "commits", "limiter", "rate", "rateStores"}
                 => q.user \in Students
           /\ q.at \in {"answered", "ends", "commits", "limiter"} => q.version \in Web!Versions
           /\ q.at \in {"ends", "commits"} => q.route \in Web!Routes /\ q.depth \in Nat
           /\ q.at = "commits" => q.end \in Nat
           /\ q.at = "rateStores" => q.entries \in Nat
BY DEF Web!Request

LEMMA Made ==
    /\ Web!Idle \in Web!Request
    /\ \A by \in {"queue", "other"} : Web!Admitted(by) \in Web!Request
    /\ \A u \in Students : [at |-> "asking", user |-> u] \in Web!Request
    /\ \A u \in Students : [at |-> "rate", user |-> u] \in Web!Request
    /\ \A u \in Students, n \in Nat : [at |-> "rateStores", user |-> u, entries |-> n] \in Web!Request
    /\ \A u \in Students, v \in Web!Versions :
          /\ [at |-> "answered", user |-> u, version |-> v] \in Web!Request
          /\ [at |-> "limiter", user |-> u, version |-> v] \in Web!Request
    /\ \A u \in Students, v \in Web!Versions, k \in Web!Routes, depth \in Nat :
          /\ Web!Reading(u, v, k, depth) \in Web!Request
          /\ \A end \in Nat : [at |-> "commits", user |-> u, version |-> v, route |-> k,
                                depth |-> depth, end |-> end] \in Web!Request
BY DEF Web!Request, Web!Idle, Web!Admitted, Web!Reading

LEMMA LimitType ==
    ASSUME NEW u \in Students, NEW v
    PROVE  Web!LocalLimit(u, v) \in Web!Request /\ Web!LocalLimit(u, v).at \in {"rate", "admitted"}
BY Made DEF Web!LocalLimit, Web!Admitted

LEMMA DepthType ==
    ASSUME NEW u \in Students, NEW v \in Web!Versions, NEW depth, NEW failed
    PROVE  LET next == Web!AfterDepth(u, v, depth, failed)
           IN  next \in Web!Request /\ next.at \in {"limiter", "rate", "admitted"}
<1> DEFINE limiter == [at |-> "limiter", user |-> u, version |-> v]
<1>1. Web!AfterDepth(u, v, depth, failed)
        \in {Web!Admitted("queue"), limiter, Web!LocalLimit(u, v)}
  BY DEF Web!AfterDepth
<1>2. limiter \in Web!Request /\ limiter.at = "limiter"
  BY Made
<1>3. Web!Admitted("queue") \in Web!Request /\ Web!Admitted("queue").at = "admitted"
  BY Made DEF Web!Admitted
<1> HIDE DEF limiter
<1> QED BY <1>1, <1>2, <1>3, LimitType

\* Thread t goes on to next, and the history of what it has seen goes with it.
LEMMA StepsEffect ==
    ASSUME Web!TypeOK, NEW t \in Threads, NEW next \in Web!Request, Web!Steps(t, next)
    PROVE  /\ request' \in [Threads -> Web!Request] /\ seen' \in [Threads -> Nat]
           /\ request'[t] = next
           /\ \A s \in Threads \ {t} : request'[s] = request[s] /\ seen'[s] = seen[s]
           /\ seen'[t] = IF ~Web!Counts(next) THEN 0
                         ELSE IF request[t].at = "ends" THEN seen[t] + Web!Backlog[request[t].route]
                         ELSE seen[t]
<1> DEFINE n == IF ~Web!Counts(next) THEN 0
                ELSE IF request[t].at = "ends" THEN seen[t] + Web!Backlog[request[t].route]
                ELSE seen[t]
<1>1. request \in [Threads -> Web!Request] /\ seen \in [Threads -> Nat]
  BY DEF Web!TypeOK
<1>2. request[t].at = "ends" => Web!Backlog[request[t].route] \in Nat
  <2>1. ASSUME NEW k \in Web!Routes PROVE Web!Backlog[k] \in Nat
    <3>1. appended[k] \in Nat /\ committed[k] \in Nat /\ committed[k] <= appended[k]
      BY DEF Web!TypeOK
    <3> QED BY <3>1 DEF Web!Backlog
  <2> QED BY <1>1, <2>1, Held
<1>3. n \in Nat
  BY <1>1, <1>2
<1>4. seen' = [seen EXCEPT ![t] = n] /\ request' = [request EXCEPT ![t] = next]
  BY DEF Web!Steps
<1> HIDE DEF n
<1>5. seen'[t] = n
  BY <1>1, <1>4
<1>6. /\ request' \in [Threads -> Web!Request] /\ seen' \in [Threads -> Nat]
      /\ request'[t] = next
      /\ \A s \in Threads \ {t} : request'[s] = request[s] /\ seen'[s] = seen[s]
  BY <1>1, <1>3, <1>4
<1> QED BY <1>5, <1>6 DEF n

\* A request that a short queue has let through.
FromQueue(q) == q.at = "admitted" /\ q.by = "queue"

\* ... and neither a limit nor a queue that could not be read has.
LEMMA FailureIsNoDepth ==
    ASSUME NEW u \in Students, NEW v, NEW depth
    PROVE  /\ ~FromQueue(Web!LocalLimit(u, v))
           /\ ~FromQueue(Web!AfterDepth(u, v, depth, TRUE))
<1>1. ~FromQueue(Web!LocalLimit(u, v))
  BY DEF Web!LocalLimit, Web!Admitted, FromQueue
<1>2. ~FromQueue([at |-> "limiter", user |-> u, version |-> v])
  BY DEF FromQueue
<1> QED BY <1>1, <1>2 DEF Web!AfterDepth

LEMMA ArriveType ==
    ASSUME Web!TypeOK, NEW t \in Threads, Web!Arrivals(t)
    PROVE  \E next \in Web!Request :
               /\ Web!Goes(t, next) /\ UNCHANGED Web!configVars /\ request[t].at = "idle"
               /\ next.at = "ends" => next.depth = 0 /\ next.route = 1
               /\ next.at = "asking" => published # Web!NoControlPlane
               /\ next.at \in {"asking", "ends", "admitted"} /\ ~FromQueue(next)
<1>1. PICK u \in Students : Web!Arrive(t, u) \/ Web!ArriveStaff(t, u)
  BY DEF Web!Arrivals
<1>2. request[t].at = "idle" /\ UNCHANGED Web!configVars
  BY <1>1 DEF Web!Arrive, Web!ArriveStaff, Web!Idle
<1>3. \/ \E v \in Web!Versions : Web!Goes(t, Web!Reading(u, v, 1, 0))
      \/ Web!Goes(t, [at |-> "asking", user |-> u]) /\ published # Web!NoControlPlane
      \/ Web!Goes(t, Web!Admitted("other"))
  <2>1. cache.version \in Web!Versions /\ 0 \in Web!Versions
    BY Assumed DEF Web!TypeOK
  <2> QED BY <1>1, <2>1 DEF Web!Arrive, Web!ArriveStaff, Web!BeginsToRead
<1>4. CASE \E v \in Web!Versions : Web!Goes(t, Web!Reading(u, v, 1, 0))
  <2>1. PICK v \in Web!Versions : Web!Goes(t, Web!Reading(u, v, 1, 0))
    BY <1>4
  <2> DEFINE next == Web!Reading(u, v, 1, 0)
  <2>2. next \in Web!Request /\ next.depth = 0 /\ next.route = 1 /\ next.at = "ends"
    BY Made, Assumed DEF Web!Reading
  <2>3. ~FromQueue(next)
    BY <2>2 DEF FromQueue
  <2> HIDE DEF next
  <2> QED BY <2>1, <2>2, <2>3, <1>2 DEF next
<1>5. CASE Web!Goes(t, [at |-> "asking", user |-> u]) /\ published # Web!NoControlPlane
  <2> DEFINE next == [at |-> "asking", user |-> u]
  <2>1. next \in Web!Request /\ next.at = "asking" /\ ~FromQueue(next)
    BY Made DEF FromQueue
  <2> HIDE DEF next
  <2> QED BY <2>1, <1>2, <1>5 DEF next
<1>6. CASE Web!Goes(t, Web!Admitted("other"))
  <2> DEFINE next == Web!Admitted("other")
  <2>1. next \in Web!Request /\ next.at = "admitted" /\ ~FromQueue(next)
    BY Made DEF Web!Admitted, FromQueue
  <2> HIDE DEF next
  <2> QED BY <2>1, <1>2, <1>6 DEF next
<1> QED BY <1>3, <1>4, <1>5, <1>6

\* The control plane has answered, or has not.
LEMMA FetchType ==
    ASSUME WebTyped, NEW t \in Threads, Web!Fetches(t) \/ Web!FetchFails(t)
    PROVE  \E next \in Web!Request :
               /\ Web!Goes(t, next) /\ request[t].at \in {"asking", "answered"}
               /\ published' = published /\ cache' \in [version : Web!Versions, fresh : BOOLEAN]
               /\ next.at = "ends" => next.depth = 0 /\ next.route = 1
               /\ next.at \in {"answered", "ends"}
<1> DEFINE q == request[t]
<1>0. q \in Web!Request /\ cache \in [version : Web!Versions, fresh : BOOLEAN]
      /\ cache.version \in Web!Versions
  BY DEF WebTyped, Web!TypeOK
<1>1. CASE Web!ControlPlaneAnswers(t)
  <2> DEFINE next == [at |-> "answered", user |-> q.user, version |-> published]
  <2>1. q.at = "asking" /\ Web!Goes(t, next) /\ UNCHANGED Web!configVars
    BY <1>1 DEF Web!ControlPlaneAnswers
  <2>2. published \in Web!Versions
    BY <2>1 DEF WebTyped, Web!TypeOK
  <2>3. next \in Web!Request /\ next.at = "answered"
    BY <1>0, <2>1, <2>2, Held, Made
  <2> HIDE DEF next
  <2> QED BY <1>0, <2>1, <2>3 DEF Web!configVars
<1>2. CASE Web!StoreConfig(t) \/ Web!FetchFails(t)
  <2>0. q.version \in Web!Versions \/ q.at # "answered"
    BY <1>0, Held
  <2>1. PICK v \in Web!Versions : Web!Goes(t, Web!Reading(q.user, v, 1, 0))
    BY <1>0, <1>2, <2>0 DEF Web!StoreConfig, Web!FetchFails, Web!BeginsToRead
  <2>2. q.at \in {"asking", "answered"} /\ published' = published
    BY <1>2 DEF Web!StoreConfig, Web!FetchFails, Web!configVars
  <2>3. cache' \in [version : Web!Versions, fresh : BOOLEAN]
    <3>1. CASE Web!StoreConfig(t)
      <4>1. cache' = [version |-> q.version, fresh |-> TRUE] /\ q.version \in Web!Versions
        BY <2>0, <3>1 DEF Web!StoreConfig
      <4> QED BY <4>1
    <3>2. CASE Web!FetchFails(t)
      BY <1>0, <3>2 DEF Web!FetchFails, Web!configVars
    <3> QED BY <1>2, <3>1, <3>2
  <2> DEFINE next == Web!Reading(q.user, v, 1, 0)
  <2>4. next \in Web!Request /\ next.depth = 0 /\ next.route = 1 /\ next.at = "ends"
    BY <1>0, <2>2, Held, Made, Assumed DEF Web!Reading
  <2> HIDE DEF next
  <2> QED BY <2>1, <2>2, <2>3, <2>4 DEF next
<1> QED BY <1>1, <1>2 DEF Web!Fetches

\* A topic's share of the depth.
LEMMA Depths ==
    ASSUME Web!TypeOK, NEW k \in Web!Routes, NEW end \in Nat
    PROVE  /\ committed[k] \in Nat /\ appended[k] \in Nat /\ committed[k] <= appended[k]
           /\ Web!DepthOf(k, end) \in Nat
           /\ Web!DepthOf(k, end) = IF end > committed[k] THEN end - committed[k] ELSE 0
           /\ Web!Backlog[k] = appended[k] - committed[k]
           /\ Web!DepthOf(k, appended[k]) = Web!Backlog[k]
<1>1. committed[k] \in Nat /\ appended[k] \in Nat /\ committed[k] <= appended[k]
  BY DEF Web!TypeOK
<1> QED BY <1>1 DEF Web!DepthOf, Web!Backlog

LEMMA ReadEndsType ==
    ASSUME Web!TypeOK, NEW t \in Threads, Web!ReadEnds(t)
    PROVE  \E next \in Web!Request :
               /\ Web!Goes(t, next) /\ UNCHANGED Web!configVars /\ request[t].at = "ends"
               /\ next.at = "commits" /\ next.route = request[t].route
               /\ next.depth = request[t].depth /\ next.end = appended[request[t].route]
<1> DEFINE q == request[t]
           next == [at |-> "commits", user |-> q.user, version |-> q.version,
                    route |-> q.route, depth |-> q.depth, end |-> appended[q.route]]
<1>1. q \in Web!Request
  BY DEF Web!TypeOK
<1>2. q.at = "ends" /\ Web!Goes(t, next) /\ UNCHANGED Web!configVars
  BY DEF Web!ReadEnds
<1>3. q.user \in Students /\ q.version \in Web!Versions /\ q.route \in Web!Routes /\ q.depth \in Nat
  BY <1>1, <1>2, Held
<1>4. appended[q.route] \in Nat
  BY <1>3 DEF Web!TypeOK
<1>5. next \in Web!Request
  BY <1>3, <1>4, Made
<1>6. next.at = "commits" /\ next.route = q.route /\ next.depth = q.depth /\ next.end = appended[q.route]
  OBVIOUS
<1> HIDE DEF next
<1> QED BY <1>2, <1>5, <1>6

LEMMA ReadCommittedType ==
    ASSUME Web!TypeOK, NEW t \in Threads, Web!ReadCommitted(t)
    PROVE  LET q == request[t]
               depth == q.depth + Web!DepthOf(q.route, q.end)
           IN  \E next \in Web!Request :
                  /\ Web!Goes(t, next) /\ UNCHANGED Web!configVars /\ q.at = "commits" /\ depth \in Nat
                  /\ \/ next.at = "ends" /\ next.depth = depth /\ next.route = q.route + 1
                     \/ next = Web!AfterDepth(q.user, q.version, depth, FALSE)
                        /\ next.at \in {"limiter", "rate", "admitted"} /\ q.route = NumRoutes
<1> DEFINE q == request[t]
           depth == q.depth + Web!DepthOf(q.route, q.end)
           reading == Web!Reading(q.user, q.version, q.route + 1, depth)
           after == Web!AfterDepth(q.user, q.version, depth, FALSE)
<1>1. q \in Web!Request
  BY DEF Web!TypeOK
<1>2. q.at = "commits" /\ UNCHANGED Web!configVars
      /\ Web!Goes(t, IF q.route < NumRoutes THEN reading ELSE after)
  BY DEF Web!ReadCommitted
<1>3. q.user \in Students /\ q.version \in Web!Versions /\ q.route \in Web!Routes /\ q.depth \in Nat
      /\ q.end \in Nat
  BY <1>1, <1>2, Held
<1>4. depth \in Nat
  <2>1. Web!DepthOf(q.route, q.end) \in Nat
    BY <1>3, Depths
  <2> QED BY <1>3, <2>1
<1> HIDE DEF depth
<1>5. q.route < NumRoutes => reading \in Web!Request
  BY <1>3, <1>4, Made, Assumed
<1>6. reading.at = "ends" /\ reading.depth = depth /\ reading.route = q.route + 1
  BY DEF Web!Reading
<1>7. after \in Web!Request /\ after.at \in {"limiter", "rate", "admitted"}
  BY <1>3, DepthType
<1> HIDE DEF reading, after
<1>8. CASE q.route < NumRoutes
  BY <1>2, <1>4, <1>5, <1>6, <1>8 DEF depth
<1>9. CASE ~(q.route < NumRoutes)
  <2>1. q.route = NumRoutes
    BY <1>3, <1>9, Assumed DEF Web!Routes
  <2> QED BY <1>2, <1>4, <1>7, <1>9, <2>1 DEF depth, after
<1> QED BY <1>8, <1>9

\* Steps that leave the queue and the rate limit's history alone.
LEMMA OtherType ==
    ASSUME Web!TypeOK, NEW t \in Threads,
           \/ Web!KafkaRaises(t) \/ Web!LimiterAnswers(t) \/ Web!LimiterFails(t) \/ Web!Finish(t)
    PROVE  \E next \in Web!Request :
               /\ Web!Goes(t, next) /\ UNCHANGED Web!configVars
               /\ next.at \in {"limiter", "rate", "admitted", "idle"} /\ ~FromQueue(next)
<1> DEFINE q == request[t]
<1>1. q \in Web!Request
  BY DEF Web!TypeOK
<1>2. CASE Web!KafkaRaises(t)
  <2>1. PICK depth : Web!Goes(t, Web!AfterDepth(q.user, q.version, depth, TRUE))
    BY <1>2 DEF Web!KafkaRaises
  <2>2. q.user \in Students /\ q.version \in Web!Versions /\ UNCHANGED Web!configVars
    BY <1>1, <1>2, Held DEF Web!KafkaRaises
  <2>3. Web!AfterDepth(q.user, q.version, depth, TRUE) \in Web!Request
        /\ Web!AfterDepth(q.user, q.version, depth, TRUE).at \in {"limiter", "rate", "admitted"}
        /\ ~FromQueue(Web!AfterDepth(q.user, q.version, depth, TRUE))
    BY <2>2, DepthType, FailureIsNoDepth
  <2> QED BY <2>1, <2>2, <2>3
<1>3. CASE Web!LimiterAnswers(t) \/ Web!LimiterFails(t)
  <2>1. q.at = "limiter" /\ UNCHANGED Web!configVars
    BY <1>3 DEF Web!LimiterAnswers, Web!LimiterFails
  <2>2. \/ Web!Goes(t, Web!Admitted("other")) \/ Web!Goes(t, Web!Idle)
        \/ Web!Goes(t, Web!LocalLimit(q.user, q.version))
    BY <1>3 DEF Web!LimiterAnswers, Web!LimiterFails, Web!Refused
  <2>3. q.user \in Students
    BY <1>1, <2>1, Held
  <2>4. /\ Web!LocalLimit(q.user, q.version) \in Web!Request
        /\ Web!LocalLimit(q.user, q.version).at \in {"rate", "admitted"}
        /\ ~FromQueue(Web!LocalLimit(q.user, q.version))
    BY <2>3, LimitType, FailureIsNoDepth
  <2>5. /\ Web!Admitted("other") \in Web!Request /\ Web!Admitted("other").at = "admitted"
        /\ Web!Idle \in Web!Request /\ Web!Idle.at = "idle"
        /\ ~FromQueue(Web!Admitted("other")) /\ ~FromQueue(Web!Idle)
    BY Made DEF Web!Admitted, Web!Idle, FromQueue
  <2> QED BY <2>1, <2>2, <2>4, <2>5
<1>4. CASE Web!Finish(t)
  <2>1. UNCHANGED Web!configVars /\ Web!Goes(t, Web!Idle)
    BY <1>4 DEF Web!Finish
  <2>2. Web!Idle \in Web!Request /\ Web!Idle.at = "idle" /\ ~FromQueue(Web!Idle)
    BY Made DEF Web!Idle, FromQueue
  <2> QED BY <2>1, <2>2
<1> QED BY <1>2, <1>3, <1>4
-----------------------------------------------------------------------------
(* The throttle's invariant, step by step.                                  *)

WebInv == WebTyped /\ SeenInv /\ RateInv

\* The sums fit: what thread t holds was there.
Sums(q, n) ==
    /\ q.at = "ends" => q.depth <= n
    /\ q.at = "commits" => q.depth + Web!DepthOf(q.route, q.end) <= n

\* What a request that may take a history back costs.
LEMMA Costs ==
    /\ Rate \in Nat
    /\ \A n \in Nat : Rate * n \in Nat /\ Rate * (n + 1) = Rate * n + Rate
    /\ \A m, n \in Nat : m <= n => Rate * m <= Rate * n
<1>1. Rate \in Nat
  BY Assumed
<1>2. \A n \in Nat : Rate * n \in Nat /\ Rate * (n + 1) = Rate * n + Rate
  BY <1>1
<1>3. ASSUME NEW m \in Nat, NEW n \in Nat, m <= n PROVE Rate * m <= Rate * n
  <2>1. n - m \in Nat /\ n = m + (n - m)
    BY <1>3
  <2>2. Rate * n = Rate * m + Rate * (n - m) /\ Rate * (n - m) \in Nat /\ Rate * m \in Nat
    BY <1>1, <2>1
  <2> QED BY <2>2
<1> QED BY <1>1, <1>2, <1>3

\* The steps of the account: a request more that holds the history, for an overlap; one
\* less, with or without its entry, or with an entry that others have lost theirs for.
LEMMA Account ==
    ASSUME NEW g \in Nat, NEW h \in Nat, NEW o \in Nat, NEW r \in Nat, NEW n \in Nat
    PROVE  /\ Accounted(g, h, o, r, n) => Accounted(g, h, o + 1, r, n + 1)
           /\ \A m \in Nat : m <= n /\ Accounted(g, h, o, r, n) => Accounted(g, h, o, r, m)
           /\ \A m \in Nat : m < n /\ Accounted(g, h, o + 1, r, n) => Accounted(g, h, o, r, m)
           /\ Accounted(g, h, o, r, n) => Accounted(g + 1, h, o, r + 1, n)
           /\ Accounted(g, h, o + 1, r, n + 1) => Accounted(g + 1, h + 1, o, r, n)
           /\ \A e \in Nat : h <= Rate /\ Accounted(g, h, o, r, n + 1) => Accounted(g + 1, e + 1, o, r, n)
<1> DEFINE c(x) == Rate * x
<1>1. /\ Rate \in Nat
      /\ \A x \in Nat : c(x) \in Nat /\ c(x + 1) = c(x) + Rate
      /\ \A x, y \in Nat : x <= y => c(x) <= c(y)
  BY Costs
<1>2. \A g1, h1, o1, r1, n1 : Accounted(g1, h1, o1, r1, n1) <=> g1 + c(n1) <= h1 + c(o1) + r1
  BY DEF Accounted
<1> HIDE DEF c
<1>3. Accounted(g, h, o, r, n) => Accounted(g, h, o + 1, r, n + 1)
  <2>1. Accounted(g, h, o + 1, r, n + 1) <=> g + c(n + 1) <= h + c(o + 1) + r
    BY <1>2
  <2> QED BY <1>1, <1>2, <2>1
<1>4. ASSUME NEW m \in Nat, m <= n, Accounted(g, h, o, r, n) PROVE Accounted(g, h, o, r, m)
  <2>1. c(m) <= c(n) /\ c(m) \in Nat /\ c(n) \in Nat /\ c(o) \in Nat
    BY <1>1, <1>4
  <2>2. g + c(n) <= h + c(o) + r
    BY <1>2, <1>4
  <2>3. g + c(m) <= h + c(o) + r
    BY <2>1, <2>2
  <2> QED BY <1>2, <2>3
<1>5. ASSUME NEW m \in Nat, m < n, Accounted(g, h, o + 1, r, n) PROVE Accounted(g, h, o, r, m)
  <2>1. m + 1 \in Nat /\ m + 1 <= n
    BY <1>5
  <2>2. c(m + 1) <= c(n) /\ c(m + 1) = c(m) + Rate /\ c(o + 1) = c(o) + Rate
        /\ c(m) \in Nat /\ c(n) \in Nat /\ c(o) \in Nat
    BY <1>1, <2>1
  <2>3. g + c(n) <= h + c(o + 1) + r
    BY <1>2, <1>5
  <2>4. g + c(m) <= h + c(o) + r
    BY <1>1, <2>2, <2>3
  <2> QED BY <1>2, <2>4
<1>6. Accounted(g, h, o, r, n) => Accounted(g + 1, h, o, r + 1, n)
  <2>1. Accounted(g + 1, h, o, r + 1, n) <=> g + 1 + c(n) <= h + c(o) + (r + 1)
    BY <1>2
  <2> QED BY <1>1, <1>2, <2>1
<1>7. Accounted(g, h, o + 1, r, n + 1) => Accounted(g + 1, h + 1, o, r, n)
  <2>1. Accounted(g, h, o + 1, r, n + 1) <=> g + c(n + 1) <= h + c(o + 1) + r
    BY <1>2
  <2>2. Accounted(g + 1, h + 1, o, r, n) <=> g + 1 + c(n) <= h + 1 + c(o) + r
    BY <1>2
  <2> QED BY <1>1, <2>1, <2>2
<1>8. ASSUME NEW e \in Nat, h <= Rate, Accounted(g, h, o, r, n + 1)
      PROVE  Accounted(g + 1, e + 1, o, r, n)
  <2>1. g + c(n + 1) <= h + c(o) + r
    BY <1>2, <1>8
  <2>2. c(n + 1) = c(n) + Rate /\ c(n) \in Nat /\ c(o) \in Nat
    BY <1>1
  <2>3. g + 1 + c(n) <= e + 1 + c(o) + r
    BY <1>1, <1>8, <2>1, <2>2
  <2> QED BY <1>2, <2>3
<1> QED BY <1>3, <1>4, <1>5, <1>6, <1>7, <1>8

\* What the account of a user is made of.
LEMMA AccountType ==
    ASSUME Web!TypeOK, NEW u \in Students
    PROVE  /\ granted[u] \in Nat /\ history[u] \in Nat /\ history[u] <= Rate
           /\ overlaps[u] \in Nat /\ raised[u] \in Nat
           /\ IsFiniteSet(Holders(u)) /\ Cardinality(Holders(u)) \in Nat
<1>1. IsFiniteSet(Threads)
  BY LoadAssumption DEF LoadAssumption, Web!ThrottleAssumption, IsFiniteSet, Web!IsFiniteSet
<1>2. Holders(u) \subseteq Threads
  BY DEF Holders
<1>3. IsFiniteSet(Holders(u)) /\ Cardinality(Holders(u)) \in Nat
  BY <1>1, <1>2, FS_Subset, FS_CardinalityType
<1> QED BY <1>3, Assumed DEF Web!TypeOK

\* A request less that holds the history takes nothing from the account.
LEMMA FewerHold ==
    ASSUME Web!TypeOK, NEW u \in Students, NEW H, H \subseteq Holders(u),
           LET n == Cardinality(Holders(u))
           IN  \/ Accounted(granted[u], history[u], overlaps[u], raised[u], n)
               \/ /\ Accounted(granted[u], history[u], overlaps[u] + 1, raised[u], n)
                  /\ Holders(u) # {}
                  /\ \A t \in Holders(u) : request[t].entries = history[u]
    PROVE  LET n == Cardinality(H)
           IN  \/ Accounted(granted[u], history[u], overlaps[u], raised[u], n)
               \/ /\ Accounted(granted[u], history[u], overlaps[u] + 1, raised[u], n)
                  /\ H # {}
                  /\ \A t \in H : request[t].entries = history[u]
<1>1. /\ granted[u] \in Nat /\ history[u] \in Nat /\ overlaps[u] \in Nat /\ raised[u] \in Nat
      /\ IsFiniteSet(Holders(u)) /\ Cardinality(Holders(u)) \in Nat
  BY AccountType
<1>2. Cardinality(H) \in Nat /\ Cardinality(H) <= Cardinality(Holders(u))
  BY <1>1, FS_Subset, FS_CardinalityType
<1>3. H = {} /\ Holders(u) # {} => Cardinality(H) < Cardinality(Holders(u))
  BY <1>1, FS_EmptySet
<1>4. CASE Accounted(granted[u], history[u], overlaps[u], raised[u], Cardinality(Holders(u)))
  BY <1>1, <1>2, <1>4, Account
<1>5. CASE /\ Accounted(granted[u], history[u], overlaps[u] + 1, raised[u], Cardinality(Holders(u)))
           /\ Holders(u) # {}
           /\ \A t \in Holders(u) : request[t].entries = history[u]
  <2>1. overlaps[u] + 1 \in Nat
    BY <1>1
  <2>2. Accounted(granted[u], history[u], overlaps[u] + 1, raised[u], Cardinality(H))
    BY <1>1, <1>2, <1>5, <2>1, Account
  <2>3. CASE H = {}
    BY <1>1, <1>2, <1>3, <1>5, <2>3, Account
  <2>4. CASE H # {}
    BY <1>5, <2>2, <2>4
  <2> QED BY <2>3, <2>4
<1> QED BY <1>4, <1>5

\* ... nor does a step that leaves the histories and those who hold them alone.
LEMMA RateStays ==
    ASSUME WebInv, UNCHANGED <<history, granted, raised, overlaps>>,
           \A t \in Threads : request'[t] = request[t] \/ request'[t].at # "rateStores"
    PROVE  RateInv'
<1> SUFFICES ASSUME NEW u \in Students
             PROVE  LET n == Cardinality(Holders(u)')
                    IN  \/ Accounted(granted[u], history[u], overlaps[u], raised[u], n)
                        \/ /\ Accounted(granted[u], history[u], overlaps[u] + 1, raised[u], n)
                           /\ Holders(u)' # {}
                           /\ \A t \in Holders(u)' : request'[t].entries = history[u]
  BY DEF RateInv, Accounted
<1> DEFINE H == Holders(u)'
<1>1. H \subseteq Holders(u) /\ \A t \in H : request'[t] = request[t]
  BY DEF Holders, HoldsHistory
<1>2. Web!TypeOK /\ RateInv
  BY DEF WebInv, WebTyped
<1> HIDE DEF H
<1>3. LET n == Cardinality(H)
      IN  \/ Accounted(granted[u], history[u], overlaps[u], raised[u], n)
          \/ /\ Accounted(granted[u], history[u], overlaps[u] + 1, raised[u], n)
             /\ H # {}
             /\ \A t \in H : request[t].entries = history[u]
  BY <1>1, <1>2, FewerHold DEF RateInv
<1>4. \A t \in H : request'[t].entries = request[t].entries
  BY <1>1
<1> QED BY <1>3, <1>4 DEF H

LEMMA GoesKeeps ==
    ASSUME WebInv, NEW t \in Threads, NEW next \in Web!Request, Web!Goes(t, next),
           published' = published, cache' \in [version : Web!Versions, fresh : BOOLEAN],
           next.at = "asking" => published # Web!NoControlPlane,
           next.at # "rateStores", Sums(next, seen'[t])
    PROVE  WebInv'
<1>0. Web!TypeOK /\ Web!Steps(t, next)
      /\ UNCHANGED <<appended, committed, history, exempt, granted, raised, overlaps>>
  BY DEF WebInv, WebTyped, Web!Goes, Web!topicVars, Web!windowVars
<1>1. /\ request' \in [Threads -> Web!Request] /\ seen' \in [Threads -> Nat]
      /\ request'[t] = next
      /\ \A s \in Threads \ {t} : request'[s] = request[s] /\ seen'[s] = seen[s]
  BY <1>0, StepsEffect
<1>2. Web!TypeOK'
  BY <1>0, <1>1 DEF Web!TypeOK
<1>3. WebTyped'
  <2>1. \A s \in Threads :
           /\ request'[s].at = "asking" => published' # Web!NoControlPlane
           /\ request'[s].at = "rateStores" => request'[s].entries < Rate
    BY <1>1 DEF WebInv, WebTyped
  <2> QED BY <1>2, <2>1 DEF WebTyped, Web!NoControlPlane
<1>4. SeenInv'
  BY <1>0, <1>1 DEF WebInv, SeenInv, Sums, Web!DepthOf
<1>5. RateInv'
  BY <1>0, <1>1, RateStays
<1> QED BY <1>3, <1>4, <1>5 DEF WebInv

LEMMA ArriveKeeps ==
    ASSUME WebInv, NEW t \in Threads, Web!Arrivals(t)
    PROVE  WebInv'
<1>0. WebTyped /\ Web!TypeOK
  BY DEF WebInv, WebTyped
<1>1. PICK next \in Web!Request :
         /\ Web!Goes(t, next) /\ UNCHANGED Web!configVars /\ request[t].at = "idle"
         /\ next.at = "ends" => next.depth = 0
         /\ next.at = "asking" => published # Web!NoControlPlane
         /\ next.at \in {"asking", "ends", "admitted"}
  BY <1>0, ArriveType
<1>2. seen'[t] \in Nat
  BY <1>0, <1>1, StepsEffect DEF Web!Goes
<1>3. Sums(next, seen'[t])
  BY <1>1, <1>2 DEF Sums
<1>4. published' = published /\ cache' \in [version : Web!Versions, fresh : BOOLEAN]
  BY <1>0, <1>1 DEF Web!configVars, Web!TypeOK
<1> QED BY <1>1, <1>3, <1>4, GoesKeeps

LEMMA FetchKeeps ==
    ASSUME WebInv, NEW t \in Threads, Web!Fetches(t) \/ Web!FetchFails(t)
    PROVE  WebInv'
<1>0. WebTyped /\ Web!TypeOK
  BY DEF WebInv, WebTyped
<1>1. PICK next \in Web!Request :
         /\ Web!Goes(t, next) /\ request[t].at \in {"asking", "answered"}
         /\ published' = published /\ cache' \in [version : Web!Versions, fresh : BOOLEAN]
         /\ next.at = "ends" => next.depth = 0
         /\ next.at \in {"answered", "ends"}
  BY <1>0, FetchType
<1>2. seen'[t] \in Nat
  BY <1>0, <1>1, StepsEffect DEF Web!Goes
<1>3. Sums(next, seen'[t])
  BY <1>1, <1>2 DEF Sums
<1> QED BY <1>1, <1>3, GoesKeeps

\* A thread that reads the end of a topic sees its backlog.
LEMMA ReadEndsKeeps ==
    ASSUME WebInv, NEW t \in Threads, Web!ReadEnds(t)
    PROVE  WebInv'
<1> DEFINE q == request[t]
<1>0. WebTyped /\ Web!TypeOK /\ q \in Web!Request /\ seen[t] \in Nat
  BY DEF WebInv, WebTyped, Web!TypeOK
<1>1. PICK next \in Web!Request :
         /\ Web!Goes(t, next) /\ UNCHANGED Web!configVars /\ q.at = "ends"
         /\ next.at = "commits" /\ next.route = q.route
         /\ next.depth = q.depth /\ next.end = appended[q.route]
  BY <1>0, ReadEndsType
<1>2. q.route \in Web!Routes /\ q.depth \in Nat
  BY <1>0, <1>1, Held
<1>3. seen'[t] = seen[t] + Web!Backlog[q.route]
  BY <1>0, <1>1, StepsEffect DEF Web!Goes, Web!Counts
<1>4. appended[q.route] \in Nat /\ committed[q.route] \in Nat /\ committed[q.route] <= appended[q.route]
  BY <1>0, <1>2 DEF Web!TypeOK
<1>5. Web!DepthOf(next.route, next.end) = Web!Backlog[q.route] /\ Web!Backlog[q.route] \in Nat
  BY <1>0, <1>1, <1>2, <1>4, Depths
<1>6. q.depth <= seen[t]
  BY <1>1 DEF WebInv, SeenInv
<1>7. q.depth + Web!Backlog[q.route] <= seen'[t]
  BY <1>0, <1>2, <1>3, <1>5, <1>6
<1>8. Sums(next, seen'[t])
  BY <1>1, <1>5, <1>7 DEF Sums
<1>9. published' = published /\ cache' \in [version : Web!Versions, fresh : BOOLEAN]
  BY <1>0, <1>1 DEF Web!configVars, Web!TypeOK
<1> QED BY <1>1, <1>8, <1>9, GoesKeeps

LEMMA ReadCommittedKeeps ==
    ASSUME WebInv, NEW t \in Threads, Web!ReadCommitted(t)
    PROVE  WebInv'
<1> DEFINE q == request[t]
           depth == q.depth + Web!DepthOf(q.route, q.end)
<1>0. WebTyped /\ Web!TypeOK
  BY DEF WebInv, WebTyped
<1>1. PICK next \in Web!Request :
         /\ Web!Goes(t, next) /\ UNCHANGED Web!configVars /\ q.at = "commits" /\ depth \in Nat
         /\ next.at = "ends" => next.depth = depth
         /\ next.at \in {"ends", "limiter", "rate", "admitted"}
  BY <1>0, ReadCommittedType
<1>2. depth <= seen[t]
  BY <1>1 DEF WebInv, SeenInv
<1>3. next.at = "ends" => seen'[t] = seen[t]
  BY <1>0, <1>1, StepsEffect DEF Web!Goes, Web!Counts
<1> HIDE DEF depth
<1>4. Sums(next, seen'[t])
  BY <1>1, <1>2, <1>3 DEF Sums
<1>5. published' = published /\ cache' \in [version : Web!Versions, fresh : BOOLEAN]
  BY <1>0, <1>1 DEF Web!configVars, Web!TypeOK
<1> QED BY <1>1, <1>4, <1>5, GoesKeeps

LEMMA OtherKeeps ==
    ASSUME WebInv, NEW t \in Threads,
           \/ Web!KafkaRaises(t) \/ Web!LimiterAnswers(t) \/ Web!LimiterFails(t) \/ Web!Finish(t)
    PROVE  WebInv'
<1>0. Web!TypeOK
  BY DEF WebInv, WebTyped
<1>1. PICK next \in Web!Request :
         /\ Web!Goes(t, next) /\ UNCHANGED Web!configVars
         /\ next.at \in {"limiter", "rate", "admitted", "idle"}
  BY <1>0, OtherType
<1>2. Sums(next, seen'[t])
  BY <1>1 DEF Sums
<1>3. published' = published /\ cache' \in [version : Web!Versions, fresh : BOOLEAN]
  BY <1>0, <1>1 DEF Web!configVars, Web!TypeOK
<1> QED BY <1>1, <1>2, <1>3, GoesKeeps

\* In the rate limit a request leaves the queue and the configurations alone.
LEMMA LimitKeepsTypes ==
    ASSUME WebInv, NEW t \in Threads, NEW next \in Web!Request, Web!Steps(t, next),
           next.at = "rateStores" => next.entries < Rate,
           next.at \in {"rateStores", "admitted"},
           UNCHANGED <<appended, committed, published, cache, exempt>>,
           history' \in [Students -> 0..Rate], granted' \in [Students -> Nat],
           raised' \in [Students -> Nat], overlaps' \in [Students -> Nat]
    PROVE  WebTyped' /\ SeenInv'
<1>0. Web!TypeOK
  BY DEF WebInv, WebTyped
<1>1. /\ request' \in [Threads -> Web!Request] /\ seen' \in [Threads -> Nat]
      /\ request'[t] = next
      /\ \A s \in Threads \ {t} : request'[s] = request[s] /\ seen'[s] = seen[s]
  BY <1>0, StepsEffect
<1>2. Web!TypeOK'
  BY <1>0, <1>1 DEF Web!TypeOK
<1> QED BY <1>1, <1>2 DEF WebInv, WebTyped, SeenInv, Web!DepthOf, Web!NoControlPlane

\* A request that reads the history costs an overlap, unless it is the only one.
LEMMA TakesHistoryKeeps ==
    ASSUME WebInv, NEW t \in Threads, NEW v \in Students, request[t].at = "rate",
           history[v] < Rate, Web!TakesHistory(t, v)
    PROVE  WebInv'
<1> DEFINE next == [at |-> "rateStores", user |-> v, entries |-> history[v]]
           apart == \A s \in Threads \ {t} : ~HoldsHistory(s, v)
<1>0. Web!TypeOK /\ Web!Steps(t, next)
      /\ UNCHANGED <<appended, committed, published, cache, history, granted, raised, exempt>>
  BY DEF WebInv, WebTyped, Web!TakesHistory, Web!topicVars, Web!configVars
<1>1. /\ history \in [Students -> 0..Rate] /\ history[v] \in Nat
      /\ granted \in [Students -> Nat] /\ raised \in [Students -> Nat] /\ overlaps \in [Students -> Nat]
  BY <1>0, Assumed DEF Web!TypeOK
<1>2. next \in Web!Request /\ next.at = "rateStores" /\ next.user = v /\ next.entries = history[v]
  BY <1>1, Made
<1> HIDE DEF next
<1>3. request'[t] = next /\ \A s \in Threads \ {t} : request'[s] = request[s]
  BY <1>0, <1>2, StepsEffect
<1>4. overlaps' = [overlaps EXCEPT ![v] = IF apart THEN overlaps[v] ELSE overlaps[v] + 1]
  <2>1. (\E t2 \in Threads \ {t} : Web!InRateLimit(t2, v)) <=> ~apart
    BY DEF Web!InRateLimit, HoldsHistory
  <2> QED BY <2>1 DEF Web!TakesHistory
<1>5. overlaps' \in [Students -> Nat]
  BY <1>1, <1>4
<1>6. WebTyped' /\ SeenInv'
  BY <1>0, <1>1, <1>2, <1>5, LimitKeepsTypes
<1>7. ASSUME NEW u \in Students
      PROVE  LET n == Cardinality(Holders(u)')
             IN  \/ Accounted(granted[u], history[u], overlaps'[u], raised[u], n)
                 \/ /\ Accounted(granted[u], history[u], overlaps'[u] + 1, raised[u], n)
                    /\ Holders(u)' # {}
                    /\ \A s \in Holders(u)' : request'[s].entries = history[u]
  <2>1. LET n == Cardinality(Holders(u))
        IN  \/ Accounted(granted[u], history[u], overlaps[u], raised[u], n)
            \/ /\ Accounted(granted[u], history[u], overlaps[u] + 1, raised[u], n)
               /\ Holders(u) # {}
               /\ \A s \in Holders(u) : request[s].entries = history[u]
    BY DEF WebInv, RateInv
  <2>2. /\ granted[u] \in Nat /\ history[u] \in Nat /\ overlaps[u] \in Nat /\ raised[u] \in Nat
        /\ IsFiniteSet(Holders(u)) /\ Cardinality(Holders(u)) \in Nat
    BY <1>0, AccountType
  <2>3. CASE u # v
    <3>1. Holders(u)' = Holders(u) /\ t \notin Holders(u)
      BY <1>2, <1>3, <2>3 DEF Holders, HoldsHistory
    <3>2. overlaps'[u] = overlaps[u]
      BY <1>1, <1>4, <2>3
    <3> QED BY <1>3, <2>1, <3>1, <3>2 DEF Holders
  <2>4. CASE u = v
    <3>1. Holders(u)' = Holders(u) \cup {t} /\ t \notin Holders(u)
      BY <1>2, <1>3, <2>4 DEF Holders, HoldsHistory
    <3>2. Cardinality(Holders(u)') = Cardinality(Holders(u)) + 1
      BY <2>2, <3>1, FS_AddElement
    <3>3. request'[t].entries = history[u] /\ \A s \in Holders(u) : request'[s] = request[s]
      BY <1>2, <1>3, <2>4, <3>1 DEF Holders
    <3>4. CASE apart
      <4>1. Holders(u) = {} /\ overlaps'[u] = overlaps[u]
        BY <1>1, <1>4, <2>4, <3>1, <3>4 DEF Holders
      <4>2. Accounted(granted[u], history[u], overlaps[u], raised[u], Cardinality(Holders(u)))
        BY <2>1, <4>1
      <4>3. Accounted(granted[u], history[u], overlaps[u] + 1, raised[u], Cardinality(Holders(u)) + 1)
        BY <2>2, <4>2, Account
      <4> QED BY <3>1, <3>2, <3>3, <4>1, <4>3
    <3>5. CASE ~apart
      <4>1. overlaps'[u] = overlaps[u] + 1 /\ overlaps[u] + 1 \in Nat
        BY <1>1, <1>4, <2>2, <2>4, <3>5
      <4>2. CASE Accounted(granted[u], history[u], overlaps[u], raised[u], Cardinality(Holders(u)))
        <5>1. Accounted(granted[u], history[u], overlaps[u] + 1, raised[u], Cardinality(Holders(u)) + 1)
          BY <2>2, <4>2, Account
        <5> QED BY <3>2, <4>1, <5>1
      <4>3. CASE /\ Accounted(granted[u], history[u], overlaps[u] + 1, raised[u], Cardinality(Holders(u)))
                 /\ \A s \in Holders(u) : request[s].entries = history[u]
        <5>1. Accounted(granted[u], history[u], overlaps'[u] + 1, raised[u], Cardinality(Holders(u)) + 1)
          BY <2>2, <4>1, <4>3, Account
        <5>2. \A s \in Holders(u)' : request'[s].entries = history[u]
          BY <3>1, <3>3, <4>3
        <5> QED BY <3>1, <3>2, <5>1, <5>2
      <4> QED BY <2>1, <4>2, <4>3
    <3> QED BY <3>4, <3>5
  <2> QED BY <2>3, <2>4
<1>8. RateInv'
  BY <1>0, <1>7 DEF RateInv, Accounted
<1> QED BY <1>6, <1>8 DEF WebInv

LEMMA RateReadsKeeps ==
    ASSUME WebInv, NEW t \in Threads, Web!RateReads(t)
    PROVE  WebInv'
<1> DEFINE q == request[t]
<1>0. Web!TypeOK /\ q \in Web!Request /\ q.at = "rate"
  BY DEF WebInv, WebTyped, Web!TypeOK, Web!RateReads
<1>1. q.user \in Students
  BY <1>0, Held
<1>2. CASE Web!Goes(t, Web!Idle) /\ UNCHANGED Web!configVars
  <2>1. Web!Idle \in Web!Request /\ Web!Idle.at = "idle"
    BY Made DEF Web!Idle
  <2>2. Sums(Web!Idle, seen'[t])
    BY <2>1 DEF Sums
  <2>3. published' = published /\ cache' \in [version : Web!Versions, fresh : BOOLEAN]
    BY <1>0, <1>2 DEF Web!configVars, Web!TypeOK
  <2> QED BY <1>2, <2>1, <2>2, <2>3, GoesKeeps
<1>3. CASE history[q.user] < Rate /\ Web!TakesHistory(t, q.user)
  BY <1>0, <1>1, <1>3, TakesHistoryKeeps
<1> QED BY <1>2, <1>3 DEF Web!RateReads, Web!Refused

\* ... and writes it back with one entry more, over what others may have written since.
LEMMA RateStoresKeeps ==
    ASSUME WebInv, NEW t \in Threads, Web!RateStores(t)
    PROVE  WebInv'
<1> DEFINE q == request[t]
           v == q.user
           next == Web!Admitted("other")
<1>0. Web!TypeOK /\ q \in Web!Request /\ q.at = "rateStores" /\ Web!Steps(t, next)
      /\ UNCHANGED <<appended, committed, published, cache, exempt, raised, overlaps>>
  BY DEF WebInv, WebTyped, Web!TypeOK, Web!RateStores, Web!topicVars, Web!configVars
<1>1. v \in Students /\ q.entries \in Nat /\ q.entries < Rate /\ Rate \in Nat
  BY <1>0, Held, Assumed DEF WebInv, WebTyped
<1>2. next \in Web!Request /\ next.at = "admitted"
  BY Made DEF Web!Admitted
<1> HIDE DEF next
<1>3. request'[t] = next /\ \A s \in Threads \ {t} : request'[s] = request[s]
  BY <1>0, <1>2, StepsEffect
<1>4. /\ history' = [history EXCEPT ![v] = q.entries + 1]
      /\ granted' = [granted EXCEPT ![v] = granted[v] + 1]
  BY DEF Web!RateStores
<1>5. history \in [Students -> 0..Rate] /\ granted \in [Students -> Nat]
      /\ raised \in [Students -> Nat] /\ overlaps \in [Students -> Nat]
  BY <1>0 DEF Web!TypeOK
<1>6. WebTyped' /\ SeenInv'
  <2>1. q.entries + 1 \in 0..Rate /\ granted[v] + 1 \in Nat
    BY <1>1, <1>5
  <2>2. history' \in [Students -> 0..Rate] /\ granted' \in [Students -> Nat]
    BY <1>4, <1>5, <2>1
  <2> QED BY <1>0, <1>2, <1>5, <2>2, LimitKeepsTypes
<1>7. ASSUME NEW u \in Students
      PROVE  LET n == Cardinality(Holders(u)')
             IN  \/ Accounted(granted'[u], history'[u], overlaps[u], raised[u], n)
                 \/ /\ Accounted(granted'[u], history'[u], overlaps[u] + 1, raised[u], n)
                    /\ Holders(u)' # {}
                    /\ \A s \in Holders(u)' : request'[s].entries = history'[u]
  <2>1. LET n == Cardinality(Holders(u))
        IN  \/ Accounted(granted[u], history[u], overlaps[u], raised[u], n)
            \/ /\ Accounted(granted[u], history[u], overlaps[u] + 1, raised[u], n)
               /\ Holders(u) # {}
               /\ \A s \in Holders(u) : request[s].entries = history[u]
    BY DEF WebInv, RateInv
  <2>2. /\ granted[u] \in Nat /\ history[u] \in Nat /\ overlaps[u] \in Nat /\ raised[u] \in Nat
        /\ history[u] <= Rate /\ IsFiniteSet(Holders(u)) /\ Cardinality(Holders(u)) \in Nat
    BY <1>0, AccountType
  <2>3. Holders(u)' = Holders(u) \ {t}
    BY <1>2, <1>3 DEF Holders, HoldsHistory
  <2>4. CASE u # v
    <3>1. t \notin Holders(u)
      BY <2>4 DEF Holders, HoldsHistory
    <3>2. Holders(u)' = Holders(u) /\ \A s \in Holders(u) : request'[s] = request[s]
      BY <1>3, <2>3, <3>1 DEF Holders
    <3>3. granted'[u] = granted[u] /\ history'[u] = history[u]
      BY <1>4, <1>5, <2>4
    <3> QED BY <2>1, <3>2, <3>3
  <2>5. CASE u = v
    <3>1. t \in Holders(u)
      BY <1>0, <2>5 DEF Holders, HoldsHistory
    <3> DEFINE n == Cardinality(Holders(u)')
    <3>2. n \in Nat /\ Cardinality(Holders(u)) = n + 1
      <4>1. IsFiniteSet(Holders(u) \ {t}) /\ Cardinality(Holders(u) \ {t}) = Cardinality(Holders(u)) - 1
        BY <2>2, <3>1, FS_RemoveElement
      <4>2. Cardinality(Holders(u) \ {t}) \in Nat
        BY <4>1, FS_CardinalityType
      <4> QED BY <2>2, <2>3, <4>1, <4>2
    <3>3. granted'[u] = granted[u] + 1 /\ history'[u] = q.entries + 1
      BY <1>4, <1>5, <2>5
    <3> HIDE DEF n
    <3>4. CASE Accounted(granted[u], history[u], overlaps[u], raised[u], Cardinality(Holders(u)))
      <4>1. Accounted(granted[u] + 1, q.entries + 1, overlaps[u], raised[u], n)
        BY <1>1, <2>2, <3>2, <3>4, Account
      <4> QED BY <3>3, <4>1 DEF n
    <3>5. CASE /\ Accounted(granted[u], history[u], overlaps[u] + 1, raised[u], Cardinality(Holders(u)))
               /\ \A s \in Holders(u) : request[s].entries = history[u]
      <4>1. q.entries = history[u]
        BY <3>1, <3>5
      <4>2. Accounted(granted[u], history[u], overlaps[u] + 1, raised[u], n + 1)
        BY <3>2, <3>5
      <4>3. Accounted(granted[u] + 1, history[u] + 1, overlaps[u], raised[u], n)
        BY <2>2, <3>2, <4>2, Account
      <4> QED BY <3>3, <4>1, <4>3 DEF n
    <3> QED BY <2>1, <3>4, <3>5
  <2> QED BY <2>4, <2>5
<1>8. RateInv'
  BY <1>0, <1>7 DEF RateInv, Accounted
<1> QED BY <1>6, <1>8 DEF WebInv

\* A request that the cache raises for is let through, and gives up the history.
LEMMA RateRaisesKeeps ==
    ASSUME WebInv, NEW t \in Threads, Web!RateRaises(t)
    PROVE  WebInv'
<1> DEFINE q == request[t]
           v == q.user
           next == Web!Admitted("other")
<1>0. Web!TypeOK /\ q \in Web!Request /\ q.at \in {"rate", "rateStores"} /\ Web!Steps(t, next)
      /\ UNCHANGED <<appended, committed, published, cache, history, exempt, overlaps>>
  BY DEF WebInv, WebTyped, Web!TypeOK, Web!RateRaises, Web!topicVars, Web!configVars
<1>1. v \in Students
  BY <1>0, Held
<1>2. next \in Web!Request /\ next.at = "admitted"
  BY Made DEF Web!Admitted
<1> HIDE DEF next
<1>3. request'[t] = next /\ \A s \in Threads \ {t} : request'[s] = request[s]
  BY <1>0, <1>2, StepsEffect
<1>4. /\ granted' = [granted EXCEPT ![v] = granted[v] + 1]
      /\ raised' = [raised EXCEPT ![v] = raised[v] + 1]
  BY DEF Web!RateRaises
<1>5. history \in [Students -> 0..Rate] /\ granted \in [Students -> Nat]
      /\ raised \in [Students -> Nat] /\ overlaps \in [Students -> Nat]
  BY <1>0 DEF Web!TypeOK
<1>6. granted' \in [Students -> Nat] /\ raised' \in [Students -> Nat]
  BY <1>1, <1>4, <1>5
<1>7. WebTyped' /\ SeenInv'
  BY <1>0, <1>2, <1>5, <1>6, LimitKeepsTypes
<1>8. ASSUME NEW u \in Students
      PROVE  LET n == Cardinality(Holders(u)')
             IN  \/ Accounted(granted'[u], history[u], overlaps[u], raised'[u], n)
                 \/ /\ Accounted(granted'[u], history[u], overlaps[u] + 1, raised'[u], n)
                    /\ Holders(u)' # {}
                    /\ \A s \in Holders(u)' : request'[s].entries = history[u]
  <2> DEFINE H == Holders(u)'
  <2>1. H \subseteq Holders(u) /\ \A s \in H : request'[s] = request[s]
    BY <1>2, <1>3 DEF Holders, HoldsHistory
  <2>2. /\ granted[u] \in Nat /\ history[u] \in Nat /\ overlaps[u] \in Nat /\ raised[u] \in Nat
        /\ IsFiniteSet(Holders(u))
    BY <1>0, AccountType
  <2> HIDE DEF H
  <2>3. LET n == Cardinality(H)
        IN  \/ Accounted(granted[u], history[u], overlaps[u], raised[u], n)
            \/ /\ Accounted(granted[u], history[u], overlaps[u] + 1, raised[u], n)
               /\ H # {}
               /\ \A s \in H : request[s].entries = history[u]
    BY <1>0, <2>1, FewerHold DEF WebInv, RateInv
  <2>4. Cardinality(H) \in Nat /\ overlaps[u] + 1 \in Nat
    BY <2>1, <2>2, FS_Subset, FS_CardinalityType
  <2>5. \/ granted'[u] = granted[u] /\ raised'[u] = raised[u]
        \/ granted'[u] = granted[u] + 1 /\ raised'[u] = raised[u] + 1
    BY <1>4, <1>5
  <2>6. LET n == Cardinality(H)
        IN  \/ Accounted(granted'[u], history[u], overlaps[u], raised'[u], n)
            \/ /\ Accounted(granted'[u], history[u], overlaps[u] + 1, raised'[u], n)
               /\ H # {}
               /\ \A s \in H : request[s].entries = history[u]
    <3>1. /\ Accounted(granted[u], history[u], overlaps[u], raised[u], Cardinality(H))
              => Accounted(granted[u] + 1, history[u], overlaps[u], raised[u] + 1, Cardinality(H))
          /\ Accounted(granted[u], history[u], overlaps[u] + 1, raised[u], Cardinality(H))
              => Accounted(granted[u] + 1, history[u], overlaps[u] + 1, raised[u] + 1, Cardinality(H))
      BY <2>2, <2>4, Account
    <3>2. CASE granted'[u] = granted[u] /\ raised'[u] = raised[u]
      BY <2>3, <3>2
    <3>3. CASE granted'[u] = granted[u] + 1 /\ raised'[u] = raised[u] + 1
      BY <2>3, <3>1, <3>3
    <3> QED BY <2>5, <3>2, <3>3
  <2> QED BY <2>1, <2>6 DEF H
<1>9. RateInv'
  BY <1>0, <1>8 DEF RateInv, Accounted
<1> QED BY <1>7, <1>9 DEF WebInv

LEMMA PublishKeeps ==
    ASSUME WebInv, NEW t \in Threads, NEW k \in Web!Routes, Web!Publish(t, k)
    PROVE  WebInv'
<1>0. Web!TypeOK
  BY DEF WebInv, WebTyped
<1>1. /\ appended' = [appended EXCEPT ![k] = @ + 1]
      /\ exempt' \in Nat
      /\ request' = [request EXCEPT ![t] = Web!Idle]
      /\ UNCHANGED <<committed, published, cache, history, seen, granted, raised, overlaps>>
  BY <1>0 DEF Web!Publish, Web!configVars, Web!windowVars, Web!TypeOK
<1>2. /\ request' \in [Threads -> Web!Request] /\ request'[t].at = "idle"
      /\ \A s \in Threads \ {t} : request'[s] = request[s]
  <2>1. Web!Idle \in Web!Request /\ Web!Idle.at = "idle"
    BY Made DEF Web!Idle
  <2> QED BY <1>0, <1>1, <2>1 DEF Web!TypeOK
<1>3. appended' \in [Web!Routes -> Nat] /\ \A r \in Web!Routes : committed'[r] <= appended'[r]
  <2>1. appended \in [Web!Routes -> Nat] /\ committed \in [Web!Routes -> Nat]
        /\ \A r \in Web!Routes : committed[r] <= appended[r]
    BY <1>0 DEF Web!TypeOK
  <2>2. \A m, n \in Nat : m <= n => n + 1 \in Nat /\ m <= n + 1
    OBVIOUS
  <2>3. ASSUME NEW r \in Web!Routes PROVE appended'[r] \in Nat /\ committed'[r] <= appended'[r]
    <3>1. appended'[r] = IF r = k THEN appended[r] + 1 ELSE appended[r]
      BY <1>1, <2>1
    <3> QED BY <1>1, <2>1, <2>2, <3>1
  <2> QED BY <1>1, <2>1, <2>3
<1>4. Web!TypeOK'
  BY <1>0, <1>1, <1>2, <1>3 DEF Web!TypeOK
<1>5. WebTyped' /\ SeenInv'
  BY <1>1, <1>2, <1>4 DEF WebInv, WebTyped, SeenInv, Web!DepthOf, Web!NoControlPlane
<1>6. RateInv'
  BY <1>1, <1>2, RateStays
<1> QED BY <1>5, <1>6 DEF WebInv

\* A commit takes nothing from what was seen, and from the depth that is still to add.
LEMMA CommitKeeps ==
    ASSUME WebInv, NEW k \in Web!Routes, Web!Commit(k)
    PROVE  WebInv'
<1>0. Web!TypeOK
  BY DEF WebInv, WebTyped
<1>1. /\ committed[k] < appended[k]
      /\ committed' = [committed EXCEPT ![k] = @ + 1]
      /\ UNCHANGED <<appended, published, cache, history, request, seen, exempt, granted, raised, overlaps>>
  BY DEF Web!Commit, Web!configVars, Web!windowVars
<1>2. appended \in [Web!Routes -> Nat] /\ committed \in [Web!Routes -> Nat]
      /\ \A r \in Web!Routes : committed[r] <= appended[r]
  BY <1>0 DEF Web!TypeOK
<1>3. ASSUME NEW r \in Web!Routes
      PROVE  committed'[r] \in Nat /\ committed[r] <= committed'[r] /\ committed'[r] <= appended'[r]
  <2>1. committed'[r] = IF r = k THEN committed[r] + 1 ELSE committed[r]
    BY <1>1, <1>2
  <2>2. \A m, n \in Nat : m < n => m + 1 \in Nat /\ m <= m + 1 /\ m + 1 <= n
    OBVIOUS
  <2>3. committed[r] \in Nat /\ appended[r] \in Nat /\ committed[r] <= appended[r]
    BY <1>2
  <2>4. CASE r = k
    BY <1>1, <2>1, <2>2, <2>3, <2>4
  <2>5. CASE r # k
    BY <1>1, <2>1, <2>3, <2>5
  <2> QED BY <2>4, <2>5
<1>4. committed' \in [Web!Routes -> Nat]
  BY <1>1, <1>2, <1>3
<1>5. Web!TypeOK'
  BY <1>0, <1>1, <1>3, <1>4 DEF Web!TypeOK
<1>6. WebTyped'
  BY <1>1, <1>5 DEF WebInv, WebTyped, Web!NoControlPlane
<1>7. SeenInv'
  <2>1. ASSUME NEW t \in Threads, request[t].at = "commits"
        PROVE  LET q == request[t]
                   after == IF q.end > committed'[q.route] THEN q.end - committed'[q.route] ELSE 0
               IN  q.depth + after <= seen[t]
    <3> DEFINE q == request[t]
    <3>1. q \in Web!Request /\ seen[t] \in Nat
      BY <1>0 DEF Web!TypeOK
    <3>2. q.route \in Web!Routes /\ q.depth \in Nat /\ q.end \in Nat
      BY <2>1, <3>1, Held
    <3>3. q.depth + Web!DepthOf(q.route, q.end) <= seen[t]
      BY <2>1 DEF WebInv, SeenInv
    <3>4. q.depth + (IF q.end > committed[q.route] THEN q.end - committed[q.route] ELSE 0) <= seen[t]
      BY <3>3 DEF Web!DepthOf
    <3>5. \A d, e, c, n, m \in Nat :
             c <= n /\ d + (IF e > c THEN e - c ELSE 0) <= m => d + (IF e > n THEN e - n ELSE 0) <= m
      OBVIOUS
    <3>6. committed[q.route] \in Nat /\ committed'[q.route] \in Nat /\ committed[q.route] <= committed'[q.route]
      BY <1>2, <1>3, <3>2
    <3> QED BY <3>1, <3>2, <3>4, <3>5, <3>6
  <2>2. \A t \in Threads : request'[t] = request[t] /\ seen'[t] = seen[t]
    BY <1>1
  <2>3. \A t \in Threads : request[t].at = "ends" => request[t].depth <= seen[t]
    BY DEF WebInv, SeenInv
  <2> QED BY <2>1, <2>2, <2>3 DEF SeenInv, Web!DepthOf
<1>8. RateInv'
  BY <1>1, RateStays
<1> QED BY <1>6, <1>7, <1>8 DEF WebInv

LEMMA TimeKeeps ==
    ASSUME WebInv, Web!TimePasses
    PROVE  WebInv'
<1>1. CASE Web!CacheExpires
  <2>1. /\ cache' = [cache EXCEPT !.fresh = FALSE]
        /\ UNCHANGED <<appended, committed, published, history, request, seen, exempt, granted, raised, overlaps>>
    BY <1>1 DEF Web!CacheExpires, Web!topicVars, Web!windowVars
  <2>2. Web!TypeOK'
    BY <2>1 DEF WebInv, WebTyped, Web!TypeOK
  <2>3. RateInv'
    BY <2>1, RateStays
  <2> QED BY <2>1, <2>2, <2>3 DEF WebInv, WebTyped, SeenInv, Web!DepthOf, Web!NoControlPlane
<1>2. ASSUME NEW u \in Students, Web!WindowPasses(u) PROVE WebInv'
  <2>1. /\ \A t \in Threads : ~HoldsHistory(t, u)
        /\ history' = [history EXCEPT ![u] = 0] /\ granted' = [granted EXCEPT ![u] = 0]
        /\ raised' = [raised EXCEPT ![u] = 0] /\ overlaps' = [overlaps EXCEPT ![u] = 0]
        /\ UNCHANGED <<appended, committed, published, cache, request, seen, exempt>>
    BY <1>2 DEF Web!WindowPasses, Web!topicVars, Web!configVars, Web!InRateLimit, HoldsHistory
  <2>2. /\ history \in [Students -> 0..Rate] /\ granted \in [Students -> Nat] /\ Rate \in Nat
        /\ raised \in [Students -> Nat] /\ overlaps \in [Students -> Nat]
    BY Assumed DEF WebInv, WebTyped, Web!TypeOK
  <2>3. /\ history' \in [Students -> 0..Rate] /\ granted' \in [Students -> Nat]
        /\ raised' \in [Students -> Nat] /\ overlaps' \in [Students -> Nat]
    BY <2>1, <2>2
  <2>4. Web!TypeOK'
    BY <2>1, <2>3 DEF WebInv, WebTyped, Web!TypeOK
  <2>5. WebTyped' /\ SeenInv'
    BY <2>1, <2>4 DEF WebInv, WebTyped, SeenInv, Web!DepthOf, Web!NoControlPlane
  <2>6. ASSUME NEW w \in Students
        PROVE  LET n == Cardinality(Holders(w))
               IN  \/ Accounted(granted'[w], history'[w], overlaps'[w], raised'[w], n)
                   \/ /\ Accounted(granted'[w], history'[w], overlaps'[w] + 1, raised'[w], n)
                      /\ Holders(w) # {}
                      /\ \A t \in Holders(w) : request[t].entries = history'[w]
    <3>1. CASE w = u
      <4>1. Cardinality(Holders(w)) = 0
        BY <2>1, <3>1, FS_EmptySet DEF Holders
      <4>2. /\ granted'[w] = 0 /\ history'[w] = 0 /\ overlaps'[w] = 0 /\ raised'[w] = 0
        BY <2>1, <2>2, <3>1
      <4>3. Accounted(0, 0, 0, 0, 0)
        BY <2>2 DEF Accounted
      <4> QED BY <4>1, <4>2, <4>3
    <3>2. CASE w # u
      <4>1. /\ granted'[w] = granted[w] /\ history'[w] = history[w]
            /\ overlaps'[w] = overlaps[w] /\ raised'[w] = raised[w]
        BY <2>1, <2>2, <3>2
      <4> QED BY <4>1 DEF WebInv, RateInv
    <3> QED BY <3>1, <3>2
  <2>7. \A w \in Students : Holders(w)' = Holders(w)
    BY <2>1 DEF Holders, HoldsHistory
  <2>8. RateInv'
    BY <2>1, <2>6, <2>7 DEF RateInv, Accounted
  <2> QED BY <2>5, <2>8 DEF WebInv
<1> QED BY <1>1, <1>2 DEF Web!TimePasses

LEMMA PublishConfigKeeps ==
    ASSUME WebInv, Web!PublishConfig
    PROVE  WebInv'
<1>1. /\ published' \in Web!Versions /\ published # Web!NoControlPlane
      /\ UNCHANGED <<appended, committed, cache, history, request, seen, exempt, granted, raised, overlaps>>
  BY DEF Web!PublishConfig, Web!topicVars, Web!windowVars
<1>2. published' \in Nat
  BY <1>1, Assumed
<1>3. published' # Web!NoControlPlane
  BY <1>2 DEF Web!NoControlPlane
<1>4. Web!TypeOK'
  BY <1>1 DEF WebInv, WebTyped, Web!TypeOK
<1>5. RateInv'
  BY <1>1, RateStays
<1> QED BY <1>1, <1>3, <1>4, <1>5 DEF WebInv, WebTyped, SeenInv, Web!DepthOf, Web!NoControlPlane

\* Where no request is in the rate limit and nothing is counted, nothing is owed.
LEMMA NothingCounted ==
    ASSUME NEW u, \A t \in Threads : ~HoldsHistory(t, u)
    PROVE  Accounted(0, 0, 0, 0, Cardinality(Holders(u)))
<1>1. Cardinality(Holders(u)) = 0
  BY FS_EmptySet DEF Holders
<1> QED BY <1>1, Assumed DEF Accounted

LEMMA RestartKeeps ==
    ASSUME WebInv, Web!RestartWeb
    PROVE  WebInv'
<1>1. /\ cache' = [version |-> 0, fresh |-> FALSE]
      /\ history' = [u \in Students |-> 0] /\ granted' = [u \in Students |-> 0]
      /\ request' = [t \in Threads |-> Web!Idle] /\ seen' = [t \in Threads |-> 0]
      /\ raised' = [u \in Students |-> 0] /\ overlaps' = [u \in Students |-> 0]
      /\ UNCHANGED <<appended, committed, published, exempt>>
  BY DEF Web!RestartWeb, Web!topicVars
<1>2. Web!Idle \in Web!Request /\ Web!Idle.at = "idle"
  BY Made DEF Web!Idle
<1>3. Web!TypeOK'
  BY <1>1, <1>2, Assumed DEF WebInv, WebTyped, Web!TypeOK
<1>4. \A t \in Threads : request'[t].at = "idle"
  BY <1>1, <1>2
<1>5. ASSUME NEW u \in Students
      PROVE  Accounted(granted'[u], history'[u], overlaps'[u], raised'[u], Cardinality(Holders(u)'))
  <2>1. Holders(u)' = {}
    BY <1>4 DEF Holders, HoldsHistory
  <2>2. Cardinality({}) = 0
    BY FS_EmptySet
  <2> QED BY <1>1, <2>1, <2>2, Assumed DEF Accounted
<1>6. RateInv'
  BY <1>5 DEF RateInv, Accounted
<1> QED BY <1>3, <1>4, <1>6 DEF WebInv, WebTyped, SeenInv

LEMMA WebInit == ASSUME Web!Init PROVE WebInv
<1>1. Web!Idle \in Web!Request /\ Web!Idle.at = "idle"
  BY Made DEF Web!Idle
<1>2. \A t \in Threads : request[t].at = "idle"
  BY <1>1 DEF Web!Init
<1>3. Web!TypeOK
  BY <1>1, Assumed DEF Web!Init, Web!TypeOK, Web!NoBacklog
<1>4. ASSUME NEW u \in Students
      PROVE  Accounted(granted[u], history[u], overlaps[u], raised[u], Cardinality(Holders(u)))
  <2>1. Accounted(0, 0, 0, 0, Cardinality(Holders(u)))
    BY <1>2, NothingCounted DEF HoldsHistory
  <2> QED BY <2>1 DEF Web!Init
<1>5. RateInv
  BY <1>4 DEF RateInv
<1> QED BY <1>2, <1>3, <1>5 DEF WebInv, WebTyped, SeenInv

LEMMA ProceedsKeeps ==
    ASSUME WebInv, NEW t \in Threads, Web!Proceeds(t)
    PROVE  WebInv'
BY FetchKeeps, ReadEndsKeeps, ReadCommittedKeeps, OtherKeeps, RateReadsKeeps, RateStoresKeeps,
   RateRaisesKeeps, PublishKeeps
   DEF Web!Proceeds, Web!ReadsQueue, Web!Limits, Web!Ends

LEMMA WebStutters == ASSUME WebInv, UNCHANGED <<appended, committed, webVars>> PROVE WebInv'
<1>1. UNCHANGED <<appended, committed, published, cache, history, request, seen, exempt,
                  granted, raised, overlaps>>
  BY DEF webVars
<1>2. Web!TypeOK'
  BY <1>1 DEF WebInv, WebTyped, Web!TypeOK
<1>3. RateInv'
  BY <1>1, RateStays
<1> QED BY <1>1, <1>2, <1>3 DEF WebInv, WebTyped, SeenInv, Web!DepthOf, Web!NoControlPlane
-----------------------------------------------------------------------------
(* The types of the autoscaler.                                             *)

LEMMA ScalingAssumed ==
    /\ Scaling!Routes = Web!Routes
    /\ MinReplicas \in [Scaling!Routes -> Nat] /\ MaxReplicas \in [Scaling!Routes -> Nat \ {0}]
    /\ LagPerReplica \in Nat \ {0} /\ StartReplicas \in [Scaling!Routes -> Nat]
BY LoadAssumption DEF LoadAssumption, Scaling!AutoscalerAssumption, Scaling!Routes, Web!Routes

\* Where the process is in a round.
LEMMA ScalerFields ==
    ASSUME Scaling!TypeOK
    PROVE  /\ scaler.at \in {"ends", "commits", "docker", "scale"} => scaler.route \in Scaling!Routes
           /\ scaler.at = "commits" => scaler.end \in Nat
           /\ scaler.at = "docker" => scaler.lag \in Nat
           /\ scaler.at = "scale" => scaler.target \in Nat
BY DEF Scaling!TypeOK, Scaling!Scaler

LEMMA NextRouteType ==
    ASSUME NEW k \in Scaling!Routes
    PROVE  Scaling!NextRoute(k) \in Scaling!Scaler
<1>1. (IF k < NumRoutes THEN k + 1 ELSE 1) \in Scaling!Routes
  BY Assumed, ScalingAssumed
<1> QED BY <1>1 DEF Scaling!NextRoute, Scaling!AtRoute, Scaling!Scaler

\* However long the lag, the replicas asked for are within the limits of the route.
LEMMA DesiredWithin ==
    ASSUME NEW k \in Scaling!Routes, NEW lag \in Nat,
           MinReplicas[k] <= MaxReplicas[k]
    PROVE  Scaling!DesiredReplicas(k, lag) \in MinReplicas[k]..MaxReplicas[k]
<1> DEFINE wanted == (lag + LagPerReplica - 1) \div LagPerReplica
<1>1. MinReplicas[k] \in Nat /\ MaxReplicas[k] \in Nat /\ LagPerReplica \in Nat \ {0}
  BY ScalingAssumed
<1>2. wanted \in Int
  BY <1>1
<1>3. Scaling!DesiredReplicas(k, lag) = IF wanted < MinReplicas[k] THEN MinReplicas[k]
                                        ELSE IF wanted > MaxReplicas[k] THEN MaxReplicas[k] ELSE wanted
  BY DEF Scaling!DesiredReplicas
<1> HIDE DEF wanted
<1> QED BY <1>1, <1>2, <1>3

LEMMA RoundType ==
    ASSUME WebTyped, Scaling!TypeOK, Scaling!Round
    PROVE  Scaling!TypeOK'
<1> DEFINE k == scaler.route
<1>1. CASE Scaling!ReadEnds
  <2>1. k \in Scaling!Routes
    BY <1>1, ScalerFields DEF Scaling!ReadEnds
  <2>2. appended[k] \in Nat
    BY <2>1, ScalingAssumed DEF WebTyped, Web!TypeOK
  <2>3. scaler' = [at |-> "commits", route |-> k, end |-> appended[k]]
    BY <1>1 DEF Scaling!ReadEnds
  <2>4. scaler' \in Scaling!Scaler
    BY <2>1, <2>2, <2>3 DEF Scaling!Scaler
  <2> QED BY <1>1, <2>4 DEF Scaling!ReadEnds, Scaling!TypeOK
<1>2. CASE Scaling!ReadCommitted
  <2>1. k \in Scaling!Routes /\ scaler.end \in Nat
    BY <1>2, ScalerFields DEF Scaling!ReadCommitted
  <2>2. committed[k] \in Nat
    BY <2>1, ScalingAssumed DEF WebTyped, Web!TypeOK
  <2>3. Scaling!LagOf(k, scaler.end) \in Nat
    BY <2>1, <2>2 DEF Scaling!LagOf
  <2>4. scaler' = [at |-> "docker", route |-> k, lag |-> Scaling!LagOf(k, scaler.end)]
    BY <1>2 DEF Scaling!ReadCommitted
  <2>5. scaler' \in Scaling!Scaler
    BY <2>1, <2>3, <2>4 DEF Scaling!Scaler
  <2> QED BY <1>2, <2>5 DEF Scaling!ReadCommitted, Scaling!TypeOK
<1>3. CASE Scaling!Decide
  <2> DEFINE desired == Scaling!DesiredReplicas(k, scaler.lag)
  <2>1. k \in Scaling!Routes /\ scaler.lag \in Nat
    BY <1>3, ScalerFields DEF Scaling!Decide
  <2>2. desired \in Nat
    <3>1. MinReplicas[k] <= MaxReplicas[k] /\ MinReplicas[k] \in Nat /\ MaxReplicas[k] \in Nat
      BY <2>1, LoadAssumption DEF LoadAssumption, Scaling!AutoscalerAssumption
    <3> QED BY <2>1, <3>1, DesiredWithin
  <2>3. scaler' = [at |-> "scale", route |-> k, target |-> desired] \/ scaler' = Scaling!NextRoute(k)
    BY <1>3 DEF Scaling!Decide
  <2> HIDE DEF desired
  <2>4. [at |-> "scale", route |-> k, target |-> desired] \in Scaling!Scaler
    BY <2>1, <2>2 DEF Scaling!Scaler
  <2>5. scaler' \in Scaling!Scaler
    BY <2>1, <2>3, <2>4, NextRouteType
  <2> QED BY <1>3, <2>5 DEF Scaling!Decide, Scaling!TypeOK
<1>4. CASE Scaling!Scale
  <2>1. k \in Scaling!Routes /\ scaler.target \in Nat
    BY <1>4, ScalerFields DEF Scaling!Scale
  <2>2. /\ replicas' = [replicas EXCEPT ![k] = scaler.target]
        /\ cooling' \in {cooling \cup {k}, cooling}
        /\ scaler' = Scaling!NextRoute(k)
    BY <1>4 DEF Scaling!Scale
  <2>3. scaler' \in Scaling!Scaler
    BY <2>1, <2>2, NextRouteType
  <2> QED BY <2>1, <2>2, <2>3 DEF Scaling!TypeOK
<1> QED BY <1>1, <1>2, <1>3, <1>4 DEF Scaling!Round

LEMMA DiesType ==
    ASSUME Scaling!TypeOK, Scaling!Dies
    PROVE  Scaling!TypeOK'
<1>1. scaler' \in Scaling!Scaler /\ cooling' = {}
  BY DEF Scaling!Dies, Scaling!Dead, Scaling!Scaler
<1>2. CASE scaler.at = "scale"
  <2> DEFINE k == scaler.route
  <2>1. k \in Scaling!Routes /\ scaler.target \in Nat /\ replicas[k] \in Nat
    BY <1>2, ScalerFields DEF Scaling!TypeOK
  <2>2. PICK n \in Scaling!Between(replicas[k], scaler.target) : replicas' = [replicas EXCEPT ![k] = n]
    BY <1>2 DEF Scaling!Dies
  <2>3. n \in Nat
    BY <2>1, <2>2 DEF Scaling!Between
  <2> QED BY <1>1, <2>1, <2>2, <2>3 DEF Scaling!TypeOK
<1>3. CASE scaler.at # "scale"
  BY <1>1, <1>3 DEF Scaling!Dies, Scaling!TypeOK
<1> QED BY <1>2, <1>3

LEMMA ScalingRestartType ==
    ASSUME Scaling!TypeOK, Scaling!Restart
    PROVE  Scaling!TypeOK'
<1>1. 1 \in Scaling!Routes
  BY Assumed, ScalingAssumed
<1>2. scaler' \in Scaling!Scaler
  BY <1>1 DEF Scaling!Restart, Scaling!Off, Scaling!AtRoute, Scaling!Scaler
<1>3. replicas' \in [Scaling!Routes -> Nat]
  BY ScalingAssumed DEF Scaling!Restart, Scaling!TypeOK
<1> QED BY <1>2, <1>3 DEF Scaling!Restart, Scaling!TypeOK

-----------------------------------------------------------------------------
(* The two together.                                                        *)

LoadInv == WebInv /\ Scaling!TypeOK /\ stalled \subseteq Web!Routes

LEMMA ScalingStays == ASSUME Scaling!TypeOK, UNCHANGED autoVars PROVE Scaling!TypeOK'
BY DEF autoVars, Scaling!TypeOK

LEMMA LoadInit == ASSUME Init PROVE LoadInv
<1>1. WebInv
  BY WebInit DEF Init
<1>2. 1 \in Scaling!Routes
  BY Assumed, ScalingAssumed
<1>3. Scaling!TypeOK
  BY <1>2, ScalingAssumed DEF Init, Scaling!Init, Scaling!TypeOK, Scaling!Off, Scaling!AtRoute, Scaling!Scaler
<1>4. stalled \subseteq Web!Routes
  BY DEF Init
<1> QED BY <1>1, <1>3, <1>4 DEF LoadInv

\* Of the services only those that are there stall.
LEMMA StalledType == ASSUME stalled \subseteq Web!Routes, [Next]_vars PROVE stalled' \subseteq Web!Routes
BY DEF Next, Arrives, Proceeds, Judge, Stalls, Recovers, CooldownEnds, Around, Scales, ScalerDies,
       StartVortex, vars

LEMMA LoadStep == ASSUME LoadInv, [Next]_vars PROVE LoadInv'
<1>0. WebInv /\ WebTyped /\ Scaling!TypeOK /\ stalled' \subseteq Web!Routes
  BY StalledType DEF LoadInv, WebInv
<1>1. ASSUME NEW t \in Threads, Arrives(t) PROVE LoadInv'
  BY <1>0, <1>1, ArriveKeeps, ScalingStays DEF Arrives, LoadInv
<1>2. ASSUME NEW t \in Threads, Proceeds(t) PROVE LoadInv'
  BY <1>0, <1>2, ProceedsKeeps, ScalingStays DEF Proceeds, LoadInv
<1>3. ASSUME NEW k \in Web!Routes, Judge(k) PROVE LoadInv'
  BY <1>0, <1>3, CommitKeeps, ScalingStays DEF Judge, LoadInv
<1>4. ASSUME NEW k \in Web!Routes, CooldownEnds(k) PROVE LoadInv'
  <2>1. UNCHANGED <<appended, committed, webVars>>
    BY <1>4 DEF CooldownEnds, Scaling!CooldownEnds
  <2>2. Scaling!TypeOK'
    BY <1>0, <1>4 DEF CooldownEnds, Scaling!CooldownEnds, Scaling!TypeOK
  <2> QED BY <1>0, <2>1, <2>2, WebStutters DEF LoadInv
<1>10. ASSUME NEW k \in Web!Routes, Stalls(k) \/ Recovers(k) PROVE LoadInv'
  <2>1. UNCHANGED <<appended, committed, webVars>> /\ UNCHANGED autoVars
    BY <1>10 DEF Stalls, Recovers
  <2> QED BY <1>0, <2>1, WebStutters, ScalingStays DEF LoadInv
<1>5. CASE Around
  BY <1>0, <1>5, PublishConfigKeeps, TimeKeeps, ScalingStays DEF Around, LoadInv
<1>6. CASE Scales
  <2>1. UNCHANGED <<appended, committed, webVars>>
    BY <1>6 DEF Scales, Scaling!Round, Scaling!ReadEnds, Scaling!ReadCommitted, Scaling!Decide, Scaling!Scale
  <2> QED BY <1>0, <1>6, <2>1, WebStutters, RoundType DEF LoadInv, Scales
<1>7. CASE ScalerDies
  <2>1. UNCHANGED <<appended, committed, webVars>>
    BY <1>7 DEF ScalerDies, Scaling!Dies
  <2> QED BY <1>0, <1>7, <2>1, WebStutters, DiesType DEF LoadInv, ScalerDies
<1>8. CASE StartVortex
  BY <1>0, <1>8, RestartKeeps, ScalingRestartType DEF StartVortex, LoadInv
<1>9. CASE UNCHANGED vars
  <2>1. UNCHANGED <<appended, committed, webVars>> /\ UNCHANGED autoVars
    BY <1>9 DEF vars
  <2> QED BY <1>0, <2>1, WebStutters, ScalingStays DEF LoadInv
<1> QED BY <1>1, <1>2, <1>3, <1>4, <1>5, <1>6, <1>7, <1>8, <1>9, <1>10 DEF Next

LEMMA LoadInvariant == Spec => []LoadInv
<1>1. Init => LoadInv
  BY LoadInit
<1>2. LoadInv /\ [Next]_vars => LoadInv'
  BY LoadStep
<1> QED BY <1>1, <1>2, PTL DEF Spec

\* The throttle (throttles.py, integrations.py) and the autoscaler
\* (autoscale_executors.py) keep their types: no group commits past the end of its
\* topic, no history is longer than the rate, and the autoscaler asks for a number
\* of containers whatever lag it read.
THEOREM TypeCorrect == Spec => []TypeOK
<1>1. LoadInv => TypeOK
  BY DEF LoadInv, WebInv, WebTyped, TypeOK
<1> QED BY <1>1, LoadInvariant, PTL

\* The rate limit of a user (UserRateThrottle behind throttles.py:115): whatever the
\* requests of the user overwrite in the history, and however often the cache raises and
\* lets one through (throttles.py:116-118), the admissions in a window are no more than
\* the rate, the rate once more for each request that read the history while another
\* one held it, and one for each time the cache raised.
THEOREM RateIsKept == Spec => []RateHolds
<1>1. LoadInv => RateHolds
  <2> SUFFICES ASSUME LoadInv, NEW u \in Students
               PROVE  granted[u] <= Rate * (1 + overlaps[u]) + raised[u]
    BY DEF RateHolds, Web!RateHolds
  <2> DEFINE n == Cardinality(Holders(u))
             c(x) == Rate * x
  <2>1. Web!TypeOK /\ RateInv
    BY DEF LoadInv, WebInv, WebTyped
  <2>2. /\ granted[u] \in Nat /\ history[u] \in Nat /\ history[u] <= Rate
        /\ overlaps[u] \in Nat /\ raised[u] \in Nat /\ IsFiniteSet(Holders(u)) /\ n \in Nat
    BY <2>1, AccountType
  <2>3. /\ Rate \in Nat /\ c(n) \in Nat /\ c(overlaps[u]) \in Nat
        /\ c(overlaps[u] + 1) = c(overlaps[u]) + Rate /\ c(1 + overlaps[u]) = c(overlaps[u] + 1)
    BY <2>2, Costs
  <2>4. CASE Accounted(granted[u], history[u], overlaps[u], raised[u], n)
    <3>1. granted[u] + c(n) <= history[u] + c(overlaps[u]) + raised[u]
      BY <2>4 DEF Accounted
    <3> HIDE DEF c, n
    <3>2. granted[u] <= c(1 + overlaps[u]) + raised[u]
      BY <2>2, <2>3, <3>1
    <3> QED BY <3>2 DEF c
  <2>5. CASE Accounted(granted[u], history[u], overlaps[u] + 1, raised[u], n) /\ Holders(u) # {}
    <3>1. granted[u] + c(n) <= history[u] + c(overlaps[u] + 1) + raised[u]
      BY <2>5 DEF Accounted
    <3>2. n >= 1
      BY <2>2, <2>5, FS_EmptySet
    <3>3. c(n) >= Rate
      <4>1. 1 \in Nat /\ 1 <= n /\ Rate * 1 = Rate
        BY <2>3, <3>2
      <4> QED BY <2>2, <4>1, Costs
    <3> HIDE DEF c, n
    <3>4. granted[u] <= c(1 + overlaps[u]) + raised[u]
      BY <2>2, <2>3, <3>1, <3>3
    <3> QED BY <3>4 DEF c
  <2> QED BY <2>1, <2>4, <2>5 DEF RateInv
<1> QED BY <1>1, LoadInvariant, PTL

\* A complete count of the topics (throttles.py:65-84) never comes out above a
\* threshold that the backlog a thread saw, topic by topic, was not above, though
\* messages arrive and are committed between its reads.
THEOREM BusyHasReason == Spec => BusyIsReal
<1>1. LoadInv =>
        [\A t \in Threads :
           Web!ReadCommitted(t) /\ Web!Limited(request'[t]) =>
              LET c == Configs[request[t].version]
              IN  c.always \/ seen[t] > c.threshold]_request
  <2> SUFFICES ASSUME LoadInv, NEW t \in Threads, Web!ReadCommitted(t), Web!Limited(request'[t])
               PROVE  LET c == Configs[request[t].version]
                      IN  c.always \/ seen[t] > c.threshold
    OBVIOUS
  <2> DEFINE q == request[t]
             c == Configs[q.version]
             depth == q.depth + Web!DepthOf(q.route, q.end)
  <2>0. Web!TypeOK /\ SeenInv /\ seen[t] \in Nat /\ q \in Web!Request
    BY DEF LoadInv, WebInv, WebTyped, Web!TypeOK
  <2>1. PICK next \in Web!Request :
           /\ Web!Goes(t, next) /\ q.at = "commits" /\ depth \in Nat
           /\ \/ next.at = "ends" /\ next.depth = depth
              \/ next = Web!AfterDepth(q.user, q.version, depth, FALSE)
    BY <2>0, ReadCommittedType
  <2>2. request'[t] = next
    BY <2>0, <2>1, StepsEffect DEF Web!Goes
  <2>3. next = Web!AfterDepth(q.user, q.version, depth, FALSE)
    BY <2>1, <2>2 DEF Web!Limited
  <2>4. depth <= seen[t]
    BY <2>0, <2>1 DEF SeenInv
  <2>5. c.threshold \in Nat
    BY <2>0, <2>1, Held, Assumed DEF Web!Config
  <2>6. ASSUME ~c.always, ~(depth > c.threshold) PROVE FALSE
    <3>1. depth # Web!Unknown
      BY <2>1 DEF Web!Unknown
    <3>2. next = Web!Admitted("queue")
      BY <2>3, <2>6, <3>1 DEF Web!AfterDepth
    <3>3. next.at = "admitted"
      BY <3>2 DEF Web!Admitted
    <3> QED BY <2>2, <3>3 DEF Web!Limited
  <2> HIDE DEF depth, c
  <2>7. c.always \/ seen[t] > c.threshold
    BY <2>0, <2>1, <2>4, <2>5, <2>6
  <2> QED BY <2>7 DEF c
<1>2. Spec => [][\A t \in Threads :
                  Web!ReadCommitted(t) /\ Web!Limited(request'[t]) =>
                     LET c == Configs[request[t].version]
                     IN  c.always \/ seen[t] > c.threshold]_request
  BY <1>1, LoadInvariant, PTL
<1> QED BY <1>2 DEF BusyIsReal, Web!BusyIsReal

-----------------------------------------------------------------------------
(* By how much the queue is overshot.                                       *)

TopThreshold == Web!Max({Configs[v].threshold : v \in Web!Versions})

\* Of the messages in queued, those of the topics after the k-th one.
Rest(queued, k) == {m \in queued : m[1] > k}

\* The depth that a request will have counted, if the queue stays as it is.
ViewOf(q, queued, comm) ==
    q.depth + IF q.at = "ends" THEN Cardinality(Rest(queued, q.route - 1))
              ELSE (IF q.end > comm[q.route] THEN q.end - comm[q.route] ELSE 0)
                   + Cardinality(Rest(queued, q.route))

Reads(q) == q.at \in {"ends", "commits"}

\* The threads that the queue has let through, or would let through if the threshold
\* were L.
Hopeful(req, queued, comm, L) ==
    {t \in Threads : \/ FromQueue(req[t])
                     \/ Reads(req[t]) /\ ViewOf(req[t], queued, comm) <= L}

\* Whatever level the queue comes down to, the hopeful threads lift it again by no
\* more than one message each.
Bounded(req, queued, comm, ex) ==
    \A L \in Nat :
        TopThreshold <= L =>
            Cardinality(queued) + Cardinality(Hopeful(req, queued, comm, L))
                <= L + Cardinality(Threads) + ex

OverInv == IsFiniteSet(Web!Queued) /\ Bounded(request, Web!Queued, committed, exempt)

-----------------------------------------------------------------------------

LEMMA SameCount ==
    ASSUME NEW S
    PROVE  /\ Web!IsFiniteSet(S) <=> IsFiniteSet(S)
           /\ Web!Cardinality(S) = Cardinality(S)
<1>1. Web!IsFiniteSet(S) <=> IsFiniteSet(S)  BY DEF Web!IsFiniteSet, IsFiniteSet
<1>2. Web!Cardinality(S) = Cardinality(S)  BY DEF Web!Cardinality, Cardinality
<1> QED  BY <1>1, <1>2

LEMMA Finite ==
    /\ IsFiniteSet(Threads) /\ Cardinality(Threads) \in Nat
    /\ \A S : IsFiniteSet(S) => Cardinality(S) \in Nat
    /\ \A S, T : IsFiniteSet(S) /\ T \subseteq S => IsFiniteSet(T) /\ Cardinality(T) <= Cardinality(S)
<1>1. IsFiniteSet(Threads)  BY LoadAssumption, SameCount DEF LoadAssumption, Web!ThrottleAssumption
<1>2. \A S : IsFiniteSet(S) => Cardinality(S) \in Nat  BY FS_CardinalityType
<1>3. ASSUME NEW S, NEW T, IsFiniteSet(S), T \subseteq S
      PROVE  IsFiniteSet(T) /\ Cardinality(T) <= Cardinality(S)
  BY <1>3, FS_Subset
<1> QED  BY <1>1, <1>2, <1>3

\* A finite set of numbers has a greatest one.
LEMMA GreatestOfFinite ==
    ASSUME NEW S, IsFiniteSet(S), S \subseteq Nat, S # {}
    PROVE  \E x \in S : \A y \in S : x >= y
<1> DEFINE Bad == {n \in Nat : \E U : /\ U \subseteq Nat /\ U # {} /\ IsFiniteSet(U)
                                      /\ Cardinality(U) = n
                                      /\ ~(\E x \in U : \A y \in U : x >= y)}
           R == OpToRel(<, Nat)
<1>1. IsWellFoundedOn(R, Nat)  BY NatLessThanWellFounded
<1>2. SUFFICES ASSUME Bad # {} PROVE FALSE
  BY FS_CardinalityType
<1>3. PICK n \in Bad : \A m \in Bad : <<m, n>> \notin R
  <2>1. Bad \subseteq Nat  OBVIOUS
  <2> HIDE DEF Bad, R
  <2> QED  BY <1>1, <1>2, <2>1, WFMin
<1>4. \A m \in Bad : ~(m < n)
  <2>1. Bad \subseteq Nat  OBVIOUS
  <2> HIDE DEF Bad
  <2> QED  BY <1>3, <2>1 DEF OpToRel
<1>5. PICK U : /\ U \subseteq Nat /\ U # {} /\ IsFiniteSet(U) /\ Cardinality(U) = n
               /\ ~(\E x \in U : \A y \in U : x >= y)
  OBVIOUS
<1>6. PICK x \in U : TRUE  BY <1>5
<1>7. IsFiniteSet(U \ {x}) /\ Cardinality(U \ {x}) = n - 1 /\ n \in Nat
  BY <1>5, FS_RemoveElement, FS_CardinalityType
<1>8. Cardinality(U \ {x}) \in Nat  BY <1>7, FS_CardinalityType
<1>9. U \ {x} # {}  BY <1>5, <1>6
<1>10. n - 1 \notin Bad  BY <1>4, <1>7
<1>11. \E z \in U \ {x} : \A y \in U \ {x} : z >= y  BY <1>5, <1>7, <1>8, <1>9, <1>10
<1>12. PICK z \in U \ {x} : \A y \in U \ {x} : z >= y  BY <1>11
<1>13. x \in Nat /\ z \in Nat /\ z \in U  BY <1>5, <1>6, <1>12
<1>14. CASE x >= z
  <2>1. \A y \in U : x >= y  BY <1>5, <1>12, <1>13, <1>14
  <2> QED  BY <1>5, <1>6, <2>1
<1>15. CASE z >= x
  <2>1. \A y \in U : z >= y  BY <1>5, <1>12, <1>13, <1>15
  <2> QED  BY <1>5, <1>13, <2>1
<1> QED  BY <1>13, <1>14, <1>15

LEMMA TopIsTop ==
    /\ TopThreshold \in Nat
    /\ \A v \in Web!Versions : Configs[v].threshold <= TopThreshold
<1> DEFINE S == {Configs[v].threshold : v \in Web!Versions}
           f == [v \in Web!Versions |-> Configs[v].threshold]
<1>1. S \subseteq Nat /\ S # {}  BY Assumed DEF Web!Config
<1>2. IsFiniteSet(Web!Versions)
  BY LoadAssumption, SameCount DEF LoadAssumption, Web!ThrottleAssumption, Web!Versions
<1>3. f \in Surjection(Web!Versions, S)  BY DEF Surjection
<1> HIDE DEF f
<1>4. IsFiniteSet(S)
  <2> HIDE DEF S
  <2> QED  BY <1>2, <1>3, FS_Surjection
<1>5. \E x \in S : \A y \in S : x >= y
  <2> HIDE DEF S
  <2> QED  BY <1>1, <1>4, GreatestOfFinite
<1>6. TopThreshold = CHOOSE x \in S : \A y \in S : x >= y  BY DEF TopThreshold, Web!Max
<1>7. TopThreshold \in S /\ \A y \in S : TopThreshold >= y
  <2> HIDE DEF S
  <2> QED  BY <1>5, <1>6
<1>8. \A v \in Web!Versions : Configs[v].threshold \in S  OBVIOUS
<1>9. \A y \in S : y \in Nat  BY <1>1
<1> HIDE DEF S
<1> QED  BY <1>7, <1>8, <1>9

-----------------------------------------------------------------------------
(* The messages of the backlog.                                             *)

LEMMA QueuedMember ==
    ASSUME Web!TypeOK
    PROVE  \A m : m \in Web!Queued <=>
               \E k \in Web!Routes, n \in Nat :
                   m = <<k, n>> /\ committed[k] < n /\ n <= appended[k]
<1>1. \A k \in Web!Routes : committed[k] \in Nat /\ appended[k] \in Nat
  BY DEF Web!TypeOK
<1>2. ASSUME NEW k \in Web!Routes, NEW n
      PROVE  n \in (committed[k] + 1)..appended[k] <=> n \in Nat /\ committed[k] < n /\ n <= appended[k]
  BY <1>1
<1> QED BY <1>2 DEF Web!Queued

\* A message of the topic after the last one there is not.
LEMMA NoRest ==
    ASSUME Web!TypeOK
    PROVE  /\ Rest(Web!Queued, NumRoutes) = {} /\ Rest(Web!Queued, 0) = Web!Queued
           /\ Cardinality(Rest(Web!Queued, NumRoutes)) = 0
<1>1. ASSUME NEW m \in Web!Queued PROVE m[1] > 0 /\ ~(m[1] > NumRoutes)
  <2>1. PICK k \in Web!Routes, n \in Nat : m = <<k, n>>
    BY QueuedMember
  <2> QED BY <2>1, Assumed DEF Web!Routes
<1>2. Rest(Web!Queued, NumRoutes) = {} /\ Rest(Web!Queued, 0) = Web!Queued
  BY <1>1 DEF Rest
<1> QED BY <1>2, FS_EmptySet

LEMMA RestFinite ==
    ASSUME NEW queued, IsFiniteSet(queued), NEW k
    PROVE  IsFiniteSet(Rest(queued, k)) /\ Cardinality(Rest(queued, k)) \in Nat
<1>1. Rest(queued, k) \subseteq queued
  BY DEF Rest
<1> QED BY <1>1, Finite

\* One topic adds no more to the count than its backlog.
LEMMA RestOfTopic ==
    ASSUME Web!TypeOK, IsFiniteSet(Web!Queued), NEW k \in Web!Routes
    PROVE  Cardinality(Rest(Web!Queued, k - 1))
               <= (appended[k] - committed[k]) + Cardinality(Rest(Web!Queued, k))
<1> DEFINE a == committed[k] + 1
           b == appended[k]
           f == [n \in a..b |-> <<k, n>>]
           T == {<<k, n>> : n \in a..b}
<1>0. appended \in [Web!Routes -> Nat] /\ committed \in [Web!Routes -> Nat]
      /\ \A r \in Web!Routes : committed[r] <= appended[r]
  BY DEF Web!TypeOK
<1>1. committed[k] \in Nat /\ appended[k] \in Nat /\ committed[k] <= appended[k] /\ k \in Nat
  BY <1>0 DEF Web!Routes
<1>2. IsFiniteSet(a..b) /\ Cardinality(a..b) = appended[k] - committed[k]
  <2>1. a \in Int /\ b \in Int
    BY <1>1
  <2>2. IsFiniteSet(a..b) /\ Cardinality(a..b) = IF a > b THEN 0 ELSE b - a + 1
    BY <2>1, FS_Interval
  <2> QED BY <1>1, <2>2
<1>3. f \in Surjection(a..b, T)
  BY DEF Surjection
<1>4. IsFiniteSet(T) /\ Cardinality(T) <= Cardinality(a..b)
  <2> HIDE DEF f, T
  <2> QED BY <1>2, <1>3, FS_Surjection
<1>5. Rest(Web!Queued, k - 1) \subseteq T \cup Rest(Web!Queued, k)
  <2> SUFFICES ASSUME NEW m \in Web!Queued, m[1] > k - 1, ~(m[1] > k) PROVE m \in T
    BY DEF Rest
  <2>1. PICK j \in Web!Routes, n \in Nat : m = <<j, n>> /\ committed[j] < n /\ n <= appended[j]
    BY QueuedMember
  <2>2. j = k
    BY <1>1, <2>1 DEF Web!Routes
  <2>3. n \in a..b
    BY <1>1, <2>1, <2>2
  <2> QED BY <2>1, <2>2, <2>3
<1>6. IsFiniteSet(Rest(Web!Queued, k)) /\ Cardinality(Rest(Web!Queued, k)) \in Nat
  BY RestFinite
<1> HIDE DEF T, f, a, b
<1>7. /\ IsFiniteSet(T \cup Rest(Web!Queued, k))
      /\ Cardinality(T \cup Rest(Web!Queued, k)) =
             Cardinality(T) + Cardinality(Rest(Web!Queued, k)) - Cardinality(T \cap Rest(Web!Queued, k))
  BY <1>4, <1>6, FS_Union
<1>8. /\ Cardinality(T) \in Nat /\ Cardinality(T \cup Rest(Web!Queued, k)) \in Nat
      /\ Cardinality(T \cap Rest(Web!Queued, k)) \in Nat
      /\ Cardinality(Rest(Web!Queued, k - 1)) <= Cardinality(T \cup Rest(Web!Queued, k))
      /\ Cardinality(Rest(Web!Queued, k - 1)) \in Nat
  <2>1. T \cap Rest(Web!Queued, k) \subseteq T
    OBVIOUS
  <2> QED BY <1>4, <1>5, <1>7, <2>1, Finite
<1> QED BY <1>1, <1>2, <1>4, <1>6, <1>7, <1>8

-----------------------------------------------------------------------------
(* The views.                                                               *)

LEMMA ViewType ==
    ASSUME NEW q \in Web!Request, Reads(q), NEW queued, IsFiniteSet(queued),
           NEW comm \in [Web!Routes -> Nat]
    PROVE  ViewOf(q, queued, comm) \in Nat
<1>1. q.route \in Web!Routes /\ q.depth \in Nat /\ (q.at = "commits" => q.end \in Nat)
  BY Held DEF Reads
<1>2. Cardinality(Rest(queued, q.route)) \in Nat /\ Cardinality(Rest(queued, q.route - 1)) \in Nat
  BY RestFinite
<1>3. comm[q.route] \in Nat
  BY <1>1
<1>4. CASE q.at = "ends"
  BY <1>1, <1>2, <1>4 DEF ViewOf
<1>5. CASE q.at = "commits"
  BY <1>1, <1>2, <1>3, <1>5 DEF ViewOf
<1> QED BY <1>4, <1>5 DEF Reads

\* The end of a topic is read: the request will count what there is now, or more.
LEMMA ReadEndsView ==
    ASSUME Web!TypeOK, IsFiniteSet(Web!Queued),
           NEW q \in Web!Request, NEW next \in Web!Request, q.at = "ends",
           next.at = "commits", next.route = q.route, next.depth = q.depth, next.end = appended[q.route]
    PROVE  ViewOf(q, Web!Queued, committed) <= ViewOf(next, Web!Queued, committed)
<1> DEFINE k == q.route
           before == Cardinality(Rest(Web!Queued, k - 1))
           after == Cardinality(Rest(Web!Queued, k))
<1>1. k \in Web!Routes /\ q.depth \in Nat
  BY Held
<1>2. committed[k] \in Nat /\ appended[k] \in Nat /\ committed[k] <= appended[k]
  BY <1>1 DEF Web!TypeOK
<1>3. before \in Nat /\ after \in Nat
  BY RestFinite
<1>4. before <= (appended[k] - committed[k]) + after
  BY <1>1, RestOfTopic
<1>5. ViewOf(q, Web!Queued, committed) = q.depth + before
  BY DEF ViewOf
<1>6. ViewOf(next, Web!Queued, committed) =
          q.depth + ((IF appended[k] > committed[k] THEN appended[k] - committed[k] ELSE 0) + after)
  BY DEF ViewOf
<1>7. (IF appended[k] > committed[k] THEN appended[k] - committed[k] ELSE 0) = appended[k] - committed[k]
  BY <1>2
<1> HIDE DEF k, before, after
<1> QED BY <1>1, <1>2, <1>3, <1>4, <1>5, <1>6, <1>7

\* What the group has committed is read: the request counts what it was to count.
LEMMA ReadCommittedView ==
    ASSUME Web!TypeOK, IsFiniteSet(Web!Queued), NEW q \in Web!Request, q.at = "commits"
    PROVE  LET depth == q.depth + Web!DepthOf(q.route, q.end)
               view == ViewOf(q, Web!Queued, committed)
           IN  /\ q.route = NumRoutes => view = depth
               /\ \A next \in Web!Request :
                     next.at = "ends" /\ next.depth = depth /\ next.route = q.route + 1
                     => ViewOf(next, Web!Queued, committed) = view
<1> DEFINE k == q.route
           depth == q.depth + Web!DepthOf(k, q.end)
           rest == Cardinality(Rest(Web!Queued, k))
<1>1. k \in Web!Routes /\ q.depth \in Nat /\ q.end \in Nat /\ k \in Nat
  BY Held DEF Web!Routes
<1>2. Web!DepthOf(k, q.end) \in Nat /\ rest \in Nat
  BY <1>1, Depths, RestFinite
<1>3. ViewOf(q, Web!Queued, committed) = q.depth + (Web!DepthOf(k, q.end) + rest)
  BY DEF ViewOf, Web!DepthOf
<1>4. ViewOf(q, Web!Queued, committed) = depth + rest
  BY <1>1, <1>2, <1>3
<1>5. k = NumRoutes => rest = 0
  BY NoRest
<1>6. ASSUME NEW next \in Web!Request, next.at = "ends", next.depth = depth, next.route = k + 1
      PROVE  ViewOf(next, Web!Queued, committed) = depth + rest
  <2>1. next.route - 1 = k
    BY <1>1, <1>6
  <2> QED BY <1>6, <2>1 DEF ViewOf
<1>7. depth \in Nat
  BY <1>1, <1>2
<1> HIDE DEF depth, rest
<1>8. k = NumRoutes => ViewOf(q, Web!Queued, committed) = depth
  BY <1>4, <1>5, <1>7
<1> QED BY <1>4, <1>6, <1>8 DEF depth

\* A message that comes lowers no view, and a commit by one at the most.
LEMMA PublishView ==
    ASSUME NEW q \in Web!Request, Reads(q), NEW comm \in [Web!Routes -> Nat],
           NEW queued, NEW queuedN, IsFiniteSet(queuedN), queued \subseteq queuedN
    PROVE  ViewOf(q, queued, comm) <= ViewOf(q, queuedN, comm)
<1>1. q.route \in Web!Routes /\ q.depth \in Nat /\ (q.at = "commits" => q.end \in Nat)
  BY Held DEF Reads
<1>2. ASSUME NEW k
      PROVE  /\ Cardinality(Rest(queued, k)) \in Nat /\ Cardinality(Rest(queuedN, k)) \in Nat
             /\ Cardinality(Rest(queued, k)) <= Cardinality(Rest(queuedN, k))
  <2>1. Rest(queued, k) \subseteq Rest(queuedN, k) /\ Rest(queuedN, k) \subseteq queuedN
    BY DEF Rest
  <2> QED BY <2>1, Finite
<1>3. comm[q.route] \in Nat
  BY <1>1
<1>4. CASE q.at = "ends"
  BY <1>1, <1>2, <1>4 DEF ViewOf
<1>5. CASE q.at = "commits"
  BY <1>1, <1>2, <1>3, <1>5 DEF ViewOf
<1> QED BY <1>4, <1>5 DEF Reads

LEMMA CommitView ==
    ASSUME NEW q \in Web!Request, Reads(q), NEW comm \in [Web!Routes -> Nat],
           NEW commN \in [Web!Routes -> Nat], NEW queued, IsFiniteSet(queued),
           NEW k \in Web!Routes, NEW n, commN = [comm EXCEPT ![k] = comm[k] + 1]
    PROVE  ViewOf(q, queued, comm) <= ViewOf(q, queued \ {<<k, n>>}, commN) + 1
<1> DEFINE x == <<k, n>>
           less == queued \ {x}
<1>1. q.route \in Web!Routes /\ q.depth \in Nat /\ (q.at = "commits" => q.end \in Nat)
  BY Held DEF Reads
<1>2. IsFiniteSet(less)
  BY Finite
<1>3. ASSUME NEW j
      PROVE  /\ Cardinality(Rest(queued, j)) \in Nat /\ Cardinality(Rest(less, j)) \in Nat
             /\ Cardinality(Rest(queued, j)) <= Cardinality(Rest(less, j)) + 1
             /\ ~(k > j) => Cardinality(Rest(queued, j)) = Cardinality(Rest(less, j))
  <2>1. /\ IsFiniteSet(Rest(queued, j)) /\ Cardinality(Rest(queued, j)) \in Nat
        /\ IsFiniteSet(Rest(less, j)) /\ Cardinality(Rest(less, j)) \in Nat
    BY <1>2, RestFinite
  <2>2. Rest(less, j) = Rest(queued, j) \ {x}
    BY DEF Rest
  <2>3. x[1] = k
    OBVIOUS
  <2>4. CASE x \in Rest(queued, j)
    <3>1. Cardinality(Rest(queued, j) \ {x}) = Cardinality(Rest(queued, j)) - 1
      <4> HIDE DEF x
      <4> QED BY <2>1, <2>4, FS_RemoveElement
    <3>2. k > j
      BY <2>3, <2>4 DEF Rest
    <3> HIDE DEF x, less
    <3> QED BY <2>1, <2>2, <3>1, <3>2
  <2>5. CASE x \notin Rest(queued, j)
    <3>1. Rest(less, j) = Rest(queued, j)
      BY <2>2, <2>5
    <3> HIDE DEF x, less
    <3> QED BY <2>1, <3>1
  <2> QED BY <2>4, <2>5
<1>4. comm[q.route] \in Nat /\ commN[q.route] \in Nat
  BY <1>1
<1> HIDE DEF x, less
<1>5. CASE q.at = "ends"
  <2> DEFINE a == Cardinality(Rest(queued, q.route - 1))
             b == Cardinality(Rest(less, q.route - 1))
  <2>1. a \in Nat /\ b \in Nat /\ a <= b + 1
    BY <1>3
  <2>2. ViewOf(q, queued, comm) = q.depth + a /\ ViewOf(q, less, commN) = q.depth + b
    BY <1>5 DEF ViewOf
  <2> HIDE DEF a, b
  <2>3. ViewOf(q, queued, comm) <= ViewOf(q, less, commN) + 1
    BY <1>1, <2>1, <2>2
  <2> QED BY <2>3 DEF less, x
<1>6. CASE q.at = "commits"
  <2> DEFINE a == Cardinality(Rest(queued, q.route))
             b == Cardinality(Rest(less, q.route))
             c == IF q.end > comm[q.route] THEN q.end - comm[q.route] ELSE 0
             d == IF q.end > commN[q.route] THEN q.end - commN[q.route] ELSE 0
  <2>1. /\ a \in Nat /\ b \in Nat /\ a <= b + 1 /\ c \in Nat /\ d \in Nat
        /\ ~(k > q.route) => a = b
    BY <1>1, <1>3, <1>4, <1>6
  <2>2. ViewOf(q, queued, comm) = q.depth + (c + a) /\ ViewOf(q, less, commN) = q.depth + (d + b)
    BY <1>6 DEF ViewOf
  <2>3. c + a <= d + b + 1
    <3>1. CASE k = q.route
      <4>1. a = b
        BY <1>1, <2>1, <3>1 DEF Web!Routes
      <4>2. commN[q.route] = comm[q.route] + 1
        BY <3>1
      <4>3. c <= d + 1
        BY <1>1, <1>4, <1>6, <4>2
      <4> HIDE DEF a, b, c, d
      <4> QED BY <2>1, <4>1, <4>3
    <3>2. CASE k # q.route
      <4>1. commN[q.route] = comm[q.route]
        BY <1>1, <3>2
      <4>2. c = d
        BY <4>1
      <4> HIDE DEF a, b, c, d
      <4> QED BY <2>1, <4>2
    <3> QED BY <3>1, <3>2
  <2> HIDE DEF a, b, c, d
  <2>4. ViewOf(q, queued, comm) <= ViewOf(q, less, commN) + 1
    BY <1>1, <2>1, <2>2, <2>3
  <2> QED BY <2>4 DEF less, x
<1> QED BY <1>5, <1>6 DEF Reads

-----------------------------------------------------------------------------
(* The bound, step by step.                                                 *)

LEMMA HopefulFinite ==
    ASSUME NEW req, NEW queued, NEW comm, NEW L
    PROVE  LET H == Hopeful(req, queued, comm, L)
           IN  /\ IsFiniteSet(H) /\ Cardinality(H) \in Nat
               /\ \A S \in SUBSET H : Cardinality(S) \in Nat /\ Cardinality(S) <= Cardinality(H)
               /\ Cardinality(H) <= Cardinality(Threads)
               /\ Cardinality(Threads) \in Nat
<1>1. Hopeful(req, queued, comm, L) \subseteq Threads
  BY DEF Hopeful
<1> QED BY <1>1, Finite

\* One request goes on.  It may begin to hope for a level only when the queue is not
\* above that level.
LEMMA BoundedGoes ==
    ASSUME NEW req, NEW reqN, NEW queued, IsFiniteSet(queued), NEW comm,
           NEW ex \in Nat, Bounded(req, queued, comm, ex),
           NEW t, \A s \in Threads \ {t} : reqN[s] = req[s],
           \A L \in Nat : TopThreshold <= L /\ t \in Hopeful(reqN, queued, comm, L)
               => t \in Hopeful(req, queued, comm, L) \/ Cardinality(queued) <= L
    PROVE  Bounded(reqN, queued, comm, ex)
<1> SUFFICES ASSUME NEW L \in Nat, TopThreshold <= L
             PROVE  Cardinality(queued) + Cardinality(Hopeful(reqN, queued, comm, L))
                        <= L + Cardinality(Threads) + ex
  BY DEF Bounded
<1> DEFINE H == Hopeful(req, queued, comm, L)
           HN == Hopeful(reqN, queued, comm, L)
<1>1. /\ Cardinality(queued) \in Nat /\ Cardinality(Threads) \in Nat
      /\ Cardinality(H) \in Nat /\ Cardinality(HN) \in Nat /\ Cardinality(HN) <= Cardinality(Threads)
  BY Finite, HopefulFinite
<1>2. CASE Cardinality(queued) <= L
  <2> HIDE DEF H, HN
  <2>1. Cardinality(queued) + Cardinality(HN) <= L + Cardinality(Threads) + ex
    BY <1>1, <1>2
  <2> QED BY <2>1 DEF HN
<1>3. CASE ~(Cardinality(queued) <= L)
  <2>1. HN \subseteq H
    BY <1>3 DEF Hopeful
  <2>2. Cardinality(HN) <= Cardinality(H)
    BY <2>1, HopefulFinite
  <2>3. Cardinality(queued) + Cardinality(H) <= L + Cardinality(Threads) + ex
    BY DEF Bounded
  <2> HIDE DEF H, HN
  <2>4. Cardinality(queued) + Cardinality(HN) <= L + Cardinality(Threads) + ex
    BY <1>1, <2>2, <2>3
  <2> QED BY <2>4 DEF HN
<1> QED BY <1>2, <1>3

\* A message comes, from a thread the queue has let through or from an exempt one.
LEMMA BoundedPublishes ==
    ASSUME NEW req \in [Threads -> Web!Request], NEW reqN,
           NEW queued, NEW queuedN, IsFiniteSet(queued), IsFiniteSet(queuedN),
           queued \subseteq queuedN, Cardinality(queuedN) = Cardinality(queued) + 1,
           NEW comm \in [Web!Routes -> Nat],
           NEW ex \in Nat, NEW exN \in Nat, Bounded(req, queued, comm, ex),
           NEW t \in Threads, \A s \in Threads \ {t} : reqN[s] = req[s],
           ~FromQueue(reqN[t]), ~Reads(reqN[t]),
           (FromQueue(req[t]) /\ exN = ex) \/ exN = ex + 1
    PROVE  Bounded(reqN, queuedN, comm, exN)
<1> SUFFICES ASSUME NEW L \in Nat, TopThreshold <= L
             PROVE  Cardinality(queuedN) + Cardinality(Hopeful(reqN, queuedN, comm, L))
                        <= L + Cardinality(Threads) + exN
  BY DEF Bounded
<1> DEFINE H == Hopeful(req, queued, comm, L)
           HN == Hopeful(reqN, queuedN, comm, L)
<1>1. /\ Cardinality(queued) \in Nat /\ Cardinality(Threads) \in Nat /\ IsFiniteSet(H)
      /\ Cardinality(H) \in Nat /\ Cardinality(HN) \in Nat
  BY Finite, HopefulFinite
<1>2. HN \subseteq H \ {t}
  <2> SUFFICES ASSUME NEW s \in HN PROVE s \in H /\ s # t
    OBVIOUS
  <2>1. s \in Threads /\ s # t
    BY DEF Hopeful
  <2>2. req[s] \in Web!Request /\ reqN[s] = req[s]
    BY <2>1
  <2>3. CASE FromQueue(req[s])
    BY <2>1, <2>3 DEF Hopeful
  <2>4. CASE Reads(req[s]) /\ ViewOf(req[s], queuedN, comm) <= L
    <3>1. ViewOf(req[s], queued, comm) <= ViewOf(req[s], queuedN, comm)
      BY <2>2, <2>4, PublishView
    <3>2. ViewOf(req[s], queued, comm) \in Nat /\ ViewOf(req[s], queuedN, comm) \in Nat
      BY <2>2, <2>4, ViewType
    <3>3. ViewOf(req[s], queued, comm) <= L
      BY <2>4, <3>1, <3>2
    <3> QED BY <2>1, <2>4, <3>3 DEF Hopeful
  <2> QED BY <2>2, <2>3, <2>4 DEF Hopeful
<1>3. Cardinality(queued) + Cardinality(H) <= L + Cardinality(Threads) + ex
  BY DEF Bounded
<1>4. CASE FromQueue(req[t]) /\ exN = ex
  <2>1. t \in H
    BY <1>4 DEF Hopeful
  <2> HIDE DEF H, HN
  <2>2. IsFiniteSet(H \ {t}) /\ Cardinality(H \ {t}) = Cardinality(H) - 1
    BY <1>1, <2>1, FS_RemoveElement
  <2>3. Cardinality(HN) <= Cardinality(H) - 1
    BY <1>2, <2>2, Finite
  <2>4. Cardinality(queuedN) + Cardinality(HN) <= L + Cardinality(Threads) + exN
    BY <1>1, <1>3, <1>4, <2>3
  <2> QED BY <2>4 DEF HN
<1>5. CASE exN = ex + 1
  <2>1. Cardinality(HN) <= Cardinality(H)
    BY <1>2, HopefulFinite
  <2> HIDE DEF H, HN
  <2>2. Cardinality(queuedN) + Cardinality(HN) <= L + Cardinality(Threads) + exN
    BY <1>1, <1>3, <1>5, <2>1
  <2> QED BY <2>2 DEF HN
<1> QED BY <1>4, <1>5

\* A message goes.  Who now hopes for a level hoped for one more before, and that
\* is why the bound is of every level.
LEMMA BoundedCommits ==
    ASSUME NEW req \in [Threads -> Web!Request], NEW queued, IsFiniteSet(queued),
           NEW comm \in [Web!Routes -> Nat], NEW commN \in [Web!Routes -> Nat],
           NEW k \in Web!Routes, NEW n, <<k, n>> \in queued,
           commN = [comm EXCEPT ![k] = comm[k] + 1],
           NEW ex \in Nat, Bounded(req, queued, comm, ex)
    PROVE  Bounded(req, queued \ {<<k, n>>}, commN, ex)
<1> DEFINE less == queued \ {<<k, n>>}
<1>0. IsFiniteSet(less) /\ Cardinality(less) = Cardinality(queued) - 1
  BY FS_RemoveElement
<1> SUFFICES ASSUME NEW L \in Nat, TopThreshold <= L
             PROVE  Cardinality(less) + Cardinality(Hopeful(req, less, commN, L))
                        <= L + Cardinality(Threads) + ex
  BY DEF Bounded
<1> DEFINE H == Hopeful(req, queued, comm, L + 1)
           HN == Hopeful(req, less, commN, L)
<1>1. /\ Cardinality(queued) \in Nat /\ Cardinality(Threads) \in Nat
      /\ Cardinality(H) \in Nat /\ Cardinality(HN) \in Nat
  BY Finite, HopefulFinite
<1>2. HN \subseteq H
  <2> SUFFICES ASSUME NEW s \in HN PROVE s \in H
    OBVIOUS
  <2>1. s \in Threads /\ req[s] \in Web!Request
    BY DEF Hopeful
  <2>2. CASE FromQueue(req[s])
    BY <2>1, <2>2 DEF Hopeful
  <2>3. CASE Reads(req[s]) /\ ViewOf(req[s], less, commN) <= L
    <3>1. ViewOf(req[s], queued, comm) <= ViewOf(req[s], less, commN) + 1
      BY <2>1, <2>3, CommitView
    <3>2. ViewOf(req[s], queued, comm) \in Nat /\ ViewOf(req[s], less, commN) \in Nat
      BY <1>0, <2>1, <2>3, ViewType
    <3>3. ViewOf(req[s], queued, comm) <= L + 1
      BY <2>3, <3>1, <3>2
    <3> QED BY <2>1, <2>3, <3>3 DEF Hopeful
  <2> QED BY <2>2, <2>3 DEF Hopeful
<1>3. Cardinality(HN) <= Cardinality(H)
  BY <1>2, HopefulFinite
<1>4. L + 1 \in Nat /\ TopThreshold <= L + 1
  BY TopIsTop
<1>5. Cardinality(queued) + Cardinality(H) <= L + 1 + Cardinality(Threads) + ex
  BY <1>4 DEF Bounded
<1> HIDE DEF H, HN, less
<1>6. Cardinality(less) + Cardinality(HN) <= L + Cardinality(Threads) + ex
  BY <1>0, <1>1, <1>3, <1>5
<1> QED BY <1>6 DEF HN, less

LEMMA OverStays ==
    ASSUME OverInv, Web!TypeOK, UNCHANGED <<appended, committed, request, exempt>>
    PROVE  OverInv'
<1>1. Web!Queued' = Web!Queued
  BY DEF Web!Queued
<1> QED BY <1>1 DEF OverInv

\* Thread t goes on to next, which it was to come to anyway, or while the queue is short.
LEMMA OverGoes ==
    ASSUME OverInv, Web!TypeOK, NEW t \in Threads, NEW next \in Web!Request,
           Web!Steps(t, next), UNCHANGED <<appended, committed, exempt>>,
           \/ ~FromQueue(next) /\ ~Reads(next)
           \/ FromQueue(next) /\ Reads(request[t])
              /\ ViewOf(request[t], Web!Queued, committed) <= TopThreshold
           \/ /\ Reads(next) /\ Reads(request[t])
              /\ ViewOf(request[t], Web!Queued, committed) <= ViewOf(next, Web!Queued, committed)
           \/ Reads(next) /\ ViewOf(next, Web!Queued, committed) = Cardinality(Web!Queued)
    PROVE  OverInv'
<1> DEFINE q == request[t]
           view == ViewOf(q, Web!Queued, committed)
           viewN == ViewOf(next, Web!Queued, committed)
<1>1. request'[t] = next /\ \A s \in Threads \ {t} : request'[s] = request[s]
  BY StepsEffect
<1>2. Web!Queued' = Web!Queued
  BY DEF Web!Queued
<1>3. q \in Web!Request /\ exempt \in Nat /\ committed \in [Web!Routes -> Nat]
  BY DEF Web!TypeOK
<1>4. IsFiniteSet(Web!Queued) /\ Bounded(request, Web!Queued, committed, exempt)
  BY DEF OverInv
<1>5. (Reads(q) => view \in Nat) /\ (Reads(next) => viewN \in Nat)
  BY <1>3, <1>4, ViewType
<1>6. ASSUME NEW L \in Nat, TopThreshold <= L, t \in Hopeful(request', Web!Queued, committed, L)
      PROVE  t \in Hopeful(request, Web!Queued, committed, L) \/ Cardinality(Web!Queued) <= L
  <2>1. FromQueue(next) \/ (Reads(next) /\ viewN <= L)
    BY <1>1, <1>6 DEF Hopeful
  <2>2. Reads(q) /\ view <= L => t \in Hopeful(request, Web!Queued, committed, L)
    BY DEF Hopeful
  <2>3. FromQueue(next) => ~Reads(next)
    BY DEF FromQueue, Reads
  <2>4. TopThreshold \in Nat
    BY TopIsTop
  <2> HIDE DEF q, view, viewN
  <2>5. \/ FromQueue(next) /\ Reads(q) /\ view <= TopThreshold
        \/ Reads(next) /\ Reads(q) /\ view <= viewN
        \/ Reads(next) /\ viewN = Cardinality(Web!Queued)
    BY <2>1 DEF q, view, viewN
  <2> QED BY <1>5, <1>6, <2>1, <2>2, <2>3, <2>4, <2>5
<1>7. Bounded(request', Web!Queued, committed, exempt)
  BY <1>1, <1>3, <1>4, <1>6, BoundedGoes
<1> QED BY <1>2, <1>4, <1>7 DEF OverInv

\* A request that begins to read is to count the queue that is there.
LEMMA FirstView ==
    ASSUME Web!TypeOK, IsFiniteSet(Web!Queued), NEW next \in Web!Request,
           next.at = "ends", next.depth = 0, next.route = 1
    PROVE  Reads(next) /\ ViewOf(next, Web!Queued, committed) = Cardinality(Web!Queued)
<1>1. next.route - 1 = 0 /\ Cardinality(Web!Queued) \in Nat
  BY Finite
<1>2. Rest(Web!Queued, next.route - 1) = Web!Queued
  BY <1>1, NoRest
<1> QED BY <1>1, <1>2 DEF ViewOf, Reads

LEMMA OverBegins ==
    ASSUME OverInv, WebTyped, NEW t \in Threads,
           Web!Arrivals(t) \/ Web!Fetches(t) \/ Web!FetchFails(t)
    PROVE  OverInv'
<1>0. Web!TypeOK /\ IsFiniteSet(Web!Queued)
  BY DEF WebTyped, OverInv
<1>1. PICK next \in Web!Request :
         /\ Web!Goes(t, next)
         /\ next.at = "ends" => next.depth = 0 /\ next.route = 1
         /\ next.at \in {"asking", "ends", "answered", "admitted"} /\ ~FromQueue(next)
  <2>1. CASE Web!Arrivals(t)
    BY <1>0, <2>1, ArriveType
  <2>2. CASE Web!Fetches(t) \/ Web!FetchFails(t)
    BY <2>2, FetchType DEF FromQueue
  <2> QED BY <2>1, <2>2
<1>2. Web!Steps(t, next) /\ UNCHANGED <<appended, committed, exempt>>
  BY <1>1 DEF Web!Goes, Web!topicVars
<1>3. CASE next.at = "ends"
  <2>1. Reads(next) /\ ViewOf(next, Web!Queued, committed) = Cardinality(Web!Queued)
    BY <1>0, <1>1, <1>3, FirstView
  <2> QED BY <1>0, <1>2, <2>1, OverGoes
<1>4. CASE next.at # "ends"
  <2>1. ~FromQueue(next) /\ ~Reads(next)
    BY <1>1, <1>4 DEF Reads
  <2> QED BY <1>0, <1>2, <2>1, OverGoes
<1> QED BY <1>3, <1>4

LEMMA OverReads ==
    ASSUME OverInv, Web!TypeOK, NEW t \in Threads, Web!ReadEnds(t)
    PROVE  OverInv'
<1> DEFINE q == request[t]
<1>0. q \in Web!Request /\ IsFiniteSet(Web!Queued)
  BY DEF Web!TypeOK, OverInv
<1>1. PICK next \in Web!Request :
         /\ Web!Goes(t, next) /\ q.at = "ends"
         /\ next.at = "commits" /\ next.route = q.route
         /\ next.depth = q.depth /\ next.end = appended[q.route]
  BY ReadEndsType
<1>2. ViewOf(q, Web!Queued, committed) <= ViewOf(next, Web!Queued, committed)
  BY <1>0, <1>1, ReadEndsView
<1>3. Reads(q) /\ Reads(next)
  BY <1>1 DEF Reads
<1>4. Web!Steps(t, next) /\ UNCHANGED <<appended, committed, exempt>>
  BY <1>1 DEF Web!Goes, Web!topicVars
<1> QED BY <1>2, <1>3, <1>4, OverGoes

\* The queue lets a request through only for a depth that is at or below the threshold.
LEMMA QueueLetsThrough ==
    ASSUME NEW u \in Students, NEW v \in Web!Versions, NEW depth \in Nat,
           FromQueue(Web!AfterDepth(u, v, depth, FALSE))
    PROVE  depth <= TopThreshold
<1> DEFINE c == Configs[v]
<1>1. c.threshold \in Nat /\ c.threshold <= TopThreshold /\ TopThreshold \in Nat
  BY Assumed, TopIsTop DEF Web!Config
<1>2. ~FromQueue(Web!LocalLimit(u, v)) /\ ~FromQueue([at |-> "limiter", user |-> u, version |-> v])
  <2>1. ~FromQueue([at |-> "limiter", user |-> u, version |-> v])
    BY DEF FromQueue
  <2> QED BY <2>1, FailureIsNoDepth
<1>3. ~(depth > c.threshold)
  BY <1>2 DEF Web!AfterDepth
<1> QED BY <1>1, <1>3

LEMMA OverCounts ==
    ASSUME OverInv, Web!TypeOK, NEW t \in Threads, Web!ReadCommitted(t)
    PROVE  OverInv'
<1> DEFINE q == request[t]
           depth == q.depth + Web!DepthOf(q.route, q.end)
<1>0. q \in Web!Request /\ IsFiniteSet(Web!Queued) /\ committed \in [Web!Routes -> Nat]
  BY DEF Web!TypeOK, OverInv
<1>1. PICK next \in Web!Request :
         /\ Web!Goes(t, next) /\ q.at = "commits" /\ depth \in Nat
         /\ \/ next.at = "ends" /\ next.depth = depth /\ next.route = q.route + 1
            \/ next = Web!AfterDepth(q.user, q.version, depth, FALSE)
               /\ next.at \in {"limiter", "rate", "admitted"} /\ q.route = NumRoutes
  BY ReadCommittedType
<1>2. Web!Steps(t, next) /\ UNCHANGED <<appended, committed, exempt>>
  BY <1>1 DEF Web!Goes, Web!topicVars
<1>3. Reads(q) /\ q.user \in Students /\ q.version \in Web!Versions
  BY <1>0, <1>1, Held DEF Reads
<1>4. CASE next.at = "ends"
  <2>1. next.depth = depth /\ next.route = q.route + 1
    BY <1>1, <1>4
  <2>2. ViewOf(next, Web!Queued, committed) = ViewOf(q, Web!Queued, committed)
    BY <1>0, <1>1, <1>4, <2>1, ReadCommittedView
  <2>3. ViewOf(q, Web!Queued, committed) \in Nat /\ Reads(next)
    BY <1>0, <1>3, <1>4, ViewType DEF Reads
  <2>4. ViewOf(q, Web!Queued, committed) <= ViewOf(next, Web!Queued, committed)
    BY <2>2, <2>3
  <2> QED BY <1>2, <1>3, <2>3, <2>4, OverGoes
<1>5. CASE next.at # "ends"
  <2>1. next = Web!AfterDepth(q.user, q.version, depth, FALSE) /\ q.route = NumRoutes
        /\ ~Reads(next)
    BY <1>1, <1>5 DEF Reads
  <2>2. ViewOf(q, Web!Queued, committed) = depth
    BY <1>0, <1>1, <2>1, ReadCommittedView
  <2>3. FromQueue(next) => ViewOf(q, Web!Queued, committed) <= TopThreshold
    BY <1>1, <1>3, <2>1, <2>2, QueueLetsThrough
  <2> QED BY <1>2, <1>3, <2>1, <2>3, OverGoes
<1> QED BY <1>4, <1>5

LEMMA OverOther ==
    ASSUME OverInv, Web!TypeOK, NEW t \in Threads,
           Web!KafkaRaises(t) \/ Web!Limits(t) \/ Web!Finish(t)
    PROVE  OverInv'
<1>1. PICK next \in Web!Request :
         /\ Web!Steps(t, next) /\ UNCHANGED <<appended, committed, exempt>>
         /\ ~FromQueue(next) /\ ~Reads(next)
  <2>1. CASE Web!RateReads(t)
    <3> DEFINE q == request[t]
               stores == [at |-> "rateStores", user |-> q.user, entries |-> history[q.user]]
    <3>1. q \in Web!Request /\ q.at = "rate"
      BY <2>1 DEF Web!TypeOK, Web!RateReads
    <3>2. q.user \in Students /\ history[q.user] \in Nat
      BY <3>1, Held, Assumed DEF Web!TypeOK
    <3>3. stores \in Web!Request /\ ~FromQueue(stores) /\ ~Reads(stores)
      BY <3>2, Made DEF FromQueue, Reads
    <3>4. Web!Idle \in Web!Request /\ ~FromQueue(Web!Idle) /\ ~Reads(Web!Idle)
      BY Made DEF Web!Idle, FromQueue, Reads
    <3>5. (Web!Steps(t, Web!Idle) \/ Web!Steps(t, stores)) /\ UNCHANGED <<appended, committed, exempt>>
      BY <2>1 DEF Web!RateReads, Web!TakesHistory, Web!Goes, Web!Refused, Web!topicVars
    <3> HIDE DEF stores
    <3> QED BY <3>3, <3>4, <3>5
  <2>2. CASE Web!RateStores(t) \/ Web!RateRaises(t)
    <3>1. Web!Steps(t, Web!Admitted("other")) /\ UNCHANGED <<appended, committed, exempt>>
      BY <2>2 DEF Web!RateStores, Web!RateRaises, Web!topicVars
    <3>2. /\ Web!Admitted("other") \in Web!Request /\ ~FromQueue(Web!Admitted("other"))
          /\ ~Reads(Web!Admitted("other"))
      BY Made DEF Web!Admitted, FromQueue, Reads
    <3> QED BY <3>1, <3>2
  <2>3. CASE Web!KafkaRaises(t) \/ Web!LimiterAnswers(t) \/ Web!LimiterFails(t) \/ Web!Finish(t)
    <3>1. PICK next \in Web!Request :
             Web!Goes(t, next) /\ next.at \in {"limiter", "rate", "admitted", "idle"} /\ ~FromQueue(next)
      BY <2>3, OtherType
    <3>2. Web!Steps(t, next) /\ UNCHANGED <<appended, committed, exempt>> /\ ~Reads(next)
      BY <3>1 DEF Web!Goes, Web!topicVars, Reads
    <3> QED BY <3>1, <3>2
  <2> QED BY <2>1, <2>2, <2>3 DEF Web!Limits
<1> QED BY <1>1, OverGoes

LEMMA OverPublishes ==
    ASSUME OverInv, Web!TypeOK, Web!TypeOK', NEW t \in Threads, NEW k \in Web!Routes, Web!Publish(t, k)
    PROVE  OverInv'
<1> DEFINE x == <<k, appended[k] + 1>>
<1>1. /\ appended' = [appended EXCEPT ![k] = appended[k] + 1] /\ committed' = committed
      /\ request[t].at = "admitted" /\ request' = [request EXCEPT ![t] = Web!Idle]
      /\ exempt' = IF request[t].by = "queue" THEN exempt ELSE exempt + 1
  BY DEF Web!Publish
<1>2. /\ appended \in [Web!Routes -> Nat] /\ committed \in [Web!Routes -> Nat]
      /\ \A j \in Web!Routes : committed[j] <= appended[j]
      /\ request \in [Threads -> Web!Request] /\ exempt \in Nat
  BY DEF Web!TypeOK
<1>3. ASSUME NEW m PROVE m \in Web!Queued' <=> m \in Web!Queued \/ m = x
  <2>1. m \in Web!Queued' <=>
            \E j \in Web!Routes, n \in Nat : m = <<j, n>> /\ committed[j] < n /\ n <= appended'[j]
    <3>1. /\ \A j \in Web!Routes : committed'[j] \in Nat /\ appended'[j] \in Nat
          /\ committed' = committed
      BY <1>1 DEF Web!TypeOK
    <3>2. ASSUME NEW j \in Web!Routes, NEW n
          PROVE  n \in (committed'[j] + 1)..appended'[j] <=> n \in Nat /\ committed[j] < n /\ n <= appended'[j]
      BY <3>1
    <3> QED BY <3>2 DEF Web!Queued
  <2>2. m \in Web!Queued <=>
            \E j \in Web!Routes, n \in Nat : m = <<j, n>> /\ committed[j] < n /\ n <= appended[j]
    BY QueuedMember
  <2>3. ASSUME NEW j \in Web!Routes, NEW n \in Nat
        PROVE  committed[j] < n /\ n <= appended'[j] <=>
                   (committed[j] < n /\ n <= appended[j]) \/ <<j, n>> = x
    <3>1. committed[j] \in Nat /\ appended[j] \in Nat /\ committed[j] <= appended[j]
      BY <1>2
    <3>2. appended'[j] = IF j = k THEN appended[j] + 1 ELSE appended[j]
      BY <1>1, <1>2
    <3>3. <<j, n>> = x <=> j = k /\ n = appended[k] + 1
      OBVIOUS
    <3> HIDE DEF x
    <3> QED BY <3>1, <3>2, <3>3
  <2>4. k \in Web!Routes /\ appended[k] + 1 \in Nat
    BY <1>2
  <2> QED BY <2>1, <2>2, <2>3, <2>4
<1>4. x \notin Web!Queued
  <2>1. ASSUME NEW j \in Web!Routes, NEW n \in Nat, x = <<j, n>>, n <= appended[j] PROVE FALSE
    <3>1. j = k /\ n = appended[k] + 1 /\ appended[k] \in Nat
      BY <1>2, <2>1
    <3> QED BY <2>1, <3>1
  <2> QED BY <2>1, QueuedMember
<1> HIDE DEF x
<1>5. Web!Queued' = Web!Queued \cup {x}
  BY <1>3
<1>6. IsFiniteSet(Web!Queued) /\ Bounded(request, Web!Queued, committed, exempt)
  BY DEF OverInv
<1>7. IsFiniteSet(Web!Queued') /\ Cardinality(Web!Queued') = Cardinality(Web!Queued) + 1
  BY <1>4, <1>5, <1>6, FS_AddElement
<1>8. request'[t] = Web!Idle /\ \A s \in Threads \ {t} : request'[s] = request[s]
  BY <1>1, <1>2
<1>9. ~FromQueue(request'[t]) /\ ~Reads(request'[t])
  BY <1>8 DEF Web!Idle, FromQueue, Reads
<1>10. exempt' \in Nat /\ ((FromQueue(request[t]) /\ exempt' = exempt) \/ exempt' = exempt + 1)
  BY <1>1, <1>2 DEF FromQueue
<1>11. Bounded(request', Web!Queued', committed, exempt')
  BY <1>2, <1>5, <1>6, <1>7, <1>8, <1>9, <1>10, BoundedPublishes
<1> QED BY <1>1, <1>7, <1>11 DEF OverInv

LEMMA OverCommits ==
    ASSUME OverInv, Web!TypeOK, Web!TypeOK', NEW k \in Web!Routes, Web!Commit(k)
    PROVE  OverInv'
<1> DEFINE n == committed[k] + 1
           x == <<k, n>>
<1>1. /\ committed[k] < appended[k] /\ committed' = [committed EXCEPT ![k] = committed[k] + 1]
      /\ UNCHANGED <<appended, request, exempt>>
  BY DEF Web!Commit
<1>2. /\ appended \in [Web!Routes -> Nat] /\ committed \in [Web!Routes -> Nat]
      /\ committed' \in [Web!Routes -> Nat]
      /\ request \in [Threads -> Web!Request] /\ exempt \in Nat
  BY DEF Web!TypeOK
<1>3. ASSUME NEW m PROVE m \in Web!Queued' <=> m \in Web!Queued /\ m # x
  <2>1. m \in Web!Queued' <=>
            \E j \in Web!Routes, i \in Nat : m = <<j, i>> /\ committed'[j] < i /\ i <= appended[j]
    <3>1. /\ \A j \in Web!Routes : committed'[j] \in Nat /\ appended[j] \in Nat
          /\ appended' = appended
      BY <1>1, <1>2
    <3>2. ASSUME NEW j \in Web!Routes, NEW i
          PROVE  i \in (committed'[j] + 1)..appended'[j] <=> i \in Nat /\ committed'[j] < i /\ i <= appended[j]
      BY <3>1
    <3> QED BY <3>2 DEF Web!Queued
  <2>2. m \in Web!Queued <=>
            \E j \in Web!Routes, i \in Nat : m = <<j, i>> /\ committed[j] < i /\ i <= appended[j]
    BY QueuedMember
  <2>3. ASSUME NEW j \in Web!Routes, NEW i \in Nat
        PROVE  committed'[j] < i /\ i <= appended[j] <=>
                   (committed[j] < i /\ i <= appended[j]) /\ <<j, i>> # x
    <3>1. committed[j] \in Nat /\ appended[j] \in Nat
      BY <1>2
    <3>2. committed'[j] = IF j = k THEN committed[j] + 1 ELSE committed[j]
      BY <1>1, <1>2
    <3>3. <<j, i>> = x <=> j = k /\ i = committed[k] + 1
      OBVIOUS
    <3> HIDE DEF x
    <3> QED BY <3>1, <3>2, <3>3
  <2> QED BY <2>1, <2>2, <2>3
<1>4. x \in Web!Queued
  <2>1. committed[k] \in Nat /\ appended[k] \in Nat
    BY <1>2
  <2>2. n \in Nat /\ committed[k] < n /\ n <= appended[k]
    BY <1>1, <2>1
  <2> QED BY <2>2, QueuedMember
<1> HIDE DEF n
<1>5. Web!Queued' = Web!Queued \ {x}
  BY <1>3
<1>6. IsFiniteSet(Web!Queued) /\ Bounded(request, Web!Queued, committed, exempt)
  BY DEF OverInv
<1>7. IsFiniteSet(Web!Queued')
  BY <1>5, <1>6, Finite
<1>8. Bounded(request, Web!Queued \ {<<k, n>>}, committed', exempt)
  BY <1>1, <1>2, <1>4, <1>6, BoundedCommits
<1> QED BY <1>1, <1>5, <1>7, <1>8 DEF OverInv

LEMMA OverEmpty ==
    ASSUME NEW req, NEW queued, IsFiniteSet(queued), NEW comm, NEW ex \in Nat,
           \A t \in Threads : ~FromQueue(req[t]) /\ ~Reads(req[t]),
           \A L \in Nat : TopThreshold <= L =>
               Cardinality(queued) <= L + Cardinality(Threads) + ex
    PROVE  Bounded(req, queued, comm, ex)
<1>1. \A L : Hopeful(req, queued, comm, L) = {}
  BY DEF Hopeful
<1>2. Cardinality({}) = 0 /\ Cardinality(queued) \in Nat /\ Cardinality(Threads) \in Nat
  BY FS_EmptySet, Finite
<1>3. ASSUME NEW L \in Nat, TopThreshold <= L
      PROVE  Cardinality(queued) + Cardinality(Hopeful(req, queued, comm, L))
                 <= L + Cardinality(Threads) + ex
  BY <1>1, <1>2, <1>3
<1> QED BY <1>3 DEF Bounded

LEMMA OverRestarts ==
    ASSUME OverInv, Web!TypeOK, Web!RestartWeb
    PROVE  OverInv'
<1>1. request' = [t \in Threads |-> Web!Idle] /\ UNCHANGED <<appended, committed, exempt>>
  BY DEF Web!RestartWeb, Web!topicVars
<1>2. Web!Queued' = Web!Queued
  BY <1>1 DEF Web!Queued
<1>3. \A t \in Threads : ~FromQueue(request'[t]) /\ ~Reads(request'[t])
  BY <1>1 DEF Web!Idle, FromQueue, Reads
<1>4. IsFiniteSet(Web!Queued) /\ Bounded(request, Web!Queued, committed, exempt) /\ exempt \in Nat
  BY DEF OverInv, Web!TypeOK
<1>5. ASSUME NEW L \in Nat, TopThreshold <= L
      PROVE  Cardinality(Web!Queued) <= L + Cardinality(Threads) + exempt
  <2>1. /\ Cardinality(Web!Queued) + Cardinality(Hopeful(request, Web!Queued, committed, L))
             <= L + Cardinality(Threads) + exempt
    BY <1>4, <1>5 DEF Bounded
  <2> QED BY <1>4, <2>1, HopefulFinite, Finite
<1>6. Bounded(request', Web!Queued, committed, exempt)
  BY <1>3, <1>4, <1>5, OverEmpty
<1> QED BY <1>1, <1>2, <1>4, <1>6 DEF OverInv

LEMMA OverInit == ASSUME Web!Init PROVE OverInv
<1>1. request = [t \in Threads |-> Web!Idle] /\ exempt = 0
      /\ appended = Web!NoBacklog /\ committed = Web!NoBacklog
  BY DEF Web!Init
<1>2. Web!Queued = {}
  BY <1>1 DEF Web!Queued, Web!NoBacklog
<1>3. IsFiniteSet({}) /\ Cardinality({}) = 0
  BY FS_EmptySet
<1>4. \A t \in Threads : ~FromQueue(request[t]) /\ ~Reads(request[t])
  BY <1>1 DEF Web!Idle, FromQueue, Reads
<1>5. \A L \in Nat : Cardinality({}) <= L + Cardinality(Threads) + exempt
  BY <1>1, <1>3, Finite
<1>6. Bounded(request, {}, committed, exempt)
  BY <1>1, <1>3, <1>4, <1>5, OverEmpty
<1> QED BY <1>2, <1>3, <1>6 DEF OverInv

LEMMA OverStep == ASSUME LoadInv, LoadInv', OverInv, [Next]_vars PROVE OverInv'
<1>0. WebTyped /\ Web!TypeOK /\ Web!TypeOK'
  BY DEF LoadInv, WebInv, WebTyped
<1>1. ASSUME NEW t \in Threads, Arrives(t) PROVE OverInv'
  BY <1>0, <1>1, OverBegins DEF Arrives
<1>2. ASSUME NEW t \in Threads, Proceeds(t) PROVE OverInv'
  BY <1>0, <1>2, OverBegins, OverReads, OverCounts, OverOther, OverPublishes
     DEF Proceeds, Web!Proceeds, Web!ReadsQueue, Web!Ends
<1>3. ASSUME NEW k \in Web!Routes, Judge(k) PROVE OverInv'
  BY <1>0, <1>3, OverCommits DEF Judge
<1>4. ASSUME NEW k \in Web!Routes, CooldownEnds(k) PROVE OverInv'
  BY <1>0, <1>4, OverStays DEF CooldownEnds, Scaling!CooldownEnds, webVars
<1>9. ASSUME NEW k \in Web!Routes, Stalls(k) \/ Recovers(k) PROVE OverInv'
  BY <1>0, <1>9, OverStays DEF Stalls, Recovers, webVars
<1>5. CASE Around
  <2>1. UNCHANGED <<appended, committed, request, exempt>>
    BY <1>5 DEF Around, Web!PublishConfig, Web!TimePasses, Web!CacheExpires, Web!WindowPasses, Web!topicVars
  <2> QED BY <1>0, <2>1, OverStays
<1>6. CASE Scales \/ ScalerDies
  <2>1. UNCHANGED <<appended, committed, request, exempt>>
    BY <1>6 DEF Scales, ScalerDies, Scaling!Dies, Scaling!Round, Scaling!ReadEnds,
                Scaling!ReadCommitted, Scaling!Decide, Scaling!Scale, webVars
  <2> QED BY <1>0, <2>1, OverStays
<1>7. CASE StartVortex
  BY <1>0, <1>7, OverRestarts DEF StartVortex
<1>8. CASE UNCHANGED vars
  BY <1>0, <1>8, OverStays DEF vars, webVars
<1> QED BY <1>1, <1>2, <1>3, <1>4, <1>5, <1>6, <1>7, <1>8, <1>9 DEF Next

\* Requests that read the same short queue are all let through (throttles.py:89), at
\* whatever pace they read and whatever is committed meanwhile: the backlog is never
\* above the greatest threshold by more than a message of each thread, but for those
\* that were let through for another reason.
THEOREM OvershootIsBounded == Spec => []OvershootBounded
<1>1. Init => LoadInv /\ OverInv
  BY LoadInit, OverInit DEF Init
<1>2. LoadInv /\ OverInv /\ [Next]_vars => (LoadInv /\ OverInv)'
  BY LoadStep, OverStep
<1>3. LoadInv /\ OverInv => OvershootBounded
  <2> SUFFICES ASSUME LoadInv, OverInv PROVE OvershootBounded
    OBVIOUS
  <2>1. TopThreshold \in Nat
    BY TopIsTop
  <2>2. Cardinality(Web!Queued) + Cardinality(Hopeful(request, Web!Queued, committed, TopThreshold))
            <= TopThreshold + Cardinality(Threads) + exempt
    BY <2>1 DEF OverInv, Bounded
  <2>3. Cardinality(Web!Queued) <= TopThreshold + Cardinality(Threads) + exempt
    <3>1. exempt \in Nat /\ IsFiniteSet(Web!Queued)
      BY DEF LoadInv, WebInv, WebTyped, Web!TypeOK, OverInv
    <3> QED BY <2>1, <2>2, <3>1, HopefulFinite, Finite
  <2>4. Web!Cardinality(Web!Queued) = Cardinality(Web!Queued) /\ Web!Cardinality(Threads) = Cardinality(Threads)
    BY SameCount
  <2> QED BY <2>3, <2>4 DEF OvershootBounded, Web!OvershootBounded, TopThreshold
<1> QED BY <1>1, <1>2, <1>3, PTL DEF Spec

-----------------------------------------------------------------------------
(* The limits of the autoscaler.                                            *)

\* What is asked of docker is within the limits of the route, and a service never has
\* fewer containers than both its minimum and its start ask for, nor more than both
\* allow; a scaling that was cut off half way and a restart included.
WithinLimits ==
    /\ scaler.at = "scale" => scaler.target \in MinReplicas[scaler.route]..MaxReplicas[scaler.route]
    /\ \A k \in Scaling!Routes :
          /\ replicas[k] >= MinReplicas[k] \/ replicas[k] >= StartReplicas[k]
          /\ replicas[k] <= MaxReplicas[k] \/ replicas[k] <= StartReplicas[k]

LEMMA Limits ==
    ASSUME NEW k \in Scaling!Routes
    PROVE  /\ MinReplicas[k] \in Nat /\ MaxReplicas[k] \in Nat /\ StartReplicas[k] \in Nat
           /\ MinReplicas[k] <= MaxReplicas[k]
BY ScalingAssumed, LoadAssumption DEF LoadAssumption, Scaling!AutoscalerAssumption

LEMMA NextRouteAsksNothing ==
    ASSUME NEW k
    PROVE  Scaling!NextRoute(k).at = "ends"
BY DEF Scaling!NextRoute, Scaling!AtRoute

\* Service k gets n containers, where its limits or what it had before allow them.
LEMMA LimitsAfter ==
    ASSUME Scaling!TypeOK, WithinLimits, NEW k \in Scaling!Routes,
           NEW target \in MinReplicas[k]..MaxReplicas[k], NEW n \in Scaling!Between(replicas[k], target),
           replicas' = [replicas EXCEPT ![k] = n], scaler'.at # "scale"
    PROVE  WithinLimits'
<1>1. /\ replicas[k] \in Nat /\ target \in Nat
      /\ MinReplicas[k] \in Nat /\ MaxReplicas[k] \in Nat /\ StartReplicas[k] \in Nat
  BY Limits DEF Scaling!TypeOK
<1>2. \/ replicas[k] <= n /\ n <= target
      \/ target <= n /\ n <= replicas[k]
  BY <1>1 DEF Scaling!Between
<1>3. n \in Nat
  BY <1>1 DEF Scaling!Between
<1>4. replicas \in [Scaling!Routes -> Nat]
  BY DEF Scaling!TypeOK
<1>5. /\ n >= MinReplicas[k] \/ n >= StartReplicas[k]
      /\ n <= MaxReplicas[k] \/ n <= StartReplicas[k]
  <2>1. /\ replicas[k] >= MinReplicas[k] \/ replicas[k] >= StartReplicas[k]
        /\ replicas[k] <= MaxReplicas[k] \/ replicas[k] <= StartReplicas[k]
    BY DEF WithinLimits
  <2> QED BY <1>1, <1>2, <1>3, <2>1
<1>6. replicas'[k] = n /\ \A j \in Scaling!Routes \ {k} : replicas'[j] = replicas[j]
  BY <1>4
<1>7. ASSUME NEW j \in Scaling!Routes
      PROVE  /\ replicas'[j] >= MinReplicas[j] \/ replicas'[j] >= StartReplicas[j]
             /\ replicas'[j] <= MaxReplicas[j] \/ replicas'[j] <= StartReplicas[j]
  BY <1>5, <1>6 DEF WithinLimits
<1> QED BY <1>7 DEF WithinLimits

LEMMA RoundKeepsLimits ==
    ASSUME Scaling!TypeOK, WithinLimits, Scaling!Round
    PROVE  WithinLimits'
<1> DEFINE k == scaler.route
<1>1. CASE Scaling!ReadEnds \/ Scaling!ReadCommitted
  BY <1>1 DEF Scaling!ReadEnds, Scaling!ReadCommitted, WithinLimits
<1>2. CASE Scaling!Decide
  <2> DEFINE desired == Scaling!DesiredReplicas(k, scaler.lag)
  <2>1. k \in Scaling!Routes /\ scaler.lag \in Nat
    BY <1>2, ScalerFields DEF Scaling!Decide
  <2>2. desired \in MinReplicas[k]..MaxReplicas[k]
    BY <2>1, Limits, DesiredWithin
  <2>3. /\ scaler' = [at |-> "scale", route |-> k, target |-> desired] \/ scaler' = Scaling!NextRoute(k)
        /\ replicas' = replicas
    BY <1>2 DEF Scaling!Decide
  <2> HIDE DEF desired
  <2> QED BY <2>2, <2>3, NextRouteAsksNothing DEF WithinLimits
<1>3. CASE Scaling!Scale
  <2>1. k \in Scaling!Routes /\ replicas[k] \in Nat
    BY <1>3, ScalerFields DEF Scaling!Scale, Scaling!TypeOK
  <2>2. scaler.target \in MinReplicas[k]..MaxReplicas[k]
    BY <1>3 DEF Scaling!Scale, WithinLimits
  <2>3. scaler.target \in Scaling!Between(replicas[k], scaler.target)
    BY <2>1, <2>2, Limits DEF Scaling!Between
  <2>4. replicas' = [replicas EXCEPT ![k] = scaler.target] /\ scaler'.at # "scale"
    BY <1>3, NextRouteAsksNothing DEF Scaling!Scale
  <2> QED BY <2>1, <2>2, <2>3, <2>4, LimitsAfter
<1> QED BY <1>1, <1>2, <1>3 DEF Scaling!Round

\* A scaling that is cut off leaves a number of containers between the two.
LEMMA DiesKeepsLimits ==
    ASSUME Scaling!TypeOK, WithinLimits, Scaling!Dies
    PROVE  WithinLimits'
<1>1. scaler'.at = "dead"
  BY DEF Scaling!Dies, Scaling!Dead
<1>2. CASE scaler.at = "scale"
  <2> DEFINE k == scaler.route
  <2>1. k \in Scaling!Routes
    BY <1>2, ScalerFields
  <2>2. scaler.target \in MinReplicas[k]..MaxReplicas[k]
    BY <1>2 DEF WithinLimits
  <2>3. PICK n \in Scaling!Between(replicas[k], scaler.target) : replicas' = [replicas EXCEPT ![k] = n]
    BY <1>2 DEF Scaling!Dies
  <2> QED BY <1>1, <2>1, <2>2, <2>3, LimitsAfter
<1>3. CASE scaler.at # "scale"
  BY <1>1, <1>3 DEF Scaling!Dies, WithinLimits
<1> QED BY <1>2, <1>3

LEMMA RestartKeepsLimits ==
    ASSUME Scaling!TypeOK, WithinLimits, Scaling!Restart
    PROVE  WithinLimits'
<1>1. scaler'.at # "scale"
  BY DEF Scaling!Restart, Scaling!Off, Scaling!AtRoute
<1>2. ASSUME NEW k \in Scaling!Routes
      PROVE  /\ replicas'[k] >= MinReplicas[k] \/ replicas'[k] >= StartReplicas[k]
             /\ replicas'[k] <= MaxReplicas[k] \/ replicas'[k] <= StartReplicas[k]
  <2>1. replicas'[k] \in {StartReplicas[k], replicas[k]}
    BY DEF Scaling!Restart
  <2> QED BY <2>1, Limits DEF WithinLimits
<1> QED BY <1>1, <1>2 DEF WithinLimits

LEMMA LimitsStep == ASSUME LoadInv, WithinLimits, [Next]_vars PROVE WithinLimits'
<1>0. Scaling!TypeOK
  BY DEF LoadInv
<1>1. CASE UNCHANGED autoVars
  BY <1>1 DEF autoVars, WithinLimits
<1>2. CASE Scaling!Round
  BY <1>0, <1>2, RoundKeepsLimits
<1>3. CASE Scaling!Dies
  BY <1>0, <1>3, DiesKeepsLimits
<1>4. ASSUME NEW k \in Web!Routes, Scaling!CooldownEnds(k)
      PROVE  WithinLimits'
  BY <1>4 DEF Scaling!CooldownEnds, WithinLimits
<1>5. CASE Scaling!Restart
  BY <1>0, <1>5, RestartKeepsLimits
<1> QED BY <1>1, <1>2, <1>3, <1>4, <1>5
    DEF Next, Arrives, Proceeds, Judge, Stalls, Recovers, Around, Scales, ScalerDies, CooldownEnds,
        StartVortex, vars

LEMMA LimitsInit == ASSUME Init PROVE WithinLimits
<1>1. replicas = StartReplicas /\ scaler.at # "scale"
  BY DEF Init, Scaling!Init, Scaling!Off, Scaling!AtRoute
<1> QED BY <1>1, Limits DEF WithinLimits

\* Whatever the lag was when it was read, and whenever the process dies or the system
\* is started again: the autoscaler keeps to the limits of each service, and a service
\* that starts with a container and whose minimum is not zero always has one.
THEOREM ScalingKeepsLimits ==
    Spec => [](/\ WithinLimits
               /\ \A k \in Scaling!Routes :
                     MinReplicas[k] > 0 /\ StartReplicas[k] > 0 => Scaling!Serves(k))
<1>1. Spec => []WithinLimits
  BY LoadInvariant, LimitsInit, LimitsStep, PTL DEF Spec
<1>2. ASSUME LoadInv, WithinLimits, NEW k \in Scaling!Routes,
             MinReplicas[k] > 0, StartReplicas[k] > 0
      PROVE  Scaling!Serves(k)
  <2>1. replicas[k] \in Nat
    BY <1>2 DEF LoadInv, Scaling!TypeOK
  <2> QED BY <1>2, <2>1, Limits DEF WithinLimits, Scaling!Serves
<1>3. LoadInv /\ WithinLimits =>
         /\ WithinLimits
         /\ \A k \in Scaling!Routes :
               MinReplicas[k] > 0 /\ StartReplicas[k] > 0 => Scaling!Serves(k)
  BY <1>2
<1> QED BY <1>1, <1>3, LoadInvariant, PTL
=============================================================================
