------------------------------ MODULE Throttle ------------------------------
(***************************************************************************)
(* Which submissions Django admits: DynamicQueueThrottle of                  *)
(* core_api/throttles.py with the runtime configuration and the client of    *)
(* the rate limiter in core_api/integrations.py.                             *)
(*                                                                           *)
(* A request takes the configuration (cached, or fetched from the control    *)
(* plane), adds up the backlog of the submission topics one by one, first    *)
(* the end of a topic and then what its group has committed, and is let      *)
(* through when that is little.  Otherwise the external limiter is asked,    *)
(* and when that does not decide, the rate limit of REST framework, whose    *)
(* history of a user is read and written back in two calls of the cache.     *)
(* Every thread of Django runs this at its own pace; all threads share one   *)
(* configuration cache and one history per user.                             *)
(***************************************************************************)
EXTENDS Integers, FiniteSetsExt

CONSTANTS
    Threads,        \* Django's request threads
    Students,       \* users who submit
    Staff,          \* those of them with is_staff
    NumRoutes,      \* executor families, each with a topic and a consumer group
    Configs,        \* Configs[v]: runtime configurations, Configs[0] the default
    Rate            \* requests of a user in one window (DEFAULT_THROTTLE_RATES)

Routes == 1..NumRoutes

\* limiter: "off" unless it is enabled and its address and token are known;
\* then what a limiter that cannot be asked means (RATE_LIMITER_FAIL_OPEN).
Config == [threshold : Nat,                 \* allow_when_depth_at_or_below
           always : BOOLEAN,                \* mode is "always", not "queue_busy"
           limiter : {"off", "open", "closed"},
           fallback : BOOLEAN]              \* fallback_to_drf

\* Assumed where it is composed: in LoadControl.
ThrottleAssumption ==
    /\ Staff \subseteq Students
    /\ NumRoutes \in Nat \ {0}
    /\ 0 \in DOMAIN Configs
    /\ \A v \in DOMAIN Configs : v \in Nat /\ Configs[v] \in Config
    /\ Rate \in Nat \ {0}
    /\ IsFiniteSet(Threads) /\ IsFiniteSet(DOMAIN Configs)

VARIABLES
    appended,       \* appended[k]: messages ever appended to the topic of route k
    committed,      \* committed[k]: those its group has committed
    published,      \* the version the control plane hands out, if there is one
    cache,          \* _runtime_cache: a version, and whether expires_at is to come
    history,        \* history[u]: requests in the cached history of user u
    request,        \* request[t]: the request thread t is in the middle of
    seen,           \* history: seen[t], the backlog there was, topic by topic, when t counted it
    exempt,         \* history: messages admitted without a look at the queue
    granted,        \* history: granted[u], admissions in the rate limit in this window
    raised,         \* history: raised[u], those of them for a cache that raised
    overlaps        \* history: overlaps[u], requests that read the history in this window
                    \* while another one of the user had read it and not written it back

topicVars == <<appended, committed>>
configVars == <<published, cache>>
windowVars == <<history, granted, raised, overlaps>>
vars == <<topicVars, configVars, windowVars, request, seen, exempt>>

Versions == DOMAIN Configs
NoControlPlane == -1    \* CONFIG_CONTROL_BASE_URL is not set
Backlog == [k \in Routes |-> appended[k] - committed[k]]
NoBacklog == [k \in Routes |-> 0]
Unknown == -1       \* queue_depth is None

\* The messages of the backlog, one by one.
Queued == UNION {{<<k, n>> : n \in (committed[k] + 1)..appended[k]} : k \in Routes}

-----------------------------------------------------------------------------
(* A request is a record of how far allow_request has come (at) and of the     *)
(* local variables it still needs.                                            *)

Idle == [at |-> "idle"]
Refused == Idle         \* answered 429
Admitted(by) == [at |-> "admitted", by |-> by]

\* In the loop over the topics, before it looks at the end of the k-th one.
Reading(u, v, k, depth) ==
    [at |-> "ends", user |-> u, version |-> v, route |-> k, depth |-> depth]

Request ==
    [at : {"idle"}]
    \cup [at : {"asking"}, user : Students]
    \cup [at : {"answered"}, user : Students, version : Versions]
    \cup [at : {"ends"}, user : Students, version : Versions, route : Routes, depth : Nat]
    \cup [at : {"commits"}, user : Students, version : Versions, route : Routes,
          depth : Nat, end : Nat]
    \cup [at : {"limiter"}, user : Students, version : Versions]
    \cup [at : {"rate"}, user : Students]
    \cup [at : {"rateStores"}, user : Students, entries : Nat]
    \cup [at : {"admitted"}, by : {"queue", "other"}]

TypeOK ==
    /\ appended \in [Routes -> Nat]
    /\ committed \in [Routes -> Nat]
    /\ \A k \in Routes : committed[k] <= appended[k]
    /\ published \in Versions \cup {NoControlPlane}
    /\ cache \in [version : Versions, fresh : BOOLEAN]
    /\ history \in [Students -> 0..Rate]
    /\ request \in [Threads -> Request]
    /\ seen \in [Threads -> Nat]
    /\ exempt \in Nat
    /\ granted \in [Students -> Nat]
    /\ raised \in [Students -> Nat]
    /\ overlaps \in [Students -> Nat]

Init ==
    /\ appended = NoBacklog
    /\ committed = NoBacklog
    /\ published \in {0, NoControlPlane}
    /\ cache = [version |-> 0, fresh |-> FALSE]
    /\ history = [u \in Students |-> 0]
    /\ request = [t \in Threads |-> Idle]
    /\ seen = [t \in Threads |-> 0]
    /\ exempt = 0
    /\ granted = [u \in Students |-> 0]
    /\ raised = [u \in Students |-> 0]
    /\ overlaps = [u \in Students |-> 0]

\* A request that adds up the topics, and one that is sent to the limits.
Counts(q) == q.at \in {"ends", "commits"}
Limited(q) == q.at \in {"limiter", "rate"}

\* Thread t goes on to next.
Steps(t, next) ==
    /\ request' = [request EXCEPT ![t] = next]
    /\ seen' = [seen EXCEPT ![t] = IF ~Counts(next) THEN 0
                                   ELSE IF request[t].at = "ends" THEN @ + Backlog[request[t].route]
                                   ELSE @]

\* ... and nothing else changes.
Goes(t, next) ==
    /\ Steps(t, next)
    /\ UNCHANGED <<topicVars, windowVars, exempt>>

\* Thread t begins to read the topics, with configuration v.
BeginsToRead(t, u, v) == Goes(t, Reading(u, v, 1, 0))

-----------------------------------------------------------------------------
(* get_runtime_config. *)

\* A student submits: the cached configuration is used until it expires; then
\* every request asks the control plane anew, if there is one.
Arrive(t, u) ==
    /\ request[t] = Idle
    /\ u \notin Staff
    /\ \/ /\ cache.fresh
          /\ BeginsToRead(t, u, cache.version)
       \/ /\ ~cache.fresh
          /\ published # NoControlPlane
          /\ Goes(t, [at |-> "asking", user |-> u])
       \/ /\ ~cache.fresh
          /\ published = NoControlPlane
          /\ BeginsToRead(t, u, 0)
    /\ UNCHANGED configVars

\* A member of the staff submits, and is not throttled.
ArriveStaff(t, u) ==
    /\ request[t] = Idle
    /\ u \in Staff
    /\ Goes(t, Admitted("other"))
    /\ UNCHANGED configVars

\* The control plane answers with what it has published by now.
ControlPlaneAnswers(t) ==
    /\ request[t].at = "asking"
    /\ Goes(t, [at |-> "answered", user |-> request[t].user, version |-> published])
    /\ UNCHANGED configVars

\* Mutant: the term is renewed, the answer not kept.
StoreConfigTermOnly(t) ==
    LET q == request[t]
    IN  /\ q.at = "answered"
        /\ cache' = [cache EXCEPT !.fresh = TRUE]
        /\ BeginsToRead(t, q.user, q.version)
        /\ UNCHANGED published

\* The answer is cached, with a new term.  It may be older than the cached one.
StoreConfig(t) ==
    LET q == request[t]
    IN  /\ q.at = "answered"
        /\ cache' = [version |-> q.version, fresh |-> TRUE]
        /\ BeginsToRead(t, q.user, q.version)
        /\ UNCHANGED published

\* No answer, an error, or no object: what is cached is used, its term over.
FetchFails(t) ==
    LET q == request[t]
    IN  /\ q.at = "asking"
        /\ BeginsToRead(t, q.user, cache.version)
        /\ UNCHANGED configVars

-----------------------------------------------------------------------------
(* The depth of the queue. *)

LocalLimit(u, v) ==
    IF Configs[v].fallback THEN [at |-> "rate", user |-> u] ELSE Admitted("other")

\* Mutant: a depth one above the threshold still counts as little.
AfterDepthLenient(u, v, depth, failed) ==
    LET c == Configs[v]
        busy == c.always \/ depth = Unknown \/ depth > c.threshold + 1
    IN  IF ~failed /\ ~busy THEN Admitted("queue")
        ELSE IF busy /\ c.limiter # "off" THEN [at |-> "limiter", user |-> u, version |-> v]
        ELSE LocalLimit(u, v)

\* A short queue lets the request through.  Otherwise, and when nothing is known of
\* the queue, the limiter is asked if it is in use; else the rate limit applies.
AfterDepth(u, v, depth, failed) ==
    LET c == Configs[v]
        busy == c.always \/ depth = Unknown \/ depth > c.threshold
    IN  IF ~failed /\ ~busy THEN Admitted("queue")
        ELSE IF busy /\ c.limiter # "off" THEN [at |-> "limiter", user |-> u, version |-> v]
        ELSE LocalLimit(u, v)

\* end_offsets of the topic of route q.route (0 before the topic exists).
ReadEnds(t) ==
    LET q == request[t]
    IN  /\ q.at = "ends"
        /\ Goes(t, [at |-> "commits", user |-> q.user, version |-> q.version,
                    route |-> q.route, depth |-> q.depth, end |-> appended[q.route]])
        /\ UNCHANGED configVars

\* Mutant: what the group has committed is not found, and taken for nothing.
DepthOfEnd(k, end) == end

\* What the topic adds to the depth: max(high_watermark - committed, 0), for a
\* group that may have committed past the end that was read.
DepthOf(k, end) == IF end > committed[k] THEN end - committed[k] ELSE 0

\* list_consumer_group_offsets of its group; then the next topic, or the verdict.
ReadCommitted(t) ==
    LET q == request[t]
        depth == q.depth + DepthOf(q.route, q.end)
    IN  /\ q.at = "commits"
        /\ Goes(t, IF q.route < NumRoutes THEN Reading(q.user, q.version, q.route + 1, depth)
                   ELSE AfterDepth(q.user, q.version, depth, FALSE))
        /\ UNCHANGED configVars

\* Kafka raises: before the loop there is no depth, inside it a partial one.
KafkaRaises(t) ==
    LET q == request[t]
    IN  /\ q.at \in {"ends", "commits"}
        /\ \E depth \in {q.depth} \cup IF q.at = "ends" /\ q.route = 1 THEN {Unknown} ELSE {} :
              Goes(t, AfterDepth(q.user, q.version, depth, TRUE))
        /\ UNCHANGED configVars

-----------------------------------------------------------------------------
(* evaluate_submission_rate_limit and UserRateThrottle.allow_request. *)

LimiterAnswers(t) ==
    LET q == request[t]
    IN  /\ q.at = "limiter"
        /\ \/ Goes(t, Admitted("other"))
           \/ Goes(t, Refused)
           \/ Goes(t, LocalLimit(q.user, q.version))      \* not applied
        /\ UNCHANGED configVars

LimiterFails(t) ==
    LET q == request[t]
    IN  /\ q.at = "limiter"
        /\ \/ /\ Configs[q.version].limiter = "open"
              /\ Goes(t, LocalLimit(q.user, q.version))
           \/ /\ Configs[q.version].limiter = "closed"
              /\ Goes(t, Refused)
        /\ UNCHANGED configVars

InRateLimit(t, u) == request[t].at = "rateStores" /\ request[t].user = u

\* The history of u is read, to be written back one longer.
TakesHistory(t, u) ==
    /\ Steps(t, [at |-> "rateStores", user |-> u, entries |-> history[u]])
    /\ overlaps' = [overlaps EXCEPT ![u] =
                       IF \E t2 \in Threads \ {t} : InRateLimit(t2, u) THEN @ + 1 ELSE @]
    /\ UNCHANGED <<topicVars, configVars, history, granted, raised, exempt>>

\* Mutant: one request more than the rate.
RateReadsLenient(t) ==
    LET q == request[t]
    IN  /\ q.at = "rate"
        /\ \/ history[q.user] > Rate /\ Goes(t, Refused) /\ UNCHANGED configVars
           \/ history[q.user] <= Rate /\ TakesHistory(t, q.user)

\* Mutant: what the rate limit answers is not returned, and the request goes on.
RateReadsIgnored(t) ==
    LET u == request[t].user
    IN  /\ request[t].at = "rate"
        /\ \/ /\ history[u] >= Rate
              /\ granted' = [granted EXCEPT ![u] = @ + 1]
              /\ Steps(t, Admitted("other"))
              /\ UNCHANGED <<topicVars, configVars, history, raised, overlaps, exempt>>
           \/ history[u] < Rate /\ TakesHistory(t, u)

\* The history is read, and is full, or will be written back one longer.
RateReads(t) ==
    LET q == request[t]
    IN  /\ q.at = "rate"
        /\ \/ history[q.user] >= Rate /\ Goes(t, Refused) /\ UNCHANGED configVars
           \/ history[q.user] < Rate /\ TakesHistory(t, q.user)

\* Written back over whatever another request has written since.
RateStores(t) ==
    LET q == request[t]
    IN  /\ q.at = "rateStores"
        /\ history' = [history EXCEPT ![q.user] = q.entries + 1]
        /\ granted' = [granted EXCEPT ![q.user] = @ + 1]
        /\ Steps(t, Admitted("other"))
        /\ UNCHANGED <<topicVars, configVars, raised, overlaps, exempt>>

\* The cache of the histories raises, as it is read or written: the request is let
\* through, and no history has an entry for it.
RateRaises(t) ==
    LET q == request[t]
    IN  /\ q.at \in {"rate", "rateStores"}
        /\ granted' = [granted EXCEPT ![q.user] = @ + 1]
        /\ raised' = [raised EXCEPT ![q.user] = @ + 1]
        /\ Steps(t, Admitted("other"))
        /\ UNCHANGED <<topicVars, configVars, history, overlaps, exempt>>

-----------------------------------------------------------------------------
(* What becomes of the request. *)

\* perform_create publishes to the topic of some route.
Publish(t, k) ==
    /\ request[t].at = "admitted"
    /\ appended' = [appended EXCEPT ![k] = @ + 1]
    /\ exempt' = IF request[t].by = "queue" THEN exempt ELSE exempt + 1
    /\ request' = [request EXCEPT ![t] = Idle]
    /\ UNCHANGED <<committed, configVars, windowVars, seen>>

\* The view refuses the request, or fails.
Finish(t) ==
    /\ request[t].at = "admitted"
    /\ Goes(t, Idle)
    /\ UNCHANGED configVars

-----------------------------------------------------------------------------
(* Around it. *)

\* The configuration is changed at the control plane.
PublishConfig ==
    /\ published # NoControlPlane
    /\ published + 1 \in Versions
    /\ published' = published + 1
    /\ UNCHANGED <<topicVars, cache, windowVars, request, seen, exempt>>

\* CONFIG_CONTROL_CACHE_TTL_SECONDS have passed.
CacheExpires ==
    /\ cache.fresh
    /\ cache' = [cache EXCEPT !.fresh = FALSE]
    /\ UNCHANGED <<topicVars, published, windowVars, request, seen, exempt>>

\* A window of the rate limit ends for a user none of whose requests is in it.
WindowPasses(u) ==
    /\ granted[u] > 0
    /\ \A t \in Threads : ~InRateLimit(t, u)
    /\ history' = [history EXCEPT ![u] = 0]
    /\ granted' = [granted EXCEPT ![u] = 0]
    /\ raised' = [raised EXCEPT ![u] = 0]
    /\ overlaps' = [overlaps EXCEPT ![u] = 0]
    /\ UNCHANGED <<topicVars, configVars, request, seen, exempt>>

\* An executor commits the next message of route k.
Commit(k) ==
    /\ committed[k] < appended[k]
    /\ committed' = [committed EXCEPT ![k] = @ + 1]
    /\ UNCHANGED <<appended, configVars, windowVars, request, seen, exempt>>

\* The web server and the cache of the histories are started anew.
RestartWeb ==
    /\ cache' = [version |-> 0, fresh |-> FALSE]
    /\ history' = [u \in Students |-> 0]
    /\ request' = [t \in Threads |-> Idle]
    /\ seen' = [t \in Threads |-> 0]
    /\ granted' = [u \in Students |-> 0]
    /\ raised' = [u \in Students |-> 0]
    /\ overlaps' = [u \in Students |-> 0]
    /\ UNCHANGED <<topicVars, published, exempt>>

-----------------------------------------------------------------------------

Fetches(t) == ControlPlaneAnswers(t) \/ StoreConfig(t)
ReadsQueue(t) == ReadEnds(t) \/ ReadCommitted(t)
Limits(t) == LimiterAnswers(t) \/ LimiterFails(t) \/ RateReads(t) \/ RateStores(t) \/ RateRaises(t)
Ends(t) == Finish(t) \/ \E k \in Routes : Publish(t, k)

\* A thread that has begun a request goes on to its end.
Proceeds(t) == Fetches(t) \/ FetchFails(t) \/ ReadsQueue(t) \/ KafkaRaises(t) \/ Limits(t) \/ Ends(t)

Arrivals(t) == \E u \in Students : Arrive(t, u) \/ ArriveStaff(t, u)

TimePasses == CacheExpires \/ \E u \in Students : WindowPasses(u)

-----------------------------------------------------------------------------

\* A request whose count of the topics was complete is sent to the limits only for a
\* backlog that was there when it read the end of each topic, though messages come and
\* go between the reads (throttles.py:65-84).  The mode "always" needs no such reason.
BusyIsReal ==
    [][\A t \in Threads :
         ReadCommitted(t) /\ Limited(request'[t]) =>
            LET c == Configs[request[t].version]
            IN  c.always \/ seen[t] > c.threshold]_request

\* Admission looks before it acts: requests that read the same short queue are all
\* let through (throttles.py:89).  The backlog they make together goes beyond the
\* threshold by at most one message of each thread; what else is in the queue was
\* let through by a limit, by the staff or by the configuration, or by a failed
\* cache, and never by a queue that could not be read.  The bound grows with every
\* message that was ever let through so (exempt), also when it has left the queue.
OvershootBounded ==
    Cardinality(Queued) <=
        Max({Configs[v].threshold : v \in Versions}) + Cardinality(Threads) + exempt

\* "enforce the 'user' limit defined in settings.py" (throttles.py:112).  A history is
\* read and written back in two calls, and a request that stores an old one takes what
\* was written since out of the count; a cache that raises lets the request through
\* (throttles.py:116-118).  The admissions a user gets in the rate limit in a window are
\* no more than Rate, and Rate more for each request that read the history while
\* another one was in there, and one for each time the cache raised.
RateHolds ==
    \A u \in Students : granted[u] <= Rate * (1 + overlaps[u]) + raised[u]
=============================================================================
