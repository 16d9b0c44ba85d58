--------------------------- MODULE MCLoadControl ---------------------------
(* TLC instances of LoadControl. *)
EXTENDS LoadControl, TLC

CONSTANTS t1, t2, student, staff

\* The default, then a limiter that is always asked and refuses when it cannot be,
\* with nothing to fall back to.
TwoConfigs == [v \in 0..1 |-> IF v = 0
    THEN [threshold |-> 0, always |-> FALSE, limiter |-> "off", fallback |-> TRUE]
    ELSE [threshold |-> 0, always |-> TRUE, limiter |-> "closed", fallback |-> FALSE]]

\* A service may be scaled to nothing; it is started with one container.
None == [k \in Web!Routes |-> 0]
One == [k \in Web!Routes |-> 1]
Two == [k \in Web!Routes |-> 2]

\* Two threads and both topics; two threads, a control plane, one topic and a cache that
\* raises; one thread, an autoscaler and one topic, whose executors may stall.
Deployments ==
    [d \in BOOLEAN \X BOOLEAN \ {<<TRUE, TRUE>>} |->
        CASE d[2] -> [threads |-> {t1}, messages |-> <<3, 0>>, raises |-> 0, stalls |-> {1}]
          [] d[1] -> [threads |-> {t1, t2}, messages |-> <<1, 0>>, raises |-> 1, stalls |-> {}]
          [] OTHER -> [threads |-> {t1, t2}, messages |-> <<2, 1>>, raises |-> 0, stalls |-> {}]]
=============================================================================
