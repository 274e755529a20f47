-------------------------- MODULE MCMetricAlerting --------------------------
(* Instances of MetricAlerting for TLC. *)
EXTENDS MetricAlerting

\* A latency rule with two thresholds and a reminder: 1 is clear, 2 a warning,
\* 3 an alert, and 0 is no data.  no_data_mode and recovery_window are left out.
Latency == [metric |-> "latency", op |-> "gte", alert |-> 3, warn |-> {2},
            mode |-> "", recovery |-> 0, renotify |-> 2, enabled |-> TRUE]
\* The same rule, switched off.
Paused  == [Latency EXCEPT !.enabled = FALSE]
\* A ratio that keeps its state over gaps and recovers at the first clear value.
Ratio   == [metric |-> "ratio", op |-> "gt", alert |-> 2, warn |-> {},
            mode |-> "hold_previous", recovery |-> 1, renotify |-> 0,
            enabled |-> TRUE]
\* A throughput that must not fall, for which a gap counts as 0.
Count   == [metric |-> "count", op |-> "lt", alert |-> 2, warn |-> {},
            mode |-> "treat_as_zero", recovery |-> 2, renotify |-> 1,
            enabled |-> TRUE]

MCRuleInputs == {Latency, Paused, Count}

Failing     == [ok |-> FALSE, traffic |-> FALSE, value |-> 0]
Shows(v)    == [ok |-> TRUE, traffic |-> v > 0, value |-> v]
MCOverviews == {Failing, Shows(1), Shows(2), Shows(3)}

\* For the recovery notice, one rule that never changes.
MCOneRule == {Ratio}
=============================================================================
