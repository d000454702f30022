-------------------------- MODULE MCMetricPipeline --------------------------
(* MetricPipeline for TLC: ClickHouse always refuses the second metric.    *)
EXTENDS MetricPipeline

SecondMismatched == {2}
=============================================================================
