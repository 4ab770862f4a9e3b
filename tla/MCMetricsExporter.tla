-------------------------- MODULE MCMetricsExporter --------------------------
EXTENDS MetricsExporter

CONSTANTS r1, r2
=============================================================================
