---------------------------- MODULE MCPlanReads ----------------------------
\* Instances of PlanReads for TLC. Promises are numbers. Four are enough for two
\* callers and two plans: each caller holds one, each plan keeps one. No symmetry,
\* for the runs check liveness and a fresh promise is a CHOOSE.
EXTENDS PlanReads
=============================================================================
