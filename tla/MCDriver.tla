------------------------------ MODULE MCDriver ------------------------------
\* Processes as model values.
EXTENDS Driver

CONSTANTS d1, r1, r2
=============================================================================
