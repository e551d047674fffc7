----------------------------- MODULE MCGripper ------------------------------
\* Callers as model values.
EXTENDS Gripper

CONSTANTS u1, u2
=============================================================================
