---------------------------- MODULE MCRepublisher ---------------------------
\* A wall clock that may be set back and forth, by less and by more than MaxAge.
EXTENDS Republisher

ClockOffsets == {-3, 0, 2}
=============================================================================
