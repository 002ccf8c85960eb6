---------------------------- MODULE MCRowClock ----------------------------
EXTENDS RowClock

\* A push into the past, one that is due at once, and a scheduled one.
MCSchedules == {-1, 0, 1}
=============================================================================
