----------------------------- MODULE MCSchedule -----------------------------
(* Instances of Schedule for TLC.                                          *)
EXTENDS Schedule

\* The first half hour after the epoch, and an hour that does not start there.
SomeOffsets == {0, 59, 1500, 36061}
=============================================================================
