---------------------------- MODULE TestClockMC ----------------------------
(* Durations for TLC, the ones that are not positive included.             *)
EXTENDS TestClock

MCDurations == {0 - 1, 0, 1}

=============================================================================
