---------------------------- MODULE MCEventLoop ----------------------------
(***************************************************************************)
(* An instance of EventLoop for TLC.                                       *)
(***************************************************************************)
EXTENDS EventLoop

CONSTANTS t1, t2, e1, e2, s1, s2

MCTimers == {t1, t2}
MCDefers == {e1}
MCSockets == {s1, s2}
MCDurations == {0, 3, 7}
MCStartTimes == {1}
MCInterests == {"READ"}
============================================================================
