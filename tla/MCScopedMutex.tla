---------------------------- MODULE MCScopedMutex ----------------------------
(* Limits: wait for ever, a timeout of no attempt at all, and of two.      *)
EXTENDS ScopedMutex

AllLimits == {NoTimeout, 0, 2}
TimedOnly == {2}
BothBuilds == {"pthread", "libc"}
PthreadOnly == {"pthread"}
=============================================================================
