----------------------------- MODULE MCProcessStore -----------------------------
(* A table of two names and a shorter one that supports less, and for each  *)
(* way a call can end a request.                                            *)
EXTENDS ProcessStore

CONSTANTS mode, level

Entry1(n, size, set) == [name |-> n, expectedValueSize |-> size, getter |-> TRUE, setter |-> set]

SomeTables == {<<Entry1(mode, 1, TRUE), Entry1(level, 2, TRUE)>>, <<Entry1(mode, 1, FALSE)>>}

AllOnes == [n \in {mode, level} |-> 1]

Ask(op, n, size, v) == [op |-> op, name |-> n, size |-> size, value |-> v]

SomeRequests ==
  {Ask("set", mode, 1, 2), Ask("get", mode, 1, 1), Ask("set", level, 1, 2),
   Ask("get", NULL, 1, 1)}
=============================================================================
