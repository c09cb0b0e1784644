----------------------------- MODULE ThreadAttr -----------------------------
(***************************************************************************)
(* Thread attributes, Thread/thread_attr.cpp.  A pthread_attr_t is raw     *)
(* (never initialised), live or destroyed.  Each operator gives the set of *)
(* outcomes of one function: what it returns and what the attribute is     *)
(* then.  setThreadPriority destroys the attribute on each of its failing  *)
(* exits, and initThreadAttr hands that attribute back to its caller.      *)
(***************************************************************************)
EXTENDS Naturals

AttrStates == {"raw", "live", "destroyed"}

Outcome(ok, attr) == [ok |-> ok, attr |-> attr]

\* pthread_attr_destroy fails on nothing, whatever it is given: glibc does
\* not check the object.
destoryThreadAttr(attr) == {Outcome(TRUE, "destroyed")}

\* The policy, then the priority is set and read back; each of the five
\* tests may fail, the first only for a priority out of range.
setThreadPriority(inRange) ==
  {Outcome(FALSE, o.attr) : o \in destoryThreadAttr("live")}
    \cup (IF inRange THEN {Outcome(TRUE, "live")} ELSE {})

initThreadAttr(attr, inRange) ==
  {Outcome(FALSE, attr)}                \* pthread_attr_init fails
    \cup setThreadPriority(inRange)
=============================================================================
