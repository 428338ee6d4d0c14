---------------------------- MODULE MCAuditStore ----------------------------
(***************************************************************************)
(* Two calls in one process and one in another, sharing the path: enough   *)
(* for a wait on the mutex, a race between processes that no mutex orders, *)
(* and a line after a torn one.                                            *)
(***************************************************************************)
EXTENDS AuditStore

CONSTANTS a1, a2, b1, p1, p2

MCCalls == {a1, a2, b1}
MCProcs == {p1, p2}
MCHome  == [c \in MCCalls |-> IF c = b1 THEN p2 ELSE p1]
=============================================================================
