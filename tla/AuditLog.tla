------------------------------ MODULE AuditLog ------------------------------
(***************************************************************************)
(* What the audit store (internal/audit/store.go) promises: a log that     *)
(* only grows, each event written once at most, an acknowledgement only    *)
(* for an event all of whose line is in the log.  A write that fails may   *)
(* leave the head of its line.                                             *)
(***************************************************************************)
EXTENDS Naturals, Sequences

CONSTANT Events

VARIABLES
  log,      \* the fragments in the file, in order
  acked     \* the events whose Append has returned nil

logVars == <<log, acked>>

\* A line is written whole, or as a head and, if the write goes on, a tail.
Forms     == {"line", "head", "tail"}
Fragments == [ev : Events, form : Forms]

Has(e, form) == \E i \in 1 .. Len(log) : log[i] = [ev |-> e, form |-> form]

StoredWhole(e) == Has(e, "line") \/ (Has(e, "head") /\ Has(e, "tail"))

LogInit == log = <<>> /\ acked = {}

Store(e) ==
  /\ ~Has(e, "line") /\ ~Has(e, "head")
  /\ \E form \in {"line", "head"} : log' = Append(log, [ev |-> e, form |-> form])
  /\ UNCHANGED acked

Complete(e) ==
  /\ Has(e, "head") /\ ~Has(e, "tail")
  /\ log' = Append(log, [ev |-> e, form |-> "tail"])
  /\ UNCHANGED acked

Acknowledge(e) ==
  /\ StoredWhole(e)
  /\ acked' = acked \cup {e}
  /\ UNCHANGED log

LogNext == \E e \in Events : Store(e) \/ Complete(e) \/ Acknowledge(e)

LogSpec == LogInit /\ [][LogNext]_logVars
=============================================================================
