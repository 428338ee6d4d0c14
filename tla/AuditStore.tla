----------------------------- MODULE AuditStore -----------------------------
(***************************************************************************)
(* internal/audit/store.go, one system call at a time: JSONLStore.Append   *)
(* and lockAuditLogPath.  Each server process has a JSONLStore and so a    *)
(* mutex of its own; all of them may be given the same path, and people    *)
(* and programs outside may change the file's mode.                        *)
(*                                                                         *)
(* A call of Append is a value of Calls and stands for its event too (each *)
(* call writes one event of its own).  The event's fields and signature    *)
(* are data that no step looks at.                                         *)
(***************************************************************************)
EXTENDS Naturals, Sequences, FiniteSets

CONSTANTS
  Calls,     \* the calls of Append
  Procs,     \* the server processes that share the path
  Home,      \* the process of each call
  Nobody     \* the holder of a free mutex

ASSUME AuditAssumption ==
  /\ Home \in [Calls -> Procs]
  /\ Nobody \notin Calls

VARIABLES
  pc,        \* where each call stands in Append
  holder,    \* the call that holds the mutex of each process
  path,      \* what is at the path: "absent", "dir" or "file"
  mode,      \* the file's permissions: "0600" or "other"
  log,       \* the file's content: the fragments written, in order
  exposed,   \* history: calls whose file had its mode changed after their fchmod
  earlier    \* history: the calls that had returned nil when a call got the mutex

fsVars   == <<path, mode, log>>
histVars == <<exposed, earlier>>
vars     == <<pc, holder, path, mode, log, exposed, earlier>>

Returned == {"ok", "err", "crashed"}
Inside   == {"locked", "loose", "checked", "open", "ready", "partial", "written"}

Acked == {c \in Calls : pc[c] = "ok"}

Init ==
  /\ pc      = [c \in Calls |-> "idle"]
  /\ holder  = [p \in Procs |-> Nobody]
  /\ path \in {"absent", "dir", "file"}
  /\ mode \in {"0600", "other"}
  /\ log     = <<>>
  /\ exposed = {}
  /\ earlier = [c \in Calls |-> {}]

-----------------------------------------------------------------------------
(* Append, from the mutex to the return.                                    *)

Goto(c, from, to) ==
  /\ pc[c] = from
  /\ pc' = [pc EXCEPT ![c] = to]

\* Return with the deferred Unlock.
Unlock(c, from, to) ==
  /\ Goto(c, from, to)
  /\ holder' = [holder EXCEPT ![Home[c]] = Nobody]

Invoke(c) ==
  /\ Goto(c, "idle", "waiting")
  /\ UNCHANGED <<holder, fsVars, histVars>>

\* Mutant: the mutex is not taken.
LockUnguarded(c) ==
  /\ Goto(c, "waiting", "locked")
  /\ holder' = [holder EXCEPT ![Home[c]] = c]
  /\ earlier' = [earlier EXCEPT ![c] = Acked]
  /\ UNCHANGED <<fsVars, exposed>>

Lock(c) ==
  /\ holder[Home[c]] = Nobody
  /\ Goto(c, "waiting", "locked")
  /\ holder' = [holder EXCEPT ![Home[c]] = c]
  /\ earlier' = [earlier EXCEPT ![c] = Acked]
  /\ UNCHANGED <<fsVars, exposed>>

\* Mutant: the error for a directory is returned without the Unlock.
StatPathKeepsLock(c) ==
  /\ \/ path = "dir" /\ Goto(c, "locked", "err")
     \/ path = "file" /\ mode = "other" /\ Goto(c, "locked", "loose")
     \/ path = "absent" /\ Goto(c, "locked", "checked")
     \/ path = "file" /\ mode = "0600" /\ Goto(c, "locked", "checked")
  /\ UNCHANGED <<holder, fsVars, histVars>>

\* lockAuditLogPath's Stat: a directory is an error, loose permissions are
\* tightened first.
StatPath(c) ==
  /\ \/ path = "dir" /\ Unlock(c, "locked", "err")
     \/ path = "file" /\ mode = "other" /\ Goto(c, "locked", "loose") /\ UNCHANGED holder
     \/ path = "absent" /\ Goto(c, "locked", "checked") /\ UNCHANGED holder
     \/ path = "file" /\ mode = "0600" /\ Goto(c, "locked", "checked") /\ UNCHANGED holder
  /\ UNCHANGED <<fsVars, histVars>>

ChmodPath(c) ==
  /\ Goto(c, "loose", "checked")
  /\ mode' = "0600"
  /\ UNCHANGED <<holder, path, log, histVars>>

\* Mutant: a new file is readable by others.
OpenLogReadable(c) ==
  /\ path # "dir"
  /\ Goto(c, "checked", "open")
  /\ path' = "file"
  /\ mode' = IF path = "absent" THEN "0644" ELSE mode
  /\ UNCHANGED <<holder, log, histVars>>

\* OpenFile with O_CREATE: a new file has the mode the call asks for.
OpenLog(c) ==
  /\ path # "dir"
  /\ Goto(c, "checked", "open")
  /\ path' = "file"
  /\ mode' = IF path = "absent" THEN "0600" ELSE mode
  /\ UNCHANGED <<holder, log, histVars>>

\* Mutant: the mode that Stat saw is relied on.
ChmodLogSkipped(c) ==
  /\ Goto(c, "open", "ready")
  /\ UNCHANGED <<holder, fsVars, histVars>>

\* Chmod on the open file, then the event is marshalled.
ChmodLog(c) ==
  /\ Goto(c, "open", "ready")
  /\ mode' = "0600"
  /\ UNCHANGED <<holder, path, log, histVars>>

\* Mutant: the newest event comes first.
ExtendAtStart(c, form) == log' = <<[ev |-> c, form |-> form]>> \o log

Extend(c, form) == log' = Append(log, [ev |-> c, form |-> form])

\* file.Write of the payload and its newline, at the end of the file: one
\* write does it all, or only a head of the line and Write goes on.
WriteLine(c) ==
  /\ Goto(c, "ready", "written")
  /\ Extend(c, "line")
  /\ UNCHANGED <<holder, path, mode, histVars>>

WriteHead(c) ==
  /\ Goto(c, "ready", "partial")
  /\ Extend(c, "head")
  /\ UNCHANGED <<holder, path, mode, histVars>>

\* Mutant: a short write is tried again from the start of the line.
WriteTailAgain(c) ==
  /\ Goto(c, "partial", "written")
  /\ Extend(c, "line")
  /\ UNCHANGED <<holder, path, mode, histVars>>

WriteTail(c) ==
  /\ Goto(c, "partial", "written")
  /\ Extend(c, "tail")
  /\ UNCHANGED <<holder, path, mode, histVars>>

\* Mutant: the error of a short write is not looked at.
ReturnAnyWrite(c) ==
  /\ \E from \in {"partial", "written"} : Unlock(c, from, "ok")
  /\ UNCHANGED <<fsVars, histVars>>

Return(c) ==
  /\ Unlock(c, "written", "ok")
  /\ UNCHANGED <<fsVars, histVars>>

\* MkdirAll, Stat, Chmod, OpenFile, the file's Chmod or Write returns an error.
Fail(c) ==
  /\ \E from \in {"locked", "loose", "checked", "open", "ready", "partial"} :
       Unlock(c, from, "err")
  /\ UNCHANGED <<fsVars, histVars>>

-----------------------------------------------------------------------------
(* The environment.                                                         *)

\* Process p ends.  Its calls end where they stand, its mutex is gone with it.
Crash(p) ==
  /\ \E c \in Calls : Home[c] = p /\ pc[c] \in Inside \cup {"waiting"}
  /\ pc' = [c \in Calls |-> IF Home[c] = p /\ pc[c] \in Inside \cup {"waiting"}
                            THEN "crashed" ELSE pc[c]]
  /\ holder' = [holder EXCEPT ![p] = Nobody]
  /\ UNCHANGED <<fsVars, histVars>>

\* Someone outside the server changes the mode of the file.
Loosen ==
  /\ path = "file"
  /\ mode = "0600"
  /\ mode' = "other"
  /\ exposed' = exposed \cup {c \in Calls : pc[c] \in {"ready", "partial", "written"}}
  /\ UNCHANGED <<pc, holder, path, log, earlier>>

-----------------------------------------------------------------------------

AppendStep(c) ==
  \/ StatPath(c)
  \/ ChmodPath(c)
  \/ OpenLog(c)
  \/ ChmodLog(c)
  \/ WriteLine(c)
  \/ WriteHead(c)
  \/ WriteTail(c)
  \/ Return(c)
  \/ Fail(c)

Next ==
  \/ \E c \in Calls : Invoke(c) \/ Lock(c) \/ AppendStep(c)
  \/ \E p \in Procs : Crash(p)
  \/ Loosen

\* A goroutine that runs goes on to the end of Append; sync.Mutex hands
\* itself to a waiter that has waited long enough (its starvation mode).
Fairness ==
  \A c \in Calls : WF_vars(AppendStep(c)) /\ SF_vars(Lock(c))

Spec == Init /\ [][Next]_vars /\ Fairness

-----------------------------------------------------------------------------
(* Properties.                                                              *)

\* The variables keep to their types.
TypeOK ==
  /\ pc \in [Calls -> {"idle", "waiting"} \cup Inside \cup Returned]
  /\ holder \in [Procs -> Calls \cup {Nobody}]
  /\ path \in {"absent", "dir", "file"}
  /\ mode \in {"0600", "other"}
  /\ log \in Seq([ev : Calls, form : {"line", "head", "tail"}])
  /\ exposed \subseteq Calls
  /\ earlier \in [Calls -> SUBSET Calls]

Position(c) == {i \in 1 .. Len(log) : log[i].ev = c}

At(i, c, form) == i \in 1 .. Len(log) /\ log[i] = [ev |-> c, form |-> form]

Whole(c) ==
  \E i \in Position(c) :
    \/ At(i, c, "line")
    \/ At(i, c, "head") /\ \E j \in Position(c) : i < j /\ At(j, c, "tail")

\* A fragment at i starts a line of the file.
StartsLine(i) == i = 1 \/ log[i - 1].form # "head"

\* A reader of JSON lines gets the event that is alone on its line.
Readable(c) ==
  \E i \in Position(c) :
    /\ StartsLine(i)
    /\ At(i, c, "line") \/ (At(i, c, "head") /\ At(i + 1, c, "tail"))

\* The log keeps the order in which Append returned: an event whose call had
\* returned nil when another call got its mutex, in whatever process, comes
\* before that call's event in the file.
ReturnOrderKept ==
  \A c \in Calls : \A d \in earlier[c] :
    \A i \in Position(c), j \in Position(d) : j < i

\* A caller that is told of an error does not have all of its line in the log,
\* and one that is told of success has, in spite of crashes and other processes.
OutcomeMatchesLog ==
  \A c \in Calls :
    /\ pc[c] = "ok" => Whole(c)
    /\ pc[c] = "err" => ~Whole(c)

\* An acknowledged event that a reader of lines does not get is explained: its
\* line is glued to a head that was left just before it, or a write of another
\* process (never of its own: the mutex) came between its head and its tail.
LossExplained ==
  \A c \in Acked : ~Readable(c) =>
    \/ \E i \in Position(c) : log[i].form # "tail" /\ ~StartsLine(i)
    \/ \E i, j \in Position(c) : \E k \in i + 1 .. j - 1 :
         /\ At(i, c, "head") /\ At(j, c, "tail")
         /\ \A l \in i + 1 .. j - 1 : Home[log[l].ev] # Home[c]

\* Append writes under 0600 permissions, unless someone changed them after
\* its own Chmod: the mode that Stat saw, or that another process set, is not
\* relied on.
WritesUnder0600 ==
  \A c \in Calls : pc[c] \in {"ready", "partial", "written"} /\ mode # "0600" => c \in exposed

\* A call of Append that waits for the mutex returns (or its process ends):
\* no path leaves the mutex locked.
AppendReturns == \A c \in Calls : pc[c] = "waiting" ~> pc[c] \in Returned

\* The store implements AuditLog.
Log == INSTANCE AuditLog WITH Events <- Calls, acked <- Acked

ImplementsLog == Log!LogSpec

\* README.md:41 "persistent JSONL audit events for mutation tools": an event
\* that Append has acknowledged can be read back as a line of the log.
AckedIsReadable == \A c \in Acked : Readable(c)
=============================================================================
