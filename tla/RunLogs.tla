------------------------------ MODULE RunLogs -------------------------------
(***************************************************************************)
(* The logs of a run: the limit that Service.DiagnoseFailure and           *)
(* Service.AnalyzeFlakyTests ask for (internal/service/service.go), and    *)
(* Client.DownloadRunLogs with the loop of unzipOrText over the archive    *)
(* (internal/githubapi/client.go).  Text is its length in bytes, an entry  *)
(* of the archive the lengths of its header line and of its content.       *)
(***************************************************************************)
EXTENDS Integers, Sequences, ErrorMapping

CONSTANTS
  ConfigLimits,   \* the values of cfg.MaxLogBytes
  AskedLimits,    \* the values of max_log_bytes in a tool call
  DefaultLimit,   \* 1 << 20 in the code
  Bodies          \* the bodies the logs endpoint may answer with

\* readable: the bytes of the content that decompress, whole: they are all of it
Entries == [dir : BOOLEAN, opens : BOOLEAN, header : Nat \ {0}, readable : Nat, whole : BOOLEAN]

\* A body is no archive (and then text of some length), or an archive.
BodySpace ==
  [zip : {FALSE}, length : Nat, files : {<<>>}]
    \cup [zip : {TRUE}, length : Nat \ {0}, files : Seq(Entries)]

ASSUME LogsAssumption ==
  /\ ConfigLimits \subseteq Nat \ {0}
  /\ AskedLimits \subseteq Int
  /\ DefaultLimit \in Nat \ {0}

ASSUME BodiesAssumption == Bodies \subseteq BodySpace

VARIABLES
  stage,     \* "idle", "request", "scan", "done"
  cfgLimit,  \* cfg.MaxLogBytes
  limit,     \* maxBytes
  files,     \* zipReader.File
  next,      \* the loop's position in files
  size,      \* buf.Len()
  kept,      \* for each entry written to buf, its position and the bytes of its content
  result     \* "none", "ok", or the error of DownloadRunLogs

vars == <<stage, cfgLimit, limit, files, next, size, kept, result>>

Init ==
  /\ stage    = "idle"
  /\ cfgLimit \in ConfigLimits
  /\ limit    = 0
  /\ files    = <<>>
  /\ next     = 1
  /\ size     = 0
  /\ kept     = <<>>
  /\ result   = "none"

Lesser(a, b) == IF a < b THEN a ELSE b

-----------------------------------------------------------------------------
(* The limit.                                                               *)

Ask(n) ==
  /\ stage = "idle"
  /\ stage' = "request"
  /\ limit' = n
  /\ UNCHANGED <<cfgLimit, files, next, size, kept, result>>

\* Mutant: a limit of 0 or less is not replaced.
AskUnclamped == \E asked \in AskedLimits : Ask(Lesser(asked, cfgLimit))

\* DiagnoseFailure clamps the limit it is given to the configured one.
AskForDiagnosis ==
  \E asked \in AskedLimits : Ask(IF asked <= 0 THEN cfgLimit ELSE Lesser(asked, cfgLimit))

\* AnalyzeFlakyTests takes half of the configured one for each run.
AskForFlakyTests == Ask(cfgLimit \div 2)

-----------------------------------------------------------------------------
(* DownloadRunLogs.                                                         *)

Finish(res) ==
  /\ stage' = "done"
  /\ result' = res

\* doBytes fails, which decodes nothing.  Its errors wrap ErrNotFound, and a
\* wrapped error never equals the sentinel: DownloadRunLogs hands it on as it is.
RequestFails ==
  /\ stage = "request"
  /\ \E err \in Errors \ {"decode"} : Finish(err)
  /\ UNCHANGED <<cfgLimit, limit, files, next, size, kept>>

\* An empty body, or a body that is no archive and is taken as text.
TakeText(body) ==
  /\ stage = "request"
  /\ ~body.zip
  /\ limit' = IF limit <= 0 THEN DefaultLimit ELSE limit
  /\ size' = Lesser(body.length, limit')
  /\ Finish(IF body.length = 0 THEN "ErrLogsUnavailable" ELSE "ok")
  /\ UNCHANGED <<cfgLimit, files, next, kept>>

OpenArchive(body) ==
  /\ stage = "request"
  /\ body.zip
  /\ limit' = IF limit <= 0 THEN DefaultLimit ELSE limit
  /\ files' = body.files
  /\ stage' = "scan"
  /\ UNCHANGED <<cfgLimit, next, size, kept, result>>

\* The entry at the loop's position, and the room for its content.
Entry == files[next]
Room  == limit - size - Entry.header

\* Mutant: the loop goes on when the text has reached the limit.
InLoopUnbounded ==
  /\ stage = "scan"
  /\ next <= Len(files)
  /\ next' = next + 1

\* The body of the loop is entered for Entry.
InLoop ==
  /\ stage = "scan"
  /\ next <= Len(files)
  /\ size < limit
  /\ next' = next + 1

\* Directories, and files that do not open, are passed over.
SkipEntry ==
  /\ InLoop
  /\ Entry.dir \/ ~Entry.opens
  /\ UNCHANGED <<stage, cfgLimit, limit, files, size, kept, result>>

\* The header line of a file is written whole.
WriteHeader ==
  /\ InLoop
  /\ ~Entry.dir
  /\ Entry.opens

\* It takes all the room there is, and the loop ends.
HeaderFills ==
  /\ WriteHeader
  /\ Room <= 0
  /\ kept' = Append(kept, [file |-> next, bytes |-> 0])
  /\ size' = size + Entry.header
  /\ Finish("ok")
  /\ UNCHANGED <<cfgLimit, limit, files>>

\* Mutant: an error of CopyN is taken as the end of the content.
WriteEntryTolerant ==
  /\ WriteHeader
  /\ Room > 0
  /\ kept' = Append(kept, [file |-> next, bytes |-> Lesser(Entry.readable, Room)])
  /\ size' = size + Entry.header + Lesser(Entry.readable, Room)
  /\ UNCHANGED <<stage, cfgLimit, limit, files, result>>

\* io.CopyN takes as much content as there is room for, or all of it.
WriteEntry ==
  /\ WriteHeader
  /\ Room > 0
  /\ Entry.whole \/ Entry.readable >= Room
  /\ kept' = Append(kept, [file |-> next, bytes |-> Lesser(Entry.readable, Room)])
  /\ size' = size + Entry.header + Lesser(Entry.readable, Room)
  /\ UNCHANGED <<stage, cfgLimit, limit, files, result>>

\* The content cannot be read as far as there is room for it: unzipOrText
\* fails, and what it has gathered is dropped.
EntryDamaged ==
  /\ WriteHeader
  /\ ~Entry.whole
  /\ Entry.readable < Room
  /\ Finish("ErrLogsUnavailable")
  /\ UNCHANGED <<cfgLimit, limit, files, size, kept>>

\* The loop ends: no entry is left, or the last one has filled the room.
EndLoop ==
  /\ stage = "scan"
  /\ \/ next > Len(files)
     \/ size >= limit
  /\ Finish(IF size = 0 THEN "ErrLogsUnavailable" ELSE "ok")
  /\ UNCHANGED <<cfgLimit, limit, files, next, size, kept>>

-----------------------------------------------------------------------------

Next ==
  \/ AskForDiagnosis
  \/ AskForFlakyTests
  \/ RequestFails
  \/ \E body \in Bodies : TakeText(body) \/ OpenArchive(body)
  \/ SkipEntry
  \/ WriteEntry
  \/ HeaderFills
  \/ EntryDamaged
  \/ EndLoop

Spec == Init /\ [][Next]_vars

-----------------------------------------------------------------------------
(* Properties.                                                              *)

\* The variables keep to their types.
TypeOK ==
  /\ stage \in {"idle", "request", "scan", "done"}
  /\ cfgLimit \in ConfigLimits
  /\ limit \in Nat
  /\ files \in Seq(Entries)
  /\ next \in Nat \ {0}
  /\ size \in Nat
  /\ kept \in Seq([file : Nat \ {0}, bytes : Nat])
  /\ result \in Errors \cup {"none", "ok", "ErrLogsUnavailable"}

\* Text that is returned passes its limit by less than the header line of the
\* last file in it, which is written whatever room there is; and that limit is
\* no more than the configured one, except that half of a configured limit of
\* one byte is zero, which unzipOrText takes as no limit given.
PassesLimitByHeader ==
  result = "ok" =>
    /\ limit <= cfgLimit \/ cfgLimit = 1
    /\ \/ size <= limit
       \/ /\ kept # <<>>
          /\ size < limit + files[kept[Len(kept)].file].header

\* The limit cuts the end of the text only: every file in it but the last has
\* all of its content.
OnlyLastIsCut ==
  \A k \in 1 .. Len(kept) - 1 :
    /\ kept[k].bytes = files[kept[k].file].readable
    /\ files[kept[k].file].whole

\* Text of an archive that stays below the limit lacks nothing: every file that
\* opens is in it, entire, and no content that stopped short of its end is taken
\* as if it had ended.
BelowLimitIsComplete ==
  result = "ok" /\ size < limit =>
    \A i \in DOMAIN files :
      ~files[i].dir /\ files[i].opens =>
        \E k \in DOMAIN kept :
          /\ kept[k].file = i
          /\ kept[k].bytes = files[i].readable
          /\ files[i].whole

\* docs/acceptance-mapping.md:5 "Log access failures map to structured
\* LOG_UNAVAILABLE", which DownloadRunLogs means to do for a run whose logs are
\* not found (client.go:147): the tool's caller is told LOG_UNAVAILABLE.
MissingLogsAreUnavailable ==
  result = "ErrNotFound" => MapError(result) = "LOG_UNAVAILABLE"
=============================================================================
