---------------------------- MODULE ErrorMapping ----------------------------
(***************************************************************************)
(* The errors of internal/githubapi and what ProviderAdapter.MapError      *)
(* (internal/githubapi/adapter.go) makes of them for a tool's caller.      *)
(***************************************************************************)

\* The sentinels of errors.go that a request can end with, and the errors that
\* wrap none of them: the request is not built (a base URL that does not parse),
\* not answered, its answer not read or not decoded, its context done.  A body
\* that does not marshal is no case: the one payload is a map of booleans.
Sentinels == {"ErrRateLimited", "ErrProviderUnavailable", "ErrUnauthorized", "ErrNotFound"}
Unwrapped == {"build", "transport", "read", "decode", "ctx"}
Errors    == Sentinels \cup Unwrapped

Codes == {"INVALID_INPUT", "UNAUTHORIZED", "RATE_LIMITED", "LOG_UNAVAILABLE",
          "PROVIDER_UNAVAILABLE", "INTERNAL"}

MapError(err) ==
  CASE err \in {"ErrUnauthorized", "ErrWriteTokenRequired"} -> "UNAUTHORIZED"
    [] err = "ErrNotFound"            -> "UNAUTHORIZED"
    [] err = "ErrRateLimited"         -> "RATE_LIMITED"
    [] err = "ErrLogsUnavailable"     -> "LOG_UNAVAILABLE"
    [] err = "ErrProviderUnavailable" -> "PROVIDER_UNAVAILABLE"
    [] err \in Unwrapped              -> "INTERNAL"
=============================================================================
