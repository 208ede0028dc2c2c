----------------------------- MODULE KrpcStream -----------------------------
(***************************************************************************)
(* A K-RPC call as a result stream, and the requests that arrive.          *)
(***************************************************************************)
EXTENDS Krpc

\* How the method ended; a request that was not passed to one has failed.
outcomeOf ==
  CASE method = "ok"                         -> "ok"
    [] method \in {"error", "panicked"}      -> "failed"
    [] method \in {"running", "sending"}     -> "open"
    [] method = "none" /\ pc = "start"       -> "open"
    [] method = "none" /\ pc # "start"       -> "failed"

statusOf ==
  CASE client = "open"                            -> "open"
    [] client = "eof"                             -> "complete"
    [] client \in {"error", "discarding", "closed"} -> "failed"

Stream == INSTANCE ResultStream WITH
  Limit    <- MaxResults,
  produced <- sent,
  outcome  <- outcomeOf,
  seen     <- got,
  status   <- statusOf

\* Every call behaves as a result stream, from the method to its caller.
ImplementsStream == Stream!Spec
=============================================================================
