-------------------------------- MODULE Errors --------------------------------
(***************************************************************************)
(* The errors of src/macula_py/_wire.py: the exception classes, what an    *)
(* except clause catches of them, and the class native_error gives each    *)
(* kind of failure the native library reports.  What an error carries      *)
(* besides its class (message, code, reason, failures) is left out.        *)
(***************************************************************************)

\* The bases of each class, Python's own included.
Bases ==
  [c \in {"InvalidHandleError", "NotFoundError", "NoProviderError", "AlreadyAnsweredError",
          "ClosedError", "RefusedError", "ProviderError", "RelayError", "StreamError",
          "NotSharedError", "ContentUnavailableError", "ConfidentialityError",
          "GroupError", "NotSettledError", "NotACallerError",
          "MaculaTimeoutError", "InvalidArgumentError", "MaculaError", "NativeCancelled"} |->
     CASE c = "MaculaTimeoutError"   -> {"MaculaError", "TimeoutError"}
       [] c = "InvalidArgumentError" -> {"MaculaError", "ValueError"}
       [] c \in {"MaculaError", "NativeCancelled"} -> {"Exception"}
       [] OTHER -> {"MaculaError"}]

\* Whether except clause catches an error of class c.
IsA(c, clause) == clause = c \/ (c \in DOMAIN Bases /\ clause \in Bases[c])

\* The kinds that carry nothing but a class, and those that carry more.
KINDS == [timeout |-> "MaculaTimeoutError", invalid_argument |-> "InvalidArgumentError",
           invalid_handle |-> "InvalidHandleError", not_found |-> "NotFoundError",
           no_provider |-> "NoProviderError", not_shared |-> "NotSharedError",
           answered |-> "AlreadyAnsweredError", closed |-> "ClosedError",
           not_settled |-> "NotSettledError", not_a_caller |-> "NotACallerError",
           failed |-> "MaculaError"]

Carrying == [cancelled |-> "NativeCancelled", provider_error |-> "ProviderError",
             relay_error |-> "RelayError", unavailable |-> "ContentUnavailableError",
             confidentiality |-> "ConfidentialityError", group |-> "GroupError",
             refused |-> "RefusedError"]

\* A kind this version does not know, and text that is not the contract's JSON.
Kinds == DOMAIN KINDS \cup DOMAIN Carrying \cup {"unknown", "garbled"}

native_error(kind) ==
  CASE kind \in DOMAIN Carrying -> Carrying[kind]
    [] kind \in DOMAIN KINDS   -> KINDS[kind]
    [] OTHER                    -> "MaculaError"
=============================================================================
