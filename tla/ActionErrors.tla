---------------------------- MODULE ActionErrors ----------------------------
(***************************************************************************)
(* How the failure of an action becomes the status code of its call        *)
(* (pkg/cerrors/cerrors.go, pkg/wrapper/actions.go wrapActionError).        *)
(***************************************************************************)
EXTENDS Sequences

Code == {"OK", "InvalidArg", "Panic", "Cancelled", "NotFound", "IO", "ChartLoad",
         "ChartInvalid", "Values", "Registry", "Repo", "Kube", "Release", "Unknown"}

(* What the SDK may fail with. A deadline is one of its own: its waits and  *)
(* its HTTP clients time out whatever the caller's context.                 *)
SDKCause == {"deadline", "not found", "unreachable", "other"}

Cause == SDKCause \cup {"none", "canceled"}

(* An error is the codes wrapped around it, outermost first, and its cause. *)
Error == [codes : Seq(Code), cause : Cause]

NoError == [codes |-> << >>, cause |-> "none"]

Plain(cause) == [codes |-> << >>, cause |-> cause]

WithCode(c, e) == [codes |-> << c >> \o e.codes, cause |-> e.cause]

Coded(c) == WithCode(c, Plain("other"))

(* errors.As walks the chain from the outside and takes the first code. *)
FromError(e) ==
  CASE e = NoError -> "OK"
    [] e.codes # << >> -> Head(e.codes)
    [] e.codes = << >> /\ e.cause \in {"canceled", "deadline"} -> "Cancelled"
    [] OTHER -> "Unknown"

(* Wrong variant of WrapActionError: a code the public list does not have. *)
WrapActionErrorUnlisted(e, fallback) ==
  CASE e.cause = "canceled" -> WithCode("Cancelled", e)
    [] e.cause = "deadline" -> WithCode("Timeout", e)
    [] e.cause = "not found" -> WithCode("NotFound", e)
    [] e.cause = "unreachable" -> WithCode("Kube", e)
    [] OTHER -> WithCode(fallback, e)

WrapActionError(e, fallback) ==
  CASE e.cause \in {"canceled", "deadline"} -> WithCode("Cancelled", e)
    [] e.cause = "not found" -> WithCode("NotFound", e)
    [] e.cause = "unreachable" -> WithCode("Kube", e)
    [] OTHER -> WithCode(fallback, e)
=============================================================================
