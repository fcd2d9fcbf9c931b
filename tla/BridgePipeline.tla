--------------------------- MODULE BridgePipeline ---------------------------
(***************************************************************************)
(* The stages every route of the integration bridge shares, as operators:  *)
(* [auth], [validate], [dispatch], [map-error] and [respond].  An error is *)
(* represented by its type, which is all that classify looks at, and a     *)
(* request by what the two first stages tell apart.                        *)
(***************************************************************************)

\* Envelope and credentials of an incoming request.
Envelope == [apiKey    : {"right", "wrong"},
             companyID : {"right", "wrong"},
             body      : {"wellformed", "malformed"}]

Err == {"nil", "auth", "validation", "partial", "other", "deadline"}

authenticate(env) ==
    IF env.apiKey = "right" /\ env.companyID = "right" THEN "nil" ELSE "auth"

\* Unparsable JSON, a missing employeeInternalID or userID, a newValue that is
\* no object and a document that is no base64 are all the same error.
validateRequest(env) == IF env.body = "wellformed" THEN "nil" ELSE "validation"

\* [auth] before [validate], the first failure ends the request.
admit(env) == IF authenticate(env) # "nil" THEN authenticate(env) ELSE validateRequest(env)

\* Mutant: a deadline that has passed replaces the error by success.
dispatchSwallowing(err, expired) == IF expired THEN "nil" ELSE err

\* A deadline that has passed replaces an error of the hook, never a success.
dispatch(err, expired) == IF err # "nil" /\ expired THEN "deadline" ELSE err

\* Mutant: the PartialFailureError case is missing.
classifyUntyped(err) ==
    CASE err = "nil" -> "committed" [] err = "validation" -> "rejected"
      [] err = "deadline" -> "partial_failure" [] OTHER -> "error"

classify(err) ==
    CASE err = "nil"                      -> "committed"
      [] err = "validation"               -> "rejected"
      [] err \in {"deadline", "partial"}  -> "partial_failure"
      [] OTHER                            -> "error"

\* Success without a recordID is reported as an internal error.
respond(status, hasRecordID) ==
    IF status = "committed" /\ ~hasRecordID THEN "error" ELSE status
=============================================================================
