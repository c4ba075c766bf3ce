---------------------------- MODULE FailureClass ----------------------------
(***************************************************************************)
(* internal/proxy/retry.go: what a failed upstream attempt says about the  *)
(* account (its FailureClass) and whether it is worth another attempt.     *)
(* The two decisions are independent of each other.                        *)
(*                                                                         *)
(* A text is abstracted to what the code looks for in it: a message to the *)
(* class of its SCREAMING_SNAKE prefix, a code or a type to the group the  *)
(* switch statements put it in.                                            *)
(***************************************************************************)
EXTENDS Naturals

Classes == {"account", "protocol", "transient", "client"}

MessageClasses == {"account", "protocol", "none"}   \* of error.message
Codes == {"auth", "forbidden", "other"}    \* of error.code
Types == {"auth", "invalid", "other"}      \* of error.type, in a frame
Flags == {"yes", "no", "absent"}           \* isRetryable, in a frame

\* What Generate or a read of the body may return: a non-2xx answer, the
\* context's error, or any other error of the transport.
ApiError(status, prefix, code) ==
  [kind |-> "api", status |-> status, prefix |-> prefix, code |-> code]
CtxError  == [kind |-> "ctx"]
BareError == [kind |-> "bare"]

\* An `error` frame of the event stream.
Frame(prefix, code, type, flag, status) ==
  [malformed |-> FALSE, prefix |-> prefix, code |-> code, type |-> type,
   flag |-> flag, status |-> status]
MalformedFrame == [malformed |-> TRUE]

ServerSide(status) == status \in 500 .. 599
ClientSide(status) == status \in 400 .. 499

classifyOpenError(err) ==
  CASE err.kind = "ctx"                            -> "client"
    [] err.kind = "bare"                           -> "transient"
    [] err.kind = "api" /\ err.prefix # "none"     -> err.prefix
    [] err.kind = "api" /\ err.prefix = "none" ->
         CASE err.code = "auth"                    -> "account"
           [] err.code = "forbidden"               -> "protocol"
           [] err.code = "other" ->
                IF err.status = 401 THEN "account"
                ELSE IF err.status = 429 \/ ServerSide(err.status)
                     THEN "transient"
                ELSE IF ClientSide(err.status) THEN "protocol"
                ELSE "transient"

shouldRetryError(err) ==
  \/ err.kind = "bare"
  \/ err.kind = "api" /\ (err.status = 429 \/ ServerSide(err.status))

classifyStreamError(frame) ==
  IF frame.malformed             THEN "account"
  ELSE IF frame.prefix # "none"  THEN frame.prefix
  ELSE IF frame.code = "auth"    THEN "account"
  ELSE IF frame.code = "forbidden" \/ frame.type = "invalid" THEN "protocol"
  ELSE IF frame.type = "auth"    THEN "account"
  ELSE IF frame.flag = "yes" \/ ServerSide(frame.status) THEN "transient"
  ELSE IF frame.status = 401     THEN "account"
  ELSE IF ClientSide(frame.status) THEN "protocol"
  ELSE "transient"

isStreamErrorRetryable(frame) ==
  /\ ~frame.malformed
  /\ frame.flag = "yes" \/ (frame.flag = "absent" /\ ServerSide(frame.status))

\* The synthetic answer for a frame that is not retried: 502 unless the frame
\* carries a status; its code is the frame's type and its prefix is not read
\* again.
streamErrorToAPIError(frame) ==
  ApiError(IF frame.malformed \/ frame.status = 0 THEN 502 ELSE frame.status,
           "none", "other")
=============================================================================
