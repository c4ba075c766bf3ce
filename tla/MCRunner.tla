------------------------------ MODULE MCRunner ------------------------------
(* Instances of Runner for TLC.                                            *)
EXTENDS Runner

\* A rate of exactly one half is reached by one failure in two requests.
OneHalf == [num |-> 1, den |-> 2]

\* One answer for each combination of class and retry decision an HTTP
\* failure can have: bad key, quota, bad request, overload, plain transport
\* error, cancelled context.
AllOpenErrors ==
  {ApiError(401, "none", "auth"), ApiError(429, "account", "other"),
   ApiError(400, "none", "other"), ApiError(503, "protocol", "other"),
   BareError, CtxError}

\* The same for error frames.
AllFrames ==
  {MalformedFrame,
   Frame("account", "other", "other", "yes", 0),
   Frame("none", "other", "invalid", "absent", 400),
   Frame("none", "other", "other", "absent", 503),
   Frame("none", "other", "other", "absent", 0)}

\* A frame that carries the status of a success and is not worth another
\* attempt, and one that is.
OddFrames ==
  {Frame("none", "other", "other", "absent", 200),
   Frame("none", "other", "other", "yes", 200)}

\* A failure that counts against the account and one that does not, both of
\* them worth another attempt.
RetryableErrors == {ApiError(429, "account", "other"), BareError}

Fresh == [key |-> 1, paused |-> FALSE, credits |-> Unknown]

TwoFresh     == [a \in AccountIDs |-> Fresh]
\* The second account was paused by hand, the third runs low.
MixedAccounts ==
  [a \in AccountIDs |->
     CASE a = 1 -> Fresh
       [] a = 2 -> [Fresh EXCEPT !.paused = TRUE]
       [] OTHER -> [Fresh EXCEPT !.credits = 0]]

HashByRequest == [r \in Requests |-> r]
=============================================================================
