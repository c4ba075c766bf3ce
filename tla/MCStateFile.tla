---------------------------- MODULE MCStateFile -----------------------------
(* Instances of StateFile for TLC.                                         *)
EXTENDS StateFile

\* No file, an empty one, one written by an older version before or
\* after its token was minted, and a complete one.
MCInitFiles ==
  {NoFile, [kind |-> "empty"],
   Json(State(<<>>, 0, 0, "missing"), TRUE), Json(State(<<>>, 1, 0, "missing"), TRUE),
   Json(State(<<>>, 1, 0, "filled"), TRUE)}
=============================================================================
