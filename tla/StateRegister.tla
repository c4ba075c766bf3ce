--------------------------- MODULE StateRegister ----------------------------
(***************************************************************************)
(* What the store promises (store.go:87-90, 136-138): a register whose     *)
(* content changes by whole updates only, each of them all or nothing,     *)
(* answered with success only once it is in and with an error only if it   *)
(* never will be.  A crash of the process loses nothing but answers; a     *)
(* power failure may take the register back to a content it has had since  *)
(* the power last failed, never to anything else.                          *)
(***************************************************************************)
EXTENDS Sequences, Naturals

CONSTANT Clients

VARIABLES
  content,   (* [rows, token]                                              *)
  applied,   (* the clients whose update is in content                     *)
  past,      (* what content and applied were since the last power failure *)
  result     (* client -> "idle", "ok", "error" or "lost"                  *)

vars == <<content, applied, past, result>>

Present == [content |-> content, applied |-> applied]

Init ==
  /\ content \in [rows : {<<>>}, token : Nat]
  /\ applied = {}
  /\ past = {}
  /\ result = [c \in Clients |-> "idle"]

\* An update is a row appended or a token replaced by one never used.
Apply(c) ==
  /\ result[c] = "idle" /\ c \notin applied
  /\ applied' = applied \cup {c}
  /\ \/ content' = [content EXCEPT !.rows = Append(@, c)]
     \/ content' = [content EXCEPT !.token = content'.token]
        /\ content'.token > content.token
  /\ past' = past \cup {Present}
  /\ UNCHANGED result

\* The token minted at boot is nobody's update.
Mint ==
  /\ content.token = 0 /\ content'.token > 0
  /\ content' = [content EXCEPT !.token = content'.token]
  /\ past' = past \cup {Present}
  /\ UNCHANGED <<applied, result>>

\* Defaults are written back: another version of the same content.
Rewrite ==
  /\ past' = past \cup {Present}
  /\ UNCHANGED <<content, applied, result>>

Told(c, how) ==
  /\ result[c] = "idle"
  /\ how = "ok"    => c \in applied
  /\ how = "error" => c \notin applied
  /\ result' = [result EXCEPT ![c] = how]

Answer(c, how) == Told(c, how) /\ UNCHANGED <<content, applied, past>>

\* Whoever waits for an answer does not get one.
PowerFails ==
  /\ \E was \in past \cup {Present} :
       content' = was.content /\ applied' = was.applied
  /\ past' = {}
  /\ UNCHANGED result \/ \E c \in Clients : Told(c, "lost")

Next ==
  \/ \E c \in Clients : Apply(c) \/ \E how \in {"ok", "error", "lost"} : Answer(c, how)
  \/ Mint \/ Rewrite \/ PowerFails

Spec == Init /\ [][Next]_vars
=============================================================================
