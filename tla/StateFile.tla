----------------------------- MODULE StateFile ------------------------------
(***************************************************************************)
(* internal/store: the state document in memory behind one lock, and       *)
(* state.json, which every update replaces through a synced temporary      *)
(* file.  Any file operation may fail, and the process or the machine may  *)
(* die between any two.                                                    *)
(*                                                                         *)
(* A state is abstracted to its rows (one per account or traffic entry a   *)
(* client added), its proxy token (a number, 0 for none), its version and  *)
(* whether its settings are filled in.                                     *)
(***************************************************************************)
EXTENDS Sequences, Naturals, FiniteSets

CONSTANTS
  Clients,        (* goroutines that call Update or RotateProxyToken once  *)
  InitFiles,      (* what state.json may be before the first start         *)
  MaxCrashes,     (* bound: deaths of the process or the machine           *)
  MaxFaults       (* bound: failing file operations                        *)

ASSUME StateFileBounds == MaxCrashes \in Nat /\ MaxFaults \in Nat
ASSUME ClientsAssumption == Clients \cap {"none", "boot"} = {}
\* Rows are those added since the first start; a token from before is number 1.
ASSUME InitFilesAssumption ==
  \A f \in InitFiles :
    \/ f.kind \in {"absent", "empty"}
    \/ /\ f.kind = "json" /\ f.synced
       /\ f.st \in [rows : {<<>>}, token : {0, 1}, version : Nat,
                    settings : {"filled", "missing"}]

VARIABLES
  up,        (* "down", "load", "token" (EnsureProxyToken) or "up"         *)
  mem,       (* Store.st                                                   *)
  prev,      (* the copy an update falls back to                           *)
  holder,    (* who holds s.mu for writing: "none", "boot" or a client     *)
  stage,     (* the file operation of persistLocked that comes next        *)
  tmp,       (* the temporary file being written                           *)
  leaked,    (* temporary files left behind                                *)
  file,      (* state.json as the kernel shows it                          *)
  older,     (* what the directory entry may still be on disk, each with   *)
             (* the clients whose update it has                            *)
  op,        (* what each client does                                      *)
  result,    (* what each client was told                                  *)
  applied,   (* ghost: clients whose update reached state.json             *)
  minted,    (* the last token generated                                   *)
  retired,   (* ghost: tokens a client was told are replaced, since the    *)
             (* power last failed                                          *)
  crashes, faults

vars == <<up, mem, prev, holder, stage, tmp, leaked, file, older, op, result,
          applied, minted, retired, crashes, faults>>

\* Mutants: the temporary file is not synced; it never replaces state.json.
Stages_NoSync   == <<"create", "encode", "close", "chmod", "rename", "return">>
Stages_NoRename == <<"create", "encode", "sync", "close", "chmod", "return">>

Stages == <<"create", "encode", "sync", "close", "chmod", "rename", "return">>

State(rows, token, version, settings) ==
  [rows |-> rows, token |-> token, version |-> version, settings |-> settings]

DefaultState == State(<<>>, 0, 1, "filled")

NoFile  == [kind |-> "absent"]
NoTmp   == [kind |-> "absent"]
Json(st, synced) == [kind |-> "json", st |-> st, synced |-> synced]

Running == <<op, result, applied, minted, retired, crashes, faults>>

Init ==
  /\ up = "down" /\ mem = DefaultState /\ prev = DefaultState
  /\ holder = "none" /\ stage = 1 /\ tmp = NoTmp /\ leaked = 0
  /\ file \in InitFiles /\ older = {}
  /\ op \in [Clients -> {"append", "reject", "rotate"}]
  /\ result = [c \in Clients |-> "idle"]
  /\ applied = {} /\ minted = 1 /\ retired = {}
  /\ crashes = 0 /\ faults = 0
-----------------------------------------------------------------------------
(* persistLocked: the holder of the lock works through the stages.         *)

Lock(who) == holder' = who /\ stage' = 1

Advance == stage' = stage + 1

Persisting == holder # "none" /\ Stages[stage] # "return"

PersistStep ==
  /\ Persisting
  /\ Advance
  /\ CASE Stages[stage] = "create" ->
            tmp' = [kind |-> "partial"] /\ UNCHANGED <<file, older, applied>>
       [] Stages[stage] = "encode" ->
            tmp' = Json(mem, FALSE) /\ UNCHANGED <<file, older, applied>>
       [] Stages[stage] = "sync" ->
            tmp' = Json(tmp.st, TRUE) /\ UNCHANGED <<file, older, applied>>
       [] Stages[stage] \in {"close", "chmod"} ->
            UNCHANGED <<tmp, file, older, applied>>
       [] Stages[stage] = "rename" ->
            /\ file' = tmp /\ tmp' = NoTmp
            /\ older' = older \cup {[file |-> file, applied |-> applied]}
            /\ applied' = IF holder = "boot" THEN applied ELSE applied \cup {holder}
  /\ UNCHANGED <<up, mem, prev, holder, leaked, op, result, minted, retired,
                 crashes, faults>>

\* Mutants: the update stays in memory; the temporary file stays behind.
RollBack_Not  == UNCHANGED mem
RemoveTmp_Not == UNCHANGED tmp

RollBack  == mem' = prev
RemoveTmp == tmp' = NoTmp

\* Any stage fails: the temporary file is removed and the caller falls back.
\* At boot the caller is main, which exits.
PersistFails ==
  /\ Persisting /\ faults < MaxFaults
  /\ faults' = faults + 1
  /\ RemoveTmp
  /\ holder' = "none"
  /\ RollBack
  /\ IF holder = "boot"
     THEN up' = "down" /\ UNCHANGED result
     ELSE result' = [result EXCEPT ![holder] = "error"] /\ UNCHANGED up
  /\ UNCHANGED <<prev, stage, leaked, file, older, op, applied, minted, retired,
                 crashes>>

PersistReturns ==
  /\ holder # "none" /\ Stages[stage] = "return"
  /\ holder' = "none"
  /\ IF holder = "boot"
     THEN up' = (IF up = "load" THEN "token" ELSE "up") /\ UNCHANGED <<result, retired>>
     ELSE /\ result' = [result EXCEPT ![holder] = "ok"]
          /\ retired' = IF op[holder] = "rotate" THEN retired \cup {prev.token}
                                                 ELSE retired
          /\ UNCHANGED up
  /\ UNCHANGED <<mem, prev, stage, tmp, leaked, file, older, op, applied, minted,
                 crashes, faults>>
-----------------------------------------------------------------------------
(* Start-up: New and load, then EnsureProxyToken.                          *)

\* Mutant: an older file's settings are not filled in.
Loaded_AsItIs ==
  IF file.kind = "json" THEN [file.st EXCEPT !.version = 1] ELSE DefaultState

\* What load makes of the file; a torn one does not decode and New fails.
Loaded ==
  IF file.kind = "json"
  THEN [file.st EXCEPT !.version = 1, !.settings = "filled"]
  ELSE DefaultState

\* Mutant: defaults are not written back.
Dirty_Never == FALSE

\* Written back only if something was missing; a missing version is not.
Dirty == file.kind # "json" \/ file.st.settings # "filled"

Boot ==
  /\ up = "down"
  /\ file.kind \in {"absent", "empty", "json"}
  /\ mem' = Loaded /\ prev' = Loaded
  /\ IF Dirty THEN up' = "load" /\ Lock("boot")
              ELSE up' = "token" /\ UNCHANGED <<holder, stage>>
  /\ UNCHANGED <<tmp, leaked, file, older, Running>>

EnsureProxyToken ==
  /\ up = "token" /\ holder = "none"
  /\ IF mem.token # 0
     THEN up' = "up" /\ UNCHANGED <<mem, prev, holder, stage, minted>>
     ELSE /\ minted' = minted + 1
          /\ prev' = mem
          /\ mem' = [mem EXCEPT !.token = minted']
          /\ Lock("boot")
          /\ UNCHANGED up
  /\ UNCHANGED <<tmp, leaked, file, older, op, result, applied, retired, crashes,
                 faults>>
-----------------------------------------------------------------------------
(* Update and RotateProxyToken of a client.                                *)

\* The function given to Update succeeds; persistLocked follows.
Update(c) ==
  /\ up = "up" /\ holder = "none" /\ result[c] = "idle" /\ op[c] # "reject"
  /\ prev' = mem
  /\ IF op[c] = "append"
     THEN mem' = [mem EXCEPT !.rows = Append(@, c)] /\ UNCHANGED minted
     ELSE minted' = minted + 1 /\ mem' = [mem EXCEPT !.token = minted']
  /\ Lock(c)
  /\ UNCHANGED <<up, tmp, leaked, file, older, op, result, applied, retired,
                 crashes, faults>>

\* The function fails (ErrAccountNotFound): memory falls back, no file work.
UpdateRejected(c) ==
  /\ up = "up" /\ holder = "none" /\ result[c] = "idle" /\ op[c] = "reject"
  /\ result' = [result EXCEPT ![c] = "error"]
  /\ UNCHANGED <<up, mem, prev, holder, stage, tmp, leaked, file, older, op, applied,
                 minted, retired, crashes, faults>>
-----------------------------------------------------------------------------
Died ==
  /\ up # "down" /\ crashes < MaxCrashes
  /\ crashes' = crashes + 1
  /\ up' = "down" /\ holder' = "none"
  /\ result' = IF holder \in Clients THEN [result EXCEPT ![holder] = "lost"] ELSE result
  /\ tmp' = NoTmp
  /\ leaked' = leaked + (IF tmp = NoTmp THEN 0 ELSE 1)
  /\ UNCHANGED <<mem, prev, stage, op, minted, faults>>

ProcessDies == Died /\ UNCHANGED <<file, older, applied, retired>>

Torn == [kind |-> "torn"]

\* The directory entry is whatever reached the disk: nothing syncs the
\* directory after a rename.  Content that was not synced comes back torn.
PowerFails ==
  /\ Died
  /\ \E was \in older \cup {[file |-> file, applied |-> applied]} :
       /\ file' = IF was.file.kind = "json" /\ ~was.file.synced THEN Torn ELSE was.file
       /\ applied' = was.applied
  /\ older' = {} /\ retired' = {}

Next ==
  \/ Boot \/ EnsureProxyToken
  \/ PersistStep \/ PersistFails \/ PersistReturns
  \/ \E c \in Clients : Update(c) \/ UpdateRejected(c)
  \/ ProcessDies \/ PowerFails

Spec == Init /\ [][Next]_vars
-----------------------------------------------------------------------------
\* A server that runs has its settings and a proxy token.
TypeOK ==
  /\ up \in {"down", "load", "token", "up"}
  /\ up = "up" => mem.version = 1 /\ mem.settings = "filled" /\ mem.token # 0
  /\ holder \in {"none", "boot"} \cup Clients
  /\ stage \in 1 .. Len(Stages)
  /\ tmp.kind \in {"absent", "partial", "json"}
  /\ file.kind \in {"absent", "empty", "torn", "json"}
  /\ result \in [Clients -> {"idle", "ok", "error", "lost"}]
  /\ applied \subseteq Clients
  /\ crashes \in 0 .. MaxCrashes /\ faults \in 0 .. MaxFaults

\* Snapshot waits for the lock, so a reader never sees an update that is not
\* in state.json, nor misses one that is, even after a failed write
\* (store.go:139-152).  The version number alone may be ahead of the file.
ReadersSeeTheFile ==
  (up = "up" /\ holder = "none") =>
    /\ file.kind = "json"
    /\ [mem EXCEPT !.version = 0] = [file.st EXCEPT !.version = 0]

\* Whatever dies when, state.json is whole, so the next start can load it
\* (store.go:87-123: temporary file, fsync, rename).
NeverTorn == file.kind # "torn"

\* Failed writes clean up: only a death in the middle of a write can leave a
\* temporary file behind (store.go:100-121).
NoLitter == holder = "none" => (tmp = NoTmp /\ leaked <= crashes)

\* A token a client was told is replaced is not accepted again, whatever
\* fails and however often the process dies; only a power failure can bring
\* it back, with the file that had it (token.go:52-66, middleware.go:31-35).
RetiredTokenRejected ==
  (up = "up" /\ holder = "none") => mem.token \notin retired

\* The store implements the all-or-nothing register, which a power failure
\* takes back to an earlier content at worst (store.go:87-123, 136-138).
ContentOf(f) == IF f.kind = "json" THEN [rows |-> f.st.rows, token |-> f.st.token]
                                   ELSE [rows |-> <<>>, token |-> 0]

Register == INSTANCE StateRegister WITH
  content <- ContentOf(file),
  past <- {[content |-> ContentOf(o.file), applied |-> o.applied] : o \in older},
  applied <- applied, result <- result

ImplementsRegister == Register!Spec
=============================================================================
