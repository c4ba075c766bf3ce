---------------------------- MODULE StoreProofs ----------------------------
(***************************************************************************)
(* The store.  For any clients, any number of failing file operations and  *)
(* of deaths of the process or the machine: state.json is never torn       *)
(* (StateFile).  For any requests, limits and dashboards, and however the  *)
(* process ends: the traffic log is the end of what was stored (Shutdown,  *)
(* at the end).                                                            *)
(***************************************************************************)
EXTENDS StateFile, Shutdown, SequenceTheorems, TLAPS

\* What a file may be for a later start to load it.
Whole(f) == f.kind \in {"absent", "empty"} \/ (f.kind = "json" /\ f.synced)

\* The temporary file under the lock: once synced it stays so, with what was
\* synced, until it is renamed (store.go:100-118).
TmpFollowsStages ==
  holder # "none" =>
    /\ stage \in 1 .. 7
    /\ stage \in {4, 5, 6} => tmp = Json(tmp.st, TRUE)

\* The inductive invariant: the file is whole, as is everything the directory
\* may go back to, and what is about to replace it.
FilesWhole ==
  /\ Whole(file)
  /\ \A o \in older : Whole(o.file)
  /\ TmpFollowsStages

\* The order of persistLocked (store.go:90-121).
LEMMA StagesInOrder ==
  /\ Stages[1] = "create" /\ Stages[2] = "encode" /\ Stages[3] = "sync"
  /\ Stages[4] = "close" /\ Stages[5] = "chmod" /\ Stages[6] = "rename"
  /\ Stages[7] = "return"
  BY DEF Stages

\* A first start finds a file that is whole or none at all (store.go:38-53).
LEMMA InitIsWhole == Init => FilesWhole
  BY InitFilesAssumption DEF Init, FilesWhole, Whole, TmpFollowsStages

\* One file operation of persistLocked: only a temporary file that was encoded
\* and then synced ever takes the name of state.json.
LEMMA PersistStepKeepsWhole == FilesWhole /\ PersistStep => FilesWhole'
<1> SUFFICES ASSUME FilesWhole, PersistStep PROVE FilesWhole'
  OBVIOUS
<1>1. /\ holder # "none" /\ holder' = holder
      /\ stage \in 1 .. 6 /\ stage' = stage + 1
  BY StagesInOrder DEF PersistStep, Persisting, Advance, FilesWhole, TmpFollowsStages
<1>2. CASE stage = 1
  <2>1. UNCHANGED <<file, older>>
    BY <1>2, StagesInOrder DEF PersistStep
  <2> QED
    BY <1>1, <1>2, <2>1 DEF FilesWhole, Whole, TmpFollowsStages, Json
<1>3. CASE stage = 2
  <2>1. UNCHANGED <<file, older>>
    BY <1>3, StagesInOrder DEF PersistStep
  <2> QED
    BY <1>1, <1>3, <2>1 DEF FilesWhole, Whole, TmpFollowsStages
<1>4. CASE stage = 3
  <2>1. tmp' = Json(tmp.st, TRUE) /\ UNCHANGED <<file, older>>
    BY <1>4, StagesInOrder DEF PersistStep
  <2>2. tmp' = Json(tmp'.st, TRUE)
    BY <2>1 DEF Json
  <2> QED
    BY <1>1, <1>4, <2>1, <2>2 DEF FilesWhole, Whole, TmpFollowsStages, Json
<1>5. CASE stage \in {4, 5}
  <2>1. UNCHANGED <<tmp, file, older>>
    BY <1>5, StagesInOrder DEF PersistStep
  <2> QED
    BY <1>1, <1>5, <2>1 DEF FilesWhole, Whole, TmpFollowsStages, Json
<1>6. CASE stage = 6
  <2>1. file' = tmp /\ older' = older \cup {[file |-> file, applied |-> applied]}
    BY <1>6, StagesInOrder DEF PersistStep
  <2>2. Whole(tmp)
    <3>1. tmp = Json(tmp.st, TRUE)
      BY <1>1, <1>6 DEF FilesWhole, TmpFollowsStages
    <3>2. tmp.kind = "json" /\ tmp.synced
      BY <3>1 DEF Json
    <3> QED
      BY <3>2 DEF Whole
  <2>3. Whole(file') /\ \A o \in older' : Whole(o.file)
    BY <2>1, <2>2 DEF FilesWhole
  <2> QED
    BY <1>1, <1>6, <2>3 DEF FilesWhole, Whole, TmpFollowsStages, Json
<1> QED
  BY <1>1, <1>2, <1>3, <1>4, <1>5, <1>6

\* A power failure brings back some whole file, so nothing tears.
LEMMA PowerFailsKeepsWhole == FilesWhole /\ PowerFails => FilesWhole'
<1> SUFFICES ASSUME FilesWhole, PowerFails PROVE FilesWhole'
  OBVIOUS
<1>1. PICK was \in older \cup {[file |-> file, applied |-> applied]} :
        file' = IF was.file.kind = "json" /\ ~was.file.synced THEN Torn ELSE was.file
  BY DEF PowerFails
<1>2. Whole(was.file)
  BY <1>1 DEF FilesWhole
<1>3. file' = was.file
  BY <1>1, <1>2 DEF Whole
<1>4. older' = {} /\ holder' = "none"
  BY DEF PowerFails, Died
<1> QED
  BY <1>2, <1>3, <1>4 DEF FilesWhole, Whole, TmpFollowsStages, Json

\* Whoever takes the lock starts before the first file operation.
LEMMA NextKeepsWhole == FilesWhole /\ [Next]_vars => FilesWhole'
<1> SUFFICES ASSUME FilesWhole, [Next]_vars PROVE FilesWhole'
  OBVIOUS
<1> USE DEF FilesWhole, Whole, TmpFollowsStages, Json
<1>1. CASE Boot
  BY <1>1 DEF Boot, Lock, Running
<1>2. CASE EnsureProxyToken
  BY <1>2 DEF EnsureProxyToken, Lock
<1>3. CASE PersistStep
  BY <1>3, PersistStepKeepsWhole
<1>4. CASE PersistFails
  BY <1>4 DEF PersistFails
<1>5. CASE PersistReturns
  BY <1>5 DEF PersistReturns
<1>6. ASSUME NEW c \in Clients, Update(c) \/ UpdateRejected(c) PROVE FilesWhole'
  BY <1>6 DEF Update, UpdateRejected, Lock
<1>7. CASE ProcessDies
  BY <1>7 DEF ProcessDies, Died
<1>8. CASE PowerFails
  BY <1>8, PowerFailsKeepsWhole
<1>9. CASE UNCHANGED vars
  BY <1>9 DEF vars
<1> QED
  BY <1>1, <1>2, <1>3, <1>4, <1>5, <1>6, <1>7, <1>8, <1>9 DEF Next

\* For any clients, files at the start, failures and deaths: what the next
\* start finds is whole (store.go:87-123).
THEOREM StateFileNeverTorn == Spec => []NeverTorn
<1>1. FilesWhole => NeverTorn
  BY DEF FilesWhole, Whole, NeverTorn
<1> QED
  BY InitIsWhole, NextKeepsWhole, <1>1, PTL DEF Spec
-----------------------------------------------------------------------------
(* What memory, the file and the holder of the lock have in common.        *)

States == [rows : Seq(Clients), token : Nat, version : Nat,
           settings : {"filled", "missing"}]

IsFile(f, max) ==
  /\ f.kind \in {"absent", "empty", "torn", "json"}
  /\ f.kind = "json" => f.st \in States /\ f.st.token <= max

StoreTypes ==
  /\ up \in {"down", "load", "token", "up"}
  /\ mem \in States /\ prev \in States
  /\ mem.version = 1 /\ mem.settings = "filled"
  /\ prev.version = 1 /\ prev.settings = "filled"
  /\ minted \in Nat \ {0} /\ mem.token <= minted /\ prev.token <= minted
  /\ holder \in {"none", "boot"} \cup Clients
  /\ stage \in 1 .. 7
  /\ tmp.kind \in {"absent", "partial", "json"}
  /\ leaked \in Nat /\ crashes \in 0 .. MaxCrashes /\ faults \in 0 .. MaxFaults
  /\ IsFile(file, minted)
  /\ \A o \in older : IsFile(o.file, minted) /\ o.applied \subseteq applied
  /\ op \in [Clients -> {"append", "reject", "rotate"}]
  /\ result \in [Clients -> {"idle", "ok", "error", "lost"}]
  /\ applied \subseteq Clients

\* Who may hold the lock when, and what its temporary file is at each stage.
WriterAtWork ==
  /\ up = "down" => holder = "none"
  /\ up = "load" => holder = "boot"
  /\ holder = "boot" => up \in {"load", "token"}
  /\ holder \in Clients => up = "up"
  /\ (holder = "none" \/ stage = 7) => tmp = NoTmp
  /\ (holder # "none" /\ stage \in 3 .. 6) => tmp.kind = "json" /\ tmp.st = mem
  /\ leaked <= crashes

Agree(st, f) ==
  /\ f.kind = "json"
  /\ st.rows = f.st.rows /\ st.token = f.st.token /\ st.settings = f.st.settings

\* Without a write under way memory agrees with the file; during one, it is
\* the copy that does, until the rename.
MemoryFollowsFile ==
  /\ (up # "down" /\ (holder = "none" \/ stage = 7)) => Agree(mem, file)
  /\ (up \in {"token", "up"} /\ holder # "none" /\ stage <= 6) => Agree(prev, file)
  /\ (up = "load" /\ stage <= 6) =>
       /\ mem.rows = ContentOf(file).rows /\ mem.token = ContentOf(file).token

\* What the write under way is about.
UpdateInHand ==
  /\ up = "up" => mem.token # 0
  /\ (holder = "boot" /\ up = "token") =>
       mem.rows = prev.rows /\ prev.token = 0 /\ mem.token = minted
  /\ holder \in Clients =>
       /\ result[holder] = "idle" /\ prev.token # 0
       /\ \/ /\ op[holder] = "append"
             /\ mem.rows = Append(prev.rows, holder) /\ mem.token = prev.token
          \/ /\ op[holder] = "rotate"
             /\ mem.rows = prev.rows /\ mem.token = minted /\ prev.token < minted

\* Tokens only grow until the power fails.
RetiredIsOlder ==
  /\ retired \subseteq Nat
  /\ \A t \in retired : file.kind = "json" /\ t < file.st.token

\* An update is in the file once it was answered with success, and before
\* only while its writer is about to return.
AppliedIsAnswered ==
  /\ \A c \in applied : result[c] # "idle" \/ (holder = c /\ stage = 7)
  /\ (holder \in Clients /\ stage = 7) => holder \in applied

StoreInv ==
  /\ FilesWhole /\ StoreTypes /\ WriterAtWork /\ MemoryFollowsFile
  /\ UpdateInHand /\ RetiredIsOlder /\ AppliedIsAnswered

\* The state document of a first start, and of load for any file it accepts.
LEMMA DefaultIsState == DefaultState \in States /\ DefaultState.token = 0
                        /\ DefaultState.rows = <<>>
  BY DEF DefaultState, State, States

\* A token is no more than those minted by then, nor by any later time.
LEMMA FilesStay ==
  ASSUME NEW f, NEW m \in Nat, NEW n \in Nat, m <= n, IsFile(f, m)
  PROVE  IsFile(f, n)
  BY DEF IsFile, States

LEMMA InitIsConsistent == Init => StoreInv
<1> SUFFICES ASSUME Init PROVE StoreInv
  OBVIOUS
<1>1. IsFile(file, minted)
  <2>1. CASE file.kind = "json"
    <3>1. file.st \in [rows : {<<>>}, token : {0, 1}, version : Nat,
                       settings : {"filled", "missing"}]
      BY <2>1, InitFilesAssumption DEF Init
    <3>2. <<>> \in Seq(Clients)
      OBVIOUS
    <3>3. file.st \in States
      <4>1. ASSUME NEW R, R \subseteq Seq(Clients),
                   file.st \in [rows : R, token : {0, 1}, version : Nat,
                                settings : {"filled", "missing"}]
            PROVE  file.st \in States
        BY <4>1 DEF States
      <4>2. {<<>>} \subseteq Seq(Clients)
        BY <3>2
      <4> QED
        BY <3>1, <4>1, <4>2
    <3>4. file.st.token <= minted
      BY <3>1 DEF Init
    <3> QED
      BY <2>1, <3>3, <3>4 DEF IsFile
  <2> QED
    BY <2>1, InitFilesAssumption DEF Init, IsFile
<1>2. StoreTypes
  BY <1>1, DefaultIsState, StateFileBounds DEF Init, StoreTypes, DefaultState, State, NoTmp
<1>3. WriterAtWork /\ MemoryFollowsFile /\ UpdateInHand /\ RetiredIsOlder
      /\ AppliedIsAnswered
  BY ClientsAssumption DEF Init, WriterAtWork, MemoryFollowsFile, UpdateInHand,
     RetiredIsOlder, AppliedIsAnswered, NoTmp
<1> QED
  BY InitIsWhole, <1>2, <1>3 DEF StoreInv

\* New and load: memory is what the file says, with what it lacks filled in.
LEMMA BootKeeps == StoreInv /\ Boot => StoreInv'
<1> SUFFICES ASSUME StoreInv, Boot PROVE StoreInv'
  OBVIOUS
<1> USE DEF StoreInv
<1>0. FilesWhole'
  BY NextKeepsWhole DEF Next
<1>1. /\ holder = "none" /\ tmp = NoTmp
      /\ UNCHANGED <<tmp, leaked, file, older, op, result, applied, minted,
                     retired, crashes, faults>>
  BY DEF Boot, WriterAtWork, Running
<1>2. /\ mem' \in States /\ mem'.version = 1 /\ mem'.settings = "filled"
      /\ mem'.rows = ContentOf(file).rows /\ mem'.token = ContentOf(file).token
      /\ mem'.token <= minted /\ prev' = mem'
  <2>1. CASE file.kind = "json"
    <3>1. file.st \in States /\ file.st.token <= minted
      BY <2>1 DEF StoreTypes, IsFile
    <3> QED
      BY <2>1, <3>1 DEF Boot, Loaded, States, ContentOf
  <2>2. CASE file.kind # "json"
    BY <2>2, DefaultIsState DEF Boot, Loaded, ContentOf, StoreTypes, DefaultState, State
  <2> QED
    BY <2>1, <2>2
<1>3. \/ /\ up' = "load" /\ holder' = "boot" /\ stage' = 1
      \/ /\ up' = "token" /\ holder' = "none" /\ stage' = stage
         /\ file.kind = "json" /\ file.st.settings = "filled"
  BY <1>1 DEF Boot, Lock, Dirty
<1>4. StoreTypes'
  BY <1>1, <1>2, <1>3 DEF StoreTypes, IsFile
<1>5. WriterAtWork'
  BY <1>1, <1>3, ClientsAssumption DEF WriterAtWork, StoreTypes
<1>6. MemoryFollowsFile'
  BY <1>1, <1>2, <1>3 DEF MemoryFollowsFile, Agree, ContentOf
<1>7. UpdateInHand'
  BY <1>1, <1>3, ClientsAssumption DEF UpdateInHand
<1>8. RetiredIsOlder'
  BY <1>1 DEF RetiredIsOlder
<1>9. AppliedIsAnswered'
  BY <1>1, <1>3, ClientsAssumption DEF AppliedIsAnswered, StoreTypes
<1> QED
  BY <1>0, <1>4, <1>5, <1>6, <1>7, <1>8, <1>9

\* The token of a first start, one never used.
LEMMA EnsureKeeps == StoreInv /\ EnsureProxyToken => StoreInv'
<1> SUFFICES ASSUME StoreInv, EnsureProxyToken PROVE StoreInv'
  OBVIOUS
<1> USE DEF StoreInv
<1>0. FilesWhole'
  BY NextKeepsWhole DEF Next
<1>1. /\ up = "token" /\ holder = "none" /\ tmp = NoTmp
      /\ UNCHANGED <<tmp, leaked, file, older, op, result, applied, retired,
                     crashes, faults>>
  BY DEF EnsureProxyToken, WriterAtWork
<1>2. Agree(mem, file)
  BY <1>1 DEF MemoryFollowsFile
<1>3. CASE mem.token # 0
  <2>1. up' = "up" /\ UNCHANGED <<mem, prev, holder, stage, minted>>
    BY <1>3 DEF EnsureProxyToken
  <2>2. StoreTypes'
    BY <1>1, <2>1 DEF StoreTypes, IsFile
  <2> QED
    BY <1>0, <1>1, <1>2, <1>3, <2>1, <2>2, ClientsAssumption
       DEF WriterAtWork, MemoryFollowsFile, UpdateInHand, RetiredIsOlder,
           AppliedIsAnswered, StoreTypes, Agree
<1>4. CASE mem.token = 0
  <2>1. /\ minted' = minted + 1 /\ prev' = mem /\ holder' = "boot" /\ stage' = 1
        /\ up' = up
    BY <1>4 DEF EnsureProxyToken, Lock
  <2>2. /\ mem' \in States /\ mem'.token = minted' /\ mem'.rows = mem.rows
        /\ mem'.version = 1 /\ mem'.settings = "filled"
    BY <1>4, <2>1 DEF EnsureProxyToken, StoreTypes, States
  <2>3. StoreTypes'
    <3>1. minted \in Nat /\ minted' \in Nat \ {0} /\ minted <= minted'
          /\ mem.token \in Nat /\ mem.token <= minted
      BY <2>1 DEF StoreTypes, States
    <3>2. IsFile(file', minted') /\ \A o \in older' : IsFile(o.file, minted')
      BY <1>1, <3>1, FilesStay DEF StoreTypes
    <3>3. mem'.token <= minted' /\ prev'.token <= minted'
      BY <2>1, <2>2, <3>1
    <3> QED
      BY <1>1, <2>1, <2>2, <3>1, <3>2, <3>3 DEF StoreTypes
  <2>4. MemoryFollowsFile' /\ UpdateInHand'
    BY <1>1, <1>2, <1>4, <2>1, <2>2, ClientsAssumption
       DEF MemoryFollowsFile, UpdateInHand, Agree
  <2>5. WriterAtWork' /\ AppliedIsAnswered'
    BY <1>1, <2>1, ClientsAssumption DEF WriterAtWork, AppliedIsAnswered, StoreTypes
  <2> QED
    BY <1>0, <1>1, <2>3, <2>4, <2>5 DEF RetiredIsOlder
<1> QED
  BY <1>3, <1>4

\* A client's update, from memory that agrees with the file.
LEMMA UpdateKeeps ==
  ASSUME StoreInv, NEW c \in Clients, Update(c)
  PROVE  StoreInv'
<1> USE DEF StoreInv
<1>0. FilesWhole'
  BY NextKeepsWhole DEF Next
<1>1. /\ up = "up" /\ holder = "none" /\ tmp = NoTmp /\ result[c] = "idle"
      /\ holder' = c /\ stage' = 1 /\ prev' = mem
      /\ UNCHANGED <<up, tmp, leaked, file, older, op, result, applied, retired,
                     crashes, faults>>
  BY DEF Update, Lock, WriterAtWork
<1>2. Agree(mem, file) /\ mem.token # 0
  BY <1>1 DEF MemoryFollowsFile, UpdateInHand
<1>3. /\ mem' \in States /\ mem'.version = 1 /\ mem'.settings = "filled"
      /\ minted' \in Nat /\ minted <= minted' /\ mem'.token <= minted' /\ mem'.token # 0
      /\ \/ /\ op[c] = "append"
            /\ mem'.rows = Append(mem.rows, c) /\ mem'.token = mem.token
         \/ /\ op[c] = "rotate"
            /\ mem'.rows = mem.rows /\ mem'.token = minted' /\ mem.token < minted'
  <2>1. CASE op[c] = "append"
    <3>1. mem' = [mem EXCEPT !.rows = Append(@, c)] /\ minted' = minted
      BY <2>1 DEF Update
    <3>2. Append(mem.rows, c) \in Seq(Clients)
      BY DEF StoreTypes, States
    <3>3. mem' \in States /\ mem'.rows = Append(mem.rows, c)
          /\ mem'.token = mem.token /\ mem'.version = mem.version
          /\ mem'.settings = mem.settings
      BY <3>1, <3>2 DEF StoreTypes, States
    <3>4. minted \in Nat /\ mem.token \in Nat /\ mem.token <= minted
      BY DEF StoreTypes, States
    <3>5. mem.version = 1 /\ mem.settings = "filled"
      BY DEF StoreTypes
    <3> QED
      BY <2>1, <3>1, <3>3, <3>4, <3>5, <1>2
  <2>2. CASE op[c] = "rotate"
    <3>1. minted' = minted + 1 /\ mem' = [mem EXCEPT !.token = minted']
      BY <2>2 DEF Update
    <3>2. minted \in Nat /\ mem.token \in Nat /\ mem.token <= minted
      BY DEF StoreTypes, States
    <3>3. mem' \in States /\ mem'.version = 1 /\ mem'.settings = "filled"
          /\ mem'.rows = mem.rows /\ mem'.token = minted'
      BY <3>1, <3>2 DEF StoreTypes, States
    <3> QED
      BY <2>2, <3>1, <3>2, <3>3
  <2> QED
    BY <2>1, <2>2 DEF Update, StoreTypes
<1>4. StoreTypes'
  <2>1. minted \in Nat /\ mem.token \in Nat /\ mem.token <= minted /\ minted # 0
    BY DEF StoreTypes, States
  <2>2. IsFile(file', minted') /\ \A o \in older' : IsFile(o.file, minted')
    BY <1>1, <1>3, <2>1, FilesStay DEF StoreTypes
  <2>3. minted' \in Nat \ {0} /\ mem'.token <= minted' /\ prev'.token <= minted'
    BY <1>1, <1>3, <2>1
  <2> QED
    BY <1>1, <1>3, <2>2, <2>3 DEF StoreTypes
<1>5. WriterAtWork'
  BY <1>1, ClientsAssumption DEF WriterAtWork
<1>6. MemoryFollowsFile'
  BY <1>1, <1>2, ClientsAssumption DEF MemoryFollowsFile, Agree
<1>7. UpdateInHand'
  BY <1>1, <1>2, <1>3, ClientsAssumption DEF UpdateInHand
<1>8. AppliedIsAnswered'
  BY <1>1, ClientsAssumption DEF AppliedIsAnswered, StoreTypes
<1> QED
  BY <1>0, <1>1, <1>4, <1>5, <1>6, <1>7, <1>8 DEF RetiredIsOlder

\* One file operation: only the rename changes what a reader of the file sees.
LEMMA PersistStepKeeps == StoreInv /\ PersistStep => StoreInv'
<1> SUFFICES ASSUME StoreInv, PersistStep PROVE StoreInv'
  OBVIOUS
<1> USE DEF StoreInv
<1>0. FilesWhole'
  BY PersistStepKeepsWhole
<1>1. /\ holder # "none" /\ stage \in 1 .. 6 /\ stage' = stage + 1
      /\ UNCHANGED <<up, mem, prev, holder, leaked, op, result, minted, retired,
                     crashes, faults>>
  BY StagesInOrder DEF PersistStep, Persisting, Advance, FilesWhole, TmpFollowsStages
<1>2. CASE stage \in 1 .. 5
  <2>1. UNCHANGED <<file, older, applied>>
    <3>1. CASE stage = 1
      BY <3>1, StagesInOrder DEF PersistStep
    <3>2. CASE stage = 2
      BY <3>2, StagesInOrder DEF PersistStep
    <3>3. CASE stage = 3
      BY <3>3, StagesInOrder DEF PersistStep
    <3>4. CASE stage \in {4, 5}
      BY <3>4, StagesInOrder DEF PersistStep
    <3> QED
      BY <1>2, <3>1, <3>2, <3>3, <3>4
  <2>2. /\ tmp'.kind \in {"absent", "partial", "json"}
        /\ stage' \in 3 .. 6 => tmp'.kind = "json" /\ tmp'.st = mem
    <3>1. CASE stage = 1
      <4>1. tmp' = [kind |-> "partial"]
        BY <3>1, StagesInOrder DEF PersistStep
      <4> QED
        BY <4>1, <3>1, <1>1
    <3>2. CASE stage = 2
      <4>1. tmp' = Json(mem, FALSE)
        BY <3>2, StagesInOrder DEF PersistStep
      <4> QED
        BY <4>1 DEF Json
    <3>3. CASE stage = 3
      <4>1. tmp' = Json(tmp.st, TRUE)
        BY <3>3, StagesInOrder DEF PersistStep
      <4>2. tmp.st = mem
        BY <1>1, <3>3 DEF WriterAtWork
      <4> QED
        BY <4>1, <4>2 DEF Json
    <3>4. CASE stage \in {4, 5}
      <4>1. tmp' = tmp
        BY <3>4, StagesInOrder DEF PersistStep
      <4> QED
        BY <1>1, <3>4, <4>1 DEF WriterAtWork, StoreTypes
    <3> QED
      BY <1>2, <3>1, <3>2, <3>3, <3>4
  <2>3. StoreTypes'
    BY <1>1, <2>1, <2>2 DEF StoreTypes
  <2>4. WriterAtWork'
    BY <1>1, <1>2, <2>2 DEF WriterAtWork
  <2>5. MemoryFollowsFile'
    BY <1>1, <1>2, <2>1 DEF MemoryFollowsFile, Agree
  <2>6. UpdateInHand' /\ RetiredIsOlder' /\ AppliedIsAnswered'
    BY <1>1, <1>2, <2>1 DEF UpdateInHand, RetiredIsOlder, AppliedIsAnswered
  <2> QED
    BY <1>0, <2>3, <2>4, <2>5, <2>6
<1>3. CASE stage = 6
  <2>1. /\ file' = tmp /\ tmp' = NoTmp /\ stage' = 7
        /\ older' = older \cup {[file |-> file, applied |-> applied]}
        /\ applied' = IF holder = "boot" THEN applied ELSE applied \cup {holder}
    BY <1>1, <1>3, StagesInOrder DEF PersistStep
  <2>2. file'.kind = "json" /\ file'.st = mem
    BY <1>1, <1>3, <2>1 DEF WriterAtWork
  <2>3. holder \in Clients \/ holder = "boot"
    BY <1>1 DEF StoreTypes
  <2>4. StoreTypes'
    <3>1. IsFile(file', minted')
      BY <1>1, <2>2 DEF StoreTypes, IsFile
    <3>2. \A o \in older' : IsFile(o.file, minted') /\ o.applied \subseteq applied'
      BY <1>1, <2>1 DEF StoreTypes
    <3>3. applied' \subseteq Clients
      BY <2>1, <2>3 DEF StoreTypes
    <3>4. tmp'.kind = "absent"
      BY <2>1 DEF NoTmp
    <3> QED
      BY <1>1, <2>1, <3>1, <3>2, <3>3, <3>4 DEF StoreTypes
  <2>5. WriterAtWork'
    BY <1>1, <2>1 DEF WriterAtWork
  <2>6. MemoryFollowsFile'
    BY <1>1, <2>1, <2>2 DEF MemoryFollowsFile, Agree
  <2>7. UpdateInHand'
    BY <1>1 DEF UpdateInHand
  <2>8. RetiredIsOlder'
    <3>1. ASSUME NEW t \in retired PROVE t < mem.token
      <4>1. file.kind = "json" /\ t < file.st.token /\ t \in Nat
        BY DEF RetiredIsOlder
      <4>2. file.st.token \in Nat /\ mem.token \in Nat /\ prev.token \in Nat
            /\ minted \in Nat
        BY <4>1 DEF StoreTypes, IsFile, States
      <4>3. CASE up = "load"
        <5>1. mem.token = file.st.token
          BY <1>3, <4>1, <4>3 DEF MemoryFollowsFile, ContentOf
        <5> QED
          BY <4>1, <5>1
      <4>4. CASE up # "load"
        <5>1. up \in {"token", "up"}
          BY <1>1, <4>4 DEF WriterAtWork, StoreTypes
        <5>2. prev.token = file.st.token
          BY <1>1, <1>3, <5>1 DEF MemoryFollowsFile, Agree
        <5>3. prev.token <= mem.token
          BY <2>3, <4>2, <5>1, ClientsAssumption DEF UpdateInHand, WriterAtWork
        <5> QED
          BY <4>1, <4>2, <5>2, <5>3
      <4> QED
        BY <4>3, <4>4
    <3> QED
      BY <1>1, <2>2, <3>1 DEF RetiredIsOlder
  <2>9. AppliedIsAnswered'
    BY <1>1, <1>3, <2>1, <2>3, ClientsAssumption DEF AppliedIsAnswered
  <2> QED
    BY <1>0, <2>4, <2>5, <2>6, <2>7, <2>8, <2>9
<1> QED
  BY <1>1, <1>2, <1>3

\* A failing operation takes memory back to the copy; at boot main exits.
LEMMA PersistFailsKeeps == StoreInv /\ PersistFails => StoreInv'
<1> SUFFICES ASSUME StoreInv, PersistFails PROVE StoreInv'
  OBVIOUS
<1> USE DEF StoreInv
<1>0. FilesWhole'
  BY NextKeepsWhole DEF Next
<1>1. /\ holder # "none" /\ stage \in 1 .. 6
      /\ faults \in Nat /\ faults < MaxFaults /\ faults' = faults + 1
      /\ tmp' = NoTmp /\ holder' = "none" /\ mem' = prev
      /\ UNCHANGED <<prev, stage, leaked, file, older, op, applied, minted, retired,
                     crashes>>
  BY StagesInOrder DEF PersistFails, Persisting, RemoveTmp, RollBack, StoreTypes
<1>2. \/ holder = "boot" /\ up' = "down" /\ result' = result
      \/ /\ holder \in Clients /\ up' = up /\ up = "up"
         /\ result' = [result EXCEPT ![holder] = "error"]
  BY <1>1, ClientsAssumption DEF PersistFails, StoreTypes, WriterAtWork
<1>3. tmp'.kind = "absent"
  BY <1>1 DEF NoTmp
<1>4. StoreTypes'
  <2>1. faults' \in 0 .. MaxFaults
    BY <1>1, StateFileBounds
  <2> QED
    BY <1>1, <1>2, <1>3, <2>1 DEF StoreTypes
<1>5. WriterAtWork'
  BY <1>1, <1>2, ClientsAssumption DEF WriterAtWork
<1>6. MemoryFollowsFile'
  BY <1>1, <1>2 DEF MemoryFollowsFile, Agree
<1>7. UpdateInHand'
  BY <1>1, <1>2, ClientsAssumption DEF UpdateInHand
<1>8. RetiredIsOlder'
  BY <1>1 DEF RetiredIsOlder
<1>9. AppliedIsAnswered'
  <2>1. ASSUME NEW c \in applied PROVE result[c] # "idle" /\ result'[c] # "idle"
    BY <1>1, <1>2 DEF AppliedIsAnswered, StoreTypes
  <2> QED
    BY <1>1, <2>1, ClientsAssumption DEF AppliedIsAnswered
<1> QED
  BY <1>0, <1>4, <1>5, <1>6, <1>7, <1>8, <1>9

\* The caller is answered; a rotation retires the token it replaced.
LEMMA PersistReturnsKeeps == StoreInv /\ PersistReturns => StoreInv'
<1> SUFFICES ASSUME StoreInv, PersistReturns PROVE StoreInv'
  OBVIOUS
<1> USE DEF StoreInv
<1>0. FilesWhole'
  BY NextKeepsWhole DEF Next
<1>1. /\ holder # "none" /\ stage = 7 /\ holder' = "none"
      /\ UNCHANGED <<mem, prev, stage, tmp, leaked, file, older, op, applied, minted,
                     crashes, faults>>
  <2>1. stage \in 1 .. 7
    BY DEF StoreTypes
  <2> QED
    BY <2>1, StagesInOrder DEF PersistReturns
<1>2. Agree(mem, file) /\ tmp = NoTmp
  BY <1>1 DEF MemoryFollowsFile, WriterAtWork
<1>3. \/ /\ holder = "boot" /\ up' = (IF up = "load" THEN "token" ELSE "up")
         /\ result' = result /\ retired' = retired
      \/ /\ holder \in Clients /\ up' = up /\ up = "up"
         /\ result' = [result EXCEPT ![holder] = "ok"]
         /\ retired' = IF op[holder] = "rotate" THEN retired \cup {prev.token} ELSE retired
  BY <1>1, ClientsAssumption DEF PersistReturns, StoreTypes, WriterAtWork
<1>4. StoreTypes'
  BY <1>1, <1>3 DEF StoreTypes
<1>5. WriterAtWork'
  BY <1>1, <1>2, <1>3, ClientsAssumption DEF WriterAtWork
<1>6. MemoryFollowsFile'
  BY <1>1, <1>2, <1>3 DEF MemoryFollowsFile, Agree
<1>7. UpdateInHand'
  <2>1. minted \in Nat \ {0} /\ up \in {"load", "token", "up"}
    BY <1>3 DEF StoreTypes, WriterAtWork
  <2> QED
    BY <1>1, <1>3, <2>1, ClientsAssumption DEF UpdateInHand, WriterAtWork
<1>8. RetiredIsOlder'
  <2>1. CASE retired' = retired
    BY <1>1, <2>1 DEF RetiredIsOlder
  <2>2. CASE retired' # retired
    <3>1. /\ retired' = retired \cup {prev.token}
          /\ prev.token < minted /\ mem.token = minted
      BY <1>3, <2>2 DEF UpdateInHand
    <3>2. prev.token \in Nat
      BY DEF StoreTypes, States
    <3> QED
      BY <1>1, <1>2, <3>1, <3>2 DEF RetiredIsOlder, Agree
  <2> QED
    BY <2>1, <2>2
<1>9. AppliedIsAnswered'
  <2>1. ASSUME NEW c \in applied PROVE result'[c] # "idle"
    BY <1>1, <1>3, ClientsAssumption DEF AppliedIsAnswered, StoreTypes
  <2> QED
    BY <1>1, <2>1, ClientsAssumption DEF AppliedIsAnswered
<1> QED
  BY <1>0, <1>4, <1>5, <1>6, <1>7, <1>8, <1>9

\* The end of a process takes memory with it, and may leave a temporary file.
LEMMA DiedKeeps ==
  ASSUME StoreInv, Died
  PROVE  /\ up' = "down" /\ holder' = "none" /\ tmp' = NoTmp
         /\ leaked' \in Nat /\ leaked' <= crashes' /\ crashes' \in 0 .. MaxCrashes
         /\ result' \in [Clients -> {"idle", "ok", "error", "lost"}]
         /\ \A c \in applied : result'[c] # "idle"
<1> USE DEF StoreInv
<1>1. leaked' \in Nat /\ leaked' <= crashes' /\ crashes' \in 0 .. MaxCrashes
  BY StateFileBounds DEF Died, StoreTypes, WriterAtWork
<1>2. result' = result \/ (holder \in Clients /\ result' = [result EXCEPT ![holder] = "lost"])
  BY DEF Died
<1>3. result' \in [Clients -> {"idle", "ok", "error", "lost"}]
  BY <1>2 DEF StoreTypes
<1>4. ASSUME NEW c \in applied PROVE result'[c] # "idle"
  <2>1. c \in Clients
    BY DEF StoreTypes
  <2>2. CASE holder = c
    BY <2>1, <2>2 DEF Died, StoreTypes
  <2>3. CASE holder # c
    BY <1>2, <2>1, <2>3 DEF AppliedIsAnswered, StoreTypes
  <2> QED
    BY <2>2, <2>3
<1> QED
  BY <1>1, <1>3, <1>4 DEF Died

LEMMA DeathKeeps == StoreInv /\ (ProcessDies \/ PowerFails) => StoreInv'
<1> SUFFICES ASSUME StoreInv, ProcessDies \/ PowerFails PROVE StoreInv'
  OBVIOUS
<1>0. FilesWhole'
  BY NextKeepsWhole DEF Next, StoreInv
<1>1. Died /\ UNCHANGED <<mem, prev, stage, op, minted, faults>>
  BY DEF ProcessDies, PowerFails, Died
<1>2. /\ up' = "down" /\ holder' = "none" /\ tmp' = NoTmp
      /\ leaked' \in Nat /\ leaked' <= crashes' /\ crashes' \in 0 .. MaxCrashes
      /\ result' \in [Clients -> {"idle", "ok", "error", "lost"}]
      /\ \A c \in applied : result'[c] # "idle"
  BY <1>1, DiedKeeps
<1>3. /\ IsFile(file', minted') /\ applied' \subseteq applied
      /\ \A o \in older' : IsFile(o.file, minted') /\ o.applied \subseteq applied'
      /\ RetiredIsOlder'
  <2>1. CASE ProcessDies
    BY <1>1, <2>1 DEF ProcessDies, StoreInv, StoreTypes, RetiredIsOlder
  <2>2. CASE PowerFails
    <3>1. PICK was \in older \cup {[file |-> file, applied |-> applied]} :
            /\ file' = IF was.file.kind = "json" /\ ~was.file.synced THEN Torn ELSE was.file
            /\ applied' = was.applied
      BY <2>2 DEF PowerFails
    <3>2. IsFile(was.file, minted) /\ was.applied \subseteq applied
      BY DEF StoreInv, StoreTypes
    <3>3. IsFile(Torn, minted)
      BY DEF Torn, IsFile
    <3>4. older' = {} /\ retired' = {}
      BY <2>2 DEF PowerFails
    <3> QED
      BY <1>1, <3>1, <3>2, <3>3, <3>4 DEF RetiredIsOlder
  <2> QED
    BY <2>1, <2>2
<1>4. StoreTypes'
  <2>1. tmp'.kind = "absent"
    BY <1>2 DEF NoTmp
  <2> QED
    BY <1>1, <1>2, <1>3, <2>1 DEF StoreInv, StoreTypes
<1>5. WriterAtWork' /\ MemoryFollowsFile' /\ UpdateInHand' /\ AppliedIsAnswered'
  BY <1>2, <1>3, ClientsAssumption
     DEF WriterAtWork, MemoryFollowsFile, UpdateInHand, AppliedIsAnswered
<1> QED
  BY <1>0, <1>3, <1>4, <1>5 DEF StoreInv

LEMMA RejectedKeeps ==
  ASSUME StoreInv, NEW c \in Clients, UpdateRejected(c)
  PROVE  StoreInv'
<1> USE DEF StoreInv
<1>0. FilesWhole'
  BY NextKeepsWhole DEF Next
<1>1. /\ holder = "none" /\ result' = [result EXCEPT ![c] = "error"]
      /\ UNCHANGED <<up, mem, prev, holder, stage, tmp, leaked, file, older, op,
                     applied, minted, retired, crashes, faults>>
  BY DEF UpdateRejected
<1>2. StoreTypes'
  BY <1>1 DEF StoreTypes
<1>3. WriterAtWork' /\ MemoryFollowsFile' /\ RetiredIsOlder'
  BY <1>1 DEF WriterAtWork, MemoryFollowsFile, RetiredIsOlder, Agree, ContentOf
<1>4. UpdateInHand' /\ AppliedIsAnswered'
  BY <1>1, ClientsAssumption DEF UpdateInHand, AppliedIsAnswered, StoreTypes
<1> QED
  BY <1>0, <1>2, <1>3, <1>4

LEMMA NextKeepsConsistent == StoreInv /\ [Next]_vars => StoreInv'
<1> SUFFICES ASSUME StoreInv, [Next]_vars PROVE StoreInv'
  OBVIOUS
<1>1. CASE UNCHANGED vars
  BY <1>1 DEF vars, StoreInv, FilesWhole, Whole, TmpFollowsStages, StoreTypes, IsFile,
     WriterAtWork, MemoryFollowsFile, UpdateInHand, RetiredIsOlder, AppliedIsAnswered,
     Agree, ContentOf, Json
<1> QED
  BY <1>1, BootKeeps, EnsureKeeps, PersistStepKeeps, PersistFailsKeeps,
     PersistReturnsKeeps, UpdateKeeps, RejectedKeeps, DeathKeeps DEF Next

\* The inductive invariant, whatever fails and whatever dies.
LEMMA StoreInvHolds == Spec => []StoreInv
BY InitIsConsistent, NextKeepsConsistent, PTL DEF Spec

\* A running server has its settings and its token, and an update in hand
\* belongs to the client that holds the lock (store.go:38-68, token.go:28-42).
THEOREM StoreTyped == Spec => []TypeOK
<1>1. StoreInv => TypeOK
  <2> SUFFICES ASSUME StoreInv PROVE TypeOK
    OBVIOUS
  <2>1. Len(Stages) = 7
    BY DEF Stages
  <2> QED
    BY <2>1 DEF StoreInv, StoreTypes, IsFile, UpdateInHand, TypeOK
<1> QED
  BY <1>1, StoreInvHolds, PTL

\* What a reader is given under the read lock is what a restart would load:
\* a write that failed half way is rolled back in memory before the lock is
\* let go (store.go:136-152).
THEOREM ReadersAgreeWithTheFile == Spec => []ReadersSeeTheFile
<1>1. StoreInv => ReadersSeeTheFile
  <2> SUFFICES ASSUME StoreInv, up = "up", holder = "none"
               PROVE  /\ file.kind = "json"
                      /\ [mem EXCEPT !.version = 0] = [file.st EXCEPT !.version = 0]
    BY DEF ReadersSeeTheFile
  <2>1. Agree(mem, file)
    BY DEF StoreInv, MemoryFollowsFile
  <2>2. mem \in States /\ file.st \in States
    BY <2>1 DEF StoreInv, StoreTypes, IsFile, Agree
  <2> QED
    BY <2>1, <2>2 DEF Agree, States
<1> QED
  BY <1>1, StoreInvHolds, PTL

\* Only a death leaves a temporary file behind: every way out of a write
\* removes it or renames it (store.go:96-120).
THEOREM NothingIsLeftBehind == Spec => []NoLitter
<1>1. StoreInv => NoLitter
  BY DEF StoreInv, WriterAtWork, NoLitter
<1> QED
  BY <1>1, StoreInvHolds, PTL

\* Once a rotation was answered, the token it replaced is not accepted again,
\* whatever fails and however often the process dies, while the power holds
\* (token.go:44-66).
THEOREM RetiredTokensStayRetired == Spec => []RetiredTokenRejected
<1>1. StoreInv => RetiredTokenRejected
  <2> SUFFICES ASSUME StoreInv, up = "up", holder = "none" PROVE mem.token \notin retired
    BY DEF RetiredTokenRejected
  <2>1. mem.token = file.st.token /\ mem.token \in Nat
    BY DEF StoreInv, MemoryFollowsFile, Agree, StoreTypes, States
  <2> QED
    BY <2>1 DEF StoreInv, RetiredIsOlder
<1> QED
  BY <1>1, StoreInvHolds, PTL
-----------------------------------------------------------------------------
(* The refinement: only a rename and a power failure touch the register.   *)

\* What the register holds, from what memory holds when they agree.
LEMMA AgreedContent ==
  ASSUME NEW st, NEW f, Agree(st, f)
  PROVE  ContentOf(f) = [rows |-> st.rows, token |-> st.token]
  BY DEF Agree, ContentOf

\* What a renamed file leaves behind is one more thing the register was.
LEMMA PastGrows ==
  ASSUME NEW S, NEW f, NEW a
  PROVE  {[content |-> ContentOf(o.file), applied |-> o.applied] :
            o \in S \cup {[file |-> f, applied |-> a]}}
           = {[content |-> ContentOf(o.file), applied |-> o.applied] : o \in S}
               \cup {[content |-> ContentOf(f), applied |-> a]}
<1> DEFINE Was(o) == [content |-> ContentOf(o.file), applied |-> o.applied]
           new    == [file |-> f, applied |-> a]
<1>1. Was(new) = [content |-> ContentOf(f), applied |-> a]
  OBVIOUS
<1>2. {Was(o) : o \in S \cup {new}} = {Was(o) : o \in S} \cup {Was(new)}
  <2> HIDE DEF Was, new
  <2> QED
    OBVIOUS
<1> QED
  BY <1>1, <1>2

\* The rename applies one client's update, mints the first token, or writes
\* back what load filled in.
LEMMA RenameRefines ==
  ASSUME StoreInv, StoreInv', PersistStep, stage = 6
  PROVE  Register!Next
<1> DEFINE Past == {[content |-> ContentOf(o.file), applied |-> o.applied] : o \in older}
           Present == [content |-> ContentOf(file), applied |-> applied]
<1> USE DEF StoreInv
<1>1. /\ holder # "none" /\ holder' = holder /\ stage' = 7 /\ up' = up
      /\ mem' = mem /\ prev' = prev /\ result' = result
      /\ older' = older \cup {[file |-> file, applied |-> applied]}
      /\ applied' = IF holder = "boot" THEN applied ELSE applied \cup {holder}
  BY StagesInOrder DEF PersistStep, Persisting, Advance
<1>2. Past' = Past \cup {Present}
  BY <1>1, PastGrows DEF ContentOf
<1>3. ContentOf(file)' = [rows |-> mem.rows, token |-> mem.token]
  <2>1. up # "down"
    BY <1>1 DEF WriterAtWork
  <2>2. Agree(mem', file')
    BY <1>1, <2>1 DEF MemoryFollowsFile
  <2> QED
    BY <1>1, <2>2 DEF Agree, ContentOf
<1>4. CASE up = "load"
  <2>1. holder = "boot"
    BY <1>4 DEF WriterAtWork
  <2>2. ContentOf(file).rows = mem.rows /\ ContentOf(file).token = mem.token
    BY <1>4 DEF MemoryFollowsFile
  <2>3. ContentOf(file)' = ContentOf(file)
    BY <1>3, <2>2 DEF ContentOf
  <2>4. Register!Rewrite
    BY <1>1, <1>2, <2>1, <2>3 DEF Register!Rewrite, Register!Present
  <2> QED
    BY <2>4 DEF Register!Next
<1>5. ASSUME up # "load"
      PROVE  ContentOf(file) = [rows |-> prev.rows, token |-> prev.token]
  <2>1. up \in {"token", "up"}
    BY <1>1, <1>5 DEF WriterAtWork, StoreTypes
  <2>2. Agree(prev, file)
    BY <1>1, <2>1 DEF MemoryFollowsFile
  <2> QED
    BY <2>2, AgreedContent
<1>6. CASE up = "token"
  <2>1. holder = "boot"
    BY <1>1, <1>6 DEF WriterAtWork, StoreTypes
  <2>2. mem.rows = prev.rows /\ prev.token = 0 /\ mem.token > 0
    BY <1>6, <2>1 DEF UpdateInHand, StoreTypes
  <2>3. Register!Mint
    BY <1>1, <1>2, <1>3, <1>5, <1>6, <2>1, <2>2 DEF Register!Mint, Register!Present
  <2> QED
    BY <2>3 DEF Register!Next
<1>7. CASE up = "up"
  <2>1. holder \in Clients /\ holder # "boot"
    BY <1>1, <1>7, ClientsAssumption DEF WriterAtWork, StoreTypes
  <2>2. result[holder] = "idle" /\ holder \notin applied
    BY <2>1 DEF UpdateInHand, AppliedIsAnswered
  <2>3. \/ mem.rows = Append(prev.rows, holder) /\ mem.token = prev.token
        \/ mem.rows = prev.rows /\ mem.token > prev.token
    BY <2>1 DEF UpdateInHand, StoreTypes, States
  <2>4. PICK c \in Clients : c = holder
    BY <2>1
  <2>5. result[c] = "idle" /\ c \notin applied /\ applied' = applied \cup {c}
    BY <1>1, <2>1, <2>2, <2>4
  <2>6. \/ ContentOf(file)' = [ContentOf(file) EXCEPT !.rows = Append(@, c)]
        \/ /\ ContentOf(file)' = [ContentOf(file) EXCEPT !.token = (ContentOf(file)').token]
           /\ (ContentOf(file)').token > ContentOf(file).token
    <3>1. ContentOf(file) = [rows |-> prev.rows, token |-> prev.token]
      BY <1>5, <1>7
    <3>2. CASE mem.rows = Append(prev.rows, holder) /\ mem.token = prev.token
      <4>1. ContentOf(file)' = [rows |-> Append(prev.rows, c), token |-> prev.token]
        BY <1>3, <2>4, <3>2
      <4>2. \A x : [ContentOf(file) EXCEPT !.rows = x] = [rows |-> x, token |-> prev.token]
        BY <3>1
      <4>3. ContentOf(file).rows = prev.rows
        BY <3>1
      <4> HIDE DEF StoreInv
      <4> QED
        BY <4>1, <4>2, <4>3, Zenon
    <3>3. CASE mem.rows = prev.rows /\ mem.token > prev.token
      BY <1>3, <3>1, <3>3
    <3> QED
      BY <2>3, <3>2, <3>3
  <2>7. Register!Apply(c)
    BY <1>1, <1>2, <2>5, <2>6 DEF Register!Apply, Register!Present
  <2> QED
    BY <2>7 DEF Register!Next
<1> QED
  BY <1>1, <1>4, <1>6, <1>7 DEF WriterAtWork, StoreTypes

\* Steps that leave the directory alone answer one client or are not seen.
LEMMA AnswerRefines ==
  ASSUME StoreInv, [Next]_vars, UNCHANGED <<file, older, applied>>,
         ~PowerFails
  PROVE  [Register!Next]_(Register!vars)
<1> USE DEF StoreInv
<1>1. ASSUME NEW c \in Clients, NEW how \in {"ok", "error", "lost"},
             result[c] = "idle", result' = [result EXCEPT ![c] = how],
             how = "ok" => c \in applied, how = "error" => c \notin applied
      PROVE  Register!Next
  <2>1. Register!Answer(c, how)
    BY <1>1 DEF Register!Answer, Register!Told
  <2> QED
    BY <2>1 DEF Register!Next
<1>2. CASE result' = result
  BY <1>2 DEF Register!vars
<1>3. CASE PersistFails
  <2>1. CASE holder = "boot"
    BY <1>2, <1>3, <2>1 DEF PersistFails
  <2>2. CASE holder # "boot"
    <3>1. holder \in Clients /\ stage # 7 /\ result' = [result EXCEPT ![holder] = "error"]
      BY <1>3, <2>2, StagesInOrder DEF PersistFails, Persisting, StoreTypes
    <3>2. result[holder] = "idle" /\ holder \notin applied
      BY <3>1 DEF UpdateInHand, AppliedIsAnswered
    <3> QED
      BY <1>1, <3>1, <3>2
  <2> QED
    BY <2>1, <2>2
<1>4. CASE PersistReturns
  <2>1. CASE holder = "boot"
    BY <1>2, <1>4, <2>1 DEF PersistReturns
  <2>2. CASE holder # "boot"
    <3>1. stage \in 1 .. 7
      BY DEF StoreTypes
    <3>2. holder \in Clients /\ stage = 7 /\ result' = [result EXCEPT ![holder] = "ok"]
      BY <1>4, <2>2, <3>1, StagesInOrder DEF PersistReturns, StoreTypes
    <3>3. result[holder] = "idle" /\ holder \in applied
      BY <3>2 DEF UpdateInHand, AppliedIsAnswered
    <3> QED
      BY <1>1, <3>2, <3>3
  <2> QED
    BY <2>1, <2>2
<1>5. CASE ProcessDies
  <2>1. CASE holder \in Clients
    <3>1. result' = [result EXCEPT ![holder] = "lost"] /\ result[holder] = "idle"
      BY <1>5, <2>1 DEF ProcessDies, Died, UpdateInHand
    <3> QED
      BY <1>1, <2>1, <3>1
  <2>2. CASE holder \notin Clients
    BY <1>2, <1>5, <2>2 DEF ProcessDies, Died
  <2> QED
    BY <2>1, <2>2
<1>6. ASSUME NEW c \in Clients, UpdateRejected(c) PROVE Register!Next
  <2>1. /\ result[c] = "idle" /\ holder = "none"
        /\ result' = [result EXCEPT ![c] = "error"]
    BY <1>6 DEF UpdateRejected
  <2>2. c \notin applied
    BY <2>1, ClientsAssumption DEF AppliedIsAnswered
  <2> QED
    BY <1>1, <2>1, <2>2
<1>7. CASE Boot \/ EnsureProxyToken \/ PersistStep
  BY <1>2, <1>7 DEF Boot, Running, EnsureProxyToken, PersistStep
<1>8. ASSUME NEW c \in Clients, Update(c) PROVE result' = result
  BY <1>8 DEF Update
<1>9. CASE UNCHANGED vars
  BY <1>2, <1>9 DEF vars
<1> QED
  BY <1>2, <1>3, <1>4, <1>5, <1>6, <1>7, <1>8, <1>9 DEF Next

\* The machine comes back with a whole file it has had since the last time.
LEMMA PowerFailsRefines ==
  ASSUME StoreInv, PowerFails
  PROVE  Register!Next
<1> USE DEF StoreInv
<1>1. PICK was \in older \cup {[file |-> file, applied |-> applied]} :
        /\ file' = IF was.file.kind = "json" /\ ~was.file.synced THEN Torn ELSE was.file
        /\ applied' = was.applied
  BY DEF PowerFails
<1>2. file' = was.file
  <2>1. Whole(was.file)
    BY DEF FilesWhole
  <2> QED
    BY <1>1, <2>1 DEF Whole
<1>3. older' = {}
  BY DEF PowerFails
<1>4. \/ result' = result
      \/ \E c \in Clients : result[c] = "idle" /\ result' = [result EXCEPT ![c] = "lost"]
  BY DEF PowerFails, Died, UpdateInHand
<1>5. [content |-> ContentOf(was.file), applied |-> was.applied]
        \in {[content |-> ContentOf(o.file), applied |-> o.applied] : o \in older}
              \cup {[content |-> ContentOf(file), applied |-> applied]}
  OBVIOUS
<1>6. Register!PowerFails
  <2>1. UNCHANGED result \/ \E c \in Clients : Register!Told(c, "lost")
    BY <1>4 DEF Register!Told
  <2>2. \E w \in {[content |-> ContentOf(o.file), applied |-> o.applied] : o \in older}
                   \cup {[content |-> ContentOf(file), applied |-> applied]} :
          ContentOf(file)' = w.content /\ applied' = w.applied
    <3>1. ContentOf(file)' = ContentOf(was.file)
      BY <1>2 DEF ContentOf
    <3> QED
      BY <1>1, <1>5, <3>1
  <2> QED
    BY <1>3, <2>1, <2>2 DEF Register!PowerFails, Register!Present
<1> QED
  BY <1>6 DEF Register!Next

LEMMA InitRefines == Init => Register!Init
<1> SUFFICES ASSUME Init PROVE Register!Init
  OBVIOUS
<1>1. ContentOf(file) \in [rows : {<<>>}, token : Nat]
  <2>1. CASE file.kind = "json"
    <3>1. file.st.rows = <<>> /\ file.st.token \in Nat
      BY <2>1, InitFilesAssumption DEF Init
    <3> QED
      BY <2>1, <3>1 DEF ContentOf
  <2>2. CASE file.kind # "json"
    BY <2>2 DEF ContentOf
  <2> QED
    BY <2>1, <2>2
<1> QED
  BY <1>1 DEF Init, Register!Init

\* The store keeps the register's promise for any clients, any file at the
\* start and any failures, deaths of the process and of the machine
\* (store.go:87-123, 136-152).
THEOREM StoreImplementsRegister == Spec => ImplementsRegister
<1>1. StoreInv /\ StoreInv' /\ [Next]_vars => [Register!Next]_(Register!vars)
  <2> SUFFICES ASSUME StoreInv, StoreInv', [Next]_vars
               PROVE  [Register!Next]_(Register!vars)
    OBVIOUS
  <2>1. CASE PowerFails
    BY <2>1, PowerFailsRefines
  <2>2. CASE PersistStep /\ stage = 6
    BY <2>2, RenameRefines
  <2>3. ASSUME PersistStep, stage # 6 PROVE UNCHANGED <<file, older, applied>>
    <3>1. stage \in 1 .. 5
      BY <2>3, StagesInOrder DEF PersistStep, Persisting, StoreInv, StoreTypes
    <3>2. CASE stage = 1
      BY <2>3, <3>2, StagesInOrder DEF PersistStep
    <3>3. CASE stage = 2
      BY <2>3, <3>3, StagesInOrder DEF PersistStep
    <3>4. CASE stage = 3
      BY <2>3, <3>4, StagesInOrder DEF PersistStep
    <3>5. CASE stage \in {4, 5}
      BY <2>3, <3>5, StagesInOrder DEF PersistStep
    <3> QED
      BY <3>1, <3>2, <3>3, <3>4, <3>5
  <2>4. ASSUME ~PowerFails, ~PersistStep PROVE UNCHANGED <<file, older, applied>>
    BY <2>4 DEF Next, vars, Boot, Running, EnsureProxyToken, PersistFails, PersistReturns,
       Update, UpdateRejected, ProcessDies
  <2> QED
    BY <2>1, <2>2, <2>3, <2>4, AnswerRefines
<1> QED
  BY InitRefines, InitIsConsistent, NextKeepsConsistent, <1>1, PTL
     DEF Spec, ImplementsRegister, Register!Spec
-----------------------------------------------------------------------------
(* The traffic log.                                                        *)

Row == [request : Requests \cup {"earlier"}, ts : Nat]

\* A row of this process is in: the limit applies.
Begun == written # <<>> /\ Last(written).request \in Requests

LogTypes ==
  /\ now \in Nat
  /\ ts \in [Requests -> Nat]
  /\ log \in Seq(Row) /\ written \in Seq(Row)

LogInv ==
  /\ LogTypes
  /\ log = IF Begun THEN LastRows(written, KeptRows) ELSE written
-----------------------------------------------------------------------------
(* The last rows of a sequence.                                            *)

LEMMA LastRowsAre ==
  ASSUME NEW S, NEW s \in Seq(S), NEW n \in Nat
  PROVE  /\ LastRows(s, n) \in Seq(S)
         /\ Len(LastRows(s, n)) = IF Len(s) <= n THEN Len(s) ELSE n
         /\ \A i \in 1 .. Len(LastRows(s, n)) :
              LastRows(s, n)[i] = s[Len(s) - Len(LastRows(s, n)) + i]
<1>1. CASE Len(s) <= n
  BY <1>1 DEF LastRows
<1>2. CASE Len(s) > n
  <2> DEFINE m == Len(s) - n + 1
  <2>1. m \in 1 .. Len(s) + 1 /\ Len(s) \in Nat
    BY <1>2
  <2>2. \A i \in m .. Len(s) : s[i] \in S
    BY <2>1, ElementOfSeq
  <2>3. /\ SubSeq(s, m, Len(s)) \in Seq(S)
        /\ Len(SubSeq(s, m, Len(s))) = IF m <= Len(s) THEN Len(s) - m + 1 ELSE 0
        /\ \A i \in 1 .. Len(s) - m + 1 : SubSeq(s, m, Len(s))[i] = s[m + i - 1]
    BY <2>1, <2>2, SubSeqProperties
  <2>4. LastRows(s, n) = SubSeq(s, m, Len(s))
    BY <1>2 DEF LastRows
  <2>5. Len(LastRows(s, n)) = n
    BY <1>2, <2>3, <2>4
  <2>6. \A i \in 1 .. n : LastRows(s, n)[i] = s[Len(s) - n + i]
    BY <2>1, <2>3, <2>4
  <2> QED
    BY <1>2, <2>3, <2>4, <2>5, <2>6
<1> QED
  BY <1>1, <1>2

\* Cutting before a row is added, as the log does, or only after.
LEMMA LastRowsOfAppend ==
  ASSUME NEW S, NEW s \in Seq(S), NEW e \in S, NEW n \in Nat
  PROVE  LastRows(Append(LastRows(s, n), e), n) = LastRows(Append(s, e), n)
<1> DEFINE c == LastRows(s, n)
           a == Append(c, e)
           b == Append(s, e)
<1>1. /\ c \in Seq(S) /\ Len(c) = IF Len(s) <= n THEN Len(s) ELSE n
      /\ \A i \in 1 .. Len(c) : c[i] = s[Len(s) - Len(c) + i]
  BY LastRowsAre
<1> HIDE DEF c
<1>2. /\ a \in Seq(S) /\ Len(a) = Len(c) + 1
      /\ \A i \in 1 .. Len(c) : a[i] = c[i]
      /\ a[Len(c) + 1] = e
  BY <1>1, AppendProperties
<1>3. /\ b \in Seq(S) /\ Len(b) = Len(s) + 1
      /\ \A i \in 1 .. Len(s) : b[i] = s[i]
      /\ b[Len(s) + 1] = e
  BY AppendProperties
<1> HIDE DEF a, b
<1> DEFINE x == LastRows(a, n)
           y == LastRows(b, n)
<1>4. /\ x \in Seq(S) /\ Len(x) = IF Len(a) <= n THEN Len(a) ELSE n
      /\ \A i \in 1 .. Len(x) : x[i] = a[Len(a) - Len(x) + i]
  <2>1. a \in Seq(S)
    BY <1>2
  <2> QED
    BY <2>1, LastRowsAre
<1>5. /\ y \in Seq(S) /\ Len(y) = IF Len(b) <= n THEN Len(b) ELSE n
      /\ \A i \in 1 .. Len(y) : y[i] = b[Len(b) - Len(y) + i]
  BY <1>3, LastRowsAre
<1> HIDE DEF x, y
<1>6. Len(s) \in Nat /\ Len(c) \in Nat /\ Len(c) <= Len(s)
  BY <1>1
<1>7. Len(x) = Len(y)
  BY <1>1, <1>2, <1>3, <1>4, <1>5, <1>6
<1>8. ASSUME NEW i \in 1 .. Len(x) PROVE x[i] = y[i]
  <2>1. x[i] = a[Len(a) - Len(x) + i] /\ y[i] = b[Len(b) - Len(x) + i]
    BY <1>4, <1>5, <1>7
  <2>2. CASE i = Len(x)
    BY <1>2, <1>3, <1>6, <2>1, <2>2
  <2>3. CASE i < Len(x)
    <3> DEFINE j == Len(a) - Len(x) + i
    <3>0. /\ Len(a) = Len(c) + 1 /\ Len(b) = Len(s) + 1
          /\ Len(x) \in Nat /\ Len(x) <= Len(a)
      BY <1>2, <1>3, <1>4, <1>6
    <3>1. j \in 1 .. Len(c) /\ Len(b) - Len(x) + i = Len(s) - Len(c) + j
      BY <1>6, <2>3, <3>0
    <3> HIDE DEF j
    <3>2. Len(s) - Len(c) + j \in 1 .. Len(s)
      BY <1>6, <3>1
    <3> QED
      BY <1>1, <1>2, <1>3, <2>1, <3>1, <3>2 DEF j
  <2> QED
    BY <1>4, <1>6, <2>2, <2>3
<1>9. x = y
  BY <1>4, <1>5, <1>7, <1>8, SeqEqual
<1> QED
  BY <1>9 DEF x, y, a, b, c
-----------------------------------------------------------------------------
LEMMA LimitIsPositive == KeptRows \in Nat \ {0}
  BY TrafficLogBounds DEF KeptRows

LEMMA InitLog == LogInit => LogInv
<1> SUFFICES ASSUME LogInit PROVE LogInv
  OBVIOUS
<1>1. PICK n \in 0 .. (DefaultMax + 1) : log = [i \in 1 .. n |-> Entry("earlier", 0)]
  BY DEF LogInit
<1>2. n \in Nat /\ Entry("earlier", 0) \in Row
  BY TrafficLogBounds DEF Entry, Row
<1>3. log \in Seq(Row) /\ Len(log) = n /\ \A i \in 1 .. n : log[i] = Entry("earlier", 0)
  BY <1>1, <1>2, IsASeq
<1>4. ~Begun
  <2> SUFFICES ASSUME Begun PROVE FALSE
    OBVIOUS
  <2>1. Len(log) \in 1 .. n
    BY <1>2, <1>3 DEF LogInit, Begun
  <2> QED
    BY <1>3, <2>1, EarlierAssumption DEF LogInit, Begun, Last, Entry
<1> QED
  BY <1>3, <1>4 DEF LogInit, LogInv, LogTypes

LEMMA NextLog == LogInv /\ [ShutdownNext]_allvars => LogInv'
<1> SUFFICES ASSUME LogInv, [ShutdownNext]_allvars PROVE LogInv'
  OBVIOUS
<1> USE DEF LogInv, LogTypes
<1>1. CASE UNCHANGED logVars
  BY <1>1 DEF logVars, Begun
<1>2. CASE Tick
  BY <1>2 DEF Tick, Begun
<1>3. ASSUME NEW r \in Requests, Stamp(r) PROVE LogInv'
  BY <1>3 DEF Stamp, Begun
<1>4. ASSUME NEW r \in Requests, AppendFails(r) PROVE LogInv'
  BY <1>4 DEF AppendFails, Begun
<1>5. ASSUME NEW r \in Requests, AppendTrafficLog(r) PROVE LogInv'
  <2> DEFINE e == Entry(r, ts[r])
  <2>1. e \in Row /\ e.request = r
    BY DEF Entry, Row
  <2>2. /\ written' = Append(written, e) /\ log' = LastRows(Append(log, e), KeptRows)
        /\ now' = now /\ ts' = ts
    BY <1>5 DEF AppendTrafficLog, Trimmed
  <2> HIDE DEF e
  <2>3. /\ written' \in Seq(Row) /\ Len(written') = Len(written) + 1
        /\ written'[Len(written) + 1] = e /\ written' # <<>>
    BY <2>1, <2>2, AppendProperties
  <2>4. Begun'
    BY <2>1, <2>3 DEF Begun, Last
  <2>5. log' \in Seq(Row)
    BY <2>1, <2>2, LimitIsPositive, AppendProperties, LastRowsAre
  <2>6. log' = LastRows(written', KeptRows)
    BY <2>1, <2>2, LimitIsPositive, LastRowsOfAppend
  <2> QED
    BY <2>2, <2>3, <2>4, <2>5, <2>6 DEF KeptRows
<1>6. CASE Main \/ ListenAndServe \/ ServeFails \/ Signal
  BY <1>1, <1>6
     DEF Main, BeginShutdown, ReportServeError, Drained, Deadline, Exit, ListenAndServe,
         ServeFails, Signal
<1>7. ASSUME NEW r \in Requests, Accepted(r) \/ Handler(r) PROVE LogInv'
  BY <1>1, <1>3, <1>4, <1>5, <1>7 DEF Accepted, Handler
<1>8. ASSUME NEW d \in Dashboards, Watch(d) \/ Leave(d) PROVE LogInv'
  BY <1>1, <1>8 DEF Watch, Leave
<1> QED
  BY <1>1, <1>2, <1>6, <1>7, <1>8 DEF ShutdownNext, allvars

\* What is listed, counted from the newest row.
LEMMA ListedFromTheEnd == LogInv => LogIsTheEnd
<1> SUFFICES ASSUME LogInv PROVE LogIsTheEnd
  OBVIOUS
<1> DEFINE kept == IF \E r \in Requests : Len(written) > 0 /\ Last(written).request = r
                   THEN KeptRows ELSE Len(written)
           shown == IF Limit > 0 THEN LastRows(log, Limit) ELSE log
<1>1. /\ written \in Seq(Row) /\ log \in Seq(Row)
      /\ Len(written) \in Nat /\ Len(log) \in Nat /\ Limit \in Nat
  BY TrafficLogBounds DEF LogInv, LogTypes
<1>2. kept \in Nat /\ log = LastRows(written, kept)
  <2>1. (\E r \in Requests : Len(written) > 0 /\ Last(written).request = r) <=> Begun
    BY <1>1, EmptySeq DEF Begun
  <2>2. LastRows(written, Len(written)) = written
    BY <1>1 DEF LastRows
  <2> QED
    BY <1>1, <2>1, <2>2, LimitIsPositive DEF LogInv
<1> HIDE DEF kept
<1>3. /\ Len(log) <= Len(written)
      /\ \A i \in 1 .. Len(log) : log[i] = written[Len(written) - Len(log) + i]
  <2> DEFINE t == LastRows(written, kept)
  <2>1. /\ Len(t) = IF Len(written) <= kept THEN Len(written) ELSE kept
        /\ \A i \in 1 .. Len(t) : t[i] = written[Len(written) - Len(t) + i]
    BY <1>1, <1>2, LastRowsAre
  <2> HIDE DEF t
  <2>2. t = log
    BY <1>2 DEF t
  <2>3. \A i \in 1 .. Len(log) : log[i] = written[Len(written) - Len(log) + i]
    BY <2>1, <2>2, Zenon
  <2>4. Len(log) = IF Len(written) <= kept THEN Len(written) ELSE kept
    BY <2>1, <2>2, Zenon
  <2>5. Len(log) <= Len(written)
    BY <1>1, <1>2, <2>4
  <2> QED
    BY <2>3, <2>5
<1>4. /\ shown \in Seq(Row)
      /\ Len(shown) = IF Limit > 0 /\ Limit < Len(log) THEN Limit ELSE Len(log)
      /\ \A i \in 1 .. Len(shown) : shown[i] = log[Len(log) - Len(shown) + i]
  <2>1. CASE Limit > 0
    <3> DEFINE t == LastRows(log, Limit)
    <3>1. /\ t \in Seq(Row) /\ Len(t) = IF Len(log) <= Limit THEN Len(log) ELSE Limit
          /\ \A i \in 1 .. Len(t) : t[i] = log[Len(log) - Len(t) + i]
      BY <1>1, LastRowsAre
    <3> HIDE DEF t
    <3>2. t = shown
      BY <2>1 DEF t
    <3> HIDE DEF shown
    <3>3. shown \in Seq(Row) /\ Len(shown) = IF Len(log) <= Limit THEN Len(log) ELSE Limit
      BY <3>1, <3>2, Zenon
    <3>4. \A i \in 1 .. Len(shown) : shown[i] = log[Len(log) - Len(shown) + i]
      BY <3>1, <3>2, Zenon
    <3>5. Len(shown) = IF Limit > 0 /\ Limit < Len(log) THEN Limit ELSE Len(log)
      BY <1>1, <2>1, <3>3
    <3> QED
      BY <3>3, <3>4, <3>5
  <2>2. CASE Limit = 0
    <3>1. shown = log
      BY <2>2
    <3> HIDE DEF shown
    <3>2. \A i \in 1 .. Len(log) : Len(log) - Len(log) + i = i
      BY <1>1
    <3> QED
      BY <1>1, <2>2, <3>1, <3>2
  <2>3. Limit > 0 \/ Limit = 0
    BY <1>1
  <2> HIDE DEF shown
  <2> QED
    BY <2>1, <2>2, <2>3
<1>5. Listed = [i \in 1 .. Len(shown) |-> shown[Len(shown) - i + 1]]
  BY DEF Listed, Reverse
<1> HIDE DEF shown
<1>6. Len(shown) \in Nat /\ Len(shown) <= Len(log)
  BY <1>1, <1>4
<1>7. DOMAIN Listed = 1 .. Len(shown) /\ Len(Listed) = Len(shown)
  BY <1>5, <1>6
<1>8. ASSUME NEW i \in DOMAIN Listed
      PROVE  Listed[i] = written[Len(written) + 1 - i]
  <2> DEFINE j == Len(shown) - i + 1
             k == Len(log) - Len(shown) + j
  <2>1. j \in 1 .. Len(shown) /\ k \in 1 .. Len(log) /\ i \in Nat
    BY <1>1, <1>6, <1>7
  <2>2. Listed[i] = shown[j] /\ shown[j] = log[k]
    BY <1>4, <1>5, <1>7, <2>1
  <2>3. log[k] = written[Len(written) - Len(log) + k]
    BY <1>3, <2>1
  <2>4. Len(written) - Len(log) + k = Len(written) + 1 - i
    BY <1>1, <1>6, <2>1
  <2> QED
    BY <2>2, <2>3, <2>4
<1> QED
  BY <1>2, <1>4, <1>7, <1>8 DEF LogIsTheEnd, kept

\* Rows lost to a failed write, rows of requests that end together and a
\* process that goes down in between leave no other log (traffic.go:10-39).
THEOREM LogHolds == ShutdownSpec => []LogIsTheEnd
<1>1. ShutdownInit => LogInv
  BY InitLog DEF ShutdownInit
<1> QED
  BY <1>1, NextLog, ListedFromTheEnd, PTL DEF ShutdownSpec
=============================================================================
