---------------------------- MODULE ServicesProofs ----------------------------
(***************************************************************************)
(* Proofs about the services around the agent loop: the file tools, the    *)
(* registry of providers, the video API, the web tools, the session        *)
(* repository and the session log, for any stamps, providers, clients,     *)
(* pages, entries and bounds.  Each has an inductive invariant (Gate,      *)
(* Registered, Delivered, Fetched, Searched, Stored, Logged) from which    *)
(* its properties follow; those of the instance MCServices come last.      *)
(***************************************************************************)
EXTENDS MCServices, FiniteSetTheorems, TLAPS

USE StampsAssumption

FilesSpec == FilesInit /\ [][FilesNext]_fileVars

(* The model has seen the version, or it came unseen. *)
Accounted(version) == version \in shown \/ writes[version]

FileCalls == [op : {"none"}, step : {"idle"}]
         \cup [op : {"Read"}, step : {"record"}]
         \cup [op : {"Edit"}, step : {"match", "write", "record"}]
         \cup [op : {"Write"}, step : {"write", "record"}]
         \cup [op : {"Notebook"}, step : {"write"}]

FilesTypes ==
    /\ host \in {"adapter", "session"}
    /\ disk \in [version : Nat, stamp : Stamps \cup {NoStamp}]
    /\ writes \in Seq(BOOLEAN)
    /\ disk.version <= Newest
    /\ disk.version = 0 <=> disk.stamp = NoStamp
    /\ record \in Stamps \cup {NoStamp}
    /\ call \in FileCalls
    /\ shown \subseteq 1..Newest
    /\ lost \subseteq 1..Newest
    /\ refused \in BOOLEAN

(* What makes GateIsExact inductive.  A stamp that is on record vouches    *)
(* for the version that has it; so does a gated call for the version on    *)
(* disk, whatever came after the gate; and what was shown is on record     *)
(* once the call that showed it is over.                                   *)
RecordVouches == record # NoStamp /\ record = disk.stamp => Accounted(disk.version)
CallVouches == call.op \in {"Read", "Edit", "Write"} => disk.version = 0 \/ Accounted(disk.version)
LossAccounted == \A version \in lost : Accounted(version)
ShownIsRecorded ==
    host = "session" /\ disk.version \in shown => record = disk.stamp \/ call.step = "record"
RefusedIsIdle == refused => call = NoCall
RefusedUnseen == host = "session" => ReadThenEdit

Gate ==
    /\ FilesTypes /\ RecordVouches /\ CallVouches /\ LossAccounted
    /\ ShownIsRecorded /\ RefusedIsIdle /\ RefusedUnseen

-------------------------------------------------------------------------------
LEMMA GateInit == FilesInit => Gate
<1> SUFFICES ASSUME FilesInit PROVE Gate
  OBVIOUS
<1> USE DEF FilesInit, NoCall, Newest
<1>1. FilesTypes
  <2>1. CASE disk = [version |-> 0, stamp |-> NoStamp] /\ writes = << >>
    <3>1. writes \in Seq(BOOLEAN) /\ Len(writes) = 0
      BY <2>1
    <3>2. disk.version = 0 /\ disk.stamp = NoStamp /\ disk \in [version : Nat, stamp : Stamps \cup {NoStamp}]
      BY <2>1
    <3>3. shown \subseteq 1..Newest /\ lost \subseteq 1..Newest /\ call \in FileCalls
      BY DEF FileCalls
    <3>4. host \in {"adapter", "session"} /\ record = NoStamp /\ refused \in BOOLEAN
      OBVIOUS
    <3> HIDE DEF FilesInit, NoCall
    <3> QED
      BY <3>1, <3>2, <3>3, <3>4 DEF FilesTypes
  <2>2. CASE disk \in [version : {1}, stamp : Stamps] /\ writes = << FALSE >>
    <3>1. writes \in Seq(BOOLEAN) /\ Len(writes) = 1
      BY <2>2
    <3>2. /\ disk.version = 1 /\ disk.stamp \in Stamps
          /\ disk \in [version : Nat, stamp : Stamps \cup {NoStamp}]
      BY <2>2
    <3>3. shown \subseteq 1..Newest /\ lost \subseteq 1..Newest /\ call \in FileCalls
      BY DEF FileCalls
    <3>4. host \in {"adapter", "session"} /\ record = NoStamp /\ refused \in BOOLEAN
      OBVIOUS
    <3> HIDE DEF FilesInit, NoCall
    <3> QED
      BY <3>1, <3>2, <3>3, <3>4 DEF FilesTypes
  <2> QED
    BY <2>1, <2>2
<1>2. RecordVouches /\ CallVouches /\ LossAccounted
  BY DEF RecordVouches, CallVouches, LossAccounted
<1>3. ShownIsRecorded /\ RefusedIsIdle /\ RefusedUnseen
  BY DEF ShownIsRecorded, RefusedIsIdle, RefusedUnseen, ReadThenEdit
<1> QED
  BY <1>1, <1>2, <1>3 DEF Gate

(* A new version is newer than all there were, and counts as unseen if it  *)
(* has the stamp on record.                                                *)
LEMMA NewVersionFacts ==
    ASSUME FilesTypes, NEW unseen \in BOOLEAN, NewVersion(unseen)
    PROVE  /\ writes' \in Seq(BOOLEAN)
           /\ Newest' = Newest + 1
           /\ disk' \in [version : Nat, stamp : Stamps]
           /\ disk'.version = Newest + 1
           /\ \A v \in 1..Newest : writes'[v] = writes[v]
           /\ writes'[Newest + 1] = (unseen \/ disk'.stamp = record)
<1>1. PICK stamp \in Stamps :
         /\ disk' = [version |-> Newest + 1, stamp |-> stamp]
         /\ writes' = Append(writes, unseen \/ stamp = record)
  BY DEF NewVersion
<1>2. DEFINE b == unseen \/ stamp = record
<1>3. b \in BOOLEAN
  OBVIOUS
<1>4. writes \in Seq(BOOLEAN) /\ Newest = Len(writes) /\ Newest \in Nat
  BY DEF FilesTypes, Newest
<1>5. writes' = Append(writes, b)
  BY <1>1
<1>6. /\ writes' \in Seq(BOOLEAN)
      /\ Len(writes') = Newest + 1
      /\ \A v \in 1..Newest : writes'[v] = writes[v]
      /\ writes'[Newest + 1] = b
  <2> HIDE DEF b
  <2> QED
    BY <1>3, <1>4, <1>5
<1>7. disk'.stamp = stamp /\ disk'.version = Newest + 1
  BY <1>1
<1>8. disk' \in [version : Nat, stamp : Stamps]
  BY <1>1, <1>4
<1> QED
  BY <1>6, <1>7, <1>8 DEF Newest

-------------------------------------------------------------------------------
(* What a step keeps of a version that was there, if it takes nothing away *)
(* from what was shown.                                                    *)
LEMMA AccountedKept ==
    ASSUME FilesTypes, FilesTypes',
           \A v \in 1..Newest : writes'[v] = writes[v], shown \subseteq shown',
           NEW v \in 1..Newest, Accounted(v)
    PROVE  Accounted(v)'
BY DEF Accounted

(* The new version, if it is not the model's own. *)
LEMMA NewVersionKeepsGate ==
    ASSUME Gate, NEW unseen \in BOOLEAN, NewVersion(unseen), FilesTypes',
           UNCHANGED <<host, record>>, shown' = shown,
           call' = NoCall \/ (call' = call /\ (call # NoCall => unseen)),
           refused' = refused,
           \A v \in lost' : v \in lost \/ (v \in 1..Newest /\ Accounted(v))
    PROVE  Gate'
<1> USE DEF Gate
<1>1. /\ Newest' = Newest + 1 /\ disk'.version = Newest + 1
      /\ \A v \in 1..Newest : writes'[v] = writes[v]
      /\ writes'[Newest + 1] = (unseen \/ disk'.stamp = record)
      /\ disk'.stamp \in Stamps
  BY NewVersionFacts
<1>2. Newest \in Nat /\ shown \subseteq 1..Newest /\ lost \subseteq 1..Newest
  BY DEF FilesTypes, Newest
<1>3. Newest + 1 \notin shown
  BY <1>2
<1>4. RecordVouches'
  BY <1>1 DEF RecordVouches, Accounted
<1>5. CallVouches'
  <2>1. CASE call' = NoCall
    BY <2>1 DEF CallVouches, NoCall
  <2>2. CASE call' = call /\ call # NoCall /\ unseen
    BY <1>1, <2>2 DEF CallVouches, Accounted
  <2> QED
    BY <2>1, <2>2
<1>6. LossAccounted'
  BY <1>1, <1>2, AccountedKept DEF LossAccounted
<1>7. ShownIsRecorded' /\ RefusedUnseen'
  BY <1>1, <1>3 DEF ShownIsRecorded, RefusedUnseen, ReadThenEdit
<1>8. RefusedIsIdle'
  BY DEF RefusedIsIdle
<1> QED
  BY <1>4, <1>5, <1>6, <1>7, <1>8

LEMMA FilesTypesStep == FilesTypes /\ [FilesNext]_fileVars => FilesTypes'
<1> SUFFICES ASSUME FilesTypes, [FilesNext]_fileVars PROVE FilesTypes'
  OBVIOUS
<1> USE DEF FilesTypes, FileCalls, NoCall, Idle, Returns
<1>0. Newest \in Nat
  BY DEF Newest
<1>1. CASE ReadFile
  <2>1. disk.version \in 1..Newest
    BY <1>0, <1>1 DEF ReadFile
  <2> QED
    BY <1>1, <2>1 DEF ReadFile, Newest
<1>2. CASE RecordReadState
  BY <1>2 DEF RecordReadState, Recorded, Newest
<1>3. CASE CheckFresh
  BY <1>3 DEF CheckFresh, Newest, HasFreshRead
<1>4. CASE CheckMissing
  BY <1>4 DEF CheckMissing, Newest
<1>5. CASE MatchOldString
  BY <1>5 DEF MatchOldString, Newest
<1>6. CASE WriteFile
  <2>1. /\ writes' \in Seq(BOOLEAN) /\ Newest' = Newest + 1
        /\ disk' \in [version : Nat, stamp : Stamps] /\ disk'.version = Newest + 1
    BY <1>6, NewVersionFacts DEF WriteFile
  <2>2. disk.version \in 0..Newest
    BY <1>0
  <2>3. shown' \subseteq 1..Newest' /\ lost' \subseteq 1..Newest'
    BY <1>0, <1>6, <2>1, <2>2 DEF WriteFile
  <2>4. call' \in FileCalls
    BY <1>6 DEF WriteFile
  <2> QED
    BY <1>0, <1>6, <2>1, <2>3, <2>4 DEF WriteFile
<1>7. CASE WriteFails
  <2>1. /\ writes' \in Seq(BOOLEAN) /\ Newest' = Newest + 1
        /\ disk' \in [version : Nat, stamp : Stamps] /\ disk'.version = Newest + 1
    BY <1>7, NewVersionFacts DEF WriteFails
  <2>2. lost' \subseteq lost \cup ({disk.version} \ {0}) /\ shown' = shown
    BY <1>7 DEF WriteFails
  <2>3. disk.version \in 0..Newest
    BY <1>0
  <2>4. shown' \subseteq 1..Newest' /\ lost' \subseteq 1..Newest'
    BY <1>0, <2>1, <2>2, <2>3
  <2> QED
    BY <1>0, <1>7, <2>1, <2>4 DEF WriteFails
<1>8. CASE ReadNotebook
  BY <1>8 DEF ReadNotebook, Newest
<1>9. CASE WriteNotebook
  <2>1. /\ writes' \in Seq(BOOLEAN) /\ Newest' = Newest + 1
        /\ disk' \in [version : Nat, stamp : Stamps] /\ disk'.version = Newest + 1
    BY <1>9, NewVersionFacts DEF WriteNotebook
  <2> QED
    BY <1>0, <1>9, <2>1 DEF WriteNotebook
<1>10. CASE OthersWrite
  <2>1. /\ writes' \in Seq(BOOLEAN) /\ Newest' = Newest + 1
        /\ disk' \in [version : Nat, stamp : Stamps] /\ disk'.version = Newest + 1
    BY <1>10, NewVersionFacts DEF OthersWrite
  <2> QED
    BY <1>0, <1>10, <2>1 DEF OthersWrite
<1>11. CASE OthersRemove
  BY <1>0, <1>11 DEF OthersRemove, Newest
<1>12. CASE UNCHANGED fileVars
  BY <1>12 DEF fileVars, Newest
<1> QED
  BY <1>1, <1>2, <1>3, <1>4, <1>5, <1>6, <1>7, <1>8, <1>9, <1>10, <1>11, <1>12 DEF FilesNext

LEMMA GateStep == Gate /\ [FilesNext]_fileVars => Gate'
<1> SUFFICES ASSUME Gate, [FilesNext]_fileVars PROVE Gate'
  OBVIOUS
<1>0. FilesTypes /\ FilesTypes' /\ Newest \in Nat
  BY FilesTypesStep DEF Gate, FilesTypes, Newest
<1> USE DEF Gate, NoCall, Idle, Returns
<1>1. CASE ReadFile
  <2>1. /\ call = NoCall /\ call' = [op |-> "Read", step |-> "record"]
        /\ shown' = shown \cup {disk.version} /\ refused' = FALSE
        /\ UNCHANGED <<host, disk, record, writes, lost>>
    BY <1>1 DEF ReadFile
  <2>2. RecordVouches' /\ CallVouches' /\ LossAccounted'
    BY <2>1 DEF RecordVouches, CallVouches, LossAccounted, Accounted
  <2>3. ShownIsRecorded' /\ RefusedIsIdle' /\ RefusedUnseen'
    BY <2>1 DEF ShownIsRecorded, RefusedIsIdle, RefusedUnseen, ReadThenEdit
  <2> QED
    BY <1>0, <2>2, <2>3
<1>2. CASE RecordReadState
  <2>1. /\ call.step = "record" /\ call' = NoCall
        /\ record' = IF host = "session" /\ disk.version # 0 THEN disk.stamp ELSE record
        /\ UNCHANGED <<host, disk, shown, writes, refused, lost>>
    BY <1>2 DEF RecordReadState, Recorded
  <2>2. call.op \in {"Read", "Edit", "Write"}
    BY <1>0, <2>1 DEF FilesTypes, FileCalls
  <2>3. RecordVouches' /\ CallVouches' /\ LossAccounted'
    BY <2>1, <2>2 DEF RecordVouches, CallVouches, LossAccounted, Accounted
  <2>4. disk.version \in shown => disk.version # 0
    BY <1>0 DEF FilesTypes
  <2>5. ShownIsRecorded' /\ RefusedIsIdle' /\ RefusedUnseen'
    BY <2>1, <2>4 DEF ShownIsRecorded, RefusedIsIdle, RefusedUnseen, ReadThenEdit
  <2> QED
    BY <1>0, <2>3, <2>5
<1>3. CASE CheckFresh
  <2>1. /\ call = NoCall /\ disk.version # 0 /\ refused' = (record # disk.stamp)
        /\ UNCHANGED <<host, disk, record, shown, writes, lost>>
    BY <1>3 DEF CheckFresh, HasFreshRead
  <2>2. \/ record # disk.stamp /\ call' = NoCall
        \/ record = disk.stamp /\ call'.step \in {"match", "write"}
    BY <1>3 DEF CheckFresh, HasFreshRead
  <2>3. disk.stamp # NoStamp
    BY <1>0, <2>1 DEF FilesTypes
  <2>4. RecordVouches' /\ CallVouches' /\ LossAccounted'
    BY <2>1, <2>2, <2>3 DEF RecordVouches, CallVouches, LossAccounted, Accounted
  <2>5. ShownIsRecorded' /\ RefusedIsIdle' /\ RefusedUnseen'
    BY <2>1, <2>2 DEF ShownIsRecorded, RefusedIsIdle, RefusedUnseen, ReadThenEdit
  <2> QED
    BY <1>0, <2>4, <2>5
<1>4. CASE CheckMissing
  <2>1. /\ call = NoCall /\ disk.version = 0 /\ refused' = FALSE
        /\ UNCHANGED <<host, disk, record, shown, writes, lost>>
    BY <1>4 DEF CheckMissing
  <2>2. disk.version \notin shown
    BY <1>0, <2>1 DEF FilesTypes
  <2>3. RecordVouches' /\ CallVouches' /\ LossAccounted'
    BY <2>1 DEF RecordVouches, CallVouches, LossAccounted, Accounted
  <2>4. ShownIsRecorded' /\ RefusedIsIdle' /\ RefusedUnseen'
    BY <2>1, <2>2 DEF ShownIsRecorded, RefusedIsIdle, RefusedUnseen, ReadThenEdit
  <2> QED
    BY <1>0, <2>3, <2>4
<1>5. CASE MatchOldString
  <2>1. /\ call.step = "match" /\ UNCHANGED <<host, disk, record, shown, writes, refused, lost>>
        /\ call' = NoCall \/ (call'.op = call.op /\ call' # NoCall)
    <3>1. /\ call.step = "match" /\ UNCHANGED <<host, disk, record, shown, writes, refused, lost>>
          /\ call' = NoCall \/ call' = [call EXCEPT !.step = "write"]
      BY <1>5 DEF MatchOldString
    <3>2. call = [op |-> "Edit", step |-> "match"]
      BY <1>0, <3>1 DEF FilesTypes, FileCalls
    <3>3. [call EXCEPT !.step = "write"] = [op |-> "Edit", step |-> "write"]
      BY <3>2
    <3> QED
      BY <3>1, <3>2, <3>3
  <2>2. RecordVouches' /\ CallVouches' /\ LossAccounted'
    BY <2>1 DEF RecordVouches, CallVouches, LossAccounted, Accounted
  <2>3. call # NoCall /\ ~refused
    BY <2>1 DEF RefusedIsIdle
  <2>4. ShownIsRecorded' /\ RefusedIsIdle' /\ RefusedUnseen'
    BY <2>1, <2>3 DEF ShownIsRecorded, RefusedIsIdle, RefusedUnseen, ReadThenEdit
  <2> QED
    BY <1>0, <2>2, <2>4
<1>6. CASE WriteFile
  <2>1. /\ call.step = "write" /\ call.op \in {"Edit", "Write"} /\ NewVersion(FALSE)
        /\ lost' = lost \cup ({disk.version} \ {0}) /\ shown' = shown \cup {Newest + 1}
        /\ call' = [call EXCEPT !.step = "record"] /\ UNCHANGED <<host, record, refused>>
    BY <1>6 DEF WriteFile
  <2>2. /\ disk'.version = Newest + 1 /\ \A v \in 1..Newest : writes'[v] = writes[v]
    BY <1>0, <2>1, NewVersionFacts
  <2>3. call'.step = "record" /\ call # NoCall
    BY <1>0, <2>1 DEF FilesTypes, FileCalls
  <2>4. Accounted(disk.version)'
    BY <2>1, <2>2 DEF Accounted
  <2>5. LossAccounted'
    <3>1. \A v \in lost' : v \in 1..Newest /\ Accounted(v)
      BY <1>0, <2>1 DEF FilesTypes, LossAccounted, CallVouches
    <3> QED
      BY <1>0, <2>1, <2>2, <3>1, AccountedKept DEF LossAccounted
  <2>6. RecordVouches' /\ CallVouches'
    BY <2>4 DEF RecordVouches, CallVouches
  <2>7. ShownIsRecorded' /\ RefusedIsIdle' /\ RefusedUnseen'
    BY <2>1, <2>3 DEF ShownIsRecorded, RefusedIsIdle, RefusedUnseen, ReadThenEdit
  <2> QED
    BY <1>0, <2>5, <2>6, <2>7
<1>7. CASE WriteFails
  <2>1. /\ call.step = "write" /\ NewVersion(TRUE) /\ call' = NoCall
        /\ lost' = IF call.op = "Notebook" THEN lost ELSE lost \cup ({disk.version} \ {0})
        /\ UNCHANGED <<host, record, shown, refused>>
    BY <1>7 DEF WriteFails
  <2>2. \A v \in lost' : v \in lost \/ (v \in 1..Newest /\ Accounted(v))
    <3>1. call.op = "Notebook" \/ call.op \in {"Edit", "Write"}
      BY <1>0, <2>1 DEF FilesTypes, FileCalls
    <3> QED
      BY <1>0, <2>1, <3>1 DEF FilesTypes, CallVouches
  <2> QED
    BY <1>0, <2>1, <2>2, NewVersionKeepsGate
<1>8. CASE ReadNotebook
  <2>1. /\ call = NoCall /\ call'.op = "Notebook" /\ refused' = FALSE
        /\ UNCHANGED <<host, disk, record, shown, writes, lost>>
    BY <1>8 DEF ReadNotebook
  <2>2. RecordVouches' /\ CallVouches' /\ LossAccounted'
    BY <2>1 DEF RecordVouches, CallVouches, LossAccounted, Accounted
  <2>3. ShownIsRecorded' /\ RefusedIsIdle' /\ RefusedUnseen'
    BY <2>1 DEF ShownIsRecorded, RefusedIsIdle, RefusedUnseen, ReadThenEdit
  <2> QED
    BY <1>0, <2>2, <2>3
<1>9. CASE WriteNotebook
  <2>1. /\ NewVersion(TRUE) /\ call' = NoCall /\ UNCHANGED <<host, record, shown, refused, lost>>
    BY <1>9 DEF WriteNotebook
  <2> QED
    BY <1>0, <2>1, NewVersionKeepsGate
<1>10. CASE OthersWrite
  <2>1. /\ NewVersion(call # NoCall) /\ UNCHANGED <<host, record, call, shown, refused, lost>>
    BY <1>10 DEF OthersWrite
  <2>2. (call # NoCall) \in BOOLEAN
    OBVIOUS
  <2> DEFINE busy == call # NoCall
  <2>3. NewVersion(busy) /\ busy \in BOOLEAN /\ (call # NoCall => busy)
    BY <2>1
  <2> HIDE DEF busy
  <2> QED
    BY <1>0, <2>1, <2>3, NewVersionKeepsGate
<1>11. CASE OthersRemove
  <2>1. /\ disk'.version = 0 /\ disk'.stamp = NoStamp
        /\ UNCHANGED <<host, record, call, shown, writes, refused, lost>>
    BY <1>11 DEF OthersRemove
  <2>2. 0 \notin shown
    BY <1>0 DEF FilesTypes
  <2>3. RecordVouches' /\ CallVouches' /\ LossAccounted'
    BY <2>1 DEF RecordVouches, CallVouches, LossAccounted, Accounted
  <2>4. ShownIsRecorded' /\ RefusedIsIdle' /\ RefusedUnseen'
    BY <2>1, <2>2 DEF ShownIsRecorded, RefusedIsIdle, RefusedUnseen, ReadThenEdit
  <2> QED
    BY <1>0, <2>3, <2>4
<1>12. CASE UNCHANGED fileVars
  BY <1>0, <1>12 DEF fileVars, RecordVouches, CallVouches, LossAccounted, Accounted,
     ShownIsRecorded, RefusedIsIdle, RefusedUnseen, ReadThenEdit
<1> QED
  BY <1>1, <1>2, <1>3, <1>4, <1>5, <1>6, <1>7, <1>8, <1>9, <1>10, <1>11, <1>12 DEF FilesNext

(* Whatever a gated write replaced had been shown to the model, or came    *)
(* unseen (while a call ran, from an ungated or failed write, or with the  *)
(* stamp on record), and where reads are recorded no file that is as the   *)
(* model knows it is refused (edit.go:146, write.go:121, paths.go:113).    *)
THEOREM GateIsExactAlways == FilesSpec => []GateIsExact
<1>1. Gate => GateIsExact
  BY DEF Gate, LossAccounted, Accounted, RefusedUnseen, GateIsExact
<1> QED
  BY <1>1, GateInit, GateStep, PTL DEF FilesSpec

-------------------------------------------------------------------------------
RegistrySpec == RegistryInit /\ [][RegistryNext]_registryVars

AnySource == Sources \cup {""}

Provider == [api : Apis, source : AnySource, removed : BOOLEAN,
             inner : {"none", "ready", "failed"}]

RegistryTypes ==
    /\ providers \in [Apis -> Nat]
    /\ bySource \in [Sources -> SUBSET Apis]
    /\ made \in Seq(Provider)

(* Who serves a protocol serves it rightly, was not removed, and can be    *)
(* found through its source; and what a source is remembered for, it       *)
(* brought and did not take away.  It may not serve any more: then another *)
(* source, or none, has taken its place.                                   *)
ServesRightly ==
    \A a \in Apis : providers[a] # 0 =>
        /\ providers[a] \in 1..Len(made)
        /\ made[providers[a]].api = a
        /\ made[providers[a]].removed = FALSE
FoundBySource ==
    \A a \in Apis, s \in Sources :
        providers[a] # 0 /\ made[providers[a]].source = s => a \in bySource[s]
RememberedBrought ==
    \A s \in Sources : \A a \in bySource[s] :
        \E p \in 1..Len(made) : made[p].api = a /\ made[p].source = s /\ made[p].removed = FALSE

Registered == RegistryTypes /\ ServesRightly /\ FoundBySource /\ RememberedBrought

(* Removed marks the providers of some sources and changes nothing else. *)
LEMMA RemovedFacts ==
    ASSUME made \in Seq(Provider), NEW S
    PROVE  /\ Removed(S) \in Seq(Provider)
           /\ Len(Removed(S)) = Len(made)
           /\ \A p \in 1..Len(made) :
                 /\ Removed(S)[p].api = made[p].api
                 /\ Removed(S)[p].source = made[p].source
                 /\ Removed(S)[p].removed = (made[p].source \in S \/ made[p].removed)
<1> DEFINE n == Len(made)
           f(p) == IF made[p].source \in S THEN [made[p] EXCEPT !.removed = TRUE] ELSE made[p]
<1>1. n \in Nat /\ \A p \in 1..n : made[p] \in Provider
  OBVIOUS
<1>2. \A p \in 1..n : f(p) \in Provider
  BY <1>1 DEF Provider
<1>3. Removed(S) = [p \in 1..n |-> f(p)]
  BY DEF Removed
<1>4. \A p \in 1..n : /\ f(p).api = made[p].api /\ f(p).source = made[p].source
                      /\ f(p).removed = (made[p].source \in S \/ made[p].removed)
  BY <1>1 DEF Provider
<1> HIDE DEF n, f
<1>5. Removed(S) \in Seq(Provider) /\ Len(Removed(S)) = n
  BY <1>1, <1>2, <1>3
<1>6. \A p \in 1..n : Removed(S)[p] = f(p)
  BY <1>3
<1> QED
  BY <1>4, <1>5, <1>6 DEF n

LEMMA RegisteredInit == RegistryInit => Registered
<1> SUFFICES ASSUME RegistryInit PROVE Registered
  OBVIOUS
<1>1. made = << >> /\ providers = [a \in Apis |-> 0] /\ bySource = [s \in Sources |-> {}]
  BY DEF RegistryInit
<1>2. RegistryTypes
  BY <1>1 DEF RegistryTypes
<1> QED
  BY <1>1, <1>2 DEF Registered, ServesRightly, FoundBySource, RememberedBrought

LEMMA MadeAnew ==
    ASSUME NEW api \in Apis, NEW source \in AnySource
    PROVE  [api |-> api, source |-> source, removed |-> FALSE, inner |-> "none"] \in Provider
BY DEF Provider

LEMMA RegisterStep ==
    ASSUME Registered, NEW api \in Apis, NEW source \in AnySource, Register(api, source)
    PROVE  Registered' /\ \A a \in Apis : providers[a] # 0 => providers'[a] # 0
<1>1. made \in Seq(Provider) /\ Len(made) \in Nat
  BY DEF Registered, RegistryTypes
<1>2. PICK new \in Provider : /\ made' = Append(made, new)
                             /\ new.api = api /\ new.source = source /\ new.removed = FALSE
  BY MadeAnew DEF Register
<1>3. /\ made' \in Seq(Provider) /\ Len(made') = Len(made) + 1 /\ made'[Len(made) + 1] = new
      /\ \A p \in 1..Len(made) : made'[p] = made[p]
  BY <1>1, <1>2
<1>a. new.api = api /\ new.source = source /\ new.removed = FALSE
  BY <1>2
<1>4. /\ providers' = [providers EXCEPT ![api] = Len(made) + 1]
      /\ bySource' = [s \in Sources |-> IF s = source THEN bySource[s] \cup {api} ELSE bySource[s]]
  BY DEF Register
<1>5. providers \in [Apis -> Nat] /\ bySource \in [Sources -> SUBSET Apis]
  BY DEF Registered, RegistryTypes
<1>6. RegistryTypes'
  BY <1>1, <1>3, <1>a, <1>4, <1>5 DEF RegistryTypes
<1>7. providers'[api] = Len(made) + 1 /\ \A a \in Apis \ {api} : providers'[a] = providers[a]
  BY <1>4, <1>5
<1>8. ServesRightly'
  <2> SUFFICES ASSUME NEW a \in Apis, providers'[a] # 0
               PROVE  /\ providers'[a] \in 1..Len(made') /\ made'[providers'[a]].api = a
                      /\ made'[providers'[a]].removed = FALSE
    BY DEF ServesRightly
  <2>1. CASE a = api
    BY <1>1, <1>3, <1>a, <1>7, <2>1
  <2>2. CASE a # api
    BY <1>1, <1>3, <1>a, <1>7, <2>2 DEF Registered, ServesRightly
  <2> QED
    BY <2>1, <2>2
<1>9. FoundBySource'
  <2> SUFFICES ASSUME NEW a \in Apis, NEW s \in Sources,
                      providers'[a] # 0, made'[providers'[a]].source = s
               PROVE  a \in bySource'[s]
    BY DEF FoundBySource
  <2>1. CASE a = api
    BY <1>1, <1>3, <1>a, <1>4, <1>7, <2>1
  <2>2. CASE a # api
    <3>1. providers[a] # 0 /\ providers[a] \in 1..Len(made) /\ made[providers[a]].source = s
      BY <1>3, <1>7, <2>2 DEF Registered, ServesRightly
    <3> QED
      BY <1>4, <1>5, <3>1 DEF Registered, FoundBySource
  <2> QED
    BY <2>1, <2>2
<1>10. RememberedBrought'
  <2> SUFFICES ASSUME NEW s \in Sources, NEW a \in bySource'[s]
               PROVE  \E p \in 1..Len(made') :
                         made'[p].api = a /\ made'[p].source = s /\ made'[p].removed = FALSE
    BY DEF RememberedBrought
  <2>1. CASE a \in bySource[s]
    <3>1. PICK p \in 1..Len(made) : made[p].api = a /\ made[p].source = s /\ made[p].removed = FALSE
      BY <2>1 DEF Registered, RememberedBrought
    <3> QED
      BY <1>1, <1>3, <1>a, <3>1
  <2>2. CASE a \notin bySource[s]
    <3>1. a = api /\ s = source
      BY <1>4, <2>2
    <3> QED
      BY <1>1, <1>3, <1>a, <3>1
  <2> QED
    BY <2>1, <2>2
<1> QED
  BY <1>1, <1>6, <1>7, <1>8, <1>9, <1>10 DEF Registered

(* The end of Unregister and of ClearRegistry: the providers of the        *)
(* sources S are marked, and nobody is left that S had brought.            *)
LEMMA RemoveStep ==
    ASSUME Registered, NEW S, NEW gone \in SUBSET Apis,
           made' = Removed(S),
           providers' = [a \in Apis |-> IF a \in gone THEN 0 ELSE providers[a]],
           bySource' = [s \in Sources |-> IF s \in S THEN {} ELSE bySource[s]],
           \A a \in Apis : providers[a] # 0 /\ made[providers[a]].source \in S => a \in gone,
           \A a \in gone : providers[a] # 0 =>
               \E p \in 1..Len(made) : /\ made[p].api = a /\ made[p].removed = FALSE
                                       /\ made[p].source \in S
    PROVE  /\ Registered'
           /\ \A a \in Apis : providers[a] # 0 /\ providers'[a] = 0 =>
                 \E p \in 1..Len(made) : /\ made[p].api = a /\ made[p].removed = FALSE
                                         /\ made'[p].removed = TRUE
<1>1. /\ made \in Seq(Provider) /\ providers \in [Apis -> Nat] /\ bySource \in [Sources -> SUBSET Apis]
  BY DEF Registered, RegistryTypes
<1>2. /\ made' \in Seq(Provider) /\ Len(made') = Len(made)
      /\ \A p \in 1..Len(made) :
            /\ made'[p].api = made[p].api /\ made'[p].source = made[p].source
            /\ made'[p].removed = (made[p].source \in S \/ made[p].removed)
  BY <1>1, RemovedFacts
<1>3. \A p \in 1..Len(made) : made[p].source \in S => made'[p].removed = TRUE
  BY <1>2
<1>4. \A p \in 1..Len(made) :
          made[p].source \notin S /\ made[p].removed = FALSE => made'[p].removed = FALSE
  BY <1>2
<1>5. RegistryTypes'
  BY <1>1, <1>2 DEF RegistryTypes
<1>6. \A a \in Apis : providers'[a] # 0 => a \notin gone /\ providers'[a] = providers[a]
  BY <1>1
<1>7. ServesRightly'
  <2> SUFFICES ASSUME NEW a \in Apis, providers'[a] # 0
               PROVE  /\ providers'[a] \in 1..Len(made') /\ made'[providers'[a]].api = a
                      /\ made'[providers'[a]].removed = FALSE
    BY DEF ServesRightly
  <2>1. providers'[a] = providers[a] /\ providers[a] # 0 /\ made[providers[a]].source \notin S
    BY <1>6
  <2>2. providers[a] \in 1..Len(made) /\ made[providers[a]].api = a /\ made[providers[a]].removed = FALSE
    BY <2>1 DEF Registered, ServesRightly
  <2> QED
    BY <1>2, <1>4, <2>1, <2>2
<1>8. FoundBySource'
  <2> SUFFICES ASSUME NEW a \in Apis, NEW s \in Sources,
                      providers'[a] # 0, made'[providers'[a]].source = s
               PROVE  a \in bySource'[s]
    BY DEF FoundBySource
  <2>1. providers'[a] = providers[a] /\ providers[a] # 0 /\ made[providers[a]].source \notin S
    BY <1>6
  <2>2. providers[a] \in 1..Len(made)
    BY <2>1 DEF Registered, ServesRightly
  <2>3. made[providers[a]].source = s
    BY <1>2, <2>1, <2>2
  <2>4. s \notin S /\ a \in bySource[s]
    BY <2>1, <2>3 DEF Registered, FoundBySource
  <2> QED
    BY <2>4
<1>9. RememberedBrought'
  <2> SUFFICES ASSUME NEW s \in Sources, NEW a \in bySource'[s]
               PROVE  \E p \in 1..Len(made') :
                         made'[p].api = a /\ made'[p].source = s /\ made'[p].removed = FALSE
    BY DEF RememberedBrought
  <2>1. s \notin S /\ a \in bySource[s]
    BY <1>1
  <2>2. PICK p \in 1..Len(made) : made[p].api = a /\ made[p].source = s /\ made[p].removed = FALSE
    BY <2>1 DEF Registered, RememberedBrought
  <2> QED
    BY <1>2, <1>4, <2>1, <2>2
<1>10. ASSUME NEW a \in Apis, providers[a] # 0, providers'[a] = 0
       PROVE  \E p \in 1..Len(made) : /\ made[p].api = a /\ made[p].removed = FALSE
                                      /\ made'[p].removed = TRUE
  <2>1. a \in gone
    BY <1>1, <1>10
  <2> QED
    BY <1>3, <1>10, <2>1
<1> QED
  BY <1>5, <1>7, <1>8, <1>9, <1>10 DEF Registered

-------------------------------------------------------------------------------
(* Every step keeps the invariant and the property. *)
LosesProvider(a) == providers[a] # 0 /\ providers'[a] = 0
TakenAway(a) == \E p \in 1..Len(made) : made[p].api = a /\ ~made[p].removed /\ made'[p].removed

LEMMA RegistryStep ==
    ASSUME Registered, [RegistryNext]_registryVars
    PROVE  Registered' /\ \A a \in Apis : LosesProvider(a) => TakenAway(a)
<1>0. /\ made \in Seq(Provider) /\ providers \in [Apis -> Nat] /\ bySource \in [Sources -> SUBSET Apis]
  BY DEF Registered, RegistryTypes
<1>1. ASSUME NEW api \in Apis, NEW source \in AnySource, Register(api, source)
      PROVE  Registered' /\ \A a \in Apis : LosesProvider(a) => TakenAway(a)
  <2>1. Registered' /\ \A a \in Apis : providers[a] # 0 => providers'[a] # 0
    BY <1>1, RegisterStep
  <2> QED
    BY <2>1 DEF LosesProvider
<1>2. ASSUME NEW source \in Sources, Unregister(source)
      PROVE  Registered' /\ \A a \in Apis : LosesProvider(a) => TakenAway(a)
  <2>1. /\ made' = Removed({source}) /\ bySource[source] \in SUBSET Apis
        /\ providers' = [a \in Apis |-> IF a \in bySource[source] THEN 0 ELSE providers[a]]
    BY <1>0, <1>2 DEF Unregister
  <2>2. bySource' = [s \in Sources |-> IF s \in {source} THEN {} ELSE bySource[s]]
    BY <1>0, <1>2 DEF Unregister
  <2>3. \A a \in Apis : providers[a] # 0 /\ made[providers[a]].source \in {source} => a \in bySource[source]
    BY DEF Registered, FoundBySource
  <2>4. \A a \in bySource[source] : \E p \in 1..Len(made) :
            /\ made[p].api = a /\ made[p].removed = FALSE /\ made[p].source \in {source}
    <3> SUFFICES ASSUME NEW a \in bySource[source]
                 PROVE  \E p \in 1..Len(made) :
                           /\ made[p].api = a /\ made[p].removed = FALSE /\ made[p].source \in {source}
      OBVIOUS
    <3>1. PICK p \in 1..Len(made) :
             made[p].api = a /\ made[p].source = source /\ made[p].removed = FALSE
      BY DEF Registered, RememberedBrought
    <3> QED
      BY <3>1
  <2>5. /\ Registered'
        /\ \A a \in Apis : providers[a] # 0 /\ providers'[a] = 0 =>
              \E p \in 1..Len(made) : /\ made[p].api = a /\ made[p].removed = FALSE
                                      /\ made'[p].removed = TRUE
    <3> DEFINE S == {source}
               gone == bySource[source]
    <3>1. /\ gone \in SUBSET Apis /\ made' = Removed(S)
          /\ providers' = [a \in Apis |-> IF a \in gone THEN 0 ELSE providers[a]]
          /\ bySource' = [s \in Sources |-> IF s \in S THEN {} ELSE bySource[s]]
      BY <2>1, <2>2
    <3>2. /\ \A a \in Apis : providers[a] # 0 /\ made[providers[a]].source \in S => a \in gone
          /\ \A a \in gone : providers[a] # 0 =>
                \E p \in 1..Len(made) : /\ made[p].api = a /\ made[p].removed = FALSE
                                        /\ made[p].source \in S
      BY <2>3, <2>4
    <3> HIDE DEF S, gone
    <3> QED
      BY <3>1, <3>2, RemoveStep, Zenon
  <2> QED
    BY <2>5 DEF LosesProvider, TakenAway
<1>3. CASE ClearRegistry
  <2>1. /\ made' = Removed(AnySource)
        /\ providers' = [a \in Apis |-> IF a \in Apis THEN 0 ELSE providers[a]]
    BY <1>3, Zenon DEF ClearRegistry, AnySource
  <2>2. \A s \in Sources : s \in AnySource
    BY Zenon DEF AnySource
  <2>3. bySource' = [s \in Sources |-> {}]
    BY <1>3, Zenon DEF ClearRegistry
  <2>4. bySource' = [s \in Sources |-> IF s \in AnySource THEN {} ELSE bySource[s]]
    BY <2>2, <2>3
  <2>5. \A a \in Apis : providers[a] # 0 => \E p \in 1..Len(made) :
            /\ made[p].api = a /\ made[p].removed = FALSE /\ made[p].source \in AnySource
    <3> SUFFICES ASSUME NEW a \in Apis, providers[a] # 0
                 PROVE  \E p \in 1..Len(made) :
                           /\ made[p].api = a /\ made[p].removed = FALSE /\ made[p].source \in AnySource
      OBVIOUS
    <3>1. providers[a] \in 1..Len(made) /\ made[providers[a]].api = a /\ made[providers[a]].removed = FALSE
      BY DEF Registered, ServesRightly
    <3>2. made[providers[a]] \in Provider
      BY <1>0, <3>1
    <3>3. made[providers[a]].source \in AnySource
      BY <3>2 DEF Provider
    <3> QED
      BY <3>1, <3>3
  <2>6. /\ Registered'
        /\ \A a \in Apis : providers[a] # 0 /\ providers'[a] = 0 =>
              \E p \in 1..Len(made) : /\ made[p].api = a /\ made[p].removed = FALSE
                                      /\ made'[p].removed = TRUE
    BY <2>1, <2>4, <2>5, RemoveStep
  <2> QED
    BY <2>6 DEF LosesProvider, TakenAway
<1>4. ASSUME NEW api \in Apis, StreamSimple(api)
      PROVE  Registered' /\ \A a \in Apis : LosesProvider(a) => TakenAway(a)
  <2>1. PICK how \in {"ready", "failed"} : made' = [made EXCEPT ![providers[api]].inner = how]
    BY <1>4 DEF StreamSimple
  <2>2. providers' = providers /\ bySource' = bySource /\ providers[api] # 0
    BY <1>4 DEF StreamSimple
  <2> DEFINE q == providers[api]
  <2>3. q \in 1..Len(made) /\ made[q] \in Provider
    BY <1>0, <2>2 DEF Registered, ServesRightly
  <2>4. PICK r \in Provider : /\ made' = [made EXCEPT ![q] = r] /\ r.api = made[q].api
                              /\ r.source = made[q].source /\ r.removed = made[q].removed
    <3>1. [made[q] EXCEPT !.inner = how] \in Provider
      BY <2>3 DEF Provider
    <3>2. made' = [made EXCEPT ![q] = [made[q] EXCEPT !.inner = how]]
      BY <2>1
    <3> QED
      BY <2>3, <3>1, <3>2 DEF Provider
  <2> HIDE DEF q
  <2>5. made' \in Seq(Provider) /\ Len(made') = Len(made)
    BY <1>0, <2>3, <2>4
  <2>6. \A p \in 1..Len(made) : /\ made'[p].api = made[p].api /\ made'[p].source = made[p].source
                                /\ made'[p].removed = made[p].removed
    BY <1>0, <2>3, <2>4
  <2>7. RegistryTypes'
    BY <1>0, <2>2, <2>5 DEF RegistryTypes
  <2>8. ServesRightly' /\ FoundBySource' /\ RememberedBrought'
    BY <2>2, <2>5, <2>6 DEF Registered, ServesRightly, FoundBySource, RememberedBrought
  <2> QED
    BY <2>2, <2>7, <2>8 DEF Registered, LosesProvider
<1>5. CASE UNCHANGED registryVars
  BY <1>5 DEF registryVars, Registered, RegistryTypes, ServesRightly, FoundBySource, RememberedBrought, LosesProvider
<1>6. \/ \E api \in Apis, source \in AnySource : Register(api, source)
      \/ \E source \in Sources : Unregister(source)
      \/ ClearRegistry \/ (\E api \in Apis : StreamSimple(api)) \/ UNCHANGED registryVars
  BY Zenon DEF RegistryNext, AnySource
<1> QED
  BY <1>1, <1>2, <1>3, <1>4, <1>5, <1>6

(* A provider stops serving its protocol only in a step that takes away    *)
(* one that was registered for this protocol and still there: no source    *)
(* removes what it did not bring (registry.go:30-51).                      *)
THEOREM LostOnlyToARegistrantAlways == RegistrySpec => LostOnlyToARegistrant
<1>1. RegistryInit => Registered
  BY RegisteredInit
<1>2. Registered /\ [RegistryNext]_registryVars => Registered'
  BY RegistryStep
<1>3. Registered /\ [RegistryNext]_registryVars =>
        [\A a \in Apis : providers[a] # 0 /\ providers'[a] = 0 =>
            \E p \in 1..Len(made) : made[p].api = a /\ ~made[p].removed /\ made'[p].removed]_registryVars
  BY RegistryStep DEF LosesProvider, TakenAway
<1> QED
  BY <1>1, <1>2, <1>3, PTL DEF RegistrySpec, LostOnlyToARegistrant

-------------------------------------------------------------------------------
VideoApiSpec == ApiInit /\ [][VideoApiNext]_apiVars

In(e, s) == \E i \in 1..Len(s) : s[i] = e

(* A request that follows the session, or has. *)
Follows(r, id) == reader[r].at \in {"reading", "over", "gone"} /\ reader[r].id = id

ReaderStates == [at : {"idle", "not found"}, client : BOOLEAN]
                \cup [at : {"reading", "over", "gone"}, id : VideoIds, client : BOOLEAN]

ApiTypes ==
    /\ video \in [VideoIds -> {"none", "open", "stopped", "closed"}]
    /\ channel \in [VideoIds -> Seq(Nat)]
    /\ eventsMade \in [VideoIds -> Nat]
    /\ dropped \in [VideoIds -> SUBSET Nat]
    /\ reader \in [Readers -> ReaderStates]
    /\ got \in [Readers -> Seq(Nat)]

TableIsOpen == sessions = {id \in VideoIds : video[id] = "open"}

Increasing(s) == \A i, j \in 1..Len(s) : i < j => s[i] < s[j]

(* What waits in the channel was made, had room, and is in order. *)
ChannelHolds(id) ==
    /\ Increasing(channel[id])
    /\ \A e \in Nat : In(e, channel[id]) => e \in 1..eventsMade[id] /\ e \notin dropped[id]
    /\ dropped[id] \subseteq 1..eventsMade[id]

(* What a request took came before all that waits. *)
TakenBefore(id) ==
    \A r \in Readers : Follows(r, id) =>
        /\ Increasing(got[r])
        /\ \A e \in Nat : In(e, got[r]) => e \in 1..eventsMade[id] /\ e \notin dropped[id]
        /\ \A e, f \in Nat : In(e, got[r]) /\ In(f, channel[id]) => e < f

TakenOnce(id) ==
    \A r, s \in Readers : \A e \in Nat :
        Follows(r, id) /\ Follows(s, id) /\ In(e, got[r]) /\ In(e, got[s]) => r = s

NoneLost(id) ==
    \A e \in 1..eventsMade[id] :
        \/ e \in dropped[id] \/ In(e, channel[id])
        \/ \E r \in Readers : Follows(r, id) /\ In(e, got[r])

OverIsEmpty(id) ==
    \A r \in Readers : Follows(r, id) /\ reader[r].at = "over" =>
        video[id] = "closed" /\ channel[id] = <<>>

IdleHasNone == \A r \in Readers : reader[r].at \in {"idle", "not found"} => got[r] = <<>>

Delivery(id) ==
    ChannelHolds(id) /\ TakenBefore(id) /\ TakenOnce(id) /\ NoneLost(id) /\ OverIsEmpty(id)

Delivered == ApiTypes /\ TableIsOpen /\ IdleHasNone /\ \A id \in VideoIds : Delivery(id)

-------------------------------------------------------------------------------
(* Sequences as bags of what is in them. *)

LEMMA AppendIn ==
    ASSUME NEW s \in Seq(Nat), NEW e \in Nat
    PROVE  /\ Append(s, e) \in Seq(Nat)
           /\ \A x \in Nat : In(x, Append(s, e)) <=> In(x, s) \/ x = e
           /\ Increasing(s) /\ (\A x \in Nat : In(x, s) => x < e) => Increasing(Append(s, e))
<1>1. Append(s, e) \in Seq(Nat) /\ Len(Append(s, e)) = Len(s) + 1
  OBVIOUS
<1>2. /\ \A i \in 1..Len(s) : Append(s, e)[i] = s[i]
      /\ Append(s, e)[Len(s) + 1] = e
  OBVIOUS
<1>3. \A x \in Nat : In(x, Append(s, e)) <=> In(x, s) \/ x = e
  BY <1>1, <1>2 DEF In
<1>4. ASSUME Increasing(s), \A x \in Nat : In(x, s) => x < e
      PROVE  Increasing(Append(s, e))
  <2> SUFFICES ASSUME NEW i \in 1..Len(s) + 1, NEW j \in 1..Len(s) + 1, i < j
               PROVE  Append(s, e)[i] < Append(s, e)[j]
    BY <1>1 DEF Increasing
  <2>1. i \in 1..Len(s)
    OBVIOUS
  <2>2. s[i] \in Nat /\ In(s[i], s)
    BY <2>1 DEF In
  <2>3. CASE j \in 1..Len(s)
    BY <1>2, <1>4, <2>1, <2>3 DEF Increasing
  <2>4. CASE j = Len(s) + 1
    BY <1>2, <1>4, <2>1, <2>2, <2>4
  <2> QED
    BY <2>3, <2>4
<1> QED
  BY <1>1, <1>3, <1>4

LEMMA TailIn ==
    ASSUME NEW s \in Seq(Nat), s # <<>>
    PROVE  /\ Tail(s) \in Seq(Nat) /\ Head(s) \in Nat /\ In(Head(s), s)
           /\ \A x \in Nat : In(x, s) <=> In(x, Tail(s)) \/ x = Head(s)
           /\ Increasing(s) => /\ Increasing(Tail(s))
                               /\ \A x \in Nat : In(x, Tail(s)) => Head(s) < x
<1>1. Len(s) \in Nat /\ Len(s) >= 1 /\ Head(s) = s[1] /\ s[1] \in Nat
  OBVIOUS
<1>2. Tail(s) \in Seq(Nat) /\ Len(Tail(s)) = Len(s) - 1
  OBVIOUS
<1>3. \A i \in 1..Len(Tail(s)) : Tail(s)[i] = s[i + 1]
  OBVIOUS
<1>4. \A x \in Nat : In(x, s) <=> In(x, Tail(s)) \/ x = Head(s)
  <2> TAKE x \in Nat
  <2>1. ASSUME In(x, s) PROVE In(x, Tail(s)) \/ x = Head(s)
    <3>1. PICK i \in 1..Len(s) : s[i] = x
      BY <2>1 DEF In
    <3>2. CASE i = 1
      BY <1>1, <3>1, <3>2
    <3>3. CASE i # 1
      <4>1. i - 1 \in 1..Len(Tail(s)) /\ Tail(s)[i - 1] = x
        BY <1>1, <1>2, <1>3, <3>1, <3>3
      <4> QED
        BY <4>1 DEF In
    <3> QED
      BY <3>2, <3>3
  <2>2. ASSUME In(x, Tail(s)) PROVE In(x, s)
    <3>1. PICK i \in 1..Len(Tail(s)) : Tail(s)[i] = x
      BY <2>2 DEF In
    <3>2. i + 1 \in 1..Len(s) /\ s[i + 1] = x
      BY <1>1, <1>2, <1>3, <3>1
    <3> QED
      BY <3>2 DEF In
  <2>3. In(Head(s), s)
    BY <1>1 DEF In
  <2> QED
    BY <2>1, <2>2, <2>3
<1>5. ASSUME Increasing(s)
      PROVE  Increasing(Tail(s)) /\ \A x \in Nat : In(x, Tail(s)) => Head(s) < x
  <2>1. Increasing(Tail(s))
    BY <1>1, <1>2, <1>3, <1>5 DEF Increasing
  <2>2. ASSUME NEW x \in Nat, In(x, Tail(s)) PROVE Head(s) < x
    <3>1. PICK i \in 1..Len(Tail(s)) : Tail(s)[i] = x
      BY <2>2 DEF In
    <3>2. i + 1 \in 1..Len(s) /\ s[i + 1] = x /\ 1 \in 1..Len(s) /\ 1 < i + 1
      BY <1>1, <1>2, <1>3, <3>1
    <3> QED
      BY <1>1, <1>5, <3>2 DEF Increasing
  <2> QED
    BY <2>1, <2>2
<1>6. In(Head(s), s)
  BY <1>1 DEF In
<1> QED
  BY <1>1, <1>2, <1>4, <1>5, <1>6

-------------------------------------------------------------------------------
(* Delivery through the steps. *)

LEMMA DeliveredInit == ApiInit => Delivered
<1> SUFFICES ASSUME ApiInit PROVE Delivered
  OBVIOUS
<1>1. ApiTypes /\ TableIsOpen /\ IdleHasNone
  BY DEF ApiInit, ApiTypes, TableIsOpen, IdleHasNone, ReaderStates
<1>2. ASSUME NEW id \in VideoIds PROVE Delivery(id)
  <2>1. channel[id] = <<>> /\ eventsMade[id] = 0 /\ dropped[id] = {}
    BY DEF ApiInit
  <2>2. \A r \in Readers : ~Follows(r, id)
    BY DEF ApiInit, Follows
  <2> QED
    BY <2>1, <2>2 DEF Delivery, ChannelHolds, TakenBefore, TakenOnce, NoneLost, OverIsEmpty,
                      Increasing, In
<1> QED
  BY <1>1, <1>2 DEF Delivered

(* A session is untouched by a step that leaves its channel alone and      *)
(* neither takes from it nor says that it is over.                         *)
LEMMA DeliveryStays ==
    ASSUME NEW id \in VideoIds, Delivery(id),
           channel'[id] = channel[id], eventsMade'[id] = eventsMade[id], dropped'[id] = dropped[id],
           video[id] = "closed" => video'[id] = "closed",
           \A r \in Readers : /\ Follows(r, id) => got'[r] = got[r]
                              /\ Follows(r, id)' <=> Follows(r, id)
                              /\ Follows(r, id)' /\ reader'[r].at = "over" => reader[r].at = "over"
    PROVE  Delivery(id)'
<1>1. ChannelHolds(id)'
  BY DEF Delivery, ChannelHolds
<1>2. TakenBefore(id)'
  BY DEF Delivery, TakenBefore
<1>3. TakenOnce(id)'
  BY DEF Delivery, TakenOnce
<1>4. NoneLost(id)'
  BY DEF Delivery, NoneLost
<1>5. OverIsEmpty(id)'
  BY DEF Delivery, OverIsEmpty
<1> QED
  BY <1>1, <1>2, <1>3, <1>4, <1>5 DEF Delivery

(* The same where a request that has taken nothing begins to follow. *)
LEMMA FollowerJoins ==
    ASSUME NEW id \in VideoIds, Delivery(id), NEW q \in Readers,
           channel' = channel, eventsMade' = eventsMade, dropped' = dropped, video' = video, got' = got,
           got[q] = <<>>, ~Follows(q, id), Follows(q, id)', reader'[q].at # "over",
           \A r \in Readers : r # q => reader'[r] = reader[r]
    PROVE  Delivery(id)'
<1>0. /\ \A r \in Readers : r # q => (Follows(r, id)' <=> Follows(r, id))
      /\ \A e : ~In(e, got[q])
  BY DEF Follows, In
<1>1. ChannelHolds(id)'
  BY DEF Delivery, ChannelHolds, Increasing, In
<1>2. TakenBefore(id)'
  <2> SUFFICES ASSUME NEW r \in Readers, Follows(r, id)'
               PROVE  /\ Increasing(got[r])
                      /\ \A e \in Nat : In(e, got[r]) => e \in 1..eventsMade[id] /\ e \notin dropped[id]
                      /\ \A e, f \in Nat : In(e, got[r]) /\ In(f, channel[id]) => e < f
    BY DEF TakenBefore
  <2>1. CASE r = q
    BY <2>1 DEF Increasing, In
  <2>2. CASE r # q
    BY <1>0, <2>2 DEF Delivery, TakenBefore
  <2> QED
    BY <2>1, <2>2
<1>3. TakenOnce(id)'
  <2> SUFFICES ASSUME NEW r \in Readers, NEW s \in Readers, NEW e \in Nat,
                      Follows(r, id)', Follows(s, id)', In(e, got[r]), In(e, got[s])
               PROVE  r = s
    BY DEF TakenOnce
  <2>1. r # q /\ s # q
    BY <1>0
  <2>2. Follows(r, id) /\ Follows(s, id)
    BY <1>0, <2>1
  <2> QED
    BY <2>2 DEF Delivery, TakenOnce
<1>4. NoneLost(id)'
  <2> SUFFICES ASSUME NEW e \in 1..eventsMade[id], e \notin dropped[id], ~In(e, channel[id])
               PROVE  \E r \in Readers : Follows(r, id)' /\ In(e, got[r])
    BY DEF NoneLost
  <2>1. PICK r \in Readers : Follows(r, id) /\ In(e, got[r])
    BY DEF Delivery, NoneLost
  <2>2. r # q
    BY <2>1
  <2> QED
    BY <1>0, <2>1, <2>2
<1>5. OverIsEmpty(id)'
  BY <1>0 DEF Delivery, OverIsEmpty
<1> QED
  BY <1>1, <1>2, <1>3, <1>4, <1>5 DEF Delivery

LEMMA EmitDelivers ==
    ASSUME Delivered, NEW id \in VideoIds, Emit(id)
    PROVE  Delivery(id)'
<1>0. /\ channel[id] \in Seq(Nat) /\ eventsMade[id] \in Nat /\ dropped[id] \subseteq Nat
      /\ Delivery(id) /\ reader' = reader /\ got' = got /\ video' = video
  BY DEF Delivered, ApiTypes, Emit, tableVars, requestVars
<1> DEFINE e == eventsMade[id] + 1
<1>1. /\ eventsMade'[id] = e /\ e \in Nat /\ 1..e = 1..eventsMade[id] \cup {e}
      /\ \A x \in 1..eventsMade[id] : x < e /\ x # e
  BY DEF Emit, Delivered, ApiTypes
<1> HIDE DEF e
<1>2. \A r \in Readers : Follows(r, id)' <=> Follows(r, id)
  BY <1>0 DEF Follows
<1>3. OverIsEmpty(id)'
  <2>1. \A r \in Readers : Follows(r, id) => reader[r].at # "over"
    BY <1>0 DEF Delivery, OverIsEmpty, Emit
  <2> QED
    BY <1>0, <1>2, <2>1 DEF OverIsEmpty
<1>4. TakenOnce(id)'
  BY <1>0, <1>2 DEF Delivery, TakenOnce
<1>5. CASE Len(channel[id]) < ChannelSize
  <2>1. channel'[id] = Append(channel[id], e) /\ dropped'[id] = dropped[id]
    BY <1>1, <1>5 DEF Emit, Delivered, ApiTypes
  <2>2. \A x \in Nat : In(x, channel'[id]) <=> In(x, channel[id]) \/ x = e
    BY <1>0, <1>1, <2>1, AppendIn
  <2>3. \A x \in Nat : In(x, channel[id]) => x < e
    BY <1>0, <1>1 DEF Delivery, ChannelHolds
  <2>4. Increasing(channel[id])'
    BY <1>0, <1>1, <2>1, <2>3, AppendIn DEF Delivery, ChannelHolds, Increasing
  <2>5. ChannelHolds(id)'
    BY <1>0, <1>1, <2>1, <2>2, <2>4 DEF Delivery, ChannelHolds
  <2>6. TakenBefore(id)'
    <3> SUFFICES ASSUME NEW r \in Readers, Follows(r, id)
                 PROVE  /\ Increasing(got[r])
                        /\ \A x \in Nat : In(x, got[r]) => x \in 1..e /\ x \notin dropped[id]
                        /\ \A x, f \in Nat : In(x, got[r]) /\ In(f, channel'[id]) => x < f
      BY <1>0, <1>1, <1>2, <2>1 DEF TakenBefore
    <3>1. /\ Increasing(got[r])
          /\ \A x \in Nat : In(x, got[r]) => x \in 1..eventsMade[id] /\ x \notin dropped[id]
          /\ \A x, f \in Nat : In(x, got[r]) /\ In(f, channel[id]) => x < f
      BY <1>0 DEF Delivery, TakenBefore
    <3> QED
      BY <1>0, <1>1, <2>2, <3>1
  <2>7. NoneLost(id)'
    <3> SUFFICES ASSUME NEW x \in 1..e
                 PROVE  \/ x \in dropped[id] \/ In(x, channel'[id])
                        \/ \E r \in Readers : Follows(r, id) /\ In(x, got[r])
      BY <1>0, <1>1, <1>2, <2>1 DEF NoneLost
    <3>1. CASE x = e
      BY <1>1, <2>2, <3>1
    <3>2. CASE x # e
      <4>1. x \in 1..eventsMade[id] /\ x \in Nat
        BY <1>0, <1>1, <3>2
      <4> QED
        BY <1>0, <2>2, <4>1 DEF Delivery, NoneLost
    <3> QED
      BY <3>1, <3>2
  <2> QED
    BY <1>3, <1>4, <2>5, <2>6, <2>7 DEF Delivery
<1>6. CASE ~(Len(channel[id]) < ChannelSize)
  <2>1. channel'[id] = channel[id] /\ dropped'[id] = dropped[id] \cup {e}
    BY <1>1, <1>6 DEF Emit, Delivered, ApiTypes
  <2>2. ChannelHolds(id)'
    BY <1>0, <1>1, <2>1 DEF Delivery, ChannelHolds
  <2>3. TakenBefore(id)'
    <3> SUFFICES ASSUME NEW r \in Readers, Follows(r, id)
                 PROVE  /\ Increasing(got[r])
                        /\ \A x \in Nat : In(x, got[r]) => x \in 1..e /\ x \notin dropped[id] /\ x # e
                        /\ \A x, f \in Nat : In(x, got[r]) /\ In(f, channel[id]) => x < f
      BY <1>0, <1>1, <1>2, <2>1 DEF TakenBefore
    <3>1. /\ Increasing(got[r])
          /\ \A x \in Nat : In(x, got[r]) => x \in 1..eventsMade[id] /\ x \notin dropped[id]
          /\ \A x, f \in Nat : In(x, got[r]) /\ In(f, channel[id]) => x < f
      BY <1>0 DEF Delivery, TakenBefore
    <3> QED
      BY <1>0, <1>1, <3>1
  <2>4. NoneLost(id)'
    BY <1>0, <1>1, <1>2, <2>1 DEF Delivery, NoneLost
  <2> QED
    BY <1>3, <1>4, <2>2, <2>3, <2>4 DEF Delivery
<1> QED
  BY <1>5, <1>6

LEMMA TakeDelivers ==
    ASSUME Delivered, NEW q \in Readers, TakeEvent(q)
    PROVE  Delivery(reader[q].id)' /\ got' \in [Readers -> Seq(Nat)] /\ channel' \in [VideoIds -> Seq(Nat)]
<1> DEFINE id == reader[q].id
           h == Head(channel[id])
<1>0. /\ id \in VideoIds /\ Follows(q, id) /\ channel[id] # <<>> /\ reader[q].at = "reading"
      /\ channel \in [VideoIds -> Seq(Nat)] /\ got \in [Readers -> Seq(Nat)]
  BY DEF Delivered, ApiTypes, TakeEvent, ReaderStates, Follows
<1>1. /\ got' = [got EXCEPT ![q] = Append(@, h)]
      /\ channel' = [channel EXCEPT ![id] = Tail(@)]
  BY DEF TakeEvent
<1>2. /\ eventsMade' = eventsMade /\ dropped' = dropped /\ video' = video /\ reader' = reader
  BY DEF TakeEvent, Reads, tableVars, Delivered, ApiTypes
<1>3. Delivery(id)
  BY <1>0 DEF Delivered
<1> HIDE DEF id, h
<1>4. /\ h \in Nat /\ In(h, channel[id]) /\ Tail(channel[id]) \in Seq(Nat)
      /\ \A x \in Nat : In(x, channel[id]) <=> In(x, Tail(channel[id])) \/ x = h
      /\ Increasing(Tail(channel[id]))
      /\ \A x \in Nat : In(x, Tail(channel[id])) => h < x
  <2>1. Increasing(channel[id])
    BY <1>3 DEF Delivery, ChannelHolds
  <2> QED
    BY <1>0, <2>1, TailIn DEF h
<1>5. /\ Append(got[q], h) \in Seq(Nat)
      /\ \A x \in Nat : In(x, Append(got[q], h)) <=> In(x, got[q]) \/ x = h
      /\ Increasing(Append(got[q], h))
  <2>1. Increasing(got[q]) /\ \A x \in Nat : In(x, got[q]) => x < h
    BY <1>0, <1>3, <1>4 DEF Delivery, TakenBefore
  <2> QED
    BY <1>0, <1>4, <2>1, AppendIn
<1>6. got' \in [Readers -> Seq(Nat)] /\ channel' \in [VideoIds -> Seq(Nat)]
  BY <1>0, <1>1, <1>4, <1>5
<1>7. channel'[id] = Tail(channel[id]) /\ got'[q] = Append(got[q], h)
      /\ \A r \in Readers : r # q => got'[r] = got[r]
  BY <1>0, <1>1
<1>8. \A r \in Readers : Follows(r, id)' <=> Follows(r, id)
  BY <1>2 DEF Follows, id
<1>9. \A r \in Readers : Follows(r, id) => ~In(h, got[r])
  <2>1. \A r \in Readers : Follows(r, id) /\ In(h, got[r]) => h < h
    BY <1>3, <1>4 DEF Delivery, TakenBefore
  <2> QED
    BY <1>4, <2>1
<1>10. h \in 1..eventsMade[id] /\ h \notin dropped[id]
  BY <1>3, <1>4 DEF Delivery, ChannelHolds
<1> DEFINE soFar == eventsMade[id]
           full == dropped[id]
           left == channel'[id]
           now == got'
<1>11. Increasing(left) /\ (\A x \in Nat : In(x, left) => x \in 1..soFar /\ x \notin full /\ h < x)
       /\ full \subseteq 1..soFar
  BY <1>3, <1>4, <1>7 DEF Delivery, ChannelHolds
<1>12. \A r \in Readers : Follows(r, id) =>
          /\ Increasing(now[r])
          /\ \A x \in Nat : In(x, now[r]) => x \in 1..soFar /\ x \notin full
          /\ \A x, f \in Nat : In(x, now[r]) /\ In(f, left) => x < f
  <2> SUFFICES ASSUME NEW r \in Readers, Follows(r, id)
               PROVE  /\ Increasing(now[r])
                      /\ \A x \in Nat : In(x, now[r]) => x \in 1..soFar /\ x \notin full
                      /\ \A x, f \in Nat : In(x, now[r]) /\ In(f, left) => x < f
    OBVIOUS
  <2>1. /\ Increasing(got[r])
        /\ \A x \in Nat : In(x, got[r]) => x \in 1..soFar /\ x \notin full
        /\ \A x, f \in Nat : In(x, got[r]) /\ In(f, channel[id]) => x < f
    BY <1>3 DEF Delivery, TakenBefore
  <2>2. \A f \in Nat : In(f, left) => In(f, channel[id]) /\ h < f
    BY <1>4, <1>7
  <2>3. CASE r = q
    BY <1>5, <1>7, <1>10, <2>1, <2>2, <2>3
  <2>4. CASE r # q
    BY <1>7, <2>1, <2>2, <2>4
  <2> QED
    BY <2>3, <2>4
<1>13. \A r, s \in Readers : \A x \in Nat :
          Follows(r, id) /\ Follows(s, id) /\ In(x, now[r]) /\ In(x, now[s]) => r = s
  <2>1. \A r \in Readers : \A x \in Nat :
           Follows(r, id) /\ In(x, now[r]) => In(x, got[r]) \/ (r = q /\ x = h)
    BY <1>5, <1>7
  <2> QED
    BY <1>3, <1>9, <2>1 DEF Delivery, TakenOnce
<1>14. \A x \in 1..soFar : \/ x \in full \/ In(x, left)
                          \/ \E r \in Readers : Follows(r, id) /\ In(x, now[r])
  <2> SUFFICES ASSUME NEW x \in 1..soFar, x \notin full, ~In(x, left)
               PROVE  \E r \in Readers : Follows(r, id) /\ In(x, now[r])
    OBVIOUS
  <2>0. x \in Nat
    OBVIOUS
  <2>1. In(x, channel[id]) \/ \E r \in Readers : Follows(r, id) /\ In(x, got[r])
    BY <1>3 DEF Delivery, NoneLost
  <2>2. CASE In(x, channel[id])
    BY <1>0, <1>4, <1>5, <1>7, <2>0, <2>2
  <2>3. CASE \E r \in Readers : Follows(r, id) /\ In(x, got[r])
    BY <1>5, <1>7, <2>0, <2>3
  <2> QED
    BY <2>1, <2>2, <2>3
<1>15. \A r \in Readers : Follows(r, id) => reader[r].at # "over"
  BY <1>0, <1>3 DEF Delivery, OverIsEmpty
<1>16. ChannelHolds(id)'
  BY <1>2, <1>11 DEF ChannelHolds, id
<1>17. TakenBefore(id)'
  BY <1>2, <1>8, <1>12 DEF TakenBefore, id
<1>18. TakenOnce(id)'
  BY <1>2, <1>8, <1>13 DEF TakenOnce, id
<1>19. NoneLost(id)'
  BY <1>2, <1>8, <1>14 DEF NoneLost, id
<1>20. OverIsEmpty(id)'
  BY <1>2, <1>8, <1>15 DEF OverIsEmpty, id
<1> QED
  BY <1>6, <1>16, <1>17, <1>18, <1>19, <1>20 DEF Delivery, id

LEMMA DeliveredStep == Delivered /\ [VideoApiNext]_apiVars => Delivered'
<1> SUFFICES ASSUME Delivered, [VideoApiNext]_apiVars PROVE Delivered'
  OBVIOUS
<1> USE DEF tableVars, eventVars, requestVars
<1>0. /\ ApiTypes /\ TableIsOpen /\ IdleHasNone /\ \A id \in VideoIds : Delivery(id)
  BY DEF Delivered
<1>1. ASSUME NEW id \in VideoIds, Create(id) PROVE Delivered'
  <2>1. ApiTypes' /\ TableIsOpen' /\ IdleHasNone'
    BY <1>0, <1>1 DEF ApiTypes, TableIsOpen, IdleHasNone, Create
  <2>2. ASSUME NEW v \in VideoIds PROVE Delivery(v)'
    BY <1>0, <1>1, DeliveryStays DEF Create, ApiTypes, Follows
  <2> QED
    BY <2>1, <2>2 DEF Delivered
<1>2. ASSUME NEW id \in VideoIds, RemoveVideo(id) PROVE Delivered'
  <2>1. ApiTypes' /\ TableIsOpen' /\ IdleHasNone'
    BY <1>0, <1>2 DEF ApiTypes, TableIsOpen, IdleHasNone, RemoveVideo
  <2>2. ASSUME NEW v \in VideoIds PROVE Delivery(v)'
    <3>1. video[v] = "closed" => video'[v] = "closed"
      BY <1>0, <1>2 DEF RemoveVideo, ApiTypes, TableIsOpen
    <3> QED
      BY <1>0, <1>2, <3>1, DeliveryStays DEF RemoveVideo, Follows
  <2> QED
    BY <2>1, <2>2 DEF Delivered
<1>3. ASSUME NEW id \in VideoIds, Emit(id) PROVE Delivered'
  <2>1. channel' \in [VideoIds -> Seq(Nat)] /\ eventsMade' \in [VideoIds -> Nat]
        /\ dropped' \in [VideoIds -> SUBSET Nat]
    <3>1. eventsMade'[id] \in Nat /\ eventsMade' \in [VideoIds -> Nat]
      BY <1>0, <1>3 DEF ApiTypes, Emit
    <3>2. channel[id] \in Seq(Nat) /\ dropped[id] \subseteq Nat
      BY <1>0 DEF ApiTypes
    <3>3. CASE Len(channel[id]) < ChannelSize
      <4>1. /\ channel' = [channel EXCEPT ![id] = Append(channel[id], eventsMade'[id])]
            /\ dropped' = dropped
        BY <1>3, <3>3 DEF Emit
      <4>2. Append(channel[id], eventsMade'[id]) \in Seq(Nat)
        BY <3>1, <3>2
      <4> QED
        BY <1>0, <3>1, <4>1, <4>2 DEF ApiTypes
    <3>4. CASE ~(Len(channel[id]) < ChannelSize)
      <4>1. /\ dropped' = [dropped EXCEPT ![id] = dropped[id] \cup {eventsMade'[id]}]
            /\ channel' = channel
        BY <1>3, <3>4 DEF Emit
      <4> QED
        BY <1>0, <3>1, <3>2, <4>1 DEF ApiTypes
    <3> QED
      BY <3>3, <3>4
  <2>2. ApiTypes' /\ TableIsOpen' /\ IdleHasNone'
    BY <1>0, <1>3, <2>1 DEF ApiTypes, TableIsOpen, IdleHasNone, Emit
  <2>3. ASSUME NEW v \in VideoIds, v # id PROVE Delivery(v)'
    <3>1. channel'[v] = channel[v] /\ eventsMade'[v] = eventsMade[v] /\ dropped'[v] = dropped[v]
      BY <1>0, <1>3, <2>3 DEF ApiTypes, Emit
    <3> QED
      BY <1>0, <1>3, <3>1, DeliveryStays DEF Emit, Follows
  <2>4. Delivery(id)'
    BY <1>3, EmitDelivers
  <2> QED
    BY <2>2, <2>3, <2>4 DEF Delivered
<1>4. ASSUME NEW id \in VideoIds, CloseEvents(id) PROVE Delivered'
  <2>1. ApiTypes' /\ TableIsOpen' /\ IdleHasNone'
    BY <1>0, <1>4 DEF ApiTypes, TableIsOpen, IdleHasNone, CloseEvents
  <2>2. ASSUME NEW v \in VideoIds PROVE Delivery(v)'
    BY <1>0, <1>4, DeliveryStays DEF CloseEvents, ApiTypes, Follows
  <2> QED
    BY <2>1, <2>2 DEF Delivered
<1>5. ASSUME NEW q \in Readers, NEW id \in VideoIds, FollowEvents(q, id) PROVE Delivered'
  <2>0. /\ reader[q].at = "idle" /\ got[q] = <<>> /\ \A v \in VideoIds : ~Follows(q, v)
        /\ channel' = channel /\ eventsMade' = eventsMade /\ dropped' = dropped
        /\ video' = video /\ sessions' = sessions /\ got' = got
        /\ \A r \in Readers : r # q => reader'[r] = reader[r]
    BY <1>0, <1>5 DEF FollowEvents, Reads, IdleHasNone, ApiTypes, Follows
  <2>1. CASE id \in sessions
    <3>1. reader' = [reader EXCEPT ![q] = [at |-> "reading", id |-> id, client |-> TRUE]]
      BY <1>5, <2>1 DEF FollowEvents, Reads
    <3>2. reader'[q] = [at |-> "reading", id |-> id, client |-> TRUE]
      BY <1>0, <3>1 DEF ApiTypes
    <3>3. ApiTypes' /\ TableIsOpen' /\ IdleHasNone'
      BY <1>0, <2>0, <3>1, <3>2 DEF ApiTypes, TableIsOpen, IdleHasNone, ReaderStates
    <3>4. ASSUME NEW v \in VideoIds, v # id PROVE Delivery(v)'
      BY <1>0, <2>0, <3>2, <3>4, DeliveryStays DEF Follows
    <3>5. Follows(q, id)' /\ reader'[q].at # "over"
      BY <3>2 DEF Follows
    <3>6. Delivery(id)'
      BY <1>0, <2>0, <3>5, FollowerJoins
    <3> QED
      BY <3>3, <3>4, <3>6 DEF Delivered
  <2>2. CASE id \notin sessions
    <3>1. reader' = [reader EXCEPT ![q] = [at |-> "not found", client |-> TRUE]]
      BY <1>5, <2>2 DEF FollowEvents, Reads
    <3>2. reader'[q] = [at |-> "not found", client |-> TRUE]
      BY <1>0, <3>1 DEF ApiTypes
    <3>3. ApiTypes' /\ TableIsOpen' /\ IdleHasNone'
      BY <1>0, <2>0, <3>1, <3>2 DEF ApiTypes, TableIsOpen, IdleHasNone, ReaderStates
    <3>4. \A r \in Readers, v \in VideoIds : Follows(r, v)' => r # q
      <4>1. reader'[q].at = "not found"
        <5> DEFINE missing == [at |-> "not found", client |-> TRUE]
        <5>1. reader'[q] = missing /\ missing.at = "not found"
          BY <3>2
        <5> HIDE DEF missing
        <5> QED
          BY <5>1
      <4> QED
        BY <4>1 DEF Follows
    <3>5. \A r \in Readers, v \in VideoIds : Follows(r, v)' <=> Follows(r, v)
      BY <2>0, <3>4 DEF Follows
    <3>6. ASSUME NEW v \in VideoIds PROVE Delivery(v)'
      <4>1. \A r \in Readers : /\ Follows(r, v) => got'[r] = got[r]
                               /\ Follows(r, v)' <=> Follows(r, v)
                               /\ Follows(r, v)' /\ reader'[r].at = "over" => reader[r].at = "over"
        BY <2>0, <3>4, <3>5
      <4>2. /\ Delivery(v) /\ channel'[v] = channel[v] /\ eventsMade'[v] = eventsMade[v]
            /\ dropped'[v] = dropped[v] /\ video'[v] = video[v]
        BY <1>0, <2>0
      <4> QED
        BY <4>1, <4>2, DeliveryStays
    <3> QED
      BY <3>3, <3>6 DEF Delivered
  <2> QED
    BY <2>1, <2>2
<1>6. ASSUME NEW q \in Readers, TakeEvent(q) PROVE Delivered'
  <2>0. /\ eventsMade' = eventsMade /\ dropped' = dropped /\ video' = video /\ sessions' = sessions
        /\ reader' = reader /\ reader[q].at = "reading"
        /\ \A r \in Readers : r # q => got'[r] = got[r]
        /\ \A v \in VideoIds : v # reader[q].id => channel'[v] = channel[v]
    BY <1>0, <1>6 DEF TakeEvent, Reads, ApiTypes
  <2>1. Delivery(reader[q].id)' /\ got' \in [Readers -> Seq(Nat)] /\ channel' \in [VideoIds -> Seq(Nat)]
    BY <1>6, TakeDelivers
  <2>2. ApiTypes' /\ TableIsOpen' /\ IdleHasNone'
    BY <1>0, <2>0, <2>1 DEF ApiTypes, TableIsOpen, IdleHasNone
  <2>3. ASSUME NEW v \in VideoIds, v # reader[q].id PROVE Delivery(v)'
    <3>1. \A r \in Readers : Follows(r, v) => r # q
      BY <2>3 DEF Follows
    <3> QED
      BY <1>0, <2>0, <2>3, <3>1, DeliveryStays DEF Follows
  <2>4. \A v \in VideoIds : Delivery(v)'
    BY <2>0, <2>1, <2>3
  <2> QED
    BY <2>2, <2>4 DEF Delivered
<1>7. ASSUME NEW q \in Readers, EventsOver(q) \/ ClientGoes(q) \/ Abandon(q) PROVE Delivered'
  <2>0. /\ channel' = channel /\ eventsMade' = eventsMade /\ dropped' = dropped
        /\ video' = video /\ sessions' = sessions /\ got' = got
        /\ reader[q].at = "reading" /\ reader[q] \in ReaderStates
        /\ \A r \in Readers : r # q => reader'[r] = reader[r]
    BY <1>0, <1>7 DEF EventsOver, ClientGoes, Abandon, Reads, ApiTypes
  <2>1. /\ reader'[q] \in ReaderStates /\ reader'[q].at \in {"reading", "over", "gone"}
        /\ reader'[q].id = reader[q].id /\ reader' \in [Readers -> ReaderStates]
    <3>1. CASE EventsOver(q)
      <4>1. /\ reader' = [reader EXCEPT ![q] = [reader[q] EXCEPT !.at = "over"]]
            /\ reader'[q] = [reader[q] EXCEPT !.at = "over"]
        BY <1>0, <3>1 DEF EventsOver, Reads, ApiTypes
      <4> QED
        BY <1>0, <2>0, <4>1 DEF ApiTypes, ReaderStates
    <3>2. CASE ClientGoes(q)
      <4>1. /\ reader' = [reader EXCEPT ![q] = [reader[q] EXCEPT !.client = FALSE]]
            /\ reader'[q] = [reader[q] EXCEPT !.client = FALSE]
        BY <1>0, <3>2 DEF ClientGoes, Reads, ApiTypes
      <4> QED
        BY <1>0, <2>0, <4>1 DEF ApiTypes, ReaderStates
    <3>3. CASE Abandon(q)
      <4>1. /\ reader' = [reader EXCEPT ![q] = [reader[q] EXCEPT !.at = "gone"]]
            /\ reader'[q] = [reader[q] EXCEPT !.at = "gone"]
        BY <1>0, <3>3 DEF Abandon, Reads, ApiTypes
      <4> QED
        BY <1>0, <2>0, <4>1 DEF ApiTypes, ReaderStates
    <3> QED
      BY <1>7, <3>1, <3>2, <3>3
  <2>2. reader'[q].at = "over" => video[reader[q].id] = "closed" /\ channel[reader[q].id] = <<>>
    <3>1. CASE EventsOver(q)
      BY <3>1 DEF EventsOver
    <3>2. CASE ClientGoes(q)
      <4>1. reader'[q] = [reader[q] EXCEPT !.client = FALSE]
        BY <1>0, <3>2 DEF ClientGoes, Reads, ApiTypes
      <4> QED
        BY <2>0, <4>1 DEF ReaderStates
    <3>3. CASE Abandon(q)
      <4>1. reader'[q] = [reader[q] EXCEPT !.at = "gone"]
        BY <1>0, <3>3 DEF Abandon, Reads, ApiTypes
      <4> QED
        BY <2>0, <4>1 DEF ReaderStates
    <3> QED
      BY <1>7, <3>1, <3>2, <3>3
  <2>3. ApiTypes' /\ TableIsOpen' /\ IdleHasNone'
    BY <1>0, <2>0, <2>1 DEF ApiTypes, TableIsOpen, IdleHasNone
  <2>4. \A r \in Readers, v \in VideoIds : Follows(r, v)' <=> Follows(r, v)
    BY <2>0, <2>1 DEF Follows
  <2>5. ASSUME NEW v \in VideoIds PROVE Delivery(v)'
    <3>1. ChannelHolds(v)'
      BY <1>0, <2>0 DEF Delivery, ChannelHolds
    <3>2. TakenBefore(v)'
      BY <1>0, <2>0, <2>4 DEF Delivery, TakenBefore
    <3>3. TakenOnce(v)'
      BY <1>0, <2>0, <2>4 DEF Delivery, TakenOnce
    <3>4. NoneLost(v)'
      BY <1>0, <2>0, <2>4 DEF Delivery, NoneLost
    <3>5. OverIsEmpty(v)'
      <4> SUFFICES ASSUME NEW r \in Readers, Follows(r, v), reader'[r].at = "over"
                   PROVE  video[v] = "closed" /\ channel[v] = <<>>
        BY <2>0, <2>4 DEF OverIsEmpty
      <4>1. CASE r = q
        BY <2>2, <4>1 DEF Follows
      <4>2. CASE r # q
        BY <1>0, <2>0, <4>2 DEF Delivery, OverIsEmpty
      <4> QED
        BY <4>1, <4>2
    <3> QED
      BY <3>1, <3>2, <3>3, <3>4, <3>5 DEF Delivery
  <2> QED
    BY <2>3, <2>5 DEF Delivered
<1>8. ASSUME UNCHANGED <<tableVars, eventVars, reader, got>> PROVE Delivered'
  <2>1. ApiTypes' /\ TableIsOpen' /\ IdleHasNone'
    BY <1>0, <1>8 DEF ApiTypes, TableIsOpen, IdleHasNone
  <2>2. ASSUME NEW v \in VideoIds PROVE Delivery(v)'
    BY <1>0, <1>8, DeliveryStays DEF Follows
  <2> QED
    BY <2>1, <2>2 DEF Delivered
<1>9. ASSUME NEW p \in Posters,
             (\E id \in VideoIds : PostFrame(p, id)) \/ SaveFrame(p) \/ SubmitFrame(p) \/ RemoveFile(p)
      PROVE  Delivered'
  <2>1. UNCHANGED <<tableVars, eventVars, reader, got>>
    BY <1>9 DEF PostFrame, SaveFrame, SubmitFrame, RemoveFile, Posts
  <2> QED
    BY <1>8, <2>1
<1> QED
  BY <1>1, <1>2, <1>3, <1>4, <1>5, <1>6, <1>7, <1>8, <1>9 DEF VideoApiNext, apiVars

-------------------------------------------------------------------------------
LEMMA HasId ==
    ASSUME NEW x \in ReaderStates
    PROVE  "id" \in DOMAIN x <=> x.at \in {"reading", "over", "gone"}
<1>1. CASE x \in [at : {"idle", "not found"}, client : BOOLEAN]
  <2>1. DOMAIN x = {"at", "client"} /\ x.at \in {"idle", "not found"}
    BY <1>1
  <2> QED
    BY <2>1
<1>2. CASE x \in [at : {"reading", "over", "gone"}, id : VideoIds, client : BOOLEAN]
  <2>1. DOMAIN x = {"at", "id", "client"} /\ x.at \in {"reading", "over", "gone"}
    BY <1>2
  <2> QED
    BY <2>1
<1> QED
  BY <1>1, <1>2 DEF ReaderStates

LEMMA DeliveredOnce == Delivered => EventsGoOnce
<1> SUFFICES ASSUME Delivered, NEW id \in VideoIds
             PROVE  LET taken == UNION {ToSet(got[r]) : r \in Following(id)}
                    IN  /\ \A r \in Following(id) :
                              \A i, j \in DOMAIN got[r] : i < j => got[r][i] < got[r][j]
                        /\ \A r, s \in Following(id) :
                              r = s \/ ToSet(got[r]) \intersect ToSet(got[s]) = {}
                        /\ taken \union ToSet(channel[id]) = 1..eventsMade[id] \ dropped[id]
                        /\ (\E r \in Following(id) : reader[r].at = "over") =>
                               taken = 1..eventsMade[id] \ dropped[id]
  BY DEF EventsGoOnce
<1>0. /\ reader \in [Readers -> ReaderStates] /\ got \in [Readers -> Seq(Nat)]
      /\ channel[id] \in Seq(Nat) /\ eventsMade[id] \in Nat /\ Delivery(id)
  BY DEF Delivered, ApiTypes
<1>1. \A r \in Following(id) : r \in Readers /\ Follows(r, id)
  BY <1>0, HasId DEF Following, Follows
<1>2. \A r \in Readers : Follows(r, id) => r \in Following(id)
  BY <1>0, HasId DEF Following, Follows
<1>3. \A s \in Seq(Nat) : \A e : e \in ToSet(s) <=> e \in Nat /\ In(e, s)
  BY DEF ToSet, In
<1> DEFINE taken == UNION {ToSet(got[r]) : r \in Following(id)}
<1>4. \A e : e \in taken <=> \E r \in Following(id) : e \in ToSet(got[r])
  OBVIOUS
<1> HIDE DEF taken
<1>5. \A r \in Following(id) : \A i, j \in DOMAIN got[r] : i < j => got[r][i] < got[r][j]
  BY <1>0, <1>1 DEF Delivery, TakenBefore, Increasing
<1>6. \A r, s \in Following(id) : r = s \/ ToSet(got[r]) \intersect ToSet(got[s]) = {}
  BY <1>0, <1>1, <1>3 DEF Delivery, TakenOnce
<1>7. taken \union ToSet(channel[id]) = 1..eventsMade[id] \ dropped[id]
  <2>1. \A e : e \in taken => e \in 1..eventsMade[id] /\ e \notin dropped[id]
    BY <1>0, <1>1, <1>3, <1>4 DEF Delivery, TakenBefore
  <2>2. \A e : e \in ToSet(channel[id]) => e \in 1..eventsMade[id] /\ e \notin dropped[id]
    BY <1>0, <1>3 DEF Delivery, ChannelHolds
  <2>3. ASSUME NEW e \in 1..eventsMade[id], e \notin dropped[id]
        PROVE  e \in taken \/ e \in ToSet(channel[id])
    <3>1. \/ In(e, channel[id])
          \/ \E r \in Readers : Follows(r, id) /\ In(e, got[r])
      BY <1>0, <2>3 DEF Delivery, NoneLost
    <3>2. e \in Nat
      BY <1>0
    <3> QED
      BY <1>0, <1>2, <1>3, <1>4, <3>1, <3>2
  <2> QED
    BY <2>1, <2>2, <2>3
<1>8. ASSUME NEW r \in Following(id), reader[r].at = "over"
      PROVE  taken = 1..eventsMade[id] \ dropped[id]
  <2>1. channel[id] = <<>>
    BY <1>0, <1>1, <1>8 DEF Delivery, OverIsEmpty
  <2>2. ToSet(channel[id]) = {}
    BY <2>1 DEF ToSet
  <2> QED
    BY <1>7, <2>2
<1> QED
  BY <1>5, <1>6, <1>7, <1>8 DEF taken

(* Every event of a session that its channel had room for goes to exactly  *)
(* one request, each request gets its own in order, and one that ends with *)
(* the session leaves none behind (video_inspect.go:94-129).               *)
THEOREM EventsGoOnceAlways == VideoApiSpec => []EventsGoOnce
<1>1. ApiInit => Delivered
  BY DeliveredInit
<1>2. Delivered /\ [VideoApiNext]_apiVars => Delivered'
  BY DeliveredStep
<1>3. Delivered => EventsGoOnce
  BY DeliveredOnce
<1> QED
  BY <1>1, <1>2, <1>3, PTL DEF VideoApiSpec

(* A session that can no longer be stopped by its id has been stopped      *)
(* (video_inspect.go:39-68).                                               *)
THEOREM NoSessionLeftAlways == VideoApiSpec => []NoSessionLeft
<1>1. ApiInit => Delivered
  BY DeliveredInit
<1>2. Delivered /\ [VideoApiNext]_apiVars => Delivered'
  BY DeliveredStep
<1>3. Delivered => NoSessionLeft
  BY DEF Delivered, TableIsOpen, NoSessionLeft
<1> QED
  BY <1>1, <1>2, <1>3, PTL DEF VideoApiSpec

-------------------------------------------------------------------------------
(* What makes HitIsRecent inductive: an entry of the cache is at least as  *)
(* old as the version it holds has been outdated, and no time passes       *)
(* between the reading of a page and its storing.                          *)
Ticks == 0..(TTL + 1)
FetchCalls == [at : {"idle"}] \cup [at : {"request"}, url : Urls, hops : Nat]
                \cup [at : {"read", "stored"}, url : Urls, version : Nat]

FetchTypes ==
    /\ page \in Nat \ {0}
    /\ outdated \in Seq(Ticks) /\ Len(outdated) = page - 1
    /\ DOMAIN cache \subseteq Urls
    /\ \A u \in DOMAIN cache : cache[u] \in [version : 1..page, age : Ticks]
    /\ fetch \in [Fetchers -> FetchCalls]
    /\ \A c \in Fetchers : fetch[c].at \in {"read", "stored"} => fetch[c].version \in 1..page
    /\ told.from = "cache" => told.version \in 1..page

EntriesAge ==
    \A u \in DOMAIN cache : cache[u].version < page => outdated[cache[u].version] <= cache[u].age
ReadJustNow ==
    \A c \in Fetchers : fetch[c].at = "read" /\ fetch[c].version < page => outdated[fetch[c].version] <= 0

Fetched == FetchTypes /\ EntriesAge /\ ReadJustNow /\ HitIsRecent /\ CacheBounded

-----------------------------------------------------------------------------
LEMMA FetchedInit == FetchInit => Fetched
<1> SUFFICES ASSUME FetchInit PROVE Fetched
  OBVIOUS
<1> USE WebAssumption DEF FetchInit, NoFetch, NotTold
<1>1. DOMAIN cache = {}
  OBVIOUS
<1>2. outdated \in Seq(Ticks) /\ Len(outdated) = 0
  OBVIOUS
<1>3. \A c \in Fetchers : fetch[c].at = "idle"
  OBVIOUS
<1>4. fetch \in [Fetchers -> FetchCalls]
  BY DEF FetchCalls
<1>5. told.from = "nothing"
  OBVIOUS
<1>6. CacheBounded
  BY <1>1, FS_EmptySet DEF CacheBounded
<1>7. page = 1
  OBVIOUS
<1> QED
  BY ONLY <1>1, <1>2, <1>3, <1>4, <1>5, <1>6, <1>7
  DEF Fetched, FetchTypes, EntriesAge, ReadJustNow, HitIsRecent

(* A call that leaves the web and the cache alone, and does not read. *)
LEMMA FetchedCalls ==
    ASSUME Fetched, NEW c \in Fetchers, UNCHANGED <<page, outdated, cache>>,
           \/ UNCHANGED fetch
           \/ fetch' = [fetch EXCEPT ![c] = NoFetch]
           \/ \E u \in Urls : fetch' = [fetch EXCEPT ![c] = [at |-> "request", url |-> u, hops |-> 0]]
           \/ fetch[c].at = "request" /\ fetch' = [fetch EXCEPT ![c].hops = @ + 1],
           \/ UNCHANGED told
           \/ told'.from # "cache"
           \/ \E u \in DOMAIN cache : cache[u].age <= TTL /\ told' = [from |-> "cache", version |-> cache[u].version]
    PROVE  Fetched'
<1>0. FetchTypes /\ EntriesAge /\ ReadJustNow /\ HitIsRecent /\ CacheBounded
  BY DEF Fetched
<1>1. fetch'[c] = fetch[c] \/ fetch'[c] \in [at : {"idle"}] \cup [at : {"request"}, url : Urls, hops : Nat]
  <2>1. CASE UNCHANGED fetch
    BY <2>1
  <2>2. CASE fetch' = [fetch EXCEPT ![c] = NoFetch]
    BY <1>0, <2>2 DEF FetchTypes, NoFetch
  <2>3. CASE \E u \in Urls : fetch' = [fetch EXCEPT ![c] = [at |-> "request", url |-> u, hops |-> 0]]
    BY <1>0, <2>3 DEF FetchTypes
  <2>4. CASE fetch[c].at = "request" /\ fetch' = [fetch EXCEPT ![c].hops = @ + 1]
    <3>1. fetch[c] \in [at : {"request"}, url : Urls, hops : Nat]
      BY <1>0, <2>4 DEF FetchTypes, FetchCalls
    <3>2. fetch'[c] = [fetch[c] EXCEPT !.hops = @ + 1]
      BY <1>0, <2>4 DEF FetchTypes
    <3> QED
      BY <3>1, <3>2
  <2> QED
    BY <2>1, <2>2, <2>3, <2>4
<1>2. /\ DOMAIN fetch' = DOMAIN fetch
      /\ \A d \in Fetchers : d # c => fetch'[d] = fetch[d]
      /\ fetch' = [d \in Fetchers |-> fetch'[d]]
  BY <1>0 DEF FetchTypes
<1>3. fetch' \in [Fetchers -> FetchCalls]
  BY <1>0, <1>1, <1>2 DEF FetchTypes, FetchCalls
<1>4. \A d \in Fetchers : fetch'[d].at \in {"read", "stored"} => fetch'[d] = fetch[d]
  BY <1>1, <1>2
<1>5. told'.from = "cache" => told'.version \in 1..page /\ (told'.version < page => outdated[told'.version] <= TTL)
  <2>1. CASE UNCHANGED told
    BY <1>0, <2>1 DEF FetchTypes, HitIsRecent
  <2>2. CASE told'.from # "cache"
    BY <2>2
  <2>3. CASE \E u \in DOMAIN cache : cache[u].age <= TTL /\ told' = [from |-> "cache", version |-> cache[u].version]
    <3>1. PICK u \in DOMAIN cache : cache[u].age <= TTL /\ told' = [from |-> "cache", version |-> cache[u].version]
      BY <2>3
    <3>2. cache[u] \in [version : 1..page, age : Ticks] /\ page \in Nat \ {0} /\ outdated \in Seq(Ticks) /\ Len(outdated) = page - 1
      BY <1>0, <3>1 DEF FetchTypes
    <3>3. cache[u].version < page => outdated[cache[u].version] <= cache[u].age
      BY <1>0, <3>1 DEF EntriesAge
    <3>4. told'.version = cache[u].version
      BY <3>1
    <3>5. cache[u].version < page => outdated[cache[u].version] \in Ticks
      BY <3>2
    <3> QED
      BY <3>1, <3>2, <3>3, <3>4, <3>5, WebAssumption DEF Ticks
  <2> QED
    BY <2>1, <2>2, <2>3
<1>6. page' = page /\ outdated' = outdated /\ cache' = cache
  OBVIOUS
<1>7. FetchTypes'
  BY <1>0, <1>3, <1>4, <1>5, <1>6 DEF FetchTypes
<1> QED
  BY <1>0, <1>4, <1>5, <1>6, <1>7 DEF Fetched, EntriesAge, ReadJustNow, HitIsRecent, CacheBounded

LEMMA FetchedRead == ASSUME Fetched, NEW c \in Fetchers, Read(c) PROVE Fetched'
<1>0. FetchTypes /\ EntriesAge /\ ReadJustNow /\ HitIsRecent /\ CacheBounded
  BY DEF Fetched
<1>1. fetch[c] \in [at : {"request"}, url : Urls, hops : Nat]
  BY <1>0 DEF FetchTypes, FetchCalls, Read
<1>2. fetch' = [fetch EXCEPT ![c] = [at |-> "read", url |-> fetch[c].url, version |-> page]]
  BY <1>0 DEF FetchTypes, Read
<1>3. /\ fetch'[c] = [at |-> "read", url |-> fetch[c].url, version |-> page]
      /\ \A d \in Fetchers : d # c => fetch'[d] = fetch[d]
      /\ fetch' = [d \in Fetchers |-> fetch'[d]]
  BY <1>0, <1>2 DEF FetchTypes
<1>4. fetch'[c] \in FetchCalls /\ fetch'[c].at = "read" /\ fetch'[c].version = page
  BY <1>0, <1>1, <1>3 DEF FetchTypes, FetchCalls
<1>5. page' = page /\ outdated' = outdated /\ cache' = cache /\ told' = told
  BY DEF Read
<1>6. fetch' \in [Fetchers -> FetchCalls]
  BY <1>0, <1>3, <1>4 DEF FetchTypes
<1>7. FetchTypes'
  <2>1. \A d \in Fetchers : fetch'[d].at \in {"read", "stored"} => fetch'[d].version \in 1..page
    BY <1>0, <1>3, <1>4 DEF FetchTypes
  <2> QED
    BY <1>0, <1>5, <1>6, <2>1 DEF FetchTypes
<1>8. ReadJustNow'
  <2>1. page \in Nat
    BY <1>0 DEF FetchTypes
  <2> QED
    BY <1>0, <1>3, <1>4, <1>5, <2>1 DEF ReadJustNow
<1> QED
  BY <1>0, <1>5, <1>7, <1>8 DEF Fetched, EntriesAge, HitIsRecent, CacheBounded

(* Set keeps the number of entries within the size. *)
LEMMA StoredIsBounded ==
    ASSUME NEW entries, IsFiniteSet(DOMAIN entries), Cardinality(DOMAIN entries) <= CacheSize,
           NEW url, NEW entry, NEW stored \in StoredIn(entries, url, entry)
    PROVE  /\ Cardinality(DOMAIN stored) <= CacheSize
           /\ DOMAIN stored \subseteq DOMAIN entries \cup {url}
           /\ \A u \in DOMAIN stored : stored[u] = IF u = url THEN entry ELSE entries[u]
<1> DEFINE full == Cardinality(DOMAIN entries) >= CacheSize
           keeps == IF full THEN {DOMAIN entries \ {u} : u \in DOMAIN entries} ELSE {DOMAIN entries}
<1>1. PICK left \in keeps : stored = [u \in left \cup {url} |-> IF u = url THEN entry ELSE entries[u]]
  BY DEF StoredIn
<1>2. left \subseteq DOMAIN entries
  BY <1>1
<1>3. DOMAIN stored = left \cup {url} /\ \A u \in DOMAIN stored : stored[u] = IF u = url THEN entry ELSE entries[u]
  BY <1>1
<1>4. IsFiniteSet(left) /\ Cardinality(left) \in Nat /\ Cardinality(DOMAIN entries) \in Nat
  BY <1>2, FS_Subset, FS_CardinalityType
<1>5. CacheSize \in Nat \ {0}
  BY WebAssumption
<1>6. Cardinality(left) < CacheSize
  <2>1. CASE full
    <3>1. PICK u \in DOMAIN entries : left = DOMAIN entries \ {u}
      BY <1>1, <2>1
    <3>2. Cardinality(left) = Cardinality(DOMAIN entries) - 1
      BY <3>1, FS_RemoveElement
    <3> QED
      BY <1>4, <1>5, <3>2
  <2>2. CASE ~full
    <3>1. left = DOMAIN entries
      BY <1>1, <2>2
    <3> QED
      BY <1>4, <1>5, <2>2, <3>1
  <2> QED
    BY <2>1, <2>2
<1>7. Cardinality(left \cup {url}) <= Cardinality(left) + 1
  <2>1. Cardinality(left \cup {url}) = IF url \in left THEN Cardinality(left) ELSE Cardinality(left) + 1
    BY <1>4, FS_AddElement
  <2> QED
    BY <1>4, <2>1
<1>8. Cardinality(left \cup {url}) \in Nat
  BY <1>4, FS_AddElement, FS_CardinalityType
<1>9. Cardinality(left \cup {url}) <= CacheSize
  BY <1>4, <1>5, <1>6, <1>7, <1>8
<1> QED
  BY <1>2, <1>3, <1>9

LEMMA FetchedStore == ASSUME Fetched, NEW c \in Fetchers, Store(c) PROVE Fetched'
<1>0. FetchTypes /\ EntriesAge /\ ReadJustNow /\ HitIsRecent /\ CacheBounded
  BY DEF Fetched
<1>1. /\ fetch[c] \in [at : {"read", "stored"}, url : Urls, version : Nat] /\ fetch[c].at = "read"
      /\ fetch[c].version \in 1..page
  BY <1>0 DEF FetchTypes, FetchCalls, Store
<1>2. fetch'[c] = [fetch[c] EXCEPT !.at = "stored"]
  BY <1>0 DEF FetchTypes, Store
<1>3. /\ \A d \in Fetchers : d # c => fetch'[d] = fetch[d]
      /\ fetch' = [d \in Fetchers |-> fetch'[d]]
  BY <1>0 DEF FetchTypes, Store
<1>4. fetch'[c] \in FetchCalls /\ fetch'[c].at = "stored" /\ fetch'[c].version = fetch[c].version
  BY <1>1, <1>2 DEF FetchCalls
<1>5. page' = page /\ outdated' = outdated /\ told' = told
  BY DEF Store
<1> DEFINE entry == [version |-> fetch[c].version, age |-> 0]
<1>6. cache' \in StoredIn(cache, fetch[c].url, entry)
  BY DEF Store
<1>7. IsFiniteSet(DOMAIN cache) /\ Cardinality(DOMAIN cache) <= CacheSize
  BY <1>0, WebAssumption, FS_Subset DEF FetchTypes, CacheBounded
<1>8. /\ Cardinality(DOMAIN cache') <= CacheSize
      /\ DOMAIN cache' \subseteq DOMAIN cache \cup {fetch[c].url}
      /\ \A u \in DOMAIN cache' : cache'[u] = IF u = fetch[c].url THEN entry ELSE cache[u]
  <2> HIDE DEF entry
  <2> QED
    BY <1>6, <1>7, StoredIsBounded
<1>9. \A u \in DOMAIN cache' : cache'[u] = entry \/ (u \in DOMAIN cache /\ cache'[u] = cache[u])
  BY <1>8
<1>10. entry \in [version : 1..page, age : Ticks] /\ entry.version = fetch[c].version /\ entry.age = 0
  BY <1>1, WebAssumption DEF Ticks
<1>11. entry.version < page => outdated[entry.version] <= entry.age
  BY <1>0, <1>1, <1>10 DEF ReadJustNow
<1> HIDE DEF entry
<1>12. FetchTypes'
  <2>1. DOMAIN cache' \subseteq Urls
    BY <1>0, <1>1, <1>8 DEF FetchTypes
  <2>2. \A u \in DOMAIN cache' : cache'[u] \in [version : 1..page, age : Ticks]
    BY <1>0, <1>9, <1>10 DEF FetchTypes
  <2>3. fetch' \in [Fetchers -> FetchCalls]
    BY <1>0, <1>3, <1>4 DEF FetchTypes
  <2>4. \A d \in Fetchers : fetch'[d].at \in {"read", "stored"} => fetch'[d].version \in 1..page
    BY <1>0, <1>1, <1>3, <1>4 DEF FetchTypes
  <2> QED
    BY <1>0, <1>5, <2>1, <2>2, <2>3, <2>4 DEF FetchTypes
<1>13. EntriesAge'
  BY <1>0, <1>5, <1>9, <1>11 DEF EntriesAge
<1>14. ReadJustNow'
  BY <1>0, <1>3, <1>4, <1>5 DEF ReadJustNow
<1>15. CacheBounded'
  BY <1>8 DEF CacheBounded
<1> QED
  BY <1>0, <1>5, <1>12, <1>13, <1>14, <1>15 DEF Fetched, HitIsRecent

LEMMA NextTick ==
    ASSUME NEW n \in Ticks PROVE Min({n + 1, TTL + 1}) = IF n <= TTL THEN n + 1 ELSE TTL + 1
<1>1. PICK m \in {n + 1, TTL + 1} : \A k \in {n + 1, TTL + 1} : m <= k
  BY WebAssumption DEF Ticks
<1>2. Min({n + 1, TTL + 1}) \in {n + 1, TTL + 1} /\ \A k \in {n + 1, TTL + 1} : Min({n + 1, TTL + 1}) <= k
  BY <1>1 DEF Min
<1> QED
  BY <1>2, WebAssumption DEF Ticks

LEMMA FetchedTick == ASSUME Fetched, Tick PROVE Fetched'
<1>0. FetchTypes /\ EntriesAge /\ ReadJustNow /\ HitIsRecent /\ CacheBounded
  BY DEF Fetched
<1>1. page' = page /\ fetch' = fetch /\ told'.from = "nothing" /\ \A c \in Fetchers : fetch[c].at # "read"
  BY DEF Tick, NotTold
<1> DEFINE Later(n) == IF n <= TTL THEN n + 1 ELSE TTL + 1
<1>2. page \in Nat \ {0} /\ outdated \in Seq(Ticks) /\ Len(outdated) = page - 1
  BY <1>0 DEF FetchTypes
<1>3. outdated' = [v \in 1..(page - 1) |-> Min({outdated[v] + 1, TTL + 1})]
  BY <1>2 DEF Tick
<1>4. \A v \in 1..(page - 1) : outdated[v] \in Ticks /\ outdated'[v] = Later(outdated[v])
  BY <1>2, <1>3, NextTick
<1>5. /\ DOMAIN cache' = DOMAIN cache
      /\ \A u \in DOMAIN cache : cache'[u] = [cache[u] EXCEPT !.age = Min({cache[u].age + 1, TTL + 1})]
  BY DEF Tick
<1>6. \A u \in DOMAIN cache : cache[u] \in [version : 1..page, age : Ticks]
  BY <1>0 DEF FetchTypes
<1>7. \A u \in DOMAIN cache : cache'[u] = [cache[u] EXCEPT !.age = Later(cache[u].age)]
  BY <1>5, <1>6, NextTick
<1>8. \A n \in Ticks : Later(n) \in Ticks
  BY WebAssumption DEF Ticks
<1>9. \A m, n \in Ticks : m <= n => Later(m) <= Later(n)
  BY WebAssumption DEF Ticks
<1> HIDE DEF Later
<1>10. \A u \in DOMAIN cache : /\ cache'[u] \in [version : 1..page, age : Ticks]
                               /\ cache'[u].version = cache[u].version
                               /\ cache'[u].age = Later(cache[u].age)
  BY <1>6, <1>7, <1>8, ZenonT(30)
<1>11. outdated' \in Seq(Ticks) /\ Len(outdated') = page - 1
  <2>1. outdated' \in [1..(page - 1) -> Ticks]
    BY <1>3, <1>4, <1>8
  <2>2. page - 1 \in Nat
    BY <1>2
  <2> QED
    BY <2>1, <2>2
<1>12. FetchTypes'
  BY <1>0, <1>1, <1>5, <1>10, <1>11 DEF FetchTypes
<1>13. EntriesAge'
  <2> SUFFICES ASSUME NEW u \in DOMAIN cache, cache[u].version < page
               PROVE  outdated'[cache[u].version] <= cache'[u].age
    BY <1>1, <1>5, <1>10 DEF EntriesAge
  <2> DEFINE v == cache[u].version
  <2>1. v \in 1..(page - 1) /\ cache[u].age \in Ticks
    BY <1>2, <1>6
  <2>2. outdated[v] <= cache[u].age
    BY <1>0 DEF EntriesAge
  <2> QED
    BY <1>4, <1>9, <1>10, <2>1, <2>2
<1> QED
  BY <1>0, <1>1, <1>5, <1>12, <1>13 DEF Fetched, ReadJustNow, HitIsRecent, CacheBounded

LEMMA FetchedPublish == ASSUME Fetched, Publish PROVE Fetched'
<1>0. FetchTypes /\ EntriesAge /\ ReadJustNow /\ HitIsRecent /\ CacheBounded
  BY DEF Fetched
<1>1. page' = page + 1 /\ cache' = cache /\ fetch' = fetch /\ told' = told
  BY DEF Publish
<1>2. page \in Nat \ {0} /\ outdated \in Seq(Ticks) /\ Len(outdated) = page - 1 /\ 0 \in Ticks
  BY <1>0, WebAssumption DEF FetchTypes, Ticks
<1>3. /\ outdated' \in Seq(Ticks) /\ Len(outdated') = page
      /\ \A v \in 1..(page - 1) : outdated'[v] = outdated[v]
      /\ outdated'[page] = 0
  BY <1>2 DEF Publish
<1>4. \A v \in 1..page : v \in 1..page' /\ (v < page' => v < page \/ v = page)
  BY <1>1, <1>2
<1>5. \A v \in 1..page : v < page => v \in 1..(page - 1)
  BY <1>2
<1>6. FetchTypes'
  <2>1. \A u \in DOMAIN cache : cache[u] \in [version : 1..page', age : Ticks]
    BY <1>0, <1>4 DEF FetchTypes
  <2> QED
    BY <1>0, <1>1, <1>2, <1>3, <1>4, <2>1 DEF FetchTypes
<1>7. \A u \in DOMAIN cache : cache[u].version \in 1..page /\ 0 <= cache[u].age
  BY <1>0, WebAssumption DEF FetchTypes, Ticks
<1>8. EntriesAge'
  BY <1>0, <1>1, <1>3, <1>4, <1>5, <1>7 DEF EntriesAge
<1>9. \A c \in Fetchers : fetch[c].at = "read" => fetch[c].version \in 1..page
  BY <1>0 DEF FetchTypes
<1>10. ReadJustNow'
  BY <1>0, <1>1, <1>3, <1>4, <1>5, <1>9 DEF ReadJustNow
<1>11. told.from = "cache" => told.version \in 1..page
  BY <1>0 DEF FetchTypes
<1>12. HitIsRecent'
  BY <1>0, <1>1, <1>3, <1>4, <1>5, <1>11, WebAssumption DEF HitIsRecent
<1> QED
  BY <1>0, <1>1, <1>6, <1>8, <1>10, <1>12 DEF Fetched, CacheBounded

LEMMA FetchedStep == Fetched /\ [FetchNext]_fetchVars => Fetched'
<1> SUFFICES ASSUME Fetched, [FetchNext]_fetchVars PROVE Fetched'
  OBVIOUS
<1>1. ASSUME NEW c \in Fetchers, NEW u \in Urls, LookUp(c, u) PROVE Fetched'
  <2>1. CASE Cached(u)
    <3>1. u \in DOMAIN cache /\ ~(cache[u].age > TTL)
      BY <2>1 DEF Cached, IsExpired
    <3>2. cache[u].age \in Ticks
      BY <3>1 DEF Fetched, FetchTypes
    <3>3. cache[u].age <= TTL
      BY <3>1, <3>2, WebAssumption DEF Ticks
    <3>4. told' = [from |-> "cache", version |-> cache[u].version] /\ UNCHANGED fetch /\ UNCHANGED <<page, outdated, cache>>
      BY <1>1, <2>1 DEF LookUp
    <3> QED
      BY <3>1, <3>3, <3>4, FetchedCalls
  <2>2. CASE ~Cached(u)
    BY <1>1, <2>2, FetchedCalls DEF LookUp
  <2> QED
    BY <2>1, <2>2
<1>2. ASSUME NEW c \in Fetchers, Invalid(c) \/ NotPermitted(c) \/ Redirected(c) \/ FetchFails(c) \/ ReturnPage(c)
      PROVE  Fetched'
  <2>1. /\ fetch' = [fetch EXCEPT ![c] = NoFetch] /\ UNCHANGED <<page, outdated, cache>>
        /\ told'.from # "cache"
    <3>1. PICK word : Ends(c, word) /\ word.from # "cache"
      BY <1>2 DEF Invalid, NotPermitted, Redirected, FetchFails, ReturnPage
    <3> QED
      BY <3>1 DEF Ends
  <2> QED
    BY <2>1, FetchedCalls
<1>3. ASSUME NEW c \in Fetchers, Follow(c) PROVE Fetched'
  BY <1>3, FetchedCalls DEF Follow
<1>4. CASE ClearCache
  <2>1. DOMAIN cache' = {} /\ UNCHANGED <<page, outdated, fetch, told>>
    BY <1>4 DEF ClearCache
  <2>2. CacheBounded'
    BY <2>1, FS_EmptySet, WebAssumption DEF CacheBounded
  <2> QED
    BY <2>1, <2>2 DEF Fetched, FetchTypes, EntriesAge, ReadJustNow, HitIsRecent
<1>5. CASE UNCHANGED fetchVars
  BY <1>5 DEF fetchVars, Fetched, FetchTypes, EntriesAge, ReadJustNow, HitIsRecent, CacheBounded
<1> QED
  BY <1>1, <1>2, <1>3, <1>4, <1>5, FetchedRead, FetchedStore, FetchedTick, FetchedPublish DEF FetchNext

-----------------------------------------------------------------------------
Outcomes == {"hits", "empty", "fails", "garbled"}

(* A search goes on exactly while none of the engines tried had hits and   *)
(* one is left.                                                            *)
Searched ==
    /\ search.tried \in Seq(Outcomes)
    /\ engines \in {<<"ddg">>, <<"brave", "ddg">>} /\ Len(search.tried) <= Len(engines)
    /\ search = [tried |-> search.tried, result |-> search.result]
    /\ search.result \in {"none", "hits", "nothing", "error"}
    /\ SearchExhausts

LEMMA SearchedInit == SearchInit => Searched
<1> SUFFICES ASSUME SearchInit PROVE Searched
  OBVIOUS
<1>1. search = [tried |-> <<>>, result |-> "none"] /\ engines \in {<<"ddg">>, <<"brave", "ddg">>}
  BY DEF SearchInit
<1>2. search.tried = <<>> /\ search.result = "none" /\ Len(engines) \in Nat
  BY <1>1
<1> QED
  BY <1>1, <1>2 DEF Searched, SearchExhausts, Tried

Ending(o, more, alone) ==
    CASE o = "hits" -> "hits"
      [] o # "hits" /\ more -> "none"
      [] o = "empty" /\ alone -> "nothing"
      [] OTHER -> "error"

LEMMA EndsWhenAllFailed ==
    ASSUME NEW o \in Outcomes, NEW more \in BOOLEAN, NEW alone \in BOOLEAN, ~(more /\ alone)
    PROVE  /\ Ending(o, more, alone) \in {"none", "hits", "nothing", "error"}
           /\ o = "hits" => Ending(o, more, alone) = "hits"
           /\ Ending(o, more, alone) \in {"nothing", "error"} => ~more
<1>1. CASE o = "hits"
  BY <1>1 DEF Ending
<1>2. CASE o # "hits" /\ more
  BY <1>2 DEF Ending
<1>3. CASE o # "hits" /\ ~more
  BY <1>3 DEF Ending
<1> QED
  BY <1>1, <1>2, <1>3

LEMMA SearchedStep == Searched /\ [SearchNext]_searchVars => Searched'
<1> SUFFICES ASSUME Searched, [SearchNext]_searchVars PROVE Searched'
  OBVIOUS
<1>0. /\ search.tried \in Seq(Outcomes)
      /\ engines \in {<<"ddg">>, <<"brave", "ddg">>} /\ Len(search.tried) <= Len(engines)
      /\ SearchExhausts
  BY DEF Searched
<1>4. Len(engines) \in Nat /\ Len(search.tried) \in Nat
  BY <1>0
<1>1. ASSUME NEW o \in Outcomes, TryEngine(o) PROVE Searched'
  <2>1. search.result = "none" /\ Tried < Len(engines) /\ engines' = engines
    BY <1>1 DEF TryEngine
  <2>2. search' = [tried |-> Append(search.tried, o),
                   result |-> Ending(o, Len(Append(search.tried, o)) < Len(engines), Len(engines) = 1)]
    BY <1>1 DEF TryEngine, Ending
  <2> DEFINE n == Len(search.tried)
  <2>3. /\ search'.tried \in Seq(Outcomes) /\ Len(search'.tried) = n + 1
        /\ \A i \in 1..n : search'.tried[i] = search.tried[i]
        /\ search'.tried[n + 1] = o
    BY <1>0, <2>2
  <2>4. search'.result = Ending(o, n + 1 < Len(engines), Len(engines) = 1)
    BY <1>0, <2>2
  <2>5. \A i \in 1..n : search.tried[i] # "hits"
    BY <1>0, <2>1 DEF SearchExhausts, Tried
  <2>6. n + 1 <= Len(engines) /\ n \in Nat
    BY <1>4, <2>1 DEF Tried
  <2>7. /\ search'.result \in {"none", "hits", "nothing", "error"}
        /\ o = "hits" => search'.result = "hits"
        /\ search'.result \in {"nothing", "error"} => n + 1 = Len(engines)
    <3> DEFINE more == n + 1 < Len(engines)
               alone == Len(engines) = 1
    <3>0. Len(engines) \in Nat /\ n \in Nat
      BY <1>4, <2>6
    <3>1. ~(more /\ alone)
      <4> SUFFICES ASSUME n + 1 < Len(engines), Len(engines) = 1 PROVE FALSE
        OBVIOUS
      <4>1. n < 0
        BY <3>0
      <4> QED
        BY <3>0, <4>1
    <3>2. more \in BOOLEAN /\ alone \in BOOLEAN /\ search'.result = Ending(o, more, alone)
      BY <2>4
    <3>3. ~more => n + 1 = Len(engines)
      BY <1>4, <2>6
    <3> HIDE DEF more, alone
    <3>4. /\ Ending(o, more, alone) \in {"none", "hits", "nothing", "error"}
          /\ o = "hits" => Ending(o, more, alone) = "hits"
          /\ Ending(o, more, alone) \in {"nothing", "error"} => ~more
      BY <3>1, <3>2, EndsWhenAllFailed
    <3> QED
      BY <3>2, <3>3, <3>4
  <2>8. SearchExhausts'
    <3>1. \A i \in 1..(n + 1) : i = n + 1 \/ i \in 1..n
      BY <2>6
    <3> QED
      BY <2>1, <2>3, <2>5, <2>7, <3>1 DEF SearchExhausts, Tried
  <2> QED
    BY <1>0, <2>1, <2>2, <2>3, <2>6, <2>7, <2>8 DEF Searched
<1>2. CASE NewSearch
  <2>1. search' = [tried |-> <<>>, result |-> "none"] /\ engines' = engines
    BY <1>2 DEF NewSearch
  <2>2. search'.tried = <<>> /\ search'.result = "none" /\ search' = [tried |-> search'.tried, result |-> search'.result]
    BY <2>1
  <2>3. Len(search'.tried) = 0 /\ search'.tried \in Seq(Outcomes)
    BY <2>2
  <2>4. search'.result \notin {"error", "nothing"}
    BY <2>2
  <2>5. Len(engines) \in Nat /\ 0 <= Len(engines)
    BY <1>4
  <2>6. SearchExhausts'
    BY <2>3, <2>4 DEF SearchExhausts, Tried
  <2> QED
    BY ONLY <1>0, <2>1, <2>2, <2>3, <2>5, <2>6 DEF Searched
<1>3. CASE UNCHANGED searchVars
  BY <1>3 DEF searchVars, Searched, SearchExhausts, Tried
<1> QED
  BY <1>1, <1>2, <1>3 DEF SearchNext, Outcomes

-------------------------------------------------------------------------------
(* Entries are numbered as they come, so that whoever holds some holds     *)
(* them in that order; and each entry's parent came before it.             *)
Rises(s, n) == s \in Seq(1..n) /\ \A i, j \in DOMAIN s : i < j => s[i] < s[j]
ChainedBy(p, s) == \A i \in DOMAIN s : p[s[i]] = 0 \/ \E j \in 1..(i - 1) : s[j] = p[s[i]]
Storages == [kind : {"none", "file", "memory"}, mem : Seq(Nat), count : Nat, last : Nat, saving : BOOLEAN]

RepoTypes ==
    /\ parentOf \in Seq(Nat)
    /\ sidecar \in Nat \cup {-1}
    /\ store \in [RepoClients -> Storages]
    /\ file = NoFile \/ Rises(file, Len(parentOf))
    /\ \A c \in RepoClients : Rises(store[c].mem, Len(parentOf))
    /\ misplaced \in BOOLEAN /\ leftOver \in BOOLEAN

LastIsHeld ==
    \A c \in RepoClients : store[c].last = 0 \/ \E i \in DOMAIN store[c].mem : store[c].mem[i] = store[c].last
SavingIsWritten == \A c \in RepoClients : store[c].saving => store[c].kind = "file" /\ store[c].mem # <<>>
Written ==
    \A c \in RepoClients : store[c].kind = "file" /\ c \notin outlived =>
        /\ store[c].mem # <<>> => file # NoFile
        /\ \A i \in DOMAIN store[c].mem : \E p \in DOMAIN file : file[p] = store[c].mem[i]
Chains ==
    /\ file # NoFile /\ ~misplaced => ChainedBy(parentOf, file)
    /\ \A c \in RepoClients : store[c].kind = "memory" => ChainedBy(parentOf, store[c].mem)
Counted ==
    ~leftOver =>
       /\ file = NoFile => sidecar = -1
       /\ file # NoFile => sidecar <= Len(file)
       /\ \A c \in RepoClients : store[c].kind = "file" /\ c \notin outlived =>
             store[c].count <= IF file = NoFile THEN 0 ELSE Len(file)

Stored == RepoTypes /\ LastIsHeld /\ SavingIsWritten /\ Written /\ Chains /\ Counted

-----------------------------------------------------------------------------
LEMMA AppendRises ==
    ASSUME NEW n \in Nat, NEW s, Rises(s, n)
    PROVE  Rises(Append(s, n + 1), n + 1)
<1>1. s \in Seq(1..n) /\ Len(s) \in Nat /\ DOMAIN s = 1..Len(s)
  BY DEF Rises
<1> DEFINE t == Append(s, n + 1)
<1>2. s \in Seq(1..(n + 1)) /\ n + 1 \in 1..(n + 1)
  BY <1>1
<1>3. t \in Seq(1..(n + 1)) /\ DOMAIN t = 1..(Len(s) + 1)
  BY <1>2
<1>4. (\A i \in 1..Len(s) : t[i] = s[i] /\ s[i] \in 1..n) /\ t[Len(s) + 1] = n + 1
  BY <1>1
<1> HIDE DEF t
<1>5. ASSUME NEW i \in DOMAIN t, NEW j \in DOMAIN t, i < j PROVE t[i] < t[j]
  <2>1. i \in 1..Len(s)
    BY <1>1, <1>3, <1>5
  <2>2. CASE j \in 1..Len(s)
    BY <1>1, <1>4, <1>5, <2>1, <2>2 DEF Rises
  <2>3. CASE j = Len(s) + 1
    BY <1>4, <2>1, <2>3
  <2> QED
    BY <1>1, <1>3, <2>2, <2>3
<1> QED
  BY <1>3, <1>5 DEF Rises, t

LEMMA LaterRises ==
    ASSUME NEW n \in Nat, NEW s, Rises(s, n) PROVE Rises(s, n + 1)
<1>1. s \in Seq(1..(n + 1))
  BY DEF Rises
<1> QED
  BY <1>1 DEF Rises

LEMMA ChainStays ==
    ASSUME NEW p \in Seq(Nat), NEW s, Rises(s, Len(p)), ChainedBy(p, s), NEW x \in Nat
    PROVE  ChainedBy(Append(p, x), s)
<1>1. \A i \in DOMAIN s : s[i] \in 1..Len(p)
  BY DEF Rises
<1>2. \A e \in 1..Len(p) : Append(p, x)[e] = p[e]
  OBVIOUS
<1> QED
  BY <1>1, <1>2 DEF ChainedBy

LEMMA ChainGrows ==
    ASSUME NEW p \in Seq(Nat), NEW s, Rises(s, Len(p)), ChainedBy(p, s), NEW x \in Nat,
           x = 0 \/ \E i \in DOMAIN s : s[i] = x
    PROVE  ChainedBy(Append(p, x), Append(s, Len(p) + 1))
<1>1. s \in Seq(1..Len(p)) /\ Len(s) \in Nat /\ DOMAIN s = 1..Len(s)
  BY DEF Rises
<1> DEFINE t == Append(s, Len(p) + 1)
           q == Append(p, x)
<1>2. DOMAIN t = 1..(Len(s) + 1) /\ (\A i \in 1..Len(s) : t[i] = s[i] /\ s[i] \in 1..Len(p)) /\ t[Len(s) + 1] = Len(p) + 1
  <2>1. s \in Seq(Nat) /\ Len(p) + 1 \in Nat
    BY <1>1
  <2> QED
    BY <1>1, <2>1
<1>3. (\A e \in 1..Len(p) : q[e] = p[e]) /\ q[Len(p) + 1] = x
  OBVIOUS
<1> HIDE DEF t, q
<1>4. ASSUME NEW i \in DOMAIN t PROVE q[t[i]] = 0 \/ \E j \in 1..(i - 1) : t[j] = q[t[i]]
  <2>1. CASE i \in 1..Len(s)
    <3>1. q[t[i]] = p[s[i]]
      BY <1>2, <1>3, <2>1
    <3>2. p[s[i]] = 0 \/ \E j \in 1..(i - 1) : s[j] = p[s[i]]
      BY <1>1, <2>1 DEF ChainedBy
    <3>3. \A j \in 1..(i - 1) : j \in 1..Len(s)
      BY <1>1, <2>1
    <3> QED
      BY <1>2, <3>1, <3>2, <3>3
  <2>2. CASE i = Len(s) + 1
    <3>1. q[t[i]] = x
      BY <1>2, <1>3, <2>2
    <3>2. \A j \in DOMAIN s : j \in 1..(i - 1) /\ t[j] = s[j]
      BY <1>1, <1>2, <2>2
    <3> QED
      BY <3>1, <3>2
  <2>3. i \in 1..Len(s) \/ i = Len(s) + 1
    BY <1>1, <1>2
  <2> QED
    BY <2>1, <2>2, <2>3
<1> QED
  BY <1>4 DEF ChainedBy, t, q

LEMMA PrefixOfChain ==
    ASSUME NEW n \in Nat, NEW s, Rises(s, n), NEW k \in DOMAIN s
    PROVE  /\ Rises(SubSeq(s, 1, k), n)
           /\ \A p : ChainedBy(p, s) => ChainedBy(p, SubSeq(s, 1, k))
           /\ \E i \in DOMAIN SubSeq(s, 1, k) : SubSeq(s, 1, k)[i] = s[k]
<1>1. s \in Seq(1..n) /\ Len(s) \in Nat /\ DOMAIN s = 1..Len(s)
  BY DEF Rises
<1> DEFINE t == SubSeq(s, 1, k)
<1>2. t \in Seq(1..n) /\ DOMAIN t = 1..k /\ (\A i \in 1..k : t[i] = s[i] /\ i \in DOMAIN s)
  BY <1>1
<1> HIDE DEF t
<1>3. Rises(t, n)
  BY <1>2 DEF Rises
<1>4. ASSUME NEW p, ChainedBy(p, s) PROVE ChainedBy(p, t)
  <2>1. \A i \in 1..k : p[s[i]] = 0 \/ \E j \in 1..(i - 1) : s[j] = p[s[i]]
    BY <1>2, <1>4 DEF ChainedBy
  <2>2. \A i \in 1..k : \A j \in 1..(i - 1) : j \in 1..k
    BY <1>1
  <2> QED
    BY <1>2, <2>1, <2>2 DEF ChainedBy
<1>5. k \in DOMAIN t /\ t[k] = s[k]
  BY <1>1, <1>2
<1> QED
  BY <1>3, <1>4, <1>5 DEF t

(* A fork that ends with x, and what becomes of a storage with entry e. *)
Forked(s, x) == [NewStore("memory", s, 0) EXCEPT !.last = x]
Grown(old, e, saves) ==
    [old EXCEPT !.mem = Append(@, e), !.count = @ + 1, !.last = e, !.saving = saves]

LEMMA ForkRecord ==
    ASSUME NEW s \in Seq(Nat), NEW x \in Nat
    PROVE  /\ Forked(s, x) \in Storages /\ Forked(s, x).mem = s /\ ~Forked(s, x).saving
           /\ Forked(s, x).last = x /\ Forked(s, x).kind = "memory"
<1>1. NewStore("memory", s, 0) = [kind |-> "memory", mem |-> s, count |-> 0, last |-> 0, saving |-> FALSE]
  BY DEF NewStore
<1> DEFINE fresh == NewStore("memory", s, 0)
           new == Forked(s, x)
<1>2. fresh \in Storages
  BY DEF NewStore, Storages
<1>6. fresh.mem = s /\ ~fresh.saving /\ fresh.kind = "memory"
  BY <1>1
<1>7. new = [fresh EXCEPT !.last = x]
  BY DEF Forked
<1> HIDE DEF fresh, new
<1>3. new \in Storages
  BY <1>2, <1>6, <1>7 DEF Storages
<1>4. new.mem = s /\ new.last = x
  BY <1>2, <1>6, <1>7 DEF Storages
<1>5. ~new.saving /\ new.kind = "memory"
  BY <1>2, <1>6, <1>7 DEF Storages
<1> QED
  BY <1>3, <1>4, <1>5 DEF new

LEMMA StoredRecord ==
    ASSUME NEW old \in Storages, NEW e \in Nat, NEW saves \in BOOLEAN
    PROVE  LET new == Grown(old, e, saves)
           IN  /\ new \in Storages /\ new.kind = old.kind /\ new.mem = Append(old.mem, e)
               /\ new.count = old.count + 1 /\ new.last = e /\ new.saving = saves
<1> DEFINE new == Grown(old, e, saves)
<1> DEFINE longer == Append(old.mem, e)
<1>1. longer \in Seq(Nat)
  BY DEF Storages
<1> DEFINE more == old.count + 1
<1>2. more \in Nat
  BY DEF Storages
<1>3. new = [old EXCEPT !.mem = longer, !.count = more, !.last = e, !.saving = saves]
  BY DEF Grown
<1> HIDE DEF longer, more, new
<1>4. new \in Storages
  BY <1>1, <1>2, <1>3 DEF Storages
<1>5. new.kind = old.kind
  BY <1>3 DEF Storages
<1>6. new.mem = longer
  BY <1>3 DEF Storages
<1>7. new.count = more
  BY <1>3 DEF Storages
<1>8. new.last = e
  BY <1>3 DEF Storages
<1>9. new.saving = saves
  BY <1>3 DEF Storages
<1> QED
  BY <1>4, <1>5, <1>6, <1>7, <1>8, <1>9 DEF longer, more, new

-----------------------------------------------------------------------------
LEMMA StoredInit == RepoInit => Stored
<1> SUFFICES ASSUME RepoInit PROVE Stored
  OBVIOUS
<1> USE DEF RepoInit
<1>1. \A c \in RepoClients : store[c] = Unopened
  OBVIOUS
<1>2. Unopened \in Storages /\ Unopened.mem = <<>> /\ Unopened.kind = "none" /\ Unopened.last = 0 /\ Unopened.saving = FALSE
  BY DEF Unopened, Storages
<1>3. Rises(<<>>, 0) /\ Len(parentOf) = 0 /\ parentOf \in Seq(Nat)
  BY DEF Rises
<1>4. store \in [RepoClients -> Storages]
  BY <1>2
<1> QED
  BY <1>1, <1>2, <1>3, <1>4 DEF Stored, RepoTypes, LastIsHeld, SavingIsWritten, Written, Chains, Counted

(* A client that takes another storage or gives its own up. *)
LEMMA StoredGives ==
    ASSUME Stored, NEW c \in RepoClients, NEW new \in Storages, Gives(c, new),
           UNCHANGED <<file, sidecar, parentOf, misplaced, leftOver>>,
           Rises(new.mem, Len(parentOf)), ~new.saving,
           new.last = 0 \/ \E i \in DOMAIN new.mem : new.mem[i] = new.last,
           new.kind = "file" => /\ new.mem = <<>> \/ (file # NoFile /\ new.mem = file)
                                /\ ~leftOver => new.count <= IF file = NoFile THEN 0 ELSE Len(file),
           new.kind = "memory" => ChainedBy(parentOf, new.mem)
    PROVE  Stored'
<1>0. RepoTypes /\ LastIsHeld /\ SavingIsWritten /\ Written /\ Chains /\ Counted
  BY DEF Stored
<1>1. /\ store' \in [RepoClients -> Storages] /\ store'[c] = new
      /\ \A d \in RepoClients : d # c => store'[d] = store[d] /\ (d \notin outlived' => d \notin outlived)
  BY <1>0 DEF Gives, RepoTypes
<1>2. /\ file' = file /\ sidecar' = sidecar /\ parentOf' = parentOf /\ misplaced' = misplaced
      /\ leftOver' = leftOver
  OBVIOUS
<1>3. RepoTypes'
  <2>1. \A d \in RepoClients : Rises(store'[d].mem, Len(parentOf))
    BY <1>0, <1>1 DEF RepoTypes
  <2> QED
    BY <1>0, <1>1, <1>2, <2>1 DEF RepoTypes
<1>4. LastIsHeld' /\ SavingIsWritten'
  BY <1>0, <1>1 DEF LastIsHeld, SavingIsWritten
<1>5. Written'
  <2>1. ASSUME new.kind = "file"
        PROVE  /\ new.mem # <<>> => file # NoFile
               /\ \A i \in DOMAIN new.mem : \E p \in DOMAIN file : file[p] = new.mem[i]
    BY <2>1
  <2> QED
    BY <1>0, <1>1, <1>2, <2>1 DEF Written
<1>6. Chains'
  BY <1>0, <1>1, <1>2 DEF Chains
<1>7. Counted'
  BY <1>0, <1>1, <1>2 DEF Counted
<1> QED
  BY <1>3, <1>4, <1>5, <1>6, <1>7 DEF Stored

LEMMA StoredTakes ==
    ASSUME Stored, NEW c \in RepoClients,
           \/ CreateSessionFile(c) \/ OpenSessionFile(c) \/ Release(c) \/ CreateInMemory(c)
           \/ \E d \in RepoClients : ForkInMemory(d, c)
    PROVE  Stored'
<1>0. RepoTypes /\ Chains /\ Counted /\ sidecar \in Nat \cup {-1} /\ Len(parentOf) \in Nat
  BY DEF Stored, RepoTypes
<1>1. Rises(<<>>, Len(parentOf)) /\ \A p : ChainedBy(p, <<>>)
  BY DEF Rises, ChainedBy
<1> DEFINE n == IF sidecar = -1 THEN 0 ELSE sidecar
<1>2. n \in Nat
  BY <1>0
<1>3. ~leftOver => n <= IF file = NoFile THEN 0 ELSE Len(file)
  <2>1. Len(file) \in Nat
    <3>1. CASE file = NoFile
      BY <3>1 DEF NoFile
    <3>2. CASE Rises(file, Len(parentOf))
      BY <3>2 DEF Rises
    <3> QED
      BY <1>0, <3>1, <3>2 DEF RepoTypes
  <2> QED
    BY <1>0, <2>1 DEF Counted
<1> HIDE DEF n
<1>4. CASE CreateSessionFile(c)
  <2> DEFINE new == NewStore("file", <<>>, n)
  <2>1. Gives(c, new) /\ UNCHANGED <<file, sidecar, parentOf, misplaced, leftOver>>
    BY <1>4 DEF CreateSessionFile, Loaded, n
  <2>2. /\ new \in Storages /\ new.mem = <<>> /\ ~new.saving /\ new.last = 0 /\ new.kind = "file"
        /\ new.count = n
    BY <1>2 DEF NewStore, Storages
  <2> HIDE DEF new
  <2> QED
    BY <1>1, <1>3, <2>1, <2>2, StoredGives
<1>5. CASE OpenSessionFile(c)
  <2> DEFINE new == NewStore("file", file, n)
  <2>1. Gives(c, new) /\ UNCHANGED <<file, sidecar, parentOf, misplaced, leftOver>> /\ file # NoFile
    BY <1>5 DEF OpenSessionFile, Loaded, n
  <2>2. Rises(file, Len(parentOf)) /\ file \in Seq(Nat)
    BY <1>0, <2>1 DEF RepoTypes, Rises
  <2>3. /\ new \in Storages /\ new.mem = file /\ ~new.saving /\ new.last = 0 /\ new.kind = "file"
        /\ new.count = n
    BY <1>2, <2>2 DEF NewStore, Storages
  <2> HIDE DEF new
  <2> QED
    BY <1>3, <2>1, <2>2, <2>3, StoredGives
<1>6. CASE Release(c)
  <2>1. Gives(c, Unopened) /\ UNCHANGED <<file, sidecar, parentOf, misplaced, leftOver>>
    BY <1>6 DEF Release
  <2>2. /\ Unopened \in Storages /\ Unopened.mem = <<>> /\ ~Unopened.saving /\ Unopened.last = 0
        /\ Unopened.kind = "none"
    BY DEF Unopened, Storages
  <2> QED
    BY <1>1, <2>1, <2>2, StoredGives
<1>7. CASE CreateInMemory(c)
  <2> DEFINE new == NewStore("memory", <<>>, 0)
  <2>1. Gives(c, new) /\ UNCHANGED <<file, sidecar, parentOf, misplaced, leftOver>>
    BY <1>7 DEF CreateInMemory
  <2>2. new \in Storages /\ new.mem = <<>> /\ ~new.saving /\ new.last = 0 /\ new.kind = "memory"
    BY DEF NewStore, Storages
  <2> HIDE DEF new
  <2> QED
    BY <1>1, <2>1, <2>2, StoredGives
<1>8. ASSUME NEW d \in RepoClients, ForkInMemory(d, c) PROVE Stored'
  <2> DEFINE held == store[d].mem
  <2>1. PICK k \in DOMAIN held :
           Gives(c, [NewStore("memory", SubSeq(held, 1, k), 0) EXCEPT !.last = held[k]])
    BY <1>8 DEF ForkInMemory
  <2> DEFINE new == Forked(SubSeq(held, 1, k), held[k])
  <2>2. UNCHANGED <<file, sidecar, parentOf, misplaced, leftOver>> /\ store[d].kind = "memory"
    BY <1>8 DEF ForkInMemory, Uses
  <2>3. Rises(held, Len(parentOf)) /\ ChainedBy(parentOf, held)
    BY <1>0, <2>2 DEF RepoTypes, Chains
  <2> DEFINE part == SubSeq(held, 1, k)
  <2>4. /\ Rises(part, Len(parentOf)) /\ ChainedBy(parentOf, part)
        /\ \E i \in DOMAIN part : part[i] = held[k]
    BY <1>0, <2>3, PrefixOfChain
  <2>5. held[k] \in Nat
    BY <1>0, <2>3 DEF Rises
  <2> HIDE DEF part, held
  <2>6. part \in Seq(Nat)
    BY <1>0, <2>4 DEF Rises
  <2>7. Gives(c, new)
    BY <2>1 DEF Forked
  <2>8. new \in Storages /\ new.mem = part /\ ~new.saving /\ new.last = held[k] /\ new.kind = "memory"
    BY <2>5, <2>6, ForkRecord DEF part
  <2> HIDE DEF new
  <2> QED
    BY <2>2, <2>4, <2>7, <2>8, StoredGives
<1> QED
  BY <1>4, <1>5, <1>6, <1>7, <1>8

(* The next entry, in the memory of a storage and of a chain. *)
LEMMA EntryStored ==
    ASSUME RepoTypes, LastIsHeld, Chains, NEW c \in RepoClients, NEW saves \in BOOLEAN,
           Stores(c, Len(parentOf) + 1, saves)
    PROVE  /\ parentOf' \in Seq(Nat) /\ Len(parentOf') = Len(parentOf) + 1
           /\ parentOf' = Append(parentOf, store[c].last)
           /\ store' \in [RepoClients -> Storages]
           /\ store'[c].mem = Append(store[c].mem, Len(parentOf) + 1) /\ store'[c].mem # <<>>
           /\ \A i \in DOMAIN store'[c].mem :
                 \/ i \in DOMAIN store[c].mem /\ store'[c].mem[i] = store[c].mem[i]
                 \/ store'[c].mem[i] = Len(parentOf) + 1
           /\ store'[c].kind = store[c].kind /\ store'[c].count = store[c].count + 1
           /\ store'[c].saving = saves
           /\ \A d \in RepoClients : d # c => store'[d] = store[d]
           /\ \A d \in RepoClients : Rises(store'[d].mem, Len(parentOf) + 1)
           /\ LastIsHeld'
           /\ \A d \in RepoClients : store'[d].kind = "memory" => ChainedBy(parentOf', store'[d].mem)
<1>0. parentOf \in Seq(Nat) /\ Len(parentOf) \in Nat /\ store \in [RepoClients -> Storages]
  BY DEF RepoTypes
<1>1. store[c] \in Storages
  BY <1>0
<1>2. /\ store' = [store EXCEPT ![c] = [store[c] EXCEPT !.mem = Append(@, Len(parentOf) + 1), !.count = @ + 1,
                                                        !.last = Len(parentOf) + 1, !.saving = saves]]
      /\ parentOf' = Append(parentOf, store[c].last)
  BY DEF Stores
<1>3. store[c].last \in Nat /\ store[c].mem \in Seq(Nat) /\ store[c].count \in Nat
  BY <1>1 DEF Storages
<1>4. parentOf' \in Seq(Nat) /\ Len(parentOf') = Len(parentOf) + 1
  BY <1>0, <1>2, <1>3
<1> DEFINE n == Len(parentOf)
           new == Grown(store[c], n + 1, saves)
<1>5. store'[c] = new /\ \A d \in RepoClients : d # c => store'[d] = store[d]
  <2>1. store' = [store EXCEPT ![c] = new]
    BY <1>2 DEF Grown
  <2> HIDE DEF new
  <2> QED
    BY <1>0, <2>1
<1>6. /\ new \in Storages /\ new.kind = store[c].kind /\ new.mem = Append(store[c].mem, n + 1)
      /\ new.count = store[c].count + 1 /\ new.last = n + 1 /\ new.saving = saves
  <2>1. n + 1 \in Nat
    BY <1>0
  <2> HIDE DEF n
  <2> QED
    BY <1>1, <2>1, StoredRecord
<1> HIDE DEF new
<1>7. store' \in [RepoClients -> Storages]
  <2>1. store' = [d \in RepoClients |-> store'[d]]
    BY <1>0, <1>2
  <2> QED
    BY <1>0, <1>5, <1>6, <2>1
<1>8. /\ store'[c].mem = Append(store[c].mem, n + 1) /\ store'[c].kind = store[c].kind
      /\ store'[c].count = store[c].count + 1 /\ store'[c].saving = saves /\ store'[c].last = n + 1
  BY <1>5, <1>6
<1>9. /\ DOMAIN store'[c].mem = 1..(Len(store[c].mem) + 1) /\ store'[c].mem[Len(store[c].mem) + 1] = n + 1
      /\ \A i \in 1..Len(store[c].mem) : store'[c].mem[i] = store[c].mem[i]
      /\ store'[c].mem # <<>> /\ Len(store[c].mem) \in Nat /\ DOMAIN store[c].mem = 1..Len(store[c].mem)
  <2> DEFINE s == store[c].mem
             t == store'[c].mem
  <2>1. s \in Seq(Nat) /\ n + 1 \in Nat /\ t = Append(s, n + 1)
    BY <1>0, <1>3, <1>8
  <2> HIDE DEF s, t, n
  <2>2. /\ DOMAIN t = 1..(Len(s) + 1) /\ t[Len(s) + 1] = n + 1 /\ (\A i \in 1..Len(s) : t[i] = s[i])
        /\ t # <<>> /\ Len(s) \in Nat /\ DOMAIN s = 1..Len(s)
    BY <2>1
  <2> QED
    BY <2>2 DEF s, t
<1>10. \A d \in RepoClients : Rises(store'[d].mem, n + 1)
  <2>1. \A d \in RepoClients : Rises(store[d].mem, n)
    BY DEF RepoTypes
  <2>2. Rises(Append(store[c].mem, n + 1), n + 1)
    BY <1>0, <2>1, AppendRises
  <2>3. \A d \in RepoClients : Rises(store[d].mem, n + 1)
    BY <1>0, <2>1, LaterRises
  <2> QED
    BY <1>5, <1>8, <2>2, <2>3
<1>11. LastIsHeld'
  <2>1. Len(store[c].mem) + 1 \in DOMAIN store'[c].mem
    BY <1>9
  <2> QED
    BY <1>5, <1>8, <1>9, <2>1 DEF LastIsHeld
<1>12. ASSUME NEW d \in RepoClients, store'[d].kind = "memory"
       PROVE  ChainedBy(parentOf', store'[d].mem)
  <2>1. Rises(store[d].mem, n) /\ store[d].kind = "memory"
    BY <1>5, <1>8, <1>12 DEF RepoTypes
  <2>2. ChainedBy(parentOf, store[d].mem)
    BY <2>1 DEF Chains
  <2>3. CASE d = c
    <3>1. store[c].last = 0 \/ \E i \in DOMAIN store[c].mem : store[c].mem[i] = store[c].last
      BY DEF LastIsHeld
    <3>2. ChainedBy(Append(parentOf, store[c].last), Append(store[c].mem, n + 1))
      BY <1>0, <1>3, <2>1, <2>2, <2>3, <3>1, ChainGrows
    <3> QED
      BY <1>2, <1>8, <2>3, <3>2
  <2>4. CASE d # c
    <3>1. ChainedBy(Append(parentOf, store[c].last), store[d].mem)
      BY <1>0, <1>3, <2>1, <2>2, ChainStays
    <3> QED
      BY <1>2, <1>5, <2>4, <3>1
  <2> QED
    BY <2>3, <2>4
<1>13. \A i \in DOMAIN store'[c].mem :
          (i \in DOMAIN store[c].mem /\ store'[c].mem[i] = store[c].mem[i]) \/ store'[c].mem[i] = n + 1
  BY <1>9
<1> QED
  BY <1>2, <1>4, <1>5, <1>7, <1>8, <1>9, <1>10, <1>11, <1>12, <1>13

LEMMA StoredToMemory == ASSUME Stored, NEW c \in RepoClients, AppendToMemory(c) PROVE Stored'
<1>0. /\ RepoTypes /\ LastIsHeld /\ SavingIsWritten /\ Written /\ Chains /\ Counted
      /\ parentOf \in Seq(Nat) /\ Len(parentOf) \in Nat
  BY DEF Stored, RepoTypes
<1>1. /\ store[c].kind = "memory" /\ Stores(c, Len(parentOf) + 1, FALSE)
      /\ UNCHANGED <<file, sidecar, outlived, misplaced, leftOver>>
  BY DEF AppendToMemory, Uses
<1>2. /\ parentOf' \in Seq(Nat) /\ Len(parentOf') = Len(parentOf) + 1
      /\ parentOf' = Append(parentOf, store[c].last)
      /\ store' \in [RepoClients -> Storages]
      /\ store'[c].kind = "memory" /\ store'[c].saving = FALSE
      /\ \A d \in RepoClients : d # c => store'[d] = store[d]
      /\ \A d \in RepoClients : Rises(store'[d].mem, Len(parentOf) + 1)
      /\ LastIsHeld'
      /\ \A d \in RepoClients : store'[d].kind = "memory" => ChainedBy(parentOf', store'[d].mem)
  BY <1>0, <1>1, EntryStored
<1>3. file = NoFile \/ Rises(file, Len(parentOf) + 1)
  BY <1>0, LaterRises DEF RepoTypes
<1>4. RepoTypes'
  BY <1>0, <1>1, <1>2, <1>3 DEF RepoTypes
<1>5. SavingIsWritten' /\ Written' /\ Counted'
  BY <1>0, <1>1, <1>2 DEF SavingIsWritten, Written, Counted
<1>6. file # NoFile /\ ~misplaced => ChainedBy(parentOf', file)
  <2>1. store[c].last \in Nat
    BY <1>0 DEF RepoTypes, Storages
  <2> QED
    BY <1>0, <1>2, <2>1, ChainStays DEF RepoTypes, Chains
<1>7. Chains'
  BY <1>1, <1>2, <1>6 DEF Chains
<1> QED
  BY <1>2, <1>4, <1>5, <1>7 DEF Stored

LEMMA StoredToFile == ASSUME Stored, NEW c \in RepoClients, AppendToFile(c) PROVE Stored'
<1>0. /\ RepoTypes /\ LastIsHeld /\ SavingIsWritten /\ Written /\ Chains /\ Counted
      /\ parentOf \in Seq(Nat) /\ Len(parentOf) \in Nat /\ store[c] \in Storages
  BY DEF Stored, RepoTypes
<1> DEFINE n == Len(parentOf)
<1>1. /\ store[c].kind = "file" /\ Stores(c, n + 1, TRUE)
      /\ file' = IF file = NoFile THEN <<n + 1>> ELSE Append(file, n + 1)
      /\ misplaced' = (misplaced \/ c \in outlived)
      /\ UNCHANGED <<sidecar, outlived, leftOver>>
  BY DEF AppendToFile, Uses
<1>2. /\ parentOf' \in Seq(Nat) /\ Len(parentOf') = n + 1
      /\ parentOf' = Append(parentOf, store[c].last)
      /\ store' \in [RepoClients -> Storages]
      /\ store'[c].mem # <<>>
      /\ store'[c].kind = "file" /\ store'[c].count = store[c].count + 1
      /\ \A d \in RepoClients : d # c => store'[d] = store[d]
      /\ \A d \in RepoClients : Rises(store'[d].mem, n + 1)
      /\ LastIsHeld'
      /\ \A d \in RepoClients : store'[d].kind = "memory" => ChainedBy(parentOf', store'[d].mem)
  BY <1>0, <1>1, EntryStored
<1>3. \A i \in DOMAIN store'[c].mem :
          (i \in DOMAIN store[c].mem /\ store'[c].mem[i] = store[c].mem[i]) \/ store'[c].mem[i] = n + 1
  BY <1>0, <1>1, EntryStored
<1>4. /\ Rises(file', n + 1) /\ file' # NoFile
      /\ \E p \in DOMAIN file' : file'[p] = n + 1
      /\ file # NoFile => /\ \A p \in DOMAIN file : p \in DOMAIN file' /\ file'[p] = file[p]
                          /\ Len(file') = Len(file) + 1 /\ Len(file) \in Nat
      /\ file = NoFile => file' = <<n + 1>> /\ Len(file') = 1
  <2>1. CASE file = NoFile
    <3>1. file' = <<n + 1>>
      BY <1>1, <2>1
    <3>2. file' \in Seq(1..(n + 1)) /\ DOMAIN file' = 1..1 /\ file'[1] = n + 1 /\ Len(file') = 1
      BY <1>0, <3>1
    <3>3. Rises(file', n + 1)
      BY <3>2 DEF Rises
    <3>4. file' # NoFile
      BY <1>0, <3>2 DEF NoFile
    <3>5. 1 \in DOMAIN file'
      BY <3>2
    <3> QED
      BY <2>1, <3>1, <3>2, <3>3, <3>4, <3>5
  <2>2. CASE file # NoFile
    <3>1. Rises(file, n) /\ file' = Append(file, n + 1)
      BY <1>0, <1>1, <2>2 DEF RepoTypes
    <3>2. Rises(file', n + 1)
      BY <1>0, <3>1, AppendRises
    <3>3. file \in Seq(Nat) /\ Len(file) \in Nat /\ DOMAIN file = 1..Len(file) /\ n + 1 \in Nat
      BY <1>0, <3>1 DEF Rises
    <3>4. /\ DOMAIN file' = 1..(Len(file) + 1) /\ file'[Len(file) + 1] = n + 1 /\ Len(file') = Len(file) + 1
          /\ \A p \in 1..Len(file) : file'[p] = file[p]
      BY <3>1, <3>3
    <3>5. Len(file) + 1 \in DOMAIN file' /\ \A p \in DOMAIN file : p \in DOMAIN file' /\ file'[p] = file[p]
      BY <3>3, <3>4
    <3>6. file' # NoFile
      BY <1>0, <3>3, <3>4 DEF NoFile
    <3> QED
      BY <2>2, <3>2, <3>3, <3>4, <3>5, <3>6
  <2> QED
    BY <2>1, <2>2
<1>5. RepoTypes'
  BY <1>0, <1>1, <1>2, <1>4 DEF RepoTypes
<1>6. SavingIsWritten'
  BY <1>0, <1>2 DEF SavingIsWritten
<1>7. Written'
  <2> SUFFICES ASSUME NEW d \in RepoClients, store'[d].kind = "file", d \notin outlived,
                      NEW i \in DOMAIN store'[d].mem
               PROVE  \E p \in DOMAIN file' : file'[p] = store'[d].mem[i]
    BY <1>1, <1>4 DEF Written
  <2>1. store[d].kind = "file" /\ (store'[d].mem[i] = n + 1 \/ (i \in DOMAIN store[d].mem /\ store'[d].mem[i] = store[d].mem[i]))
    BY <1>1, <1>2, <1>3
  <2>2. CASE store'[d].mem[i] = n + 1
    BY <1>4, <2>2
  <2>3. CASE i \in DOMAIN store[d].mem /\ store'[d].mem[i] = store[d].mem[i]
    <3>1. file # NoFile
      <4>1. store[d].mem # <<>>
        BY <2>3
      <4> QED
        BY <1>0, <2>1, <4>1 DEF Written
    <3>2. \E p \in DOMAIN file : file[p] = store[d].mem[i]
      BY <1>0, <2>1, <2>3 DEF Written
    <3> QED
      BY <1>4, <2>3, <3>1, <3>2
  <2> QED
    BY <2>1, <2>2, <2>3
<1>8. Chains'
  <2> SUFFICES ASSUME ~misplaced, c \notin outlived PROVE ChainedBy(parentOf', file')
    BY <1>1, <1>2 DEF Chains
  <2>1. store[c].last \in Nat
    BY <1>0 DEF Storages
  <2>2. CASE file = NoFile
    <3>1. store[c].mem = <<>>
      BY <1>0, <1>1, <2>2 DEF Written
    <3>2. store[c].last = 0
      BY <1>0, <3>1 DEF LastIsHeld
    <3>3. Rises(<<>>, n) /\ ChainedBy(parentOf, <<>>)
      BY <1>0 DEF Rises, ChainedBy
    <3>4. ChainedBy(Append(parentOf, 0), Append(<<>>, n + 1))
      BY <1>0, <3>3, ChainGrows
    <3>5. Append(<<>>, n + 1) = <<n + 1>>
      OBVIOUS
    <3> QED
      BY <1>1, <1>2, <2>2, <3>2, <3>4, <3>5
  <2>3. CASE file # NoFile
    <3>1. Rises(file, n) /\ ChainedBy(parentOf, file) /\ file' = Append(file, n + 1)
      BY <1>0, <1>1, <2>3 DEF RepoTypes, Chains
    <3>2. store[c].last = 0 \/ \E p \in DOMAIN file : file[p] = store[c].last
      BY <1>0, <1>1 DEF LastIsHeld, Written
    <3>3. ChainedBy(Append(parentOf, store[c].last), Append(file, n + 1))
      BY <1>0, <2>1, <3>1, <3>2, ChainGrows
    <3> QED
      BY <1>2, <3>1, <3>3
  <2> QED
    BY <2>2, <2>3
<1>9. Counted'
  <2> SUFFICES ASSUME ~leftOver
               PROVE  /\ sidecar <= Len(file')
                      /\ \A d \in RepoClients : store'[d].kind = "file" /\ d \notin outlived =>
                            store'[d].count <= Len(file')
    BY <1>1, <1>4 DEF Counted
  <2> DEFINE size == IF file = NoFile THEN 0 ELSE Len(file)
  <2>1. size \in Nat /\ Len(file') = size + 1
    BY <1>4
  <2>2. sidecar \in Int /\ sidecar <= size
    BY <1>0, <1>4 DEF Counted, RepoTypes
  <2>3. \A d \in RepoClients : store[d].count \in Nat /\ (store[d].kind = "file" /\ d \notin outlived => store[d].count <= size)
    BY <1>0 DEF Counted, RepoTypes, Storages
  <2> HIDE DEF size
  <2>4. \A d \in RepoClients : store'[d].kind = "file" /\ d \notin outlived => store'[d].count <= Len(file')
    BY <1>1, <1>2, <2>1, <2>3
  <2> QED
    BY <2>1, <2>2, <2>4
<1> QED
  BY <1>2, <1>5, <1>6, <1>7, <1>8, <1>9 DEF Stored

LEMMA StoredSaves == ASSUME Stored, NEW c \in RepoClients, SaveSidecar(c) PROVE Stored'
<1>0. /\ RepoTypes /\ LastIsHeld /\ SavingIsWritten /\ Written /\ Chains /\ Counted
      /\ store \in [RepoClients -> Storages] /\ store[c] \in Storages
  BY DEF Stored, RepoTypes
<1>1. /\ store[c].saving /\ sidecar' = store[c].count /\ leftOver' = (leftOver \/ c \in outlived)
      /\ store' = [store EXCEPT ![c].saving = FALSE] /\ UNCHANGED <<file, parentOf, outlived, misplaced>>
  BY DEF SaveSidecar
<1>2. /\ store' \in [RepoClients -> Storages]
      /\ \A d \in RepoClients : /\ store'[d].kind = store[d].kind /\ store'[d].mem = store[d].mem
                                /\ store'[d].count = store[d].count /\ store'[d].last = store[d].last
                                /\ store'[d].saving => store[d].saving
  <2>1. store'[c] = [store[c] EXCEPT !.saving = FALSE] /\ \A d \in RepoClients : d # c => store'[d] = store[d]
    BY <1>0, <1>1
  <2>2. store'[c] \in Storages
    BY <1>0, <2>1 DEF Storages
  <2>3. /\ store'[c].kind = store[c].kind /\ store'[c].mem = store[c].mem
        /\ store'[c].count = store[c].count /\ store'[c].last = store[c].last /\ ~store'[c].saving
    BY <1>0, <2>1 DEF Storages
  <2> QED
    BY <1>0, <1>1, <2>1, <2>2, <2>3
<1>3. RepoTypes'
  <2>1. store[c].count \in Nat
    BY <1>0 DEF Storages
  <2>2. misplaced' \in BOOLEAN /\ leftOver' \in BOOLEAN
    BY <1>0, <1>1 DEF RepoTypes
  <2>3. \A d \in RepoClients : Rises(store'[d].mem, Len(parentOf'))
    BY <1>0, <1>1, <1>2 DEF RepoTypes
  <2> QED
    BY <1>0, <1>1, <1>2, <2>1, <2>2, <2>3 DEF RepoTypes
<1>4. LastIsHeld' /\ SavingIsWritten' /\ Written'
  BY <1>0, <1>1, <1>2 DEF LastIsHeld, SavingIsWritten, Written
<1>5. Chains'
  BY <1>0, <1>1, <1>2 DEF Chains
<1>6. Counted'
  <2> SUFFICES ASSUME ~leftOver, c \notin outlived PROVE Counted'
    BY <1>1 DEF Counted
  <2>1. store[c].kind = "file" /\ store[c].mem # <<>>
    BY <1>0, <1>1 DEF SavingIsWritten
  <2>2. file # NoFile
    BY <1>0, <2>1 DEF Written
  <2>3. store[c].count <= Len(file)
    BY <1>0, <2>1, <2>2 DEF Counted
  <2> QED
    BY <1>0, <1>1, <1>2, <2>2, <2>3 DEF Counted
<1> QED
  BY <1>3, <1>4, <1>5, <1>6 DEF Stored

LEMMA StoredDeletes == ASSUME Stored, DeleteSession PROVE Stored'
<1>0. RepoTypes /\ LastIsHeld /\ SavingIsWritten /\ Written /\ Chains /\ Counted
  BY DEF Stored
<1>1. /\ file' = NoFile /\ sidecar' \in {-1, sidecar} /\ leftOver' = (sidecar' # -1) /\ misplaced' = FALSE
      /\ outlived' = {c \in RepoClients : store[c].kind = "file"} /\ store' = store /\ parentOf' = parentOf
  BY DEF DeleteSession
<1>2. RepoTypes'
  BY <1>0, <1>1 DEF RepoTypes
<1>3. LastIsHeld' /\ SavingIsWritten' /\ Written' /\ Counted'
  BY <1>0, <1>1 DEF LastIsHeld, SavingIsWritten, Written, Counted
<1>4. Chains'
  BY <1>0, <1>1 DEF Chains
<1> QED
  BY <1>2, <1>3, <1>4 DEF Stored

LEMMA StoredStep == Stored /\ [RepoNext]_repoVars => Stored'
<1> SUFFICES ASSUME Stored, [RepoNext]_repoVars PROVE Stored'
  OBVIOUS
<1>1. CASE UNCHANGED repoVars
  BY <1>1 DEF repoVars, Stored, RepoTypes, LastIsHeld, SavingIsWritten, Written, Chains, Counted
<1>2. ASSUME NEW c \in RepoClients,
             \/ CreateSessionFile(c) \/ OpenSessionFile(c) \/ Release(c) \/ CreateInMemory(c)
             \/ \E d \in RepoClients : ForkInMemory(d, c)
      PROVE  Stored'
  BY <1>2, StoredTakes
<1>3. CASE \E c, d \in RepoClients : ForkInMemory(c, d)
  BY <1>2, <1>3
<1> QED
  BY <1>1, <1>2, <1>3, StoredToMemory, StoredToFile, StoredSaves, StoredDeletes DEF RepoNext

LEMMA StoredKeeps == Stored => RepoKept
<1> SUFFICES ASSUME Stored PROVE RepoKept
  OBVIOUS
<1>0. RepoTypes /\ Written /\ Chains /\ Counted
  BY DEF Stored
<1>1. ASSUME NEW c \in RepoClients, store[c].kind = "file", c \notin outlived, store[c].mem # <<>>
      PROVE  file # NoFile /\ InFile(store[c].mem)
  <2> DEFINE held == store[c].mem
  <2>1. file # NoFile /\ \A i \in DOMAIN held : \E p \in DOMAIN file : file[p] = held[i]
    BY <1>0, <1>1 DEF Written
  <2>2. Rises(file, Len(parentOf)) /\ Rises(held, Len(parentOf))
    BY <1>0, <2>1 DEF RepoTypes
  <2> HIDE DEF held
  <2>3. ToSet(held) \subseteq ToSet(file)
    BY <2>1 DEF ToSet
  <2>4. /\ \A p \in DOMAIN file : p \in Int /\ file[p] \in Int
        /\ \A i \in DOMAIN held : i \in Int /\ held[i] \in Int
    BY <1>0, <2>2 DEF Rises, RepoTypes
  <2>5. ASSUME NEW p \in DOMAIN file, NEW q \in DOMAIN file, NEW i \in DOMAIN held, NEW j \in DOMAIN held,
               file[p] = held[i], file[q] = held[j]
        PROVE  p < q <=> i < j
    <3>1. /\ p < q => file[p] < file[q]
          /\ q < p => file[q] < file[p]
          /\ i < j => held[i] < held[j]
          /\ j < i => held[j] < held[i]
      BY <2>2 DEF Rises
    <3>2. p = q => file[p] = file[q]
      OBVIOUS
    <3>3. i = j => held[i] = held[j]
      OBVIOUS
    <3> QED
      BY <2>4, <2>5, <3>1, <3>2, <3>3
  <2>6. InFile(held)
    BY <2>3, <2>5 DEF InFile
  <2> QED
    BY <2>1, <2>6 DEF held
<1>2. file # NoFile /\ ~misplaced => Chained(file)
  BY <1>0 DEF Chains, ChainedBy, Chained
<1>3. \A c \in RepoClients : store[c].kind = "memory" => Chained(store[c].mem)
  BY <1>0 DEF Chains, ChainedBy, Chained
<1>4. ASSUME ~leftOver, NEW n \in Listed PROVE n <= Len(file)
  <2>1. file # NoFile /\ n = IF sidecar = -1 THEN 0 ELSE sidecar
    BY <1>4 DEF Listed
  <2>2. Len(file) \in Nat /\ sidecar <= Len(file)
    BY <1>0, <1>4, <2>1 DEF RepoTypes, Rises, Counted
  <2> QED
    BY <1>0, <2>1, <2>2 DEF RepoTypes
<1> QED
  BY <1>1, <1>2, <1>3, <1>4 DEF RepoKept

-------------------------------------------------------------------------------
(* What is held of a sequence of entries. *)
Held(x, s) == \E i \in DOMAIN s : s[i] = x

LogTypes ==
    /\ storage \in {"open", "closed", "refused"}
    /\ created \in 0..MaxEntries
    /\ parentID \in [Entries -> Nat]
    /\ lines \in Seq(Nat)
    /\ ended \in BOOLEAN
    /\ ~ended => lines # <<>>
    /\ Rises(mem, created) /\ Rises(acked, created)
    /\ lastID \in Nat /\ op \in Nat

(* While AppendEntry is in its steps, its entry is the newest; a storage   *)
(* that is not open has none.                                              *)
Underway ==
    /\ op # None => op = created /\ ~Held(op, acked) /\ parentID[op] = lastID
    /\ storage # "open" => op = None /\ lastID = Root

(* Memory holds every entry after its parent, the writer's last among them; *)
(* so does the file unless it has a line that does not parse, and then it   *)
(* has all that was accepted.                                               *)
Memory == ChainedBy(parentID, mem) /\ (lastID = Root \/ Held(lastID, mem))
Readable ==
    Garbage \notin Elements(lines) =>
       /\ Rises(lines, created)
       /\ ChainedBy(parentID, lines)
       /\ lastID = Root \/ Held(lastID, lines)
       /\ op # None => Held(op, lines)
       /\ \A i \in DOMAIN acked : Held(acked[i], lines)

Logged == LogTypes /\ Underway /\ Memory /\ Readable

-----------------------------------------------------------------------------
(* A sequence that rises to n, but does not hold n, rises to n - 1. *)
LEMMA RisesBelow ==
    ASSUME NEW n \in Nat \ {0}, NEW s, Rises(s, n), ~Held(n, s)
    PROVE  Rises(s, n - 1)
<1>1. s \in Seq(1..n) /\ \A i \in DOMAIN s : s[i] \in 1..n /\ s[i] # n
  BY DEF Rises, Held
<1>2. \A i \in DOMAIN s : s[i] \in 1..(n - 1)
  BY <1>1
<1>3. s \in Seq(1..(n - 1))
  BY <1>1, <1>2
<1> QED
  BY <1>3 DEF Rises

(* The chain of entries that are there does not depend on later parents. *)
LEMMA ChainOn ==
    ASSUME NEW n \in Nat, NEW s, Rises(s, n), NEW p, NEW q, ChainedBy(p, s),
           \A e \in 1..n : q[e] = p[e]
    PROVE  ChainedBy(q, s)
<1>1. \A i \in DOMAIN s : s[i] \in 1..n
  BY DEF Rises
<1> QED
  BY <1>1 DEF ChainedBy

LEMMA ChainAdds ==
    ASSUME NEW S, NEW s \in Seq(S), NEW x \in S, NEW q, ChainedBy(q, s), q[x] = 0 \/ Held(q[x], s)
    PROVE  ChainedBy(q, Append(s, x))
<1> DEFINE t == Append(s, x)
<1>1. Len(s) \in Nat /\ DOMAIN s = 1..Len(s) /\ DOMAIN t = 1..(Len(s) + 1)
  OBVIOUS
<1>2. (\A i \in 1..Len(s) : t[i] = s[i]) /\ t[Len(s) + 1] = x
  OBVIOUS
<1> HIDE DEF t
<1>3. ASSUME NEW i \in DOMAIN t PROVE q[t[i]] = 0 \/ \E j \in 1..(i - 1) : t[j] = q[t[i]]
  <2>1. CASE i \in 1..Len(s)
    <3>1. q[t[i]] = q[s[i]]
      BY <1>2, <2>1
    <3>2. q[s[i]] = 0 \/ \E j \in 1..(i - 1) : s[j] = q[s[i]]
      BY <1>1, <2>1 DEF ChainedBy
    <3>3. \A j \in 1..(i - 1) : j \in 1..Len(s)
      BY <1>1, <2>1
    <3> QED
      BY <1>2, <3>1, <3>2, <3>3
  <2>2. CASE i = Len(s) + 1
    <3>1. q[t[i]] = q[x]
      BY <1>2, <2>2
    <3>2. \A j \in DOMAIN s : j \in 1..(i - 1) /\ t[j] = s[j]
      BY <1>1, <1>2, <2>2
    <3> QED
      BY <3>1, <3>2 DEF Held
  <2>3. i \in 1..Len(s) \/ i = Len(s) + 1
    BY <1>1
  <2> QED
    BY <2>1, <2>2, <2>3
<1> QED
  BY <1>3 DEF ChainedBy, t

LEMMA HeldInAppend ==
    ASSUME NEW S, NEW s \in Seq(S), NEW x \in S
    PROVE  Held(x, Append(s, x)) /\ \A y : Held(y, s) => Held(y, Append(s, x))
<1>1. Len(s) \in Nat /\ DOMAIN s = 1..Len(s) /\ DOMAIN Append(s, x) = 1..(Len(s) + 1)
  OBVIOUS
<1>2. (\A i \in 1..Len(s) : Append(s, x)[i] = s[i]) /\ Append(s, x)[Len(s) + 1] = x
  OBVIOUS
<1>3. Len(s) + 1 \in DOMAIN Append(s, x)
  BY <1>1
<1>4. \A i \in DOMAIN s : i \in DOMAIN Append(s, x)
  BY <1>1
<1> QED
  BY <1>1, <1>2, <1>3, <1>4 DEF Held

LEMMA ElementsAre == ASSUME NEW S, NEW s \in Seq(S), NEW x PROVE x \in Elements(s) <=> Held(x, s)
  BY DEF Elements, Held

LEMMA LoggedInit == SessionInit => Logged
<1> SUFFICES ASSUME SessionInit PROVE Logged
  OBVIOUS
<1> USE SessionAssumption DEF SessionInit, Root, None
<1>1. DOMAIN mem = {} /\ DOMAIN lines = {} /\ DOMAIN acked = {} /\ lines \in Seq(Nat)
  OBVIOUS
<1>2. Rises(mem, 0) /\ Rises(acked, 0) /\ Rises(lines, 0)
  BY <1>1 DEF Rises
<1>3. LogTypes
  BY <1>1, <1>2 DEF LogTypes, Entries
<1> QED
  BY <1>1, <1>2, <1>3 DEF Logged, Underway, Memory, Readable, ChainedBy

(* A line that does not parse stays in the file, and so does a line that   *)
(* text was added to.                                                      *)
LEMMA AddedLine ==
    ASSUME lines \in Seq(Nat), ended \in BOOLEAN, ~ended => lines # <<>>, NEW x \in Nat
    PROVE  /\ Added(x) \in Seq(Nat) /\ Added(x) # <<>>
           /\ Garbage \notin Elements(Added(x)) =>
                 x # Garbage /\ ended /\ Added(x) = Append(lines, x) /\ Garbage \notin Elements(lines)
<1>1. Len(lines) \in Nat /\ DOMAIN lines = 1..Len(lines)
  OBVIOUS
<1>2. CASE ended
  <2>1. Added(x) = Append(lines, x)
    BY <1>2 DEF Added
  <2>2. Append(lines, x) \in Seq(Nat) /\ Append(lines, x) # <<>>
    OBVIOUS
  <2>3. \A y : Held(y, lines) => Held(y, Append(lines, x))
    BY ONLY HeldInAppend, lines \in Seq(Nat), x \in Nat
  <2>4. Held(x, Append(lines, x))
    BY ONLY HeldInAppend, lines \in Seq(Nat), x \in Nat
  <2> QED
    BY ONLY <1>2, <2>1, <2>2, <2>3, <2>4, ElementsAre, lines \in Seq(Nat)
<1>3. CASE ~ended
  <2>1. Len(lines) \in 1..Len(lines) /\ Added(x) = [lines EXCEPT ![Len(lines)] = Garbage]
    BY <1>1, <1>3 DEF Added
  <2>2. Added(x) \in Seq(Nat) /\ Len(Added(x)) = Len(lines) /\ Added(x)[Len(lines)] = Garbage
    BY <1>1, <2>1 DEF Garbage
  <2>3. Garbage \in Elements(Added(x))
    BY <1>1, <2>1, <2>2 DEF Elements
  <2>4. Added(x) # <<>>
    BY <1>1, <2>1, <2>2
  <2> QED
    BY <2>2, <2>3, <2>4
<1> QED
  BY <1>2, <1>3

(* A new entry is after all that there is, and its parent is among them. *)
LEMMA NewEntryFits ==
    ASSUME Logged, NEW m, NewEntry(m)
    PROVE  /\ storage = "open" /\ op = None
           /\ created' = created + 1 /\ created + 1 \in 0..MaxEntries /\ created \in Nat
           /\ parentID' \in [Entries -> Nat] /\ parentID'[created + 1] = lastID
           /\ Rises(mem, created + 1) /\ Rises(acked, created + 1) /\ ~Held(created + 1, acked)
           /\ ChainedBy(parentID', mem)
           /\ Garbage \notin Elements(lines) =>
                 /\ Rises(lines, created + 1) /\ ChainedBy(parentID', lines)
                 /\ Rises(Append(lines, created + 1), created + 1)
                 /\ ChainedBy(parentID', Append(lines, created + 1))
<1> USE SessionAssumption
<1>1. storage = "open" /\ op = None /\ created' = created + 1 /\ created < MaxEntries
      /\ parentID' = [parentID EXCEPT ![created + 1] = lastID]
  BY DEF NewEntry
<1>2. created \in Nat /\ created \in 0..MaxEntries /\ parentID \in [Entries -> Nat] /\ lastID \in Nat
      /\ Rises(mem, created) /\ Rises(acked, created)
  BY DEF Logged, LogTypes
<1>3. created + 1 \in 0..MaxEntries /\ created + 1 \in Entries
  BY <1>1, <1>2 DEF Entries
<1>4. parentID' \in [Entries -> Nat] /\ parentID'[created + 1] = lastID
  BY <1>1, <1>2, <1>3
<1>5. \A e \in 1..created : parentID'[e] = parentID[e]
  BY <1>1, <1>2 DEF Entries
<1>6. Rises(mem, created + 1) /\ Rises(acked, created + 1)
  BY <1>2, LaterRises
<1>7. ~Held(created + 1, acked)
  BY <1>2 DEF Held, Rises
<1>8. ChainedBy(parentID', mem)
  BY <1>2, <1>5, ChainOn DEF Logged, Memory
<1>9. ASSUME Garbage \notin Elements(lines)
      PROVE  /\ Rises(lines, created + 1) /\ ChainedBy(parentID', lines)
             /\ Rises(Append(lines, created + 1), created + 1)
             /\ ChainedBy(parentID', Append(lines, created + 1))
  <2>1. Rises(lines, created) /\ ChainedBy(parentID, lines) /\ (lastID = Root \/ Held(lastID, lines))
    BY <1>9 DEF Logged, Readable
  <2>2. Rises(lines, created + 1) /\ Rises(Append(lines, created + 1), created + 1)
    BY <1>2, <2>1, LaterRises, AppendRises
  <2>3. ChainedBy(parentID', lines)
    BY <1>2, <1>5, <2>1, ChainOn
  <2>4. lines \in Seq(Nat) /\ created + 1 \in Nat
    BY <1>2 DEF Logged, LogTypes
  <2>5. parentID'[created + 1] = 0 \/ Held(parentID'[created + 1], lines)
    BY <1>4, <2>1 DEF Root
  <2>6. ChainedBy(parentID', Append(lines, created + 1))
    BY <2>3, <2>4, <2>5, ChainAdds
  <2> QED
    BY <2>2, <2>3, <2>6
<1> QED
  BY <1>1, <1>2, <1>3, <1>4, <1>6, <1>7, <1>8, <1>9

(* What becomes of the file when an entry is written to it, or some of it. *)
LEMMA FileTakes ==
    ASSUME Logged, NEW m, NewEntry(m), lines' \in {Added(created + 1), Added(Garbage)}, UNCHANGED acked
    PROVE  /\ lines' \in Seq(Nat) /\ lines' # <<>>
           /\ Garbage \notin Elements(lines)' =>
                 /\ Rises(lines', created + 1)
                 /\ ChainedBy(parentID', lines')
                 /\ Held(created + 1, lines')
                 /\ lastID = Root \/ Held(lastID, lines')
                 /\ \A i \in DOMAIN acked : Held(acked[i], lines')
<1>1. lines \in Seq(Nat) /\ ended \in BOOLEAN /\ (~ended => lines # <<>>) /\ created + 1 \in Nat /\ Garbage \in Nat
  BY NewEntryFits DEF Logged, LogTypes, Garbage
<1>2. PICK x \in {created + 1, Garbage} : lines' = Added(x)
  OBVIOUS
<1>3. x \in Nat
  BY <1>1, <1>2
<1>4. lines' \in Seq(Nat) /\ lines' # <<>>
  BY <1>1, <1>2, <1>3, AddedLine
<1>5. ASSUME Garbage \notin Elements(lines)'
      PROVE  x = created + 1 /\ lines' = Append(lines, created + 1) /\ Garbage \notin Elements(lines)
  <2>1. Garbage \notin Elements(Added(x))
    BY <1>2, <1>5 DEF Elements
  <2> QED
    BY <1>1, <1>2, <1>3, <2>1, AddedLine
<1>6. ASSUME Garbage \notin Elements(lines)'
      PROVE  /\ Rises(lines', created + 1)
             /\ ChainedBy(parentID', lines')
             /\ Held(created + 1, lines')
             /\ lastID = Root \/ Held(lastID, lines')
             /\ \A i \in DOMAIN acked : Held(acked[i], lines')
  <2>1. lines' = Append(lines, created + 1) /\ Garbage \notin Elements(lines)
    BY <1>5, <1>6
  <2>2. Rises(lines', created + 1) /\ ChainedBy(parentID', lines')
    BY <2>1, NewEntryFits
  <2>3. Held(created + 1, lines') /\ \A y : Held(y, lines) => Held(y, lines')
    BY <1>1, <2>1, HeldInAppend
  <2>4. (lastID = Root \/ Held(lastID, lines)) /\ \A i \in DOMAIN acked : Held(acked[i], lines)
    BY <2>1 DEF Logged, Readable
  <2> QED
    BY <2>2, <2>3, <2>4
<1> QED
  BY <1>4, <1>6

LEMMA LoggedLine == ASSUME Logged, NEW m, AppendLine(m) PROVE Logged'
<1>1. /\ NewEntry(m) /\ lines' \in {Added(created + 1), Added(Garbage)} /\ ended' = TRUE
      /\ op' = created + 1 /\ UNCHANGED <<storage, mem, lastID, acked>>
  BY DEF AppendLine
<1> DEFINE e == created + 1
<1>2. /\ storage = "open" /\ created' = e /\ e \in 0..MaxEntries /\ e \in Nat
      /\ parentID' \in [Entries -> Nat] /\ parentID'[e] = lastID
      /\ Rises(mem, e) /\ Rises(acked, e) /\ ~Held(e, acked)
      /\ ChainedBy(parentID', mem)
  BY <1>1, NewEntryFits
<1>3. /\ lines' \in Seq(Nat)
      /\ Garbage \notin Elements(lines)' =>
           /\ Rises(lines', e) /\ ChainedBy(parentID', lines') /\ Held(e, lines')
           /\ lastID = Root \/ Held(lastID, lines')
           /\ \A i \in DOMAIN acked : Held(acked[i], lines')
  BY <1>1, FileTakes
<1>4. created' = e /\ op' = e
  BY <1>1, <1>2
<1> HIDE DEF e
<1>5. LogTypes'
  <2>1. lastID \in Nat
    BY DEF Logged, LogTypes
  <2> QED
    BY <1>1, <1>2, <1>3, <1>4, <2>1 DEF LogTypes
<1>6. Underway'
  BY <1>1, <1>2, <1>4 DEF Underway
<1>7. Memory'
  BY <1>1, <1>2 DEF Memory, Logged
<1>8. Readable'
  BY <1>1, <1>3, <1>4 DEF Readable
<1> QED
  BY <1>5, <1>6, <1>7, <1>8 DEF Logged

LEMMA LoggedFails == ASSUME Logged, NEW m, AppendFails(m) PROVE Logged'
<1>1. /\ NewEntry(m) /\ UNCHANGED <<storage, mem, lastID, op, acked>>
      /\ \/ UNCHANGED <<lines, ended>>
         \/ lines' = Added(Garbage) /\ ended' = FALSE
         \/ lines' = Added(created + 1) /\ ended' \in BOOLEAN
  BY DEF AppendFails
<1> DEFINE e == created + 1
<1>2. /\ storage = "open" /\ op = None /\ created' = e /\ e \in 0..MaxEntries /\ e \in Nat
      /\ parentID' \in [Entries -> Nat]
      /\ Rises(mem, e) /\ Rises(acked, e)
      /\ ChainedBy(parentID', mem)
      /\ Garbage \notin Elements(lines) => Rises(lines, e) /\ ChainedBy(parentID', lines)
  BY <1>1, NewEntryFits
<1>3. CASE UNCHANGED <<lines, ended>>
  <2> HIDE DEF e
  <2>1. LogTypes'
    BY <1>1, <1>2, <1>3 DEF LogTypes, Logged
  <2>2. Underway'
    BY <1>1, <1>2 DEF Underway
  <2>3. Memory'
    BY <1>1, <1>2 DEF Memory, Logged
  <2>4. Readable'
    BY <1>1, <1>2, <1>3 DEF Readable, Logged, Elements
  <2> QED
    BY <2>1, <2>2, <2>3, <2>4 DEF Logged
<1>4. CASE lines' \in {Added(created + 1), Added(Garbage)} /\ ended' \in BOOLEAN
  <2>1. /\ lines' \in Seq(Nat) /\ lines' # <<>>
        /\ Garbage \notin Elements(lines)' =>
             /\ Rises(lines', e) /\ ChainedBy(parentID', lines')
             /\ lastID = Root \/ Held(lastID, lines')
             /\ \A i \in DOMAIN acked : Held(acked[i], lines')
    BY <1>1, <1>4, FileTakes
  <2> HIDE DEF e
  <2>2. LogTypes'
    BY <1>1, <1>2, <1>4, <2>1 DEF LogTypes, Logged
  <2>3. Underway'
    BY <1>1, <1>2 DEF Underway
  <2>4. Memory'
    BY <1>1, <1>2 DEF Memory, Logged
  <2>5. Readable'
    BY <1>1, <1>2, <2>1 DEF Readable
  <2> QED
    BY <2>2, <2>3, <2>4, <2>5 DEF Logged
<1> QED
  BY <1>1, <1>3, <1>4

LEMMA LoggedRemember == ASSUME Logged, Remember PROVE Logged'
<1>1. /\ op # None /\ op \notin Elements(mem) /\ mem' = Append(mem, op)
      /\ UNCHANGED <<storage, lines, ended, parentID, created, lastID, op, acked>>
  BY DEF Remember
<1>2. op = created /\ parentID[op] = lastID /\ op \in Nat \ {0} /\ Rises(mem, created) /\ created \in Nat
  BY <1>1 DEF Logged, Underway, LogTypes, None
<1>3. mem \in Seq(Nat) /\ mem \in Seq(1..created)
  BY <1>2 DEF Rises
<1>4. ~Held(op, mem)
  BY <1>1, <1>3, ElementsAre
<1>5. Rises(mem, created - 1) /\ created - 1 \in Nat
  BY <1>2, <1>4, RisesBelow
<1>6. Rises(mem', created)
  <2>1. Rises(Append(mem, (created - 1) + 1), (created - 1) + 1)
    BY <1>5, AppendRises
  <2>2. (created - 1) + 1 = created
    BY <1>2
  <2> QED
    BY <1>1, <1>2, <2>1, <2>2
<1>7. ChainedBy(parentID, mem')
  <2>1. ChainedBy(parentID, mem) /\ (parentID[op] = 0 \/ Held(parentID[op], mem))
    BY <1>2 DEF Logged, Memory, Root
  <2> QED
    BY <1>1, <1>2, <1>3, <2>1, ChainAdds
<1>8. lastID = Root \/ Held(lastID, mem')
  <2>1. lastID = Root \/ Held(lastID, mem)
    BY DEF Logged, Memory
  <2> QED
    BY <1>1, <1>2, <1>3, <2>1, HeldInAppend
<1>9. LogTypes'
  BY <1>1, <1>6 DEF LogTypes, Logged
<1>10. Underway' /\ Readable'
  BY <1>1 DEF Underway, Readable, Logged, Elements
<1>11. Memory'
  BY <1>1, <1>7, <1>8 DEF Memory
<1> QED
  BY <1>9, <1>10, <1>11 DEF Logged

LEMMA LoggedSaves == ASSUME Logged, SaveMeta PROVE Logged'
<1>1. /\ op # None /\ op \in Elements(mem) /\ lastID' = op /\ acked' = Append(acked, op) /\ op' = None
      /\ UNCHANGED <<storage, lines, ended, mem, parentID, created>>
  BY DEF SaveMeta
<1>2. /\ op = created /\ ~Held(op, acked) /\ op \in Nat \ {0} /\ storage = "open"
      /\ Rises(mem, created) /\ Rises(acked, created) /\ created \in Nat
  BY <1>1 DEF Logged, Underway, LogTypes, None
<1>3. mem \in Seq(1..created) /\ acked \in Seq(1..created)
  BY <1>2 DEF Rises
<1>4. Held(op, mem)
  BY <1>1, <1>3, ElementsAre
<1>5. Rises(acked', created)
  <2>1. Rises(acked, created - 1) /\ created - 1 \in Nat
    BY <1>2, RisesBelow
  <2>2. Rises(Append(acked, (created - 1) + 1), (created - 1) + 1)
    BY <2>1, AppendRises
  <2>3. (created - 1) + 1 = created
    BY <1>2
  <2> QED
    BY <1>1, <1>2, <2>2, <2>3
<1>6. ASSUME Garbage \notin Elements(lines) PROVE \A i \in DOMAIN acked' : Held(acked'[i], lines)
  <2>1. Held(op, lines) /\ \A i \in DOMAIN acked : Held(acked[i], lines)
    BY <1>1, <1>6 DEF Logged, Readable
  <2>2. \A i \in DOMAIN acked' : acked'[i] = op \/ (i \in DOMAIN acked /\ acked'[i] = acked[i])
    BY <1>1, <1>2, <1>3
  <2> QED
    BY <2>1, <2>2
<1>7. LogTypes'
  BY <1>1, <1>2, <1>5 DEF LogTypes, Logged, None
<1>8. Underway'
  BY <1>1, <1>2 DEF Underway, Logged
<1>9. Memory'
  BY <1>1, <1>4 DEF Memory, Logged
<1>10. ASSUME Garbage \notin Elements(lines)
       PROVE  Rises(lines, created) /\ ChainedBy(parentID, lines) /\ Held(op, lines)
  BY <1>1, <1>10 DEF Logged, Readable
<1>11. Readable'
  BY <1>1, <1>6, <1>10 DEF Readable, Elements
<1> QED
  BY <1>7, <1>8, <1>9, <1>11 DEF Logged

LEMMA LoggedCrash == ASSUME Logged, Crash PROVE Logged'
<1>1. /\ storage' = "closed" /\ mem' = <<>> /\ lastID' = Root /\ op' = None
      /\ UNCHANGED <<lines, ended, parentID, created, acked>>
  BY DEF Crash
<1>2. Rises(mem', created) /\ DOMAIN mem' = {}
  BY <1>1 DEF Rises
<1>3. LogTypes'
  BY <1>1, <1>2 DEF LogTypes, Logged, Root, None
<1>4. Underway'
  BY <1>1 DEF Underway
<1>5. Memory'
  BY <1>1, <1>2 DEF Memory, ChainedBy
<1>6. Readable'
  BY <1>1 DEF Readable, Logged, Elements
<1> QED
  BY <1>3, <1>4, <1>5, <1>6 DEF Logged

LEMMA LoggedOpen == ASSUME Logged, Open \/ OpenRefused PROVE Logged'
<1>1. CASE Open
  <2>1. /\ Garbage \notin Elements(lines) /\ storage = "closed" /\ storage' = "open" /\ mem' = lines
        /\ UNCHANGED <<lines, ended, parentID, created, lastID, op, acked>>
    BY <1>1 DEF Open, Opened
  <2>2. op = None /\ lastID = Root
    BY <2>1 DEF Logged, Underway
  <2>3. Rises(lines, created) /\ ChainedBy(parentID, lines)
    BY <2>1 DEF Logged, Readable
  <2>4. LogTypes'
    BY <2>1, <2>3 DEF LogTypes, Logged
  <2>5. Underway' /\ Readable'
    BY <2>1, <2>2 DEF Underway, Readable, Logged, Elements
  <2>6. Memory'
    BY <2>1, <2>2, <2>3 DEF Memory
  <2> QED
    BY <2>4, <2>5, <2>6 DEF Logged
<1>2. CASE OpenRefused
  <2>1. /\ storage = "closed" /\ storage' = "refused"
        /\ UNCHANGED <<lines, ended, mem, parentID, created, lastID, op, acked>>
    BY <1>2 DEF OpenRefused
  <2>2. LogTypes'
    BY <2>1 DEF LogTypes, Logged
  <2>3. Underway' /\ Readable' /\ Memory'
    BY <2>1 DEF Underway, Readable, Memory, Logged, Elements
  <2> QED
    BY <2>2, <2>3 DEF Logged
<1> QED
  BY <1>1, <1>2

(* The way to the root holds the parent of each of its entries. *)
LEMMA PathHasParents ==
    ASSUME parentID \in [Entries -> Nat], NEW e, NEW x \in PathToRoot(e),
           parentID[x] # Root, parentID[x] \in Entries
    PROVE  parentID[x] \in PathToRoot(e)
<1>1. ASSUME NEW C \in SUBSET Entries, e \in C, \A y \in C : parentID[y] \in C \cup {Root}
      PROVE  parentID[x] \in C
  <2>1. x \in C
    BY <1>1 DEF PathToRoot
  <2> QED
    BY <1>1, <2>1
<1> QED
  BY <1>1 DEF PathToRoot

(* A fork of a file that rises, and holds every entry after its parent,    *)
(* does so too.                                                            *)
LEMMA ForkKeeps ==
    ASSUME NEW n \in Nat, NEW s, Rises(s, n), NEW p, ChainedBy(p, s), NEW chosen \in SUBSET (1..Len(s)),
           \A i \in chosen, j \in DOMAIN s : s[j] = p[s[i]] => j \in chosen,
           NEW at \in Places(Len(s)), Elements(at) = chosen,
           NEW t, t = [i \in DOMAIN at |-> s[at[i]]]
    PROVE  Rises(t, n) /\ ChainedBy(p, t)
<1>1. s \in Seq(1..n) /\ Len(s) \in Nat /\ DOMAIN s = 1..Len(s)
  BY DEF Rises
<1>2. PICK m \in 0..Len(s) : at \in [1..m -> 1..Len(s)]
  BY DEF Places
<1>3. (\A i, j \in DOMAIN at : i < j => at[i] < at[j]) /\ m \in Nat /\ DOMAIN at = 1..m
  BY <1>1, <1>2 DEF Places
<1>4. t \in [1..m -> 1..n] /\ DOMAIN t = 1..m /\ \A i \in 1..m : t[i] = s[at[i]] /\ at[i] \in DOMAIN s
  BY <1>1, <1>2, <1>3, SMTT(30)
<1>5. t \in Seq(1..n)
  BY <1>3, <1>4
<1>6. \A i, j \in DOMAIN t : i < j => t[i] < t[j]
  BY <1>3, <1>4 DEF Rises
<1>7. Len(at) = m
  BY <1>1, <1>2, <1>3
<1>8. ASSUME NEW i \in 1..m PROVE p[t[i]] = 0 \/ \E k \in 1..(i - 1) : t[k] = p[t[i]]
  <2>1. at[i] \in DOMAIN s /\ t[i] = s[at[i]] /\ at[i] \in 1..Len(s)
    BY <1>1, <1>4
  <2>2. CASE p[s[at[i]]] # 0
    <3>1. PICK j \in 1..(at[i] - 1) : s[j] = p[s[at[i]]]
      BY <2>1, <2>2 DEF ChainedBy
    <3>2. j \in DOMAIN s /\ j \in 1..Len(s) /\ j < at[i]
      BY <1>1, <2>1, <3>1
    <3>3. at[i] \in chosen
      BY <1>3, <1>7, <2>1 DEF Elements
    <3>4. j \in chosen
      BY <2>1, <3>1, <3>2, <3>3
    <3>5. PICK k \in 1..m : at[k] = j
      BY <1>7, <3>2, <3>4 DEF Elements
    <3>6. at[k] < at[i] /\ k \in Nat /\ i \in Nat /\ at[k] \in Nat /\ at[i] \in Nat
      BY <1>1, <1>3, <1>4, <2>1, <3>2, <3>5
    <3>7. k < i
      <4>1. k = i \/ i < k \/ k < i
        BY <3>6
      <4>2. ~(i < k)
        BY <1>3, <3>6
      <4> QED
        BY <3>6, <4>1, <4>2
    <3>8. k \in 1..(i - 1)
      BY <1>3, <3>5, <3>6, <3>7
    <3> QED
      BY <1>4, <2>1, <3>1, <3>5, <3>8
  <2> QED
    BY <2>1, <2>2
<1> QED
  BY <1>4, <1>5, <1>6, <1>8 DEF Rises, ChainedBy

LEMMA LoggedFork == ASSUME Logged, NEW e \in Entries \cup {None}, Fork(e) PROVE Logged'
<1>1. /\ storage = "open" /\ op = None /\ Garbage \notin Elements(lines) /\ ended' = TRUE
      /\ mem' = lines' /\ acked' = lines' /\ lastID' = Root
      /\ UNCHANGED <<storage, parentID, created, op>>
  BY DEF Fork
<1>2. PICK at \in Places(Len(lines)) :
         /\ Elements(at) = {i \in 1..Len(lines) : e = None \/ lines[i] \in PathToRoot(e)}
         /\ lines' = [i \in DOMAIN at |-> lines[at[i]]]
  BY DEF Fork
<1>3. Rises(lines, created) /\ ChainedBy(parentID, lines) /\ created \in Nat /\ created \in 0..MaxEntries
      /\ parentID \in [Entries -> Nat]
  BY <1>1, SessionAssumption DEF Logged, Readable, LogTypes
<1> DEFINE chosen == {i \in 1..Len(lines) : e = None \/ lines[i] \in PathToRoot(e)}
<1>4. ASSUME NEW i \in chosen, NEW j \in DOMAIN lines, lines[j] = parentID[lines[i]]
      PROVE  j \in chosen
  <2>1. lines[j] \in 1..created
    BY <1>3 DEF Rises
  <2>2. lines[j] \in Entries /\ lines[j] # Root
    BY <1>3, <2>1, SessionAssumption DEF Entries, Root
  <2>3. j \in 1..Len(lines)
    BY <1>3 DEF Rises
  <2> QED
    BY <1>3, <1>4, <2>2, <2>3, PathHasParents
<1>5. Elements(at) = chosen /\ chosen \in SUBSET (1..Len(lines))
  BY <1>2
<1> HIDE DEF chosen
<1>6. Rises(lines', created) /\ ChainedBy(parentID, lines')
  BY <1>2, <1>3, <1>4, <1>5, ForkKeeps
<1>7. lines' \in Seq(Nat)
  BY <1>3, <1>6 DEF Rises
<1>8. LogTypes'
  BY <1>1, <1>6, <1>7 DEF LogTypes, Logged, Root
<1>9. Underway' /\ Memory' /\ Readable'
  BY <1>1, <1>6 DEF Underway, Memory, Readable, Held
<1> QED
  BY <1>8, <1>9 DEF Logged

LEMMA LoggedStep == Logged /\ [SessionNext]_sessionVars => Logged'
<1> SUFFICES ASSUME Logged, [SessionNext]_sessionVars PROVE Logged'
  OBVIOUS
<1>1. CASE UNCHANGED sessionVars
  BY <1>1 DEF sessionVars, Logged, LogTypes, Underway, Memory, Readable, Elements
<1>2. ASSUME NEW m \in BOOLEAN, AppendLine(m) \/ AppendFails(m) PROVE Logged'
  BY <1>2, LoggedLine, LoggedFails
<1>3. ASSUME NEW e \in Entries \cup {None}, Fork(e) PROVE Logged'
  BY <1>3, LoggedFork
<1> QED
  BY <1>1, <1>2, <1>3, LoggedRemember, LoggedSaves, LoggedCrash, LoggedOpen DEF SessionNext

(* A storage opens only on a file all of whose lines parse. *)
LEMMA OpenKeepsAll ==
    ASSUME Logged, [SessionNext]_sessionVars, storage = "closed", storage' = "open"
    PROVE  KeepsAll(mem', acked)
<1>1. Open
  BY DEF SessionNext, AppendLine, AppendFails, NewEntry, Remember, SaveMeta, Crash, OpenRefused,
         Fork, sessionVars, Logged, Underway
<1>2. Garbage \notin Elements(lines) /\ mem' = lines
  BY <1>1 DEF Open, Opened
<1>3. Rises(lines, created) /\ Rises(acked, created) /\ created \in Nat /\ \A i \in DOMAIN acked : Held(acked[i], lines)
  BY <1>2, SessionAssumption DEF Logged, Readable, LogTypes
<1>4. lines \in Seq(1..created) /\ acked \in Seq(1..created)
  BY <1>3 DEF Rises
<1>5. Elements(acked) \subseteq Elements(lines)
  BY <1>3, <1>4 DEF Elements, Held
<1>6. ASSUME NEW p \in DOMAIN lines, NEW q \in DOMAIN lines, NEW i \in DOMAIN acked, NEW j \in DOMAIN acked,
             lines[p] = acked[i], lines[q] = acked[j]
      PROVE  p < q <=> i < j
  <2>1. /\ p \in Nat /\ q \in Nat /\ i \in Nat /\ j \in Nat
        /\ lines[p] \in Int /\ lines[q] \in Int
    BY <1>3, <1>4
  <2>2. (p < q => lines[p] < lines[q]) /\ (q < p => lines[q] < lines[p])
        /\ (i < j => acked[i] < acked[j]) /\ (j < i => acked[j] < acked[i])
    BY <1>3 DEF Rises
  <2> QED
    BY <1>6, <2>1, <2>2
<1> QED
  BY <1>2, <1>5, <1>6 DEF KeepsAll

LEMMA LoggedKeeps == Logged => PathsComplete
<1> SUFFICES ASSUME Logged PROVE PathsComplete
  OBVIOUS
<1>1. Rises(mem, created) /\ ChainedBy(parentID, mem)
  BY DEF Logged, LogTypes, Memory
<1>2. DOMAIN mem = 1..Len(mem)
  BY <1>1 DEF Rises
<1> QED
  BY <1>1, <1>2 DEF PathsComplete, ChainedBy, Root

-------------------------------------------------------------------------------
(* Whoever moves stays the one, and the others stay where they are.        *)
LEMMA OneMoves ==
    ASSUME [Next \/ (Stopped /\ UNCHANGED vars)]_vars
    PROVE  /\ focus' = focus
           /\ focus = "files" => [FilesNext]_fileVars
           /\ focus = "fetch" => [FetchNext]_fetchVars
           /\ focus = "search" => [SearchNext]_searchVars
           /\ focus = "repo" => [RepoNext]_repoVars
           /\ [SessionNext]_sessionVars
BY DEF Next, Others, vars

(* What a tool knows of a file or a page is no staler than it says: no     *)
(* edit over what the model has not seen but for what came unseen, no page *)
(* from a cache past its time, no search that gives up early; nor is a     *)
(* session's storage staler than its file (fileio, webfetch, websearch,    *)
(* session/repo.go).                                                       *)
THEOREM NothingStaleAlways == Spec => []NothingStale
<1> DEFINE Kept == /\ focus = "files" => Gate
                   /\ focus = "fetch" => Fetched
                   /\ focus = "search" => Searched
                   /\ focus = "repo" => Stored
<1>1. Init => Kept
  BY GateInit, FetchedInit, SearchedInit, StoredInit DEF Init
<1>2. Kept /\ [Next \/ (Stopped /\ UNCHANGED vars)]_vars => Kept'
  <2> SUFFICES ASSUME Kept, [Next \/ (Stopped /\ UNCHANGED vars)]_vars PROVE Kept'
    OBVIOUS
  <2>1. /\ focus' = focus
        /\ focus = "files" => [FilesNext]_fileVars
        /\ focus = "fetch" => [FetchNext]_fetchVars
        /\ focus = "search" => [SearchNext]_searchVars
        /\ focus = "repo" => [RepoNext]_repoVars
    BY OneMoves
  <2>2. focus = "files" => Gate'
    BY <2>1, GateStep
  <2>3. focus = "fetch" => Fetched'
    BY <2>1, FetchedStep
  <2>4. focus = "search" => Searched'
    BY <2>1, SearchedStep
  <2>5. focus = "repo" => Stored'
    BY <2>1, StoredStep
  <2> QED
    BY <2>1, <2>2, <2>3, <2>4, <2>5
<1>3. Kept => NothingStale
  <2>1. Gate => GateIsExact
    BY DEF Gate, LossAccounted, Accounted, RefusedUnseen, GateIsExact
  <2>2. Fetched => CacheBounded /\ HitIsRecent
    BY DEF Fetched
  <2>3. Searched => SearchExhausts
    BY DEF Searched
  <2> QED
    BY <2>1, <2>2, <2>3, StoredKeeps DEF NothingStale
<1> QED
  BY <1>1, <1>2, <1>3, PTL DEF Spec

(* The way to the root exists for every entry that a session holds in      *)
(* memory, whatever was lost, found again or forked (jsonl.go).            *)
THEOREM PathsCompleteAlways == Spec => []PathsComplete
<1>1. Init => Logged
  BY LoggedInit DEF Init
<1>2. Logged /\ [Next \/ (Stopped /\ UNCHANGED vars)]_vars => Logged'
  BY OneMoves, LoggedStep
<1> QED
  BY <1>1, <1>2, LoggedKeeps, PTL DEF Spec

(* A session's file opens with every entry that was accepted, in order, or *)
(* does not open (jsonl.go, loop_writer.go).                               *)
THEOREM NoSilentLossAlways == Spec => NoSilentLoss
<1> DEFINE Opens == storage = "closed" /\ storage' = "open"
<1>1. Init => Logged
  BY LoggedInit DEF Init
<1>2. Logged /\ [Next \/ (Stopped /\ UNCHANGED vars)]_vars => Logged'
  BY OneMoves, LoggedStep
<1>3. Logged /\ [Next \/ (Stopped /\ UNCHANGED vars)]_vars
        => [Opens => KeepsAll(mem', acked)]_sessionVars
  BY OneMoves, OpenKeepsAll
<1> QED
  BY <1>1, <1>2, <1>3, PTL DEF Spec, NoSilentLoss
===============================================================================
