----------------------------- MODULE SessionRepo -----------------------------
(***************************************************************************)
(* Who has a session open (agentcore/session): storages that a SessionRepo *)
(* creates, opens and deletes for its callers, all of one id, and storages *)
(* in memory with their forks.  The repo's lock does not cover what the    *)
(* storages it gave away do; each of them has a lock of its own.  Writes   *)
(* that fail and crashes are in SessionLog.                                *)
(***************************************************************************)
EXTENDS Integers, Sequences, SequencesExt, FiniteSets

CONSTANTS
    RepoClients,      \* storages that may be in use at once
    MaxRepoEntries    \* bound: entries ever appended

ASSUME RepoAssumption == MaxRepoEntries \in Nat

VARIABLES
    file,         \* the session's entries, or <<0>> when there is no file
    sidecar,      \* MessageCount in the metadata file, -1 when there is none
    store,        \* of each client: its kind, entries, count and last entry
    parentOf,     \* of each entry: that of its storage before it, or 0
    outlived,     \* storages whose file was deleted
    misplaced,    \* a file holds entries of such a storage
    leftOver      \* a sidecar is that of a deleted file

repoVars == <<file, sidecar, store, parentOf, outlived, misplaced, leftOver>>

NoFile == <<0>>
Unopened == [kind |-> "none", mem |-> <<>>, count |-> 0, last |-> 0, saving |-> FALSE]
NewStore(kind, has, counted) ==
    [kind |-> kind, mem |-> has, count |-> counted, last |-> 0, saving |-> FALSE]

RepoInit ==
    /\ file = NoFile /\ sidecar = -1
    /\ store = [c \in RepoClients |-> Unopened]
    /\ parentOf = <<>> /\ outlived = {} /\ misplaced = FALSE /\ leftOver = FALSE

Uses(c, kind) == store[c].kind = kind /\ ~store[c].saving
Gives(c, new) == store' = [store EXCEPT ![c] = new] /\ outlived' = outlived \ {c}

(* NewJSONLStorage takes whatever sidecar there is. *)
Loaded(c, has) == Gives(c, NewStore("file", has, IF sidecar = -1 THEN 0 ELSE sidecar))

-----------------------------------------------------------------------------
(* Create makes no file: until one of them appends, two callers may both   *)
(* have created the session.                                               *)
CreateSessionFile(c) ==
    /\ Uses(c, "none") /\ file = NoFile
    /\ Loaded(c, <<>>)
    /\ UNCHANGED <<file, sidecar, parentOf, misplaced, leftOver>>

OpenSessionFile(c) ==
    /\ Uses(c, "none") /\ file # NoFile
    /\ Loaded(c, file)
    /\ UNCHANGED <<file, sidecar, parentOf, misplaced, leftOver>>

(* A caller lets go of its storage. *)
Release(c) ==
    /\ store[c].kind # "none" /\ ~store[c].saving
    /\ Gives(c, Unopened)
    /\ UNCHANGED <<file, sidecar, parentOf, misplaced, leftOver>>

(* Delete: the error of removing the sidecar is dropped. *)
DeleteSession ==
    /\ file # NoFile \/ sidecar # -1
    /\ file' = NoFile /\ sidecar' \in {-1, sidecar}
    /\ leftOver' = (sidecar' # -1) /\ misplaced' = FALSE
    /\ outlived' = {c \in RepoClients : store[c].kind = "file"}
    /\ UNCHANGED <<store, parentOf>>

(* What List says of the session: the count of its metadata. *)
Listed == IF file = NoFile THEN {} ELSE {IF sidecar = -1 THEN 0 ELSE sidecar}

-----------------------------------------------------------------------------
Stores(c, e, saves) ==
    /\ LET its == store[c]
       IN store' = [store EXCEPT ![c] = [its EXCEPT !.mem = Append(@, e), !.count = @ + 1,
                                                    !.last = e, !.saving = saves]]
    /\ parentOf' = Append(parentOf, store[c].last)

(* AppendEntry of a file, which is made again if it is gone ... *)
AppendToFile(c) ==
    /\ Uses(c, "file") /\ Len(parentOf) < MaxRepoEntries
    /\ LET e == Len(parentOf) + 1
       IN /\ file' = IF file = NoFile THEN <<e>> ELSE Append(file, e)
          /\ Stores(c, e, TRUE)
    /\ misplaced' = (misplaced \/ c \in outlived)
    /\ UNCHANGED <<sidecar, outlived, leftOver>>

(* ... and its sidecar, which is the last writer's. *)
SaveSidecar(c) ==
    /\ store[c].saving
    /\ sidecar' = store[c].count
    /\ store' = [store EXCEPT ![c].saving = FALSE]
    /\ leftOver' = (leftOver \/ c \in outlived)
    /\ UNCHANGED <<file, parentOf, outlived, misplaced>>

CreateInMemory(c) ==
    /\ Uses(c, "none")
    /\ Gives(c, NewStore("memory", <<>>, 0))
    /\ UNCHANGED <<file, sidecar, parentOf, misplaced, leftOver>>

AppendToMemory(c) ==
    /\ Uses(c, "memory") /\ Len(parentOf) < MaxRepoEntries
    /\ Stores(c, Len(parentOf) + 1, FALSE)
    /\ UNCHANGED <<file, sidecar, outlived, misplaced, leftOver>>

(* Fork: all the entries up to one of them, in the order they came in,     *)
(* though only some may be on its path; the fork counts no message.        *)
ForkInMemory(c, d) ==
    /\ Uses(c, "memory") /\ Uses(d, "none")
    /\ \E n \in DOMAIN store[c].mem :
          Gives(d, [NewStore("memory", SubSeq(store[c].mem, 1, n), 0) EXCEPT !.last = store[c].mem[n]])
    /\ UNCHANGED <<file, sidecar, parentOf, misplaced, leftOver>>

RepoNext ==
    \/ \E c \in RepoClients :
          \/ CreateSessionFile(c) \/ OpenSessionFile(c) \/ Release(c)
          \/ AppendToFile(c) \/ SaveSidecar(c)
          \/ CreateInMemory(c) \/ AppendToMemory(c)
          \/ \E d \in RepoClients : ForkInMemory(c, d)
    \/ DeleteSession

-----------------------------------------------------------------------------
RepoTypeOK ==
    /\ sidecar \in -1..MaxRepoEntries
    /\ \A c \in RepoClients : store[c].kind \in {"none", "file", "memory"}

(* What a storage has is in the file, once and in the same order. *)
InFile(mem) ==
    /\ ToSet(mem) \subseteq ToSet(file)
    /\ \A p, q \in DOMAIN file, i, j \in DOMAIN mem :
          file[p] = mem[i] /\ file[q] = mem[j] => (p < q <=> i < j)

Chained(entries) ==
    \A i \in DOMAIN entries :
        parentOf[entries[i]] = 0 \/ \E j \in 1..(i - 1) : entries[j] = parentOf[entries[i]]

(* However many storages a session has (repo.go:33-94, memory.go:43-137):  *)
(* the file holds in order what each has appended, unless it was deleted   *)
(* under it; the way to the root exists for all of it, but for storages    *)
(* that outlived their file; List counts no more messages than there are,  *)
(* but for a sidecar left over; and the forks of memory have their paths.  *)
RepoKept ==
    /\ \A c \in RepoClients :
          store[c].kind = "file" /\ c \notin outlived /\ store[c].mem # <<>> =>
              file # NoFile /\ InFile(store[c].mem)
    /\ file # NoFile /\ ~misplaced => Chained(file)
    /\ ~leftOver => \A n \in Listed : n <= Len(file)
    /\ \A c \in RepoClients : store[c].kind = "memory" => Chained(store[c].mem)
==============================================================================
