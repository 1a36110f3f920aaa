------------------------------ MODULE SessionLog ------------------------------
(***************************************************************************)
(* A session in a JSONL file (agentcore/session): the LoopWriter that      *)
(* chains the entries of a run, the JSONLStorage that appends them to the  *)
(* file and to its copy in memory, and the SessionRepo that opens and      *)
(* forks sessions, with writes that fail half-way and with crashes.        *)
(*                                                                         *)
(* An entry is a number.  A line of the file is an entry, or Garbage when  *)
(* it does not load; text added to a line that has no newline yet makes    *)
(* that line Garbage.  AppendEntry holds s.mu throughout, so its steps     *)
(* are interleaved with crashes only.                                      *)
(***************************************************************************)
EXTENDS Integers, Sequences, FiniteSets

CONSTANT MaxEntries   \* bound on the entries ever created

ASSUME SessionAssumption == MaxEntries \in Nat

VARIABLES
    storage,    \* "open", "closed" after a crash, "refused" when the file cannot be loaded
    lines,      \* the file
    ended,      \* its last line ends in a newline
    saved,      \* MessageCount in the metadata file; NoMeta if there is none or it is broken
    mem,        \* s.entries
    count,      \* s.meta.MessageCount
    parentID,   \* SessionEntry.ParentID of every entry; Root for none
    messages,   \* entries of type "message"
    created,    \* entries created so far
    lastID,     \* LoopWriter.lastID
    op,         \* entry AppendEntry has written to the file and not yet finished with
    acked       \* entries AppendEntry has returned without an error, in order

sessionVars == <<storage, lines, ended, saved, mem, count, parentID, messages, created,
                 lastID, op, acked>>

Entries == 1..MaxEntries
Garbage == 0
Root == 0
None == 0
NoMeta == -1
Elements(s) == {s[i] : i \in 1..Len(s)}
Messages(s) == {i \in 1..Len(s) : s[i] \in messages}

(* NewJSONLStorage without a file, and NewLoopWriter. *)
SessionInit ==
    /\ storage = "open"
    /\ lines = <<>> /\ ended = TRUE /\ saved = NoMeta
    /\ mem = <<>> /\ count = 0
    /\ parentID = [e \in Entries |-> Root] /\ messages = {} /\ created = 0
    /\ lastID = Root /\ op = None /\ acked = <<>>

-----------------------------------------------------------------------------
(* LoopWriter.AppendEntry makes an entry whose parent is the last one that *)
(* was stored.                                                             *)
NewEntry(isMessage) ==
    /\ storage = "open" /\ op = None /\ created < MaxEntries
    /\ created' = created + 1
    /\ parentID' = [parentID EXCEPT ![created + 1] = lastID]
    /\ messages' = IF isMessage THEN messages \cup {created + 1} ELSE messages

(* The file after text that would be the line x by itself. *)
Added(x) ==
    IF ended THEN Append(lines, x) ELSE [lines EXCEPT ![Len(lines)] = Garbage]

(* A line longer than the 8 MiB the scanner takes is written all the same. *)
AppendLine(isMessage) ==
    /\ NewEntry(isMessage)
    /\ lines' \in {Added(created + 1), Added(Garbage)} /\ ended' = TRUE
    /\ op' = created + 1
    /\ UNCHANGED <<storage, saved, mem, count, lastID, acked>>

(* Mutant: the writer takes the entry as its last before it is stored. *)
AppendFailsChained(isMessage) ==
    /\ NewEntry(isMessage)
    /\ lastID' = created + 1
    /\ UNCHANGED <<storage, lines, ended, saved, mem, count, op, acked>>

(* Opening, writing or closing the file fails: nothing, a part, all but    *)
(* the newline or the whole line is in the file, and the entry is not in   *)
(* memory.                                                                 *)
AppendFails(isMessage) ==
    /\ NewEntry(isMessage)
    /\ \/ UNCHANGED <<lines, ended>>
       \/ lines' = Added(Garbage) /\ ended' = FALSE
       \/ lines' = Added(created + 1) /\ ended' \in BOOLEAN
    /\ UNCHANGED <<storage, saved, mem, count, lastID, op, acked>>

(* The entry is added to memory and to the count. *)
Remember ==
    /\ op # None /\ op \notin Elements(mem)
    /\ mem' = Append(mem, op)
    /\ count' = IF op \in messages THEN count + 1 ELSE count
    /\ UNCHANGED <<storage, lines, ended, saved, parentID, messages, created, lastID, op, acked>>

(* saveMeta, whose error is ignored; it may leave the old file or a broken *)
(* one.  AppendEntry returns nil, and the writer keeps the entry's id.     *)
SaveMeta ==
    /\ op # None /\ op \in Elements(mem)
    /\ saved' \in {count, saved, NoMeta}
    /\ lastID' = op /\ acked' = Append(acked, op) /\ op' = None
    /\ UNCHANGED <<storage, lines, ended, mem, count, parentID, messages, created>>

-----------------------------------------------------------------------------
(* The process ends, between or within the steps of AppendEntry. *)
Crash ==
    /\ storage = "open"
    /\ storage' = "closed"
    /\ mem' = <<>> /\ count' = 0 /\ lastID' = Root /\ op' = None
    /\ UNCHANGED <<lines, ended, saved, parentID, messages, created, acked>>

Opened(entries) ==
    /\ storage = "closed"
    /\ storage' = "open"
    /\ mem' = entries
    /\ count' = IF saved = NoMeta THEN 0 ELSE saved
    /\ UNCHANGED <<lines, ended, saved, parentID, messages, created, lastID, op, acked>>

(* Mutant: a line that does not parse is skipped. *)
OpenSkipping == Opened(SelectSeq(lines, LAMBDA x : x # Garbage))

(* NewJSONLStorage on a file that exists, with a new LoopWriter, which     *)
(* begins a new chain: lastID is not read from the file.                   *)
Open == Garbage \notin Elements(lines) /\ Opened(lines)

(* One line that does not parse fails the whole load. *)
OpenRefused ==
    /\ storage = "closed" /\ Garbage \in Elements(lines)
    /\ storage' = "refused"
    /\ UNCHANGED <<lines, ended, saved, mem, count, parentID, messages, created, lastID, op,
                   acked>>

-----------------------------------------------------------------------------
(* GetPathToRoot: the entries in every set that holds e and the parents of *)
(* its members.                                                            *)
PathToRoot(e) ==
    {x \in Entries : \A C \in SUBSET Entries :
                        e \in C /\ (\A y \in C : parentID[y] \in C \cup {Root}) => x \in C}

(* Some of n places, in their order. *)
Places(n) ==
    {at \in UNION {[1..m -> 1..n] : m \in 0..n} : \A i, j \in DOMAIN at : i < j => at[i] < at[j]}

(* SessionRepo.Fork reads the file again and copies it all, or the path to *)
(* an entry, to a new session, which is followed from here on.             *)
Fork(e) ==
    /\ storage = "open" /\ op = None
    /\ Garbage \notin Elements(lines) /\ e \in Elements(lines) \cup {None}
    /\ \E at \in Places(Len(lines)) :
          /\ Elements(at) = {i \in 1..Len(lines) : e = None \/ lines[i] \in PathToRoot(e)}
          /\ lines' = [i \in DOMAIN at |-> lines[at[i]]]
    /\ ended' = TRUE /\ mem' = lines' /\ acked' = lines' /\ lastID' = Root
    /\ count' = Cardinality(Messages(lines'))
    /\ saved' \in {count', NoMeta}
    /\ UNCHANGED <<storage, parentID, messages, created, op>>

SessionNext ==
    \/ \E isMessage \in BOOLEAN : AppendLine(isMessage) \/ AppendFails(isMessage)
    \/ Remember \/ SaveMeta
    \/ Crash \/ Open \/ OpenRefused
    \/ \E e \in Entries \cup {None} : Fork(e)

-----------------------------------------------------------------------------
(* Every variable has its type; no entry is stored twice, and the count    *)
(* never runs ahead of the messages, however the two files were torn.      *)
SessionTypeOK ==
    /\ storage \in {"open", "closed", "refused"}
    /\ lines \in Seq(Entries \cup {Garbage}) /\ ended \in BOOLEAN
    /\ saved \in {NoMeta} \cup 0..MaxEntries
    /\ mem \in Seq(Entries) /\ acked \in Seq(Entries)
    /\ parentID \in [Entries -> Entries \cup {Root}]
    /\ messages \subseteq Entries /\ created \in 0..MaxEntries
    /\ lastID \in Entries \cup {Root} /\ op \in Entries \cup {None}
    /\ \A i, j \in 1..Len(mem) : mem[i] = mem[j] => i = j
    /\ count \in 0..Cardinality(Messages(mem))

(* The way to the root exists for every entry in memory (jsonl.go:155-158  *)
(* never fails): its parent is stored before it, although entries were     *)
(* lost to errors, found again after a crash, or left out of a fork.       *)
PathsComplete ==
    \A i \in 1..Len(mem) :
        parentID[mem[i]] = Root \/ \E j \in 1..(i - 1) : mem[j] = parentID[mem[i]]

(* All that t has is in s, once and in the same order. *)
KeepsAll(s, t) ==
    /\ Elements(t) \subseteq Elements(s)
    /\ \A p, q \in DOMAIN s, i, j \in DOMAIN t : s[p] = t[i] /\ s[q] = t[j] => (p < q <=> i < j)

(* A session is never shortened silently: if it opens after a crash, it    *)
(* has every entry that AppendEntry had accepted, in order.                *)
NoSilentLoss ==
    [][storage = "closed" /\ storage' = "open" => KeepsAll(mem', acked)]_sessionVars
================================================================================
