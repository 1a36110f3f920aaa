------------------------------- MODULE FileTools -------------------------------
(***************************************************************************)
(* Read, Edit, Write and NotebookEdit on one file, while something else    *)
(* (a shell command, an editor, another agent) may write it too.           *)
(*                                                                         *)
(* An edit needs a read: RecordReadState keeps the file's size and time,   *)
(* HasFreshRead compares them.  The recorded hash is never compared.  The  *)
(* file is a version and a stamp, its size and time; a later version may   *)
(* have an earlier one's stamp.  A path that is not absolute or outside    *)
(* the workspace is an error before anything else, and not modelled.       *)
(***************************************************************************)
EXTENDS Integers, Sequences, FiniteSets

CONSTANTS
    Stamps,        \* sizes and times of the file
    NoStamp,       \* a path that is not in the cache
    MaxVersions    \* bound: versions of the file writes

ASSUME StampsAssumption == NoStamp \notin Stamps

VARIABLES
    host,      \* "adapter": ToAgentTool's context; "session": one with a cache
    disk,      \* version (0: no such file) and stamp of the file
    record,    \* the stamp ReadFileState has for the path
    call,      \* the call under way: its operation and its next step
    shown,     \* versions the model has seen some lines of, or wrote
    writes,    \* of each version, whether it came unseen: within a call, or with the recorded stamp
    refused,   \* the last call asked to read first
    lost       \* versions a gated write replaced

fileVars == <<host, disk, record, call, shown, writes, refused, lost>>

NoCall == [op |-> "none", step |-> "idle"]
Newest == Len(writes)
Idle == call = NoCall
Returns == call' = NoCall

FilesInit ==
    /\ host \in {"adapter", "session"}
    /\ \/ disk = [version |-> 0, stamp |-> NoStamp] /\ writes = << >>
       \/ disk \in [version : {1}, stamp : Stamps] /\ writes = << FALSE >>
    /\ record = NoStamp /\ call = NoCall /\ shown = {} /\ refused = FALSE /\ lost = {}

-----------------------------------------------------------------------------
(* RecordReadState, which ToAgentTool's context gives no cache. *)
Recorded == record' = IF host = "session" /\ disk.version # 0 THEN disk.stamp ELSE record

(* Mutant: a path that is in the cache is fresh. *)
HasFreshReadOnce == record # NoStamp

(* HasFreshRead: whose mtime+size+hash still match, of which two are looked at. *)
HasFreshRead == record = disk.stamp

(* os.WriteFile: the new version, all of it or, if it fails, a part. *)
NewVersion(unseen) ==
    \E stamp \in Stamps :
       /\ disk' = [version |-> Newest + 1, stamp |-> stamp]
       /\ writes' = Append(writes, unseen \/ stamp = record)

-----------------------------------------------------------------------------
(* Read: the lines asked for, or a note that the file is binary; then the  *)
(* state of the file as it is by then.                                     *)
ReadFile ==
    /\ Idle /\ disk.version # 0
    /\ call' = [op |-> "Read", step |-> "record"]
    /\ shown' = shown \cup {disk.version}
    /\ refused' = FALSE
    /\ UNCHANGED <<host, disk, record, writes, lost>>

RecordReadState ==
    /\ call.step = "record"
    /\ Recorded /\ Returns
    /\ UNCHANGED <<host, disk, shown, writes, refused, lost>>

(* Edit of an existing file, and Write over one: the gate. *)
CheckFresh ==
    /\ Idle /\ disk.version # 0
    /\ refused' = ~HasFreshRead
    /\ \E op \in {"Edit", "Write"} :
         call' = IF ~HasFreshRead THEN NoCall
                 ELSE [op |-> op, step |-> IF op = "Edit" THEN "match" ELSE "write"]
    /\ UNCHANGED <<host, disk, record, shown, writes, lost>>

(* Write to no file, and Edit with no old string: no gate. *)
CheckMissing ==
    /\ Idle /\ disk.version = 0 /\ refused' = FALSE
    /\ call' = [op |-> "Write", step |-> "write"]
    /\ UNCHANGED <<host, disk, record, shown, writes, lost>>

(* Edit reads again; the old string is not there, or there more than once  *)
(* without replace_all, or the text is replaced.                           *)
MatchOldString ==
    /\ call.step = "match"
    /\ \/ Returns
       \/ disk.version # 0 /\ call' = [call EXCEPT !.step = "write"]
    /\ UNCHANGED <<host, disk, record, shown, writes, refused, lost>>

(* The text goes to disk, and what was there is lost. *)
WriteFile ==
    /\ call.step = "write" /\ call.op \in {"Edit", "Write"} /\ Newest < MaxVersions
    /\ NewVersion(FALSE)
    /\ lost' = lost \cup ({disk.version} \ {0})
    /\ shown' = shown \cup {Newest + 1}
    /\ call' = [call EXCEPT !.step = "record"]
    /\ UNCHANGED <<host, record, refused>>

WriteFails ==
    /\ call.step = "write" /\ Newest < MaxVersions
    /\ NewVersion(TRUE) /\ Returns
    /\ lost' = IF call.op = "Notebook" THEN lost ELSE lost \cup ({disk.version} \ {0})
    /\ UNCHANGED <<host, record, shown, refused>>

(* NotebookEdit: no gate and no record; a cell that is not there, or a     *)
(* file that is no notebook, is an error.                                  *)
ReadNotebook ==
    /\ Idle /\ disk.version # 0
    /\ call' = [op |-> "Notebook", step |-> "write"]
    /\ refused' = FALSE
    /\ UNCHANGED <<host, disk, record, shown, writes, lost>>

WriteNotebook ==
    /\ call.step = "write" /\ call.op = "Notebook" /\ Newest < MaxVersions
    /\ NewVersion(TRUE) /\ Returns
    /\ UNCHANGED <<host, record, shown, refused, lost>>

(* Something else writes the file, or removes it. *)
OthersWrite ==
    /\ Newest < MaxVersions
    /\ NewVersion(~Idle)
    /\ UNCHANGED <<host, record, call, shown, refused, lost>>

OthersRemove ==
    /\ disk.version # 0
    /\ disk' = [version |-> 0, stamp |-> NoStamp]
    /\ UNCHANGED <<host, record, call, shown, writes, refused, lost>>

(* Bound: no version is left to write. *)
FilesStopped == call.step = "write" /\ Newest = MaxVersions

FilesNext ==
    \/ ReadFile \/ RecordReadState \/ CheckFresh \/ CheckMissing \/ MatchOldString
    \/ WriteFile \/ WriteFails \/ ReadNotebook \/ WriteNotebook \/ OthersWrite \/ OthersRemove

-----------------------------------------------------------------------------
FilesTypeOK ==
    /\ disk.version \in 0..Newest /\ (disk.version = 0 <=> disk.stamp = NoStamp)
    /\ record \in Stamps \cup {NoStamp}
    /\ call.step \in {"idle", "record", "match", "write"}
    /\ shown \cup lost \subseteq 1..Newest

(* "refuse to edit: read first (or re-read if it changed on disk)"         *)
(* (edit.go:146, write.go:121): a file that is as the model read or wrote  *)
(* it is not refused.                                                      *)
ReadThenEdit == refused => disk.version \notin shown

(* What the model never saw is replaced by an Edit or a Write only if it   *)
(* came unseen: while a call ran, from a notebook edit or a failed write,  *)
(* or with the size and time of what was read (paths.go:113-131); and a    *)
(* context that has a cache refuses nothing else.                          *)
GateIsExact ==
    /\ \A version \in lost : version \in shown \/ writes[version]
    /\ host = "session" => ReadThenEdit
===============================================================================
