----------------------------- MODULE FileCommit -----------------------------
(***************************************************************************)
(* How the agent changes files on Linux: write and delete of               *)
(* src/mcp_fs.rs, upload of src/mcp_transfer.rs, and the temporary file    *)
(* and commit they share (src/platform/linux/filesystem.rs, transfer.rs).  *)
(*                                                                         *)
(* One directory.  The operations run concurrently on threads of the       *)
(* agent; they serialise on a lock that several names may share.  Other    *)
(* programs rename and remove what they like between any two of their      *)
(* system calls, the process may be killed, and the machine may lose       *)
(* power: of each name, either what the directory says or what was last    *)
(* flushed is then left, and contents that were not flushed are torn.      *)
(* A hash is modelled by the content it is of.                             *)
(***************************************************************************)
EXTENDS Integers, FiniteSets

CONSTANTS
    Ops,        \* the operations, each run once; also the name and the
                \* inode of the temporary file of each
    Kind,       \* Kind[o]: what o does
    Targets,    \* the names operations change
    Target,     \* Target[o]
    Stripe,     \* Stripe[t]: the lock that serialises changes of t
    NewData,    \* NewData[o]: the content o writes
    Expected,   \* Expected[o]: if_match_sha256, or AnyContent when empty
    AnyContent,
    Torn,       \* an incomplete content
    Short,      \* an upload's content without its last chunk
    NotRegular, \* stands for the content of a link, a directory, ...
    None,       \* no such name
    Foreign,    \* inodes of other programs
    ForeignData, \* their contents
    Initial,    \* the inode of each target at first
    Exposed,    \* the names that other programs change, too
    MaxCrashes  \* bound: kills and power losses

Inodes == Ops \cup Foreign

ASSUME OpsAssumption ==
    /\ Kind \in [Ops -> {"write", "upload", "delete", "deleteTree"}]
    /\ Target \in [Ops -> Targets]
    /\ Ops \cap Foreign = {} /\ Ops \cap Targets = {} /\ None \notin Inodes

ASSUME DataAssumption ==
    /\ \A o \in Ops : NewData[o] \notin {Torn, NotRegular, None}
    /\ Short \notin {Torn, NotRegular, None}
    /\ \A i \in Foreign : ForeignData[i] \notin {Torn, None}
    /\ \A t \in Targets : Initial[t] \in Foreign \cup {None}
    /\ MaxCrashes \in Nat

VARIABLES
    dir,      \* dir[n]: the inode the name n refers to, or None
    flushed,  \* what of dir is certain to survive a loss of power
    data,     \* data[i]: the content of inode i
    synced,   \* the inodes whose content survives it
    at,       \* at[o]: the step operation o is about to take
    result,   \* result[o]: what the dashboard is told
    holder,   \* holder[s]: the operation that holds the lock s, or None
    spare,    \* the foreign inodes not yet in the directory
    touched,  \* history: operations whose target another program changed
              \* between their last comparison and their rename
    swapped,  \* history: operations whose temporary name another program
              \* changed between the check of its inode and its use
    renamed,  \* history: operations that have renamed onto their target
    abandoned, \* history: operations whose temporary was in its place when
              \* the system would not identify or remove it
    crashes   \* counts kills and power losses, for the bound

vars == <<dir, flushed, data, synced, at, result, holder, spare, touched,
          swapped, renamed, abandoned, crashes>>

Names == Targets \cup Ops
Stripes == {Stripe[t] : t \in Targets}
LockOf(o) == Stripe[Target[o]]

\* The steps of each kind of operation, in order.
WriteNext ==
    [lock |-> "prematch", prematch |-> "create", create |-> "fill",
     fill |-> "match", match |-> "validate", validate |-> "owns",
     owns |-> "rename", rename |-> "sync", sync |-> "done"]

UploadNextComparedOnce ==
    [prematch |-> "create", create |-> "fill", fill |-> "lock",
     lock |-> "validate", validate |-> "owns",
     owns |-> "rename", rename |-> "sync", sync |-> "done"]

\* An upload compares before it receives, and again under the lock.
UploadNext ==
    [prematch |-> "create", create |-> "fill", fill |-> "lock",
     lock |-> "match", match |-> "validate", validate |-> "owns",
     owns |-> "rename", rename |-> "sync", sync |-> "done"]

DeleteNext == [lock |-> "stat", stat |-> "unlink", unlink |-> "done"]

After(o, step) ==
    CASE Kind[o] = "write" -> WriteNext[step]
      [] Kind[o] = "upload" -> UploadNext[step]
      [] OTHER -> DeleteNext[step]

First(o) == IF Kind[o] = "upload" THEN "prematch" ELSE "lock"

Steps == {"idle", "lock", "prematch", "create", "fill", "match", "validate",
          "owns", "rename", "sync", "stat", "unlink",
          "clean",        \* dropping a TempEntry: whose is the name?
          "cleanUnlink",  \* ... and removing it
          "done", "dead"}

\* Between the last comparison and the rename, and between the check of the
\* temporary's inode and the use of its name.
Window == {"validate", "owns", "rename"}
NameWindow == {"rename", "cleanUnlink"}

\* The steps o can be at.
StepsOf(o) ==
    {"idle", "lock", "done", "dead"} \cup
    (IF Kind[o] \in {"write", "upload"}
     THEN {"prematch", "create", "fill", "match", "sync", "clean", "cleanUnlink"}
            \cup Window
     ELSE {"stat", "unlink"})

Contents ==
    {NewData[o] : o \in Ops} \cup {ForeignData[i] : i \in Foreign} \cup {Torn, Short}

Content(t) == IF dir[t] = None THEN None ELSE data[dir[t]]

TypeOK ==
    /\ dir \in [Names -> Inodes \cup {None}]
    /\ flushed \in [Names -> Inodes \cup {None}]
    /\ data \in [Inodes -> Contents]
    /\ synced \in SUBSET Inodes
    /\ at \in [Ops -> Steps] /\ \A o \in Ops : at[o] \in StepsOf(o)
    /\ result \in [Ops -> {"none", "ok", "error"}]
    /\ holder \in [Stripes -> Ops \cup {None}]
    /\ spare \in SUBSET Foreign
    /\ touched \in SUBSET Ops /\ swapped \in SUBSET Ops /\ renamed \in SUBSET Ops
    /\ abandoned \in SUBSET Ops
    /\ crashes \in Nat

Init ==
    /\ dir = [n \in Names |-> IF n \in Targets THEN Initial[n] ELSE None]
    /\ flushed = dir
    /\ data = [i \in Inodes |-> IF i \in Foreign THEN ForeignData[i] ELSE Torn]
    /\ synced = Foreign
    /\ at = [o \in Ops |-> "idle"]
    /\ result = [o \in Ops |-> "none"]
    /\ holder = [s \in Stripes |-> None]
    /\ spare = Foreign \ {Initial[t] : t \in Targets}
    /\ touched = {} /\ swapped = {} /\ renamed = {}
    /\ abandoned = {} /\ crashes = 0

-----------------------------------------------------------------------------
(* The operations *)

FilesKept == UNCHANGED <<dir, flushed, data, synced>>
OthersKept == UNCHANGED <<spare, touched, swapped, abandoned, crashes>>

\* Leaving scope releases the lock, if o has it.
Released(o) == [s \in Stripes |-> IF holder[s] = o THEN None ELSE holder[s]]

Goto(o, step) == at' = [at EXCEPT ![o] = step] /\ UNCHANGED <<result, holder>>

End(o, r) ==
    /\ at' = [at EXCEPT ![o] = "done"]
    /\ result' = [result EXCEPT ![o] = r]
    /\ holder' = Released(o)

Begin(o) ==
    /\ at[o] = "idle" /\ Goto(o, First(o))
    /\ FilesKept /\ OthersKept /\ UNCHANGED renamed

LockUnheld(o) ==
    /\ at[o] = "lock"
    /\ Goto(o, After(o, "lock"))
    /\ FilesKept /\ OthersKept /\ UNCHANGED renamed

Lock(o) ==
    /\ at[o] = "lock" /\ holder[LockOf(o)] = None
    /\ at' = [at EXCEPT ![o] = After(o, "lock")]
    /\ holder' = [holder EXCEPT ![LockOf(o)] = o]
    /\ FilesKept /\ OthersKept /\ UNCHANGED <<result, renamed>>

\* open_regular_at and the hash; a missing or irregular target fails.
Match(o) ==
    /\ at[o] \in {"prematch", "match"}
    /\ Expected[o] = AnyContent \/ Content(Target[o]) = Expected[o]
    /\ Goto(o, After(o, at[o]))
    /\ FilesKept /\ OthersKept /\ UNCHANGED renamed

\* O_CREAT | O_EXCL under a new unique name.
Create(o) ==
    /\ at[o] = "create"
    /\ dir' = [dir EXCEPT ![o] = o]
    /\ Goto(o, After(o, "create"))
    /\ OthersKept /\ UNCHANGED <<flushed, data, synced, renamed>>

\* The operation ends without its temporary having been removed.
Abandon(o) ==
    /\ End(o, "error")
    /\ abandoned' = IF dir'[o] = o THEN abandoned \cup {o} ELSE abandoned
    /\ UNCHANGED <<spare, touched, swapped, renamed, crashes>>

\* The file is there, but its inode cannot be looked up, and without that
\* there is no TempEntry to remove it.
CreateFails(o) ==
    /\ at[o] = "create"
    /\ dir' = [dir EXCEPT ![o] = o] /\ UNCHANGED <<flushed, data, synced>>
    /\ Abandon(o)

FillUnsynced(o) ==
    /\ at[o] = "fill"
    /\ data' = [data EXCEPT ![o] = NewData[o]]
    /\ Goto(o, After(o, "fill"))
    /\ OthersKept /\ UNCHANGED <<dir, flushed, synced, renamed>>

\* An upload writes through tokio's File, which takes a chunk over and leaves
\* it to another thread.  If that fails the next write would say so; after the
\* last there is none, and sync_all does not.
Written(o) == {NewData[o]} \cup (IF Kind[o] = "upload" THEN {Short} ELSE {})

\* All of the content is written or received, and sync_all succeeds.
Fill(o) ==
    /\ at[o] = "fill"
    /\ \E d \in Written(o) : data' = [data EXCEPT ![o] = d]
    /\ synced' = synced \cup {o}
    /\ Goto(o, After(o, "fill"))
    /\ OthersKept /\ UNCHANGED <<dir, flushed, renamed>>

\* validate_final_target: nothing there, or a regular file.
Validate(o) ==
    /\ at[o] = "validate" /\ Content(Target[o]) # NotRegular
    /\ Goto(o, After(o, "validate"))
    /\ FilesKept /\ OthersKept /\ UNCHANGED renamed

OwnsUnchecked(o) ==
    /\ at[o] = "owns"
    /\ Goto(o, After(o, "owns"))
    /\ FilesKept /\ OthersKept /\ UNCHANGED renamed

\* TempEntry::rename_to, first half: the name still is the inode created.
Owns(o) ==
    /\ at[o] = "owns" /\ dir[o] = o
    /\ Goto(o, After(o, "owns"))
    /\ FilesKept /\ OthersKept /\ UNCHANGED renamed

Rename(o) ==
    /\ at[o] = "rename" /\ dir[o] # None
    /\ dir' = [dir EXCEPT ![Target[o]] = dir[o], ![o] = None]
    /\ renamed' = renamed \cup {o}
    /\ Goto(o, After(o, "rename"))
    /\ OthersKept /\ UNCHANGED <<flushed, data, synced>>

SyncSkipped(o) ==
    /\ at[o] = "sync" /\ End(o, "ok")
    /\ FilesKept /\ OthersKept /\ UNCHANGED renamed

\* parent.sync_all
Sync(o) ==
    /\ at[o] = "sync" /\ End(o, "ok")
    /\ flushed' = dir
    /\ OthersKept /\ UNCHANGED <<dir, data, synced, renamed>>

Stat(o) ==
    /\ at[o] = "stat" /\ dir[Target[o]] # None
    /\ Goto(o, After(o, "stat"))
    /\ FilesKept /\ OthersKept /\ UNCHANGED renamed

Unlink(o) ==
    /\ at[o] = "unlink" /\ dir[Target[o]] # None
    /\ dir' = [dir EXCEPT ![Target[o]] = None]
    /\ End(o, "ok")
    /\ OthersKept /\ UNCHANGED <<flushed, data, synced, renamed>>

\* A recursive delete of what is not there deletes nothing and succeeds.
Absent(o) ==
    /\ Kind[o] = "deleteTree" /\ at[o] \in {"stat", "unlink"}
    /\ dir[Target[o]] = None
    /\ End(o, "ok")
    /\ FilesKept /\ OthersKept /\ UNCHANGED renamed

\* The operation holds a TempEntry that is not committed.
HasTemp(o) ==
    \/ at[o] \in {"fill", "match"} \cup Window
    \/ Kind[o] = "upload" /\ at[o] = "lock"

FailLeavingTemp(o) ==
    /\ at[o] \notin {"idle", "lock", "clean", "cleanUnlink", "done", "dead"}
    /\ End(o, "error")
    /\ FilesKept /\ OthersKept /\ UNCHANGED renamed

\* Any step may fail: a system call, a comparison, a check; waiting for the
\* lock cannot.  The temporary is dropped before the lock is released, but
\* for an upload whose comparison fails.
Fail(o) ==
    /\ at[o] \notin {"idle", "lock", "clean", "cleanUnlink", "done", "dead"}
    /\ IF HasTemp(o)
       THEN /\ at' = [at EXCEPT ![o] = "clean"]
            /\ holder' = IF Kind[o] = "upload" /\ at[o] = "match"
                         THEN Released(o) ELSE holder
            /\ UNCHANGED result
       ELSE End(o, "error")
    /\ FilesKept /\ OthersKept /\ UNCHANGED renamed

Receiving(o) == Kind[o] = "upload" /\ at[o] = "fill"

\* An upload is given 300 seconds, and is cancelled with its session.
UploadUntimed(o) == FALSE

UploadCut(o) == Receiving(o) /\ Fail(o)

\* TempEntry::drop
Clean(o) ==
    /\ at[o] = "clean"
    /\ IF dir[o] = o THEN Goto(o, "cleanUnlink") ELSE End(o, "error")
    /\ FilesKept /\ OthersKept /\ UNCHANGED renamed

CleanUnlink(o) ==
    /\ at[o] = "cleanUnlink"
    /\ dir' = [dir EXCEPT ![o] = None]
    /\ End(o, "error")
    /\ OthersKept /\ UNCHANGED <<flushed, data, synced, renamed>>

\* An error of fstatat counts as a name that is not ours, one of unlinkat is
\* ignored.
CleanFails(o) == at[o] \in {"clean", "cleanUnlink"} /\ FilesKept /\ Abandon(o)

-----------------------------------------------------------------------------
(* Everyone else *)

\* Another program puts an inode of its own in the place of n, or removes or
\* moves away what is there.
Outside(n) ==
    /\ \E i \in spare \cup {None} :
          /\ i # dir[n]
          /\ n \in Ops => dir[n] # None
          /\ dir' = [dir EXCEPT ![n] = i]
          /\ spare' = spare \ {i}
    /\ touched' = touched \cup {o \in Ops : Target[o] = n /\ at[o] \in Window}
    /\ swapped' = swapped \cup {o \in Ops : o = n /\ at[o] \in NameWindow}
    /\ UNCHANGED <<flushed, data, synced, at, result, holder, renamed, abandoned,
                   crashes>>

Died ==
    /\ crashes < MaxCrashes /\ crashes' = crashes + 1
    /\ at' = [o \in Ops |-> IF at[o] \in {"idle", "done"} THEN at[o] ELSE "dead"]
    /\ holder' = [s \in Stripes |-> None]
    /\ UNCHANGED <<result, spare, touched, swapped, renamed, abandoned>>

Killed == Died /\ FilesKept

PowerLost ==
    /\ Died
    /\ dir' \in {d \in [Names -> Inodes \cup {None}] :
                   \A n \in Names : d[n] \in {dir[n], flushed[n]}}
    /\ flushed' = dir'
    /\ data' = [i \in Inodes |-> IF i \in synced THEN data[i] ELSE Torn]
    /\ UNCHANGED synced

OpStep(o) ==
    \/ Begin(o) \/ Lock(o) \/ Match(o) \/ Create(o) \/ Fill(o) \/ Validate(o)
    \/ Owns(o) \/ Rename(o) \/ Sync(o) \/ Stat(o) \/ Unlink(o) \/ Absent(o)
    \/ Fail(o) \/ UploadCut(o) \/ Clean(o) \/ CleanUnlink(o)
    \/ CreateFails(o) \/ CleanFails(o)

Next ==
    \/ \E o \in Ops : OpStep(o)
    \/ \E n \in Names \cap Exposed : Outside(n)
    \/ Killed
    \/ PowerLost

Spec == Init /\ [][Next]_vars

\* Threads run on; the dashboard need not send what it announced.
Fairness ==
    \A o \in Ops : /\ WF_vars(~Receiving(o) /\ OpStep(o))
                   /\ WF_vars(UploadCut(o))

FairSpec == Spec /\ Fairness

-----------------------------------------------------------------------------
(* Properties *)

\* An operation with an if_match hash replaces exactly that content, whatever
\* the other operations do meanwhile and however long an upload takes, unless
\* another program changed the target after the last comparison.
CasHolds ==
    [][ \A o \in renamed' \ renamed :
          \/ Expected[o] = AnyContent
          \/ o \in touched
          \/ Content(Target[o]) = Expected[o] ]_vars

\* What another program put in the place of a temporary file is neither
\* committed nor removed, unless it got there after the check of the inode
\* (temporary_replacement_is_neither_committed_nor_cleaned_up).
ForeignTempKept ==
    [][ \A o \in Ops :
          dir[o] \in Foreign /\ dir'[o] # dir[o] /\ at' # at /\ crashes' = crashes
            => o \in swapped ]_vars

\* An operation that has ended leaves no temporary file, whatever fails and
\* whenever, unless another program moved the file elsewhere: the one that
\* may stay is of an operation told to have failed, and the system refused to
\* identify or to remove the file (filesystem.rs 252 and 253 ignore what
\* fstatat and unlinkat say, and at 282 there is no TempEntry yet).  One that
\* was killed may leave its file; and as the removal is not flushed, a loss of
\* power may bring the file back.
TempsRemoved ==
    \A o \in Ops : at[o] = "done" /\ crashes = 0 /\ dir[o] = o =>
        o \in abandoned /\ result[o] = "error"

\* At no time, a loss of power included, is the content of a target
\* torn: it is flushed before it is renamed.  (It may be Short.)
TargetsWhole ==
    \A t \in Targets : \A i \in {dir[t], flushed[t]} \ {None} :
        i \in synced /\ data[i] # Torn

\* A write or an upload that was told to have succeeded, and was not replaced
\* since, survives a loss of power.
AckedDurable ==
    \A o \in Ops : LET t == Target[o] IN
        result[o] = "ok" /\ dir[t] = o => flushed[t] = o

\* With no other program at work, writes, uploads and deletes are atomic.
StoreValue == [t \in Targets |-> Content(t)]

Applied ==
    renamed \cup {o \in Ops : Kind[o] \in {"delete", "deleteTree"} /\ result[o] = "ok"}

Store == INSTANCE FileStore WITH
    value <- StoreValue, applied <- Applied, told <- result

IsStore == Store!Spec

\* Every operation ends, however little the dashboard sends of an upload.
OpsEnd == \A o \in Ops : (at[o] # "idle") ~> (at[o] \in {"done", "dead"})

\* A failed upload preserves its target (the name and the assertions of
\* failed_uploads_preserve_target_and_remove_temporary_file).
FailedUploadPreservesTarget ==
    \A o \in Ops : Kind[o] = "upload" /\ result[o] = "error" => o \notin renamed
=============================================================================
