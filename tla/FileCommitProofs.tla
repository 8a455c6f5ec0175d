-------------------------- MODULE FileCommitProofs --------------------------
(***************************************************************************)
(* For any operations, names, locks and contents: compare-and-rename is    *)
(* atomic among the agent's operations, a target is never incomplete, no   *)
(* temporary file is left or lost to another program's, what was told to   *)
(* succeed is flushed; and with nothing else at work the operations        *)
(* implement the atomic store of FileStore.                                *)
(***************************************************************************)
EXTENDS FileCommit, TLAPS

-----------------------------------------------------------------------------
(* The inductive invariant: what is behind CasHolds and TargetsWhole, ... *)

\* The steps an operation takes under its lock.
UnderLock(o) ==
    {"match", "stat", "unlink"} \cup Window
      \cup (IF Kind[o] = "upload" THEN {} ELSE {"prematch", "create", "fill"})

LocksHeld == \A o \in Ops : at[o] \in UnderLock(o) => holder[LockOf(o)] = o

\* An operation's inode is no target before its rename.
BeforeRename(o) ==
    at[o] \in {"idle", "lock", "prematch", "create", "fill", "match"} \cup Window

OwnInodeUnseen ==
    \A o \in Ops : BeforeRename(o) =>
        /\ o \notin renamed
        /\ \A t \in Targets : dir[t] # o /\ flushed[t] # o

\* A temporary is complete once the operation has passed fill.
Filled(o, step) ==
    step \in {"match"} \cup Window \/ (Kind[o] = "upload" /\ step = "lock")

TempsWhole ==
    \A o \in Ops : Filled(o, at[o]) => o \in synced /\ data[o] # Torn

TempNames ==
    \A o \in Ops : {dir[o], flushed[o]} \subseteq {o, None} \cup Foreign

Compared ==
    \A o \in Ops : at[o] \in Window =>
        Expected[o] = AnyContent \/ o \in touched \/ Content(Target[o]) = Expected[o]

SyncedWhole == Foreign \subseteq synced /\ \A i \in synced : data[i] # Torn

Committing ==
    /\ TypeOK
    /\ LocksHeld
    /\ OwnInodeUnseen
    /\ TempsWhole
    /\ TempNames
    /\ Compared
    /\ TargetsWhole
    /\ SyncedWhole

-----------------------------------------------------------------------------
(* ... behind TempsRemoved, ForeignTempKept and AckedDurable *)

Writing(o) == Kind[o] \in {"write", "upload"}

\* There is no temporary before it is created, nor ever one of a delete.
Uncreated(o) ==
    \/ ~Writing(o)
    \/ at[o] \in {"idle", "prematch", "create"}
    \/ Kind[o] = "write" /\ at[o] = "lock"

\* Whose the name of a temporary is.
NameKnown(o) ==
    /\ Uncreated(o) => dir[o] = None /\ flushed[o] = None
    /\ at[o] = "sync" => dir[o] = None
    /\ at[o] \in NameWindow /\ dir[o] \in Foreign => o \in swapped

\* The dashboard is told of what has ended; a delete has no inode to rename.
ToldAtEnd(o) ==
    /\ result[o] # "none" => at[o] = "done"
    /\ at[o] = "sync" => o \in renamed
    /\ ~Writing(o) =>
         o \notin renamed /\ \A n \in Names : dir[n] # o /\ flushed[n] # o

Accounted ==
    /\ \A o \in Ops : NameKnown(o) /\ ToldAtEnd(o)
    /\ TempsRemoved
    /\ AckedDurable

-----------------------------------------------------------------------------
(* ... and behind IsStore *)

\* No other program is at work, and nothing crashes.
Undisturbed == Exposed \cap Names = {} /\ MaxCrashes = 0

\* A temporary stays where it is, with what was written to it, and the target
\* stays what it was found to be.
Alone(o) ==
    /\ o \notin touched
    /\ HasTemp(o) => dir[o] = o
    /\ Filled(o, at[o]) => data[o] \in Written(o)
    /\ at[o] \in {"owns", "rename"} => Content(Target[o]) # NotRegular

AloneWhenUndisturbed == Undisturbed => crashes = 0 /\ \A o \in Ops : Alone(o)

Inductive == Committing /\ Accounted /\ AloneWhenUndisturbed

-----------------------------------------------------------------------------
\* The steps of an operation touch none of the other variables, but for the
\* record of the temporaries that stay.
OthersPass ==
    /\ UNCHANGED <<spare, touched, swapped, crashes>>
    /\ abandoned \subseteq abandoned' /\ abandoned' \in SUBSET Ops

\* Most of them leave that record alone, too.
LEMMA KeptPass ==
    ASSUME Committing, OthersKept
    PROVE  OthersPass
  BY DEF Committing, TypeOK, OthersKept, OthersPass

\* An operation that ends may add itself.
LEMMA AbandonPass ==
    ASSUME Committing, NEW o \in Ops, Abandon(o)
    PROVE  /\ OthersPass /\ End(o, "error") /\ UNCHANGED renamed
           /\ dir'[o] = o => o \in abandoned'
  BY DEF Committing, TypeOK, Abandon, OthersPass

\* The steps that follow each step.
LEMMA Successors ==
    ASSUME NEW o \in Ops
    PROVE  /\ Kind[o] = "write" =>
                /\ After(o, "lock") = "prematch" /\ After(o, "prematch") = "create"
                /\ After(o, "fill") = "match" /\ After(o, "match") = "validate"
           /\ Kind[o] = "upload" =>
                /\ After(o, "prematch") = "create" /\ After(o, "fill") = "lock"
                /\ After(o, "lock") = "match" /\ After(o, "match") = "validate"
           /\ Kind[o] \in {"write", "upload"} =>
                /\ After(o, "create") = "fill" /\ After(o, "validate") = "owns"
                /\ After(o, "owns") = "rename" /\ After(o, "rename") = "sync"
           /\ Kind[o] \in {"delete", "deleteTree"} =>
                /\ After(o, "lock") = "stat" /\ After(o, "stat") = "unlink"
  BY DEF After, WriteNext, UploadNext, DeleteNext

\* What a step of o that changes no file has to respect.
LEMMA Advance ==
    ASSUME Committing,
           NEW o \in Ops, NEW step \in StepsOf(o),
           at' = [at EXCEPT ![o] = step],
           result' \in [Ops -> {"none", "ok", "error"}],
           holder' \in [Stripes -> Ops \cup {None}],
           \A p \in Ops : p # o /\ at[p] \in UnderLock(p) => holder'[LockOf(p)] = p,
           step \in UnderLock(o) => holder'[LockOf(o)] = o,
           step \in {"lock", "prematch", "create", "fill", "match"} \cup Window
              => BeforeRename(o),
           Filled(o, step) => o \in synced /\ data[o] # Torn,
           step \in Window
              => Expected[o] = AnyContent \/ o \in touched \/ Content(Target[o]) = Expected[o],
           step # "idle",
           FilesKept, OthersPass, UNCHANGED renamed
    PROVE  Committing'
<1> USE DEF Committing, FilesKept, OthersPass
<1>1. TypeOK'
  BY DEF TypeOK, StepsOf, Steps, Window
<1>2. \A p \in Ops : p # o => at'[p] = at[p]
  BY DEF TypeOK
<1>3. at'[o] = step
  BY DEF TypeOK
<1>4. LocksHeld'
  BY <1>2, <1>3 DEF LocksHeld, UnderLock, Window
<1>5. OwnInodeUnseen'
  BY <1>2, <1>3 DEF OwnInodeUnseen, BeforeRename
<1>6. TempsWhole'
  BY <1>2, <1>3 DEF TempsWhole, Filled
<1>7. \A t \in Targets : Content(t)' = Content(t)
  BY DEF Content
<1>8. Compared'
  BY <1>2, <1>3, <1>7, OpsAssumption DEF Compared
<1>9. (TempNames /\ TargetsWhole /\ SyncedWhole)'
  BY DEF TempNames, TargetsWhole, SyncedWhole
<1> QED
  BY <1>1, <1>4, <1>5, <1>6, <1>8, <1>9

\* Only the end of an operation releases its lock, and only its own.
LEMMA Releases ==
    ASSUME Committing, NEW o \in Ops
    PROVE  /\ Released(o) \in [Stripes -> Ops \cup {None}]
           /\ \A p \in Ops : p # o /\ at[p] \in UnderLock(p)
                => Released(o)[LockOf(p)] = p
<1>1. \A p \in Ops : LockOf(p) \in Stripes
  BY OpsAssumption DEF LockOf, Stripes
<1>2. \A p \in Ops : p # None
  BY OpsAssumption DEF Inodes
<1> QED
  BY <1>1, <1>2 DEF Committing, TypeOK, LocksHeld, Released

\* The steps that change no file.
LEMMA QuietPreserve ==
    ASSUME Committing, NEW o \in Ops,
           \/ Begin(o) \/ Lock(o) \/ Match(o) \/ Validate(o) \/ Owns(o)
           \/ Stat(o) \/ Absent(o) \/ Fail(o) \/ UploadCut(o) \/ Clean(o)
           \/ CleanFails(o)
    PROVE  Committing'
<1>1. /\ TypeOK /\ LocksHeld /\ TempsWhole /\ Compared
      /\ at[o] \in StepsOf(o)
      /\ Kind[o] \in {"write", "upload", "delete", "deleteTree"}
      /\ LockOf(o) \in Stripes
  BY OpsAssumption DEF Committing, TypeOK, LockOf, Stripes
<1>2. \A p \in Ops : at[p] \in UnderLock(p) => holder[LockOf(p)] = p
  BY <1>1 DEF LocksHeld
<1>3. ASSUME NEW step, Goto(o, step), step \in StepsOf(o),
             at[o] \in UnderLock(o) \/ step \notin UnderLock(o),
             step \in {"lock", "prematch", "create", "fill", "match"} \cup Window
                => BeforeRename(o),
             Filled(o, step) => o \in synced /\ data[o] # Torn,
             step \in Window
                => Expected[o] = AnyContent \/ o \in touched
                   \/ Content(Target[o]) = Expected[o],
             step # "idle",
             FilesKept, OthersKept, UNCHANGED renamed
      PROVE  Committing'
  BY <1>1, <1>2, <1>3, KeptPass, Advance DEF Goto, TypeOK
<1>4. ASSUME NEW r \in {"ok", "error"}, End(o, r),
             FilesKept, OthersPass, UNCHANGED renamed
      PROVE  Committing'
  <2>1. "done" \in StepsOf(o) /\ "done" \notin UnderLock(o) /\ "done" \notin Window
        /\ ~Filled(o, "done")
    BY DEF StepsOf, UnderLock, Window, Filled
  <2>2. result' \in [Ops -> {"none", "ok", "error"}]
    BY <1>1, <1>4 DEF End, TypeOK
  <2>3. holder' = Released(o) /\ at' = [at EXCEPT ![o] = "done"]
    BY <1>4 DEF End
  <2> QED
    BY <1>4, <2>1, <2>2, <2>3, Releases, Advance
<1>5. CASE Begin(o)
  <2>1. at[o] = "idle" /\ Goto(o, First(o))
    BY <1>5 DEF Begin
  <2>2. First(o) \in {"prematch", "lock"} /\ First(o) \in StepsOf(o)
        /\ First(o) \notin UnderLock(o) /\ ~Filled(o, First(o))
    BY <1>1 DEF First, StepsOf, UnderLock, Window, Filled
  <2> QED
    BY <1>3, <1>5, <2>1, <2>2 DEF Begin, BeforeRename, Window
<1>6. CASE Lock(o)
  <2> DEFINE step == After(o, "lock")
  <2>1. /\ at[o] = "lock" /\ holder[LockOf(o)] = None
        /\ at' = [at EXCEPT ![o] = step]
        /\ holder' = [holder EXCEPT ![LockOf(o)] = o]
    BY <1>6 DEF Lock
  <2>2. /\ step \in {"prematch", "match", "stat"} /\ step \in StepsOf(o)
        /\ step = "match" => Kind[o] = "upload"
    BY <1>1, Successors DEF StepsOf
  <2>3. holder' \in [Stripes -> Ops \cup {None}] /\ holder'[LockOf(o)] = o
    BY <1>1, <2>1 DEF TypeOK
  <2>4. \A p \in Ops : p # o /\ at[p] \in UnderLock(p) => holder'[LockOf(p)] = p
    BY <1>1, <1>2, <2>1, OpsAssumption DEF TypeOK, LockOf, Stripes, Inodes
  <2>5. Filled(o, step) => o \in synced /\ data[o] # Torn
    BY <2>1, <2>2, <1>1 DEF TempsWhole, Filled, Window
  <2>6. result' = result /\ FilesKept /\ OthersKept /\ UNCHANGED renamed
    BY <1>6 DEF Lock
  <2> HIDE DEF step
  <2> QED
    BY <1>1, <2>1, <2>2, <2>3, <2>4, <2>5, <2>6, KeptPass, Advance DEF TypeOK, BeforeRename, Window
<1>7. CASE Match(o)
  <2>1. /\ at[o] \in {"prematch", "match"} /\ Goto(o, After(o, at[o]))
        /\ Expected[o] = AnyContent \/ Content(Target[o]) = Expected[o]
    BY <1>7 DEF Match
  <2>2. Kind[o] \in {"write", "upload"}
    BY <1>1, <2>1 DEF StepsOf, Window
  <2>3. /\ at[o] = "prematch" => After(o, at[o]) = "create"
        /\ at[o] = "match" => After(o, at[o]) = "validate"
    BY <2>2, Successors
  <2>4. at[o] \in UnderLock(o) \/ After(o, at[o]) \notin UnderLock(o)
    BY <1>1, <2>1, <2>2, <2>3 DEF UnderLock, Window
  <2>5. After(o, at[o]) \in StepsOf(o)
    BY <2>1, <2>2, <2>3 DEF StepsOf, Window
  <2> QED
    BY <1>1, <1>3, <1>7, <2>1, <2>3, <2>4, <2>5
       DEF Match, BeforeRename, TempsWhole, Filled, Window
<1>8. CASE Validate(o) \/ Owns(o)
  <2>1. /\ at[o] \in {"validate", "owns"} /\ Goto(o, After(o, at[o]))
    BY <1>8 DEF Validate, Owns
  <2>2. Kind[o] \in {"write", "upload"}
    BY <1>1, <2>1 DEF StepsOf, Window
  <2>3. After(o, at[o]) \in Window /\ After(o, at[o]) \in StepsOf(o)
    BY <2>1, <2>2, Successors DEF Window, StepsOf
  <2>4. at[o] \in UnderLock(o) /\ at[o] \in Window
    BY <2>1 DEF UnderLock, Window
  <2> QED
    BY <1>1, <1>3, <1>8, <2>1, <2>3, <2>4
       DEF Validate, Owns, BeforeRename, TempsWhole, Filled, Compared, Window
<1>9. CASE Stat(o)
  <2>1. at[o] = "stat" /\ Goto(o, After(o, "stat"))
    BY <1>9 DEF Stat
  <2>2. Kind[o] \in {"delete", "deleteTree"}
    BY <1>1, <2>1 DEF StepsOf, Window
  <2>3. After(o, "stat") = "unlink" /\ "unlink" \in StepsOf(o) /\ at[o] \in UnderLock(o)
    BY <2>1, <2>2, Successors DEF StepsOf, UnderLock
  <2> QED
    BY <1>3, <1>9, <2>1, <2>3 DEF Stat, Window, Filled
<1>10. CASE Absent(o)
  BY <1>4, <1>10, KeptPass DEF Absent
<1>11. CASE Fail(o)
  <2>1. CASE HasTemp(o)
    <3>1. /\ at' = [at EXCEPT ![o] = "clean"]
          /\ holder' = Released(o) \/ holder' = holder
          /\ UNCHANGED result /\ FilesKept /\ OthersKept /\ UNCHANGED renamed
      BY <1>11, <2>1 DEF Fail
    <3>2. "clean" \in StepsOf(o) /\ "clean" \notin UnderLock(o) /\ "clean" \notin Window
          /\ ~Filled(o, "clean")
      BY <1>1, <2>1 DEF HasTemp, StepsOf, UnderLock, Window, Filled
    <3>3. /\ holder' \in [Stripes -> Ops \cup {None}]
          /\ \A p \in Ops : p # o /\ at[p] \in UnderLock(p) => holder'[LockOf(p)] = p
      BY <1>1, <1>2, <3>1, Releases DEF TypeOK
    <3>4. result' \in [Ops -> {"none", "ok", "error"}]
      BY <1>1, <3>1 DEF TypeOK
    <3> QED
      BY <3>1, <3>2, <3>3, <3>4, KeptPass, Advance
  <2>2. CASE ~HasTemp(o)
    BY <1>4, <1>11, <2>2, KeptPass DEF Fail
  <2> QED
    BY <2>1, <2>2
<1>12. CASE Clean(o)
  <2>1. CASE dir[o] = o
    <3>1. "cleanUnlink" \in StepsOf(o) /\ "cleanUnlink" \notin UnderLock(o)
          /\ "cleanUnlink" \notin Window /\ ~Filled(o, "cleanUnlink")
      BY <1>1, <1>12 DEF Clean, StepsOf, UnderLock, Window, Filled
    <3> QED
      BY <1>3, <1>12, <2>1, <3>1 DEF Clean
  <2>2. CASE dir[o] # o
    BY <1>4, <1>12, <2>2, KeptPass DEF Clean
  <2> QED
    BY <2>1, <2>2
<1>13. CASE CleanFails(o)
  BY <1>4, <1>13, AbandonPass DEF CleanFails
<1> QED
  BY <1>5, <1>6, <1>7, <1>8, <1>9, <1>10, <1>11, <1>12, <1>13 DEF UploadCut

\* The steps of a write or an upload that change files.  A rename leaves the
\* comparison of every other operation on the same target out of the
\* question, as two of them cannot hold the lock.
LEMMA FileStepsPreserve ==
    ASSUME Committing, NEW o \in Ops,
           \/ Create(o) \/ Fill(o) \/ Rename(o) \/ Sync(o) \/ Unlink(o)
           \/ CleanUnlink(o) \/ CreateFails(o)
    PROVE  Committing'
<1>1. /\ TypeOK /\ LocksHeld /\ OwnInodeUnseen /\ TempsWhole /\ TempNames
      /\ Compared /\ TargetsWhole /\ SyncedWhole
      /\ at[o] \in StepsOf(o)
      /\ Kind[o] \in {"write", "upload", "delete", "deleteTree"}
  BY OpsAssumption DEF Committing, TypeOK
<1>2. /\ \A p \in Ops : p \in Inodes /\ p \in Names /\ p \notin Foreign /\ p # None
      /\ \A t \in Targets : t \in Names /\ t \notin Ops
      /\ \A p \in Ops : Target[p] \in Targets
  BY OpsAssumption DEF Inodes, Names
<1>3. ASSUME NEW step \in {"fill", "done"}, step \in StepsOf(o), at[o] = "create",
             at' = [at EXCEPT ![o] = step], dir' = [dir EXCEPT ![o] = o],
             result' \in [Ops -> {"none", "ok", "error"}],
             holder' \in [Stripes -> Ops \cup {None}],
             \A p \in Ops : p # o /\ at[p] \in UnderLock(p)
                => holder'[LockOf(p)] = p,
             step = "fill" => holder' = holder,
             UNCHANGED <<flushed, data, synced, renamed>>, OthersPass
      PROVE  Committing'
  <2>1. /\ at[o] = "create" /\ dir' = [dir EXCEPT ![o] = o]
        /\ UNCHANGED <<flushed, data, synced, renamed, spare, touched, swapped,
                       crashes>>
        /\ abandoned' \in SUBSET Ops
    BY <1>3 DEF OthersPass
  <2>3. /\ \A t \in Targets : dir'[t] = dir[t]
        /\ \A p \in Ops : dir'[p] = dir[p] \/ dir'[p] = p
        /\ \A p \in Ops : p # o => at'[p] = at[p]
        /\ at'[o] = step
    BY <1>1, <1>2, <1>3, <2>1 DEF TypeOK
  <2>4. TypeOK'
    BY <1>1, <1>2, <1>3, <2>1 DEF TypeOK, StepsOf, Steps, Window
  <2>5. LocksHeld'
    BY <1>1, <1>3, <2>3 DEF LocksHeld, UnderLock, Window
  <2>6. OwnInodeUnseen' /\ TempsWhole' /\ TempNames'
    BY <1>1, <1>3, <2>1, <2>3 DEF OwnInodeUnseen, BeforeRename, TempsWhole, Filled, TempNames, Window
  <2>7. \A t \in Targets : Content(t)' = Content(t)
    BY <2>1, <2>3 DEF Content
  <2>8. Compared'
    BY <1>1, <1>2, <1>3, <2>1, <2>3, <2>7 DEF Compared, Window
  <2>9. TargetsWhole' /\ SyncedWhole'
    BY <1>1, <2>1, <2>3 DEF TargetsWhole, SyncedWhole
  <2> QED
    BY <2>4, <2>5, <2>6, <2>8, <2>9 DEF Committing
<1>4. CASE Fill(o)
  <2>0. PICK d \in Written(o) : data' = [data EXCEPT ![o] = d]
    BY <1>4 DEF Fill
  <2>1. /\ at[o] = "fill" /\ data' = [data EXCEPT ![o] = d]
        /\ synced' = synced \cup {o}
        /\ at' = [at EXCEPT ![o] = After(o, "fill")]
        /\ UNCHANGED <<dir, flushed, result, holder, spare, touched,
                       swapped, renamed, abandoned, crashes>>
    BY <1>4, <2>0 DEF Fill, Goto, OthersKept
  <2>2. Kind[o] \in {"write", "upload"}
    BY <1>1, <2>1 DEF StepsOf, Window
  <2>3. /\ After(o, "fill") \in {"match", "lock"} /\ After(o, "fill") \in StepsOf(o)
        /\ After(o, "fill") = "match" => Kind[o] = "write"
    BY <2>2, Successors DEF StepsOf
  <2>4. /\ \A i \in Inodes : i # o => data'[i] = data[i]
        /\ data'[o] = d /\ d # Torn
        /\ data' \in [Inodes -> Contents]
        /\ \A p \in Ops : p # o => at'[p] = at[p]
        /\ at'[o] = After(o, "fill")
    BY <1>1, <1>2, <2>0, <2>1, DataAssumption DEF TypeOK, Contents, Written
  <2>5. \A t \in Targets : dir[t] # o /\ flushed[t] # o
    BY <1>1, <2>1 DEF OwnInodeUnseen, BeforeRename
  <2>6. TypeOK'
    BY <1>1, <1>2, <2>1, <2>3, <2>4 DEF TypeOK, StepsOf, Steps
  <2>7. LocksHeld'
    BY <1>1, <2>1, <2>3, <2>4 DEF LocksHeld, UnderLock, Window
  <2>8. OwnInodeUnseen' /\ TempNames'
    BY <1>1, <2>1, <2>3, <2>4 DEF OwnInodeUnseen, BeforeRename, TempNames, Window
  <2>9. TempsWhole'
    BY <1>1, <1>2, <2>1, <2>3, <2>4 DEF TempsWhole, Filled
  <2>10. \A t \in Targets : Content(t)' = Content(t)
    BY <1>1, <1>2, <2>1, <2>4, <2>5 DEF Content, TypeOK
  <2>11. Compared'
    BY <1>1, <1>2, <2>1, <2>3, <2>4, <2>10 DEF Compared, Window
  <2>12. SyncedWhole'
    BY <1>1, <1>2, <2>1, <2>4 DEF SyncedWhole, TypeOK
  <2>13. TargetsWhole'
    BY <1>1, <1>2, <2>1, <2>4, <2>5 DEF TargetsWhole, TypeOK
  <2> QED
    BY <2>6, <2>7, <2>8, <2>9, <2>11, <2>12, <2>13 DEF Committing
<1>5. CASE Rename(o)
  <2> DEFINE t == Target[o]
  <2>1. /\ at[o] = "rename" /\ dir[o] # None
        /\ dir' = [dir EXCEPT ![t] = dir[o], ![o] = None]
        /\ renamed' = renamed \cup {o}
        /\ at' = [at EXCEPT ![o] = After(o, "rename")]
        /\ UNCHANGED <<flushed, data, synced, result, holder, spare, touched,
                       swapped, abandoned, crashes>>
    BY <1>5 DEF Rename, Goto, OthersKept
  <2>2. Kind[o] \in {"write", "upload"}
    BY <1>1, <2>1 DEF StepsOf, Window
  <2>3. After(o, "rename") = "sync" /\ "sync" \in StepsOf(o)
    BY <2>2, Successors DEF StepsOf
  <2>4. dir[o] \in {o} \cup Foreign
    BY <1>1, <2>1 DEF TempNames
  <2>5. /\ \A u \in Targets : dir'[u] = IF u = t THEN dir[o] ELSE dir[u]
        /\ \A p \in Ops : dir'[p] = IF p = o THEN None ELSE dir[p]
        /\ \A p \in Ops : p # o => at'[p] = at[p]
        /\ at'[o] = "sync"
    BY <1>1, <1>2, <2>1, <2>3 DEF TypeOK
  <2>6. TypeOK'
    BY <1>1, <1>2, <2>1, <2>3 DEF TypeOK, StepsOf, Steps
  <2>15. t = Target[o] /\ t \in Targets
    BY <1>2
  <2>16. /\ at[o] = "rename" /\ renamed' = renamed \cup {o}
         /\ flushed' = flushed /\ data' = data /\ synced' = synced /\ touched' = touched
    BY <2>1
  <2> HIDE DEF t
  <2>7. LocksHeld'
    BY <1>1, <2>1, <2>5 DEF LocksHeld, UnderLock, Window
  <2>8. OwnInodeUnseen'
    BY <1>1, <1>2, <2>16, <2>4, <2>5 DEF OwnInodeUnseen, BeforeRename, Window
  <2>9. TempsWhole' /\ TempNames'
    BY <1>1, <1>2, <2>16, <2>5 DEF TempsWhole, Filled, TempNames, Window
  <2>10. \A p \in Ops : p # o /\ at[p] \in Window => Target[p] # t
    BY <1>1, <2>1, <2>15 DEF LocksHeld, UnderLock, LockOf, Window
  <2>11. \A u \in Targets : u # t => Content(u)' = Content(u)
    BY <1>2, <2>16, <2>5 DEF Content
  <2>12. Compared'
    BY <1>1, <1>2, <2>16, <2>5, <2>10, <2>11 DEF Compared, Window
  <2>13. dir[o] \in synced /\ data[dir[o]] # Torn
    BY <1>1, <2>1, <2>4 DEF TempsWhole, Filled, Window, SyncedWhole
  <2>14. TargetsWhole' /\ SyncedWhole'
    BY <1>1, <1>2, <2>16, <2>5, <2>13 DEF TargetsWhole, SyncedWhole
  <2> QED
    BY <2>6, <2>7, <2>8, <2>9, <2>12, <2>14 DEF Committing
<1>6. ASSUME NEW r \in {"ok", "error"}, End(o, r),
             NEW N \in SUBSET Names,
             dir' = [n \in Names |-> IF n \in N THEN None ELSE dir[n]],
             \A t \in Targets \cap N : at[o] \in UnderLock(o) /\ Target[o] = t,
             flushed' = flushed \/ flushed' = dir,
             UNCHANGED <<data, synced, renamed>>, OthersPass
      PROVE  Committing'
  <2>1. /\ at' = [at EXCEPT ![o] = "done"] /\ holder' = Released(o)
        /\ UNCHANGED <<data, synced, renamed, spare, touched, swapped, crashes>>
        /\ result' = [result EXCEPT ![o] = r] /\ abandoned' \in SUBSET Ops
    BY <1>6 DEF End, OthersPass
  <2>2. /\ \A n \in Names : dir'[n] = None \/ dir'[n] = dir[n]
        /\ \A n \in Names : flushed'[n] = flushed[n] \/ flushed'[n] = dir[n]
        /\ dir' \in [Names -> Inodes \cup {None}]
        /\ flushed' \in [Names -> Inodes \cup {None}]
        /\ \A t \in Targets : t \notin N => dir'[t] = dir[t]
    BY <1>1, <1>2, <1>6 DEF TypeOK
  <2>3. /\ \A p \in Ops : p # o => at'[p] = at[p]
        /\ at'[o] = "done"
    BY <1>1, <2>1 DEF TypeOK
  <2>4. TypeOK'
    BY <1>1, <2>1, <2>2, Releases DEF TypeOK, StepsOf, Steps
  <2>5. LocksHeld'
    BY <2>1, <2>3, Releases DEF UnderLock, LocksHeld, Window
  <2>6. OwnInodeUnseen' /\ TempsWhole' /\ TempNames'
    BY <1>1, <1>2, <2>1, <2>2, <2>3
       DEF OwnInodeUnseen, BeforeRename, TempsWhole, Filled, TempNames, Window
  <2>7. \A p \in Ops : p # o /\ at[p] \in Window => Target[p] \notin N
    <3> SUFFICES ASSUME NEW p \in Ops, p # o, at[p] \in Window, Target[p] \in N
                 PROVE  FALSE
      OBVIOUS
    <3>1. at[o] \in UnderLock(o) /\ Target[o] = Target[p]
      BY <1>2, <1>6
    <3>2. at[p] \in UnderLock(p)
      BY DEF UnderLock
    <3> QED
      BY <1>1, <3>1, <3>2 DEF LocksHeld, LockOf
  <2>8. \A t \in Targets : t \notin N => Content(t)' = Content(t)
    BY <2>1, <2>2 DEF Content
  <2>9. Compared'
    BY <1>1, <1>2, <2>1, <2>3, <2>7, <2>8 DEF Compared, Window
  <2>10. TargetsWhole' /\ SyncedWhole'
    BY <1>1, <1>2, <2>1, <2>2 DEF TargetsWhole, SyncedWhole
  <2> QED
    BY <2>4, <2>5, <2>6, <2>9, <2>10 DEF Committing
<1>7. CASE Sync(o)
  <2>1. dir' = [n \in Names |-> IF n \in {} THEN None ELSE dir[n]]
    BY <1>1, <1>7 DEF Sync, TypeOK
  <2>2. /\ End(o, "ok") /\ flushed' = dir
        /\ UNCHANGED <<data, synced, renamed>> /\ OthersPass
    BY <1>7, KeptPass DEF Sync
  <2>3. {} \in SUBSET Names /\ \A t \in Targets \cap {} : FALSE
    OBVIOUS
  <2> QED
    BY <1>6, <2>1, <2>2, <2>3
<1>8. CASE Unlink(o)
  <2>1. dir' = [n \in Names |-> IF n \in {Target[o]} THEN None ELSE dir[n]]
    BY <1>1, <1>2, <1>8 DEF Unlink, TypeOK
  <2>2. /\ End(o, "ok") /\ flushed' = flushed /\ at[o] \in UnderLock(o)
        /\ UNCHANGED <<data, synced, renamed>> /\ OthersPass
    BY <1>8, KeptPass DEF Unlink, UnderLock
  <2> QED
    BY <1>2, <1>6, <2>1, <2>2
<1>9. CASE CleanUnlink(o)
  <2>1. dir' = [n \in Names |-> IF n \in {o} THEN None ELSE dir[n]]
    BY <1>1, <1>2, <1>9 DEF CleanUnlink, TypeOK
  <2>2. /\ End(o, "error") /\ flushed' = flushed
        /\ UNCHANGED <<data, synced, renamed>> /\ OthersPass
    BY <1>9, KeptPass DEF CleanUnlink
  <2> QED
    BY <1>2, <1>6, <2>1, <2>2
<1>10. CASE Create(o)
  <2>1. /\ at[o] = "create" /\ at' = [at EXCEPT ![o] = After(o, "create")]
        /\ dir' = [dir EXCEPT ![o] = o]
        /\ UNCHANGED <<flushed, data, synced, renamed, result, holder>> /\ OthersPass
    BY <1>10, KeptPass DEF Create, Goto
  <2>2. After(o, "create") = "fill" /\ "fill" \in StepsOf(o)
    BY <1>1, <2>1, Successors DEF StepsOf, Window
  <2>3. /\ result' \in [Ops -> {"none", "ok", "error"}]
        /\ holder' \in [Stripes -> Ops \cup {None}]
        /\ \A p \in Ops : at[p] \in UnderLock(p) => holder'[LockOf(p)] = p
    BY <1>1, <2>1 DEF TypeOK, LocksHeld
  <2> QED
    BY <1>3, <2>1, <2>2, <2>3
<1>11. CASE CreateFails(o)
  <2>1. /\ at[o] = "create" /\ at' = [at EXCEPT ![o] = "done"]
        /\ dir' = [dir EXCEPT ![o] = o]
        /\ result' = [result EXCEPT ![o] = "error"] /\ holder' = Released(o)
        /\ UNCHANGED <<flushed, data, synced, renamed>> /\ OthersPass
    BY <1>11, AbandonPass DEF CreateFails, End
  <2>2. "done" \in StepsOf(o) /\ result' \in [Ops -> {"none", "ok", "error"}]
    BY <1>1, <2>1 DEF StepsOf, TypeOK
  <2> QED
    BY <1>3, <2>1, <2>2, Releases
<1> QED
  BY <1>4, <1>5, <1>7, <1>8, <1>9, <1>10, <1>11

\* Other programs, kills and losses of power.
LEMMA OthersPreserve ==
    ASSUME Committing,
           (\E n \in Names : Outside(n)) \/ Killed \/ PowerLost
    PROVE  Committing'
<1>1. /\ TypeOK /\ LocksHeld /\ OwnInodeUnseen /\ TempsWhole /\ TempNames
      /\ Compared /\ TargetsWhole /\ SyncedWhole
  BY DEF Committing
<1>2. /\ \A p \in Ops : p \in Inodes /\ p \in Names /\ p \notin Foreign /\ p # None
      /\ \A t \in Targets : t \in Names /\ t \notin Ops
      /\ \A p \in Ops : Target[p] \in Targets
      /\ None \notin Foreign
  BY OpsAssumption DEF Inodes, Names
<1>3. ASSUME NEW n \in Names, Outside(n) PROVE Committing'
  <2>1. PICK i \in spare \cup {None} :
             dir' = [dir EXCEPT ![n] = i] /\ spare' = spare \ {i}
    BY <1>3 DEF Outside
  <2>2. /\ touched' = touched \cup {o \in Ops : Target[o] = n /\ at[o] \in Window}
        /\ swapped' = swapped \cup {o \in Ops : o = n /\ at[o] \in NameWindow}
        /\ UNCHANGED <<flushed, data, synced, at, result, holder, renamed,
                       abandoned, crashes>>
    BY <1>3 DEF Outside
  <2>3. /\ i \in Foreign \cup {None}
        /\ \A m \in Names : m # n => dir'[m] = dir[m]
        /\ dir'[n] = i
    BY <1>1, <2>1 DEF TypeOK
  <2>4. TypeOK'
    BY <1>1, <2>1, <2>2, <2>3 DEF TypeOK, Inodes
  <2>5. LocksHeld' /\ OwnInodeUnseen' /\ TempsWhole' /\ TempNames'
    BY <1>1, <1>2, <2>2, <2>3 DEF LocksHeld, OwnInodeUnseen, BeforeRename, TempsWhole, TempNames
  <2>6. \A t \in Targets : t # n => Content(t)' = Content(t)
    BY <1>2, <2>2, <2>3 DEF Content
  <2>7. Compared'
    BY <1>1, <1>2, <2>2, <2>6 DEF Compared
  <2>8. TargetsWhole' /\ SyncedWhole'
    BY <1>1, <1>2, <2>2, <2>3 DEF TargetsWhole, SyncedWhole
  <2> QED
    BY <2>4, <2>5, <2>7, <2>8 DEF Committing
<1>4. ASSUME Died,
             dir' \in [Names -> Inodes \cup {None}],
             flushed' \in [Names -> Inodes \cup {None}],
             \A n \in Names : /\ dir'[n] \in {dir[n], flushed[n]}
                              /\ flushed'[n] \in {dir[n], flushed[n]},
             data' \in [Inodes -> Contents],
             \A j \in synced : data'[j] = data[j],
             synced' = synced
      PROVE  Committing'
  <2>1. /\ at' \in [Ops -> Steps]
        /\ \A o \in Ops : at'[o] \in {"idle", "done", "dead"}
        /\ \A o \in Ops : at'[o] = "idle" => at[o] = "idle"
        /\ holder' \in [Stripes -> Ops \cup {None}]
        /\ crashes' \in Nat
        /\ UNCHANGED <<result, spare, touched, swapped, renamed, abandoned>>
    BY <1>1, <1>4 DEF Died, TypeOK, Steps
  <2>2. TypeOK'
    BY <1>1, <1>4, <2>1 DEF TypeOK, StepsOf
  <2>3. (LocksHeld /\ TempsWhole /\ Compared)'
    BY <2>1 DEF LocksHeld, UnderLock, TempsWhole, Filled, Compared, Window
  <2>4. OwnInodeUnseen'
    BY <1>1, <1>2, <1>4, <2>1 DEF OwnInodeUnseen, BeforeRename, Window
  <2>5. (TempNames /\ SyncedWhole)'
    BY <1>1, <1>2, <1>4 DEF TempNames, SyncedWhole
  <2>6. TargetsWhole'
    BY <1>1, <1>2, <1>4 DEF TargetsWhole
  <2> QED
    BY <2>2, <2>3, <2>4, <2>5, <2>6 DEF Committing
<1>5. CASE Killed
  BY <1>1, <1>4, <1>5 DEF Killed, FilesKept, TypeOK
<1>6. CASE PowerLost
  <2>1. /\ Died /\ flushed' = dir' /\ synced' = synced
        /\ dir' \in [Names -> Inodes \cup {None}]
        /\ \A n \in Names : dir'[n] \in {dir[n], flushed[n]}
    BY <1>6 DEF PowerLost
  <2>2. data' = [i \in Inodes |-> IF i \in synced THEN data[i] ELSE Torn]
    BY <1>6 DEF PowerLost
  <2>3. data' \in [Inodes -> Contents] /\ \A j \in synced : data'[j] = data[j]
    BY <1>1, <2>2 DEF TypeOK, Contents
  <2> QED
    BY <1>4, <2>1, <2>3
<1> QED
  BY <1>3, <1>5, <1>6

\* Locks, comparisons and contents, for any operations.
THEOREM CommittingInvariant == Spec => []Committing
<1>1. Init => Committing
  <2> SUFFICES ASSUME Init PROVE Committing
    OBVIOUS
  <2>1. /\ \A o \in Ops : o \notin Targets /\ o \notin Foreign
        /\ None \notin Foreign
    BY OpsAssumption DEF Inodes
  <2>2. TypeOK
    BY <2>1, DataAssumption DEF Init, TypeOK, Names, Inodes, Contents, Steps, StepsOf
  <2>3. LocksHeld /\ TempsWhole /\ Compared
    BY DEF Init, LocksHeld, UnderLock, TempsWhole, Filled, Compared, Window
  <2>4. \A n \in Names : /\ dir[n] \in Foreign \cup {None} /\ flushed[n] = dir[n]
                         /\ n \in Ops => dir[n] = None
    BY <2>1, DataAssumption DEF Init, Names
  <2>8. renamed = {} /\ \A o \in Ops : o # None
    BY OpsAssumption DEF Init, Inodes
  <2>5. OwnInodeUnseen /\ TempNames
    BY <2>1, <2>4, <2>8 DEF OwnInodeUnseen, TempNames, Names
  <2>6. synced = Foreign /\ \A i \in Foreign : data[i] # Torn
    BY DataAssumption DEF Init, Inodes
  <2>7. TargetsWhole /\ SyncedWhole
    BY <2>4, <2>6 DEF TargetsWhole, SyncedWhole, Names
  <2> QED
    BY <2>2, <2>3, <2>5, <2>7 DEF Committing
<1>2. Committing /\ [Next]_vars => Committing'
  <2>1. CASE UNCHANGED vars
    BY <2>1 DEF vars, Committing, TypeOK, LocksHeld, OwnInodeUnseen, BeforeRename,
       TempsWhole, TempNames, Compared, Content, TargetsWhole, SyncedWhole
  <2> QED
    BY <2>1, QuietPreserve, FileStepsPreserve, OthersPreserve DEF Next, OpStep
<1> QED
  BY <1>1, <1>2, PTL DEF Spec

\* An operation with an if_match hash replaces exactly that content, unless
\* another program changed the target after the last comparison.
THEOREM CompareAndRename == Spec => CasHolds
<1>1. Committing /\ [Next]_vars =>
        [ \A o \in renamed' \ renamed :
            \/ Expected[o] = AnyContent
            \/ o \in touched
            \/ Content(Target[o]) = Expected[o] ]_vars
  <2> SUFFICES ASSUME Committing, Next, NEW o \in renamed' \ renamed
               PROVE  \/ Expected[o] = AnyContent
                      \/ o \in touched
                      \/ Content(Target[o]) = Expected[o]
    OBVIOUS
  <2>1. ASSUME NEW p \in Ops, Rename(p)
        PROVE  \/ Expected[o] = AnyContent
               \/ o \in touched
               \/ Content(Target[o]) = Expected[o]
    <3>1. o = p /\ at[p] \in Window
      BY <2>1 DEF Rename, Window
    <3> QED
      BY <2>1, <3>1 DEF Committing, Compared
  <2>2. ASSUME NEW p \in Ops, OpStep(p), ~Rename(p) PROVE UNCHANGED renamed
    BY <2>2 DEF OpStep, Begin, Lock, Match, Create, Fill, Validate, Owns, Sync,
       Stat, Unlink, Absent, Fail, UploadCut, Clean, CleanUnlink,
       CleanFails, CreateFails, Abandon
  <2>3. ASSUME (\E n \in Names : Outside(n)) \/ Killed \/ PowerLost
        PROVE  UNCHANGED renamed
    BY <2>3 DEF Outside, Killed, PowerLost, Died
  <2> QED
    BY <2>1, <2>2, <2>3 DEF Next
<1> QED
  BY <1>1, CommittingInvariant, PTL DEF Spec, CasHolds

\* At no time, a loss of power included, is a target incomplete.
THEOREM TargetsAlwaysWhole == Spec => []TargetsWhole
<1>1. Committing => TargetsWhole
  BY DEF Committing
<1> QED
  BY <1>1, CommittingInvariant, PTL

-----------------------------------------------------------------------------
(* Names, answers and flushes *)

\* What a step of o that changes no file has to respect for the names.
LEMMA AdvanceAccounted ==
    ASSUME Committing, Accounted,
           NEW o \in Ops, NEW step \in Steps, NEW r \in {"none", "ok", "error"},
           at' = [at EXCEPT ![o] = step], result' = [result EXCEPT ![o] = r],
           Uncreated(o)' => Uncreated(o),
           step # "sync", step \in NameWindow => dir[o] = o,
           step = "done" => dir[o] # o \/ (o \in abandoned' /\ r = "error"),
           r # "none" => step = "done", r = "ok" => ~Writing(o),
           FilesKept, OthersPass, UNCHANGED renamed
    PROVE  Accounted'
<1>1. /\ \A p \in Ops : p # o => at'[p] = at[p] /\ result'[p] = result[p]
      /\ at'[o] = step /\ result'[o] = r
      /\ o \notin Foreign /\ Target[o] \in Names
  BY OpsAssumption DEF Committing, TypeOK, Inodes, Names
<1>2. /\ dir' = dir /\ flushed' = flushed /\ swapped' = swapped
      /\ renamed' = renamed /\ crashes' = crashes /\ abandoned \subseteq abandoned'
  BY DEF FilesKept, OthersPass
<1>3. \A p \in Ops : p # o => NameKnown(p)' /\ ToldAtEnd(p)'
  BY <1>1, <1>2 DEF Accounted, NameKnown, ToldAtEnd, Uncreated, Writing
<1>4. NameKnown(o)'
  BY <1>1, <1>2 DEF Accounted, NameKnown
<1>5. ToldAtEnd(o)'
  BY <1>1, <1>2 DEF Accounted, ToldAtEnd, Writing
<1>6. TempsRemoved'
  BY <1>1, <1>2 DEF Accounted, TempsRemoved
<1>7. AckedDurable'
  BY <1>1, <1>2 DEF Accounted, AckedDurable, ToldAtEnd
<1> QED
  BY <1>3, <1>4, <1>5, <1>6, <1>7 DEF Accounted

\* The steps that change neither the directory nor a content keep the account
\* of temporaries and of what is durable.
LEMMA QuietAccounted ==
    ASSUME Committing, Accounted, NEW o \in Ops,
           \/ Begin(o) \/ Lock(o) \/ Match(o) \/ Validate(o) \/ Owns(o)
           \/ Stat(o) \/ Absent(o) \/ Fail(o) \/ UploadCut(o) \/ Clean(o)
           \/ CleanFails(o)
    PROVE  Accounted'
<1>1. /\ at[o] \in StepsOf(o) /\ result \in [Ops -> {"none", "ok", "error"}]
      /\ Kind[o] \in {"write", "upload", "delete", "deleteTree"}
      /\ NameKnown(o) /\ ToldAtEnd(o)
  BY OpsAssumption DEF Committing, TypeOK, Accounted
<1>2. ASSUME NEW step \in Steps \ {"sync", "done"}, at' = [at EXCEPT ![o] = step],
             result' = result, at[o] # "done",
             Uncreated(o)' => Uncreated(o), step \in NameWindow => dir[o] = o,
             FilesKept, OthersKept, UNCHANGED renamed
      PROVE  Accounted'
  <2>1. result' = [result EXCEPT ![o] = "none"]
    BY <1>1, <1>2 DEF ToldAtEnd
  <2> QED
    BY <1>2, <2>1, KeptPass, AdvanceAccounted DEF Steps
<1>3. ASSUME NEW r \in {"ok", "error"}, End(o, r), r = "ok" => ~Writing(o),
             dir[o] # o \/ (o \in abandoned' /\ r = "error"),
             FilesKept, OthersPass, UNCHANGED renamed
      PROVE  Accounted'
  <2>1. at' = [at EXCEPT ![o] = "done"] /\ result' = [result EXCEPT ![o] = r]
    BY <1>3 DEF End
  <2>2. ~Writing(o)' \/ ~Uncreated(o)'
    BY <1>1, <2>1 DEF Uncreated, Committing, TypeOK
  <2>3. Uncreated(o)' => Uncreated(o)
    BY <2>2 DEF Uncreated, Writing
  <2>4. "done" \in Steps /\ "done" \notin NameWindow
    BY DEF Steps, NameWindow
  <2> QED
    BY <1>3, <2>1, <2>3, <2>4, AdvanceAccounted
<1>4. \A step : at' = [at EXCEPT ![o] = step] => at'[o] = step
  BY DEF Committing, TypeOK
<1>5. CASE Begin(o)
  <2>1. /\ at[o] = "idle" /\ at' = [at EXCEPT ![o] = First(o)] /\ result' = result
        /\ FilesKept /\ OthersKept /\ UNCHANGED renamed
    BY <1>5 DEF Begin, Goto
  <2>2. First(o) \in Steps \ {"sync", "done"} /\ First(o) \notin NameWindow
    BY DEF First, Steps, NameWindow
  <2>3. Uncreated(o)
    BY <2>1 DEF Uncreated
  <2> QED
    BY <1>2, <2>1, <2>2, <2>3
<1>6. CASE Lock(o)
  <2>1. /\ at[o] = "lock" /\ at' = [at EXCEPT ![o] = After(o, "lock")] /\ result' = result
        /\ FilesKept /\ OthersKept /\ UNCHANGED renamed
    BY <1>6 DEF Lock
  <2>2. /\ Kind[o] = "write" => After(o, "lock") = "prematch"
        /\ Kind[o] = "upload" => After(o, "lock") = "match"
        /\ Kind[o] \in {"delete", "deleteTree"} => After(o, "lock") = "stat"
    BY Successors
  <2>3. Uncreated(o)' => Uncreated(o)
    BY <1>1, <1>4, <2>1, <2>2 DEF Uncreated, Writing
  <2>4. After(o, "lock") \in Steps \ {"sync", "done"} /\ After(o, "lock") \notin NameWindow
    BY <1>1, <2>2 DEF Steps, NameWindow
  <2> QED
    BY <1>2, <2>1, <2>3, <2>4
<1>7. CASE Match(o) \/ Validate(o)
  <2>1. /\ at[o] \in {"prematch", "match", "validate"}
        /\ at' = [at EXCEPT ![o] = After(o, at[o])] /\ result' = result
        /\ FilesKept /\ OthersKept /\ UNCHANGED renamed
    BY <1>7 DEF Match, Validate, Goto
  <2>2. Kind[o] \in {"write", "upload"}
    BY <1>1, <2>1 DEF StepsOf, Window
  <2>3. /\ at[o] = "prematch" => After(o, at[o]) = "create"
        /\ at[o] = "match" => After(o, at[o]) = "validate"
        /\ at[o] = "validate" => After(o, at[o]) = "owns"
    BY <2>2, Successors
  <2>4. Uncreated(o)' => Uncreated(o)
    BY <1>4, <2>1, <2>2, <2>3 DEF Uncreated, Writing
  <2>5. After(o, at[o]) \in Steps \ {"sync", "done"} /\ After(o, at[o]) \notin NameWindow
    BY <2>1, <2>3 DEF Steps, NameWindow
  <2> QED
    BY <1>2, <2>1, <2>4, <2>5
<1>8. CASE Owns(o)
  <2>1. /\ at[o] = "owns" /\ dir[o] = o
        /\ at' = [at EXCEPT ![o] = After(o, "owns")] /\ result' = result
        /\ FilesKept /\ OthersKept /\ UNCHANGED renamed
    BY <1>8 DEF Owns, Goto
  <2>2. After(o, "owns") = "rename" /\ Writing(o)
    BY <1>1, <2>1, Successors DEF StepsOf, Window, Writing
  <2>3. ~Uncreated(o)'
    BY <1>4, <2>1, <2>2 DEF Uncreated, Writing
  <2> QED
    BY <1>2, <2>1, <2>2, <2>3 DEF Steps
<1>9. CASE Stat(o)
  <2>1. /\ at[o] = "stat" /\ at' = [at EXCEPT ![o] = After(o, "stat")] /\ result' = result
        /\ FilesKept /\ OthersKept /\ UNCHANGED renamed
    BY <1>9 DEF Stat, Goto
  <2>2. After(o, "stat") = "unlink" /\ ~Writing(o)
    BY <1>1, <2>1, Successors DEF StepsOf, Window, Writing
  <2>3. Uncreated(o)
    BY <2>2 DEF Uncreated
  <2> QED
    BY <1>2, <2>1, <2>2, <2>3 DEF Steps, NameWindow
<1>10. CASE Absent(o)
  <2>1. /\ ~Writing(o) /\ End(o, "ok") /\ FilesKept /\ OthersKept /\ UNCHANGED renamed
    BY <1>10 DEF Absent, Writing
  <2>2. dir[o] # o
    BY <2>1, <1>1 DEF ToldAtEnd, Names
  <2> QED
    BY <1>3, <2>1, <2>2, KeptPass
<1>11. CASE Fail(o)
  <2>1. CASE HasTemp(o)
    <3>1. /\ at' = [at EXCEPT ![o] = "clean"] /\ result' = result /\ at[o] # "done"
          /\ FilesKept /\ OthersKept /\ UNCHANGED renamed
      BY <1>11, <2>1 DEF Fail
    <3>2. Writing(o)
      BY <1>1, <2>1 DEF HasTemp, StepsOf, Window, Writing
    <3>3. ~Uncreated(o)'
      BY <1>4, <3>1, <3>2 DEF Uncreated, Writing
    <3> QED
      BY <1>2, <3>1, <3>3 DEF Steps, NameWindow
  <2>2. CASE ~HasTemp(o)
    <3>1. /\ End(o, "error") /\ FilesKept /\ OthersKept /\ UNCHANGED renamed
          /\ at[o] \notin {"idle", "lock", "clean", "cleanUnlink", "done", "dead"}
      BY <1>11, <2>2 DEF Fail
    <3>2. at[o] \in {"prematch", "create", "sync"} \/ ~Writing(o)
      BY <1>1, <2>2, <3>1 DEF HasTemp, StepsOf, Window, Writing
    <3>3. o # None
      BY OpsAssumption DEF Inodes
    <3>4. dir[o] # o
      BY <1>1, <3>2, <3>3 DEF NameKnown, Uncreated
    <3> QED
      BY <1>3, <3>1, <3>4, KeptPass
  <2> QED
    BY <2>1, <2>2
<1>12. CASE Clean(o)
  <2>1. at[o] = "clean" /\ FilesKept /\ OthersKept /\ UNCHANGED renamed
    BY <1>12 DEF Clean
  <2>2. CASE dir[o] = o
    <3>1. at' = [at EXCEPT ![o] = "cleanUnlink"] /\ result' = result
      BY <1>12, <2>2 DEF Clean, Goto
    <3>2. Writing(o)
      BY <1>1, <2>1 DEF StepsOf, Window, Writing
    <3>3. ~Uncreated(o)'
      BY <1>4, <3>1, <3>2 DEF Uncreated, Writing
    <3> QED
      BY <1>2, <2>1, <2>2, <3>1, <3>3 DEF Steps
  <2>3. CASE dir[o] # o
    BY <1>3, <1>12, <2>1, <2>3, KeptPass DEF Clean
  <2> QED
    BY <2>2, <2>3
<1>13. CASE CleanFails(o)
  <2>1. /\ at[o] \in {"clean", "cleanUnlink"} /\ End(o, "error") /\ FilesKept
        /\ OthersPass /\ UNCHANGED renamed /\ (dir'[o] = o => o \in abandoned')
    BY <1>13, AbandonPass DEF CleanFails
  <2> QED
    BY <1>3, <2>1 DEF FilesKept
<1> QED
  BY <1>5, <1>6, <1>7, <1>8, <1>9, <1>10, <1>11, <1>12, <1>13 DEF UploadCut

\* The steps that change files: a name is used by its own operation only.
LEMMA FileStepsAccounted ==
    ASSUME Committing, Accounted, NEW o \in Ops,
           \/ Create(o) \/ Fill(o) \/ Rename(o) \/ Sync(o) \/ Unlink(o)
           \/ CleanUnlink(o) \/ CreateFails(o)
    PROVE  Accounted'
<1>1. /\ TypeOK /\ TempNames /\ TempsRemoved /\ AckedDurable
      /\ \A p \in Ops : NameKnown(p) /\ ToldAtEnd(p)
      /\ at[o] \in StepsOf(o)
      /\ Kind[o] \in {"write", "upload", "delete", "deleteTree"}
  BY OpsAssumption DEF Committing, TypeOK, Accounted
<1>2. /\ \A p \in Ops : p \in Names /\ p \notin Foreign /\ p # None /\ p \notin Targets
      /\ \A p \in Ops : Target[p] \in Targets /\ Target[p] \in Names
      /\ None \notin Foreign
  BY OpsAssumption DEF Inodes, Names
<1>3. ASSUME NEW step \in Steps, at' = [at EXCEPT ![o] = step],
             NEW r \in {"none", "ok", "error"}, result' = [result EXCEPT ![o] = r],
             r # "none" => step = "done",
             renamed \subseteq renamed', step = "sync" => o \in renamed',
             renamed' \subseteq renamed \cup (IF Writing(o) THEN {o} ELSE {}),
             UNCHANGED <<swapped, crashes>>,
             \A p \in Ops \ {o} : dir'[p] = dir[p],
             \A p \in Ops \ {o} : flushed'[p] \in {dir[p], flushed[p]},
             \A n \in Names : {dir'[n], flushed'[n]} \subseteq
                {dir[m] : m \in Names} \cup {flushed[m] : m \in Names}
                    \cup {None} \cup (IF Writing(o) THEN {o} ELSE {}),
             step \notin NameWindow, step = "sync" => dir'[o] = None,
             Uncreated(o)' => dir'[o] = None /\ flushed'[o] = None,
             step = "done" => dir'[o] # o \/ (o \in abandoned' /\ r = "error"),
             abandoned \subseteq abandoned',
             AckedDurable'
      PROVE  Accounted'
  <2>1. /\ \A p \in Ops : p # o => at'[p] = at[p] /\ result'[p] = result[p]
        /\ at'[o] = step /\ result'[o] = r
    BY <1>1, <1>3 DEF TypeOK
  <2>2. \A p \in Ops : p # o => NameKnown(p)'
    BY <1>1, <1>2, <1>3, <2>1 DEF NameKnown, Uncreated, Writing
  <2>3. NameKnown(o)'
    BY <1>3, <2>1 DEF NameKnown
  <2>4. ASSUME NEW p \in Ops PROVE ToldAtEnd(p)'
    <3>1. ASSUME ~Writing(p), NEW n \in Names
          PROVE  p \notin renamed' /\ dir'[n] # p /\ flushed'[n] # p
      BY <1>1, <1>2, <1>3, <3>1 DEF ToldAtEnd
    <3> QED
      BY <1>1, <1>2, <1>3, <2>1, <3>1 DEF ToldAtEnd, Writing
  <2>5. TempsRemoved'
    BY <1>1, <1>3, <2>1 DEF TempsRemoved
  <2> QED
    BY <1>3, <2>2, <2>3, <2>4, <2>5 DEF Accounted
<1>4. at[o] # "done" => result = [result EXCEPT ![o] = "none"]
  BY <1>1 DEF ToldAtEnd, TypeOK
<1>5. \A step : at' = [at EXCEPT ![o] = step] => at'[o] = step
  BY <1>1 DEF TypeOK
<1>6. CASE Create(o)
  <2>1. /\ at[o] = "create" /\ dir' = [dir EXCEPT ![o] = o]
        /\ at' = [at EXCEPT ![o] = After(o, "create")]
        /\ UNCHANGED <<flushed, result, swapped, renamed, abandoned, crashes>>
    BY <1>6 DEF Create, Goto, OthersKept
  <2>2. After(o, "create") = "fill" /\ Writing(o)
    BY <1>1, <2>1, Successors DEF StepsOf, Window, Writing
  <2>3. ~Uncreated(o)'
    BY <1>5, <2>1, <2>2 DEF Uncreated, Writing
  <2>4. AckedDurable'
    BY <1>1, <1>2, <2>1 DEF AckedDurable, TypeOK
  <2>5. /\ \A p \in Ops \ {o} : dir'[p] = dir[p]
        /\ \A n \in Names : dir'[n] \in {dir[n], o} /\ flushed'[n] = flushed[n]
    BY <1>1, <2>1 DEF TypeOK
  <2>6. result' = [result EXCEPT ![o] = "none"]
    BY <1>4, <2>1
  <2>7. \A n \in Names : {dir'[n], flushed'[n]} \subseteq
          {dir[m] : m \in Names} \cup {flushed[m] : m \in Names}
              \cup {None} \cup (IF Writing(o) THEN {o} ELSE {})
    BY <2>2, <2>5
  <2>8. /\ at' = [at EXCEPT ![o] = "fill"] /\ "fill" \in Steps \ NameWindow
        /\ \A p \in Ops \ {o} : flushed'[p] \in {dir[p], flushed[p]}
    BY <2>1, <2>2 DEF Steps, NameWindow
  <2> QED
    BY <1>3, <2>1, <2>3, <2>4, <2>5, <2>6, <2>7, <2>8
<1>7. CASE Fill(o)
  <2>1. /\ at[o] = "fill"
        /\ at' = [at EXCEPT ![o] = After(o, "fill")]
        /\ UNCHANGED <<dir, flushed, result, swapped, renamed, abandoned, crashes>>
    BY <1>7 DEF Fill, Goto, OthersKept
  <2>2. /\ Writing(o) /\ After(o, "fill") \in {"match", "lock"}
        /\ After(o, "fill") = "lock" => Kind[o] = "upload"
    BY <1>1, <2>1, Successors DEF StepsOf, Window, Writing
  <2>3. ~Uncreated(o)'
    BY <1>5, <2>1, <2>2 DEF Uncreated, Writing
  <2>4. AckedDurable'
    BY <1>1, <2>1 DEF AckedDurable
  <2>5. result' = [result EXCEPT ![o] = "none"]
    BY <1>4, <2>1
  <2> QED
    BY <1>3, <2>1, <2>2, <2>3, <2>4, <2>5 DEF Steps, NameWindow
<1>8. CASE Rename(o)
  <2>1. /\ at[o] = "rename" /\ dir[o] # None
        /\ dir' = [dir EXCEPT ![Target[o]] = dir[o], ![o] = None]
        /\ renamed' = renamed \cup {o}
        /\ at' = [at EXCEPT ![o] = After(o, "rename")]
        /\ UNCHANGED <<flushed, result, swapped, abandoned, crashes>>
    BY <1>8 DEF Rename, Goto, OthersKept
  <2>2. After(o, "rename") = "sync" /\ Writing(o)
    BY <1>1, <2>1, Successors DEF StepsOf, Window, Writing
  <2>3. ~Uncreated(o)'
    BY <1>5, <2>1, <2>2 DEF Uncreated, Writing
  <2>4. dir[o] \in {o} \cup Foreign /\ result[o] = "none"
    BY <1>1, <2>1 DEF TempNames, ToldAtEnd
  <2>5. /\ \A n \in Names \ {o, Target[o]} : dir'[n] = dir[n]
        /\ dir'[o] = None /\ dir'[Target[o]] = dir[o]
    BY <1>1, <1>2, <2>1 DEF TypeOK
  <2>6. AckedDurable'
    <3> SUFFICES ASSUME NEW p \in Ops, result[p] = "ok", dir'[Target[p]] = p
                 PROVE  flushed[Target[p]] = p
      BY <2>1 DEF AckedDurable
    <3>1. p # o /\ Target[p] # Target[o]
      BY <1>2, <2>4, <2>5
    <3> QED
      BY <1>1, <1>2, <2>5, <3>1 DEF AckedDurable
  <2>7. \A n \in Names : dir'[n] \in {dir[n], dir[o], None} /\ flushed'[n] = flushed[n]
    BY <2>1, <2>5
  <2>8. result' = [result EXCEPT ![o] = "none"]
    BY <1>4, <2>1
  <2>9. \A p \in Ops \ {o} : dir'[p] = dir[p]
    BY <1>2, <2>5
  <2>10. \A n \in Names : {dir'[n], flushed'[n]} \subseteq
           {dir[m] : m \in Names} \cup {flushed[m] : m \in Names} \cup {None}
    BY <1>2, <2>7
  <2> QED
    BY <1>2, <1>3, <2>1, <2>2, <2>3, <2>5, <2>6, <2>8, <2>9, <2>10 DEF Steps, NameWindow
<1>9. CASE Sync(o)
  <2>1. /\ at[o] = "sync" /\ flushed' = dir
        /\ at' = [at EXCEPT ![o] = "done"] /\ result' = [result EXCEPT ![o] = "ok"]
        /\ UNCHANGED <<dir, swapped, renamed, abandoned, crashes>>
    BY <1>9 DEF Sync, End, OthersKept
  <2>2. dir[o] = None
    BY <1>1, <2>1 DEF NameKnown
  <2>3. AckedDurable'
    BY <2>1 DEF AckedDurable
  <2> QED
    BY <1>2, <1>3, <2>1, <2>2, <2>3 DEF Steps, NameWindow
<1>10. CASE Unlink(o)
  <2>1. /\ at[o] = "unlink" /\ dir' = [dir EXCEPT ![Target[o]] = None]
        /\ at' = [at EXCEPT ![o] = "done"] /\ result' = [result EXCEPT ![o] = "ok"]
        /\ UNCHANGED <<flushed, swapped, renamed, abandoned, crashes>>
    BY <1>10 DEF Unlink, End, OthersKept
  <2>2. ~Writing(o)
    BY <1>1, <2>1 DEF StepsOf, Window, Writing
  <2>3. dir[o] = None /\ flushed[o] = None
    BY <1>1, <2>2 DEF NameKnown, Uncreated
  <2>4. /\ \A n \in Names : dir'[n] \in {dir[n], None} /\ flushed'[n] = flushed[n]
        /\ \A p \in Ops : dir'[p] = dir[p]
    BY <1>1, <1>2, <2>1 DEF TypeOK
  <2>5. AckedDurable'
    <3> SUFFICES ASSUME NEW p \in Ops, result'[p] = "ok", dir'[Target[p]] = p
                 PROVE  flushed[Target[p]] = p
      BY <2>1 DEF AckedDurable
    <3>1. Target[p] # Target[o] /\ dir[Target[p]] = p
      BY <1>1, <1>2, <2>1 DEF TypeOK
    <3>2. p # o
      BY <1>1, <1>2, <2>2, <3>1 DEF ToldAtEnd
    <3> QED
      BY <1>1, <2>1, <3>1, <3>2 DEF AckedDurable, TypeOK
  <2> QED
    BY <1>2, <1>3, <2>1, <2>2, <2>3, <2>4, <2>5 DEF Steps, NameWindow
<1>11. CASE CleanUnlink(o)
  <2>1. /\ at[o] = "cleanUnlink" /\ dir' = [dir EXCEPT ![o] = None]
        /\ at' = [at EXCEPT ![o] = "done"] /\ result' = [result EXCEPT ![o] = "error"]
        /\ UNCHANGED <<flushed, swapped, renamed, abandoned, crashes>>
    BY <1>11 DEF CleanUnlink, End, OthersKept
  <2>2. Writing(o)
    BY <1>1, <2>1 DEF StepsOf, Window, Writing
  <2>3. ~Uncreated(o)'
    BY <1>5, <2>1, <2>2 DEF Uncreated, Writing
  <2>4. /\ \A n \in Names : dir'[n] \in {dir[n], None} /\ flushed'[n] = flushed[n]
        /\ \A n \in Names \ {o} : dir'[n] = dir[n]
        /\ dir'[o] = None
    BY <1>1, <1>2, <2>1 DEF TypeOK
  <2>5. AckedDurable'
    BY <1>1, <1>2, <2>1, <2>4 DEF AckedDurable, TypeOK
  <2> QED
    BY <1>2, <1>3, <2>1, <2>2, <2>3, <2>4, <2>5 DEF Steps, NameWindow
<1>12. CASE CreateFails(o)
  <2>1. /\ at[o] = "create" /\ dir' = [dir EXCEPT ![o] = o]
        /\ at' = [at EXCEPT ![o] = "done"] /\ result' = [result EXCEPT ![o] = "error"]
        /\ UNCHANGED <<flushed, swapped, renamed, crashes>>
        /\ abandoned \subseteq abandoned' /\ (dir'[o] = o => o \in abandoned')
    BY <1>12, AbandonPass DEF CreateFails, End, OthersPass
  <2>2. Writing(o)
    BY <1>1, <2>1 DEF StepsOf, Window, Writing
  <2>3. ~Uncreated(o)'
    BY <1>5, <2>1, <2>2 DEF Uncreated, Writing
  <2>4. /\ \A p \in Ops \ {o} : dir'[p] = dir[p]
        /\ \A n \in Names : dir'[n] \in {dir[n], o} /\ flushed'[n] = flushed[n]
        /\ \A t \in Targets : dir'[t] = dir[t]
    BY <1>1, <1>2, <2>1 DEF TypeOK
  <2>5. AckedDurable'
    BY <1>1, <1>2, <2>1, <2>4 DEF AckedDurable, TypeOK
  <2>6. \A n \in Names : {dir'[n], flushed'[n]} \subseteq
          {dir[m] : m \in Names} \cup {flushed[m] : m \in Names}
              \cup {None} \cup (IF Writing(o) THEN {o} ELSE {})
    BY <2>2, <2>4
  <2>7. \A p \in Ops \ {o} : flushed'[p] \in {dir[p], flushed[p]}
    BY <1>2, <2>4
  <2> QED
    BY <1>3, <2>1, <2>3, <2>4, <2>5, <2>6, <2>7 DEF Steps, NameWindow
<1> QED
  BY <1>6, <1>7, <1>8, <1>9, <1>10, <1>11, <1>12

\* Other programs bring no inode of an operation back, and what a loss of
\* power brings back excuses everything.
LEMMA OthersAccounted ==
    ASSUME Committing, Accounted,
           (\E n \in Names \cap Exposed : Outside(n)) \/ Killed \/ PowerLost
    PROVE  Accounted'
<1>1. /\ TypeOK /\ TempNames /\ TempsRemoved /\ AckedDurable
      /\ \A p \in Ops : NameKnown(p) /\ ToldAtEnd(p)
  BY DEF Committing, Accounted
<1>2. /\ \A p \in Ops : p \in Names /\ p \notin Foreign /\ p # None /\ p \notin Targets
      /\ \A p \in Ops : Target[p] \in Targets /\ Target[p] \in Names
      /\ None \notin Foreign
  BY OpsAssumption DEF Inodes, Names
<1>3. ASSUME NEW n \in Names, Outside(n) PROVE Accounted'
  <2>1. PICK i \in Foreign \cup {None} :
          (n \in Ops => dir[n] # None) /\ dir' = [dir EXCEPT ![n] = i]
    BY <1>1, <1>3 DEF Outside, TypeOK
  <2>2. /\ swapped' = swapped \cup {o \in Ops : o = n /\ at[o] \in NameWindow}
        /\ UNCHANGED <<flushed, at, result, renamed, abandoned, crashes>>
    BY <1>3 DEF Outside
  <2>3. /\ \A m \in Names : m # n => dir'[m] = dir[m]
        /\ dir'[n] = i /\ i \notin Ops
    BY <1>1, <1>2, <2>1 DEF TypeOK
  <2>4. ASSUME NEW p \in Ops PROVE NameKnown(p)'
    <3>1. CASE p = n
      BY <1>1, <1>2, <2>1, <2>2, <2>3, <3>1 DEF NameKnown, Uncreated
    <3>2. CASE p # n
      BY <1>1, <1>2, <2>2, <2>3, <3>2 DEF NameKnown, Uncreated
    <3> QED
      BY <3>1, <3>2
  <2>5. \A p \in Ops : ToldAtEnd(p)'
    BY <1>1, <2>2, <2>3 DEF ToldAtEnd, Writing
  <2>6. TempsRemoved'
    BY <1>1, <1>2, <2>2, <2>3 DEF TempsRemoved
  <2>7. AckedDurable'
    BY <1>1, <1>2, <2>2, <2>3 DEF AckedDurable
  <2> QED
    BY <2>4, <2>5, <2>6, <2>7 DEF Accounted
<1>4. ASSUME Died,
             \A n \in Names : /\ dir'[n] \in {dir[n], flushed[n]}
                              /\ flushed'[n] \in {dir[n], flushed[n]},
             AckedDurable'
      PROVE  Accounted'
  <2>1. /\ \A o \in Ops : at'[o] \in {"idle", "done", "dead"}
        /\ \A o \in Ops : at'[o] = "idle" => at[o] = "idle"
        /\ \A o \in Ops : at[o] = "done" => at'[o] = "done"
        /\ crashes' # 0
        /\ UNCHANGED <<result, swapped, renamed, abandoned>>
    BY <1>1, <1>4 DEF Died, TypeOK
  <2>2. ASSUME NEW p \in Ops PROVE NameKnown(p)'
    <3>1. Uncreated(p)' => Uncreated(p)
      BY <2>1 DEF Uncreated, Writing
    <3> QED
      BY <1>1, <1>2, <1>4, <2>1, <3>1 DEF NameKnown, NameWindow
  <2>3. \A p \in Ops : ToldAtEnd(p)'
    BY <1>1, <1>4, <2>1 DEF ToldAtEnd, Writing
  <2>4. TempsRemoved'
    BY <2>1 DEF TempsRemoved
  <2> QED
    BY <1>4, <2>2, <2>3, <2>4 DEF Accounted
<1>5. CASE Killed
  <2>1. Died /\ UNCHANGED <<dir, flushed, result>>
    BY <1>5 DEF Killed, FilesKept, Died
  <2> QED
    BY <1>1, <1>4, <2>1 DEF AckedDurable
<1>6. CASE PowerLost
  <2>1. /\ Died /\ flushed' = dir'
        /\ \A n \in Names : dir'[n] \in {dir[n], flushed[n]}
    BY <1>6 DEF PowerLost
  <2> QED
    BY <1>4, <2>1 DEF AckedDurable
<1> QED
  BY <1>3, <1>5, <1>6

-----------------------------------------------------------------------------
(* The agent alone *)

\* A step of one operation leaves the temporary of another alone, and also its
\* target once it holds the lock.
LEMMA OthersKeptAlone ==
    ASSUME Committing, NEW o \in Ops, OpStep(o), NEW q \in Ops, q # o
    PROVE  /\ at'[q] = at[q] /\ dir'[q] = dir[q] /\ data'[q] = data[q]
           /\ touched' = touched /\ crashes' = crashes
           /\ at[q] \in {"owns", "rename"}
                => Content(Target[q])' = Content(Target[q])
<1>1. TypeOK /\ LocksHeld /\ OwnInodeUnseen /\ TempNames /\ at[o] \in StepsOf(o)
  BY DEF Committing, TypeOK
<1>2. /\ q \in Names /\ o \in Names /\ o \in Inodes /\ q \in Inodes /\ o # None
      /\ Target[q] \in Targets /\ Target[o] \in Targets
      /\ \A t \in Targets : t \in Names /\ t \notin Ops
  BY OpsAssumption DEF Names, Inodes
<1>3. CASE FilesKept
  <2>1. dir' = dir /\ data' = data
    BY <1>3 DEF FilesKept
  <2>2. /\ at'[q] = at[q] /\ touched' = touched /\ crashes' = crashes
    BY <1>1, OpStep(o) DEF OpStep, Begin, Lock, Match, Create, Fill, Validate, Owns,
       Rename, Sync, Stat, Unlink, Absent, Fail, UploadCut, Clean, CleanUnlink,
       CleanFails, CreateFails, Abandon,
       OthersKept, Goto, End, TypeOK
  <2> QED
    BY <2>1, <2>2 DEF Content
<1>4. CASE Create(o) \/ CreateFails(o)
  BY <1>1, <1>2, <1>4 DEF Create, CreateFails, Abandon, End, Goto, OthersKept,
     TypeOK, Content
<1>5. CASE Fill(o)
  <2>1. PICK d \in Written(o) : data' = [data EXCEPT ![o] = d]
    BY <1>5 DEF Fill
  <2>2. at[o] = "fill" /\ dir' = dir /\ touched' = touched /\ crashes' = crashes
        /\ at' = [at EXCEPT ![o] = After(o, "fill")]
    BY <1>5 DEF Fill, Goto, OthersKept
  <2>3. \A t \in Targets : dir[t] # o
    BY <1>1, <2>2 DEF OwnInodeUnseen, BeforeRename
  <2> QED
    BY <1>1, <1>2, <2>1, <2>2, <2>3 DEF Content, TypeOK
<1>6. CASE Rename(o) \/ Unlink(o)
  <2>1. /\ at[o] \in {"rename", "unlink"}
        /\ \A n \in Names \ {o, Target[o]} : dir'[n] = dir[n]
        /\ data' = data /\ touched' = touched /\ crashes' = crashes
        /\ at'[q] = at[q]
    BY <1>1, <1>2, <1>6 DEF Rename, Unlink, Goto, End, OthersKept, TypeOK
  <2>2. at[q] \in {"owns", "rename"} => Target[q] # Target[o]
    BY <1>1, <2>1 DEF LocksHeld, UnderLock, LockOf, Window
  <2> QED
    BY <1>2, <2>1, <2>2 DEF Content
<1>7. CASE Sync(o)
  BY <1>1, <1>7 DEF Sync, End, OthersKept, TypeOK, Content
<1>8. CASE CleanUnlink(o)
  BY <1>1, <1>2, <1>8 DEF CleanUnlink, End, OthersKept, TypeOK, Content
<1> QED
  BY <1>3, <1>4, <1>5, <1>6, <1>7, <1>8, OpStep(o) DEF OpStep, Begin, Lock, Match,
     Validate, Owns, Stat, Absent, Fail, UploadCut, Clean, CleanFails

\* Nor does its own step disturb an operation that is alone.
LEMMA StepsAlone ==
    ASSUME Committing, NEW o \in Ops, OpStep(o), Alone(o)
    PROVE  Alone(o)'
<1>1. /\ TypeOK /\ at[o] \in StepsOf(o)
      /\ Kind[o] \in {"write", "upload", "delete", "deleteTree"}
  BY OpsAssumption DEF Committing, TypeOK
<1>2. \A step : at' = [at EXCEPT ![o] = step] => at'[o] = step
  BY <1>1 DEF TypeOK
<1>3. ASSUME NEW step, at'[o] = step, FilesKept, OthersKept,
             step \in {"fill", "match"} \cup Window \/ (Kind[o] = "upload" /\ step = "lock")
                => HasTemp(o) /\ Filled(o, at[o]),
             step \in {"owns", "rename"} => Content(Target[o]) # NotRegular
      PROVE  Alone(o)'
  <2>1. dir' = dir /\ data' = data /\ touched' = touched
    BY <1>3 DEF FilesKept, OthersKept
  <2> QED
    BY <1>3, <2>1 DEF Alone, HasTemp, Filled, Content
<1>4. ASSUME NEW step \in {"idle", "prematch", "create", "sync", "stat", "unlink",
                           "clean", "cleanUnlink", "done", "dead"},
             at'[o] = step, touched' = touched
      PROVE  Alone(o)'
  BY <1>4 DEF Alone, HasTemp, Filled, Window
<1>5. CASE Begin(o)
  <2>1. at'[o] = First(o) /\ FilesKept /\ OthersKept
    BY <1>2, <1>5 DEF Begin, Goto
  <2> QED
    BY <1>3, <2>1 DEF First, Window
<1>6. CASE Lock(o)
  <2>1. at[o] = "lock" /\ at'[o] = After(o, "lock") /\ FilesKept /\ OthersKept
    BY <1>2, <1>6 DEF Lock
  <2> QED
    BY <1>1, <1>3, <2>1, Successors DEF HasTemp, Filled, Window
<1>7. CASE Match(o)
  <2>1. at[o] \in {"prematch", "match"} /\ at'[o] = After(o, at[o]) /\ FilesKept /\ OthersKept
    BY <1>2, <1>7 DEF Match, Goto
  <2>2. Kind[o] \in {"write", "upload"}
    BY <1>1, <2>1 DEF StepsOf, Window
  <2>3. /\ at[o] = "prematch" => After(o, at[o]) = "create"
        /\ at[o] = "match" => After(o, at[o]) = "validate"
    BY <2>2, Successors
  <2> QED
    BY <1>3, <2>1, <2>3 DEF HasTemp, Filled, Window
<1>8. CASE Validate(o) \/ Owns(o)
  <2>1. /\ at[o] \in {"validate", "owns"} /\ at'[o] = After(o, at[o])
        /\ FilesKept /\ OthersKept
        /\ Content(Target[o]) # NotRegular
    BY <1>2, <1>8 DEF Validate, Owns, Goto, Alone
  <2>2. Kind[o] \in {"write", "upload"}
    BY <1>1, <2>1 DEF StepsOf, Window
  <2>3. /\ at[o] = "validate" => After(o, at[o]) = "owns"
        /\ at[o] = "owns" => After(o, at[o]) = "rename"
    BY <2>2, Successors
  <2> QED
    BY <1>3, <2>1, <2>3 DEF HasTemp, Filled, Window
<1>9. CASE Stat(o)
  <2>1. at[o] = "stat" /\ at'[o] = After(o, "stat") /\ touched' = touched
    BY <1>2, <1>9 DEF Stat, Goto, OthersKept
  <2>2. After(o, "stat") = "unlink"
    BY <1>1, <2>1, Successors DEF StepsOf, Window
  <2> QED
    BY <1>4, <2>1, <2>2
<1>10. CASE Absent(o) \/ Fail(o) \/ Clean(o) \/ Sync(o) \/ Unlink(o) \/ CleanUnlink(o)
            \/ CleanFails(o) \/ CreateFails(o)
  <2>1. at'[o] \in {"clean", "cleanUnlink", "done"} /\ touched' = touched
    BY <1>2, <1>10 DEF Absent, Fail, Clean, Sync, Unlink, CleanUnlink, CleanFails,
       CreateFails, Abandon, End, Goto, OthersKept
  <2> QED
    BY <1>4, <2>1
<1>11. CASE Create(o)
  <2>1. at[o] = "create" /\ at'[o] = After(o, "create") /\ touched' = touched
        /\ dir'[o] = o
    BY <1>1, <1>2, <1>11 DEF Create, Goto, OthersKept, TypeOK, Names
  <2>2. After(o, "create") = "fill"
    BY <1>1, <2>1, Successors DEF StepsOf, Window
  <2> QED
    BY <2>1, <2>2 DEF Alone, HasTemp, Filled, Window
<1>12. CASE Fill(o)
  <2>1. PICK d \in Written(o) : data' = [data EXCEPT ![o] = d]
    BY <1>12 DEF Fill
  <2>2. at[o] = "fill" /\ at'[o] = After(o, "fill") /\ touched' = touched
        /\ dir' = dir /\ data'[o] = d
    BY <1>1, <1>2, <1>12, <2>1 DEF Fill, Goto, OthersKept, TypeOK, Inodes
  <2>3. After(o, "fill") \in {"match", "lock"}
    BY <1>1, <2>2, Successors DEF StepsOf, Window
  <2>4. dir[o] = o
    BY <2>2 DEF Alone, HasTemp
  <2> QED
    BY <2>1, <2>2, <2>3, <2>4 DEF Alone, Filled, Written
<1>13. CASE Rename(o)
  <2>1. at[o] = "rename" /\ at'[o] = After(o, "rename") /\ touched' = touched
    BY <1>2, <1>13 DEF Rename, Goto, OthersKept
  <2>2. After(o, "rename") = "sync"
    BY <1>1, <2>1, Successors DEF StepsOf
  <2> QED
    BY <1>4, <2>1, <2>2
<1> QED
  BY <1>5, <1>6, <1>7, <1>8, <1>9, <1>10, <1>11, <1>12, <1>13, OpStep(o)
     DEF OpStep, UploadCut

\* When nothing else is at work, only the operations take steps.
LEMMA OnlyOperations ==
    ASSUME Undisturbed, AloneWhenUndisturbed, Next
    PROVE  \E o \in Ops : OpStep(o)
<1>1. ~Died
  BY DEF Undisturbed, AloneWhenUndisturbed, Died
<1> QED
  BY <1>1 DEF Next, Killed, PowerLost, Undisturbed

\* Where nobody disturbs the operations, every step keeps what an operation
\* knows of its target.
LEMMA AlonePreserve ==
    ASSUME Inductive, Next
    PROVE  AloneWhenUndisturbed'
<1>1. SUFFICES ASSUME Undisturbed
               PROVE  crashes' = 0 /\ \A q \in Ops : Alone(q)'
  BY DEF AloneWhenUndisturbed, Undisturbed
<1>2. PICK o \in Ops : OpStep(o)
  BY <1>1, OnlyOperations DEF Inductive
<1>3. crashes = 0 /\ \A q \in Ops : Alone(q)
  BY <1>1 DEF Inductive, AloneWhenUndisturbed
<1>4. Alone(o)'
  BY <1>2, <1>3, StepsAlone DEF Inductive
<1>5. ASSUME NEW q \in Ops, q # o PROVE Alone(q)'
  BY <1>2, <1>3, <1>5, OthersKeptAlone DEF Alone, HasTemp, Filled, Written, Inductive
<1>6. crashes' = crashes
  BY <1>2 DEF OpStep, Begin, Lock, Match, Create, Fill, Validate, Owns,
     Rename, Sync, Stat, Unlink, Absent, Fail, UploadCut, Clean, CleanUnlink,
       CleanFails, CreateFails, Abandon, OthersKept
<1> QED
  BY <1>3, <1>4, <1>5, <1>6

\* Locks, comparisons and contents, the names of the temporaries, the answers
\* and what is flushed, for any operations, with and without other programs.
THEOREM CommitInvariant == Spec => []Inductive
<1>1. Init /\ Committing => Accounted /\ AloneWhenUndisturbed
  <2> SUFFICES ASSUME Init, Committing PROVE Accounted /\ AloneWhenUndisturbed
    OBVIOUS
  <2>1. \A o \in Ops : o \notin Targets /\ o \in Names /\ o \notin Foreign /\ o # None
    BY OpsAssumption DEF Inodes, Names
  <2>2. \A n \in Names : /\ dir[n] \in Foreign \cup {None} /\ flushed[n] = dir[n]
                         /\ n \in Ops => dir[n] = None
    BY <2>1, DataAssumption DEF Init, Names
  <2>3. (\A o \in Ops : at[o] = "idle" /\ result[o] = "none") /\ renamed = {}
    BY DEF Init
  <2>4. (\A o \in Ops : NameKnown(o) /\ ToldAtEnd(o)) /\ TempsRemoved /\ AckedDurable
    BY <2>1, <2>2, <2>3 DEF NameKnown, NameWindow, ToldAtEnd, TempsRemoved, AckedDurable
  <2>5. AloneWhenUndisturbed
    BY <2>3 DEF AloneWhenUndisturbed, Alone, HasTemp, Filled, Window, Init
  <2> QED
    BY <2>4, <2>5 DEF Accounted
<1>2. Inductive /\ Committing' /\ [Next]_vars => Inductive'
  <2> SUFFICES ASSUME Inductive, Committing', [Next]_vars
               PROVE  Accounted' /\ AloneWhenUndisturbed'
    BY DEF Inductive
  <2>1. CASE UNCHANGED vars
    <3>1. Accounted'
      BY <2>1 DEF vars, Inductive, Accounted, NameKnown, Uncreated, ToldAtEnd,
         TempsRemoved, AckedDurable
    <3>2. AloneWhenUndisturbed'
      BY <2>1 DEF vars, Inductive, AloneWhenUndisturbed, Alone, HasTemp, Filled,
         Content, Undisturbed
    <3> QED
      BY <3>1, <3>2
  <2>2. CASE Next
    <3>1. Accounted'
      BY <2>2, QuietAccounted, FileStepsAccounted, OthersAccounted
         DEF Next, OpStep, Inductive
    <3> QED
      BY <2>2, <3>1, AlonePreserve
  <2> QED
    BY <2>1, <2>2
<1>3. Committing /\ Accounted /\ AloneWhenUndisturbed <=> Inductive
  BY DEF Inductive
<1> QED
  BY <1>1, <1>2, <1>3, CommittingInvariant, PTL DEF Spec

\* An operation that has ended leaves no temporary file, but where the system
\* would not identify or remove it, and then the operation is told to have failed.
THEOREM TempsAlwaysRemoved == Spec => []TempsRemoved
<1>1. Inductive => TempsRemoved
  BY DEF Inductive, Accounted
<1> QED
  BY <1>1, CommitInvariant, PTL

\* What was told to be written and was not replaced survives a loss of power.
THEOREM AckedAlwaysDurable == Spec => []AckedDurable
<1>1. Inductive => AckedDurable
  BY DEF Inductive, Accounted
<1> QED
  BY <1>1, CommitInvariant, PTL

\* What another program put in the place of a temporary file is neither
\* committed nor removed, unless it got there after the check of the inode.
THEOREM ForeignTempAlwaysKept == Spec => ForeignTempKept
<1>1. Inductive /\ [Next]_vars =>
        [ \A o \in Ops :
            dir[o] \in Foreign /\ dir'[o] # dir[o] /\ at' # at /\ crashes' = crashes
              => o \in swapped ]_vars
  <2> SUFFICES ASSUME Inductive, Next, NEW o \in Ops,
                      dir[o] \in Foreign, dir'[o] # dir[o], at' # at, crashes' = crashes
               PROVE  o \in swapped
    OBVIOUS
  <2>1. /\ TypeOK /\ NameKnown(o) /\ o \notin Targets /\ None \notin Foreign
        /\ o \in Names /\ \A p \in Ops : Target[p] \in Targets
    BY OpsAssumption DEF Inductive, Committing, Accounted, Inodes, Names
  <2>2. PICK p \in Ops : OpStep(p)
    BY <2>1 DEF Next, Outside, Killed, PowerLost, Died, TypeOK
  <2>3. p = o /\ at[o] \in {"create", "rename", "cleanUnlink"}
    BY <2>1, <2>2 DEF OpStep, Begin, Lock, Match, Create, Fill, Validate, Owns,
       Rename, Sync, Stat, Unlink, Absent, Fail, UploadCut, Clean, CleanUnlink,
       CleanFails, CreateFails, Abandon,
       FilesKept, TypeOK
  <2> QED
    BY <2>1, <2>3 DEF NameKnown, Uncreated, NameWindow
<1> QED
  BY <1>1, CommitInvariant, PTL DEF Spec, ForeignTempKept

-----------------------------------------------------------------------------
(* Writes, uploads and deletes are atomic *)

\* Undisturbed, a step is one of the atomic store or changes nothing the
\* store shows.
LEMMA StoreStep ==
    ASSUME Undisturbed, Inductive, Next
    PROVE  Store!Next \/ UNCHANGED <<StoreValue, Applied, result>>
<1>1. PICK o \in Ops : OpStep(o)
  BY OnlyOperations DEF Inductive
<1>2. /\ TypeOK /\ OwnInodeUnseen /\ Compared /\ TargetsWhole
      /\ ToldAtEnd(o) /\ Alone(o) /\ at[o] \in StepsOf(o)
      /\ Kind[o] \in {"write", "upload", "delete", "deleteTree"}
  BY OpsAssumption
     DEF Inductive, Committing, Accounted, AloneWhenUndisturbed, TypeOK
<1>3. /\ Target[o] \in Targets /\ o \in Inodes /\ o # None
      /\ \A t \in Targets : t \in Names /\ t \notin Ops
  BY OpsAssumption DEF Names, Inodes
<1>4. at[o] # "done" => result[o] = "none"
  BY <1>2 DEF ToldAtEnd
<1>5. ASSUME \A t \in Targets : Content(t)' = Content(t), UNCHANGED renamed
      PROVE  /\ UNCHANGED StoreValue
             /\ UNCHANGED result => UNCHANGED Applied
  BY <1>5 DEF StoreValue, Applied
<1>6. ASSUME NEW r \in {"ok", "error"}, End(o, r), at[o] # "done",
             r = "ok" => Writing(o) /\ o \in renamed,
             \A t \in Targets : Content(t)' = Content(t), UNCHANGED renamed
      PROVE  Store!Next
  <2>1. result' = [result EXCEPT ![o] = r]
    BY <1>6 DEF End
  <2>2. \A p \in Ops :
          /\ p # o => result'[p] = result[p]
          /\ Kind[p] \in {"delete", "deleteTree"} =>
               (result'[p] = "ok" <=> result[p] = "ok")
    BY <1>2, <1>4, <1>6, <2>1 DEF TypeOK, Writing
  <2>3. UNCHANGED Applied
    BY <1>6, <2>2 DEF Applied
  <2>4. r = "ok" => o \in Applied
    BY <1>6 DEF Applied
  <2> QED
    BY <1>4, <1>5, <1>6, <2>1, <2>3, <2>4 DEF Store!Next, Store!Tell
<1>7. CASE Begin(o) \/ Lock(o) \/ Match(o) \/ Validate(o) \/ Owns(o) \/ Stat(o)
  BY <1>5, <1>7 DEF Begin, Lock, Match, Validate, Owns, Stat, Goto, FilesKept, Content
<1>8. CASE Create(o)
  <2>1. \A t \in Targets : Content(t)' = Content(t)
    BY <1>3, <1>8 DEF Create, Content
  <2> QED
    BY <1>5, <1>8, <2>1 DEF Create, Goto
<1>9. CASE Fill(o)
  <2>1. /\ at[o] = "fill" /\ dir' = dir /\ UNCHANGED <<renamed, result>>
        /\ \A i \in Inodes : i # o => data'[i] = data[i]
    BY <1>2, <1>9 DEF Fill, Goto, TypeOK
  <2>2. \A t \in Targets : dir[t] # o /\ dir[t] \in Inodes \cup {None}
    BY <1>2, <1>3, <2>1 DEF OwnInodeUnseen, BeforeRename, TypeOK
  <2>3. \A t \in Targets : Content(t)' = Content(t)
    BY <2>1, <2>2 DEF Content
  <2> QED
    BY <1>5, <2>1, <2>3
<1>10. CASE Rename(o)
  <2> DEFINE t == Target[o]
  <2>1. /\ at[o] = "rename" /\ dir' = [dir EXCEPT ![t] = dir[o], ![o] = None]
        /\ renamed' = renamed \cup {o} /\ UNCHANGED <<data, result>>
    BY <1>10 DEF Rename, Goto
  <2>2. Writing(o) /\ dir[o] = o /\ data[o] \in Written(o)
        /\ o \notin renamed /\ result[o] = "none"
    BY <1>2, <1>4, <2>1 DEF StepsOf, Writing, Alone, HasTemp, Filled, Window,
       OwnInodeUnseen, BeforeRename
  <2>3. \A u \in Targets : Content(u)' = IF u = t THEN data[o] ELSE Content(u)
    BY <1>2, <1>3, <2>1, <2>2 DEF Content, TypeOK
  <2>4. StoreValue' = [StoreValue EXCEPT ![t] = data[o]]
    BY <2>3 DEF StoreValue
  <2>5. Applied' = Applied \cup {o} /\ o \notin Applied
    BY <2>1, <2>2 DEF Applied
  <2>6. StoreValue[t] = Content(t)
    BY <1>3 DEF StoreValue
  <2>7. /\ Expected[o] = AnyContent \/ Content(t) = Expected[o]
        /\ Content(t) # NotRegular
    BY <1>2, <2>1 DEF Compared, Alone, Window
  <2>8. o \notin Store!Deletes
    BY <2>2 DEF Store!Deletes, Writing
  <2>9. \/ Store!Apply(o, NewData[o])
        \/ Kind[o] = "upload" /\ Store!Apply(o, Short)
    BY <2>2, <2>4, <2>5 DEF Store!Apply, Written
  <2> QED
    BY <2>1, <2>6, <2>7, <2>8, <2>9 DEF Store!Next, Store!Put
<1>11. ASSUME ~Writing(o), End(o, "ok"), at[o] # "done", UNCHANGED renamed,
              \A t \in Targets : Content(t)' = IF t = Target[o] THEN None ELSE Content(t),
              Kind[o] = "delete" => Content(Target[o]) # None
       PROVE  Store!Next
  <2>1. result' = [result EXCEPT ![o] = "ok"] /\ result[o] = "none"
    BY <1>4, <1>11 DEF End
  <2>2. \A p \in Ops : result'[p] = IF p = o THEN "ok" ELSE result[p]
    BY <1>2, <2>1 DEF TypeOK
  <2>3. o \notin renamed /\ o \in Store!Deletes
    BY <1>2, <1>11 DEF ToldAtEnd, Store!Deletes, Writing
  <2>4. Applied' = Applied \cup {o} /\ o \notin Applied
    BY <1>11, <2>1, <2>2, <2>3 DEF Applied, Store!Deletes
  <2>5. StoreValue' = [StoreValue EXCEPT ![Target[o]] = None]
        /\ StoreValue[Target[o]] = Content(Target[o])
    BY <1>3, <1>11 DEF StoreValue
  <2> QED
    BY <1>11, <2>1, <2>3, <2>4, <2>5 DEF Store!Next, Store!Delete, Store!Apply
<1>12. CASE Unlink(o)
  <2>1. /\ at[o] = "unlink" /\ dir[Target[o]] # None
        /\ dir' = [dir EXCEPT ![Target[o]] = None]
        /\ End(o, "ok") /\ UNCHANGED <<data, renamed>>
    BY <1>12 DEF Unlink
  <2>2. ~Writing(o)
    BY <1>2, <2>1 DEF StepsOf, Window, Writing
  <2>3. \A t \in Targets : Content(t)' = IF t = Target[o] THEN None ELSE Content(t)
    BY <1>2, <1>3, <2>1 DEF Content, TypeOK
  <2>4. /\ dir[Target[o]] \in Inodes /\ data[dir[Target[o]]] # Torn
        /\ data[dir[Target[o]]] \in Contents
    BY <1>2, <1>3, <2>1 DEF TypeOK, TargetsWhole
  <2>5. Content(Target[o]) # None
    BY <2>1, <2>4, DataAssumption DEF Content, Contents
  <2> QED
    BY <1>11, <2>1, <2>2, <2>3, <2>5
<1>13. CASE Absent(o)
  <2>1. /\ Kind[o] = "deleteTree" /\ at[o] \in {"stat", "unlink"}
        /\ dir[Target[o]] = None /\ End(o, "ok") /\ UNCHANGED <<dir, data, renamed>>
    BY <1>13 DEF Absent, FilesKept
  <2>2. \A t \in Targets : Content(t)' = IF t = Target[o] THEN None ELSE Content(t)
    BY <2>1 DEF Content
  <2> QED
    BY <1>11, <2>1, <2>2 DEF Writing
<1>14. CASE Sync(o)
  <2>1. at[o] = "sync" /\ End(o, "ok") /\ UNCHANGED <<dir, data, renamed>>
    BY <1>14 DEF Sync
  <2>2. Writing(o) /\ o \in renamed
    BY <1>2, <2>1 DEF StepsOf, Window, Writing, ToldAtEnd
  <2> QED
    BY <1>6, <2>1, <2>2 DEF Content
<1>15. CASE Fail(o) \/ UploadCut(o)
  <2>1. Fail(o) /\ UNCHANGED <<dir, data, renamed>> /\ at[o] # "done"
    BY <1>15 DEF Fail, UploadCut, FilesKept
  <2>2. CASE HasTemp(o)
    BY <1>5, <2>1, <2>2 DEF Fail, Content
  <2>3. CASE ~HasTemp(o)
    BY <1>6, <2>1, <2>3 DEF Fail, Content
  <2> QED
    BY <2>2, <2>3
<1>16. CASE Clean(o)
  <2>1. UNCHANGED <<dir, data, renamed>> /\ at[o] = "clean"
    BY <1>16 DEF Clean, FilesKept
  <2> QED
    BY <1>5, <1>6, <1>16, <2>1 DEF Clean, Goto, Content
<1>17. CASE CleanUnlink(o)
  <2>1. at[o] = "cleanUnlink" /\ End(o, "error") /\ UNCHANGED renamed
    BY <1>17 DEF CleanUnlink
  <2>2. \A t \in Targets : Content(t)' = Content(t)
    BY <1>3, <1>17 DEF CleanUnlink, Content
  <2> QED
    BY <1>6, <2>1, <2>2
<1>18. CASE CleanFails(o) \/ CreateFails(o)
  <2>1. /\ at[o] # "done" /\ End(o, "error") /\ UNCHANGED renamed
    BY <1>18 DEF CleanFails, CreateFails, Abandon
  <2>2. data' = data /\ (dir' = dir \/ dir' = [dir EXCEPT ![o] = o])
    BY <1>18 DEF CleanFails, CreateFails, FilesKept
  <2>3. \A t \in Targets : dir'[t] = dir[t]
    BY <1>2, <1>3, <2>2 DEF TypeOK
  <2>4. \A t \in Targets : Content(t)' = Content(t)
    BY <2>2, <2>3 DEF Content
  <2> QED
    BY <1>6, <2>1, <2>4
<1> QED
  BY <1>1, <1>7, <1>8, <1>9, <1>10, <1>12, <1>13, <1>14, <1>15, <1>16, <1>17, <1>18
     DEF OpStep

\* With no other program at work and no crash, every behaviour of the code is
\* one of the atomic store: each operation takes effect at one instant.
THEOREM ImplementsStore ==
    ASSUME Undisturbed
    PROVE  Spec => IsStore
<1>1. Init => Store!Init
  <2> SUFFICES ASSUME Init PROVE Store!Init
    OBVIOUS
  <2>1. renamed = {} /\ result = [o \in Ops |-> "none"]
    BY DEF Init
  <2> QED
    BY <2>1 DEF Store!Init, Applied
<1>2. Inductive /\ [Next]_vars =>
        [Store!Next]_<<StoreValue, Applied, result>>
  <2>1. UNCHANGED vars => UNCHANGED <<StoreValue, Applied, result>>
    BY DEF vars, StoreValue, Applied, Content
  <2> QED
    BY <2>1, StoreStep
<1> QED
  BY <1>1, <1>2, CommitInvariant, PTL DEF Spec, IsStore, Store!Spec
=============================================================================
