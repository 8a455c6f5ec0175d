------------------------- MODULE ConfigReloadProofs -------------------------
(***************************************************************************)
(* Proofs about ConfigReload: its inductive invariant, and from it that    *)
(* the configuration in effect is an atomic register.                      *)
(***************************************************************************)
EXTENDS ConfigReload, TLAPS

-----------------------------------------------------------------------------
(* What makes the properties hold: the inductive invariant *)

PendingType == IF pending.transfer THEN "ServerTransferApply" ELSE "ApplyConfig"

\* c is what the pending change makes of the configuration in effect now,
\* not only of the one it was checked against.
FromCurrent(c) ==
    \E payload \in Payloads : /\ Admissible(current, PendingType, payload)
                              /\ c = Merged(current, payload)

\* What remains pending with nothing left to commit it could not be saved.
PendingHasTimerUnlessSaveFailed ==
    pending # None => saveFailed \/ commit # NoCommit \/ Carriers # {}

NothingWhenDown == ~Up => pending = None

NothingWithoutPending == pending = None => timers = {} /\ commit = NoCommit

CommitHoldsPending ==
    commit # NoCommit =>
        /\ timers = {}
        /\ commit.step # "none"
        /\ commit.step # "notify" => FromCurrent(commit.config)

TimersFollowPending ==
    \A t \in timers :
        /\ t.generation <= pending.generation
        /\ ~t.fired => t.generation = pending.generation
        /\ t.generation = pending.generation => FromCurrent(t.config)

GenerationsUnique ==
    \A t, u \in timers : t.generation = u.generation => t = u

OneFired == \A t, u \in timers : t.fired /\ u.fired => t = u

\* The generations name their tasks, no task is ahead of the pending change,
\* and whatever can still be committed is derived from the present value.
PendingKnown ==
    /\ TypeOK
    /\ NothingWhenDown
    /\ NothingWithoutPending
    /\ CommitHoldsPending
    /\ TimersFollowPending
    /\ GenerationsUnique
    /\ OneFired
    /\ PendingHasTimerUnlessSaveFailed

\* Reading back what was saved changes nothing: it was normalised before.
Normalized == phase # "down" => Normalize(current) = current

Inductive == PendingKnown /\ Normalized /\ DiskTracksCurrent

-----------------------------------------------------------------------------
(* What the operations on configuration records return *)

\* Normalising keeps a configuration a configuration (config.rs validate).
LEMMA NormalizeType ==
    ASSUME NEW c, IsConfig(c)
    PROVE  IsConfig(Normalize(c))
<1>1. c.report_delay \in Nat /\ c.ip_report_period \in Nat
    BY DEF IsConfig, IsPartial, FieldValues, ConfigFields, NumberFields
<1>2. ReportDelay(c.report_delay) \in Nat
    BY <1>1 DEF ReportDelay
<1>3. IpReportPeriod(c.ip_report_period) \in Nat
    BY <1>1 DEF IpReportPeriod
<1>4. /\ DOMAIN Normalize(c) = ConfigFields
      /\ Normalize(c) = [f \in DOMAIN Normalize(c) |-> Normalize(c)[f]]
    BY DEF Normalize, IsConfig, IsPartial
<1>5. \A f \in ConfigFields : Normalize(c)[f] \in FieldValues(f)
    BY <1>2, <1>3
    DEF Normalize, IsConfig, IsPartial, FieldValues, ConfigFields, NumberFields
<1> QED
    BY <1>4, <1>5 DEF IsConfig, IsPartial

\* Laying fields over a configuration gives a configuration (runtime.rs apply).
LEMMA OverlayType ==
    ASSUME NEW base, IsConfig(base), NEW p, IsPartial(p)
    PROVE  IsConfig(Overlay(base, p))
BY DEF Overlay, IsConfig, IsPartial

\* The configuration of an empty file is one.
LEMMA DefaultConfigType == IsConfig(DefaultConfig)
BY DEF DefaultConfig, IsConfig, IsPartial, ConfigFields, FieldValues,
       NumberFields, FlagFields

\* Setting a well-typed field keeps a configuration a configuration.
LEMMA SetUuidType ==
    ASSUME NEW c, IsConfig(c), NEW uuid \in Uuids
    PROVE  IsConfig([c EXCEPT !.uuid = IF @ = Empty THEN uuid ELSE @])
BY DEF IsConfig, IsPartial, ConfigFields, FieldValues, NumberFields, FlagFields

\* What load() returns is a configuration, whatever prefix the file holds.
LEMMA LoadedType ==
    ASSUME NEW file, IsPartial(file), NEW uuid \in Uuids
    PROVE  IsConfig(LoadedWith(file, uuid))
<1>1. IsConfig(FileFields(file))
    BY DefaultConfigType, OverlayType DEF FileFields
<1>2. IsConfig(Overridden(file))
    BY <1>1, OverlayType, OverridesAssumption DEF Overridden
<1> QED
    BY <1>2, SetUuidType, NormalizeType DEF LoadedWith

\* What an admissible payload makes of a configuration is a configuration.
LEMMA MergedType ==
    ASSUME NEW base, IsConfig(base), NEW p \in Payloads, p # Malformed
    PROVE  IsConfig(Merged(base, p))
BY PayloadsAssumption, OverlayType, NormalizeType DEF Merged

\* A file that fs::write leaves cut short holds well-typed fields.
LEMMA PrefixType ==
    ASSUME NEW c, IsConfig(c), NEW p \in Prefixes(c)
    PROVE  IsPartial(p)
BY DEF Prefixes, IsConfig, IsPartial

\* The file without any field.
LEMMA NoFieldsType == IsPartial(NoFields)
BY DEF NoFields, IsPartial

\* The initial files hold well-typed fields.
LEMMA InitFileType ==
    ASSUME NEW s \in Servers, NEW k \in Secrets \cup WeakSecrets, NEW u \in Uuids
    PROVE  IsConfig([DefaultConfig EXCEPT !.server = s, !.client_secret = k,
                                          !.uuid = u])
BY DefaultConfigType DEF IsConfig, IsPartial, ConfigFields, FieldValues,
       NumberFields, FlagFields

\* A failed save leaves a file of well-typed fields.
LEMMA FailedSaveType ==
    ASSUME TypeOK, NEW c, IsConfig(c), FailedSave(c)
    PROVE  disk' = NoFile \/ IsPartial(disk')
BY PrefixType DEF FailedSave, TypeOK, IsConfig

-----------------------------------------------------------------------------
(* The inductive invariant: the initial states *)

\* Only while a step of it is due is the lock held.
LEMMA CommitRecord ==
    ASSUME NEW step \in {"save", "install", "notify"}, NEW g \in Nat,
           NEW c, IsConfig(c)
    PROVE  /\ CommitOK(Commit(step, g, c))
           /\ Commit(step, g, c) # NoCommit
           /\ Commit(step, g, c).step = step
           /\ Commit(step, g, c).generation = g
           /\ Commit(step, g, c).config = c
BY DEF CommitOK, Commit, NoCommit

\* No commit is a commit of the right type.
LEMMA NoCommitOK == CommitOK(NoCommit) /\ NoCommit.step = "none"
BY DefaultConfigType DEF CommitOK, Commit, NoCommit

\* The invariant holds before the first start.
LEMMA InitPendingKnown == Init => PendingKnown
<1> SUFFICES ASSUME Init PROVE PendingKnown
    OBVIOUS
<1>1. TypeOK
    <2>1. disk = NoFile \/ IsPartial(disk)
        <3>1. CASE disk \in {NoFile, NoFields}
            BY <3>1, NoFieldsType
        <3>2. CASE disk \notin {NoFile, NoFields}
            <4>1. PICK s \in Servers, k \in Secrets \cup WeakSecrets, u \in Uuids :
                     disk = [DefaultConfig EXCEPT !.server = s,
                                !.client_secret = k, !.uuid = u]
                BY <3>2 DEF Init
            <4> QED
                BY <4>1, InitFileType DEF IsConfig
        <3> QED
            BY <3>1, <3>2
    <2> QED
        BY <2>1, NoCommitOK, DefaultConfigType DEF Init, TypeOK, Phases
<1> QED
    BY <1>1 DEF Init, PendingKnown, NothingWhenDown, NothingWithoutPending,
        CommitHoldsPending, TimersFollowPending, GenerationsUnique, OneFired,
        PendingHasTimerUnlessSaveFailed

-----------------------------------------------------------------------------
(* The inductive invariant: steps that leave what is pending alone *)

\* A step of the session loop, or of a load or save without a commit.
LEMMA SettledStep ==
    ASSUME PendingKnown, TypeOK', pending = None,
           UNCHANGED <<pending, timers, commit>>
    PROVE  PendingKnown'
BY DEF PendingKnown, NothingWhenDown, NothingWithoutPending, CommitHoldsPending,
       TimersFollowPending, GenerationsUnique, OneFired,
       PendingHasTimerUnlessSaveFailed

\* A step that leaves Runtime alone keeps what is known of pending changes.
LEMMA SessionStep ==
    ASSUME PendingKnown, TypeOK', Up', Steady
    PROVE  PendingKnown'
<1>1. \A c : FromCurrent(c) => FromCurrent(c)'
    BY DEF Steady, FromCurrent, PendingType
<1> QED
    BY <1>1 DEF Steady, PendingKnown, NothingWhenDown, NothingWithoutPending,
        CommitHoldsPending, TimersFollowPending, GenerationsUnique, OneFired,
        PendingHasTimerUnlessSaveFailed, Carriers

\* So does the end of the process, after which nothing is pending.
LEMMA ForgetStep ==
    ASSUME PendingKnown, TypeOK', Forget
    PROVE  PendingKnown'
BY DEF Forget, PendingKnown, NothingWhenDown, NothingWithoutPending,
       CommitHoldsPending, TimersFollowPending, GenerationsUnique, OneFired,
       PendingHasTimerUnlessSaveFailed

\* The steps of run_agent and session.
LEMMA SessionActions ==
    ASSUME PendingKnown,
           \/ ReadConfig \/ Subscribe \/ Connect \/ ConnectFails
           \/ StartCall \/ CallReturns \/ CallFails
           \/ ReloadObserved \/ SessionEnds \/ Closed \/ Reconnect
    PROVE  PendingKnown'
<1>1. TypeOK'
    BY DEF PendingKnown, TypeOK, ReadConfig, Subscribe, Connect, ConnectFails,
        StartCall, CallReturns, CallFails, ReloadObserved, SessionEnds,
        Closed, Reconnect, Close, Steady, Phases
<1>2. Up' /\ Steady
    BY DEF Up, ReadConfig, Subscribe, Connect, ConnectFails,
        StartCall, CallReturns, CallFails, ReloadObserved, SessionEnds,
        Closed, Reconnect, Close
<1> QED
    BY <1>1, <1>2, SessionStep

\* Starting, and saving the file of a first run.
LEMMA LoadActions ==
    ASSUME PendingKnown,
           \/ \E uuid \in Uuids : Load(uuid)
           \/ LoadSave
           \/ LoadSaveFails
    PROVE  PendingKnown'
<1>1. pending = None /\ UNCHANGED <<pending, timers, commit>>
    BY DEF PendingKnown, NothingWhenDown, Up, Load, LoadSave, LoadSaveFails
<1>2. TypeOK'
    <2>1. CASE \E uuid \in Uuids : Load(uuid)
        <3>1. PICK uuid \in Uuids : Load(uuid)
            BY <2>1
        <3> DEFINE file == IF disk = NoFile THEN NoFields ELSE disk
        <3>a. IsPartial(file)
            BY NoFieldsType DEF PendingKnown, TypeOK
        <3>b. current' = LoadedWith(file, uuid)
            BY <3>1 DEF Load
        <3>2. IsConfig(current')
            BY <3>a, <3>b, LoadedType
        <3>3. phase' \in {"saving", "idle"} /\ loads' \in Nat
            BY <3>1 DEF Load, PendingKnown, TypeOK
        <3>4. /\ version' = 0 /\ exit' = "none" /\ saveFailed' = FALSE
              /\ UNCHANGED <<disk, pending, timers, commit, session, seen,
                             missed, applies>>
            BY <3>1 DEF Load
        <3> HIDE DEF file
        <3> QED
            BY <3>2, <3>3, <3>4 DEF PendingKnown, TypeOK, Phases
    <2>2. CASE LoadSave
        BY <2>2 DEF LoadSave, PendingKnown, TypeOK, Phases, IsConfig
    <2>3. CASE LoadSaveFails
        <3>1. FailedSave(current) /\ saveFailed' \in BOOLEAN
            BY <2>3 DEF LoadSaveFails, FailedSave
        <3>2. disk' = NoFile \/ IsPartial(disk')
            BY <3>1, FailedSaveType DEF PendingKnown, TypeOK
        <3> QED
            BY <2>3, <3>1, <3>2 DEF LoadSaveFails, PendingKnown, TypeOK, Phases
    <2> QED
        BY <2>1, <2>2, <2>3
<1> QED
    BY <1>1, <1>2, SettledStep

\* The process ends.
LEMMA EndActions ==
    ASSUME PendingKnown, Crash \/ Stopped
    PROVE  PendingKnown'
<1>1. Forget
    BY DEF Crash, Stopped
<1>2. disk' = NoFile \/ IsPartial(disk')
    BY PrefixType DEF Crash, Stopped, PendingKnown, TypeOK, CommitOK
<1>3. saveFailed' \in BOOLEAN
    BY DEF Crash, Stopped, PendingKnown, TypeOK
<1>4. TypeOK'
    BY <1>1, <1>2, <1>3, NoCommitOK DEF Forget, PendingKnown, TypeOK, Phases
<1> QED
    BY <1>1, <1>4, ForgetStep

-----------------------------------------------------------------------------
(* The inductive invariant: steps of apply and commit *)

\* An accepted change gets the next generation, so that of the tasks that
\* escaped the abort none can pass for its timer.
LEMMA ApplyStep ==
    ASSUME PendingKnown, NEW type \in TaskTypes, NEW payload \in Payloads,
           Apply(type, payload)
    PROVE  PendingKnown'
<1> DEFINE transfer == type = "ServerTransferApply"
           generation == IF pending = None THEN 1 ELSE pending.generation + 1
           new == Timer(generation, Merged(current, payload), FALSE)
<1>1. PICK escaped \in SUBSET {t \in timers : t.fired} :
          timers' = escaped \cup {new}
    BY DEF Apply, Accept, NextGeneration
<1>2. /\ pending' = [generation |-> generation, transfer |-> transfer]
      /\ Up' /\ commit = NoCommit
      /\ Admissible(current, type, payload)
      /\ UNCHANGED <<phase, exit, disk, current, commit, version, session,
                     seen, saveFailed, missed, loads>>
    BY DEF Apply, Accept, NextGeneration, Up, Working
<1>3. generation \in Nat /\ generation > 0
    BY DEF PendingKnown, TypeOK
<1>4. pending' \in [generation: Nat, transfer: BOOLEAN] /\ pending' # None
    <2>1. transfer \in BOOLEAN
        OBVIOUS
    <2> HIDE DEF transfer, generation
    <2>2. [generation |-> generation, transfer |-> transfer]
             \in [generation: Nat, transfer: BOOLEAN]
        BY <1>3, <2>1
    <2> QED
        BY <1>2, <2>2, NoneAssumption
<1>5. IsConfig(Merged(current, payload))
    BY <1>2, MergedType DEF Admissible, PendingKnown, TypeOK
<1>6. /\ TimerOK(new) /\ ~new.fired /\ new.generation = generation
      /\ new.config = Merged(current, payload)
    BY <1>3, <1>5 DEF TimerOK, Timer
<1>7. \A t \in escaped : /\ t \in timers /\ t.fired /\ TimerOK(t)
                         /\ t.generation < generation
    <2> SUFFICES ASSUME NEW t \in escaped
                 PROVE  /\ t \in timers /\ t.fired /\ TimerOK(t)
                        /\ t.generation < generation
        OBVIOUS
    <2>a. t \in timers /\ t.fired
        BY <1>1
    <2>1. t \in timers /\ t.fired /\ TimerOK(t)
        BY <2>a DEF PendingKnown, TypeOK
    <2>2. pending # None /\ pending.generation \in Nat
        BY <2>1 DEF PendingKnown, NothingWithoutPending, TypeOK
    <2>3. t.generation \in Nat /\ t.generation <= pending.generation
        BY <2>1 DEF PendingKnown, TimersFollowPending, TimerOK
    <2>4. generation = pending.generation + 1
        BY <2>2
    <2> HIDE DEF new, generation
    <2> QED
        BY <2>1, <2>2, <2>3, <2>4
<1> HIDE DEF new, generation
<1>8. TypeOK'
    <2>1. applies' \in Nat
        BY DEF Apply, Accept, PendingKnown, TypeOK
    <2>2. \A t \in timers' : TimerOK(t)
        BY <1>1, <1>6, <1>7
    <2> QED
        BY <1>2, <1>4, <2>1, <2>2 DEF PendingKnown, TypeOK
<1>9. \A c : c = Merged(current, payload) => FromCurrent(c)'
    <2>1. pending'.transfer = transfer
        BY <1>2
    <2>2. PendingType' = type
        BY <2>1 DEF PendingType, TaskTypes
    <2> QED
        BY <1>2, <2>2 DEF FromCurrent
<1>10. TimersFollowPending'
    <2>1. pending'.generation = generation
        BY <1>2
    <2> SUFFICES ASSUME NEW t \in timers'
                 PROVE  /\ t.generation <= generation
                        /\ ~t.fired => t.generation = generation
                        /\ t.generation = generation => FromCurrent(t.config)'
        BY <2>1 DEF TimersFollowPending
    <2>2. CASE t = new
        BY <1>3, <1>6, <1>9, <2>2
    <2>3. CASE t \in escaped
        <3>1. t.generation \in Nat
            BY <1>7, <2>3 DEF TimerOK
        <3> QED
            BY <1>3, <1>7, <2>3, <3>1
    <2> QED
        BY <1>1, <2>2, <2>3
<1>11. GenerationsUnique'
    BY <1>1, <1>3, <1>6, <1>7 DEF PendingKnown, GenerationsUnique, TimerOK
<1>12. OneFired'
    BY <1>1, <1>6, <1>7 DEF PendingKnown, OneFired
<1>13. PendingHasTimerUnlessSaveFailed'
    BY <1>1, <1>2, <1>4, <1>6 DEF PendingHasTimerUnlessSaveFailed, Carriers
<1> QED
    BY <1>2, <1>4, <1>8, <1>10, <1>11, <1>12, <1>13
    DEF PendingKnown, NothingWhenDown, NothingWithoutPending, CommitHoldsPending

\* The timer that fires is the only one left running.
LEMMA TimerFiresStep ==
    ASSUME PendingKnown, NEW t \in timers, TimerFires(t)
    PROVE  PendingKnown'
<1> DEFINE new == Timer(t.generation, t.config, TRUE)
<1>1. /\ timers' = (timers \ {t}) \cup {new}
      /\ \A u \in timers : ~u.fired
      /\ UNCHANGED <<phase, exit, disk, current, pending, commit, version,
                     session, seen, saveFailed, missed, applies, loads>>
    BY DEF TimerFires
<1>2. TimerOK(t)
    BY DEF PendingKnown, TypeOK
<1>3. /\ TimerOK(new) /\ new.fired /\ new.generation = t.generation
      /\ new.config = t.config
    BY <1>2 DEF TimerOK, Timer
<1> HIDE DEF new
<1>4. pending # None /\ t.generation = pending.generation
    BY <1>1 DEF PendingKnown, NothingWithoutPending, TimersFollowPending
<1>5. \A c : FromCurrent(c) => FromCurrent(c)'
    BY <1>1 DEF FromCurrent, PendingType
<1>6. TypeOK'
    BY <1>1, <1>3 DEF PendingKnown, TypeOK
<1>7. TimersFollowPending'
    BY <1>1, <1>3, <1>5 DEF PendingKnown, TimersFollowPending
<1>8. GenerationsUnique' /\ OneFired'
    BY <1>1, <1>3 DEF PendingKnown, GenerationsUnique, OneFired
<1>9. PendingHasTimerUnlessSaveFailed'
    BY <1>1, <1>3, <1>4 DEF PendingHasTimerUnlessSaveFailed, Carriers
<1>10. NothingWhenDown' /\ NothingWithoutPending' /\ CommitHoldsPending'
    BY <1>1, <1>4 DEF PendingKnown, NothingWhenDown, NothingWithoutPending,
        CommitHoldsPending, Up
<1> QED
    BY <1>6, <1>7, <1>8, <1>9, <1>10 DEF PendingKnown

\* Taking the lock: the task whose generation is pending is the last one.
LEMMA CommitLockStep ==
    ASSUME PendingKnown, NEW t \in timers, CommitLock(t)
    PROVE  PendingKnown'
<1>1. /\ t.fired /\ commit = NoCommit /\ timers' = timers \ {t}
      /\ UNCHANGED <<phase, exit, disk, current, pending, version, session,
                     seen, saveFailed, missed, applies, loads>>
    BY DEF CommitLock, LockFor
<1>2. TimerOK(t) /\ pending # None
    BY DEF PendingKnown, TypeOK, NothingWithoutPending
<1>3. \A c : FromCurrent(c) => FromCurrent(c)'
    BY <1>1 DEF FromCurrent, PendingType
<1>4. TimersFollowPending' /\ GenerationsUnique' /\ OneFired'
    BY <1>1, <1>3 DEF PendingKnown, TimersFollowPending, GenerationsUnique, OneFired
<1>5. NothingWhenDown' /\ Up'
    BY <1>1, <1>2 DEF PendingKnown, NothingWhenDown, Up
<1>6. CASE pending.generation = t.generation
    <2>1. commit' = Commit("save", t.generation, t.config)
        BY <1>2, <1>6 DEF CommitLock, LockFor
    <2>2. /\ CommitOK(commit') /\ commit' # NoCommit
          /\ commit'.step = "save" /\ commit'.config = t.config
        BY <1>2, <2>1, CommitRecord DEF TimerOK
    <2>3. \A u \in timers : u = t
        BY <1>1, <1>6 DEF PendingKnown, TimersFollowPending, GenerationsUnique, OneFired
    <2>4. timers' = {}
        BY <1>1, <2>3
    <2>5. FromCurrent(t.config)
        BY <1>6 DEF PendingKnown, TimersFollowPending
    <2>6. TypeOK'
        BY <1>1, <2>2, <2>4 DEF PendingKnown, TypeOK
    <2>7. CommitHoldsPending'
        BY <1>3, <2>2, <2>4, <2>5 DEF CommitHoldsPending
    <2>8. NothingWithoutPending' /\ PendingHasTimerUnlessSaveFailed'
        BY <1>1, <1>2, <2>2 DEF NothingWithoutPending, PendingHasTimerUnlessSaveFailed
    <2> QED
        BY <1>4, <1>5, <2>6, <2>7, <2>8 DEF PendingKnown
<1>7. CASE pending.generation # t.generation
    <2>1. commit' = NoCommit
        BY <1>7 DEF CommitLock, LockFor
    <2>2. TypeOK'
        BY <1>1, <2>1, NoCommitOK DEF PendingKnown, TypeOK
    <2>3. PendingHasTimerUnlessSaveFailed'
        BY <1>1, <1>2, <1>7, <2>1
        DEF PendingKnown, PendingHasTimerUnlessSaveFailed, Carriers
    <2>4. NothingWithoutPending' /\ CommitHoldsPending'
        BY <1>1, <1>2, <2>1 DEF NothingWithoutPending, CommitHoldsPending
    <2> QED
        BY <1>4, <1>5, <2>2, <2>3, <2>4 DEF PendingKnown
<1> QED
    BY <1>6, <1>7

\* What holds while a commit has the lock.
LEMMA CommitFacts ==
    ASSUME PendingKnown, commit.step # "none"
    PROVE  /\ timers = {} /\ pending # None /\ Up /\ commit # NoCommit
           /\ commit = Commit(commit.step, commit.generation, commit.config)
           /\ commit.generation \in Nat /\ IsConfig(commit.config)
           /\ commit.step # "notify" => FromCurrent(commit.config)
BY NoCommitOK DEF PendingKnown, TypeOK, CommitOK, CommitHoldsPending,
   NothingWithoutPending, NothingWhenDown

\* A commit that saves the configuration it was spawned with.
LEMMA CommitSaveStep == ASSUME PendingKnown, CommitSave PROVE PendingKnown'
<1>1. /\ commit.step = "save" /\ disk' = commit.config /\ saveFailed' = FALSE
      /\ commit' = [commit EXCEPT !.step = "install"]
      /\ UNCHANGED <<phase, exit, current, pending, timers, version, session,
                     seen, missed, applies, loads>>
    BY DEF CommitSave, Saved
<1>2. /\ timers = {} /\ pending # None /\ Up
      /\ commit = Commit(commit.step, commit.generation, commit.config)
      /\ commit.generation \in Nat /\ IsConfig(commit.config)
      /\ FromCurrent(commit.config)
    BY <1>1, CommitFacts
<1>3. commit' = Commit("install", commit.generation, commit.config)
    BY <1>1, <1>2 DEF Commit
<1>4. /\ CommitOK(commit') /\ commit' # NoCommit
      /\ commit'.step = "install" /\ commit'.config = commit.config
    BY <1>2, <1>3, CommitRecord
<1>5. FromCurrent(commit.config)'
    BY <1>1, <1>2, <1>4 DEF FromCurrent, PendingType
<1>6. TypeOK'
    BY <1>1, <1>2, <1>4 DEF PendingKnown, TypeOK, IsConfig
<1>7. CommitHoldsPending' /\ PendingHasTimerUnlessSaveFailed'
    BY <1>1, <1>2, <1>4, <1>5
    DEF CommitHoldsPending, PendingHasTimerUnlessSaveFailed
<1> QED
    BY <1>1, <1>2, <1>6, <1>7
    DEF PendingKnown, NothingWhenDown, NothingWithoutPending, TimersFollowPending,
        GenerationsUnique, OneFired, Up

\* A commit whose save fails leaves its change pending without a task.
LEMMA CommitSaveFailsStep == ASSUME PendingKnown, CommitSaveFails PROVE PendingKnown'
<1>1. /\ commit.step = "save" /\ FailedSave(commit.config) /\ commit' = NoCommit
      /\ UNCHANGED <<phase, exit, current, pending, timers, version, session,
                     seen, missed, applies, loads>>
    BY DEF CommitSaveFails
<1>2. timers = {} /\ pending # None /\ Up /\ IsConfig(commit.config)
    BY <1>1, CommitFacts
<1>3. saveFailed' = TRUE /\ (disk' = NoFile \/ IsPartial(disk'))
    BY <1>1, <1>2, FailedSaveType DEF FailedSave, PendingKnown
<1>4. TypeOK'
    BY <1>1, <1>3, NoCommitOK DEF PendingKnown, TypeOK
<1> QED
    BY <1>1, <1>2, <1>3, <1>4
    DEF PendingKnown, NothingWhenDown, NothingWithoutPending, CommitHoldsPending,
        TimersFollowPending, GenerationsUnique, OneFired,
        PendingHasTimerUnlessSaveFailed, Up

\* A commit that installs the configuration it has saved.
LEMMA CommitInstallStep == ASSUME PendingKnown, CommitInstall PROVE PendingKnown'
<1>1. /\ commit.step = "install" /\ current' = commit.config
      /\ commit' = [commit EXCEPT !.step = "notify"]
      /\ UNCHANGED <<phase, exit, disk, pending, timers, version, session,
                     seen, saveFailed, missed, applies, loads>>
    BY DEF CommitInstall
<1>2. /\ timers = {} /\ pending # None /\ Up
      /\ commit = Commit(commit.step, commit.generation, commit.config)
      /\ commit.generation \in Nat /\ IsConfig(commit.config)
    BY <1>1, CommitFacts
<1>3. commit' = Commit("notify", commit.generation, commit.config)
    BY <1>1, <1>2 DEF Commit
<1>4. CommitOK(commit') /\ commit' # NoCommit /\ commit'.step = "notify"
    BY <1>2, <1>3, CommitRecord
<1>5. TypeOK'
    BY <1>1, <1>2, <1>4 DEF PendingKnown, TypeOK
<1> QED
    BY <1>1, <1>2, <1>4, <1>5
    DEF PendingKnown, NothingWhenDown, NothingWithoutPending, CommitHoldsPending,
        TimersFollowPending, GenerationsUnique, OneFired,
        PendingHasTimerUnlessSaveFailed, Up

\* A commit that clears the pending change and notifies the session.
LEMMA CommitNotifyStep == ASSUME PendingKnown, CommitNotify PROVE PendingKnown'
<1>1. commit.step = "notify" /\ timers = {}
    BY CommitFacts DEF CommitNotify, Release
<1>2. pending' = None /\ timers' = {} /\ commit' = NoCommit
    BY <1>1 DEF CommitNotify, Release
<1>3. version' \in Nat /\ missed' \in BOOLEAN
    BY DEF CommitNotify, Release, PendingKnown, TypeOK
<1>4. TypeOK'
    BY <1>2, <1>3, NoCommitOK DEF CommitNotify, Release, PendingKnown, TypeOK
<1> QED
    BY <1>2, <1>4
    DEF PendingKnown, NothingWhenDown, NothingWithoutPending, CommitHoldsPending,
        TimersFollowPending, GenerationsUnique, OneFired,
        PendingHasTimerUnlessSaveFailed

-----------------------------------------------------------------------------
(* The theorems *)

\* No step takes the state out of the inductive invariant.
LEMMA NextPendingKnown == PendingKnown /\ [Next]_vars => PendingKnown'
<1> SUFFICES ASSUME PendingKnown, [Next]_vars PROVE PendingKnown'
    OBVIOUS
<1>1. CASE UNCHANGED vars
    <2>1. TypeOK'
        BY <1>1 DEF vars, PendingKnown, TypeOK
    <2>2. CASE Up
        BY <1>1, <2>1, <2>2, SessionStep DEF vars, Up, Steady
    <2>3. CASE ~Up
        BY <1>1, <2>1, <2>3, SettledStep DEF vars, PendingKnown, NothingWhenDown
    <2> QED
        BY <2>2, <2>3
<1>2. CASE Next
    <2>1. CASE \/ \E uuid \in Uuids : Load(uuid)
               \/ LoadSave
               \/ LoadSaveFails
        BY <2>1, LoadActions
    <2>2. CASE Crash \/ Stopped
        BY <2>2, EndActions
    <2>3. CASE \E type \in TaskTypes, payload \in Payloads : Apply(type, payload)
        BY <2>3, ApplyStep
    <2>4. CASE \E t \in timers : TimerFires(t)
        BY <2>4, TimerFiresStep
    <2>5. CASE \E t \in timers : CommitLock(t)
        BY <2>5, CommitLockStep
    <2>6. CASE CommitSave \/ CommitSaveFails \/ CommitInstall \/ CommitNotify
        BY <2>6, CommitSaveStep, CommitSaveFailsStep, CommitInstallStep,
           CommitNotifyStep
    <2>7. CASE \/ ReadConfig \/ Subscribe \/ Connect \/ ConnectFails
               \/ StartCall \/ CallReturns \/ CallFails
               \/ ReloadObserved \/ SessionEnds \/ Closed \/ Reconnect
        BY <2>7, SessionActions
    <2> QED
        BY <1>2, <2>1, <2>2, <2>3, <2>4, <2>5, <2>6, <2>7 DEF Next
<1> QED
    BY <1>1, <1>2

\* The inductive invariant holds in every reachable state.
THEOREM PendingInvariant == Spec => []PendingKnown
<1> QED
    BY InitPendingKnown, NextPendingKnown, PTL DEF Spec

\* The variables keep their types.
THEOREM TypeCorrect == Spec => []TypeOK
<1>1. PendingKnown => TypeOK
    BY DEF PendingKnown
<1> QED
    BY <1>1, PendingInvariant, PTL

\* However many changes are accepted, superseded and aborted halfway, no two
\* tasks can both commit, none can when nothing is pending, and a change that
\* is pending without a task to commit it is the work of a failed save.
THEOREM ExactlyOneCommitter == Spec => []OneCommitter
<1>1. PendingKnown => OneCommitter
    BY DEF PendingKnown, OneCommitter, Carriers, GenerationsUnique,
        NothingWithoutPending, CommitHoldsPending, PendingHasTimerUnlessSaveFailed
<1> QED
    BY <1>1, PendingInvariant, PTL

\* The present value changes only by a load or by what a change makes of it.
LEMMA CurrentChanges ==
    ASSUME PendingKnown, Next, Up, current' # current
    PROVE  CommitInstall /\ pending # None /\ FromCurrent(current')
<1>1. CommitInstall
    BY DEF Next, Load, LoadSave, LoadSaveFails, Crash, Forget, Apply, Accept,
        TimerFires, CommitLock, LockFor, CommitSave, Saved, CommitSaveFails,
        CommitNotify, Release, ReadConfig,
        Subscribe, Connect, ConnectFails, StartCall, CallReturns, CallFails,
        ReloadObserved, SessionEnds, Close,
        Closed, Stopped, Reconnect, Steady, Up
<1>2. commit.step = "install" /\ current' = commit.config
    BY <1>1 DEF CommitInstall
<1> QED
    BY <1>1, <1>2, CommitFacts

\* The secret never changes but by a transfer over verified TLS.
THEOREM SecretSafety == Spec => SecretChangesByTransfer
<1>1. PendingKnown /\ [Next]_vars =>
        [ (Up /\ current'.client_secret # current.client_secret) =>
          /\ pending # None /\ pending.transfer
          /\ current'.client_secret \in Secrets
          /\ current'.tls /\ ~current'.insecure_tls ]_vars
    <2> SUFFICES ASSUME PendingKnown, Next, Up,
                        current'.client_secret # current.client_secret
                 PROVE  /\ pending # None /\ pending.transfer
                        /\ current'.client_secret \in Secrets
                        /\ current'.tls /\ ~current'.insecure_tls
        BY DEF vars
    <2>1. pending # None /\ FromCurrent(current')
        BY CurrentChanges
    <2>2. PICK payload \in Payloads :
              /\ Admissible(current, PendingType, payload)
              /\ current' = Merged(current, payload)
        BY <2>1 DEF FromCurrent
    <2> QED
        BY <2>1, <2>2 DEF Admissible, PendingType
<1> QED
    BY <1>1, PendingInvariant, PTL DEF Spec, SecretChangesByTransfer

\* A pending transfer gives way to another transfer only (runtime.rs 114-117).
THEOREM TransferKept == Spec => TransferNotDisplaced
<1>1. TypeOK /\ [Next]_vars =>
        [ (pending # None /\ pending.transfer /\ pending' # None)
          => pending'.transfer ]_vars
    <2> SUFFICES ASSUME TypeOK, Next, pending # None, pending.transfer,
                        pending' # None, pending' # pending
                 PROVE  pending'.transfer
        BY DEF vars
    <2>1. PICK type \in TaskTypes, payload \in Payloads : Apply(type, payload)
        BY DEF Next, Load, LoadSave, LoadSaveFails, Crash, Forget, TimerFires,
            CommitLock, LockFor, CommitSave, Saved, CommitSaveFails, CommitInstall,
            CommitNotify, Release, ReadConfig, Subscribe, Connect, ConnectFails,
            StartCall, CallReturns, CallFails, ReloadObserved,
            SessionEnds, Close, Closed, Stopped, Reconnect, Steady
    <2>2. type = "ServerTransferApply"
        BY <2>1 DEF Apply, TaskTypes
    <2>3. pending'.transfer = (type = "ServerTransferApply")
        BY <2>1 DEF Apply, Accept
    <2> QED
        BY <2>2, <2>3
<1> QED
    BY <1>1, TypeCorrect, PTL DEF Spec, TransferNotDisplaced

-----------------------------------------------------------------------------
(* The configuration file and the configuration in effect *)

\* Normalising twice is normalising once.
LEMMA NormalizeTwice ==
    ASSUME NEW c, IsConfig(c)
    PROVE  Normalize(Normalize(c)) = Normalize(c)
<1>1. c.report_delay \in Nat /\ c.ip_report_period \in Nat
    BY DEF IsConfig, IsPartial, FieldValues, ConfigFields, NumberFields
<1>2. ReportDelay(ReportDelay(c.report_delay)) = ReportDelay(c.report_delay)
    BY <1>1 DEF ReportDelay
<1>3. IpReportPeriod(IpReportPeriod(c.ip_report_period))
        = IpReportPeriod(c.ip_report_period)
    BY <1>1 DEF IpReportPeriod
<1> QED
    BY <1>2, <1>3
    DEF Normalize, IsConfig, IsPartial, ConfigFields, NumberFields

\* A file with every field is its own contents.
LEMMA FullFile ==
    ASSUME NEW c, IsConfig(c)
    PROVE  FileFields(c) = c
BY DEF FileFields, Overlay, IsConfig, IsPartial

\* What load() returns differs from the file where an override is laid over
\* it, and in the uuid it generates.
LEMMA LoadedFields ==
    ASSUME NEW file, IsPartial(file), NEW uuid \in Uuids
    PROVE  /\ Normalize(LoadedWith(file, uuid)) = LoadedWith(file, uuid)
           /\ ~GeneratesUuid(file) =>
                \A f \in ConfigFields \ DOMAIN Overrides :
                    Normalize(FileFields(file))[f] = LoadedWith(file, uuid)[f]
<1> DEFINE over == Overridden(file)
           with == [over EXCEPT !.uuid = IF @ = Empty THEN uuid ELSE @]
<1>1. IsConfig(FileFields(file)) /\ IsConfig(over)
    BY DefaultConfigType, OverlayType, OverridesAssumption DEF FileFields, Overridden
<1>2. IsConfig(with)
    BY <1>1, SetUuidType
<1>3. LoadedWith(file, uuid) = Normalize(with)
    BY DEF LoadedWith
<1>4. \A f \in ConfigFields \ DOMAIN Overrides : over[f] = FileFields(file)[f]
    BY DEF Overridden, Overlay
<1>5. ~GeneratesUuid(file) => with = over
    BY <1>1 DEF GeneratesUuid, IsConfig, IsPartial, ConfigFields
<1> HIDE DEF over, with
<1>6. ASSUME NEW f \in ConfigFields, NEW c, IsConfig(c), NEW d, IsConfig(d), c[f] = d[f]
      PROVE  Normalize(c)[f] = Normalize(d)[f]
    BY <1>6 DEF Normalize, IsConfig, IsPartial, ConfigFields, NumberFields
<1>7. ASSUME ~GeneratesUuid(file), NEW f \in ConfigFields \ DOMAIN Overrides
      PROVE  Normalize(FileFields(file))[f] = Normalize(with)[f]
    BY <1>1, <1>2, <1>4, <1>5, <1>6, <1>7
<1> QED
    BY <1>2, <1>3, <1>7, NormalizeTwice

\* A configuration is no missing file.
LEMMA ConfigIsFile ==
    ASSUME NEW c, IsConfig(c)
    PROVE  c # NoFile
<1>1. DOMAIN c = {"server", "client_secret", "uuid", "report_delay", "ip_report_period",
                  "disable_command_execute", "tls", "insecure_tls"}
    BY DEF IsConfig, ConfigFields, NumberFields, FlagFields
<1>2. /\ c = [f \in DOMAIN c |-> c[f]]
      /\ c.server \in FieldValues("server") /\ c.uuid \in FieldValues("uuid")
      /\ c.client_secret \in FieldValues("client_secret")
    BY <1>1 DEF IsConfig, IsPartial
<1>3. c.report_delay \in Nat /\ c.ip_report_period \in Nat
    BY <1>1 DEF IsConfig, IsPartial, FieldValues, NumberFields
<1>4. c.disable_command_execute \in BOOLEAN /\ c.tls \in BOOLEAN /\ c.insecure_tls \in BOOLEAN
    BY <1>1 DEF IsConfig, IsPartial, FieldValues, NumberFields
<1> QED
    BY <1>1, <1>2, <1>3, <1>4, NoFileAssumption

\* Whatever a commit saves and installs is normalised.
LEMMA FromCurrentNormalized ==
    ASSUME TypeOK, NEW c, FromCurrent(c)
    PROVE  IsConfig(c) /\ Normalize(c) = c
<1>1. PICK payload \in Payloads : /\ Admissible(current, PendingType, payload)
                                  /\ c = Merged(current, payload)
    BY DEF FromCurrent
<1>2. IsConfig(current) /\ payload # Malformed
    BY <1>1 DEF TypeOK, Admissible
<1>3. IsConfig(Overlay(current, payload))
    BY <1>2, OverlayType, PayloadsAssumption
<1> QED
    BY <1>1, <1>3, NormalizeType, NormalizeTwice DEF Merged

\* The file follows the configuration in effect from step to step.
LEMMA DiskStep ==
    ASSUME Inductive, [Next]_vars
    PROVE  Normalized' /\ DiskTracksCurrent'
<1>1. PendingKnown /\ TypeOK /\ Normalized /\ DiskTracksCurrent
    BY DEF Inductive, PendingKnown
<1>2. ASSUME UNCHANGED <<disk, current, saveFailed>>,
             commit' = commit \/ (commit.step # "install" /\ commit'.step # "install"),
             Up' => Up, phase = "down" => phase' = "down"
      PROVE  Normalized' /\ DiskTracksCurrent'
    BY <1>1, <1>2 DEF Normalized, DiskTracksCurrent
<1>3. ASSUME phase' = "down" PROVE Normalized' /\ DiskTracksCurrent'
    BY <1>3 DEF Normalized, DiskTracksCurrent, Up
<1>4. CASE UNCHANGED vars
    BY <1>2, <1>4 DEF vars, Up
<1>5. CASE \E uuid \in Uuids : Load(uuid)
    <2>1. PICK uuid \in Uuids : Load(uuid)
        BY <1>5
    <2> DEFINE file == IF disk = NoFile THEN NoFields ELSE disk
    <2>2. IsPartial(file)
        BY <1>1, NoFieldsType DEF TypeOK
    <2>3. /\ current' = LoadedWith(file, uuid) /\ disk' = disk /\ commit' = commit
          /\ phase' = IF disk = NoFile \/ GeneratesUuid(file) THEN "saving" ELSE "idle"
        BY <2>1 DEF Load
    <2>4. commit.step = "none"
        BY <1>1, <2>1, NoCommitOK DEF Load, PendingKnown, NothingWhenDown,
            NothingWithoutPending, Up
    <2>5. ASSUME Up' PROVE disk # NoFile /\ file = disk /\ ~GeneratesUuid(file)
        BY <2>3, <2>5 DEF Up
    <2> HIDE DEF file
    <2>6. /\ Normalize(current') = current'
          /\ ~GeneratesUuid(file) =>
               \A f \in ConfigFields \ DOMAIN Overrides :
                   Normalize(FileFields(file))[f] = current'[f]
        BY <2>2, <2>3, LoadedFields
    <2> QED
        BY <2>3, <2>4, <2>5, <2>6 DEF Normalized, DiskTracksCurrent
<1>6. CASE LoadSave
    <2>1. /\ phase = "saving" /\ disk' = current /\ current' = current
          /\ commit' = commit
        BY <1>6 DEF LoadSave
    <2>2. commit.step = "none"
        BY <1>1, <2>1, NoCommitOK DEF PendingKnown, NothingWhenDown,
            NothingWithoutPending, Up
    <2>3. IsConfig(current) /\ Normalize(current) = current
        BY <1>1, <2>1 DEF TypeOK, Normalized
    <2>4. disk' # NoFile
        BY <2>1, <2>3, ConfigIsFile
    <2> QED
        BY <2>1, <2>2, <2>3, <2>4, FullFile DEF Normalized, DiskTracksCurrent
<1>7. CASE LoadSaveFails \/ Crash \/ Stopped
    BY <1>3, <1>7 DEF LoadSaveFails, Crash, Stopped, Forget
<1>8. CASE \E type \in TaskTypes, payload \in Payloads : Apply(type, payload)
    BY <1>2, <1>8 DEF Apply, Accept, Up
<1>9. CASE \E t \in timers : TimerFires(t)
    BY <1>2, <1>9 DEF TimerFires, Up
<1>10. CASE \E t \in timers : CommitLock(t)
    <2>1. /\ UNCHANGED <<disk, current, saveFailed, phase>>
          /\ commit = NoCommit
          /\ \E t \in timers : commit' = Commit("save", t.generation, t.config)
             \/ commit' = NoCommit
        BY <1>10 DEF CommitLock, LockFor
    <2>2. commit.step # "install" /\ commit'.step # "install"
        BY <2>1 DEF NoCommit, Commit
    <2> QED
        BY <1>2, <2>1, <2>2 DEF Up
<1>11. CASE CommitSave
    <2>1. /\ commit.step = "save" /\ disk' = commit.config
          /\ commit' = [commit EXCEPT !.step = "install"]
          /\ UNCHANGED <<phase, current>>
        BY <1>11 DEF CommitSave, Saved
    <2>2. /\ commit = Commit(commit.step, commit.generation, commit.config)
          /\ IsConfig(commit.config)
        BY <1>1, <2>1, CommitFacts
    <2>3. commit'.step = "install" /\ commit'.config = commit.config
        BY <2>1, <2>2 DEF Commit
    <2> QED
        BY <1>1, <2>1, <2>2, <2>3, ConfigIsFile DEF Normalized, DiskTracksCurrent
<1>12. CASE CommitSaveFails
    BY <1>1, <1>12 DEF CommitSaveFails, FailedSave, Normalized, DiskTracksCurrent
<1>13. CASE CommitInstall
    <2>1. /\ commit.step = "install" /\ current' = commit.config
          /\ commit' = [commit EXCEPT !.step = "notify"]
          /\ UNCHANGED <<phase, disk, saveFailed>>
        BY <1>13 DEF CommitInstall
    <2>2. /\ commit = Commit(commit.step, commit.generation, commit.config)
          /\ FromCurrent(commit.config)
        BY <1>1, <2>1, CommitFacts
    <2>3. commit'.step = "notify"
        BY <2>1, <2>2 DEF Commit
    <2>4. IsConfig(current') /\ Normalize(current') = current'
        BY <1>1, <2>1, <2>2, FromCurrentNormalized
    <2>5. Up /\ ~saveFailed => disk = current' /\ disk # NoFile
        BY <1>1, <2>1 DEF DiskTracksCurrent
    <2>6. FileFields(current') = current'
        BY <2>4, FullFile
    <2> QED
        BY <2>1, <2>3, <2>4, <2>5, <2>6 DEF Normalized, DiskTracksCurrent, Up
<1>14. CASE CommitNotify
    <2>1. /\ UNCHANGED <<disk, current, saveFailed, phase>>
          /\ commit.step = "notify" /\ commit' = NoCommit
        BY <1>14 DEF CommitNotify, Release
    <2> QED
        BY <1>2, <2>1, NoCommitOK DEF Up
<1>15. CASE \/ ReadConfig \/ Subscribe \/ Connect \/ ConnectFails
            \/ StartCall \/ CallReturns \/ CallFails
            \/ ReloadObserved \/ SessionEnds \/ Closed \/ Reconnect
    <2>1. Steady /\ Up
        BY <1>15 DEF Up, ReadConfig, Subscribe, Connect, ConnectFails,
            StartCall, CallReturns, CallFails, ReloadObserved, SessionEnds,
            Closed, Reconnect, Close
    <2> QED
        BY <1>2, <2>1 DEF Steady, Up
<1> QED
    BY <1>4, <1>5, <1>6, <1>7, <1>8, <1>9, <1>10, <1>11, <1>12, <1>13, <1>14, <1>15
    DEF Next

\* The whole invariant, with what makes the file agree with the process.
THEOREM ReloadInvariant == Spec => []Inductive
<1>1. Init => Inductive
    BY InitPendingKnown DEF Init, Inductive, Normalized, DiskTracksCurrent, Up
<1>2. Inductive /\ [Next]_vars => Inductive'
    BY NextPendingKnown, DiskStep DEF Inductive
<1> QED
    BY <1>1, <1>2, PTL DEF Spec

\* A restart would read back what is in effect, except after a save that
\* failed: commit saves before it installs, and holds its lock in between
\* (runtime.rs 139-150).
THEOREM DiskAgrees == Spec => []DiskTracksCurrent
<1>1. Inductive => DiskTracksCurrent
    BY DEF Inductive
<1> QED
    BY <1>1, ReloadInvariant, PTL

-----------------------------------------------------------------------------
(* Refinement *)

\* The register's rules are the agent's.
LEMMA SameRules ==
    /\ \A c : IsConfig(c) => Register!IsConfig(c)
    /\ \A base, p : Register!Merged(base, p) = Merged(base, p)
    /\ \A base, type, p :
          Admissible(base, type, p) => Register!Admissible(base, type, p)
    /\ Register!TaskTypes = TaskTypes
<1>1. /\ Register!ConfigFields = ConfigFields
      /\ \A f : Register!FieldValues(f) = FieldValues(f)
    BY DEF ConfigFields, Register!ConfigFields, FieldValues, Register!FieldValues,
        NumberFields, Register!NumberFields, FlagFields, Register!FlagFields
<1>2. \A c : IsConfig(c) => Register!IsConfig(c)
    BY <1>1 DEF IsConfig, Register!IsConfig, IsPartial, Register!IsPartial
<1>3. \A base, p : Register!Overlay(base, p) = Overlay(base, p)
    BY <1>1 DEF Overlay, Register!Overlay
<1>4. \A c : Register!Normalize(c) = Normalize(c)
    BY DEF Normalize, Register!Normalize, ReportDelay, Register!ReportDelay,
        IpReportPeriod, Register!IpReportPeriod
<1>5. \A base, p : Register!Merged(base, p) = Merged(base, p)
    BY <1>3, <1>4 DEF Merged, Register!Merged
<1>6. \A c : Register!Valid(c, TRUE) <=> Valid(c, TRUE)
    BY <1>4 DEF Valid, Register!Valid
<1>7. \A base, type, p :
          Admissible(base, type, p) => Register!Admissible(base, type, p)
    BY <1>3, <1>5, <1>6 DEF Admissible, Register!Admissible
<1> QED
    BY <1>2, <1>5, <1>7 DEF TaskTypes, Register!TaskTypes

\* The agent's first state is one of the register's.
LEMMA RegisterInit == Init => Register!Init
BY DefaultConfigType, SameRules DEF Init, Register!Init, Up

\* Every step of the agent is a step of the register or leaves it alone: a
\* commit applies its change to the value of that moment.
LEMMA RegisterStep ==
    PendingKnown /\ PendingKnown' /\ [Next]_vars => [Register!Next]_<<Up, current>>
<1> SUFFICES ASSUME PendingKnown, PendingKnown', [Next]_vars
             PROVE  [Register!Next]_<<Up, current>>
    OBVIOUS
<1>1. IsConfig(current') /\ Up \in BOOLEAN /\ Up' \in BOOLEAN
    BY DEF PendingKnown, TypeOK, Up
<1>2. CASE ~Up
    BY <1>1, <1>2, SameRules DEF Register!Next, Register!Start
<1>3. CASE Up /\ current' = current
    <2>1. CASE Up'
        BY <1>3, <2>1, <1>1
    <2>2. CASE ~Up'
        BY <1>3, <1>1, <2>2 DEF Register!Next, Register!Stop
    <2> QED
        BY <2>1, <2>2
<1>4. CASE Up /\ current' # current
    <2>1. Next
        BY <1>4 DEF vars
    <2>2. CommitInstall /\ FromCurrent(current')
        BY <1>4, <2>1, CurrentChanges
    <2>3. Up'
        BY <1>4, <2>2 DEF CommitInstall, Up
    <2>4. PICK payload \in Payloads :
              /\ Admissible(current, PendingType, payload)
              /\ current' = Merged(current, payload)
        BY <2>2 DEF FromCurrent
    <2>5. PendingType \in TaskTypes
        BY DEF PendingType, TaskTypes
    <2> QED
        BY <1>4, <2>3, <2>4, <2>5, SameRules DEF Register!Next, Register!Change
<1> QED
    BY <1>2, <1>3, <1>4

\* Remote configuration implements an atomic register.
THEOREM ImplementsRegister == Spec => IsRegister
BY RegisterInit, RegisterStep, PendingInvariant, PTL
   DEF Spec, IsRegister, Register!Spec
=============================================================================
