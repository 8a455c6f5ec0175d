------------------------------ MODULE Updates -------------------------------
(***************************************************************************)
(* The self-update (src/updater.rs) as the start-up of the agent, its      *)
(* periodic task and the tasks of a session call it.  The checks are one   *)
(* after the other, by a lock that a cancelled check gives up although the *)
(* thread that replaces the executable goes on.                            *)
(*                                                                         *)
(* The configuration and what a source offers may change at any moment, so *)
(* that each reading of them is a choice.                                  *)
(***************************************************************************)
EXTENDS Naturals

CONSTANTS
    Forced,     \* checks that the dashboard may ask for
    MaxVersion  \* bound: versions of the agent

Nobody == "nobody"

ASSUME UpdatesAssumption ==
    MaxVersion \in Nat \ {0} /\ Forced \cap {"startup", "periodic", Nobody} = {}

Checks == {"startup", "periodic"} \cup Forced
Versions == 1 .. MaxVersion
Steps == {"idle", "lock", "manifest", "download", "verify", "replace", "exit"}

VARIABLES
    running,    \* the version that runs, 0 when none does
    installed,  \* the version of the executable
    step,       \* step[c]: what check c does
    version,    \* version[c]: the version that it goes about to install
    lock,       \* UPDATE_LOCK
    detached    \* versions that threads of cancelled checks install

vars == <<running, installed, step, version, lock, detached>>

TypeOK ==
    /\ running \in Versions \cup {0} /\ installed \in Versions
    /\ step \in [Checks -> Steps]
    /\ version \in [Checks -> Versions \cup {0}]
    /\ lock \in Checks \cup {Nobody}
    /\ detached \in SUBSET Versions

Init ==
    /\ running = 1 /\ installed = 1
    /\ step = [c \in Checks |-> "idle"] /\ version = [c \in Checks |-> 0]
    /\ lock = Nobody /\ detached = {}

-----------------------------------------------------------------------------

At(c, s) == step[c] = s
To(c, s) == step' = [step EXCEPT ![c] = s]
ProgramKept == UNCHANGED <<running, installed, detached>>

\* The sources that are configured, the mirror before the main one.
Source(configured) ==
    IF "mirror" \in configured THEN "mirror"
    ELSE IF "main" \in configured THEN "main" ELSE "none"

\* The start-up and the periodic check look for the main source before they
\* call; the mirror goes before it in the check itself.
Allowed(c, configured) ==
    IF c \in Forced THEN "force" \in configured /\ Source(configured) # "none"
    ELSE {"auto", "main"} \subseteq configured

\* The configuration is the one of this moment, whenever the lock comes.
Begin(c) ==
    /\ At(c, "idle")
    /\ \E configured \in SUBSET {"auto", "force", "main", "mirror"} : Allowed(c, configured)
    /\ To(c, "lock")
    /\ ProgramKept /\ UNCHANGED <<version, lock>>

LockUnheld(c) ==
    /\ At(c, "lock") /\ To(c, "manifest")
    /\ ProgramKept /\ UNCHANGED <<version, lock>>

Lock(c) ==
    /\ At(c, "lock") /\ lock = Nobody
    /\ lock' = c /\ To(c, "manifest")
    /\ ProgramKept /\ UNCHANGED version

Leave(c) ==
    /\ To(c, "idle") /\ version' = [version EXCEPT ![c] = 0]
    /\ lock' = IF lock = c THEN Nobody ELSE lock

\* A forced check may install the same version again, and an older one; not
\* 0.1.0, which is none of Versions.
Manifest(c) ==
    /\ At(c, "manifest")
    /\ \E v \in Versions :
          IF v <= running /\ c \notin Forced THEN Leave(c)
          ELSE /\ version' = [version EXCEPT ![c] = v]
               /\ To(c, "download") /\ UNCHANGED lock
    /\ ProgramKept

\* The file is flushed, its size, its hash and what it says of its version are
\* checked.
Download(c) ==
    /\ At(c, "download") /\ To(c, "verify")
    /\ ProgramKept /\ UNCHANGED <<version, lock>>

Verify(c) ==
    /\ At(c, "verify") /\ To(c, "replace")
    /\ ProgramKept /\ UNCHANGED <<version, lock>>

\* Any of these may fail, and so may the replacement.
Fails(c) ==
    /\ step[c] \in {"manifest", "download", "verify", "replace"}
    /\ Leave(c) /\ ProgramKept

\* The rename of self_replace, on a thread for blocking calls.
Replace(c) ==
    /\ At(c, "replace") /\ To(c, "exit")
    /\ installed' = version[c]
    /\ UNCHANGED <<running, version, lock, detached>>

Ends ==
    /\ running' = 0 /\ step' = [c \in Checks |-> "idle"]
    /\ version' = [c \in Checks |-> 0]
    /\ lock' = Nobody /\ detached' = {} /\ UNCHANGED installed

\* process::exit(1), whatever other threads do.
Exit(c) == At(c, "exit") /\ Ends

\* The task of a forced check goes with its session, and the lock with it; the
\* thread that has begun to replace the executable goes on.
Cancel(c) ==
    /\ ~At(c, "idle") /\ Leave(c)
    /\ detached' = IF At(c, "replace") THEN detached \cup {version[c]} ELSE detached
    /\ UNCHANGED <<running, installed>>

\* The staging directory may be gone before the file was copied.
Detached(v) ==
    /\ v \in detached /\ detached' = detached \ {v}
    /\ installed' \in {installed, v}
    /\ UNCHANGED <<running, step, version, lock>>

\* The service manager starts what is installed.
Restart ==
    /\ running = 0 /\ running' = installed
    /\ UNCHANGED <<installed, step, version, lock, detached>>

Check(c) ==
    \/ Lock(c) \/ Manifest(c) \/ Download(c) \/ Verify(c) \/ Fails(c)
    \/ Replace(c) \/ Exit(c)
=============================================================================
