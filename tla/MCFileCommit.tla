---------------------------- MODULE MCFileCommit ----------------------------
(***************************************************************************)
(* Small instances of FileCommit for TLC.                                  *)
(***************************************************************************)
EXTENDS FileCommit, TLC

CONSTANTS write, writeBack, upload, delete, tree,  \* operations
          a, b,                                    \* targets
          old, other, link                         \* inodes

\* write and upload both expect "v0"; writeBack restores it.
MCKind(o) ==
    CASE o \in {write, writeBack} -> "write"
      [] o = upload -> "upload"
      [] o = delete -> "delete"
      [] o = tree -> "deleteTree"

MCKinds == [o \in Ops |-> MCKind(o)]
MCTarget == [o \in Ops |-> IF o \in {delete, tree} /\ b \in Targets THEN b ELSE a]
MCNewData ==
    [o \in Ops |-> CASE o = write -> "v1" [] o = upload -> "v2" [] OTHER -> "v0"]
MCExpected ==
    [o \in Ops |-> IF o \in {write, upload} THEN "v0" ELSE AnyContent]

\* All the targets share a lock, as names with equal hashes do.
MCStripe == [t \in Targets |-> 1]

MCForeignData ==
    [i \in Foreign |-> CASE i = old -> "v0" [] i = link -> NotRegular [] OTHER -> "v3"]

MCInitial == [t \in Targets |-> old]
=============================================================================
