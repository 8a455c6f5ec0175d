----------------------------- MODULE FileReads ------------------------------
(***************************************************************************)
(* list and read of the MCP file system (src/mcp_fs.rs), while others      *)
(* replace, change and remove what is listed and read.                     *)
(*                                                                         *)
(* Neither takes a lock.  They open the directory or the file once, and    *)
(* then use the handle: a rename gives the name to another object, and the *)
(* handle stays with the one it opened.  A read returns a part of a file;  *)
(* the dashboard asks for the next one as long as it is told of more.      *)
(***************************************************************************)
EXTENDS Integers, FiniteSets

CONSTANTS
    Items,    \* names in the directory
    Hidden,   \* those that begin with a dot
    MaxList,  \* entries in an answer (5000)
    MaxPart,  \* units a read returns at most (1 MiB)
    MaxFile   \* bound: units in a file

\* TaskRun assumes it.
FileReadsAssumption ==
    /\ IsFiniteSet(Items) /\ Hidden \subseteq Items
    /\ MaxList \in Nat /\ MaxPart \in Nat \ {0} /\ MaxFile \in Nat

Objects == {"first", "second"}  \* what the name stands for, in turn

VARIABLES
    asked,     \* "list" or "read"
    seeking,   \* what the operation does next
    named,     \* the object the path leads to, "link" or "nothing"
    handle,    \* the object it has opened, or "nothing"
    length,    \* units in each file
    offset,    \* where the read begins
    total,     \* the size it took from the handle; the entries it counted
    parts,     \* units the dashboard has, by the file they are from
    more,      \* the answer's truncated
    touched,   \* history: a file was changed in place
    present,   \* the names in each directory
    unread,    \* names of the directory opened that are yet to be returned
    steady,    \* history: the names that were in it all along
    listed     \* the entries of the answer, with the directory they are from

vars == <<asked, seeking, named, handle, length, offset, total, parts, more,
          touched, present, unread, steady, listed>>

fileVars == <<length, offset, parts, touched>>
listVars == <<present, unread, steady, listed>>

TypeOK ==
    /\ asked \in {"list", "read"}
    /\ seeking \in {"open", "size", "data", "items", "done", "error"}
    /\ named \in Objects \cup {"link", "nothing"} /\ handle \in Objects \cup {"nothing"}
    /\ length \in [Objects -> 0 .. MaxFile] /\ offset \in 0 .. MaxFile
    /\ total \in Nat /\ parts \subseteq Objects \X (1 .. MaxFile)
    /\ more \in BOOLEAN /\ touched \in BOOLEAN
    /\ present \in [Objects -> SUBSET Items]
    /\ unread \subseteq Items /\ steady \subseteq Items
    /\ listed \subseteq Objects \X Items

Init ==
    /\ asked \in {"list", "read"} /\ seeking = "open"
    /\ named = "first" /\ handle = "nothing"
    /\ length \in [Objects -> 0 .. MaxFile] /\ (asked = "list" => length["first"] = 0)
    /\ length["second"] \in {0, MaxFile} /\ (asked = "list" => length["second"] = 0)
    /\ offset = 0 /\ total = 0 /\ parts = {} /\ more = FALSE /\ touched = FALSE
    /\ present = [o \in Objects |-> IF asked = "list" THEN Items ELSE {}]
    /\ unread = {} /\ steady = {} /\ listed = {}

-----------------------------------------------------------------------------
(* Others *)

OperationKept == UNCHANGED <<asked, seeking, handle, offset, total, parts, more, listed>>

\* A write of the agent, or a rename: the name leads to something else.
Replaces ==
    /\ named = "first" /\ named' \in {"second", "link", "nothing"}
    /\ OperationKept /\ UNCHANGED <<length, touched, present, unread, steady>>

\* The old file manager or another program changes a file in place.
Touches(o) ==
    /\ asked = "read" /\ ~touched /\ touched' = TRUE
    /\ \E n \in 0 .. MaxFile : length' = [length EXCEPT ![o] = n]
    /\ OperationKept /\ UNCHANGED <<named, listVars>>

\* Names come and go; what comes while a directory is read may be returned.
Removes(o, i) ==
    /\ asked = "list" /\ i \in present[o]
    /\ present' = [present EXCEPT ![o] = @ \ {i}]
    /\ IF o = handle
       THEN steady' = steady \ {i} /\ (unread' = unread \/ unread' = unread \ {i})
       ELSE UNCHANGED <<unread, steady>>
    /\ OperationKept /\ UNCHANGED <<named, length, touched>>

Others == Replaces \/ \E o \in Objects : Touches(o) \/ \E i \in Items : Removes(o, i)

-----------------------------------------------------------------------------
(* Both *)

Goes(s) == seeking' = s /\ UNCHANGED <<asked, named>>

\* A link is refused, wherever it is on the path; so is what is no directory,
\* or no regular file.
Open ==
    /\ seeking = "open" /\ named \in Objects
    /\ handle' = named
    /\ IF asked = "list"
       THEN Goes("items") /\ unread' = present[named] /\ steady' = present[named]
       ELSE Goes("size") /\ UNCHANGED <<unread, steady>>
    /\ UNCHANGED <<fileVars, total, more, present, listed>>

\* Not found, refused, or an error of the disk; a listing keeps what it has.
Fails ==
    /\ seeking \notin {"done", "error"} /\ Goes("error")
    /\ UNCHANGED <<fileVars, handle, total, more, listVars>>

-----------------------------------------------------------------------------
(* read *)

\* The size is the handle's.
Size == seeking = "size" /\ total' = length[handle]

Sizes ==
    /\ Size /\ Goes("data")
    /\ UNCHANGED <<fileVars, handle, more, listVars>>

AtMost(n, limit) == IF n < limit THEN n ELSE limit

\* One part, as long as was asked for, or as the agent allows; there is more
\* when it ends before the size that was taken.
Part(wanted) ==
    /\ seeking = "data" /\ Goes("done")
    /\ LET rest == IF length[handle] > offset THEN length[handle] - offset ELSE 0
           count == AtMost(rest, AtMost(wanted, MaxPart))
       IN  /\ parts' = parts \cup ({handle} \X (offset + 1 .. offset + count))
           /\ more' = (offset + count < total)
           /\ offset' = offset + count
    /\ UNCHANGED <<handle, length, total, touched, listVars>>

\* The dashboard asks for the part after the one it has.
NextPart ==
    /\ asked = "read" /\ seeking = "done" /\ more
    /\ Goes("open") /\ handle' = "nothing" /\ total' = 0 /\ more' = FALSE
    /\ UNCHANGED <<fileVars, listVars>>

-----------------------------------------------------------------------------
(* list *)

Visible(i) == i \notin Hidden

\* Entries beyond the limit are counted and left out; so are, without being
\* told, those that are gone when they are looked at.  entry looks at the
\* name through the handle.
ListIn(from, i) ==
    /\ seeking = "items" /\ i \in unread
    /\ unread' = unread \ {i}
    /\ IF ~Visible(i) THEN UNCHANGED <<total, more, listed>>
       ELSE /\ total' = total + 1
            /\ IF Cardinality(listed) >= MaxList
               THEN more' = TRUE /\ UNCHANGED listed
               ELSE /\ UNCHANGED more
                    /\ listed' = IF i \in present[from] THEN listed \cup {<<from, i>>}
                                 ELSE listed
    /\ Goes("items") /\ UNCHANGED <<fileVars, handle, present, steady>>

ItemByName(i) == named \in Objects /\ ListIn(named, i)

Item(i) == ListIn(handle, i)

ListEnds ==
    /\ seeking = "items" /\ unread = {} /\ Goes("done")
    /\ UNCHANGED <<fileVars, handle, total, more, listVars>>

Operation ==
    \/ Open \/ Fails \/ Sizes \/ (\E wanted \in 1 .. MaxFile : Part(wanted)) \/ NextPart
    \/ (\E i \in Items : Item(i)) \/ ListEnds

Next == Others \/ Operation

Spec == Init /\ [][Next]_vars

-----------------------------------------------------------------------------
(* Properties *)

\* When the dashboard is told of no more, the parts it has are a file: all of
\* them of one object unless the name changed hands, and then still without a
\* gap; as long as nothing was changed in place (lines 535 to 565).
ReadTrue ==
    asked = "read" /\ seeking = "done" /\ ~touched =>
        /\ ~more => \A k \in 1 .. length[handle] : \E o \in Objects : <<o, k>> \in parts
        /\ named = "first" /\ ~more => parts = {"first"} \X (1 .. length["first"])
        /\ more => offset < length[handle]

\* A listing is that of the directory that was opened.  It counts every name
\* that was there all along; it has each of them unless it says that it is
\* cut short, and then it is full (lines 331 to 350).
ListTrue ==
    LET kept == {i \in steady : Visible(i)}
    IN  asked = "list" =>
            /\ \A e \in listed : e[1] = handle /\ Visible(e[2])
            /\ Cardinality(listed) <= total /\ (more => Cardinality(listed) = MaxList)
            /\ seeking = "done" =>
                  /\ total >= Cardinality(kept)
                  /\ more \/ ({handle} \X kept) \subseteq listed

ReadsTrue == TypeOK /\ ReadTrue /\ ListTrue
=============================================================================
