---------------------------- MODULE CountryReport ----------------------------
(***************************************************************************)
(* The agent's addresses (src/geoip.rs) as a session reports them: the     *)
(* branches of its loop for the lookup, its result and the host report     *)
(* (src/main.rs), and the dashboard, which may be restarted.               *)
(***************************************************************************)
EXTENDS Naturals

CONSTANTS
    Addresses,    \* addresses of the agent, per family
    NoAddress,
    UseV6,        \* use_ipv6_country_code
    MaxFailures,  \* lookups that may fail before the fallback is reported (3)
    MaxBoots      \* bound: boots of the dashboard

\* SessionReport assumes it.
CountryReportAssumption ==
    /\ NoAddress \notin Addresses /\ UseV6 \in BOOLEAN
    /\ MaxFailures \in Nat /\ MaxBoots \in Nat \ {0}

Reports == [v4: Addresses \cup {NoAddress}, v6: Addresses \cup {NoAddress}]
Fallback == [v4 |-> NoAddress, v6 |-> NoAddress]
Nothing == "nothing"

VARIABLES
    address,   \* the addresses the lookup servers see
    job,       \* the lookup: "none", "runs" or "done"
    result,    \* what it found, Fallback if that is nothing
    due,       \* when the next one is: "now", "soon" (3 s) or "later"
    failures,  \* geoip_failures
    reported,  \* geoip_reported
    last,      \* last_geoip_query
    known,     \* dashboard_boot_time, 0 between sessions
    boot,      \* the dashboard's boot
    told,      \* what this boot of it was told last
    late,      \* reports that timed out and that it may still get
    astray     \* history: it was told that without a receipt

agent == <<job, result, due, failures, reported, last, known>>
dashboard == <<boot, told, late, astray>>
vars == <<address, agent, dashboard>>

\* The address that the dashboard looks up.
QueryIp(r) ==
    IF r.v6 # NoAddress /\ (UseV6 \/ r.v4 = NoAddress) THEN r.v6 ELSE r.v4

Queries == Addresses \cup {NoAddress}

TypeOK ==
    /\ address \in Reports
    /\ job \in {"none", "runs", "done"} /\ result \in Reports
    /\ due \in {"now", "soon", "later"}
    /\ failures \in 0 .. MaxFailures
    /\ reported \in BOOLEAN /\ last \in Queries \cup {Nothing}
    /\ known \in 0 .. MaxBoots /\ boot \in 1 .. MaxBoots
    /\ told \in Queries \cup {Nothing} /\ late \in SUBSET Queries
    /\ astray \in BOOLEAN

NewSession ==
    /\ job' = "none" /\ result' = Fallback /\ due' = "now" /\ failures' = 0
    /\ reported' = FALSE /\ last' = Nothing

Init ==
    /\ address \in Reports
    /\ job = "none" /\ result = Fallback /\ due = "now" /\ failures = 0
    /\ reported = FALSE /\ last = Nothing /\ known = 0
    /\ boot = 1 /\ told = Nothing /\ late = {} /\ astray = FALSE

-----------------------------------------------------------------------------
(* The session *)

\* It begins with a host report.
Open == known = 0 /\ NewSession /\ known' = boot /\ UNCHANGED <<address, dashboard>>

\* The branch is enabled while no lookup runs.
StartLookup ==
    /\ job = "none" /\ job' = "runs"
    /\ UNCHANGED <<address, result, due, failures, reported, last, known, dashboard>>

\* Each family is asked for on its own, of one server after the other, and
\* may not be had.
Lookup ==
    /\ job = "runs" /\ job' = "done"
    /\ \E got \in SUBSET {"v4", "v6"} :
          result' = [v4 |-> IF "v4" \in got THEN address.v4 ELSE NoAddress,
                     v6 |-> IF "v6" \in got THEN address.v6 ELSE NoAddress]
    /\ UNCHANGED <<address, due, failures, reported, last, known, dashboard>>

Fetched == job = "done" /\ job' = "none" /\ result' = Fallback

Retry ==
    /\ Fetched /\ result = Fallback /\ failures < MaxFailures
    /\ failures' = failures + 1 /\ due' = "soon"
    /\ UNCHANGED <<address, reported, last, known, dashboard>>

\* After the last failure the dashboard is to take the connection's address.
ToReport(query) ==
    /\ Fetched /\ (result = Fallback => failures = MaxFailures)
    /\ failures' = 0 /\ query = QueryIp(result)

Unchanged(query) == reported /\ last = query

Skip ==
    /\ \E query \in Queries : ToReport(query) /\ Unchanged(query)
    /\ due' = "later"
    /\ UNCHANGED <<address, reported, last, known, dashboard>>

Told(query, receipt) == told' = query /\ astray' = ~receipt /\ UNCHANGED boot

\* The loop waits for the receipt, ten seconds at the most.
Report ==
    /\ \E query \in Queries :
          /\ ToReport(query) /\ ~Unchanged(query)
          /\ Told(query, TRUE) /\ reported' = TRUE /\ last' = query
    /\ known' = boot /\ due' = "later"
    /\ UNCHANGED <<address, late>>

\* The report was lost, or its receipt, or it is still on its way.
ReportFails ==
    /\ \E query \in Queries :
          /\ ToReport(query) /\ ~Unchanged(query)
          /\ \/ UNCHANGED dashboard
             \/ Told(query, FALSE) /\ UNCHANGED late
             \/ late' = late \cup {query} /\ UNCHANGED <<boot, told, astray>>
    /\ due' = "soon"
    /\ UNCHANGED <<address, reported, last, known>>

HostReport(forget) ==
    /\ known # boot /\ known' = boot
    /\ reported' = (IF forget THEN FALSE ELSE reported) /\ due' = "now"
    /\ UNCHANGED <<address, job, result, failures, last, dashboard>>

ReportHostOnly == HostReport(FALSE)

\* Every ten minutes; the boot time tells whether the dashboard was restarted.
ReportHost == HostReport(TRUE)

Session ==
    \/ StartLookup \/ Lookup \/ Retry \/ Skip \/ Report \/ ReportFails
    \/ ReportHost

\* The lookup is aborted with its session.
Close == NewSession /\ known' = 0 /\ UNCHANGED <<address, dashboard>>

-----------------------------------------------------------------------------
(* Around it *)

Move ==
    /\ address' \in Reports
    /\ UNCHANGED <<agent, dashboard>>

Boot ==
    /\ boot < MaxBoots /\ boot' = boot + 1
    /\ told' = Nothing /\ late' = {} /\ astray' = FALSE
    /\ UNCHANGED <<address, agent>>

Late(query) ==
    /\ query \in late /\ late' = late \ {query}
    /\ told' = query /\ astray' = TRUE
    /\ UNCHANGED <<address, agent, boot>>

Next ==
    \/ Open \/ Move \/ Boot \/ \E query \in Queries : Late(query)
    \/ known # 0 /\ Session
    \/ known # 0 /\ Close

Spec == Init /\ [][Next]_vars

-----------------------------------------------------------------------------
(* Properties *)

\* What the session takes the dashboard to know it knows, once the session has
\* heard from it since it was started, and the session never waits a whole
\* period before it has reported anything.  Excepted is an address that the
\* dashboard got without the agent getting the receipt: last still names the
\* one before (line 300), and is not reported when it returns (main.rs 262 to
\* 336).
Known ==
    /\ TypeOK
    /\ (reported /\ known = boot /\ ~astray) => told = last
    /\ due = "later" => reported
=============================================================================
