------------------------------- MODULE Probes -------------------------------
(***************************************************************************)
(* A probe of a host for the dashboard (src/tasks.rs): an HTTP request, a  *)
(* TCP connection, or five ICMP echo requests (platform/linux/ping.rs),    *)
(* after the name was resolved (platform/linux/network.rs).                *)
(*                                                                         *)
(* now counts the seconds since the request was begun.  The agent is fast: *)
(* no second passes while it has something to do.                          *)
(***************************************************************************)
EXTENDS Naturals, FiniteSets

CONSTANTS
    Count,     \* echo requests, one a second (5)
    Deadline,  \* seconds for all of them, and for each (20)
    Limit      \* Limit[kind]: seconds for a connection (10) or a request (30)

\* TaskRun assumes it.
ProbesAssumption ==
    /\ Count \in Nat \ {0} /\ Deadline \in Nat \ {0}
    /\ Limit \in [{"http", "tcp"} -> Nat \ {0}]

Numbers == 1 .. Count

VARIABLES
    kind,      \* "http", "tcp" or "icmp"
    host,      \* "literal", "name" or "bad": the address, or its syntax
    servers,   \* "valid" or "invalid": the configured DNS servers
    step,      \* what the task does
    now,       \* seconds since the request was begun
    response,  \* the HTTP status: "none", "good" (200 to 399) or "other"
    sent,      \* echo requests sent
    answered,  \* answered[n]: the second of the reply to the n-th, or None
    pending,   \* echo requests whose tasks have not been joined
    received,  \* replies that were counted
    outcome    \* "none", "refused", "success", "failure" or "cancelled"

given == <<kind, host, servers>>
echoes == <<sent, answered, pending, received>>
vars == <<given, step, now, response, echoes, outcome>>

None == Deadline + 1
Failed == Deadline + 2

TypeOK ==
    /\ kind \in {"http", "tcp", "icmp"}
    /\ host \in {"literal", "name", "bad"} /\ servers \in {"valid", "invalid"}
    /\ step \in {"idle", "resolve", "connect", "request", "body", "echo", "over"}
    /\ now \in Nat /\ response \in {"none", "good", "other"}
    /\ sent \in 0 .. Count /\ answered \in [Numbers -> 0 .. Failed]
    /\ pending \in SUBSET Numbers /\ received \in 0 .. Count
    /\ outcome \in {"none", "refused", "success", "failure", "cancelled"}

Init ==
    /\ kind \in {"http", "tcp", "icmp"}
    /\ host \in {"literal", "name", "bad"} /\ servers \in {"valid", "invalid"}
    /\ step = "idle" /\ now = 0 /\ response = "none"
    /\ sent = 0 /\ answered = [n \in Numbers |-> None]
    /\ pending = {} /\ received = 0 /\ outcome = "none"

-----------------------------------------------------------------------------

Goes(s) == step' = s /\ UNCHANGED <<given, outcome>>
Over(o) == step' = "over" /\ outcome' = o /\ UNCHANGED given
Idle == UNCHANGED <<now, response, echoes>>

Refuse == step = "idle" /\ Over("refused") /\ Idle

\* A scheme that is not http's, a host and a port that cannot be told apart.
Malformed == host = "bad"

\* http makes a resolver in any case.
Start ==
    /\ step = "idle"
    /\ CASE Malformed -> Over("failure")
         [] ~Malformed /\ kind = "http" ->
                IF servers = "valid" THEN Goes("request") ELSE Over("failure")
         [] OTHER -> Goes("resolve")
    /\ Idle

Begin == Goes(IF kind = "tcp" THEN "connect" ELSE "echo")

\* An address needs no servers, a name takes the first address they tell.
Resolve ==
    /\ step = "resolve"
    /\ IF host = "literal" THEN Begin
       ELSE Over("failure") \/ (servers = "valid" /\ Begin)
    /\ Idle

Connect ==
    /\ step = "connect" /\ now < Limit["tcp"]
    /\ Over("success") \/ Over("failure")
    /\ Idle

\* Redirects are not followed.
Respond ==
    /\ step = "request" /\ now < Limit["http"]
    /\ \/ response' \in {"good", "other"} /\ Goes("body")
       \/ response' = "none" /\ Over("failure")
    /\ UNCHANGED <<now, echoes>>

\* The body is read to its end, and dropped; the status comes after that.
ReadBody ==
    /\ step = "body" /\ now < Limit["http"]
    /\ Over(IF response = "good" THEN "success" ELSE "failure") \/ Over("failure")
    /\ Idle

TimeOut ==
    /\ \/ kind = "http" /\ step \in {"request", "body"} /\ now = Limit["http"]
       \/ kind = "tcp" /\ step = "connect" /\ now = Limit["tcp"]
    /\ Over("failure") /\ Idle

-----------------------------------------------------------------------------
(* ICMP: a biased select over the deadline, the requests and the interval *)

Echoing == step = "echo" /\ now < Deadline

\* The n-th tick of the interval is due in second n - 1.
Send ==
    /\ Echoing /\ sent < Count /\ sent <= now
    /\ sent' = sent + 1 /\ pending' = pending \cup {sent + 1}
    /\ Goes("echo") /\ UNCHANGED <<now, response, answered, received>>

\* A request is answered, cannot be sent, or is lost.
Reply(n) ==
    /\ step = "echo" /\ n <= sent /\ answered[n] = None
    /\ \E at \in {now, Failed} : answered' = [answered EXCEPT ![n] = at]
    /\ Goes("echo") /\ UNCHANGED <<now, response, sent, pending, received>>

Count1(n) == IF answered[n] # Failed THEN received + 1 ELSE received

JoinUntil(n, all) ==
    /\ Echoing /\ n \in pending /\ answered[n] # None
    /\ pending' = pending \ {n} /\ received' = Count1(n)
    /\ IF Count1(n) = all /\ answered[n] # Failed THEN Over("success") ELSE Goes("echo")
    /\ UNCHANGED <<now, response, sent, answered>>

JoinOfSent(n) == JoinUntil(n, sent)

Join(n) == JoinUntil(n, Count)

\* What was not joined by now is aborted.
Expire ==
    /\ step = "echo" /\ now = Deadline
    /\ Over(IF received > 0 THEN "success" ELSE "failure") /\ Idle

Busy == (sent < Count /\ sent <= now) \/ \E n \in pending : answered[n] # None

Tick ==
    /\ \/ step = "echo" /\ now < Deadline /\ ~Busy
       \/ step = "connect" /\ now < Limit["tcp"]
       \/ step \in {"request", "body"} /\ now < Limit["http"]
    /\ now' = now + 1
    /\ UNCHANGED <<given, step, response, echoes, outcome>>

Cancel == step \notin {"idle", "over"} /\ Over("cancelled") /\ Idle

Next ==
    \/ Refuse \/ Start \/ Resolve \/ Connect \/ Respond \/ ReadBody \/ TimeOut
    \/ Send \/ (\E n \in Numbers : Reply(n) \/ Join(n)) \/ Expire
    \/ Tick \/ Cancel

-----------------------------------------------------------------------------
(* Properties *)

\* A ping that ends before its deadline has counted a reply to each request;
\* one that waits for it has counted each reply that came before, in whatever
\* order they came, and fails only when there was none (ping.rs 9 to 52).
PingTrue ==
    /\ TypeOK
    /\ kind = "icmp" /\ outcome \in {"success", "failure"} /\ sent > 0 =>
          /\ now < Deadline => \A n \in Numbers : answered[n] <= now
          /\ received >= Cardinality({n \in Numbers : answered[n] < now})
          /\ outcome = "failure" => \A n \in Numbers : answered[n] >= Deadline
=============================================================================
