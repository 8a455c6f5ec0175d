---------------------------- MODULE AgentConfig ----------------------------
(***************************************************************************)
(* The agent's configuration record and the pure rules of                  *)
(* src/config.rs and src/runtime.rs: overlaying fields, normalising and    *)
(* validating a record, loading the file, and deciding whether a remote    *)
(* change is admissible.                                                   *)
(*                                                                         *)
(* Only the fields some rule looks at are kept.  Strings are members of    *)
(* small sets, told apart only by what the rules tell apart.               *)
(***************************************************************************)
EXTENDS Integers

CONSTANTS
    Servers,      \* non-empty values of "server"
    Secrets,      \* secrets of exactly 32 alphanumeric bytes
    WeakSecrets,  \* other non-empty secrets
    Uuids,        \* strings Uuid::parse_str accepts
    Garbage,      \* a non-empty string it does not accept
    Empty,        \* the empty string
    Payloads,     \* task payloads the dashboard may send
    Malformed,    \* a payload that is no JSON object of the right field types
    Overrides     \* the fields the NZ_ environment and the command line set

NumberFields == {"report_delay", "ip_report_period"}
FlagFields == {"disable_command_execute", "tls", "insecure_tls"}
ConfigFields == {"server", "client_secret", "uuid"} \cup NumberFields \cup FlagFields

FieldValues(f) ==
    IF f = "server" THEN Servers \cup {Empty}
    ELSE IF f = "client_secret" THEN Secrets \cup WeakSecrets \cup {Empty}
    ELSE IF f = "uuid" THEN Uuids \cup {Garbage, Empty}
    ELSE IF f \in NumberFields THEN Nat
    ELSE BOOLEAN

\* A record in which only some of the fields are present.
IsPartial(p) ==
    /\ DOMAIN p \subseteq ConfigFields
    /\ p = [f \in DOMAIN p |-> p[f]]
    /\ \A f \in DOMAIN p : p[f] \in FieldValues(f)

IsConfig(c) == IsPartial(c) /\ DOMAIN c = ConfigFields

\* The order in which serde writes the fields: a file cut short holds a
\* prefix of it.
FieldRank == [server |-> 1, client_secret |-> 2, uuid |-> 3,
              disable_command_execute |-> 4, report_delay |-> 5, tls |-> 6,
              insecure_tls |-> 7, ip_report_period |-> 8]

NoFields == [f \in {} |-> Empty]

DefaultConfig ==
    [f \in ConfigFields |-> IF f \in NumberFields THEN 0
                           ELSE IF f \in FlagFields THEN FALSE ELSE Empty]

Overlay(base, partial) ==
    [f \in ConfigFields |-> IF f \in DOMAIN partial THEN partial[f] ELSE base[f]]

-----------------------------------------------------------------------------
(* Validation *)

ReportDelay(d) == IF d = 0 THEN 3 ELSE d

IpReportPeriod(p) == IF p = 0 THEN 1800 ELSE IF p < 30 THEN 30 ELSE p

Normalize(c) == [c EXCEPT !.report_delay = ReportDelay(@),
                          !.ip_report_period = IpReportPeriod(@)]

Complete(c) ==
    /\ c.server # Empty
    /\ c.client_secret # Empty
    /\ c.uuid \in Uuids

Valid(c, isRemote) ==
    /\ isRemote \/ Complete(c)
    /\ Normalize(c).report_delay \in 1 .. 4

-----------------------------------------------------------------------------
(* Loading the file *)

\* What the file's fields are before the overrides are laid over them.
FileFields(file) == Overlay(DefaultConfig, file)

Overridden(file) == Overlay(FileFields(file), Overrides)

GeneratesUuid(file) == Overridden(file).uuid = Empty

\* What load() returns when a missing uuid is drawn as uuid.
LoadedWith(file, uuid) ==
    Normalize([Overridden(file) EXCEPT !.uuid = IF @ = Empty THEN uuid ELSE @])

\* The files fs::write leaves when it is cut short: truncated first, then
\* a prefix of the serialised fields.
Prefixes(c) ==
    { [f \in {g \in ConfigFields : FieldRank[g] <= n} |-> c[f]] : n \in 0 .. 7 }

-----------------------------------------------------------------------------
(* Remote changes *)

TaskTypes == {"ApplyConfig", "ServerTransferApply"}

Merged(base, payload) == Normalize(Overlay(base, payload))

\* Mutant: ApplyConfig does not compare the secrets.
AdmissibleAnySecret(base, type, payload) ==
    /\ ~base.disable_command_execute
    /\ payload # Malformed
    /\ Valid(Overlay(base, payload), TRUE)
    /\ type = "ServerTransferApply" =>
          LET next == Merged(base, payload)
          IN  next.client_secret \in Secrets /\ next.tls /\ ~next.insecure_tls

\* The rules a payload must pass against the configuration it is laid over.
Admissible(base, type, payload) ==
    /\ ~base.disable_command_execute
    /\ payload # Malformed
    /\ Valid(Overlay(base, payload), TRUE)
    /\ LET next == Merged(base, payload)
       IN  CASE type = "ServerTransferApply" ->
                  /\ next.client_secret \in Secrets
                  /\ next.tls
                  /\ ~next.insecure_tls
             [] type = "ApplyConfig" ->
                  next.client_secret = base.client_secret

-----------------------------------------------------------------------------
ASSUME StringsAssumption ==
    /\ Empty \notin Servers \cup Secrets \cup WeakSecrets \cup Uuids
    /\ Garbage \notin Uuids
    /\ Secrets \cap WeakSecrets = {}
    /\ Uuids # {}

ASSUME PayloadsAssumption ==
    \A p \in Payloads : p # Malformed => IsPartial(p)

ASSUME OverridesAssumption == IsPartial(Overrides)
=============================================================================
