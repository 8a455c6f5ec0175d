--------------------------- MODULE SessionReport ----------------------------
(***************************************************************************)
(* The country report as a branch of the session's loop that shares no     *)
(* state with those in SessionTasks: CountryReport under a name of its     *)
(* own, so that a module can speak of both.                                *)
(***************************************************************************)
CONSTANTS Addresses, NoAddress, UseV6, MaxFailures, MaxBoots

VARIABLES address, job, result, due, failures, reported, last, known, boot, told,
          late, astray

Country == INSTANCE CountryReport

ASSUME SessionReportAssumption == Country!CountryReportAssumption

ReportSpec == Country!Spec

-----------------------------------------------------------------------------
\* What a session takes the dashboard to know it knows (main.rs 262 to 336).
ReportKnown == Country!Known
=============================================================================
