--------------------------- MODULE MCConfigReload ---------------------------
(***************************************************************************)
(* Small instances of ConfigReload for TLC.                                *)
(***************************************************************************)
EXTENDS ConfigReload, TLC

Change(d) == [report_delay |-> d]

Transfer(k, t) == [client_secret |-> k, tls |-> t]

\* A generic change, one out of range, a transfer over TLS and one without,
\* and the change that forbids further ones.
MCPayloads ==
    { Change(4), Change(9), Transfer("k2", TRUE), Transfer("k2", FALSE),
      [disable_command_execute |-> TRUE], Malformed }

\* Changes that undo each other and clear what load() insists on.
MCIdentityPayloads ==
    { Transfer("k2", TRUE) , Transfer("weak", TRUE),
      [server |-> Empty], [uuid |-> Empty], [server |-> "s2"] }

MCAll == MCPayloads \cup MCIdentityPayloads

MCNoOverrides == [f \in {} |-> Empty]

\* NZ_SERVER, NZ_CLIENT_SECRET: a first run without a file needs them.
MCEnvironment == [server |-> "s1", client_secret |-> "k1"]
=============================================================================
