----------------------------- MODULE PolicyTypes -----------------------------
(* The policy types a gateway has factories for, by what they do for an     *)
(* endpoint: who calls, what answers, and how often (shared/policies).      *)

AuthenticationTypes == {"api-key-auth", "oauth-access-token", "mtls-auth"}
TerminalTypes == {"oauth-token", "jwks-endpoint"}
Registered == AuthenticationTypes \cup TerminalTypes \cup {"rate-limit"}
=============================================================================
