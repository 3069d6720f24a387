------------------------------- MODULE MCStartup -------------------------------
(* Startup on one machine: a daemon, a web role and two clients.           *)
EXTENDS Startup

CONSTANTS daemon, webRole, client, clientEnv

\* The daemons take their backend from the file, one client from its own
\* environment.
MCEnvBackend == [p \in Process |-> IF p = clientEnv THEN "s3" ELSE ""]
================================================================================
