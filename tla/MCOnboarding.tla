------------------------------ MODULE MCOnboarding ------------------------------
(* Instances of Onboarding for TLC.                                         *)
EXTENDS Onboarding

\* onboard-client.yml with its one key, the tool with a placeholder config, a default branch
\* that is not main, a service, and a token that may only read.
Client(access, trunk, given, deploy) ==
  [access |-> access, trunk |-> trunk, given |-> given, deploy |-> deploy]
MCClients ==
  {Client("write", "main", <<"DEPLOY_SSH_KEY">>, "dispatch"),
   Client("write", "main", <<"DEPLOY_HOST", "DEPLOY_USERNAME", "DEPLOY_SSH_KEY">>, "dispatch"),
   Client("write", "other", <<"DEPLOY_SSH_KEY">>, "dispatch"),
   Client("write", "main", <<"DEPLOY_SSH_KEY">>, "none"),
   Client("read", "main", <<"DEPLOY_SSH_KEY">>, "dispatch")}
==============================================================================
