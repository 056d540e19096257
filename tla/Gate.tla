--------------------------------- MODULE Gate ---------------------------------
(****************************************************************************)
(* What a deployment must have before it runs: the preflight gate           *)
(* (engine/preflight-check.mjs), the platform preflight                     *)
(* (engine/platforms.mjs), the resolution of a Model B project              *)
(* (engine/projects.mjs), and what the commands of engine/cli.mjs refuse by *)
(* themselves. Pure operators.                                              *)
(*                                                                          *)
(* An environment of a config is a record:                                  *)
(*   type, driver, auth          as in the config, "none" when missing      *)
(*   host, username              "unset", "literal" or "placeholder": the   *)
(*                               text "${DEPLOY_HOST}", which nothing       *)
(*                               expands                                    *)
(*   webroot, ref                NoValue when missing                       *)
(*   build                       "declared" or "none"                       *)
(*   services                    the names of the services                  *)
(* Secrets are sets of names. An --image is "ref" or a service, for         *)
(* "service=ref".                                                           *)
(****************************************************************************)
EXTENDS Naturals, Sequences

CONSTANTS
  NoValue,        \* a field that is not there
  NoEnvironment   \* the config has no such environment

------------------------------------------------------------------------------
(* The deep preflight.                                                      *)

Overrides == {"DEPLOY_HOST", "DEPLOY_USERNAME", "DEPLOY_WEBROOT", "FTP_HOST", "FTP_USERNAME"}
Credentials == {"DEPLOY_SSH_KEY", "FTP_PASSWORD", "CPANEL_API_TOKEN"}

\* Variant: every target is reached with the ssh key.
SshKeyOnly(env) == {"DEPLOY_SSH_KEY"}

RequiredSecrets(env) ==
  CASE env.driver = "hostinger" /\ env.auth = "ftps" -> {"FTP_PASSWORD"}
    [] env.driver = "hostinger" /\ env.auth # "ftps" -> {"DEPLOY_SSH_KEY"}
    [] env.driver = "vps"    -> {"DEPLOY_SSH_KEY"}
    [] env.driver = "cpanel" -> {"CPANEL_API_TOKEN"}
    [] OTHER -> {}

\* FTP_WEBROOT, which hostingerConnection accepts with every auth, is looked for with ftps only.
OptionalSecrets(env) ==
  CASE env.driver = "hostinger" /\ env.auth = "ftps" -> Overrides \cup {"FTP_WEBROOT"}
    [] env.driver = "hostinger" /\ env.auth # "ftps" -> Overrides
    [] env.driver = "cpanel" -> {"FTP_PASSWORD"}
    [] OTHER -> {}

\* The check command looks for these names only.
Present(env, secrets) ==
  secrets \cap (RequiredSecrets(env) \cup OptionalSecrets(env) \cup Credentials)

Checks == {"environment", "type", "driver", "build", "webroot", "vps", "ref",
           "services", "image", "image form", "dir"} \cup Credentials

\* runPreflight: the checks that fail; the deployment goes on when there are none.
Failures(env, secrets, dir, images) ==
  IF env = NoEnvironment THEN {"environment"}
  ELSE LET present == Present(env, secrets)
           static == env.type = "static"
           docker == env.type = "docker"
       IN  {c \in Checks :
              \/ c = "type" /\ ~static /\ ~docker
              \/ c = "driver" /\ env.driver = "none"
              \/ c = "build" /\ static /\ env.build = "none"
              \/ c = "webroot" /\ static /\ env.driver = "hostinger" /\ env.webroot = NoValue
                   /\ present \cap {"DEPLOY_WEBROOT", "FTP_WEBROOT"} = {}
              \/ c = "vps" /\ docker /\ env.driver # "vps"
              \/ c = "ref" /\ docker /\ env.ref = NoValue
              \/ c = "services" /\ docker /\ env.services = {}
              \/ c = "image" /\ docker /\ images = {}
              \/ c = "image form" /\ docker /\ images \ {"ref"} # {}   \* "="
              \/ c = "dir" /\ static /\ dir = NoValue
              \/ c \in RequiredSecrets(env) \ present}
------------------------------------------------------------------------------
(* The commands.                                                            *)

\* hostingerConnection: DEPLOY_* before FTP_* before the config.
Overridden(secrets, names, own, value) == IF secrets \cap names # {} THEN value ELSE own
Host(env, secrets) == Overridden(secrets, {"DEPLOY_HOST", "FTP_HOST"}, env.host, "secret")
Username(env, secrets) ==
  Overridden(secrets, {"DEPLOY_USERNAME", "FTP_USERNAME"}, env.username, "secret")
Webroot(env, secrets) ==
  Overridden(secrets, {"DEPLOY_WEBROOT", "FTP_WEBROOT"}, env.webroot, "secret")

\* The commands stop at the first thing that is wrong, in this order.
FirstOf(order, wrong) ==
  {order[i] : i \in {i \in DOMAIN order : /\ order[i] \in wrong
                                        /\ \A k \in 1..(i - 1) : order[k] \notin wrong}}

\* What "deploy" names as missing when it refuses.
DeployRefusals(env, secrets) ==
  IF env = NoEnvironment THEN {"environment"}
  ELSE FirstOf(<<"driver", "host", "username", "webroot">>,
         {c \in {"driver", "host", "username", "webroot"} :
            \/ c = "driver" /\ env.driver # "hostinger"
            \/ c = "host" /\ Host(env, secrets) = "unset"
            \/ c = "username" /\ Username(env, secrets) = "unset"
            \/ c = "webroot" /\ Webroot(env, secrets) = NoValue})

\* The credential of the plan: ssh only when the config says so, ftps otherwise.
Credential(env) == IF env.auth = "ssh_key" THEN "DEPLOY_SSH_KEY" ELSE "FTP_PASSWORD"

\* The services that get an image: by name, or the one service there is.
Supplied(env, images) ==
  {s \in env.services : s \in images \/ ("ref" \in images /\ env.services = {s})}

\* What "deploy-service" refuses for; allocated are the services with a port in the record,
\* none without a record.
ServiceRefusals(env, images, allocated) ==
  IF env = NoEnvironment THEN {"environment"}
  ELSE FirstOf(<<"driver", "ref", "record", "services", "image">>,
         {c \in {"driver", "ref", "record", "services", "image"} :
            \/ c = "driver" /\ env.driver # "vps"
            \/ c = "ref" /\ env.ref = NoValue
            \/ c = "record" /\ (allocated = {} \/ ~(env.services \subseteq allocated))
            \/ c = "services" /\ env.services = {}
            \/ c = "image" /\ Supplied(env, images) # env.services})
------------------------------------------------------------------------------
(* The platform preflight of deploy.yml.                                    *)

RequiredInputs(platform) ==
  {"config", "environment"} \cup
  (CASE platform = "vps"           -> {"registry", "image", "DEPLOY_SSH_KEY"}
     [] platform = "hostinger-ssh" -> {"DEPLOY_SSH_KEY"}
     [] platform = "hostinger-ftp" -> {"FTP_PASSWORD"}
     [] platform = "cpanel"        -> {"CPANEL_API_TOKEN"})

\* Variant: options do not count.
MissingVariables(platform, options, variables) == RequiredInputs(platform) \ variables

\* Given as an option, or in the environment; a variable that is there and empty counts.
MissingInputs(platform, options, variables) ==
  RequiredInputs(platform) \ (options \cup variables)

\* The step lists these variables whether or not the secrets are set.
PreflightVariables == {"DEPLOY_SSH_KEY", "FTP_PASSWORD", "FTP_HOST", "FTP_USERNAME"}
------------------------------------------------------------------------------
(* Model B: an entry of the projects registry is a record of                *)
(*   form        "valid": id, repo, branch and names match their patterns   *)
(*   driver, auth, host, username, webroot   as above                       *)
(*   secret_ref  the name of the credential, or NoValue                     *)

\* resolveProject: what is thrown.
ResolveErrors(entry) ==
  IF entry = NoValue THEN {"unknown"}
  ELSE FirstOf(<<"form", "target.driver", "target.secret_ref", "target.webroot">>,
         {c \in {"form", "target.driver", "target.secret_ref", "target.webroot"} :
            \/ c = "form" /\ entry.form # "valid"
            \/ c = "target.driver" /\ entry.driver = "none"
            \/ c = "target.secret_ref" /\ entry.secret_ref = NoValue
            \/ c = "target.webroot" /\ entry.webroot = NoValue})

\* The environment "production" of the generated config.
Resolve(entry) ==
  [type |-> "static", driver |-> entry.driver, auth |-> entry.auth, host |-> entry.host,
   username |-> entry.username, webroot |-> entry.webroot, build |-> "declared",
   ref |-> NoValue, services |-> {"site"}]

\* The secrets that the engine sees: the one that secret_ref names becomes the ssh key and
\* the ftp password, unless it is not set: then the platform's own are used.
Mapped(entry, secrets) ==
  IF entry.secret_ref # "DEPLOY_SSH_KEY" /\ entry.secret_ref \in secrets
    THEN secrets \cup {"DEPLOY_SSH_KEY", "FTP_PASSWORD"} ELSE secrets
==============================================================================
