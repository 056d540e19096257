------------------------------- MODULE Pipeline -------------------------------
(****************************************************************************)
(* The four ways in which a deployment is asked for and what stands between *)
(* the request and the first remote command:                                *)
(*   "client"   _deploy-static.reusable.yml, called by a client's repository*)
(*   "service"  _deploy-service.reusable.yml, likewise                      *)
(*   "project"  deploy-from-registry.yml, Model B                           *)
(*   "button"   deploy.yml, for a config in the platform's repository       *)
(*                                                                          *)
(* What happens on the host is one step here; StaticSite and BlueGreen say  *)
(* how it goes. Dry runs, and the token of a private clone, are left out.   *)
(****************************************************************************)
EXTENDS Gate, Detection

CONSTANTS
  Sites,        \* what is deployed
  Way,          \* Way[s]: one of the four
  Histories,    \* sets of sites: those that a history is about
  Configs,      \* Configs[s]: what the config of s may be at first
  Goal,         \* Goal[s]: the config that s is meant to have
  Platform,     \* the platform's repository, the owner of its secrets
  Secrets,      \* the names of secrets that may be set
  Standing,     \* Standing[o]: the sets of them that o may have at first
  Images,       \* Images[s]: the --image options that requests of s come with
  Chosen,       \* Chosen[s]: the platform that the operators of a button select
  Repo          \* Repo[s]: the files, the build script, the directories before a build,
                \* and the snapshots that a build may leave

ASSUME SitesAssumption ==
  /\ Way \in [Sites -> {"client", "service", "project", "button"}]
  /\ Chosen \in [Sites -> {"vps", "hostinger-ssh", "hostinger-ftp", "cpanel"}]
  /\ NoValue # "secret"

\* _deploy-static.reusable.yml has no --image.
ASSUME ImagesAssumption == \A s \in Sites : Way[s] = "client" => Images[s] \subseteq {{}}

\* A build does not turn the clock back.
ASSUME RepoAssumption ==
  \A s \in Sites : \A after \in Repo[s].after \cup {Repo[s].before} :
    \A d \in DOMAIN after \cap DOMAIN Repo[s].before :
      /\ Repo[s].before[d] \in Nat /\ after[d] \in Nat
      /\ Repo[s].before[d] <= after[d]

Owner(s) == IF Way[s] \in {"client", "service"} THEN s ELSE Platform
Owners == {Owner(s) : s \in Sites}

ASSUME StandingAssumption == \A o \in Owners : Standing[o] \subseteq SUBSET Secrets

VARIABLES
  config,    \* config[s]: the config of s, an entry of the projects registry for a project;
             \* only of the sites that the history is about
  secrets,   \* secrets[o]: the names set in the repository o
  job        \* job[s]: the last job of s, with what it was started with

vars == <<config, secrets, job>>

Init ==
  /\ \E sites \in Histories :
       config \in {c \in [sites -> UNION {Configs[s] : s \in sites}] :
                    \A s \in sites : c[s] \in Configs[s]}
  /\ secrets \in {f \in [Owners -> UNION {Standing[o] : o \in Owners}] :
                    \A o \in Owners : f[o] \in Standing[o]}
  /\ job = [s \in Sites |-> [step |-> "none", config |-> NoValue, secrets |-> {},
                             images |-> {}, dir |-> NoDir, after |-> Repo[s].before,
                             report |-> {}]]

At(s, step) == job[s].step = step
Ended(s) == job[s].step \in {"none", "ok", "refused", "failed"}

\* The environment that the engine works with, and the secrets that it sees.
Env(s) == IF Way[s] = "project" THEN Resolve(job[s].config) ELSE job[s].config
Seen(s) ==
  CASE Way[s] = "project" -> Mapped(job[s].config, job[s].secrets)
    [] Way[s] = "button"  -> job[s].secrets \ {"DEPLOY_WEBROOT", "FTP_WEBROOT"}  \* not passed
    [] OTHER -> job[s].secrets
------------------------------------------------------------------------------
(* The steps of a job.                                                      *)

FirstStep(s) ==
  CASE Way[s] = "project" -> "resolve"
    [] Way[s] = "button"  -> "preflight"
    [] Way[s] = "client"  -> "build"
    [] Way[s] = "service" -> "gate"

\* Variant: a failed job is run again as it was.
QueueUnchanged(s) ==
  /\ s \in DOMAIN config /\ Ended(s)
  /\ \E images \in Images[s] :
       job' = [job EXCEPT ![s] = [step |-> FirstStep(s),
                 config |-> IF At(s, "none") THEN config[s] ELSE job[s].config,
                 secrets |-> secrets[Owner(s)], images |-> images, dir |-> NoDir,
                 after |-> Repo[s].before, report |-> {}]]
  /\ UNCHANGED <<config, secrets>>

\* A push, a button or a webhook. Config and secrets are those of this moment.
Queue(s) ==
  /\ s \in DOMAIN config /\ Ended(s)
  /\ \E images \in Images[s] :
       job' = [job EXCEPT ![s] = [step |-> FirstStep(s), config |-> config[s],
                 secrets |-> secrets[Owner(s)], images |-> images, dir |-> NoDir,
                 after |-> Repo[s].before, report |-> {}]]
  /\ UNCHANGED <<config, secrets>>

GoOn(s, step) == job' = [job EXCEPT ![s].step = step]
Stop(s, end, report) == job' = [job EXCEPT ![s] = [@ EXCEPT !.step = end, !.report = report]]

\* The next step unless something is missing, which is then printed.
Require(s, missing, step) ==
  IF missing = {} THEN GoOn(s, step) ELSE Stop(s, "refused", missing)

ResolveProject(s) ==
  /\ At(s, "resolve")
  /\ Require(s, ResolveErrors(job[s].config), "build")
  /\ UNCHANGED <<config, secrets>>

\* deploy.yml: the form has a config, an environment and a registry by default.
Preflight(s) ==
  /\ At(s, "preflight")
  /\ LET options == {"config", "environment", "registry"} \cup
                    (IF job[s].images = {} THEN {} ELSE {"image"})
     IN  Require(s, MissingInputs(Chosen[s], options, PreflightVariables), "deploy")
  /\ UNCHANGED <<config, secrets>>

\* The build block of the config; a config without the environment declares nothing.
Declared(s, item, none) == IF job[s].config = NoEnvironment THEN none ELSE job[s].config[item]

\* Only the reusable workflow looks for a build command when the config has none.
Command(s) ==
  IF Declared(s, "command", "none") = "none" /\ Way[s] = "client"
    THEN DetectBuild(Repo[s].files, Repo[s].script) ELSE Declared(s, "command", "none")

Build(s) ==
  /\ At(s, "build")
  /\ \E after \in IF Command(s) = "none" THEN {Repo[s].before} ELSE Repo[s].after :
       LET dir == ResolveOutputDir(Declared(s, "output", NoDir), Repo[s].before, after)
       IN  job' = [job EXCEPT ![s] = [@ EXCEPT
                     !.after = after, !.dir = dir,
                     !.step = IF dir = NoDir THEN "failed"
                              ELSE IF Way[s] = "client" THEN "gate" ELSE "deploy",
                     !.report = IF dir = NoDir THEN {"output"} ELSE {}]]
  /\ UNCHANGED <<config, secrets>>

\* cli.mjs check.
Gate(s) ==
  /\ At(s, "gate")
  /\ LET dir == IF job[s].dir = NoDir THEN NoValue ELSE job[s].dir
     IN  Require(s, Failures(Env(s), job[s].secrets, dir, job[s].images), "deploy")
  /\ UNCHANGED <<config, secrets>>

Service(s) == Way[s] = "service" \/ (Way[s] = "button" /\ Chosen[s] = "vps")
Refusals(s) == IF Service(s) THEN ServiceRefusals(Env(s), job[s].images, Env(s).record)
                             ELSE DeployRefusals(Env(s), Seen(s))

CredentialOf(s) == IF Service(s) THEN "DEPLOY_SSH_KEY" ELSE Credential(Env(s))

\* What the output of the first remote command names when it cannot get through. lftp is
\* given the text $FTP_PASSWORD, and is refused whatever the secret is.
Unreachable(s) ==
  {c \in {"host", "username"} \cup Credentials :
     \/ c = "host" /\ ~Service(s) /\ Host(Env(s), Seen(s)) = "placeholder"
     \/ c = "username" /\ ~Service(s) /\ Username(Env(s), Seen(s)) = "placeholder"
     \/ c = CredentialOf(s) /\ (c = "FTP_PASSWORD" \/ c \notin Seen(s))}

Deploy(s) ==
  /\ At(s, "deploy")
  /\ \/ Refusals(s) # {} /\ Stop(s, "refused", Refusals(s))
     \/ Refusals(s) = {} /\ Unreachable(s) # {} /\ Stop(s, "failed", Unreachable(s))
     \/ Refusals(s) = {} /\ Unreachable(s) = {} /\ GoOn(s, "ok")
  /\ UNCHANGED <<config, secrets>>

Step(s) == ResolveProject(s) \/ Preflight(s) \/ Build(s) \/ Gate(s) \/ Deploy(s)
------------------------------------------------------------------------------
(* People: whoever reads what a job printed mends one item of it.           *)

OverrideFor == [host |-> "DEPLOY_HOST", username |-> "DEPLOY_USERNAME",
                webroot |-> "DEPLOY_WEBROOT"]

Mended(s, c) == job' = [job EXCEPT ![s].report = @ \ {c}]

SetSecret(s, c, name) ==
  /\ Ended(s) /\ c \in job[s].report
  /\ name = IF c \in DOMAIN OverrideFor THEN OverrideFor[c] ELSE c
  /\ name \in Secrets
  /\ secrets' = [secrets EXCEPT ![Owner(s)] = @ \cup {name}]
  /\ Mended(s, c)
  /\ UNCHANGED config

\* The item of the config that the report means.
ItemOf(c) ==
  CASE c \in {"vps", "target.driver"} -> "driver"
    [] c = "target.secret_ref" -> "secret_ref"
    [] c = "target.webroot" -> "webroot"
    [] OTHER -> c

EditConfig(s, c) ==
  /\ Ended(s) /\ c \in job[s].report
  /\ config' = [config EXCEPT ![s] =
       IF config[s] \in {NoEnvironment, NoValue} THEN Goal[s]
       ELSE IF ItemOf(c) \in DOMAIN Goal[s] THEN [@ EXCEPT ![ItemOf(c)] = Goal[s][ItemOf(c)]]
       ELSE @]
  /\ config' # config
  /\ Mended(s, c)
  /\ UNCHANGED secrets

Mend(s) == \E c \in job[s].report : EditConfig(s, c) \/ \E n \in Secrets : SetSecret(s, c, n)

Next == \E s \in Sites : Queue(s) \/ Step(s) \/ Mend(s)

Spec == Init /\ [][Next]_vars

\* Jobs go on to their end. Whoever runs them mends, now and then, something that was
\* printed, and runs them again.
Fairness ==
  \A s \in Sites : WF_vars(Step(s)) /\ WF_vars(Queue(s)) /\ SF_vars(Mend(s))

RetrySpec == Spec /\ Fairness
------------------------------------------------------------------------------
(* Properties.                                                              *)

Several(services) == \E a, b \in services : a # b

Reports == Checks \cup {"unknown", "form", "target.driver", "target.secret_ref",
                       "target.webroot", "host", "username", "record", "output"}

TypeOK ==
  /\ DOMAIN config \in Histories
  /\ secrets \in [Owners -> SUBSET Secrets]
  /\ \A s \in Sites :
       /\ job[s].step \in {"none", "resolve", "preflight", "build", "gate", "deploy", "ok",
                          "refused", "failed"}
       /\ job[s].secrets \subseteq secrets[Owner(s)]
       /\ job[s].images \in Images[s] \cup {{}}
       /\ job[s].report \subseteq Reports

(* After the gate nothing is found missing but what it does not look at: a  *)
(* host or a user, the record of the service, the second of two images, the *)
(* driver that "deploy" is for. The credential that the driver chooses      *)
(* (static-hostinger.mjs:98-122) is the one that the gate has looked for    *)
(* (preflight-check.mjs:21-39), when the config names an auth; whether the  *)
(* host accepts it is another matter.                                       *)
GateCovers ==
  \A s \in Sites :
    Way[s] \in {"client", "service"} /\ At(s, "deploy") =>
      /\ Refusals(s) \subseteq {"host", "username", "record"}
           \cup (IF Way[s] = "client" /\ Env(s).driver # "hostinger" THEN {"driver"} ELSE {})
           \cup (IF Way[s] = "service" /\ Several(Env(s).services) THEN {"image"} ELSE {})
      /\ Refusals(s) = {} /\ Env(s).auth \in {"ssh_key", "ftps"}
           => CredentialOf(s) \in Seen(s)

(* A directory that was not declared is published only if the build changed *)
(* it and no other was as good a candidate (detect-output.mjs:9-10: "FAIL   *)
(* with guidance rather than guess wrong").                                 *)
NeverGuesses ==
  \A s \in Sites :
    Way[s] \in {"client", "project"} /\ At(s, "ok") /\ Declared(s, "output", NoDir) = NoDir =>
      LET changed == {d \in DOMAIN job[s].after :
                        d \in DOMAIN Repo[s].before => job[s].after[d] # Repo[s].before[d]}
          Rank(d) == CHOOSE i \in 1..Len(KNOWN_OUTPUTS) : KNOWN_OUTPUTS[i] = d
          Known(d) == \E i \in 1..Len(KNOWN_OUTPUTS) : KNOWN_OUTPUTS[i] = d
      IN  /\ job[s].dir \in changed
          /\ \A d \in changed \ {job[s].dir} :
               Known(job[s].dir) /\ (Known(d) => Rank(job[s].dir) < Rank(d))

(* manager-onboarding-guide.md:142-144: what stops a job is printed; who    *)
(* mends what is printed and runs the job again gets the site published.    *)
(* Not so for several services, whose images no single --image can name,    *)
(* nor over ftps, the driver's choice unless auth is ssh_key: no password   *)
(* reaches lftp, and nothing that is printed names auth.                    *)
Single(s) == /\ s \in DOMAIN config
             /\ Way[s] = "service" /\ config[s] # NoEnvironment
                  => ~Several(config[s].services)
ByKey(s) == (IF config[s] \in {NoEnvironment, NoValue} THEN Goal[s] ELSE config[s]).auth = "ssh_key"
FixAndRerun == \A s \in Sites : (Single(s) /\ ByKey(s)) ~> At(s, "ok")
==============================================================================
