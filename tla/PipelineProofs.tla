--------------------------- MODULE PipelineProofs ---------------------------
(****************************************************************************)
(* Theorems about Pipeline, for every set of sites, configs, secrets and    *)
(* builds.                                                                  *)
(****************************************************************************)
EXTENDS Pipeline, TLAPS

------------------------------------------------------------------------------
(* The operators.                                                           *)

LEMMA FirstOfWrong ==
  ASSUME NEW order, NEW wrong
  PROVE  FirstOf(order, wrong) \subseteq wrong
BY DEF FirstOf

LEMMA RefusalsNamed ==
  ASSUME NEW s \in Sites
  PROVE  /\ Refusals(s) \subseteq {"environment", "driver", "host", "username", "webroot",
                                   "ref", "record", "services", "image"}
         /\ Unreachable(s) \subseteq {"host", "username"} \cup Credentials
BY FirstOfWrong DEF Refusals, ServiceRefusals, DeployRefusals, Unreachable, Credentials

LEMMA ResolveErrorsNamed ==
  ASSUME NEW entry
  PROVE  ResolveErrors(entry) \subseteq {"unknown", "form", "target.driver",
                                         "target.secret_ref", "target.webroot"}
BY FirstOfWrong DEF ResolveErrors

LEMMA FailuresNamed ==
  ASSUME NEW env, NEW names, NEW dir, NEW images
  PROVE  Failures(env, names, dir, images) \subseteq Checks
BY DEF Failures, Checks

LEMMA MissingNamed ==
  ASSUME NEW s \in Sites, NEW options, {"config", "environment", "registry"} \subseteq options,
         NEW variables
  PROVE  MissingInputs(Chosen[s], options, variables) \subseteq {"image"} \cup Credentials
<1>1. Chosen[s] \in {"vps", "hostinger-ssh", "hostinger-ftp", "cpanel"}
  BY SitesAssumption
<1>2. RequiredInputs(Chosen[s])
        \subseteq {"config", "environment", "registry", "image"} \cup Credentials
  BY <1>1 DEF RequiredInputs, Credentials
<1>3. QED BY <1>2 DEF MissingInputs
------------------------------------------------------------------------------
(* Type correctness.                                                        *)

Steps == {"none", "resolve", "preflight", "build", "gate", "deploy", "ok", "refused", "failed"}

JobFields == {"step", "config", "secrets", "images", "dir", "after", "report"}

Typed(s, j) ==
  /\ DOMAIN j = JobFields
  /\ j.step \in Steps
  /\ j.images \in Images[s] \cup {{}}
  /\ j.report \subseteq Reports

ITyped == TypeOK /\ DOMAIN job = Sites /\ \A s \in Sites : Typed(s, job[s])

LEMMA InitTyped == Init => ITyped
<1> SUFFICES ASSUME Init PROVE ITyped
  OBVIOUS
<1>1. PICK sites \in Histories :
        config \in {c \in [sites -> UNION {Configs[s] : s \in sites}] :
                      \A s \in sites : c[s] \in Configs[s]}
  BY DEF Init
<1>2. DOMAIN config \in Histories
  BY <1>1
<1>3. secrets \in [Owners -> SUBSET Secrets]
  BY StandingAssumption DEF Init
<1>4. /\ DOMAIN job = Sites
      /\ \A s \in Sites : Typed(s, job[s]) /\ job[s].secrets = {}
  BY DEF Init, Typed, JobFields, Steps
<1>5. QED BY <1>2, <1>3, <1>4 DEF ITyped, TypeOK, Typed, Steps, Owners

\* A step that replaces the job of one site by a well-typed one.
LEMMA JobTyped ==
  ASSUME ITyped, NEW s \in Sites, NEW j, Typed(s, j), j.secrets \subseteq secrets[Owner(s)],
         job' = [job EXCEPT ![s] = j], UNCHANGED <<config, secrets>>
  PROVE  ITyped'
<1>1. \A t \in Sites : job'[t] = IF t = s THEN j ELSE job[t]
  BY DEF ITyped
<1>2. QED BY <1>1 DEF ITyped, TypeOK, Typed, Steps

LEMMA GoOnTyped ==
  ASSUME ITyped, NEW s \in Sites, NEW step \in Steps, GoOn(s, step),
         UNCHANGED <<config, secrets>>
  PROVE  ITyped'
<1> DEFINE j == [job[s] EXCEPT !.step = step]
<1>1. Typed(s, j) /\ j.secrets \subseteq secrets[Owner(s)]
  BY DEF ITyped, TypeOK, Typed, JobFields
<1>2. job' = [job EXCEPT ![s] = j]
  BY DEF GoOn
<1>3. QED BY <1>1, <1>2, JobTyped

LEMMA StopTyped ==
  ASSUME ITyped, NEW s \in Sites, NEW end \in Steps, NEW report \in SUBSET Reports,
         Stop(s, end, report), UNCHANGED <<config, secrets>>
  PROVE  ITyped'
<1> DEFINE j == [job[s] EXCEPT !.step = end, !.report = report]
<1>1. Typed(s, j) /\ j.secrets \subseteq secrets[Owner(s)]
  BY DEF ITyped, TypeOK, Typed, JobFields
<1>2. job' = [job EXCEPT ![s] = j]
  BY DEF Stop
<1>3. QED BY <1>1, <1>2, JobTyped

LEMMA RequireTyped ==
  ASSUME ITyped, NEW s \in Sites, NEW missing \in SUBSET Reports, NEW step \in Steps,
         Require(s, missing, step), UNCHANGED <<config, secrets>>
  PROVE  ITyped'
BY GoOnTyped, StopTyped DEF Require, Steps

\* The job j of s after a build that has left `after` and found dir.
Built(s, j, after, dir) ==
  [j EXCEPT !.after = after, !.dir = dir,
            !.step = IF dir = NoDir THEN "failed"
                     ELSE IF Way[s] = "client" THEN "gate" ELSE "deploy",
            !.report = IF dir = NoDir THEN {"output"} ELSE {}]

LEMMA MendTyped ==
  ASSUME ITyped, NEW s \in Sites, Mend(s)
  PROVE  ITyped'
<1>1. PICK c \in job[s].report : EditConfig(s, c) \/ \E n \in Secrets : SetSecret(s, c, n)
  BY DEF Mend
<1> DEFINE j == [job[s] EXCEPT !.report = @ \ {c}]
<1>2. job' = [job EXCEPT ![s] = j]
  BY <1>1 DEF EditConfig, SetSecret, Mended
<1>3. Typed(s, j) /\ j.secrets = job[s].secrets
  BY DEF ITyped, Typed, JobFields
<1>4. \A t \in Sites : job'[t] = IF t = s THEN j ELSE job[t]
  BY <1>2 DEF ITyped
<1>5. DOMAIN config' = DOMAIN config
  BY <1>1 DEF EditConfig, SetSecret
<1>6. /\ secrets' \in [Owners -> SUBSET Secrets]
      /\ \A o \in Owners : secrets[o] \subseteq secrets'[o]
  BY <1>1 DEF EditConfig, SetSecret, ITyped, TypeOK
<1>7. \A t \in Sites : job'[t].secrets \subseteq secrets'[Owner(t)]
  BY <1>3, <1>4, <1>6 DEF ITyped, TypeOK, Owners
<1>8. DOMAIN job' = Sites /\ \A t \in Sites : Typed(t, job'[t])
  BY <1>2, <1>3, <1>4 DEF ITyped
<1>9. QED BY <1>5, <1>6, <1>7, <1>8 DEF ITyped, TypeOK, Typed, Steps

LEMMA NextTyped ==
  ASSUME ITyped, [Next]_vars
  PROVE  ITyped'
<1> USE DEF Steps
<1>1. ASSUME NEW s \in Sites, Queue(s) PROVE ITyped'
  <2>1. PICK images \in Images[s] :
          job' = [job EXCEPT ![s] = [step |-> FirstStep(s), config |-> config[s],
                    secrets |-> secrets[Owner(s)], images |-> images, dir |-> NoDir,
                    after |-> Repo[s].before, report |-> {}]]
    BY <1>1 DEF Queue
  <2> DEFINE j == [step |-> FirstStep(s), config |-> config[s],
                   secrets |-> secrets[Owner(s)], images |-> images, dir |-> NoDir,
                   after |-> Repo[s].before, report |-> {}]
  <2>2. FirstStep(s) \in Steps
    BY SitesAssumption DEF FirstStep
  <2>3. Typed(s, j) /\ j.secrets \subseteq secrets[Owner(s)]
    BY <2>2 DEF Typed, JobFields
  <2>4. QED BY <1>1, <2>1, <2>3, JobTyped DEF Queue
<1>2. ASSUME NEW s \in Sites, ResolveProject(s) PROVE ITyped'
  BY <1>2, RequireTyped, ResolveErrorsNamed DEF ResolveProject, Reports
<1>3. ASSUME NEW s \in Sites, Preflight(s) PROVE ITyped'
  <2>1. PICK options : /\ {"config", "environment", "registry"} \subseteq options
                       /\ Require(s, MissingInputs(Chosen[s], options, PreflightVariables),
                                  "deploy")
    BY <1>3 DEF Preflight
  <2>2. MissingInputs(Chosen[s], options, PreflightVariables) \subseteq Reports
    BY <2>1, MissingNamed DEF Reports, Checks
  <2>3. QED BY <1>3, <2>1, <2>2, RequireTyped DEF Preflight
<1>4. ASSUME NEW s \in Sites, Build(s) PROVE ITyped'
  <2>1. PICK after : LET dir == ResolveOutputDir(Declared(s, "output", NoDir),
                                                 Repo[s].before, after)
                     IN  job' = [job EXCEPT ![s] = Built(s, job[s], after, dir)]
    BY <1>4 DEF Build, Built
  <2> DEFINE j == Built(s, job[s], after, ResolveOutputDir(Declared(s, "output", NoDir),
                                                           Repo[s].before, after))
  <2>2. Typed(s, j) /\ j.secrets \subseteq secrets[Owner(s)]
    BY DEF ITyped, TypeOK, Typed, JobFields, Built, Reports
  <2>3. QED BY <1>4, <2>1, <2>2, JobTyped DEF Build
<1>5. ASSUME NEW s \in Sites, Gate(s) PROVE ITyped'
  BY <1>5, RequireTyped, FailuresNamed DEF Gate, Reports
<1>6. ASSUME NEW s \in Sites, Deploy(s) PROVE ITyped'
  <2>1. Refusals(s) \subseteq Reports /\ Unreachable(s) \subseteq Reports
    BY RefusalsNamed DEF Reports, Checks
  <2>2. QED BY <1>6, <2>1, StopTyped, GoOnTyped DEF Deploy
<1>7. ASSUME NEW s \in Sites, Mend(s) PROVE ITyped'
  BY <1>7, MendTyped
<1>8. CASE UNCHANGED vars
  BY <1>8 DEF ITyped, TypeOK, Typed, vars
<1>9. QED BY <1>1, <1>2, <1>3, <1>4, <1>5, <1>6, <1>7, <1>8 DEF Next, Step

(* Types are kept: TypeOK.                                                  *)
THEOREM TypeCorrect == Spec => []TypeOK
<1>1. ITyped => TypeOK
  BY DEF ITyped
<1>2. QED BY InitTyped, NextTyped, <1>1, PTL DEF Spec
------------------------------------------------------------------------------
(* What is known of a job at each of its steps.                             *)

GivenDir(j) == IF j.dir = NoDir THEN NoValue ELSE j.dir

\* The directory of a build that was not declared wrongly.
Found(s, j) ==
  /\ j.after \in Repo[s].after \cup {Repo[s].before}
  /\ j.dir # NoDir
  /\ j.dir = ResolveOutputDir(IF j.config = NoEnvironment THEN NoDir ELSE j.config.output,
                              Repo[s].before, j.after)

Good(s, j) ==
  /\ Way[s] = "client" => j.step \notin {"resolve", "preflight"} /\ j.images = {}
  /\ Way[s] = "service" => j.step \notin {"resolve", "preflight", "build"} /\ j.dir = NoDir
  /\ Way[s] = "project" => j.step \notin {"preflight", "gate"}
  /\ Way[s] = "project" /\ j.step \in {"build", "deploy", "ok"} => ResolveErrors(j.config) = {}
  /\ Way[s] \in {"client", "service"} /\ j.step = "deploy"
       => Failures(j.config, j.secrets, GivenDir(j), j.images) = {}
  /\ Way[s] \in {"client", "project"} /\ j.step \in {"gate", "deploy", "ok"} => Found(s, j)

AllGood == \A s \in Sites : Good(s, job[s])

LEMMA InitGood == Init => AllGood
BY DEF Init, AllGood, Good

\* A step that replaces the job of one site.
LEMMA JobGood ==
  ASSUME ITyped, AllGood, NEW s \in Sites, NEW j, Good(s, j), job' = [job EXCEPT ![s] = j]
  PROVE  AllGood'
BY DEF ITyped, AllGood

\* A job that ends, or of which something is mended, has no more to show than before.
LEMMA EndGood ==
  ASSUME ITyped, AllGood, NEW s \in Sites, NEW end \in {"refused", "failed"}, NEW report,
         Stop(s, end, report)
  PROVE  AllGood'
<1> DEFINE j == [job[s] EXCEPT !.step = end, !.report = report]
<1>1. Good(s, j)
  BY DEF ITyped, Typed, JobFields, AllGood, Good
<1>2. job' = [job EXCEPT ![s] = j]
  BY DEF Stop
<1>3. QED BY <1>1, <1>2, JobGood

LEMMA NextGood ==
  ASSUME ITyped, AllGood, [Next]_vars
  PROVE  AllGood'
<1>1. ASSUME NEW s \in Sites, Queue(s) PROVE AllGood'
  <2>1. PICK images \in Images[s] :
          job' = [job EXCEPT ![s] = [step |-> FirstStep(s), config |-> config[s],
                    secrets |-> secrets[Owner(s)], images |-> images, dir |-> NoDir,
                    after |-> Repo[s].before, report |-> {}]]
    BY <1>1 DEF Queue
  <2> DEFINE j == [step |-> FirstStep(s), config |-> config[s],
                   secrets |-> secrets[Owner(s)], images |-> images, dir |-> NoDir,
                   after |-> Repo[s].before, report |-> {}]
  <2>2. /\ Way[s] = "client" => FirstStep(s) = "build" /\ images = {}
        /\ Way[s] = "service" => FirstStep(s) = "gate"
        /\ Way[s] = "project" => FirstStep(s) = "resolve"
    BY ImagesAssumption DEF FirstStep
  <2>3. Good(s, j)
    BY <2>2 DEF Good
  <2>4. QED BY <2>1, <2>3, JobGood
<1>2. ASSUME NEW s \in Sites, ResolveProject(s) PROVE AllGood'
  <2>1. CASE Stop(s, "refused", ResolveErrors(job[s].config))
    BY <2>1, EndGood
  <2>2. CASE ResolveErrors(job[s].config) = {} /\ GoOn(s, "build")
    <3> DEFINE j == [job[s] EXCEPT !.step = "build"]
    <3>1. ResolveErrors(job[s].config) = {} /\ At(s, "resolve")
      BY <1>2, <2>2 DEF ResolveProject
    <3>2. j.step = "build" /\ j.config = job[s].config /\ j.images = job[s].images
          /\ j.dir = job[s].dir
      BY DEF ITyped, Typed, JobFields
    <3>3. Good(s, j)
      BY <3>1, <3>2 DEF At, AllGood, Good
    <3>4. QED BY <2>2, <3>3, JobGood DEF GoOn
  <2>3. QED BY <1>2, <2>1, <2>2 DEF ResolveProject, Require
<1>3. ASSUME NEW s \in Sites, Preflight(s) PROVE AllGood'
  <2>1. PICK missing : Require(s, missing, "deploy")
    BY <1>3 DEF Preflight
  <2>2. CASE Stop(s, "refused", missing)
    BY <2>2, EndGood
  <2>3. CASE GoOn(s, "deploy")
    <3> DEFINE j == [job[s] EXCEPT !.step = "deploy"]
    <3>1. Way[s] \notin {"client", "service", "project"}
      BY <1>3 DEF Preflight, At, AllGood, Good
    <3>2. Good(s, j)
      BY <3>1 DEF Good
    <3>3. QED BY <2>3, <3>2, JobGood DEF GoOn
  <2>4. QED BY <2>1, <2>2, <2>3 DEF Require
<1>4. ASSUME NEW s \in Sites, Build(s) PROVE AllGood'
  <2>1. PICK after \in Repo[s].after \cup {Repo[s].before} :
          job' = [job EXCEPT ![s] =
            Built(s, job[s], after, ResolveOutputDir(Declared(s, "output", NoDir),
                                                     Repo[s].before, after))]
    BY <1>4 DEF Build, Built
  <2> DEFINE dir == ResolveOutputDir(Declared(s, "output", NoDir), Repo[s].before, after)
             j == Built(s, job[s], after, dir)
  <2>2. /\ j.config = job[s].config /\ j.images = job[s].images
        /\ j.after = after /\ j.dir = dir
        /\ j.step = IF dir = NoDir THEN "failed"
                    ELSE IF Way[s] = "client" THEN "gate" ELSE "deploy"
    BY DEF Built, ITyped, Typed, JobFields
  <2>3. Way[s] # "service" /\ (Way[s] = "client" => job[s].images = {})
    BY <1>4 DEF Build, At, AllGood, Good
  <2>4. dir # NoDir => Found(s, j)
    BY <2>2 DEF Found, Declared
  <2>5. Way[s] = "project" => ResolveErrors(job[s].config) = {}
    BY <1>4 DEF Build, At, AllGood, Good
  <2>6. Good(s, j)
    BY <2>2, <2>3, <2>4, <2>5 DEF Good
  <2>7. QED BY <2>1, <2>6, JobGood
<1>5. ASSUME NEW s \in Sites, Gate(s) PROVE AllGood'
  <2> DEFINE failures == Failures(Env(s), job[s].secrets, GivenDir(job[s]), job[s].images)
  <2>1. Require(s, failures, "deploy") /\ job[s].step = "gate"
    BY <1>5 DEF Gate, GivenDir, At
  <2>2. CASE Stop(s, "refused", failures)
    BY <2>2, EndGood
  <2>3. CASE failures = {} /\ GoOn(s, "deploy")
    <3> DEFINE j == [job[s] EXCEPT !.step = "deploy"]
    <3>1. /\ j.config = job[s].config /\ j.secrets = job[s].secrets /\ j.dir = job[s].dir
          /\ j.images = job[s].images /\ j.after = job[s].after /\ j.step = "deploy"
      BY DEF ITyped, Typed, JobFields
    <3>2. Way[s] # "project" /\ Env(s) = job[s].config
      BY <2>1 DEF AllGood, Good, Env
    <3>3. Failures(j.config, j.secrets, GivenDir(j), j.images) = {}
      BY <2>3, <3>1, <3>2 DEF GivenDir
    <3>4. Way[s] = "client" => Found(s, j)
      BY <2>1, <3>1 DEF AllGood, Good, Found
    <3>5. Good(s, j)
      BY <3>1, <3>2, <3>3, <3>4 DEF AllGood, Good
    <3>6. QED BY <2>3, <3>5, JobGood DEF GoOn
  <2>4. QED BY <2>1, <2>2, <2>3 DEF Require
<1>6. ASSUME NEW s \in Sites, Deploy(s) PROVE AllGood'
  <2>1. CASE GoOn(s, "ok")
    <3> DEFINE j == [job[s] EXCEPT !.step = "ok"]
    <3>1. /\ j.config = job[s].config /\ j.dir = job[s].dir /\ j.images = job[s].images
          /\ j.after = job[s].after /\ j.step = "ok"
      BY DEF ITyped, Typed, JobFields
    <3>2. Good(s, j)
      BY <1>6, <3>1 DEF Deploy, At, AllGood, Good, Found
    <3>3. QED BY <2>1, <3>2, JobGood DEF GoOn
  <2>2. QED BY <1>6, <2>1, EndGood DEF Deploy
<1>7. ASSUME NEW s \in Sites, Mend(s) PROVE AllGood'
  <2>1. PICK c : job' = [job EXCEPT ![s].report = @ \ {c}]
    BY <1>7 DEF Mend, EditConfig, SetSecret, Mended
  <2> DEFINE j == [job[s] EXCEPT !.report = @ \ {c}]
  <2>2. /\ j.config = job[s].config /\ j.secrets = job[s].secrets /\ j.dir = job[s].dir
        /\ j.images = job[s].images /\ j.after = job[s].after /\ j.step = job[s].step
    BY DEF ITyped, Typed, JobFields
  <2>3. Good(s, j)
    BY <2>2 DEF AllGood, Good, Found, GivenDir
  <2>4. QED BY <2>1, <2>3, JobGood
<1>8. CASE UNCHANGED vars
  BY <1>8 DEF AllGood, vars
<1>9. QED BY <1>1, <1>2, <1>3, <1>4, <1>5, <1>6, <1>7, <1>8 DEF Next, Step
------------------------------------------------------------------------------
(* What the gate lets through.                                              *)

LEMMA GatePassed ==
  ASSUME NEW env, NEW names, NEW dir, NEW images, Failures(env, names, dir, images) = {}
  PROVE  /\ env # NoEnvironment
         /\ env.type \in {"static", "docker"}
         /\ env.type = "static" => dir # NoValue
         /\ env.type = "static" /\ env.driver = "hostinger" /\ env.webroot = NoValue
              => names \cap {"DEPLOY_WEBROOT", "FTP_WEBROOT"} # {}
         /\ env.type = "docker" => /\ env.driver = "vps" /\ env.ref # NoValue
                                   /\ env.services # {} /\ images = {"ref"}
         /\ RequiredSecrets(env) \subseteq names
<1> DEFINE present == Present(env, names)
           static == env.type = "static"
           docker == env.type = "docker"
<1>1. env # NoEnvironment
  BY DEF Failures
<1>2. \A c \in Checks :
        ~ \/ c = "type" /\ ~static /\ ~docker
          \/ c = "driver" /\ env.driver = "none"
          \/ c = "build" /\ static /\ env.build = "none"
          \/ c = "webroot" /\ static /\ env.driver = "hostinger" /\ env.webroot = NoValue
               /\ present \cap {"DEPLOY_WEBROOT", "FTP_WEBROOT"} = {}
          \/ c = "vps" /\ docker /\ env.driver # "vps"
          \/ c = "ref" /\ docker /\ env.ref = NoValue
          \/ c = "services" /\ docker /\ env.services = {}
          \/ c = "image" /\ docker /\ images = {}
          \/ c = "image form" /\ docker /\ images \ {"ref"} # {}
          \/ c = "dir" /\ static /\ dir = NoValue
          \/ c \in RequiredSecrets(env) \ present
  BY <1>1 DEF Failures
<1>3. present \subseteq names
  BY DEF Present
<1>4. static \/ docker
  BY <1>2 DEF Checks
<1>5. static => dir # NoValue
  BY <1>2 DEF Checks
<1>6. static /\ env.driver = "hostinger" /\ env.webroot = NoValue
        => present \cap {"DEPLOY_WEBROOT", "FTP_WEBROOT"} # {}
  BY <1>2 DEF Checks
<1>7. docker => env.driver = "vps" /\ env.ref # NoValue /\ env.services # {}
  BY <1>2 DEF Checks
<1>8. docker => images # {} /\ images \ {"ref"} = {}
  BY <1>2 DEF Checks
<1>9. RequiredSecrets(env) \subseteq present
  <2>1. RequiredSecrets(env) \subseteq Checks
    BY DEF RequiredSecrets, Checks, Credentials
  <2>2. QED BY <1>2, <2>1
<1>10. QED BY <1>1, <1>3, <1>4, <1>5, <1>6, <1>7, <1>8, <1>9

\* The client's workflow, from gate to driver.
LEMMA ClientCovered ==
  ASSUME NEW s \in Sites, Way[s] = "client", AllGood, At(s, "deploy")
  PROVE  /\ Refusals(s) \subseteq {"host", "username"}
              \cup (IF Env(s).driver # "hostinger" THEN {"driver"} ELSE {})
         /\ Refusals(s) = {} /\ Env(s).auth \in {"ssh_key", "ftps"}
              => CredentialOf(s) \in Seen(s)
<1> DEFINE env == job[s].config
           names == job[s].secrets
           wrong == {c \in {"driver", "host", "username", "webroot"} :
                       \/ c = "driver" /\ env.driver # "hostinger"
                       \/ c = "host" /\ Host(env, names) = "unset"
                       \/ c = "username" /\ Username(env, names) = "unset"
                       \/ c = "webroot" /\ Webroot(env, names) = NoValue}
           order == <<"driver", "host", "username", "webroot">>
<1>1. /\ Failures(env, names, GivenDir(job[s]), {}) = {}
      /\ Env(s) = env /\ Seen(s) = names /\ ~Service(s)
  BY DEF AllGood, Good, At, Env, Seen, Service
<1>2. /\ env # NoEnvironment /\ env.type = "static" /\ RequiredSecrets(env) \subseteq names
      /\ env.driver = "hostinger" /\ env.webroot = NoValue
           => names \cap {"DEPLOY_WEBROOT", "FTP_WEBROOT"} # {}
  BY <1>1, GatePassed
<1>3. Refusals(s) = FirstOf(order, wrong)
  BY <1>1, <1>2 DEF Refusals, DeployRefusals
<1>4. CASE env.driver = "hostinger"
  <2>1. Webroot(env, names) # NoValue
    BY <1>2, <1>4, SitesAssumption DEF Webroot, Overridden
  <2>2. wrong \subseteq {"host", "username"}
    BY <1>4, <2>1
  <2>3. Refusals(s) \subseteq {"host", "username"}
    <3> HIDE DEF wrong, order
    <3>1. Refusals(s) \subseteq wrong
      BY <1>3, FirstOfWrong
    <3>2. QED BY <2>2, <3>1
  <2>4. ASSUME env.auth \in {"ssh_key", "ftps"} PROVE Credential(env) \in names
    BY <1>2, <1>4, <2>4 DEF Credential, RequiredSecrets
  <2>5. env.auth \in {"ssh_key", "ftps"} => CredentialOf(s) \in Seen(s)
    BY <1>1, <2>4 DEF CredentialOf
  <2>6. QED BY <1>1, <1>4, <2>3, <2>5
<1>5. CASE env.driver # "hostinger"
  <2>1. "driver" \in wrong
    BY <1>5
  <2>2. FirstOf(order, wrong) = {"driver"}
    BY <2>1 DEF FirstOf
  <2>3. QED BY <1>1, <1>3, <1>5, <2>2
<1>6. QED BY <1>4, <1>5

\* The service's workflow, likewise.
LEMMA ServiceCovered ==
  ASSUME NEW s \in Sites, Way[s] = "service", AllGood, At(s, "deploy")
  PROVE  /\ Refusals(s) \subseteq {"record"}
              \cup (IF Several(Env(s).services) THEN {"image"} ELSE {})
         /\ CredentialOf(s) \in Seen(s)
<1> DEFINE env == job[s].config
           images == job[s].images
<1>1. /\ Failures(env, job[s].secrets, GivenDir(job[s]), images) = {}
      /\ GivenDir(job[s]) = NoValue
      /\ Env(s) = env /\ Seen(s) = job[s].secrets /\ Service(s)
  BY DEF AllGood, Good, At, Env, Seen, Service, GivenDir
<1>2. /\ env # NoEnvironment /\ env.type = "docker" /\ env.driver = "vps"
      /\ env.ref # NoValue /\ env.services # {} /\ images = {"ref"}
      /\ RequiredSecrets(env) \subseteq job[s].secrets
  BY <1>1, GatePassed
<1>3. "DEPLOY_SSH_KEY" \in job[s].secrets
  BY <1>2 DEF RequiredSecrets
<1>4. ASSUME ~Several(env.services) PROVE Supplied(env, images) = env.services
  BY <1>2, <1>4 DEF Several, Supplied
<1>5. Refusals(s) \subseteq {"record"} \cup (IF Several(env.services) THEN {"image"} ELSE {})
  <2> DEFINE allocated == env.record
             wrong == {c \in {"driver", "ref", "record", "services", "image"} :
                         \/ c = "driver" /\ env.driver # "vps"
                         \/ c = "ref" /\ env.ref = NoValue
                         \/ c = "record" /\ (allocated = {} \/ ~(env.services \subseteq allocated))
                         \/ c = "services" /\ env.services = {}
                         \/ c = "image" /\ Supplied(env, images) # env.services}
  <2>1. Refusals(s) = FirstOf(<<"driver", "ref", "record", "services", "image">>, wrong)
    BY <1>1, <1>2 DEF Refusals, ServiceRefusals
  <2>2. wrong \subseteq {"record"} \cup (IF Several(env.services) THEN {"image"} ELSE {})
    BY <1>2, <1>4
  <2> HIDE DEF wrong
  <2>3. Refusals(s) \subseteq wrong
    BY <2>1, FirstOfWrong
  <2>4. QED BY <2>2, <2>3
<1>6. QED BY <1>1, <1>3, <1>5 DEF CredentialOf

(* What the gate lets through, the engine refuses only for what the gate    *)
(* does not look at, and the credential is there: GateCovers.               *)
THEOREM GateHolds == Spec => []GateCovers
<1>1. Init => ITyped /\ AllGood
  BY InitTyped, InitGood
<1>2. ITyped /\ AllGood /\ [Next]_vars => (ITyped /\ AllGood)'
  BY NextTyped, NextGood
<1>3. AllGood => GateCovers
  BY ClientCovered, ServiceCovered DEF GateCovers
<1>4. QED BY <1>1, <1>2, <1>3, PTL DEF Spec
------------------------------------------------------------------------------
(* What is published when nothing is declared.                              *)

LEMMA KnownOnce ==
  ASSUME NEW i \in 1..Len(KNOWN_OUTPUTS), NEW k \in 1..Len(KNOWN_OUTPUTS),
         KNOWN_OUTPUTS[i] = KNOWN_OUTPUTS[k]
  PROVE  i = k
BY DEF KNOWN_OUTPUTS

LEMMA LeastKnown ==
  ASSUME NEW known \in SUBSET (1..Len(KNOWN_OUTPUTS)), known # {}
  PROVE  \E i \in known : \A k \in known : i <= k
<1> DEFINE None(i) == \A k \in known : k > i
<1>1. \A k \in known : k \in Nat /\ 1 <= k /\ k <= 9
  BY DEF KNOWN_OUTPUTS
<1>2. None(0) /\ ~None(9)
  <2>1. None(0)
    BY <1>1
  <2>2. PICK k : k \in known
    OBVIOUS
  <2>3. ~None(9)
    BY <1>1, <2>2
  <2>4. QED BY <2>1, <2>3
<1>3. PICK i \in 0..8 : None(i) /\ ~None(i + 1)
  <2> HIDE DEF None
  <2>1. QED BY <1>2
<1>4. i + 1 \in known /\ \A k \in known : i + 1 <= k
  BY <1>1, <1>3
<1>5. QED BY <1>4

\* The directory that is found was changed by the build; another changed one is known only
\* if it comes later, and there is none if it is not known itself.
LEMMA FoundChanged ==
  ASSUME NEW before, NEW after, ResolveOutputDir(NoDir, before, after) # NoDir
  PROVE  LET dir == ResolveOutputDir(NoDir, before, after)
             changed == Changed(before, after)
         IN  /\ dir \in changed
             /\ \/ changed = {dir}
                \/ \E i \in 1..Len(KNOWN_OUTPUTS) :
                     /\ KNOWN_OUTPUTS[i] = dir
                     /\ \A k \in 1..Len(KNOWN_OUTPUTS) : KNOWN_OUTPUTS[k] \in changed => i <= k
<1> DEFINE dir == ResolveOutputDir(NoDir, before, after)
           changed == Changed(before, after)
           known == {i \in 1..Len(KNOWN_OUTPUTS) : KNOWN_OUTPUTS[i] \in changed}
<1>1. CASE known # {}
  <2> DEFINE i == CHOOSE i \in known : \A k \in known : i <= k
  <2>1. i \in known /\ \A k \in known : i <= k
    BY <1>1, LeastKnown
  <2>2. dir = KNOWN_OUTPUTS[i]
    BY <1>1 DEF ResolveOutputDir
  <2> HIDE DEF i
  <2>3. QED BY <2>1, <2>2
<1>2. CASE known = {}
  <2>1. PICK only \in changed : changed = {only}
    BY <1>2 DEF ResolveOutputDir
  <2>2. dir = CHOOSE d \in changed : TRUE
    BY <1>2, <2>1 DEF ResolveOutputDir
  <2>3. dir = only
    BY <2>1, <2>2
  <2>4. QED BY <2>1, <2>3
<1>3. QED BY <1>1, <1>2

\* NeverGuesses for one site.
LEMMA FoundAlone ==
  ASSUME AllGood, NEW s \in Sites, Way[s] \in {"client", "project"}, At(s, "ok"),
         Declared(s, "output", NoDir) = NoDir
  PROVE  LET changed == {d \in DOMAIN job[s].after :
                           d \in DOMAIN Repo[s].before => job[s].after[d] # Repo[s].before[d]}
             Rank(d) == CHOOSE i \in 1..Len(KNOWN_OUTPUTS) : KNOWN_OUTPUTS[i] = d
             Known(d) == \E i \in 1..Len(KNOWN_OUTPUTS) : KNOWN_OUTPUTS[i] = d
         IN  /\ job[s].dir \in changed
             /\ \A d \in changed \ {job[s].dir} :
                  Known(job[s].dir) /\ (Known(d) => Rank(job[s].dir) < Rank(d))
<1> DEFINE before == Repo[s].before
           after == job[s].after
           dir == job[s].dir
           changed == {d \in DOMAIN after : d \in DOMAIN before => after[d] # before[d]}
           Rank(d) == CHOOSE i \in 1..Len(KNOWN_OUTPUTS) : KNOWN_OUTPUTS[i] = d
           Known(d) == \E i \in 1..Len(KNOWN_OUTPUTS) : KNOWN_OUTPUTS[i] = d
<1>1. Found(s, job[s])
  BY DEF AllGood, Good, At
<1>2. dir # NoDir /\ dir = ResolveOutputDir(NoDir, before, after)
  BY <1>1 DEF Found, Declared
<1>3. changed = Changed(before, after)
  <2>1. \A d \in DOMAIN after \cap DOMAIN before :
          after[d] \in Nat /\ before[d] \in Nat /\ before[d] <= after[d]
    BY <1>1, RepoAssumption DEF Found
  <2>2. \A d \in DOMAIN after \cap DOMAIN before :
          after[d] # before[d] <=> after[d] > before[d]
    BY <2>1
  <2>3. QED BY <2>2 DEF Changed
<1>4. /\ dir \in changed
      /\ \/ changed = {dir}
         \/ \E i \in 1..Len(KNOWN_OUTPUTS) :
              /\ KNOWN_OUTPUTS[i] = dir
              /\ \A k \in 1..Len(KNOWN_OUTPUTS) : KNOWN_OUTPUTS[k] \in changed => i <= k
  BY <1>2, <1>3, FoundChanged
<1>5. ASSUME NEW i \in 1..Len(KNOWN_OUTPUTS) PROVE Rank(KNOWN_OUTPUTS[i]) = i
  BY KnownOnce
<1>6. ASSUME NEW d \in changed \ {dir}
      PROVE  Known(dir) /\ (Known(d) => Rank(dir) < Rank(d))
  <2>1. PICK i \in 1..Len(KNOWN_OUTPUTS) :
          /\ KNOWN_OUTPUTS[i] = dir
          /\ \A k \in 1..Len(KNOWN_OUTPUTS) : KNOWN_OUTPUTS[k] \in changed => i <= k
    BY <1>4, <1>6
  <2>2. ASSUME NEW k \in 1..Len(KNOWN_OUTPUTS), KNOWN_OUTPUTS[k] = d
        PROVE  Rank(dir) < Rank(d)
    <3>1. i <= k /\ i # k
      BY <1>6, <2>1, <2>2
    <3>2. Rank(dir) = i /\ Rank(d) = k
      BY <1>5, <2>1, <2>2
    <3>3. i \in Nat /\ k \in Nat
      BY DEF KNOWN_OUTPUTS
    <3> HIDE DEF Rank
    <3>4. QED BY <3>1, <3>2, <3>3
  <2>3. QED BY <2>1, <2>2
<1>7. QED BY <1>4, <1>6

(* A directory that was not declared is published only if the build changed *)
(* it and no other was as good a candidate: NeverGuesses.                   *)
THEOREM OutputIsNoGuess == Spec => []NeverGuesses
<1>1. Init => ITyped /\ AllGood
  BY InitTyped, InitGood
<1>2. ITyped /\ AllGood /\ [Next]_vars => (ITyped /\ AllGood)'
  BY NextTyped, NextGood
<1>3. AllGood => NeverGuesses
  BY FoundAlone DEF NeverGuesses
<1>4. QED BY <1>1, <1>2, <1>3, PTL DEF Spec
------------------------------------------------------------------------------
(* Model B, and what more secrets do.                                       *)

LEMMA FirstOfNone ==
  ASSUME NEW a, NEW b, NEW c, NEW d, NEW wrong, FirstOf(<<a, b, c, d>>, wrong) = {}
  PROVE  a \notin wrong /\ b \notin wrong /\ c \notin wrong /\ d \notin wrong
<1> DEFINE order == <<a, b, c, d>>
<1>1. \A i \in 1..4 : ~ (order[i] \in wrong /\ \A k \in 1..(i - 1) : order[k] \notin wrong)
  BY DEF FirstOf
<1>2. order[1] \notin wrong
  BY <1>1
<1>3. order[2] \notin wrong
  BY <1>1, <1>2
<1>4. order[3] \notin wrong
  BY <1>1, <1>2, <1>3
<1>5. order[4] \notin wrong
  BY <1>1, <1>2, <1>3, <1>4
<1>6. QED BY <1>2, <1>3, <1>4, <1>5

\* What an entry that resolves has.
LEMMA EntryResolves ==
  ASSUME NEW entry, ResolveErrors(entry) = {}
  PROVE  entry # NoValue /\ entry.secret_ref # NoValue /\ entry.webroot # NoValue
<1> DEFINE wrong == {c \in {"form", "target.driver", "target.secret_ref", "target.webroot"} :
                       \/ c = "form" /\ entry.form # "valid"
                       \/ c = "target.driver" /\ entry.driver = "none"
                       \/ c = "target.secret_ref" /\ entry.secret_ref = NoValue
                       \/ c = "target.webroot" /\ entry.webroot = NoValue}
<1>1. entry # NoValue
  BY DEF ResolveErrors
<1>2. FirstOf(<<"form", "target.driver", "target.secret_ref", "target.webroot">>, wrong) = {}
  BY <1>1 DEF ResolveErrors
<1>3. "target.secret_ref" \notin wrong /\ "target.webroot" \notin wrong
  <2> HIDE DEF wrong
  <2>1. QED BY <1>2, FirstOfNone
<1>4. QED BY <1>1, <1>3

\* What is left for the engine to stop a Model B job for; NoEnvironment is no config.
ResolverCovers ==
  \A s \in Sites :
    Way[s] = "project" /\ At(s, "deploy") /\ Env(s) # NoEnvironment =>
      /\ Refusals(s) \subseteq {"driver", "host", "username"}
      /\ job[s].config.secret_ref \in job[s].secrets \ {"DEPLOY_SSH_KEY"}
           => CredentialOf(s) \in Seen(s)

(* Model B has no gate: the resolution of the project stands in for it. It  *)
(* covers the webroot, and the credential of either kind, whatever auth the *)
(* entry names, when the secret that secret_ref names is set and is not the *)
(* platform's ssh key; what it does not look at is the driver, the host and *)
(* the user.                                                                *)
THEOREM ResolverHolds == Spec => []ResolverCovers
<1>1. Init => ITyped /\ AllGood
  BY InitTyped, InitGood
<1>2. ITyped /\ AllGood /\ [Next]_vars => (ITyped /\ AllGood)'
  BY NextTyped, NextGood
<1>3. AllGood => ResolverCovers
  <2> SUFFICES ASSUME AllGood, NEW s \in Sites, Way[s] = "project", At(s, "deploy"),
                      Env(s) # NoEnvironment
               PROVE  /\ Refusals(s) \subseteq {"driver", "host", "username"}
                      /\ job[s].config.secret_ref \in job[s].secrets \ {"DEPLOY_SSH_KEY"}
                           => CredentialOf(s) \in Seen(s)
    BY DEF ResolverCovers
  <2> DEFINE wrong == {c \in {"driver", "host", "username", "webroot"} :
                         \/ c = "driver" /\ Env(s).driver # "hostinger"
                         \/ c = "host" /\ Host(Env(s), Seen(s)) = "unset"
                         \/ c = "username" /\ Username(Env(s), Seen(s)) = "unset"
                         \/ c = "webroot" /\ Webroot(Env(s), Seen(s)) = NoValue}
  <2>1. ResolveErrors(job[s].config) = {}
    BY DEF AllGood, Good, At
  <2>2. ~Service(s) /\ Env(s) = Resolve(job[s].config)
        /\ Seen(s) = Mapped(job[s].config, job[s].secrets)
    BY DEF Service, Env, Seen
  <2>3. Env(s).webroot # NoValue
    BY <2>1, <2>2, EntryResolves DEF Resolve
  <2>4. Webroot(Env(s), Seen(s)) # NoValue
    BY <2>3, SitesAssumption DEF Webroot, Overridden
  <2>5. Refusals(s) = FirstOf(<<"driver", "host", "username", "webroot">>, wrong)
    BY <2>2 DEF Refusals, DeployRefusals
  <2>6. wrong \subseteq {"driver", "host", "username"}
    BY <2>4
  <2>7. Refusals(s) \subseteq {"driver", "host", "username"}
    <3> HIDE DEF wrong
    <3>1. Refusals(s) \subseteq wrong
      BY <2>5, FirstOfWrong
    <3>2. QED BY <2>6, <3>1
  <2>8. ASSUME job[s].config.secret_ref \in job[s].secrets \ {"DEPLOY_SSH_KEY"}
        PROVE  CredentialOf(s) \in Seen(s)
    <3>1. {"DEPLOY_SSH_KEY", "FTP_PASSWORD"} \subseteq Seen(s)
      BY <2>2, <2>8 DEF Mapped
    <3>2. Credential(Env(s)) \in Seen(s)
      BY <3>1 DEF Credential
    <3>3. QED BY <2>2, <3>2 DEF CredentialOf
  <2>9. QED BY <2>7, <2>8
<1>4. QED BY <1>1, <1>2, <1>3, PTL DEF Spec

(* A secret more never stops what went through before: the gate finds no    *)
(* more missing, "deploy" refuses nothing that it accepted, and a host or a *)
(* user that was a name is not taken for a placeholder; in Model B the      *)
(* engine sees no fewer.                                                    *)
THEOREM SecretsNeverHurt ==
  ASSUME NEW few, NEW more, few \subseteq more,
         NEW env, NEW dir, NEW images, NEW entry
  PROVE  /\ Failures(env, more, dir, images) \subseteq Failures(env, few, dir, images)
         /\ DeployRefusals(env, few) = {} => DeployRefusals(env, more) = {}
         /\ Host(env, more) = "placeholder" => Host(env, few) = "placeholder"
         /\ Username(env, more) = "placeholder" => Username(env, few) = "placeholder"
         /\ Mapped(entry, few) \subseteq Mapped(entry, more)
<1>1. Failures(env, more, dir, images) \subseteq Failures(env, few, dir, images)
  <2>1. Present(env, few) \subseteq Present(env, more)
    BY DEF Present
  <2>2. QED BY <2>1 DEF Failures
<1>2. \A names, own, value :
        \/ Overridden(more, names, own, value) = Overridden(few, names, own, value)
        \/ Overridden(more, names, own, value) = value
  BY DEF Overridden
<1>3. /\ Host(env, more) \in {Host(env, few), "secret"}
      /\ Username(env, more) \in {Username(env, few), "secret"}
      /\ Webroot(env, more) \in {Webroot(env, few), "secret"}
  BY <1>2 DEF Host, Username, Webroot
<1>4. ASSUME DeployRefusals(env, few) = {} PROVE DeployRefusals(env, more) = {}
  <2> DEFINE Wrong(secs) == {c \in {"driver", "host", "username", "webroot"} :
                               \/ c = "driver" /\ env.driver # "hostinger"
                               \/ c = "host" /\ Host(env, secs) = "unset"
                               \/ c = "username" /\ Username(env, secs) = "unset"
                               \/ c = "webroot" /\ Webroot(env, secs) = NoValue}
             order == <<"driver", "host", "username", "webroot">>
  <2>1. env # NoEnvironment
    BY <1>4 DEF DeployRefusals
  <2>2. /\ DeployRefusals(env, few) = FirstOf(order, Wrong(few))
        /\ DeployRefusals(env, more) = FirstOf(order, Wrong(more))
    BY <2>1 DEF DeployRefusals
  <2>3. Wrong(more) \subseteq Wrong(few)
    BY <1>3, SitesAssumption
  <2>4. \A c \in {"driver", "host", "username", "webroot"} : c \notin Wrong(few)
    <3> HIDE DEF Wrong
    <3>1. QED BY <1>4, <2>2, FirstOfNone
  <2>5. Wrong(more) = {}
    BY <2>3, <2>4
  <2> HIDE DEF Wrong
  <2>6. QED BY <2>2, <2>5, FirstOfWrong
<1>5. Mapped(entry, few) \subseteq Mapped(entry, more)
  BY DEF Mapped
<1>6. QED BY <1>1, <1>3, <1>4, <1>5
------------------------------------------------------------------------------
(* What a job prints when it stops.                                         *)

\* A credential that is asked for whether it is set or not: the form of deploy.yml does not
\* hand on the token of cPanel, and lftp is not given the password.
InVain(s, c) ==
  \/ At(s, "preflight") /\ c \notin PreflightVariables
  \/ At(s, "deploy") /\ c = CredentialOf(s) /\ c = "FTP_PASSWORD"

\* A job that stops prints something, and a credential only if it had none of that name or
\* asks for it in vain.
SaysWhy ==
  [][\A s \in Sites : ~Ended(s) /\ job'[s].step \in {"refused", "failed"} =>
       /\ job'[s].report # {}
       /\ \A c \in job'[s].report \cap Credentials :
            c \notin job[s].secrets \/ InVain(s, c)]_vars

LEMMA CredentialsAreMissing ==
  ASSUME NEW s \in Sites
  PROVE  /\ \A c \in Refusals(s) : c \notin Credentials
         /\ At(s, "deploy") => \A c \in Unreachable(s) \cap Credentials :
                                c \notin job[s].secrets \/ InVain(s, c)
         /\ \A env, dir, images :
              \A c \in Failures(env, job[s].secrets, dir, images) \cap Credentials :
                c \notin job[s].secrets
         /\ \A entry : ResolveErrors(entry) \cap Credentials = {}
<1>1. \A c \in Refusals(s) : c \notin Credentials
  BY RefusalsNamed DEF Credentials
<1>2. ASSUME At(s, "deploy"), NEW c \in Unreachable(s) \cap Credentials
      PROVE  c \notin job[s].secrets \/ InVain(s, c)
  <2>1. job[s].secrets \ {"DEPLOY_WEBROOT", "FTP_WEBROOT"} \subseteq Seen(s)
    BY DEF Seen, Mapped
  <2>2. c = CredentialOf(s) /\ (c = "FTP_PASSWORD" \/ c \notin Seen(s))
    BY DEF Unreachable, Credentials
  <2>3. c \notin {"DEPLOY_WEBROOT", "FTP_WEBROOT"}
    BY DEF Credentials
  <2>4. QED BY <1>2, <2>1, <2>2, <2>3 DEF InVain
<1>3. ASSUME NEW env, NEW dir, NEW images,
             NEW c \in Failures(env, job[s].secrets, dir, images) \cap Credentials
      PROVE  c \notin job[s].secrets
  <2>1. env # NoEnvironment
    BY DEF Failures, Credentials
  <2>2. c \in RequiredSecrets(env) \ Present(env, job[s].secrets)
    BY <2>1 DEF Failures, Credentials
  <2>3. QED BY <2>2 DEF Present
<1>4. \A entry : ResolveErrors(entry) \cap Credentials = {}
  BY ResolveErrorsNamed DEF Credentials
<1>5. QED BY <1>1, <1>2, <1>3, <1>4

\* How the job of s may end in a step.
LEMMA EndsSaying ==
  ASSUME ITyped, AllGood, NEW s \in Sites, ~Ended(s), Next,
         job'[s].step \in {"refused", "failed"}
  PROVE  /\ job'[s].report # {}
         /\ \A c \in job'[s].report \cap Credentials :
              c \notin job[s].secrets \/ InVain(s, c)
<1>0. job[s].step \notin {"refused", "failed"} /\ Typed(s, job[s]) /\ DOMAIN job = Sites
  BY DEF Ended, ITyped
<1>1. Step(s)
  <2>1. PICK t \in Sites : Queue(t) \/ Step(t) \/ Mend(t)
    BY DEF Next
  <2>2. ASSUME t # s PROVE job'[s] = job[s]
    BY <1>0, <2>1, <2>2 DEF Queue, Step, ResolveProject, Preflight, Build, Gate, Deploy, Require,
                      GoOn, Stop, Mend, EditConfig, SetSecret, Mended
  <2>3. ASSUME Mend(s) PROVE FALSE
    BY <2>3 DEF Mend, EditConfig, SetSecret
  <2>4. ~Queue(s)
    BY DEF Queue
  <2>5. QED BY <1>0, <2>1, <2>2, <2>3, <2>4
<1>2. ASSUME NEW step \in {"build", "deploy", "ok"} PROVE ~GoOn(s, step)
  BY <1>0 DEF GoOn, Typed, JobFields
<1>3. ASSUME NEW end, NEW report, Stop(s, end, report) PROVE job'[s].report = report
  BY <1>0, <1>3 DEF Stop, Typed, JobFields
<1>4. CASE ResolveProject(s)
  <2>1. ResolveErrors(job[s].config) # {} /\ job'[s].report = ResolveErrors(job[s].config)
    BY <1>2, <1>3, <1>4 DEF ResolveProject, Require
  <2>2. QED BY <2>1, CredentialsAreMissing
<1>5. CASE Preflight(s)
  <2>1. PICK options : job'[s].report = MissingInputs(Chosen[s], options, PreflightVariables)
                         /\ job'[s].report # {}
    BY <1>2, <1>3, <1>5 DEF Preflight, Require
  <2>2. QED BY <1>5, <2>1 DEF MissingInputs, Preflight, InVain
<1>6. CASE Build(s)
  <2>1. job'[s].report = {"output"}
    <3>1. PICK after \in Repo[s].after \cup {Repo[s].before} :
            job' = [job EXCEPT ![s] =
              Built(s, job[s], after, ResolveOutputDir(Declared(s, "output", NoDir),
                                                       Repo[s].before, after))]
      BY <1>6 DEF Build, Built
    <3>2. QED BY <1>0, <3>1 DEF Built, Typed, JobFields
  <2>2. QED BY <2>1 DEF Credentials
<1>7. CASE Gate(s)
  <2> DEFINE failures == Failures(Env(s), job[s].secrets, GivenDir(job[s]), job[s].images)
  <2>1. Require(s, failures, "deploy")
    BY <1>7 DEF Gate, GivenDir
  <2>2. failures # {} /\ job'[s].report = failures
    BY <1>2, <1>3, <2>1 DEF Require
  <2> HIDE DEF failures
  <2>3. \A c \in failures \cap Credentials : c \notin job[s].secrets
    BY CredentialsAreMissing DEF failures
  <2>4. QED BY <2>2, <2>3
<1>8. CASE Deploy(s)
  <2>1. \/ Refusals(s) # {} /\ job'[s].report = Refusals(s)
        \/ Unreachable(s) # {} /\ job'[s].report = Unreachable(s)
    BY <1>2, <1>3, <1>8 DEF Deploy
  <2>2. At(s, "deploy")
    BY <1>8 DEF Deploy
  <2>3. QED BY <2>1, <2>2, CredentialsAreMissing
<1>9. QED BY <1>1, <1>4, <1>5, <1>6, <1>7, <1>8 DEF Step

(* Whoever mends is told something to mend, and never to set a credential   *)
(* that the job had (manager-onboarding-guide.md:142-144), with two         *)
(* exceptions: the form of deploy.yml asks for the token of cPanel whether  *)
(* it is set or not, because it does not hand it on, and lftp is refused    *)
(* whatever FTP_PASSWORD is, because it gets the name of the variable       *)
(* (executor.mjs:191-199, 413). That the mending ends where neither stands  *)
(* in the way is left to TLC (FixAndRerun).                                 *)
THEOREM StopsSayWhy == Spec => SaysWhy
<1>1. Init => ITyped /\ AllGood
  BY InitTyped, InitGood
<1>2. ITyped /\ AllGood /\ [Next]_vars => (ITyped /\ AllGood)'
  BY NextTyped, NextGood
<1>3. ITyped /\ AllGood /\ [Next]_vars =>
        [\A s \in Sites : ~Ended(s) /\ job'[s].step \in {"refused", "failed"} =>
           /\ job'[s].report # {}
           /\ \A c \in job'[s].report \cap Credentials :
                c \notin job[s].secrets \/ InVain(s, c)]_vars
  BY EndsSaying
<1>4. QED BY <1>1, <1>2, <1>3, PTL DEF Spec, SaysWhy
==============================================================================
