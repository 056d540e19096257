# Verification of the deployment platform

TLA+ models of this repository: how a client is onboarded and a server prepared,
how ports and domains are handed out to projects, what must be there before a
deployment starts, and what it does on a VPS, in a webroot or in a cPanel account.
The models are read off the code under `src/`; each definition names its lines in
`PROJECT.json` ("map"). TLC checks small instances, TLAPS proves the main
properties for every instance.

    tlc -config BlueGreenDeploys.cfg MCBlueGreen     # any run: PROJECT.json "runs"
    tlapm BlueGreenProofs.tla                        # the proofs

## 1. The system

The platform is a Node CLI (`engine/cli.mjs`) that GitHub workflows start. It
keeps no process and no database of its own: its state lives in git (the
registry file, the project configs), on the servers it reaches over ssh, and
with GitHub (files, secrets, pull requests, which workflow runs exist and wait).

| Part | State | Operations | What is hard | Modules |
|---|---|---|---|---|
| docker-vps driver, executor (`engine/drivers/docker-vps.mjs`, `engine/executor.mjs`) | on the VPS, per project: the marker `active_env`, a compose file per colour, the containers of each colour, the nginx conf, its link, the routes nginx has loaded, the certificate, the database | `planDeploy` (13 kinds of command), `planRollback` (5), `runPlan` | every command is an ssh call of its own which reads the marker again; a run stops anywhere; some failures are turned into status 0 | `BlueGreen`, `SharedVps` |
| workflows for services (`deploy-service.yml`, `rollback-service.yml`, `deploy.yml`, `_deploy-service.reusable.yml`) | the running and the pending run of a concurrency group | dispatch, start, cancellation of a superseded pending run | `deploy.yml` has no group; the groups of the others name the service and the environment, the state on the VPS is per project | `BlueGreen`, `SharedVps`, `Pipeline` |
| registry, allocator, registration (`registry.mjs`, `allocator.mjs`, `register.mjs`) | the registry: targets with pools or a port block, and the records of projects | `registerProject`, `allocatePort`, `allocateBlock`, `checkCollisions` | boundaries of the block range, order of services, exhaustion, case of domains | `Allocation` |
| registration workflow, CLI `register` (`register-project.yml`, `cli.mjs`) | git main; the checkouts of running jobs | checkout, compute, push; overwrite of the file | read-compute-write without a lock; lost pushes; retries | `RegisterWorkflow` |
| nginx and compose rendering (`nginx.mjs`, `compose.mjs`, `naming.mjs`) | none of their own | the lines with ports; names of containers and databases | the admin proxy keeps a literal port; every database binds one host port | `SharedVps` |
| static-hostinger driver and its workflows (`engine/drivers/static-hostinger.mjs`, `_deploy-static.reusable.yml`, `deploy-static.yml`, `deploy-from-registry.yml`, `rollback-static.yml`) | the webroot; the running and the pending run of a group | build, mirror with `--delete`, verify; dry run | a mirror is path by path and can be cut short; pending runs are superseded; groups and webroots do not correspond | `StaticSite` |
| preflight, platforms, resolution of Model B, the CLI's own refusals (`preflight-check.mjs`, `platforms.mjs`, `projects.mjs`, `cli.mjs`) | none | look-ups and a check list | three places have their own idea of what a deployment needs | `Gate`, `Pipeline` |
| build and output detection (`tools/detect-build.mjs`, `tools/detect-output.mjs`) | directory times before and after a build | heuristics | a build touches more than its output, or nothing | `Detection`, `Pipeline` |
| onboarding (`tools/onboard.mjs`, `onboard-*.yml`) | branches, files, secrets, pull requests at GitHub | a sequence of API calls | interruption and repetition; each push starts a deployment with the secrets of that moment; the client works in the repository too | `Onboarding` |
| server setup (`server-setup.mjs`) | packages, user, authorized keys and base path of a VPS | six commands, meant to be repeatable | status of a shell line is its last part's; stopping half-way | `ServerSetup` |
| cpanel driver (`engine/drivers/cpanel.mjs`) | subdomain, docroot | UAPI calls, mirror, verify | API errors are not failures of `curl -s` | `Cpanel` |
| schemas and their tools | none | JSON-schema validation by a library | the schema decides which configs exist | none |

How they interact: onboarding writes a project's config and workflow into its
repository; registration gives it a block of ports on a target and commits the
registry; the jobs of a workflow build it and pass the gates; a deployment reads
config and registry, turns the two colours' ports into compose files and an nginx
conf, and moves traffic between the colours. Registrations meet only in git.
Deployments meet on the VPS, in the marker, the conf and the one nginx; static
ones in the webroot.

What makes each part correct, in one line each: traffic moves only to a colour
that is ready, and the colour that serves is left alone (driver); one run of a
group at a time, and the last request is not forgotten (workflows); no port and
no domain has two holders (allocation); a grant is never lost and a retried one
is not granted twice (registration); nginx sends nobody to a container of
somebody else (rendering and registry together); after the last mirror the webroot
is one build, not a mixture (static, cPanel); what the gate lets through is not
refused afterwards, and what stops a job is named (gates); repeating an
interrupted setup or onboarding ends where an uninterrupted one would, and
undoes nobody's edit or access.

The hazards, each at the line where it bites and with the properties that watch
it, are in `PROJECT.json` ("hazards").

## 2. The modules

Abstract specifications are `Cutover` and `Ledger`. Pure operators are `Allocation`,
`Gate` and `Detection`. State machines are

| Module | What it is | Composes | TLC instances | Theorems |
|---|---|---|---|---|
| `BlueGreen` | driver, executor and workflows for one project on one VPS | implements `Cutover` | `MCBlueGreen` | `BlueGreenProofs` |
| `RegisterWorkflow` | jobs and processes around the registry | `Allocation`; implements `Ledger` | `MCRegister` | `RegisterProofs` |
| `SharedVps` | registration and deployment of several projects on one VPS | `Allocation` | `MCSharedVps` | `SharedVpsProofs` |
| `StaticSite` | the static driver and its four workflows, around one or more webroots | | `MCStaticSite` | `StaticSiteProofs` |
| `Pipeline` | the four ways to ask for a deployment, up to the first remote command | `Gate`, `Detection` | `MCPipeline` | `PipelineProofs` |
| `Onboarding` | the tool's calls to GitHub, and the client beside it | | `MCOnboarding` | `OnboardingProofs` |
| `Provisioning` | server setup and cPanel deployments, side by side | `ServerSetup`, `Cpanel` | `MCProvisioning` | `ProvisioningProofs` |

### BlueGreen

A state holds what is on the VPS (`marker`, `conf`, `enabled`, `loaded`,
`cert`, `file`, `up`, `migrated`), the workflow runs (`run[r]`: plan, image and
the command it is at), the request that waits in the concurrency group
(`pending`), and the number of faults so far.

*One action per ssh command*, named as the step of the plan is: `WriteComposeBlue`
is `write_compose_blue`, and so on through `ComposeDownOld`. `Target` and `Old`
are what `readColors` (executor.mjs:263-265) computes at the start of each
command from the marker as it is then; they are operators on the state, not
something a run remembers, since no run remembers them. `Exit` and `Finish` are
the end of a command: its status reaches the runner and the next command
follows, or the connection is lost with the status and the run stops
(`runPlan`, executor.mjs:400-419). `CommandLost`, `UpCutShort`,
`BootstrapCutShort` and `SwitchCutShort` are commands that never ran or stopped
inside. A run stops at the first status that is not 0 and undoes nothing, as in
the code.

Three shell details are kept because they decide what happens. The probes of
`health_check_target` and of `verify_live` are joined with `;` in subshells, so
the status is the last probe's (`Decisive`). The bootstrap's `nginx && certbot
|| echo` makes its failures status 0 when there are certificates to get. `sed`
on a conf that does not exist fails.

*Starting a run.* With `Grouped`, `Request`/`StartPending`: at most one run, and
one pending request which a newer one replaces, as GitHub's groups do with
`cancel-in-progress: false`. Without it, `StartNow`: `deploy.yml`. A group can
hold several runners in the model (`Runners`) although only one of them runs.

*The world outside* is `ReloadElsewhere`: the nginx of a VPS also reloads for
other projects, for certbot's renewals and at a reboot.

`Cutover` has the traffic, the colour on record and the image of each colour,
and four steps: `Replace` the idle colour's containers, `CutOver` all traffic at
once to a ready idle colour, `Record` the colour that has the traffic when it is
ready, `Retire` a colour. `KeepsPromise` maps
`loaded`, `marker`, `up` to them: every command, interrupted or not, is one of
these steps or no step. What hides in the mapping is that conf lines change one
by one while traffic does not, and that a retry begins anywhere.

### Allocation and RegisterWorkflow

`Allocation` has no variables. `Grants(recs, kind, block, q)` is the set of
records that `registerProject` may add for the request `q`; it is empty when the
code throws, so every `throw` of the code is a way to be empty: already
registered, a domain in use (after `toLowerCase`), no free block, more services
than half a block, a fixed port in use, no pool of that name, an exhausted pool.
Pool ports are granted in the order of the services, each seeing those before it
(`register.mjs:96-99`), and a fixed port is taken as it is.

`RegisterWorkflow` has the head of main with a count of its commits, and the
jobs with the registry each has checked out. `Checkout`, `Register` (computation
on the copy, or an error), `Push` when main is where it was, `PushRejected` when
it is not, `JobDies` anywhere, also after the push (`Push`'s second half),
`WriteFile` for `cli.mjs register --execute` on a plain file, `EditBlock` for an
operator who commits another `port_block`.

`Ledger` is the atomic version: an entry per step, compatible with all that are
there, nothing removed. Git's check on push makes the read-compute-write of
overlapping jobs one such step.

### StaticSite

A version of a file is the commit that built it, or the placeholder that a
workflow writes when there is nothing to serve. `site[w]` is what a webroot has
at each path, `head` the last commit pushed. A run of a group goes through
`Checkout`, `Build`, `Mirror` and `Verify`; `dir` is its build and `todo` the
paths it has still to write or delete.

`Outputs(g, c)` is what the build step of the group's workflow may leave to be
published from commit `c`, the empty set where the job fails. The three workflows
differ here: `_deploy-static.reusable.yml` fails with the build and puts a
placeholder into an empty directory; `deploy-static.yml` ignores a failed build
(`|| true`), so that any part of it may be there, and always has an index.html;
`deploy-from-registry.yml` has no safety net. `detect-build.mjs` and
`detect-output.mjs` appear by their outcome: a site with nothing to build, whose
config names no `output_dir`, leaves no directory that has changed.

Requests are in the groups, one pending at most, the latest (`Push`, `Dispatch`,
`RequestRollback`, `Start`). A request is to be executed or to be a dry run: on a
push `deploy-static.yml` has no inputs and the engine is called without
`--execute` (`PushMode`, `PrintPlan`). Model B clones the branch when the job gets
there (`Checkout`). `Rollback` always fails, since the driver's `planRollback`
throws. `Root` is `hostingerConnection`: the secret before the config.

`Mirror` takes the paths in any order, which is what rsync and scp leave open, and
`Lost` may end a run anywhere. How a group transfers is in the config and so a matter
of the commit (`Transfer[g][c]`). An upload over ftps never gets that far
(`UploadRefused`): lftp is given the text `$FTP_PASSWORD` as its password
(`executor.mjs:191-199`), and `spawnSync` starts it without a shell (line 413).

### SharedVps

`BlueGreen` knows one project and its colours; ports are not in it. `SharedVps` has
the ports and is coarse in the rest: the records of the VPS in the registry, what
containers run and on which port, and per project the marker, the compose files,
the conf as a function from its lines to ports, and what nginx has read of it. A
request `q` is an environment of a project; its run is `at[q]` a command.

`Register` adds what `Grants` of `Allocation` allows. `Dispatch` starts a run, or
fails it where `cli.mjs` and `planDeploy` throw (`Deployable`). The commands use
`PortOf`, the port of a service and colour on record (`cli.mjs:393` for a record
without a green one). `Up` is `docker compose up`: a port that somebody else has
bound fails it, after some of the containers may have started. `Lines` are the
lines `set $<s>_port` of a project's server blocks; the admin site has two, its
own and the backend's (`nginx.mjs:87`), and `SwitchPorts` is a `sed` per service
over all of them. The probes ask the port and not the container.

Left to `BlueGreen`: rollbacks, images, migrations, certificates, links. A
registration is one step here, `RegisterWorkflow` says why it may be. A project
and environment has one run at a time.

### Gate, Detection and Pipeline

`Gate` has what a deployment must have as sets: `Failures` is `runPreflight`
with `requiredSecrets`, `DeployRefusals` and `ServiceRefusals` are what the
commands refuse by themselves (they stop at the first thing, `FirstOf`),
`MissingInputs` is the platform preflight of `deploy.yml`, `ResolveErrors`,
`Resolve` and `Mapped` are Model B. An environment of a config is a record of the
fields that any of these look at.

`Detection` has `detectBuild` and `resolveOutputDir`, the latter over snapshots,
functions from directories to times.

`Pipeline` runs the jobs through them: `ResolveProject`, `Preflight`, `Build`,
`Gate`, `Deploy`, as many of these as the way of the site has. `Queue` freezes config
and secrets as they are then. `Build` chooses one of the snapshots that the site's
build may leave. `Deploy` stands for the engine's refusals and its first remote
command, which fails when host or user are placeholders, when the credential that the
driver chooses is not there (`CredentialOf`), and always over ftps (`Unreachable`);
`StaticSite` and `BlueGreen` go on from there. People read the report of a job
that stopped and mend one item of it at a time (`SetSecret`, `EditConfig`), while
others may already have queued the next.

### Onboarding

One step per call to GitHub: `CheckPrerequisites`, `CreateBranch`, `ReadFile` and
`WriteFile` (`putFile`'s GET and PUT, with the sha that GitHub checks),
`StageFile` and `OpenPull` for `--via-pr`, `SetSecret`, `Dispatch`. Any call may
not arrive (`Unreached`) or lose its answer after it took effect (`Lost` in each);
where the tool catches errors it goes on, elsewhere it dies, and is started again
in any mode. The client edits files, sets secrets and merges; a merge keeps the
side that changed since the fork, the client's own where both did. Each push to
`main` queues a deployment with config and secrets of that moment, which takes the
place of one that waits (`Queued`, `RunDeployment`).

### ServerSetup, Cpanel and Provisioning

`ServerSetup` has the six commands of `planServerSetup` with the status their shell
lines have: `command -v docker || (curl | sh)` ends well without a download,
`enable docker; enable nginx` has the second one's status, `id || useradd; usermod`
fails without the group `docker`. `Matches` is `grep -qF` with the key as it is
passed. A run has the flags it was called with and the commands still to do.

`Cpanel` has the steps of `planCpanel`: `CallUapi`, `Upload` path by path, and
`VerifyAddress`. The text `$CPANEL_API_TOKEN` reaches UAPI as it is and `curl -s`
ends well whatever UAPI answers, so `CallUapi` changes nothing, and the subdomain is
there when somebody has made it (`CreateByHand`).

`Provisioning` is the two side by side; they share no state.

## 3. Runs

| Run | Distinct states | What it shows |
|---|---|---|
| BlueGreenDeploys | 377247 | deployments of one group, images good and bad, certificates, 2 faults |
| BlueGreenRollbacks | 60758 | deployments and rollbacks, one at a time, certificates, foreign reloads, 3 faults; liveness: drift heals |
| RegisterBlocks | 22523 | two jobs race for the blocks of a VPS; liveness: what is dispatched again gets through |
| RegisterPools | 22015 | pools, fixed ports, external host, one process on a file, an edited block |
| SharedVps | 41934 | two projects register and deploy on one VPS, 2 faults, foreign reloads; liveness: nobody is shut out |
| StaticSite | 314804 | two sites, two workflows, 3 commits, 1 lost run; liveness: the last commit is published, unless it is for ftps |
| Pipeline | 26114 | four ways to ask for a deployment, incomplete configs and secrets; liveness: mending what is printed is enough where the config names the ssh key |
| Onboarding | 196507 | five kinds of client, straight, by pull request and `--check-only`, 1 lost call; liveness: calling again publishes the site |
| Provisioning | 254880 | four ways to call the setup, two cPanel accounts, 2 troubles and 1 lost run; liveness: repeated runs prepare and publish |

Bounds common to all: faults are bounded (`MaxFaults`, `MaxTroubles`, `MaxLost`,
`MaxEdits`), runs, jobs and calls are not: one ends and others start for ever,
the state space is finite nevertheless.

- **BlueGreenDeploys**: `SwitchOnlyToReady`, `LiveColourUntouched`,
  `ServedImageReady`, `KeepsPromise`. Two services (`backend`, `web`), the least
  number for which "some lines of the conf" and "the last probe" mean anything. Two
  faults: one to leave a half-done state behind, one to interrupt the run that
  finds it. Two runners, so that a run's end and the next one's start are
  different runs.
- **BlueGreenRollbacks**: `MarkerFollowsTraffic`, `CompletedRunAgrees`,
  `RollbackLeavesLiveUp`, and under fairness `DriftHeals`. Three faults: a
  deployment, a rollback and a repeated deployment can each be interrupted. One
  runner and no group: with one runner the runs follow each other, requests that
  wait add nothing.
- **RegisterBlocks**: `PortsDisjoint`, `PortsDistinct`, `NoGrantLost`,
  `KeepsLedger`, and under fairness `RetriesRegisterAll`. The range 5..13 in blocks of
  4 has room for two blocks and one left-over port; five requests compete, one of
  them too large for half a block, two of them for one domain in different letters.
- **RegisterPools**: `KeepsLedger`. Pools 1..3 and 3..3, which overlap and run out;
  a fixed port inside a pool; one process on the registry file (`SharedFile`), which
  is what an operator's shell is.
- **SharedVps**: `OwnTraffic`, `FinishedRunMovesAll`, and under fairness
  `NoOneShutOut`. One project has a backend and an admin site, so that a conf has
  two lines for one port, and is on record; the other has a database and registers
  while the first deploys. The block range is that of RegisterBlocks. Two faults:
  one in each project, or two in a row in one.
- **StaticSite**: `RestMeansHead`, `FinishedRunIsExact`, `HeadGetsPublished`. Two
  paths, so that a mirror can be half done and a build can lack a file; three
  commits: one with both files, one that does not build, one that leaves an empty
  directory. One site is deployed by `deploy-static.yml`, over rsync until the third
  commit turns its config to ftps, the other by Model B over rsync and without
  `output_dir`. `HeadGetsPublished` claims nothing of a head that is for ftps
  (`Publishable`). The reusable workflow differs from
  them only in `Outputs`, and the theorems of section 5 are for all three. The
  webroots are different and the groups meet only in `head`. `deploy.yml` can also
  publish a static site, from a directory that exists already and without any
  group; `Pipeline` has that way, `StaticSite` has not.
- **Pipeline**: `GateCovers`, `NeverGuesses`, and under fairness `FixAndRerun`. The
  configs are complete, or lack a thing or two that different parts look for
  (environment, driver, type, build, webroot, ref, services, host, credential),
  one is what onboarding writes, one is of a driver that `deploy` is not for. Three
  are for ftps or name no `auth`; `FixAndRerun` makes no claim about those (`ByKey`), as no
  secret and nothing that is printed gets them through.
  Secrets start empty, the platform's with or without an override of the webroot.
  Builds touch nothing, their output, or more than it. A history is about one
  client, one service, or the two sites that share the platform's secrets.
- **Onboarding**: `UndisturbedCompletes`, `DoneMeansDeployed`, `EditsSurvive`, and
  under fairness `RerunPublishes`. Clients: one secret, three secrets, a default
  branch that is not main, no first deployment, a token that may only read. One
  lost call: it breaks off one call of the tool, and the next finds what it left;
  several such calls in a row are there anyway, since a repeated call also fails
  by itself (pull request open, secret set).
- **Provisioning**: `DoneIsPrepared`, `KeyOnce`, `AccessKept`, `DoneIsServed`, and
  under fairness `RerunPrepares`, `LastBuildPublished`. Servers start bare or
  with packages, with or without the user and somebody else's key. Flags: all,
  without packages, without a user, with a key that ends in a newline. The second
  build of the site lacks a file of the first.

Every property of a passing run has a mutant in `PROJECT.json`: a plausible slip
in the code (an exit status dropped, colours swapped, a forced push, a stale
revision, a PUT without sha) under which the run finds the property violated. The
mutated definitions are the ones commented "Variant" in the modules; nothing else
uses them.

Deadlock is checked in every run: there is always someone who may dispatch.

### Fairness

Commands, steps and jobs that have started are weakly fair everywhere: a started
job runs its plan to the end without waiting for anyone (`runPlan` is a loop of
`spawnSync`), GitHub starts the pending run of a free group. Nothing is assumed
about faults, foreign reloads, edits by others or pushes; faults stop because
they are bounded, without which nothing heals.

The code does not retry by itself, so what brings a system forward after a failure
is people who try again, and the liveness properties say what their retries
achieve. These retries are strongly fair where something else may keep getting in
between: `StartNow` of a deployment whose image answers (`DriftHeals`; runs of a
broken image and rollbacks may come between them for ever), the dispatch of a
registration that is missing (`RetriesRegisterAll`), `Dispatch` of a project
(`NoOneShutOut`), the dispatch with `execute` of a site that is behind, and its
turn in the group (`HeadGetsPublished`), mending one item that was printed
(`FixAndRerun`), calling the onboarding tool otherwise than with `--check-only`
(`RerunPublishes`), a setup with all flags and a deployment of the last build
(`RerunPrepares`, `LastBuildPublished`). For onboarding the client also merges
what is open.

## 4. Disagreements between code and documents

Three runs (`expect: violation`) check what a document or comment says and find
the code to do otherwise; `PROJECT.json` "findings" quotes the line.

| Run | What happens |
|---|---|
| DeployStopsLive | `compose_down_old` reads the marker after `write_active_marker` has changed it, so OLD is the colour that has just gone live and every successful deployment takes the serving containers down |
| RollbackStays | in a rollback OLD is the colour the marker names, so nginx stays where it is |
| EnvironmentsMeet | marker, compose files and conf are named after the project alone, so two environments on one VPS switch each other's server blocks |

Because of the first, "the colour that serves is running" is not an invariant of
this code, and `ServedImageReady` and `LiveColourUntouched` say what does hold:
*if* the serving containers run then their image is a migrated one that answers,
and nothing but `compose_down_old` replaces them. "Answers" means the last
service's probe (`Decisive`), the only one that decides (`executor.mjs:326`).

Limits of the properties, seen with TLC or in the code while they were formulated.
They have no run of their own; the hypotheses of the theorems, the guards in the
properties and the constants of the runs are where they show.

Deployments on a VPS:

- A service that fails its health check gets the traffic if the last one passes.
- The first deployment of all goes to green: a missing marker reads as blue.
- A first deployment whose certbot failed leaves a conf without a certificate; the
  conf exists, so no later deployment asks for one, although docker-vps.mjs:11 says
  that a later deployment's conf "already has SSL".
- `ServedImageReady` fails with `Plans = {"deploy", "rollback"}`: a failed
  deployment has written its image into both compose files, and a rollback
  brings the live colour up from its file.
- `SwitchOnlyToReady` fails with two runners and without a group, as `deploy.yml`
  has none: one run writes the marker between the other's check and its switch.
- With `SharedNginx`, traffic moves at a foreign reload between `switch_ports`
  and `nginx_reload`, and long after a run was given up there.
- The `sed` of `set $<s>_port` reaches the second line of the admin block only
  because the backend is called "backend"; an admin site beside a service with
  another name makes `planDeploy` throw. An environment in which no service has a
  domain cannot be deployed either: `renderProjectNginx` throws.
- Every database binds host port 5432 (`compose.mjs:79`; the schema has no
  `host_port`). With two projects that have one, `NoOneShutOut` fails.
- `OwnTraffic` and `NoOneShutOut` fail with records as in
  `config/registry.example.yaml`: without a green port green is port + 1
  (`cli.mjs:393`), which there is the blue one of another environment.

Registration:

- `PortsDisjoint` fails after an edit of `port_block` (`MaxEdits = 1` with
  `ShiftedBlock` on `BlockRequests`): free bases are compared with assigned
  bases as numbers, blocks are not compared with blocks.
- `PortsDistinct` fails in the pool model when a request asks by number for a port
  of a pool that it also uses: fixed ports are checked before pooled ones are
  granted (`register.mjs:143`), so both can be one port.
- `NoGrantLost` fails with `SharedFile` and two jobs: the second write loses the
  first one's record.
- The CLI registers a service with a port or with a domain, so in the pool model
  records with routes come only from hand-written registries. A deployment of a
  service needs `deploy.registry.yaml`, which onboarding never adds.

Static sites and cPanel:

- Two environments or workflows with one webroot mirror into it at the same
  time, as the repository's `DEPLOY_WEBROOT` goes before the config: neither
  `FinishedRunIsExact` nor `RestMeansHead` holds then.
- The run that a push starts in `deploy-static.yml` has no inputs, gets no
  `--execute`, succeeds and publishes nothing.
- `FinishedRunIsExact` fails with scp, which deletes nothing; every file of the
  build is there all the same (`MirrorsDeliver`).
- No upload over ftps ever gets in. lftp is given the text `$FTP_PASSWORD` as its
  password (`executor.mjs:191-199`, for cPanel 88-96), `spawnSync` starts it
  without a shell (line 413) and lftp expands no variables; nor does a workflow install
  lftp. docs/manager-onboarding-guide.md:95-96 tells clients whose hosting uses FTP to
  "add `FTP_PASSWORD` instead", as docs/usage-guide.md:48 and docs/onboarding.md:60 do, and
  the comment at `executor.mjs:191` says "executor requires FTP_PASSWORD in env at run
  time": with the secret set the deployment fails at its first command all the same.
  The default auth of `onboard-site.yml` is ftps. So `HeadGetsPublished` and
  `FixAndRerun` fail for such configs, and exclude them; `Cpanel` leaves open whether
  the host lets an upload in.
- A Model B build that leaves its directory empty empties the site, and `verify` fails
  after the fact.
- `rollback-static.yml` announces to repoint a `current` link, and
  detect-build.mjs:20-21 that without a build "the deploy still runs": the first
  always fails, the second fails too unless `output_dir` is in the config.
- The tool never creates a cPanel subdomain, as cpanel.mjs:4 says it does.
  The docroot `public_html/<sub>`, its default, is inside the main site's own.

Gates:

- The gate looks at neither host nor user, nor for a placeholder in them, nor
  whether a static config has the driver that `deploy` is for. These are refused
  or fail after the build; `GateCovers` lists them.
- Without `auth` the gate asks for the ssh key and the driver uses ftps, so the job
  fails at its login whatever is set; nothing that is printed names `auth`.
- `GateCovers` is about the name of the credential. Over ftps the gate passes when
  `FTP_PASSWORD` is set, and the upload fails (above).
  `FTP_WEBROOT` counts for the driver with every auth, for the gate only with ftps.
- The gate refuses `--image service=ref`, which the CLI needs for two services
  or more: such an environment cannot get through `_deploy-service.reusable.yml`.
- The secret checks of `deploy.yml`'s preflight always pass: a secret that is not set
  is an empty variable, which counts. `deploy.yml` does not pass `DEPLOY_WEBROOT` on.
- In Model B a `secret_ref` that is not set falls back to the platform's own key,
  and the platform's `DEPLOY_*` secrets override every project's config.
- `.output/public` in `KNOWN_OUTPUTS` never matches, the snapshot has top-level
  entries only; a build that overwrites files in place does not change the time of
  its directory and counts as no output.

Onboarding and setup:

- With a default branch other than `main` nothing ever starts a deployment,
  though the pull request says that every push to it deploys (`onboard.mjs:228`);
  a dispatch that failed is reported as "triggered first deploy".
- An update of a secret answers 204, and parsing its empty body throws
  (`onboard.mjs:242`): a repeated call dies at the first secret that is set, and
  later ones are never set. `RerunPublishes` is for a single secret for that
  reason.
- A token that may only read passes the prerequisites of `--via-pr` and cannot
  open a pull request; nothing is half done then (`ReadTokenHarmless`). A deploy.yml of the client's own is overwritten.
- A setup without `--deploy-user` may end well without docker, or with docker not
  started, and a repeated one hands the base path back to root.
- A `DEPLOY_PUBLIC_KEY` that ends in a newline matches any line of
  `authorized_keys`; the key is then not added.

## 5. Proofs

Assumptions are the named `ASSUME`s of the modules: the shape of the constants, and
nothing about their size. Sets of services, images, runners, jobs, targets,
requests, clients, flags, sites and builds are arbitrary, so are the bounds on
faults. Two of them say something of the world: builds do not turn the clock back
(`RepoAssumption`), and the records that a VPS starts with have a block each where it
has blocks (`RecordedAssumption`). `TypeCorrect` of each module holds in every mode.

### Hypotheses

What a theorem needs beyond that is in its statement. Where the code does not
guarantee it in every mode, it is a condition on the behaviour (`Spec /\ []H`), which
is as weak as the argument allows, and one theorem says for which constants it holds
by itself. Section 4 has what goes wrong without them.

| Hypothesis | What it says | Where the code sees to it |
|---|---|---|
| `OneAtATime` (BlueGreen) | two runs of a project do not overlap | the group of `deploy-service.yml` and `rollback-service.yml` (`GroupRunsOneAtATime`); for `deploy.yml` it is up to whoever dispatches |
| `SiteLoaded` (BlueGreen) | when somebody else reloads nginx, no switched conf is waiting for a reload that will not come | an nginx of one's own (`OwnNginxLoaded`); a shared one as long as no command is lost (`ReloadsElsewhereHarmless`) |
| `Plans = {"deploy"}` | no rollbacks | what a rollback breaks is in section 4 |
| `OneAtATime` (Register) | processes that write one file do not overlap | empty with git, whose check on push does the work; one operator's shell |
| `EditsFit` | an edit of `port_block` does not cut through ports on record | true of an edit of `end`, or of a fresh range; vacuous without edits (`NoEditsFit`) |
| `PoolRequestsApart` | no request asks by number for a port of a pool that it also uses | nothing does for pools; it is empty for targets with a block |
| `Separate` (SharedVps) | the ports on record, the green ones included, are apart, and no database's | `registerProject` with blocks (`RoutesAreOwn`, by `ProperSeparate`); with hand-written records, whoever writes them |
| `Apart`, `Outside` | a project has one environment on the VPS; database ports are not in the block range | nothing; the example registry breaks the first |
| `RunsApart`, `OwnRoots`, `Deletes` (StaticSite) | no two runs mirror into a webroot at a time; no two groups have one webroot; no scp | one group per webroot; rsync deletes, scp does not |

### BlueGreenProofs

*Deployments.* `ServedImageReady` is not inductive: whether the switch is
safe depends on what happened several commands earlier, and what a run finds
depends on where its predecessor stopped. The inductive invariant `IInv` says of the
run under way what its commands have achieved: after `migrate` the target is
migrated, from the health check to the marker it is ready; before the reload the
conf names the target for every service, and before the marker is written traffic
is at the target. Of the site it says (`Served`) that an unlinked conf has no
traffic, and that where the active colour serves, its containers are ready unless
they are down. A foreign reload keeps this because, by `SiteLoaded`, it loads what is
loaded. `NextInv` has one step per command; the `...Leads` lemmas say once what the
end of a command does to the run. From `IInv` follow `ServedImageIsReady`,
`TrafficMovesToReady`, `LiveContainersKept`, and, with the effect of each command on
the three mapped variables (`Effects`), `DeploymentsImplementCutover`: initial states
are initial, a step is a step of `Cutover` or changes none of its variables.
`CutoverKeepsTrafficTogether` is about the abstract side, for whatever implements it.

*Deployments and rollbacks.* The invariant `Sequence` needs no hypothesis but
`OneAtATime`. It says (`Placed`) conf at the run's colour before the reload, traffic too
before the marker, both at the marker afterwards, and in a rollback that the live
colour is up. A foreign reload keeps it, because by then conf has the same colour.
From it follow `MarkerIsLast`, `CompletedRunsAgree`, `RollbackRestoresLive`, and with
`SiteLoaded` `NeverMixed`: the only half-switched conf is one that nginx has not read.

### RegisterProofs

- `HoldersAndDomainsUnique` needs nothing: every copy that anybody has of the registry
  is exclusive by itself, so an overwrite replaces one such registry by another.
- `NothingLost`, `SuccessIsRegistered`: the copy of a job that git would let push is
  main, or main with one record granted on main as it is (`CopiesCurrent`).
- `PortsNeverShared`: its core is `DifferentBlocksDisjoint`, that the ports of two bases
  a multiple of `size` apart do not meet (integer arithmetic on
  `base + size/2 + i`, from `Len(services) <= Half(block)`), and its invariant says of
  every copy of the registry, not only of main, that the holders are separate, since
  a copy is what becomes main.
- `ColoursNeverCollide`: within a record the halves of a block keep colours apart; from
  pools, a granted port is none that the services before it have (`AllDistinct`, again for
  every copy).
- `RegistrationsImplementLedger`: a push, or a write of the file, is `Enter`.
  `LedgerKeepsApart` is what the ledger gives to whoever implements it.

### SharedVpsProofs

`RoutesFollowRegistry`: the invariant `Own` says that the port of each container and of
each line, in the conf and as loaded, is one that the record of its own project,
environment and service has. It survives registrations because the registry only
grows, and lost runs because no command writes another port. Where the ports on
record are apart, two owners of one port are one. That they are apart with blocks is
`ProperSeparate` (different bases are a multiple of `size` apart); `RoutesAreOwn` is the
two together. `OthersNeverStopped` is an action property of `Up` and
`ComposeDownOld`. `FinishedMoves` has the invariant `Moves`, what each command has made
of the lines of the project's conf; other projects' commands keep it (`OthersMove`).

### StaticSiteProofs

The invariant has three parts per group: `Delivered`, that what has been mirrored so
far is the build's, and all of it once the mirror has ended (`Whole`); `Genuine`, that
the directory is an output of the run's commit; `Current`, that what waits for a group
which pushes start is the head, and that so is the run when nothing waits. The
first is kept because `todo` starts as all paths that the transfer touches and a
path leaves it as it is written; the last because a push replaces what waits, and
nothing else makes a request for an older commit. `MirrorsDeliver` and
`HeadServedAtRest` are what this gives for any transfer, `MirrorsExact` and `HeadAtRest`
what it gives where `todo` starts as all paths.

### PipelineProofs

`ITyped` is the type invariant with the shape of jobs; `AllGood` says of each step what
the job has behind it: at `deploy`, that the gate found nothing, or in Model B that
`ResolveErrors` is empty; from `gate` on, that the directory is what `resolveOutputDir`
makes of the snapshots. `GateHolds` compares the gate's list with the engine's case by
case (`ClientCovered`, `ServiceCovered`), `ResolverHolds` the generated config with
it. `OutputIsNoGuess` is a statement about `ResolveOutputDir` (`FoundChanged`,
`FoundAlone`) and the job that kept its inputs.

Two theorems are the safe half of `FixAndRerun`, that mending gets a deployment with a
key through.
`StopsSayWhy`: whoever mends is told something, and no credential that is set
already, with the two exceptions of `InVain`: the form of `deploy.yml` asks for cPanel's
token in any case, since it does not hand it on, and lftp is refused with any
`FTP_PASSWORD`, since it does not get it. `SecretsNeverHurt`: what has been mended stays mended, since
one secret more stops nothing that went through.

### OnboardingProofs

`EditsKept` needs no invariant but the types: each step that changes `main` has
looked. `UndisturbedEnds`: `Undisturbed` says of a call that nothing has come in
the way of that the file it is about is still the one it has read, that the branch is
there and the secrets to come are not. `DoneIsDeployed` adds `OnTheWay`: files and
secrets written so far, and that after `dispatch` the deployment that waits or ran
last had all of them (`Complete`).

`DeploymentsFindTheirConfig` is about disturbed calls too. Its invariant `ConfigFirst`
says that there is no workflow without a config on the default branch and on
the setup branch, and that a branch forked from a tree with a config still has it,
which is what a three-way merge needs. `ReadTokenHarmless` follows a call without write
access to the pull request that it cannot open (`ReadOnly`), `CheckOnlyWritesNothing` one
that only checks.

### ProvisioningProofs

`SetupInv` says that every command the run has given has had its effect; at the end that
is all of the plan (`DoneMeansPrepared`). No later command and no other person
undoes it (`GainsStay`), which gives `RerunUndoesNothing` and `PreparedForGood`, the safe
half of `RerunPrepares`: a run without `--deploy-user` is the one way back, as
`EnsureBase` then gives the base path to root. `KeyAtMostOnce` and `AccessIsKept` rest
on four lemmas about appending to a sequence. `CpanelInv`: from `verify` on the
docroot is exactly the build.

### Only model-checked

Liveness under fairness is out of the prover's reach: `DriftHeals`,
`RetriesRegisterAll`, `NoOneShutOut`, `HeadGetsPublished`, `FixAndRerun`,
`RerunPublishes`, `RerunPrepares`, `LastBuildPublished`. Every other property of a
passing run is stated by a theorem.

## 6. Not modelled

- JSON-schema validation (`schemas/`, `tools/validate.mjs`, `tools/negative-check.mjs`,
  `tools/run-tests.mjs`, `validate-schemas.yml`): a library checks documents, without
  state or order. The models take from the schemas which configs exist.
- The wording of compose files, confs, workflows and messages; `.htaccess`, env
  files, networks and volumes: nothing in the repository reads them again. Of
  what is rendered, only lines with ports and names that can collide are kept. The
  stub blocks on port 80 (`nginx.mjs:61-65`) have ports written as numbers and are
  replaced by certbot; they are left out.
- What an old image does on a database that a failed deployment has migrated, and
  the contents of env files (`executor.mjs:287`): there is no state in the
  repository that says what would be right.
- Two services of one project in concurrency groups of their own, and two runs of
  one project and environment in `SharedVps`: the state they share is per project,
  as with `deploy.yml` (section 4).
- Several environments of a project on one VPS beyond EnvironmentsMeet, which shows
  that nothing of the kind is kept apart.
- Two server setups at the same time; private clones and dry runs in `Pipeline`.
