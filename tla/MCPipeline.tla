------------------------------ MODULE MCPipeline ------------------------------
(* Instances of Pipeline for TLC.                                           *)
EXTENDS Pipeline

CONSTANTS
  shop, api, acme, demo,   \* sites
  public_html, vps1

MCWay == [s \in Sites |->
  CASE s = shop -> "client" [] s = api -> "service" [] s = demo -> "button"
    [] OTHER -> "project"]

Static == [type |-> "static", driver |-> "hostinger", auth |-> "ssh_key",
           host |-> "literal", username |-> "literal", webroot |-> public_html,
           build |-> "declared", command |-> "none", output |-> NoDir, ref |-> NoValue,
           services |-> {"site"}, record |-> {}]
Docker == [Static EXCEPT !.type = "docker", !.driver = "vps", !.ref = vps1,
                         !.build = "none",
                         !.services = {"backend"}, !.record = {"backend"}]
Entry == [form |-> "valid", driver |-> "hostinger", auth |-> "ssh_key",
          host |-> "literal", username |-> "literal", webroot |-> public_html,
          secret_ref |-> "ACME_KEY", command |-> "npm ci", output |-> NoDir]

MCGoal == [s \in Sites |->
  CASE s = shop -> [Static EXCEPT !.output = "dist"]
    [] s = api  -> Docker
    [] s = demo -> Static
    [] s = acme -> [Entry EXCEPT !.output = "dist"]]

\* Configs that are complete, that lack something, and that onboarding writes.
MCConfigs == [s \in Sites |->
  CASE s = shop -> {NoEnvironment, [Static EXCEPT !.host = "placeholder", !.username = "placeholder"],
                    [Static EXCEPT !.auth = "ftps", !.host = "unset"],
                    [Static EXCEPT !.auth = "none", !.build = "none", !.webroot = NoValue],
                    [Static EXCEPT !.driver = "cpanel", !.username = "unset"],
                    [Static EXCEPT !.driver = "vps", !.ref = vps1, !.webroot = NoValue]}
    [] s = api  -> {Docker, [Docker EXCEPT !.ref = NoValue, !.record = {}],
                    [Docker EXCEPT !.driver = "none", !.services = {}],
                    [Docker EXCEPT !.type = "none"],
                    [Docker EXCEPT !.services = {"backend", "web"}, !.record = {"backend", "web"}]}
    [] s = demo -> {[MCGoal[demo] EXCEPT !.host = "placeholder"]}
    [] s = acme -> {NoValue, [MCGoal[s] EXCEPT !.output = NoDir],
                    [Entry EXCEPT !.form = "malformed", !.host = "unset"],
                    [Entry EXCEPT !.secret_ref = NoValue, !.webroot = NoValue, !.auth = "none"]}]

\* The platform's secrets are those of its demo.
MCStanding == [o \in Owners |-> IF o = Platform THEN {{}, {"DEPLOY_WEBROOT"}} ELSE {{}}]
MCImages == [s \in Sites |-> IF s = api THEN {{"ref"}} ELSE {{}}]
MCChosen == [s \in Sites |-> "hostinger-ssh"]

\* A build touches what it pleases beside its output.
Before == [src |-> 1, public |-> 1]
MCRepo == [s \in Sites |->
  [files |-> {"package.json", "yarn.lock", "src", "public"}, script |-> "build",
   before |-> Before,
   after |-> {Before, [src |-> 1, public |-> 2],
              [src |-> 1, public |-> 1, dist |-> 2], [src |-> 2, public |-> 2, dist |-> 2],
              [src |-> 2, public |-> 1, cache |-> 2]}]]
==============================================================================
