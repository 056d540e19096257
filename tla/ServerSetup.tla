------------------------------ MODULE ServerSetup ------------------------------
(****************************************************************************)
(* The command server-setup: the plan of engine/server-setup.mjs, run one   *)
(* command after the other over ssh (engine/executor.mjs) on a server where *)
(* others work too. A command may be cut short or its answer lost; the run  *)
(* then stops and is started again, with the same flags or with others.     *)
(****************************************************************************)
EXTENDS Naturals, Sequences, SequencesExt

CONSTANTS
  Flags,        \* the ways in which it is called, see FlagSet
  OtherKeys,    \* keys of other people
  DeployKey,    \* the deploy key
  MaxTroubles   \* bound of cut commands, lost answers and failed downloads

\* packages: "skip" with --skip-packages; user: "deploy" with --deploy-user; key: "trimmed" as
\* read from --pubkey, "newline" from DEPLOY_PUBLIC_KEY with the line's end, or "none".
FlagSet == [packages : {"install", "skip"}, user : {"deploy", "none"},
            key : {"trimmed", "newline", "none"}]
ASSUME FlagsAssumption == Flags \subseteq FlagSet
ASSUME KeyAssumption == DeployKey \notin OtherKeys
ASSUME TroublesAssumption == MaxTroubles \in Nat

VARIABLES
  installed,    \* the packages that are on the server
  user,         \* the groups of the deploy user, "absent" without one
  authorized,   \* the lines of its authorized_keys, none without the file
  base,         \* the owner of the base path, "absent" without it
  flags,        \* how the run was called
  todo,         \* the commands that the run still has to give
  ended,        \* "no" while it goes on, then "done" or "failed"
  troubles

server == <<installed, user, authorized, base>>
setupVars == <<installed, user, authorized, base, flags, todo, ended, troubles>>

Packages == {"docker", "nginx"}

SetupInit ==
  /\ installed \in {{}, Packages}
  /\ user \in {"absent", "none"}
  /\ authorized \in {<<>>} \cup {<<k>> : k \in OtherKeys}
  /\ user = "absent" => authorized = <<>>
  /\ base = "absent"
  /\ flags \in Flags
  /\ todo = {} /\ ended = "failed"
  /\ troubles = 0
------------------------------------------------------------------------------
\* planServerSetup: the commands, and their order. Enabling docker and nginx changes nothing
\* that is kept here.
Rank == [docker |-> 1, nginx |-> 2, enable |-> 3, user |-> 4, key |-> 5, base |-> 6]
Commands == DOMAIN Rank

Plan(f) == {c \in Commands :
  \/ c \in {"docker", "nginx", "enable"} /\ f.packages = "install"
  \/ c = "user" /\ f.user = "deploy"
  \/ c = "key" /\ f.user = "deploy" /\ f.key # "none"
  \/ c = "base"}

StartSetup(f) ==
  /\ ended # "no"
  /\ flags' = f /\ todo' = Plan(f) /\ ended' = "no"
  /\ UNCHANGED <<installed, user, authorized, base, troubles>>

Turn(c) == ended = "no" /\ c \in todo /\ \A d \in todo : Rank[c] <= Rank[d]

\* The command c has ended well.
Goes(c) ==
  /\ todo' = todo \ {c}
  /\ ended' = IF todo \ {c} = {} THEN "done" ELSE "no"
  /\ UNCHANGED flags

Passes(c) == Goes(c) /\ UNCHANGED troubles

Dies == todo' = {} /\ ended' = "failed" /\ UNCHANGED flags

Trouble == troubles < MaxTroubles /\ troubles' = troubles + 1

\* After its effect, the command's answer comes or is lost.
Answer(c) == Passes(c) \/ (Dies /\ Trouble)

\* Variant: the distribution's package.
InstallDockerIo ==
  /\ Turn("docker")
  /\ installed' = installed \cup {"docker.io"} /\ Answer("docker")
  /\ UNCHANGED <<user, authorized, base>>

\* "command -v docker || (curl | sh)": without the script sh does nothing, and that well.
InstallDocker ==
  /\ Turn("docker")
  /\ \/ installed' = installed \cup {"docker"} /\ Answer("docker")
     \/ /\ UNCHANGED installed
        /\ Goes("docker") /\ Trouble
  /\ UNCHANGED <<user, authorized, base>>

InstallNginx ==
  /\ Turn("nginx")
  /\ installed' = installed \cup {"nginx"} /\ Answer("nginx")
  /\ UNCHANGED <<user, authorized, base>>

\* "enable docker; enable nginx" has the status of the second.
Enable ==
  /\ Turn("enable")
  /\ IF "nginx" \in installed THEN Passes("enable") ELSE Dies /\ UNCHANGED troubles
  /\ UNCHANGED server

\* Variant: the status of usermod is not looked at.
EnsureUserOnly ==
  /\ Turn("user")
  /\ user' = IF "docker" \in installed THEN "docker" ELSE "none"
  /\ Answer("user")
  /\ UNCHANGED <<installed, authorized, base>>

\* "id || useradd; usermod -aG docker": there is a group docker when docker is installed.
EnsureUser ==
  /\ Turn("user")
  /\ IF "docker" \in installed
       THEN \/ user' = "docker" /\ Answer("user")
            \/ user' = (IF user = "absent" THEN "none" ELSE user) /\ Dies /\ Trouble
       ELSE user' = (IF user = "absent" THEN "none" ELSE user) /\ Dies /\ UNCHANGED troubles
  /\ UNCHANGED <<installed, authorized, base>>

\* grep -qF. A newline in the pattern adds the empty pattern, which every line matches.
Matches == Contains(authorized, DeployKey) \/ (flags.key = "newline" /\ authorized # <<>>)

\* Variant: the key is written without a look at the file.
AppendKeyAnyway ==
  /\ Turn("key")
  /\ authorized' = Append(authorized, DeployKey) /\ Answer("key")
  /\ UNCHANGED <<installed, user, base>>

\* Variant: the file is written anew.
WriteKey ==
  /\ Turn("key")
  /\ authorized' = <<DeployKey>> /\ Answer("key")
  /\ UNCHANGED <<installed, user, base>>

\* "install -d && touch && grep || echo >>; chown && chmod", which may be cut after touch.
AuthorizeKey ==
  /\ Turn("key")
  /\ \/ authorized' = (IF Matches THEN authorized ELSE Append(authorized, DeployKey)) /\ Answer("key")
     \/ UNCHANGED authorized /\ Dies /\ Trouble
  /\ UNCHANGED <<installed, user, base>>

\* Variant: mkdir without -p.
MakeBase ==
  /\ Turn("base")
  /\ IF base = "absent" THEN base' = (IF flags.user = "deploy" THEN "deploy" ELSE "root") /\ Answer("base")
     ELSE UNCHANGED <<base, troubles>> /\ Dies
  /\ UNCHANGED <<installed, user, authorized>>

\* mkdir -p && chown.
EnsureBase ==
  /\ Turn("base")
  /\ \/ base' = (IF flags.user = "deploy" THEN "deploy" ELSE "root") /\ Answer("base")
     \/ base' = (IF base = "absent" THEN "root" ELSE base) /\ Dies /\ Trouble
  /\ UNCHANGED <<installed, user, authorized>>

\* A command that does not get to the server.
NotReached ==
  /\ ended = "no" /\ Dies /\ Trouble
  /\ UNCHANGED server

\* Somebody else is given access.
AuthorizeOther(k) ==
  /\ ~Contains(authorized, k) /\ authorized' = Append(authorized, k)
  /\ user # "absent"
  /\ UNCHANGED <<installed, user, base, flags, todo, ended, troubles>>

RunCommand == InstallDocker \/ InstallNginx \/ Enable \/ EnsureUser \/ AuthorizeKey \/ EnsureBase

SetupNext ==
  \/ \E f \in Flags : StartSetup(f)
  \/ RunCommand \/ NotReached
  \/ \E k \in OtherKeys : AuthorizeOther(k)

SetupSpec == SetupInit /\ [][SetupNext]_setupVars

\* The operator sees to it that a run is tried again with flags that ask for everything.
Full == [packages |-> "install", user |-> "deploy", key |-> "trimmed"]
SetupFairness == SF_setupVars(StartSetup(Full)) /\ WF_setupVars(RunCommand)
------------------------------------------------------------------------------
(* Properties.                                                              *)

SetupTypeOK ==
  /\ installed \subseteq Packages
  /\ user \in {"absent", "none", "docker"}
  /\ authorized \in Seq(OtherKeys \cup {DeployKey})
  /\ base \in {"absent", "root", "deploy"}
  /\ flags \in Flags
  /\ todo \subseteq Commands
  /\ ended \in {"no", "done", "failed"}
  /\ troubles \in 0..MaxTroubles

(* A run that ends well with a deploy user and its key has prepared all of  *)
(* it, wherever earlier runs broke off and although the status of the       *)
(* docker installation is hidden (server-setup.mjs:5-10).                   *)
DoneIsPrepared ==
  ended = "done" /\ flags.user = "deploy" /\ flags.key = "trimmed" =>
    /\ "docker" \in installed /\ user = "docker"
    /\ flags.packages = "install" => "nginx" \in installed
    /\ Contains(authorized, DeployKey)
    /\ base = "deploy"

(* "append if missing" (server-setup.mjs:9): however often it is run and    *)
(* broken off, the deploy key is there at most once.                        *)
KeyOnce ==
  \A i, j \in 1..Len(authorized) : authorized[i] = DeployKey /\ authorized[j] = DeployKey => i = j

(* No run takes away an access that somebody has.                           *)
AccessKept == [][IsPrefix(authorized, authorized')]_setupVars

(* "Idempotent - safe to re-run" (backend-lifecycle.md:23): runs that are   *)
(* repeated with a deploy user prepare the server again and again, also     *)
(* after a download that has failed unseen or a run with other flags.       *)
RerunPrepares ==
  []<>(/\ "docker" \in installed /\ user = "docker" /\ base = "deploy"
       /\ Contains(authorized, DeployKey))
==============================================================================
