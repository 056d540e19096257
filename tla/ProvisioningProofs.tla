-------------------------- MODULE ProvisioningProofs --------------------------
(****************************************************************************)
(* Proofs about ServerSetup and Cpanel, side by side as Provisioning has    *)
(* them: for any flags, keys, builds and bounds.                            *)
(****************************************************************************)
EXTENDS Provisioning, TLAPS, SequenceTheorems

\* What is there once the command c of the run has ended well.
Effect(c) ==
  /\ c = "nginx" => "nginx" \in installed
  /\ c = "user"  => "docker" \in installed /\ user = "docker"
  /\ c = "key" /\ flags.key = "trimmed" => Contains(authorized, DeployKey)
  /\ c = "base" /\ flags.user = "deploy" => base = "deploy"

\* The commands that a run has given have had their effect.
SetupInv ==
  /\ SetupTypeOK
  /\ KeyOnce
  /\ ended # "failed" => \A c \in Plan(flags) \ todo : Effect(c)
  /\ ended = "done" => todo = {}

CpanelInv ==
  /\ CpanelTypeOK
  /\ phase \in {"subdomain", "ftp", "upload", "verify", "done"} => build \in 1..Len(Builds)
  /\ phase \in {"verify", "done"} => Exact
  /\ phase = "done" => subdomain = "exists"
------------------------------------------------------------------------------
(* Appending to a sequence keeps what it has.                               *)
LEMMA AppendIs ==
  ASSUME NEW S, NEW s \in Seq(S), NEW e \in S
  PROVE  /\ Append(s, e) \in Seq(S)
         /\ Len(Append(s, e)) = Len(s) + 1
         /\ \A i \in 1..Len(s) : Append(s, e)[i] = s[i]
         /\ Append(s, e)[Len(s) + 1] = e
         /\ Len(s) \in Nat
OBVIOUS

LEMMA AppendPrefix ==
  ASSUME NEW S, NEW s \in Seq(S), NEW e \in S
  PROVE  IsPrefix(s, Append(s, e)) /\ IsPrefix(s, s)
<1>1. SubSeq(s, 1, Len(s)) = SubSeq(Append(s, e), 1, Len(s))
  BY AppendIs
<1>. QED BY <1>1, AppendIs DEF IsPrefix

LEMMA AppendOnce ==
  ASSUME NEW S, NEW s \in Seq(S), NEW e \in S, NEW d,
         \A i, j \in 1..Len(s) : s[i] = d /\ s[j] = d => i = j,
         e = d => ~Contains(s, d)
  PROVE  \A i, j \in 1..Len(Append(s, e)) :
           Append(s, e)[i] = d /\ Append(s, e)[j] = d => i = j
<1>. SUFFICES ASSUME NEW i \in 1..Len(s) + 1, NEW j \in 1..Len(s) + 1,
                     Append(s, e)[i] = d, Append(s, e)[j] = d
              PROVE  i = j
  BY AppendIs
<1>1. \A k \in 1..Len(s) + 1 : k \in 1..Len(s) \/ k = Len(s) + 1
  BY AppendIs
<1>. QED BY <1>1, AppendIs DEF Contains

LEMMA AppendContains ==
  ASSUME NEW S, NEW s \in Seq(S), NEW e \in S, NEW d
  PROVE  Contains(s, d) \/ e = d => Contains(Append(s, e), d)
<1>1. \A i \in 1..Len(s) : i \in 1..Len(s) + 1
  BY AppendIs
<1>2. Len(s) + 1 \in 1..Len(s) + 1
  BY AppendIs
<1>. QED BY <1>1, <1>2, AppendIs DEF Contains
------------------------------------------------------------------------------
LEMMA SetupStart == SetupInit => SetupInv
<1>. SUFFICES ASSUME SetupInit PROVE SetupInv
  OBVIOUS
<1>1. authorized \in Seq(OtherKeys \cup {DeployKey}) /\ Len(authorized) \in {0, 1}
  <2>1. CASE authorized = <<>>
    BY <2>1
  <2>2. ASSUME NEW k \in OtherKeys, authorized = <<k>>
        PROVE  authorized \in Seq(OtherKeys \cup {DeployKey}) /\ Len(authorized) \in {0, 1}
    BY <2>2
  <2>. QED BY <2>1, <2>2 DEF SetupInit
<1>2. KeyOnce
  BY <1>1 DEF KeyOnce
<1>. QED BY <1>1, <1>2, TroublesAssumption DEF SetupInit, SetupInv, SetupTypeOK, Packages

(* The keys after a step: those before, or one more that was not there.     *)
LEMMA KeysAfter ==
  ASSUME SetupTypeOK, [SetupNext]_setupVars
  PROVE  \/ authorized' = authorized
         \/ \E k \in OtherKeys \cup {DeployKey} :
              authorized' = Append(authorized, k) /\ ~Contains(authorized, k)
<1>1. CASE \E k \in OtherKeys : AuthorizeOther(k)
  BY <1>1 DEF AuthorizeOther
<1>2. CASE AuthorizeKey
  BY <1>2 DEF AuthorizeKey, Matches
<1>3. CASE UNCHANGED authorized
  BY <1>3
<1>4. (\E k \in OtherKeys : AuthorizeOther(k)) \/ AuthorizeKey \/ UNCHANGED authorized
  BY DEF SetupNext, setupVars, StartSetup, RunCommand, InstallDocker, InstallNginx, Enable,
     EnsureUser, EnsureBase, NotReached, server
<1>. QED BY <1>1, <1>2, <1>3, <1>4

(* Types, and the key once.                                                 *)
LEMMA SetupTypes ==
  ASSUME SetupTypeOK, KeyOnce, [SetupNext]_setupVars PROVE SetupTypeOK' /\ KeyOnce'
<1>1. authorized' \in Seq(OtherKeys \cup {DeployKey}) /\ KeyOnce'
  <2>1. CASE authorized' = authorized
    BY <2>1 DEF SetupTypeOK, KeyOnce
  <2>2. ASSUME NEW k \in OtherKeys \cup {DeployKey},
               authorized' = Append(authorized, k), ~Contains(authorized, k)
        PROVE  authorized' \in Seq(OtherKeys \cup {DeployKey}) /\ KeyOnce'
    <3>1. authorized \in Seq(OtherKeys \cup {DeployKey})
      BY DEF SetupTypeOK
    <3>2. \A i, j \in 1..Len(authorized) :
            authorized[i] = DeployKey /\ authorized[j] = DeployKey => i = j
      BY DEF KeyOnce
    <3>3. \A i, j \in 1..Len(Append(authorized, k)) :
            Append(authorized, k)[i] = DeployKey /\ Append(authorized, k)[j] = DeployKey => i = j
      BY <2>2, <3>1, <3>2, AppendOnce
    <3>. QED BY <2>2, <3>1, <3>3, AppendIs DEF KeyOnce
  <2>. QED BY <2>1, <2>2, KeysAfter
<1>2. installed' \subseteq Packages /\ user' \in {"absent", "none", "docker"}
      /\ base' \in {"absent", "root", "deploy"}
  BY DEF SetupTypeOK, Packages, SetupNext, setupVars, StartSetup, RunCommand, InstallDocker,
     InstallNginx, Enable, EnsureUser, AuthorizeKey, EnsureBase, NotReached, AuthorizeOther, server
<1>3. flags' \in Flags /\ todo' \subseteq Commands /\ ended' \in {"no", "done", "failed"}
      /\ troubles' \in 0..MaxTroubles
  BY TroublesAssumption DEF SetupTypeOK, SetupNext, setupVars, StartSetup, Plan, RunCommand,
     InstallDocker, InstallNginx, Enable, EnsureUser, AuthorizeKey, EnsureBase, NotReached,
     AuthorizeOther, Answer, Passes, Goes, Dies, Trouble
<1>. QED BY <1>1, <1>2, <1>3 DEF SetupTypeOK

(* A command that ends well has had its effect, and takes none away of the  *)
(* commands before.                                                         *)
LEMMA CommandEffect ==
  ASSUME SetupInv, NEW c \in Commands, Turn(c), Goes(c), Effect(c)',
         \A d \in Plan(flags) \ todo : d # c => Effect(d)'
  PROVE  /\ ended' # "failed" => \A d \in Plan(flags') \ todo' : Effect(d)'
         /\ ended' = "done" => todo' = {}
BY DEF Goes, Plan

LEMMA RunDies ==
  ASSUME Dies
  PROVE  /\ ended' # "failed" => \A d \in Plan(flags') \ todo' : Effect(d)'
         /\ ended' = "done" => todo' = {}
BY DEF Dies

LEMMA SetupStep == SetupInv /\ [SetupNext]_setupVars => SetupInv'
<1>. SUFFICES ASSUME SetupInv, [SetupNext]_setupVars
              PROVE  /\ ended' # "failed" => \A c \in Plan(flags') \ todo' : Effect(c)'
                     /\ ended' = "done" => todo' = {}
  BY SetupTypes DEF SetupInv
<1>. DEFINE Goal == /\ ended' # "failed" => \A c \in Plan(flags') \ todo' : Effect(c)'
                    /\ ended' = "done" => todo' = {}
<1>0. /\ \A c \in Commands : Turn(c) => c \in todo /\ ended = "no"
      /\ Commands = {"docker", "nginx", "enable", "user", "key", "base"}
      /\ ended # "failed" => \A c \in Plan(flags) \ todo : Effect(c)
      /\ authorized \in Seq(OtherKeys \cup {DeployKey})
  BY DEF Turn, Commands, Rank, SetupInv, SetupTypeOK
<1>1. ASSUME NEW f \in Flags, StartSetup(f) PROVE Goal
  BY <1>1 DEF StartSetup
<1>2. CASE InstallDocker
  <2>1. CASE Goes("docker")
    <3>1. Turn("docker") /\ installed \subseteq installed'
          /\ UNCHANGED <<user, authorized, base, flags>>
      BY <1>2, <2>1 DEF InstallDocker, Goes
    <3>. QED BY <1>0, <2>1, <3>1, CommandEffect DEF Effect
  <2>2. CASE Dies
    BY <2>2, RunDies
  <2>. QED BY <1>2, <2>1, <2>2 DEF InstallDocker, Answer, Passes
<1>3. CASE InstallNginx
  <2>1. CASE Goes("nginx")
    <3>1. Turn("nginx") /\ installed' = installed \cup {"nginx"}
          /\ UNCHANGED <<user, authorized, base, flags>>
      BY <1>3, <2>1 DEF InstallNginx, Goes
    <3>. QED BY <1>0, <2>1, <3>1, CommandEffect DEF Effect
  <2>2. CASE Dies
    BY <2>2, RunDies
  <2>. QED BY <1>3, <2>1, <2>2 DEF InstallNginx, Answer, Passes
<1>4. CASE Enable
  <2>1. CASE Goes("enable")
    <3>1. Turn("enable") /\ UNCHANGED <<installed, user, authorized, base, flags>>
      BY <1>4, <2>1 DEF Enable, Goes, server
    <3>. QED BY <1>0, <2>1, <3>1, CommandEffect DEF Effect
  <2>2. CASE Dies
    BY <2>2, RunDies
  <2>. QED BY <1>4, <2>1, <2>2 DEF Enable, Passes
<1>5. CASE EnsureUser
  <2>1. CASE Goes("user") /\ ~Dies
    <3>1. Turn("user") /\ "docker" \in installed /\ user' = "docker"
          /\ UNCHANGED <<installed, authorized, base, flags>>
      BY <1>5, <2>1 DEF EnsureUser, Goes
    <3>. QED BY <1>0, <2>1, <3>1, CommandEffect DEF Effect
  <2>2. CASE Dies
    BY <2>2, RunDies
  <2>. QED BY <1>5, <2>1, <2>2 DEF EnsureUser, Answer, Passes
<1>6. CASE AuthorizeKey
  <2>1. CASE Goes("key") /\ ~Dies
    <3>1. Turn("key") /\ UNCHANGED <<installed, user, base, flags>>
          /\ authorized' = IF Matches THEN authorized ELSE Append(authorized, DeployKey)
      BY <1>6, <2>1 DEF AuthorizeKey, Goes
    <3>2. Contains(authorized, DeployKey) => Contains(authorized', DeployKey)
      BY <1>0, <3>1, AppendContains
    <3>3. flags.key = "trimmed" => Contains(authorized', DeployKey)
      BY <1>0, <3>1, AppendContains DEF Matches
    <3>. QED BY <1>0, <2>1, <3>1, <3>2, <3>3, CommandEffect DEF Effect
  <2>2. CASE Dies
    BY <2>2, RunDies
  <2>. QED BY <1>6, <2>1, <2>2 DEF AuthorizeKey, Answer, Passes
<1>7. CASE EnsureBase
  <2>1. CASE Goes("base") /\ ~Dies
    <3>1. Turn("base") /\ UNCHANGED <<installed, user, authorized, flags>>
          /\ base' = IF flags.user = "deploy" THEN "deploy" ELSE "root"
      BY <1>7, <2>1 DEF EnsureBase, Goes
    <3>. QED BY <1>0, <2>1, <3>1, CommandEffect DEF Effect
  <2>2. CASE Dies
    BY <2>2, RunDies
  <2>. QED BY <1>7, <2>1, <2>2 DEF EnsureBase, Answer, Passes
<1>8. CASE NotReached
  BY <1>8, RunDies DEF NotReached
<1>9. ASSUME NEW k \in OtherKeys, AuthorizeOther(k) PROVE Goal
  <2>1. UNCHANGED <<installed, user, base, flags, todo, ended>>
        /\ authorized' = Append(authorized, k)
    BY <1>9 DEF AuthorizeOther
  <2>2. Contains(authorized, DeployKey) => Contains(authorized', DeployKey)
    BY <1>0, <2>1, AppendContains
  <2>. QED BY <2>1, <2>2 DEF SetupInv, Effect, Plan
<1>10. CASE UNCHANGED setupVars
  BY <1>10 DEF setupVars, SetupInv, Effect, Plan
<1>. QED BY <1>1, <1>2, <1>3, <1>4, <1>5, <1>6, <1>7, <1>8, <1>9, <1>10 DEF SetupNext, RunCommand
------------------------------------------------------------------------------
LEMMA BuildsAre ==
  /\ Len(Builds) \in Nat
  /\ \A n \in 1..Len(Builds) : Builds[n] \subseteq Names /\ Builds[n] # {}
BY BuildsAssumption

LEMMA CpanelStart == CpanelInit => CpanelInv
BY BuildsAre, MaxLostAssumption DEF CpanelInit, CpanelInv, CpanelTypeOK

(* The files stay those that the build wants until another build is begun.  *)
LEMMA ExactStays ==
  ASSUME Exact, UNCHANGED <<docroot, build>> PROVE Exact'
BY DEF Exact, Wanted

LEMMA CpanelInductive == CpanelInv /\ [CpanelNext]_cpanelVars => CpanelInv'
<1>. SUFFICES ASSUME CpanelInv, [CpanelNext]_cpanelVars PROVE CpanelInv'
  OBVIOUS
<1>. USE DEF CpanelInv, CpanelTypeOK
<1>1. ASSUME NEW n \in 1..Len(Builds), StartRun(n) PROVE CpanelInv'
  BY <1>1, BuildsAre DEF StartRun
<1>2. CASE CallUapi
  BY <1>2, BuildsAre DEF CallUapi
<1>3. CASE Upload
  <2>1. build \in 1..Len(Builds) /\ UNCHANGED <<account, subdomain, build, lost>>
    BY <1>3 DEF Upload
  <2>2. CASE phase' = "failed" /\ UNCHANGED docroot
    BY <2>1, <2>2
  <2>3. ASSUME NEW f \in Names, docroot' = [docroot EXCEPT ![f] = Wanted(f)], phase' = "upload"
        PROVE  CpanelInv'
    <3>1. Wanted(f) \in 0..Len(Builds)
      BY <2>1, BuildsAre DEF Wanted
    <3>. QED BY <2>1, <2>3, <3>1
  <2>4. CASE Exact /\ phase' = "verify" /\ UNCHANGED docroot
    BY <2>1, <2>4, ExactStays
  <2>. QED BY <1>3, <2>2, <2>3, <2>4 DEF Upload
<1>4. CASE VerifyAddress
  BY <1>4, ExactStays DEF VerifyAddress
<1>5. CASE LoseRun
  BY <1>5, MaxLostAssumption DEF LoseRun, Over
<1>6. CASE CreateByHand
  BY <1>6, ExactStays DEF CreateByHand
<1>7. CASE UNCHANGED cpanelVars
  BY <1>7, ExactStays DEF cpanelVars
<1>. QED BY <1>1, <1>2, <1>3, <1>4, <1>5, <1>6, <1>7 DEF CpanelNext, CpanelStep
------------------------------------------------------------------------------
(* The two targets together.                                                *)
LEMMA Invariants == Spec => [](SetupInv /\ CpanelInv)
<1>1. Init => SetupInv /\ CpanelInv
  BY SetupStart, CpanelStart DEF Init
<1>2. SetupInv /\ CpanelInv /\ [Next]_vars => (SetupInv /\ CpanelInv)'
  <2>1. [Next]_vars => [SetupNext]_setupVars /\ [CpanelNext]_cpanelVars
    BY DEF Next, vars
  <2>. QED BY <2>1, SetupStep, CpanelInductive
<1>. QED BY <1>1, <1>2, PTL DEF Spec

(* The state of a server setup and of a cPanel deployment has the types     *)
(* that server-setup.mjs and cpanel.mjs give it.                            *)
THEOREM TypeCorrect == Spec => []TypeOK
<1>1. SetupInv /\ CpanelInv => TypeOK
  BY DEF SetupInv, CpanelInv, TypeOK
<1>. QED BY <1>1, Invariants, PTL

(* However often the setup runs, is cut short or meets other writers, the   *)
(* deploy key is among the authorized keys at most once.                    *)
THEOREM KeyAtMostOnce == Spec => []KeyOnce
<1>1. SetupInv => KeyOnce
  BY DEF SetupInv
<1>. QED BY <1>1, Invariants, PTL

(* No step takes away a key that is authorized, for any keys and flags.     *)
THEOREM AccessIsKept == Spec => AccessKept
<1>1. SetupInv /\ [Next]_vars => [IsPrefix(authorized, authorized')]_setupVars
  <2>. SUFFICES ASSUME SetupInv, [Next]_vars PROVE IsPrefix(authorized, authorized')
    OBVIOUS
  <2>1. [SetupNext]_setupVars
    BY DEF Next, vars
  <2>2. SetupTypeOK /\ authorized \in Seq(OtherKeys \cup {DeployKey})
    BY DEF SetupInv, SetupTypeOK
  <2>3. CASE authorized' = authorized
    <3>1. IsPrefix(authorized, authorized)
      BY <2>2, AppendPrefix
    <3>. QED BY <2>3, <3>1
  <2>4. ASSUME NEW k \in OtherKeys \cup {DeployKey}, authorized' = Append(authorized, k)
        PROVE  IsPrefix(authorized, authorized')
    BY <2>2, <2>4, AppendPrefix
  <2>. QED BY <2>1, <2>2, <2>3, <2>4, KeysAfter
<1>. QED BY <1>1, Invariants, PTL DEF Spec, AccessKept

(* A run that ends well with a deploy user and its key has prepared all of  *)
(* the server, wherever earlier runs broke off.                             *)
THEOREM DoneMeansPrepared == Spec => []DoneIsPrepared
<1>1. SetupInv => DoneIsPrepared
  <2>. SUFFICES ASSUME SetupInv, ended = "done", flags.user = "deploy", flags.key = "trimmed"
                PROVE  /\ "docker" \in installed /\ user = "docker"
                       /\ flags.packages = "install" => "nginx" \in installed
                       /\ Contains(authorized, DeployKey)
                       /\ base = "deploy"
    BY DEF DoneIsPrepared
  <2>1. \A c \in Plan(flags) : Effect(c)
    BY DEF SetupInv
  <2>2. {"user", "key", "base"} \subseteq Plan(flags)
        /\ (flags.packages = "install" => "nginx" \in Plan(flags))
    BY DEF Plan, Commands, Rank
  <2>3. Effect("user") /\ Effect("key") /\ Effect("base")
    BY <2>1, <2>2
  <2>4. flags.packages = "install" => Effect("nginx")
    BY <2>1, <2>2
  <2>. QED BY <2>3, <2>4 DEF Effect
<1>. QED BY <1>1, Invariants, PTL

(* A cPanel run that ends well serves exactly its build, for any builds and *)
(* wherever earlier runs were lost.                                         *)
THEOREM DoneMeansServed == Spec => []DoneIsServed
<1>1. CpanelInv => DoneIsServed
  BY DEF CpanelInv, DoneIsServed
<1>. QED BY <1>1, Invariants, PTL
------------------------------------------------------------------------------
\* What a full run of the setup prepares, but for nginx.
Prepared ==
  /\ "docker" \in installed /\ user = "docker" /\ base = "deploy"
  /\ Contains(authorized, DeployKey)

(* No step takes back what has been prepared; only a run without a deploy   *)
(* user hands the base path to somebody else.                               *)
LEMMA GainsStay ==
  ASSUME SetupInv, [SetupNext]_setupVars
  PROVE  /\ installed \subseteq installed'
         /\ user = "docker" => user' = "docker"
         /\ Contains(authorized, DeployKey) => Contains(authorized', DeployKey)
         /\ base = "deploy" /\ base' # "deploy" => flags.user = "none"
<1>. SetupTypeOK /\ authorized \in Seq(OtherKeys \cup {DeployKey})
  BY DEF SetupInv, SetupTypeOK
<1>1. Contains(authorized, DeployKey) => Contains(authorized', DeployKey)
  <2>1. ASSUME NEW k \in OtherKeys \cup {DeployKey}, authorized' = Append(authorized, k)
        PROVE  Contains(authorized, DeployKey) => Contains(authorized', DeployKey)
    BY <2>1, AppendContains
  <2>. QED BY <2>1, KeysAfter
<1>2. installed \subseteq installed' /\ (user = "docker" => user' = "docker")
  BY DEF SetupNext, setupVars, StartSetup, RunCommand, InstallDocker, InstallNginx, Enable,
     EnsureUser, AuthorizeKey, EnsureBase, NotReached, AuthorizeOther, server
<1>3. CASE EnsureBase
  BY <1>1, <1>2, <1>3, FlagsAssumption DEF EnsureBase, SetupTypeOK, FlagSet
<1>4. CASE ~EnsureBase
  <2>1. UNCHANGED base
    BY <1>4 DEF SetupNext, setupVars, StartSetup, RunCommand, InstallDocker, InstallNginx, Enable,
       EnsureUser, AuthorizeKey, NotReached, AuthorizeOther, server
  <2>. QED BY <1>1, <1>2, <2>1
<1>. QED BY <1>3, <1>4

(* "Idempotent - safe to re-run" (backend-lifecycle.md:23): runs that are   *)
(* repeated, cut short, or called with other flags undo nothing that an     *)
(* earlier one has prepared, except that one without --deploy-user takes    *)
(* the base path from the deploy user.                                      *)
THEOREM RerunUndoesNothing ==
  Spec => [][/\ installed \subseteq installed'
             /\ user = "docker" => user' = "docker"
             /\ Contains(authorized, DeployKey) => Contains(authorized', DeployKey)
             /\ base = "deploy" /\ base' # "deploy" => flags.user = "none"]_vars
<1>1. SetupInv /\ [Next]_vars =>
        [/\ installed \subseteq installed'
         /\ user = "docker" => user' = "docker"
         /\ Contains(authorized, DeployKey) => Contains(authorized', DeployKey)
         /\ base = "deploy" /\ base' # "deploy" => flags.user = "none"]_vars
  <2>1. [Next]_vars => [SetupNext]_setupVars
    BY DEF Next, vars
  <2>. QED BY <2>1, GainsStay
<1>. QED BY <1>1, Invariants, PTL DEF Spec

(* Where every run has a deploy user, a server that is prepared once stays  *)
(* prepared: what is left of RerunPrepares is that some run gets there.     *)
THEOREM PreparedForGood ==
  ASSUME \A f \in Flags : f.user = "deploy"
  PROVE  Spec => [](Prepared => []Prepared)
<1>1. SetupInv /\ Prepared /\ [Next]_vars => Prepared'
  <2>. SUFFICES ASSUME SetupInv, Prepared, [Next]_vars PROVE Prepared'
    OBVIOUS
  <2>1. [SetupNext]_setupVars
    BY DEF Next, vars
  <2>2. flags.user = "deploy"
    BY DEF SetupInv, SetupTypeOK
  <2>3. SetupTypeOK'
    BY <2>1, SetupTypes DEF SetupInv
  <2>. QED BY <2>1, <2>2, GainsStay DEF Prepared
<1>. QED BY <1>1, Invariants, PTL DEF Spec
==============================================================================
