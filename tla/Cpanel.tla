-------------------------------- MODULE Cpanel --------------------------------
(****************************************************************************)
(* The command deploy-cpanel: the plan of engine/drivers/cpanel.mjs, run    *)
(* step by step (engine/executor.mjs): subdomain and FTP account by UAPI,   *)
(* upload path by path, verification of the address. A run may be lost      *)
(* anywhere and is started again, with the same build or a later one.       *)
(*                                                                          *)
(* The curl of a UAPI call gets the text $CPANEL_API_TOKEN: no shell        *)
(* expands it, and without -f the refusal is no failure. So the subdomain   *)
(* is there only when somebody has made it by hand.                         *)
(****************************************************************************)
EXTENDS Naturals, Sequences

CONSTANTS
  Names,       \* names of files of a site
  Builds,      \* Builds[n]: the files of the n-th build
  Accounts,    \* what a history is about: [ftp, login], see AccountSet
  MaxLost      \* bound of the runs that are lost

\* ftp: create_ftp of the config; login: whether the host lets the upload in.
AccountSet == [ftp : {"create", "none"}, login : {"accepted", "refused"}]
ASSUME AccountsAssumption == Accounts \subseteq AccountSet
ASSUME BuildsAssumption == Builds \in Seq((SUBSET Names) \ {{}})
ASSUME MaxLostAssumption == MaxLost \in Nat

VARIABLES
  account,     \* a member of Accounts
  subdomain,   \* "absent" or "exists"
  docroot,     \* docroot[f]: the number of the build that the file f is of, 0 without it
  build,       \* the number of the build that the run publishes, 0 before the first
  phase,       \* its step: "subdomain", "ftp", "upload", "verify", or how it ended
  lost

cpanelVars == <<account, subdomain, docroot, build, phase, lost>>

CpanelInit ==
  /\ account \in Accounts
  /\ subdomain \in {"absent", "exists"}
  /\ docroot = [f \in Names |-> 0]
  /\ build = 0 /\ phase = "failed" /\ lost = 0

Over == phase \in {"done", "failed"}

\* Variant: every run counts as another build.
StartNextRun(n) ==
  /\ Over /\ n >= build
  /\ build' = build + 1 /\ phase' = "subdomain"
  /\ UNCHANGED <<account, subdomain, docroot, lost>>

StartRun(n) ==
  /\ Over /\ n >= build
  /\ build' = n /\ phase' = "subdomain"
  /\ UNCHANGED <<account, subdomain, docroot, lost>>

\* Variant: curl -f.
CallUapiStrictly ==
  /\ phase \in {"subdomain", "ftp"}
  /\ phase' = "failed"
  /\ UNCHANGED <<account, subdomain, docroot, build, lost>>

\* SubDomain/addsubdomain, then Ftp/add_ftp when the config asks for it.
CallUapi ==
  /\ phase \in {"subdomain", "ftp"}
  /\ phase' = IF phase = "subdomain" /\ account.ftp = "create" THEN "ftp" ELSE "upload"
  /\ UNCHANGED <<account, subdomain, docroot, build, lost>>

\* What the docroot has in the place of f when the build is published.
Wanted(f) == IF f \in Builds[build] THEN build ELSE 0

Exact == \A f \in Names : docroot[f] = Wanted(f)

\* Variant: files that are of no use any more stay.
UploadOnly ==
  /\ phase = "upload"
  /\ \/ /\ account.login = "refused" /\ phase' = "failed"
        /\ UNCHANGED docroot
     \/ /\ account.login = "accepted"
        /\ \E f \in Builds[build] : docroot[f] # build /\ docroot' = [docroot EXCEPT ![f] = build]
        /\ UNCHANGED phase
     \/ /\ account.login = "accepted" /\ \A f \in Builds[build] : docroot[f] = build
        /\ phase' = "verify"
        /\ UNCHANGED docroot
  /\ UNCHANGED <<account, subdomain, build, lost>>

\* rsync --delete or mirror -R --delete, one file at a time in any order.
Upload ==
  /\ phase = "upload"
  /\ \/ /\ account.login = "refused" /\ phase' = "failed"
        /\ UNCHANGED docroot
     \/ /\ account.login = "accepted"
        /\ \E f \in Names : docroot[f] # Wanted(f) /\ docroot' = [docroot EXCEPT ![f] = Wanted(f)]
        /\ UNCHANGED phase
     \/ /\ account.login = "accepted" /\ Exact /\ phase' = "verify"
        /\ UNCHANGED docroot
  /\ UNCHANGED <<account, subdomain, build, lost>>

\* curl -f: there must be an address, and something behind it.
VerifyAddress ==
  /\ phase = "verify"
  /\ phase' = IF subdomain = "exists" /\ \E f \in Names : docroot[f] # 0 THEN "done" ELSE "failed"
  /\ UNCHANGED <<account, subdomain, docroot, build, lost>>

LoseRun ==
  /\ ~Over /\ lost < MaxLost
  /\ phase' = "failed" /\ lost' = lost + 1
  /\ UNCHANGED <<account, subdomain, docroot, build>>

\* In the panel.
CreateByHand ==
  /\ subdomain = "absent" /\ subdomain' = "exists"
  /\ UNCHANGED <<account, docroot, build, phase, lost>>

CpanelStep == CallUapi \/ Upload \/ VerifyAddress

CpanelNext ==
  \/ \E n \in 1..Len(Builds) : StartRun(n)
  \/ CpanelStep \/ LoseRun \/ CreateByHand

\* Runs go on; the last build is asked for again until it is published.
CpanelFairness ==
  WF_cpanelVars(CpanelStep) /\ SF_cpanelVars(StartRun(Len(Builds)))
------------------------------------------------------------------------------
(* Properties.                                                              *)

CpanelTypeOK ==
  /\ account \in Accounts
  /\ subdomain \in {"absent", "exists"}
  /\ docroot \in [Names -> 0..Len(Builds)]
  /\ build \in 0..Len(Builds)
  /\ phase \in {"subdomain", "ftp", "upload", "verify", "done", "failed"}
  /\ lost \in 0..MaxLost

(* A run that ends well has published exactly its build, at an address that *)
(* there is, although it overlooks what UAPI answers and whatever earlier   *)
(* runs have left in the docroot (cpanel.mjs:9-13).                         *)
DoneIsServed == phase = "done" => subdomain = "exists" /\ Exact

(* Where the host lets the upload in and the subdomain has been made, the   *)
(* last build gets published, wherever earlier runs were lost.              *)
LastBuildPublished ==
  (subdomain = "exists" /\ account.login = "accepted")
    ~> (phase = "done" /\ build = Len(Builds))
==============================================================================
