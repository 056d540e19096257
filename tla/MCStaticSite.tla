----------------------------- MODULE MCStaticSite -----------------------------
(* Instances of StaticSite for TLC.                                         *)
EXTENDS StaticSite

CONSTANTS
  demo, platform, production, staging,   \* groups
  shop_root, demo_root,                  \* webroots
  index, old                             \* files

\* demo is deployed by deploy-static.yml and platform by Model B; production and staging
\* are two environments of a site whose repository calls the reusable workflow.
MCWorkflow == [g \in Groups |->
  CASE g = demo -> "in_repo" [] g = platform -> "registry" [] OTHER -> "reusable"]
\* The third commit turns the config of demo to ftps.
MCTransfer == [g \in Groups |->
  [c \in 1..Commits |-> IF g = demo /\ c = 3 THEN "ftps" ELSE "rsync"]]
MCButtons == [g \in Groups |-> IF g = platform THEN Modes ELSE {"execute"}]
MCDeclared == [g \in Groups |-> g # platform]
MCConfigRoot == [g \in Groups |-> IF g \in {demo, staging} THEN demo_root ELSE shop_root]

\* The second commit does not build, the third leaves an empty directory.
MCKind == <<"built", "fails", "empty">>
MCBuilt == <<{index, old}, {old}, {}>>
==============================================================================
