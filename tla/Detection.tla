------------------------------- MODULE Detection -------------------------------
(****************************************************************************)
(* How a site is built and which directory is published, when its config    *)
(* does not say: tools/detect-build.mjs and tools/detect-output.mjs. Pure   *)
(* operators; a snapshot is a function from top-level directories to the    *)
(* times of their last change.                                              *)
(****************************************************************************)
EXTENDS Naturals, Sequences

CONSTANT NoDir   \* no directory: none is declared, or none can be told

\* In order of preference. ".output/public" is never a top-level entry.
KNOWN_OUTPUTS == <<"dist", "out", "build", "public", "_site", ".output/public",
                   "www", "site", "output">>
------------------------------------------------------------------------------
\* detectBuild: files are the top-level entries, script is "build" when package.json has a
\* build script, "other" when it has none, "none" without a package.json.
DetectBuild(files, script) ==
  CASE script = "build" ->
         (CASE "pnpm-lock.yaml" \in files -> "pnpm"
            [] "yarn.lock" \in files /\ "pnpm-lock.yaml" \notin files -> "yarn"
            [] {"yarn.lock", "pnpm-lock.yaml"} \cap files = {} ->
                 IF "package-lock.json" \in files THEN "npm ci" ELSE "npm install")
    [] script # "build" /\ ("hugo.toml" \in files
         \/ ({"config.toml", "config.yaml"} \cap files # {} /\ "content" \in files)) -> "hugo"
    [] OTHER -> IF {"_config.yml", "Gemfile"} \subseteq files THEN "jekyll" ELSE "none"

\* Variant: a directory whose time is the same counts as changed.
ChangedOrOld(before, after) ==
  {d \in DOMAIN after : d \notin DOMAIN before \/ after[d] >= before[d]}

\* Created or changed during the build.
Changed(before, after) ==
  {d \in DOMAIN after : d \notin DOMAIN before \/ after[d] > before[d]}

\* resolveOutputDir; NoDir is its error.
ResolveOutputDir(explicit, before, after) ==
  LET changed == Changed(before, after)
      known == {i \in 1..Len(KNOWN_OUTPUTS) : KNOWN_OUTPUTS[i] \in changed}
  IN  IF explicit # NoDir THEN explicit
      ELSE IF known # {} THEN KNOWN_OUTPUTS[CHOOSE i \in known : \A j \in known : i <= j]
      ELSE IF \E d \in changed : changed = {d} THEN CHOOSE d \in changed : TRUE
      ELSE NoDir
==============================================================================
