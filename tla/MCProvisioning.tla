---------------------------- MODULE MCProvisioning ----------------------------
(* Instances of Provisioning for TLC.                                       *)
EXTENDS Provisioning

MCFlags == {Full, [Full EXCEPT !.packages = "skip"],
            [Full EXCEPT !.user = "none", !.key = "none"], [Full EXCEPT !.key = "newline"]}

\* The second build lacks a file of the first one.
MCBuilds == <<{"index.html", "about.html"}, {"index.html"}>>
MCAccounts == {[ftp |-> "create", login |-> "accepted"], [ftp |-> "none", login |-> "refused"]}
==============================================================================
