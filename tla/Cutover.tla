------------------------------- MODULE Cutover -------------------------------
(****************************************************************************)
(* What a blue/green deployment promises, without its commands: traffic is  *)
(* an atomic register over all services, it moves only to the colour that   *)
(* is not recorded as the live one and only while that colour is ready, the *)
(* record follows the traffic to a colour that is ready, and only the       *)
(* colour that is not recorded gets new containers.                         *)
(****************************************************************************)
CONSTANTS
  Services,   \* the services that have traffic
  Images,     \* what a colour may run
  NoImage,    \* a colour without containers
  Good        \* the images that traffic may be sent to

VARIABLES
  traffic,    \* traffic[s]: the colour that serves s, or "absent"
  recorded,   \* the colour recorded as live, or "absent"
  image       \* image[c]: what colour c runs

vars == <<traffic, recorded, image>>

Colors == {"blue", "green"}
Idle(c) == c # (IF recorded = "absent" THEN "blue" ELSE recorded)

Init ==
  /\ traffic = [s \in Services |-> "absent"]
  /\ recorded = "absent"
  /\ image = [c \in Colors |-> NoImage]

Replace(c) ==
  /\ Idle(c)
  /\ \E i \in Images \cup {NoImage} : image' = [image EXCEPT ![c] = i]
  /\ UNCHANGED <<traffic, recorded>>

CutOver(c) ==
  /\ Idle(c)
  /\ image[c] \in Good
  /\ traffic' = [s \in Services |-> c]
  /\ UNCHANGED <<recorded, image>>

Record(c) ==
  /\ Idle(c)
  /\ image[c] \in Good
  /\ \A s \in Services : traffic[s] \in {"absent", c}
  /\ recorded' = c
  /\ UNCHANGED <<traffic, image>>

Retire(c) ==
  /\ image' = [image EXCEPT ![c] = NoImage]
  /\ UNCHANGED <<traffic, recorded>>

Next == \E c \in Colors : Replace(c) \/ CutOver(c) \/ Record(c) \/ Retire(c)

Spec == Init /\ [][Next]_vars
==============================================================================
