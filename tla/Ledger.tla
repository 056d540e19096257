------------------------------- MODULE Ledger -------------------------------
(****************************************************************************)
(* What a registry promises: a ledger per target in which every holder      *)
(* (project and environment) is entered at most once, atomically, with      *)
(* ports and domains nobody else holds, and from which nothing disappears.  *)
(****************************************************************************)
CONSTANT Targets

VARIABLE held   \* held[t]: the entries [holder, ports, domains] of target t

Init == held = [t \in Targets |-> {}]

Compatible(x, y) ==
  /\ x.holder # y.holder
  /\ x.ports \cap y.ports = {}
  /\ x.domains \cap y.domains = {}

Enter(t) ==
  \E x \in held'[t] :
    /\ \A y \in held[t] : Compatible(x, y)
    /\ held' = [held EXCEPT ![t] = @ \cup {x}]

Next == \E t \in Targets : Enter(t)

Spec == Init /\ [][Next]_held
==============================================================================
