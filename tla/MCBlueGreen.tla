----------------------------- MODULE MCBlueGreen -----------------------------
(* Instances of BlueGreen for TLC: two services, up to three images.        *)
EXTENDS BlueGreen

CONSTANTS backend, web, good, half, bad

MCServices == <<backend, web>>
\* good answers on both services, half on web (the last probe) only, bad on none.
MCAnswers == [i \in Images |->
  CASE i = good -> {backend, web} [] i = half -> {web} [] OTHER -> {}]
==============================================================================
