----------------------------- MODULE MCBuildBroker ----------------------------
(* Small instances of BuildBroker for TLC. *)
EXTENDS BuildBroker, TLC

CONSTANTS main, fork, other

(* Two forks of main, each on one line with main and diverged from the      *)
(* other.                                                                   *)
ForkLineage == {{main, fork}, {main, other}}

TwoForks == <<fork, other>>

(* One fork, the commit both forked from, the other fork. *)
ForkMainOther == <<fork, main, other>>
===============================================================================
