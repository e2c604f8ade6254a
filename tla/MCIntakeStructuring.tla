------------------------ MODULE MCIntakeStructuring ------------------------
(* The structuring policy under the shipped configuration, for TLC.        *)
EXTENDS IntakeStructuring

\* config/llm/local-platform.yaml, run with an evidence store.
MCLocalPlatform == {[attempts |-> 2, review |-> TRUE, onInvalid |-> FALSE, onProvider |-> FALSE,
                     store |-> TRUE, capable |-> TRUE]}
=============================================================================
