-------------------------- MODULE ActivationGraphs --------------------------
(***************************************************************************)
(* Capability graphs and deployments for the instances of Activation:      *)
(*   pair      consumer requires one capability, provider has it           *)
(*   alternate consumer's capability has two active-able providers, the    *)
(*             only graph in which a provider may be deactivated under an  *)
(*             active dependent                                            *)
(***************************************************************************)
CONSTANTS consumer, provider, other

PairRequires ==
  [m \in {consumer, provider} |-> IF m = consumer THEN {{provider}} ELSE {}]

AlternateRequires ==
  [m \in {consumer, provider, other} |->
     IF m = consumer THEN {{provider, other}} ELSE {}]

AllPair == {{consumer, provider}}

(* Registries a process may hold over time: all three modules (a registry    *)
(* filled by hand, as the tests do), and what bootstrap leaves of releases   *)
(* that ship one provider, or both and therefore reject the consumer.        *)
AlternateReleases ==
  {{consumer, provider, other}, {consumer, provider}, {provider, other}}
=============================================================================
