-------------------------- MODULE MCTopicDiscovery --------------------------
(* The discovery with two topics on each side, under every configuration. *)
EXTENDS TopicDiscovery, TLC

(* Topics are interchangeable, and so are targets.                        *)
Symmetry == Permutations(Topic) \cup Permutations(Target)
=============================================================================
