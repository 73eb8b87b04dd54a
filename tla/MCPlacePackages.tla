---------------------------- MODULE MCPlacePackages ----------------------------
(***************************************************************************)
(* Small instances of PlacePackages, over the constants of                 *)
(* MCRequirementRegistries: a clinic and the desk of one of its spaces     *)
(* sign packages, an operator trusts each for the spaces it runs.          *)
(***************************************************************************)
EXTENDS MCRequirementRegistries, PlacePackages

MCSet(space, policy, reqs) == [place |-> "clinic", space |-> space, policy |-> policy, reqs |-> reqs]

MCRequirementSets == {MCSet("lobby", "p1", {Speed, Aisle}),
                      MCSet("ward", "p2", {AisleOne, AisleInFt})}
MCLegacySets      == {MCSet("lobby", "p1", {Aisle})}

MCHome    == [clinic |-> "author", desk |-> "operator"]
MCKeyOf   == [clinic |-> "k1", desk |-> "k2"]
Anchor(key, scopes, enabled) ==
    [key |-> key, places |-> {"clinic"}, scopes |-> scopes, enabled |-> enabled]
MCAnchors == [author   |-> [clinic |-> Anchor("k1", {"lobby", "ward"}, TRUE),
                            desk   |-> Anchor("k2", {"lobby", "ward"}, FALSE)],
              operator |-> [clinic |-> Anchor("k1", {"lobby", "ward"}, TRUE),
                            desk   |-> Anchor("k2", {"lobby"}, TRUE)]]
================================================================================
