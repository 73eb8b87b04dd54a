------------------------ MODULE MCRequirementRegistries ------------------------
(***************************************************************************)
(* Small instances of RequirementRegistries: one built-in definition, and  *)
(* an extension "aisle" that a site may define in metres or in feet, and   *)
(* later a second version of it.                                           *)
(***************************************************************************)
EXTENDS RequirementRegistries

MCDefinition(id, version, unit, comparison) ==
    [id |-> id, version |-> version, type |-> "number", unit |-> unit, comparison |-> comparison]

SpeedDefinition == MCDefinition("speed", "1.0", "m/s", "MAX")
AisleMetres     == MCDefinition("aisle", "1.0", "m", "MIN")
AisleFeet       == MCDefinition("aisle", "1.0", "ft", "MIN")
AisleUnitless   == MCDefinition("aisle", "2.0", "none", "MIN")

MCBuiltIns    == {SpeedDefinition}
MCDefinitions == {AisleMetres, AisleFeet, AisleUnitless}

MCRequirement(id, version, op, kind, unit) ==
    [id |-> id, version |-> version, op |-> op, kind |-> kind, value |-> 1, unit |-> unit]

Speed      == MCRequirement("speed", "any", "<=", "float", "none")
Aisle      == MCRequirement("aisle", "any", ">=", "integer", "none")
AisleOne   == [Aisle EXCEPT !.version = "1.0"]
AisleInFt  == [AisleOne EXCEPT !.unit = "ft"]
AisleTwo   == [Aisle EXCEPT !.version = "2.0", !.unit = "ft"]
AisleFlag  == [AisleOne EXCEPT !.kind = "boolean"]

MCRequirements == {Speed, Aisle, AisleOne, AisleInFt, AisleTwo, AisleFlag}

MCProvider(rank, priority, supports, embodiments, levels) ==
    [rank |-> rank, priority |-> priority, supports |-> supports,
     embodiments |-> embodiments, levels |-> levels]

AisleVersions == {<<"aisle", "1.0">>, <<"aisle", "2.0">>}
MCProviders   == {MCProvider(1, 0, AisleVersions, {"base"}, {2}),
                  MCProvider(2, 1, {<<"aisle", "1.0">>, <<"speed", "1.0">>}, {"base", "humanoid"}, {0, 3})}
MCMechanisms  == {MCProvider(1, 200, AisleVersions, {"base"}, {3})}


\* Right answers, and answers in another unit, at another level, of the other
\* provider, or to another question.
MCResults == UNION {[provider : {1, 2}, id : {d.id}, version : {d.version}, level : {2, 3},
                     unit : {d.unit, "ft"}] : d \in {SpeedDefinition, AisleMetres, AisleUnitless}}
================================================================================
