-------------------------- MODULE MCVerifiedAdmission --------------------------
(***************************************************************************)
(* Small instances of VerifiedAdmission, over the constants of             *)
(* MCProfileLifecycle: a validator for the whole clinic and one for the    *)
(* ward only, an authority of the clinic and one of the lobby.             *)
(***************************************************************************)
EXTENDS MCProfileLifecycle, VerifiedAdmission

MCKeyOf == [h \in {"lab", "wardlab", "clinic", "frontdesk"} |-> h]

LOCAL Validator(key, scopes, enabled) ==
    [key |-> key, types |-> {"spp:evidence-bundle"}, scopes |-> {"clinic"} \X scopes,
     enabled |-> enabled]

LOCAL Governor(key, scopes, enabled) ==
    [key |-> key, places |-> {"clinic"}, scopes |-> scopes, enabled |-> enabled]

AllSpaces == {"lobby", "ward"}

\* The lab may be disabled and enabled again; the ward's validator may be
\* provisioned with a new key it does not use yet.
MCIssuerAnchors ==
    [lab     |-> {Validator("lab", AllSpaces, TRUE), Validator("lab", AllSpaces, FALSE)},
     wardlab |-> {Validator("wardlab", {"ward"}, TRUE), Validator("newkey", {"ward"}, TRUE)}]

MCInitialIssuers ==
    [lab     |-> Validator("lab", AllSpaces, TRUE),
     wardlab |-> Validator("wardlab", {"ward"}, TRUE)]

\* The clinic's authority is not known yet; the front desk may lose its say.
MCAuthorityAnchors ==
    [clinic    |-> {Governor("clinic", AllSpaces, TRUE)},
     frontdesk |-> {Governor("frontdesk", {"lobby"}, FALSE)}]

MCInitialAuthorities ==
    [clinic |-> Unknown, frontdesk |-> Governor("frontdesk", {"lobby"}, TRUE)]

\* A robot that meets both speed bounds and records video, which the ward does
\* not mind: it may be ADMITTED there and DEGRADED in the lobby.
SignedWard     == Set("ward", 2, {Speed(1)})
SignedPolicies == {Lobby, SignedWard}
RecordsVideo   == {Robot("b1", "c1", "site1", 1, 1)}

\* The front desk also signs for the ward, where it has no say.
MCEndorses == {<<"clinic", SignedWard>>, <<"frontdesk", Lobby>>, <<"frontdesk", SignedWard>>}
================================================================================
