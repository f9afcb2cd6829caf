------------------------------- MODULE MCAdmin -------------------------------
(***************************************************************************)
(* The administrative side on small instances: the authority profile and   *)
(* its material, the registry, the queue actions, the cache of signing     *)
(* keys and the UI's sessions.  They share no state, so a behaviour moves  *)
(* one of the five and the others stay at an initial state.                *)
(***************************************************************************)
EXTENDS AuthorityMaterial, AdminRegistry, OpsActions, JwksCache, AdminSessions, TLC

CONSTANTS p1, p2

VARIABLE part

\* The second name is that of another certificate.
AllBound == [role \in Roles |-> "n1"]
OtherCert == [NoRefs EXCEPT ![Cert] = "n2"]
MCUploads ==
  {<<"producer_credential", "n1", p1>>, <<Key, "n1", p1>>, <<Cert, "n1", p1>>,
   <<Cert, "n1", p2>>, <<Cert, "n2", p2>>}
MCPatches ==
  {[NoPatch EXCEPT !.status = "active"],
   [NoPatch EXCEPT !.config = "T", !.secrets = "T"],
   [NoPatch EXCEPT !.status = "draft", !.offline = "F", !.bind = OtherCert],
   [NoPatch EXCEPT !.config = "T", !.secrets = "T", !.offline = "T"],
   [status |-> "active", bind |-> AllBound, config |-> "T", secrets |-> "T", offline |-> "T"]}
MCPolicyTypes == {<<"vendas", "FT">>, <<"vendas", "NC">>}

MCSymmetry == Permutations(Reqs)

\* A vault that is empty, or holds under the first name a key and its
\* credential with a certificate that matches, or has been revoked.
MaterialStart ==
  /\ profile.status = "draft" /\ profile.refs \in {AllBound, [AllBound EXCEPT ![Cert] = Unset]}
  /\ \A role \in Roles, name \in Names \ {"n1"} : vault[<<role, name>>] = "absent"
  /\ \/ \A role \in Roles : vault[<<role, "n1">>] = "absent"
     \/ /\ \A role \in Roles \ {Cert} : vault[<<role, "n1">>] = p1
        /\ vault[<<Cert, "n1">>] \in {p1, "revoked"}

AdminInit ==
  /\ AMInit /\ MaterialStart /\ RegInit /\ OpsInit /\ JwksInit /\ UiInit
  /\ part \in {"material", "registry", "queue", "keys", "browser"}
  /\ part # "material" => profile.refs = AllBound /\ vault[<<Key, "n1">>] = "absent"
  /\ part # "keys" => published = Kids

AdminNext ==
  /\ \/ part = "material" /\ AMNext /\ UNCHANGED <<regVars, opsVars, jwksVars, uiVars>>
     \/ part = "registry" /\ RegNext /\ UNCHANGED <<amVars, opsVars, jwksVars, uiVars>>
     \/ part = "queue" /\ OpsNext /\ UNCHANGED <<amVars, regVars, jwksVars, uiVars>>
     \/ part = "keys" /\ JwksNext /\ UNCHANGED <<amVars, regVars, opsVars, uiVars>>
     \/ part = "browser" /\ UiNext /\ UNCHANGED <<amVars, regVars, opsVars, jwksVars>>
  /\ UNCHANGED part

AdminSpec == AdminInit /\ [][AdminNext]_<<amVars, regVars, opsVars, jwksVars, uiVars, part>>
==============================================================================
