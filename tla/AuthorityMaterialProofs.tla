----------------------- MODULE AuthorityMaterialProofs -----------------------
(***************************************************************************)
(* The activation gate of an authority profile, for any requests, material *)
(* and names, however the requests interleave.                             *)
(***************************************************************************)
EXTENDS AuthorityMaterial, TLAPS

\* Only SaveProfile writes the row of the profile.
LEMMA OnlySaveWrites ==
  ASSUME [AMNext]_amVars, ~ \E r \in Reqs : SaveProfile(r)
  PROVE  UNCHANGED profile
<1> USE DEF dbVars
<1>1. ASSUME NEW r, Begin(r) PROVE UNCHANGED profile
  BY <1>1 DEF Begin
<1>2. ASSUME NEW r \in Reqs, ChangeMaterial(r) PROVE UNCHANGED profile
  BY <1>1, <1>2 DEF ChangeMaterial, Put, Rotate, Revoke
<1>3. ASSUME NEW r \in Reqs, WriteMaterial(r) PROVE UNCHANGED profile
  BY <1>3 DEF WriteMaterial
<1>4. ASSUME NEW r \in Reqs, SyncRead(r) \/ ReadProfile(r) PROVE UNCHANGED profile
  BY <1>4 DEF SyncRead, ReadProfile
<1>5. ASSUME NEW r \in Reqs, NEW in, PatchProfile(r, in) \/ EditForm(r, in) \/ WizardRefs(r, in.bind)
      PROVE UNCHANGED profile
  BY <1>1, <1>5 DEF PatchProfile, EditForm, WizardRefs
<1>6. ASSUME NEW r \in Reqs, NEW name, WizardAck(r) \/ ValidateOffline(r, name) \/ RevealCert(r, name)
      PROVE UNCHANGED profile
  BY <1>1, <1>6 DEF WizardAck, ValidateOffline, RevealCert
<1>7. ASSUME UNCHANGED amVars PROVE UNCHANGED profile
  BY <1>7 DEF amVars
<1> QED BY <1>2, <1>3, <1>4, <1>5, <1>6, <1>7 DEF AMNext

\* What SaveProfile writes is the copy that passed the gate.
LEMMA SavedIsReady ==
  ASSUME ActiveIsReady, NEW r \in Reqs, SaveProfile(r)
  PROVE  ActiveIsReady'
  BY DEF SaveProfile, Written, enforceActivationGate, ActiveIsReady

\* An active profile has its three readiness flags, for any number of
\* requests, any material and any patches (UpdateAuthorityProfile and
\* enforceActivationGate).
THEOREM ActiveProfilesReady == AMSpec => []ActiveIsReady
<1>1. AMInit => ActiveIsReady
  BY DEF AMInit, enforceActivationGate, ActiveIsReady
<1>2. ActiveIsReady /\ [AMNext]_amVars => ActiveIsReady'
  BY OnlySaveWrites, SavedIsReady DEF ActiveIsReady
<1> QED BY <1>1, <1>2, PTL DEF AMSpec
==============================================================================
