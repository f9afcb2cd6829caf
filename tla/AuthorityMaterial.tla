-------------------------- MODULE AuthorityMaterial --------------------------
(***************************************************************************)
(* The preparation of a profile of the tax authority: the vault that holds *)
(* its material (internal/secretstore), the profile that names the         *)
(* material and says how ready it is (internal/adminregistry), and the     *)
(* handlers of the administrative API and UI that change both.             *)
(*                                                                         *)
(* A request is a sequence of database statements, and requests interleave *)
(* between them.  A change of material commits in the vault first; only    *)
(* then, and only when the request carries authority_profile_id, is the    *)
(* profile read, patched in memory and written back, every column of it.   *)
(* PostgreSQL (READ COMMITTED) is modelled: SQLite and the store kept in   *)
(* memory allow fewer interleavings.                                       *)
(*                                                                         *)
(* A reference is a role and a name; the profile holds a name, or none,    *)
(* for each role, and a request may name another one.  Left out:           *)
(* fingerprints, expiry dates, versions and the fields no step reads back; *)
(* allowed_operations, refused alike wherever written; external_verified,  *)
(* which every write sets to false; and the environment and the subject,   *)
(* which a name stands for.                                                *)
(***************************************************************************)
EXTENDS Integers, FiniteSets

CONSTANTS
  Reqs,        \* the requests; each is made once
  Mats,        \* key pairs: a key and a certificate match when they are of one pair
  Names,       \* the names of references
  Uploads,     \* what the owner may upload: a role, a name and a material
  Patches      \* the bodies of PATCH /authority-profiles/{id}

Roles == {"producer_credential", "producer_key", "certificate"}
Key == "producer_key"
Cert == "certificate"
Statuses == {"draft", "validated", "active", "revoked"}
Unset == "unset"             \* a field the request does not carry
Choice == {Unset, "T", "F"}  \* a flag in a request: absent, true or false
NoRefs == [role \in Roles |-> Unset]
NoPatch == [status |-> Unset, bind |-> NoRefs, config |-> Unset, secrets |-> Unset, offline |-> Unset]
Bindings == [Roles -> Names \cup {Unset}]
PatchType ==
  [status : Statuses \cup {Unset}, bind : Bindings,
   config : Choice, secrets : Choice, offline : Choice]
ProfileType ==
  [refs : Bindings, status : Statuses,
   config : BOOLEAN, secrets : BOOLEAN, offline : BOOLEAN]
Cells == Mats \cup {"absent", "revoked"}

ASSUME MaterialAssumption ==
  /\ Mats \cap {"absent", "revoked"} = {}
  /\ Unset \notin Names
  /\ Uploads \subseteq Roles \X Names \X Mats
  /\ Patches \subseteq PatchType

VARIABLES
  vault,       \* what secret_store_entries holds for each reference
  profile,     \* the row of authority_profiles
  req,         \* where each request is, and what it holds
  overlapped   \* history: two requests have been under way at once

dbVars == <<vault, profile>>
amVars == <<vault, profile, req, overlapped>>

------------------------------------------------------------------------------
(* Profiles and patches.                                                   *)

Flag(old, choice) == IF choice = Unset THEN old ELSE choice = "T"

\* sanitizeRefName: a name in the request replaces the one bound.
Apply(p, in) ==
  [refs |-> [role \in Roles |-> IF in.bind[role] = Unset THEN p.refs[role] ELSE in.bind[role]],
   status |-> IF in.status = Unset THEN p.status ELSE in.status,
   config |-> Flag(p.config, in.config),
   secrets |-> Flag(p.secrets, in.secrets),
   offline |-> Flag(p.offline, in.offline)]

enforceActivationGate(p) == p.status = "active" => p.config /\ p.secrets /\ p.offline

Present(ref) == vault[ref] \in Mats
BoundRoles(p) == {role \in Roles : p.refs[role] # Unset}
RefForRole(p, role) == <<role, p.refs[role]>>
AllPresent(p) == BoundRoles(p) = Roles /\ \A role \in Roles : Present(RefForRole(p, role))

\* With secrets_ready every reference must be bound and present; without it,
\* a profile being activated must name no revoked material.
AssertBindingsForWrite(p) ==
  /\ p.secrets => AllPresent(p)
  /\ p.status = "active" => \A role \in BoundRoles(p) : vault[RefForRole(p, role)] # "revoked"

\* A certificate is bound when the profile has none.
ProfilePatchAfterMaterialChange(p, ref, value) ==
  [NoPatch EXCEPT !.offline = "F", !.secrets = "F",
                  !.bind = IF ref[1] = Cert /\ value \in Mats /\ p.refs[Cert] = Unset
                           THEN [NoRefs EXCEPT ![Cert] = ref[2]] ELSE NoRefs]

------------------------------------------------------------------------------
(* Requests.  "held" is the profile as the request will write it.          *)

NewReq == [pc |-> "new", op |-> Unset, ref |-> <<>>, value |-> Unset, insert |-> FALSE,
           sync |-> FALSE, in |-> NoPatch, held |-> <<>>]

UnderWay(r) == req[r].pc \notin {"new", "done"}

\* The first statement of a request.
Begin(r) ==
  /\ req[r].pc = "new"
  /\ overlapped' = (overlapped \/ \E s \in Reqs : UnderWay(s))
  /\ UNCHANGED dbVars

Finish(r) == req' = [req EXCEPT ![r] = [NewReq EXCEPT !.pc = "done"]]

GoWrite(r, ref, value, sync) ==
  req' = [req EXCEPT ![r] = [NewReq EXCEPT !.pc = "write", !.ref = ref,
            !.value = value, !.sync = sync, !.insert = vault[ref] = "absent"]]

GoRead(r, op, in) == req' = [req EXCEPT ![r] = [NewReq EXCEPT !.pc = "read", !.op = op, !.in = in]]

GoSave(r, op, in) ==
  req' = [req EXCEPT ![r] = [NewReq EXCEPT !.pc = "save", !.op = op, !.in = in,
            !.held = Apply(profile, in)]]

\* Put refuses a reference that is present; Rotate takes any; Revoke needs a row.
Put(r, ref, mat, sync) ==
  /\ Begin(r)
  /\ \/ Present(ref) /\ Finish(r)
     \/ ~Present(ref) /\ GoWrite(r, ref, mat, sync)

Rotate(r, ref, mat, sync) == Begin(r) /\ GoWrite(r, ref, mat, sync)

Revoke(r, ref, sync) ==
  /\ Begin(r)
  /\ \/ vault[ref] = "absent" /\ Finish(r)
     \/ vault[ref] # "absent" /\ GoWrite(r, ref, "revoked", sync)

\* A request of the owner, with or without authority_profile_id; the
\* revocation form of the UI has no such field.
ChangeMaterial(r) ==
  \E u \in Uploads, sync \in BOOLEAN :
    \/ Put(r, <<u[1], u[2]>>, u[3], sync)
    \/ Rotate(r, <<u[1], u[2]>>, u[3], sync)
    \/ Revoke(r, <<u[1], u[2]>>, sync)

\* writeTx and the commit: an INSERT of a reference another request has
\* inserted since fails; an UPDATE overwrites whatever is there.
WriteMaterial(r) ==
  /\ req[r].pc = "write"
  /\ \/ /\ req[r].insert /\ vault[req[r].ref] # "absent"
        /\ Finish(r)
        /\ UNCHANGED vault
     \/ /\ ~(req[r].insert /\ vault[req[r].ref] # "absent")
        /\ vault' = [vault EXCEPT ![req[r].ref] = req[r].value]
        /\ IF req[r].sync THEN req' = [req EXCEPT ![r].pc = "sync"] ELSE Finish(r)
  /\ UNCHANGED <<profile, overlapped>>

\* syncProfileAfterMaterialChange reads the profile for the patch, and
\* UpdateAuthorityProfile reads it again.
SyncRead(r) ==
  /\ req[r].pc = "sync"
  /\ GoRead(r, "sync", ProfilePatchAfterMaterialChange(profile, req[r].ref, req[r].value))
  /\ UNCHANGED <<dbVars, overlapped>>

\* PATCH: the bindings are checked on a preview, then the registry reads again.
PatchProfile(r, in) ==
  /\ Begin(r)
  /\ \/ ~AssertBindingsForWrite(Apply(profile, in)) /\ Finish(r)
     \/ AssertBindingsForWrite(Apply(profile, in)) /\ GoRead(r, "api", in)

ReadProfile(r) ==
  /\ req[r].pc = "read"
  /\ GoSave(r, req[r].op, req[r].in)
  /\ UNCHANGED <<dbVars, overlapped>>

\* The forms of the UI call the registry with no check of the bindings; the
\* edit form sends the three flags every time: a box not ticked is false.
SendsAllFlags(in) == in.config # Unset /\ in.secrets # Unset /\ in.offline # Unset

EditForm(r, in) ==
  /\ SendsAllFlags(in)
  /\ Begin(r)
  /\ GoSave(r, "form", in)

WizardRefs(r, bind) == Begin(r) /\ GoSave(r, "wizard", [NoPatch EXCEPT !.bind = bind])
WizardAck(r) == Begin(r) /\ GoSave(r, "wizard", [NoPatch EXCEPT !.config = "T"])

\* The key is revealed, then the certificate, each by the name the request
\* gives; "value" keeps the key's pair.
ValidateOffline(r, keyName) ==
  /\ Begin(r)
  /\ \/ ~Present(<<Key, keyName>>) /\ Finish(r)
     \/ /\ Present(<<Key, keyName>>)
        /\ req' = [req EXCEPT ![r] = [NewReq EXCEPT !.pc = "cert", !.value = vault[<<Key, keyName>>]]]

ReportOK(r, certName) == Present(<<Cert, certName>>) /\ vault[<<Cert, certName>>] = req[r].value

\* The report also needs the chain, the dates and the purpose to be right,
\* and the profile is written only when the request names it.
RevealCert(r, certName) ==
  /\ req[r].pc = "cert"
  /\ \/ Finish(r)
     \/ ReportOK(r, certName) /\ GoRead(r, "validate", [NoPatch EXCEPT !.offline = "T"])
  /\ UNCHANGED <<dbVars, overlapped>>

Written_Mutant(r) == Apply(profile, req[r].in)
Written(r) == req[r].held

\* The gate and the UPDATE of every column WHERE profile_id.
SaveProfile(r) ==
  /\ req[r].pc = "save"
  /\ Finish(r)
  /\ \/ ~enforceActivationGate(req[r].held) /\ UNCHANGED profile
     \/ enforceActivationGate(req[r].held) /\ profile' = Written(r)
  /\ UNCHANGED <<vault, overlapped>>

------------------------------------------------------------------------------
\* A profile is created without flags, so the gate refuses an active one;
\* the vault holds whatever was uploaded before.
normalizeCreateAuthority ==
  [refs : Bindings, status : Statuses, config : {FALSE}, secrets : {FALSE}, offline : {FALSE}]

AMInit ==
  /\ vault \in [Roles \X Names -> Cells]
  /\ profile \in {p \in normalizeCreateAuthority : enforceActivationGate(p)}
  /\ req = [r \in Reqs |-> NewReq]
  /\ overlapped = FALSE

AMNext ==
  \E r \in Reqs :
    \/ ChangeMaterial(r)
    \/ WriteMaterial(r)
    \/ SyncRead(r)
    \/ \E in \in Patches : PatchProfile(r, in) \/ EditForm(r, in) \/ WizardRefs(r, in.bind)
    \/ ReadProfile(r)
    \/ WizardAck(r)
    \/ \E name \in Names : ValidateOffline(r, name) \/ RevealCert(r, name)
    \/ SaveProfile(r)

AMSpec == AMInit /\ [][AMNext]_amVars

------------------------------------------------------------------------------
(* Properties.                                                             *)

\* However requests interleave, a profile that is active has its three
\* readiness flags: UpdateAuthorityProfile judges a stale copy, but writes
\* back every column of the copy it judged.
ActiveIsReady == profile.status = "active" => profile.config /\ profile.secrets /\ profile.offline

\* After a rotation or a revocation that names the profile,
\* offline_validated is false, requests coming one at a time.  The profile
\* is patched through UpdateAuthorityProfile, whose gate refuses to take a
\* flag from an active profile; the refusal is only audited.
OfflineInvalidated ==
  [][\A r \in Reqs :
       ~overlapped /\ req[r].pc = "save" /\ req[r].op = "sync" /\ req'[r].pc = "done"
         => ~profile'.offline]_amVars
==============================================================================
