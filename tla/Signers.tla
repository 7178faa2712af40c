------------------------------- MODULE Signers -------------------------------
(***************************************************************************)
(* The two contracts in which one signature must not be enough: the        *)
(* multisig and the two-step rotation of an admin.  They do not call each  *)
(* other: a behaviour deploys one of them, and the variables of the other  *)
(* keep their initial values.                                              *)
(***************************************************************************)
EXTENDS SecureMultisig

CONSTANTS Profiles, WasmHashes, NoProfile, FirstWasm, PROPOSAL_TTL_LEDGERS

ASSUME AdminAssumption == PROPOSAL_TTL_LEDGERS \in Nat

VARIABLES deployed, admin, pendingAdmin, pendingExpiry, profile, wasm, proposedAt

Admin == INSTANCE ProtectedAdmin

signersVars == <<deployed, vars, Admin!vars>>

SignersInit == deployed \in {"multisig", "admin"} /\ Init /\ Admin!Init

MultisigNext ==
    /\ deployed = "multisig"
    /\ Next
    /\ UNCHANGED <<deployed, admin, pendingAdmin, pendingExpiry, profile, wasm, proposedAt>>

AdminNext ==
    /\ deployed = "admin"
    /\ Admin!Next
    /\ UNCHANGED <<deployed, config, proposal, executions>>

SignersSpec == SignersInit /\ [][MultisigNext \/ AdminNext]_signersVars

\* The type invariants of both, see their modules.
TypesOK == TypeOK /\ Admin!TypeOK

\* The admin, the code and the profiles change by the right signature only, see
\* ProtectedAdmin.
SignedChanges == Admin!SignedChanges
=============================================================================
