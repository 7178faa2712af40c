----------------------------- MODULE DaoAndToken -----------------------------
(***************************************************************************)
(* The two contracts that keep token balances: the DAO and the canonical   *)
(* token.  They do not call each other: a behaviour deploys one of them,   *)
(* and the variables of the other keep their initial values.               *)
(***************************************************************************)
EXTENDS SecureDao

CONSTANT NoEvent

VARIABLES deployed, admin, held, issued, signer, event, replayed

\* held and issued are the token's own Balance and TotalSupply.
Token == INSTANCE SecureToken WITH balance <- held, totalSupply <- issued

daoAndTokenVars == <<deployed, vars, Token!vars>>

DaoAndTokenInit == deployed \in {"dao", "token"} /\ Init /\ Token!Init

DaoNext ==
    /\ deployed = "dao"
    /\ Next
    /\ UNCHANGED <<deployed, admin, held, issued, signer, event, replayed>>

TokenNext ==
    /\ deployed = "token"
    /\ Token!Next
    /\ UNCHANGED <<deployed, totalSupply, balance, nextId, proposal, ballot, sequence>>

\* A contract that is not deployed answers nobody: its fairness is void.
DaoAndTokenSpec ==
    /\ DaoAndTokenInit
    /\ [][DaoNext \/ TokenNext]_daoAndTokenVars
    /\ deployed = "dao" => Fairness

\* The properties of the token, see SecureToken.
TokenTypeOK == Token!TypeOK
SupplyIsSumOfBalances == Token!SupplyIsSumOfBalances
EventsTellTheBalances == Token!EventsTellTheBalances
Consent == Token!Consent
BurnIsAdminGated == Token!BurnIsAdminGated
=============================================================================
