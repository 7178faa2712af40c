----------------------------- MODULE FundsProofs -----------------------------
(***************************************************************************)
(* The promises of the corrected fixtures that keep accounts of what is    *)
(* owed and held (claims, rewards, lending, vaults, tokens, the small      *)
(* contracts of Mirrors), crate by crate, for every set of accounts.       *)
(*                                                                         *)
(* For a crate X, X_Types gives the shape of its storage and of what the   *)
(* model remembers of the past, X_Inv adds the promise and the facts that  *)
(* make it inductive, each a definition of its own, and X_Correct says     *)
(* that every deployment is in X_Inv and that a call of the corrected      *)
(* contract stays in it.  Where the promise follows from X_Inv without     *)
(* being part of it, X_Promise says so; where it is about a step,          *)
(* X_Correct includes it.  Nothing is proved of the fixture's own code.    *)
(*                                                                         *)
(* The proof for a crate has one step per call.  Each begins with the      *)
(* storage the call writes, as a record, and the guards it passed.         *)
(* FixtureProofs puts the crates together.                                 *)
(***************************************************************************)
EXTENDS Mirrors, Claims, Rewards, Lending, Vaults, Tokens, AccountsProofs

\* A move between two accounts keeps the total; a move to oneself adds to it,
\* because both balances are read before either is written.
LEMMA MovedSum ==
    ASSUME NEW f \in [Address -> Int], NEW u \in Address, NEW v \in Address, NEW n \in Int
    PROVE  /\ Mirror_moved(f, u, v, n) \in [Address -> Int]
           /\ SumFunction(Mirror_moved(f, u, v, n)) = IF u = v THEN SumFunction(f) + n
              ELSE SumFunction(f)
<1>1. CASE u = v
    <2>1. Mirror_moved(f, u, v, n) = Added(f, v, n)
        BY <1>1 DEF Mirror_moved, Added
    <2> QED BY <1>1, <2>1, AddedTo
<1>2. CASE u # v
    <2>1. Mirror_moved(f, u, v, n) = Added(Taken(f, u, n), v, n)
        BY <1>2 DEF Mirror_moved, Added, Taken
    <2>2. /\ Taken(f, u, n) \in [Address -> Int] /\ SumFunction(Taken(f, u, n)) = SumFunction(f) - n
          /\ SumFunction(f) \in Int
        BY TakenFrom
    <2>3. /\ Added(Taken(f, u, n), v, n) \in [Address -> Int]
          /\ SumFunction(Added(Taken(f, u, n), v, n)) = SumFunction(Taken(f, u, n)) + n
        BY <2>2, AddedTo
    <2> QED BY <1>2, <2>1, <2>2, <2>3
<1> QED BY <1>1, <1>2

\* A set within a singleton has at most one element.
LEMMA AtMostOne ==
    ASSUME NEW D, NEW u, D \subseteq {u} PROVE Cardinality(D) <= 1
<1>1. D = {} \/ D = {u}
    OBVIOUS
<1> QED BY <1>1, FS_EmptySet, FS_Singleton

-----------------------------------------------------------------------------
(* secure_pausable.                                                        *)
\* A step that leaves the balances alone keeps the pause.
LEMMA Pausable_Untouched == store'.balance = store.balance => Pausable_PauseHolds
<1> SUFFICES ASSUME store'.balance = store.balance PROVE Pausable_PauseHolds
    OBVIOUS
<1>1. {w \in Address : store'.balance[w] # store.balance[w]} \subseteq {None}
    OBVIOUS
<1>2. Cardinality({w \in Address : store'.balance[w] # store.balance[w]}) <= 1
    BY <1>1, AtMostOne
<1> QED BY <1>2 DEF Pausable_PauseHolds

Pausable_Types ==
    /\ store \in [admin : Address \cup {None}, paused : BOOLEAN, balance : [Address -> Int]]
    /\ past \in [pausedBy : Address \cup {None}, issued : Int, self : Int]

\* A remembered pause is in force.
Pausable_PausedIsRemembered ==
    /\ past.pausedBy # None => store.paused
    /\ store.admin = None => past.pausedBy = None

Pausable_Inv == Pausable_Types /\ Pausable_PausedIsRemembered /\ Pausable_SumIsExplained

\* Every deployment is in Pausable_Inv; a call of the corrected contract, or
\* none, stays in it.
LEMMA Pausable_Correct ==
    /\ now = 0 /\ Pausable_Init => Pausable_Inv
    /\ Secure /\ Pausable_Inv /\ Pausable_Next => Pausable_Inv' /\ Pausable_PauseHolds
    /\ Pausable_Inv /\ UNCHANGED vars => Pausable_Inv' /\ Pausable_PauseHolds
<1>1. now = 0 /\ Pausable_Init => Pausable_Inv
    BY ContractAssumption, ZeroSum DEF Pausable_Init, Pausable_Inv, Pausable_Types,
       Pausable_PausedIsRemembered, Pausable_SumIsExplained, Pausable_SumIsExplained,
       MirrorAmounts, Pausable_Init
<1>2. ASSUME Secure, Pausable_Inv, Pausable_Next PROVE Pausable_Inv' /\ Pausable_PauseHolds
    <2>1. PICK u \in Address, v \in Address, amount \in MirrorAmounts :
              Pausable_initialize(u) \/ Pausable_mint(u, amount, v) \/ Pausable_pause(u) \/
              Pausable_unpause(u) \/ Pausable_transfer(u, v, amount) \/ Pausable_set_admin(u, v)
        BY <1>2, Zenon DEF Pausable_Next, Lib, Secure
    <2>2. CASE Pausable_initialize(u)
        <3>1. /\ store' = [admin |-> u, paused |-> FALSE, balance |-> store.balance]
              /\ past' = past
              /\ store.admin = None
            BY <1>2, <2>2 DEF Pausable_initialize, Write, Pausable_Inv, Pausable_Types, Added,
               Taken
        <3> QED BY <1>2, <3>1, ContractAssumption, ZeroSum DEF Pausable_Inv, Pausable_Types,
               Pausable_PausedIsRemembered, Pausable_SumIsExplained, MirrorAmounts,
               Pausable_PauseHolds
    <2>3. CASE Pausable_mint(u, amount, v)
        <3>1. /\ store = [admin |-> store.admin, paused |-> store.paused, balance |-> store.balance]
              /\ past = [pausedBy |-> past.pausedBy, issued |-> past.issued, self |-> past.self]
              /\ store.balance \in [Address -> Int] /\ u \in Address /\ amount \in Int
              /\ past.issued \in Int /\ past.self \in Int /\
                 SumFunction(store.balance) = past.issued + past.self
            BY <1>2 DEF Pausable_Inv, Pausable_Types, Pausable_SumIsExplained, MirrorAmounts
        <3>2. PICK b, k : b = Added(store.balance, u, amount) /\ k = past.issued + amount
            OBVIOUS
        <3>3. store' = [store EXCEPT !.balance = b] /\ past' = [past EXCEPT !.issued = k]
            BY <2>3, <3>2 DEF Pausable_mint, WriteAnd, Added
        <3>e. /\ store' = [admin |-> store.admin, paused |-> store.paused, balance |-> b]
              /\ past' = [pausedBy |-> past.pausedBy, issued |-> k, self |-> past.self]
            BY <3>1, <3>3
        <3>4. /\ Added(store.balance, u, amount) \in [Address -> Int]
              /\ SumFunction(Added(store.balance, u, amount)) = SumFunction(store.balance) + amount
            BY <3>1, AddedTo
        <3>s. b \in [Address -> Int] /\ k \in Int /\ SumFunction(b) = k + past.self
            BY <3>1, <3>2, <3>4
        <3>d. {w \in Address : b[w] # store.balance[w]} \subseteq {u}
            BY <3>1, <3>2 DEF Added
        <3>5. Cardinality({w \in Address : b[w] # store.balance[w]}) <= 1
            BY <3>d, AtMostOne
        <3>6. Pausable_PauseHolds
            BY <3>e, <3>5 DEF Pausable_PauseHolds
        <3>7. Pausable_SumIsExplained'
            BY <3>e, <3>s DEF Pausable_SumIsExplained
        <3> QED BY <1>2, <3>1, <3>e, <3>s, <3>6, <3>7
               DEF Pausable_Inv, Pausable_Types, Pausable_PausedIsRemembered
    <2>4. CASE Pausable_pause(u)
        <3>1. /\ store' = [admin |-> store.admin, paused |-> TRUE, balance |-> store.balance]
              /\ past' = [pausedBy |-> u, issued |-> past.issued, self |-> past.self]
              /\ Pausable_require_admin(u)
            BY <1>2, <2>4 DEF Pausable_pause, WriteAnd, Pausable_Inv, Pausable_Types, Added,
               Taken
        <3>2. Pausable_Types'
            BY <1>2, <3>1, ContractAssumption, ZeroSum DEF Pausable_Inv, Pausable_Types,
               Pausable_require_admin, MirrorAmounts
        <3>3. Pausable_PausedIsRemembered'
            BY <1>2, <3>1, ContractAssumption, ZeroSum DEF Pausable_Inv, Pausable_Types,
               Pausable_PausedIsRemembered, Pausable_SumIsExplained, MirrorAmounts,
               Pausable_require_admin
        <3>4. Pausable_SumIsExplained'
            BY <1>2, <3>1, ContractAssumption, ZeroSum DEF Pausable_Inv, Pausable_Types,
               Pausable_PausedIsRemembered, Pausable_SumIsExplained, MirrorAmounts,
               Pausable_require_admin
        <3>5. Pausable_PauseHolds
            BY <3>1, Pausable_Untouched
        <3> QED BY <3>2, <3>3, <3>4, <3>5 DEF Pausable_Inv
    <2>5. CASE Pausable_unpause(u)
        <3>1. /\ store' = [admin |-> store.admin, paused |-> FALSE, balance |-> store.balance]
              /\ past' = [pausedBy |-> None, issued |-> past.issued, self |-> past.self]
              /\ Pausable_require_admin(u)
            BY <1>2, <2>5 DEF Pausable_unpause, WriteAnd, Pausable_Inv, Pausable_Types, Added,
               Taken
        <3> QED BY <1>2, <3>1, ContractAssumption, ZeroSum DEF Pausable_Inv, Pausable_Types,
               Pausable_PausedIsRemembered, Pausable_SumIsExplained, MirrorAmounts,
               Pausable_require_admin, Pausable_PauseHolds
    <2>6. CASE Pausable_transfer(u, v, amount)
        <3>1. PICK b : b = Mirror_moved(store.balance, u, v, amount)
            OBVIOUS
        <3>2. /\ store = [admin |-> store.admin, paused |-> store.paused, balance |-> store.balance]
              /\ past = [pausedBy |-> past.pausedBy, issued |-> past.issued, self |-> past.self]
              /\ store.balance \in [Address -> Int] /\ amount \in Int /\ past.issued \in Int /\
                 past.self \in Int
              /\ SumFunction(store.balance) = past.issued + past.self
            BY <1>2 DEF Pausable_Inv, Pausable_Types, Pausable_SumIsExplained, MirrorAmounts
        <3>3. /\ b \in [Address -> Int] /\ SumFunction(store.balance) \in Int
              /\ SumFunction(b) = IF u = v THEN SumFunction(store.balance) + amount
                 ELSE SumFunction(store.balance)
            <4>1. store.balance \in [Address -> Int] /\ amount \in Int
                BY <3>2
            <4>2. /\ Mirror_moved(store.balance, u, v, amount) \in [Address -> Int]
                  /\ SumFunction(Mirror_moved(store.balance, u, v, amount)) =
                         IF u = v THEN SumFunction(store.balance) + amount
                             ELSE SumFunction(store.balance)
                BY <4>1, MovedSum
            <4> QED BY <3>1, <3>2, <4>2
        <3>n. PICK k \in Int : k = IF u = v THEN past.self + amount ELSE past.self
            BY <3>2
        <3>s. SumFunction(b) = past.issued + k
            BY <3>2, <3>3, <3>n
        <3>4. store' = [store EXCEPT !.balance = b] /\ past' = Mirror_noted(u, v, amount)
            BY <2>6, <3>1 DEF Pausable_transfer, WriteAnd
        <3>5. store' = [admin |-> store.admin, paused |-> store.paused, balance |-> b]
            BY <3>2, <3>4
        <3>6. past' = [pausedBy |-> past.pausedBy, issued |-> past.issued, self |-> k]
            <4>1. CASE u = v
                BY <3>2, <3>4, <3>n, <4>1 DEF Mirror_noted
            <4>2. CASE u # v
                BY <3>2, <3>4, <3>n, <4>2 DEF Mirror_noted
            <4> QED BY <4>1, <4>2
        <3>7. past.pausedBy = None
            <4>1. store.paused # TRUE
                BY <2>6 DEF Pausable_transfer
            <4> QED BY <1>2, <4>1 DEF Pausable_Inv, Pausable_PausedIsRemembered
        <3>8. Pausable_PauseHolds
            BY <3>7 DEF Pausable_PauseHolds
        <3>9. Pausable_SumIsExplained'
            BY <3>5, <3>6, <3>s DEF Pausable_SumIsExplained
        <3> QED BY <1>2, <3>2, <3>3, <3>5, <3>6, <3>8, <3>9
               DEF Pausable_Inv, Pausable_Types, Pausable_PausedIsRemembered
    <2>7. CASE Pausable_set_admin(u, v)
        <3>1. /\ store' = [admin |-> u, paused |-> store.paused, balance |-> store.balance]
              /\ past' = past
              /\ Pausable_require_admin(v)
            BY <1>2, <2>7 DEF Pausable_set_admin, Write, Pausable_Inv, Pausable_Types, Added,
               Taken
        <3>2. Pausable_Types'
            BY <1>2, <3>1, ContractAssumption, ZeroSum DEF Pausable_Inv, Pausable_Types,
               Pausable_require_admin, MirrorAmounts
        <3>3. Pausable_PausedIsRemembered'
            BY <1>2, <3>1, ContractAssumption, ZeroSum DEF Pausable_Inv, Pausable_Types,
               Pausable_PausedIsRemembered, Pausable_SumIsExplained, MirrorAmounts,
               Pausable_require_admin
        <3>4. Pausable_SumIsExplained'
            BY <1>2, <3>1, ContractAssumption, ZeroSum DEF Pausable_Inv, Pausable_Types,
               Pausable_PausedIsRemembered, Pausable_SumIsExplained, MirrorAmounts,
               Pausable_require_admin
        <3>5. Pausable_PauseHolds
            BY <3>1, Pausable_Untouched
        <3> QED BY <3>2, <3>3, <3>4, <3>5 DEF Pausable_Inv
    <2> QED BY <2>1, <2>2, <2>3, <2>4, <2>5, <2>6, <2>7
<1>3. Pausable_Inv /\ UNCHANGED vars => Pausable_Inv' /\ Pausable_PauseHolds
    BY Pausable_Untouched DEF Pausable_Inv, Pausable_Types, Pausable_PauseHolds,
       Pausable_PausedIsRemembered, Pausable_SumIsExplained, vars
<1> QED BY <1>1, <1>2, <1>3

-----------------------------------------------------------------------------
(* secure_vault.                                                           *)
Vault_Types ==
    /\ store \in [balance : [Address -> Int]]
    /\ past \in [issued : Int, self : Int]

Vault_Inv == Vault_Types /\ Vault_SumIsExplained

\* Every deployment is in Vault_Inv; a call of the corrected contract, or none,
\* stays in it.
LEMMA Vault_Correct ==
    /\ now = 0 /\ Vault_Init => Vault_Inv
    /\ Secure /\ Vault_Inv /\ Vault_Next => Vault_Inv'
    /\ Vault_Inv /\ UNCHANGED vars => Vault_Inv'
<1>1. now = 0 /\ Vault_Init => Vault_Inv
    BY ContractAssumption, ZeroSum DEF Vault_Init, Vault_Inv, Vault_Types, Vault_SumIsExplained,
       Vault_SumIsExplained, MirrorAmounts, Vault_Init
<1>2. ASSUME Secure, Vault_Inv, Vault_Next PROVE Vault_Inv'
    <2>1. PICK u \in Address, v \in Address, amount \in MirrorAmounts :
              Vault_mint(u, amount) \/ Vault_burn(u, amount) \/ Vault_transfer(u, v, amount)
        BY <1>2, Zenon DEF Vault_Next, Lib, Secure
    <2>2. CASE Vault_mint(u, amount)
        <3>1. /\ store' = [balance |-> Added(store.balance, u, amount)]
              /\ past' = [issued |-> past.issued + amount, self |-> past.self]
              /\ store.balance[u] + amount \in MirrorFunds
            BY <1>2, <2>2 DEF Vault_mint, WriteAnd, Vault_Inv, Vault_Types, Added, Taken
        <3>s1. /\ Added(store.balance, u, amount) \in [Address -> Int]
               /\ SumFunction(Added(store.balance, u, amount)) =
                  SumFunction(store.balance) + amount /\
                  SumFunction(store.balance) \in Int
               /\ \A w \in Address :
                  Added(store.balance, u,
                        amount)[w] = store.balance[w] + (IF w = u THEN amount ELSE 0)
            <4>1. store.balance \in [Address -> Int] /\ u \in Address /\ amount \in Int
                BY <1>2, <3>1, ContractAssumption, ZeroSum DEF Vault_Inv, Vault_Types,
                   MirrorAmounts
            <4> QED BY <4>1, AddedTo, ZenonT(60)
        <3> QED BY <1>2, <3>1, <3>s1, ContractAssumption, ZeroSum DEF Vault_Inv, Vault_Types,
               Vault_SumIsExplained, MirrorAmounts, MirrorFunds
    <2>3. CASE Vault_burn(u, amount)
        <3>1. /\ store' = [balance |-> Taken(store.balance, u, amount)]
              /\ past' = [issued |-> past.issued - amount, self |-> past.self]
              /\ store.balance[u] - amount >= 0
              /\ store.balance[u] - amount \in MirrorFunds
            BY <1>2, <2>3 DEF Vault_burn, WriteAnd, Vault_Inv, Vault_Types, Added, Taken
        <3>s1. /\ Taken(store.balance, u, amount) \in [Address -> Int]
               /\ SumFunction(Taken(store.balance, u, amount)) =
                  SumFunction(store.balance) - amount /\
                  SumFunction(store.balance) \in Int
               /\ \A w \in Address :
                  Taken(store.balance, u,
                        amount)[w] = store.balance[w] - (IF w = u THEN amount ELSE 0)
            <4>1. store.balance \in [Address -> Int] /\ u \in Address /\ amount \in Int
                BY <1>2, <3>1, ContractAssumption, ZeroSum DEF Vault_Inv, Vault_Types,
                   MirrorAmounts
            <4> QED BY <4>1, TakenFrom, ZenonT(60)
        <3> QED BY <1>2, <3>1, <3>s1, ContractAssumption, ZeroSum DEF Vault_Inv, Vault_Types,
               Vault_SumIsExplained, MirrorAmounts, MirrorFunds
    <2>4. CASE Vault_transfer(u, v, amount)
        <3>1. PICK b : b = Mirror_moved(store.balance, u, v, amount)
            OBVIOUS
        <3>2. /\ store = [balance |-> store.balance]
              /\ past = [issued |-> past.issued, self |-> past.self]
              /\ store.balance \in [Address -> Int] /\ amount \in Int /\ past.issued \in Int /\
                 past.self \in Int
              /\ SumFunction(store.balance) = past.issued + past.self
            BY <1>2 DEF Vault_Inv, Vault_Types, Vault_SumIsExplained, MirrorAmounts
        <3>3. /\ b \in [Address -> Int] /\ SumFunction(store.balance) \in Int
              /\ SumFunction(b) = IF u = v THEN SumFunction(store.balance) + amount
                 ELSE SumFunction(store.balance)
            <4>1. store.balance \in [Address -> Int] /\ amount \in Int
                BY <3>2
            <4>2. /\ Mirror_moved(store.balance, u, v, amount) \in [Address -> Int]
                  /\ SumFunction(Mirror_moved(store.balance, u, v, amount)) =
                         IF u = v THEN SumFunction(store.balance) + amount
                             ELSE SumFunction(store.balance)
                BY <4>1, MovedSum, ZenonT(60)
            <4> QED BY <3>1, <3>2, <4>2
        <3>n. PICK k \in Int : k = IF u = v THEN past.self + amount ELSE past.self
            BY <3>2
        <3>s. SumFunction(b) = past.issued + k
            BY <3>2, <3>3, <3>n
        <3>4. store' = [store EXCEPT !.balance = b] /\ past' = Mirror_noted(u, v, amount)
            BY <2>4, <3>1 DEF Vault_transfer, WriteAnd
        <3>5. store' = [balance |-> b]
            BY <3>2, <3>4
        <3>6. past' = [issued |-> past.issued, self |-> k]
            <4>1. CASE u = v
                BY <3>2, <3>4, <3>n, <4>1 DEF Mirror_noted
            <4>2. CASE u # v
                BY <3>2, <3>4, <3>n, <4>2 DEF Mirror_noted
            <4> QED BY <4>1, <4>2
        <3>9. Vault_SumIsExplained'
            BY <3>5, <3>6, <3>s DEF Vault_SumIsExplained
        <3> QED BY <3>2, <3>3, <3>5, <3>6, <3>9 DEF Vault_Inv, Vault_Types
    <2> QED BY <2>1, <2>2, <2>3, <2>4
<1>3. Vault_Inv /\ UNCHANGED vars => Vault_Inv'
    BY DEF Vault_Inv, Vault_Types, Vault_SumIsExplained, vars
<1> QED BY <1>1, <1>2, <1>3

-----------------------------------------------------------------------------
(* secure_transfer.                                                        *)
Transfer_Types ==
    /\ store \in [balance : [Address -> Int]]
    /\ past \in [issued : Int]

Transfer_Inv == Transfer_Types /\ Transfer_Conserves

\* Every deployment is in Transfer_Inv; a call of the corrected contract, or
\* none, stays in it.
LEMMA Transfer_Correct ==
    /\ now = 0 /\ Transfer_Init => Transfer_Inv
    /\ Secure /\ Transfer_Inv /\ Transfer_Next => Transfer_Inv'
    /\ Transfer_Inv /\ UNCHANGED vars => Transfer_Inv'
<1>1. now = 0 /\ Transfer_Init => Transfer_Inv
    BY ContractAssumption, ZeroSum DEF Transfer_Init, Transfer_Inv, Transfer_Types,
       Transfer_Conserves, Transfer_Conserves, MirrorAmounts, Transfer_Init
<1>2. ASSUME Secure, Transfer_Inv, Transfer_Next PROVE Transfer_Inv'
    <2>1. PICK u \in Address, v \in Address, amount \in MirrorAmounts :
              Transfer_mint(u, amount) \/ Transfer_transfer(u, v, amount)
        BY <1>2, Zenon DEF Transfer_Next, Lib, Secure
    <2>2. CASE Transfer_mint(u, amount)
        <3>1. /\ store' = [balance |-> Added(store.balance, u, amount)]
              /\ past' = [issued |-> past.issued + amount]
              /\ store.balance[u] + amount \in MirrorFunds
            BY <1>2, <2>2 DEF Transfer_mint, WriteAnd, Transfer_Inv, Transfer_Types, Added,
               Taken
        <3>s1. /\ Added(store.balance, u, amount) \in [Address -> Int]
               /\ SumFunction(Added(store.balance, u, amount)) =
                  SumFunction(store.balance) + amount /\
                  SumFunction(store.balance) \in Int
               /\ \A w \in Address :
                  Added(store.balance, u,
                        amount)[w] = store.balance[w] + (IF w = u THEN amount ELSE 0)
            <4>1. store.balance \in [Address -> Int] /\ u \in Address /\ amount \in Int
                BY <1>2, <3>1, ContractAssumption, ZeroSum DEF Transfer_Inv, Transfer_Types,
                   MirrorAmounts
            <4> QED BY <4>1, AddedTo, ZenonT(60)
        <3> QED BY <1>2, <3>1, <3>s1, ContractAssumption, ZeroSum DEF Transfer_Inv,
               Transfer_Types, Transfer_Conserves, MirrorAmounts, MirrorFunds
    <2>3. CASE Transfer_transfer(u, v, amount)
        <3>1. /\ store = [balance |-> store.balance]
              /\ store.balance \in [Address -> Int] /\ past.issued \in Int /\ amount \in Int
              /\ SumFunction(store.balance) = past.issued
            BY <1>2 DEF Transfer_Inv, Transfer_Types, Transfer_Conserves, MirrorAmounts
        <3>2. PICK b : b = Mirror_moved(store.balance, u, v, amount)
            OBVIOUS
        <3>3. u # v /\ store' = [store EXCEPT !.balance = b] /\ past' = past
            BY <2>3, <3>2 DEF Transfer_transfer, Write
        <3>4. store' = [balance |-> b]
            BY <3>1, <3>3
        <3>5. b \in [Address -> Int] /\ SumFunction(b) = past.issued
            BY <3>1, <3>2, <3>3, MovedSum, ZenonT(60)
        <3> QED BY <1>2, <3>3, <3>4, <3>5 DEF Transfer_Inv, Transfer_Types, Transfer_Conserves
    <2> QED BY <2>1, <2>2, <2>3
<1>3. Transfer_Inv /\ UNCHANGED vars => Transfer_Inv'
    BY DEF Transfer_Inv, Transfer_Types, Transfer_Conserves, vars
<1> QED BY <1>1, <1>2, <1>3

-----------------------------------------------------------------------------
(* secure_escrow.                                                          *)
Escrow_Types ==
    /\ store \in [escrow : [Address -> Int]]
    /\ past \in [net : Int]

Escrow_Inv == Escrow_Types /\ Escrow_Conserves

\* Every deployment is in Escrow_Inv; a call of the corrected contract, or
\* none, stays in it.
LEMMA Escrow_Correct ==
    /\ now = 0 /\ Escrow_Init => Escrow_Inv
    /\ Secure /\ Escrow_Inv /\ Escrow_Next => Escrow_Inv'
    /\ Escrow_Inv /\ UNCHANGED vars => Escrow_Inv'
<1>1. now = 0 /\ Escrow_Init => Escrow_Inv
    BY ContractAssumption, ZeroSum DEF Escrow_Init, Escrow_Inv, Escrow_Types, Escrow_Conserves,
       Escrow_Conserves, MirrorAmounts, Escrow_Init
<1>2. ASSUME Secure, Escrow_Inv, Escrow_Next PROVE Escrow_Inv'
    <2>1. PICK u \in Address, amount \in MirrorAmounts :
              Escrow_deposit(u, amount) \/ Escrow_withdraw(u, amount)
        BY <1>2, Zenon DEF Escrow_Next, Lib, Secure
    <2>2. CASE Escrow_deposit(u, amount)
        <3>1. /\ store' = [escrow |-> Added(store.escrow, u, amount)]
              /\ past' = [net |-> past.net + amount]
              /\ store.escrow[u] + amount \in MirrorFunds
            BY <1>2, <2>2 DEF Escrow_deposit, WriteAnd, Escrow_Inv, Escrow_Types, Added, Taken
        <3>s1. /\ Added(store.escrow, u, amount) \in [Address -> Int]
               /\ SumFunction(Added(store.escrow, u, amount)) =
                  SumFunction(store.escrow) + amount /\
                  SumFunction(store.escrow) \in Int
               /\ \A v \in Address :
                  Added(store.escrow, u,
                        amount)[v] = store.escrow[v] + (IF v = u THEN amount ELSE 0)
            <4>1. store.escrow \in [Address -> Int] /\ u \in Address /\ amount \in Int
                BY <1>2, <3>1, ContractAssumption, ZeroSum DEF Escrow_Inv, Escrow_Types,
                   MirrorAmounts
            <4> QED BY <4>1, AddedTo
        <3> QED BY <1>2, <3>1, <3>s1, ContractAssumption, ZeroSum DEF Escrow_Inv, Escrow_Types,
               Escrow_Conserves, MirrorAmounts, MirrorFunds
    <2>3. CASE Escrow_withdraw(u, amount)
        <3>1. /\ store' = [escrow |-> Taken(store.escrow, u, amount)]
              /\ past' = [net |-> past.net - amount]
              /\ store.escrow[u] - amount \in MirrorFunds
            BY <1>2, <2>3 DEF Escrow_withdraw, WriteAnd, Escrow_Inv, Escrow_Types, Added, Taken
        <3>s1. /\ Taken(store.escrow, u, amount) \in [Address -> Int]
               /\ SumFunction(Taken(store.escrow, u, amount)) =
                  SumFunction(store.escrow) - amount /\
                  SumFunction(store.escrow) \in Int
               /\ \A v \in Address :
                  Taken(store.escrow, u,
                        amount)[v] = store.escrow[v] - (IF v = u THEN amount ELSE 0)
            <4>1. store.escrow \in [Address -> Int] /\ u \in Address /\ amount \in Int
                BY <1>2, <3>1, ContractAssumption, ZeroSum DEF Escrow_Inv, Escrow_Types,
                   MirrorAmounts
            <4> QED BY <4>1, TakenFrom
        <3> QED BY <1>2, <3>1, <3>s1, ContractAssumption, ZeroSum DEF Escrow_Inv, Escrow_Types,
               Escrow_Conserves, MirrorAmounts, MirrorFunds
    <2> QED BY <2>1, <2>2, <2>3
<1>3. Escrow_Inv /\ UNCHANGED vars => Escrow_Inv'
    BY DEF Escrow_Inv, Escrow_Types, Escrow_Conserves, vars
<1> QED BY <1>1, <1>2, <1>3

-----------------------------------------------------------------------------
(* secure_burn.                                                            *)
Burn_Types ==
    /\ store \in [balance : [Address -> Int]]
    /\ past \in [issued : Int]

Burn_Inv == Burn_Types /\ Burn_Conserves

\* Every deployment is in Burn_Inv; a call of the corrected contract, or none,
\* stays in it.
LEMMA Burn_Correct ==
    /\ now = 0 /\ Burn_Init => Burn_Inv
    /\ Secure /\ Burn_Inv /\ Burn_Next => Burn_Inv'
    /\ Burn_Inv /\ UNCHANGED vars => Burn_Inv'
<1>1. now = 0 /\ Burn_Init => Burn_Inv
    BY ContractAssumption, ZeroSum DEF Burn_Init, Burn_Inv, Burn_Types, Burn_Conserves,
       Burn_Conserves, MirrorAmounts, Burn_Init
<1>2. ASSUME Secure, Burn_Inv, Burn_Next PROVE Burn_Inv'
    <2>1. PICK u \in Address, amount \in MirrorAmounts :
              Burn_mint(u, amount) \/ Burn_burn(u, amount)
        BY <1>2, Zenon DEF Burn_Next, Lib, Secure
    <2>2. CASE Burn_mint(u, amount)
        <3>1. /\ store' = [balance |-> Added(store.balance, u, amount)]
              /\ past' = [issued |-> past.issued + amount]
              /\ store.balance[u] + amount \in MirrorFunds
            BY <1>2, <2>2 DEF Burn_mint, WriteAnd, Burn_Inv, Burn_Types, Added, Taken
        <3>s1. /\ Added(store.balance, u, amount) \in [Address -> Int]
               /\ SumFunction(Added(store.balance, u, amount)) =
                  SumFunction(store.balance) + amount /\
                  SumFunction(store.balance) \in Int
               /\ \A v \in Address :
                  Added(store.balance, u,
                        amount)[v] = store.balance[v] + (IF v = u THEN amount ELSE 0)
            <4>1. store.balance \in [Address -> Int] /\ u \in Address /\ amount \in Int
                BY <1>2, <3>1, ContractAssumption, ZeroSum DEF Burn_Inv, Burn_Types,
                   MirrorAmounts
            <4> QED BY <4>1, AddedTo
        <3> QED BY <1>2, <3>1, <3>s1, ContractAssumption, ZeroSum DEF Burn_Inv, Burn_Types,
               Burn_Conserves, MirrorAmounts, MirrorFunds
    <2>3. CASE Burn_burn(u, amount)
        <3>1. /\ store' = [balance |-> Taken(store.balance, u, amount)]
              /\ past' = [issued |-> past.issued - amount]
              /\ store.balance[u] - amount \in MirrorFunds
            BY <1>2, <2>3 DEF Burn_burn, WriteAnd, Burn_Inv, Burn_Types, Added, Taken
        <3>s1. /\ Taken(store.balance, u, amount) \in [Address -> Int]
               /\ SumFunction(Taken(store.balance, u, amount)) =
                  SumFunction(store.balance) - amount /\
                  SumFunction(store.balance) \in Int
               /\ \A v \in Address :
                  Taken(store.balance, u,
                        amount)[v] = store.balance[v] - (IF v = u THEN amount ELSE 0)
            <4>1. store.balance \in [Address -> Int] /\ u \in Address /\ amount \in Int
                BY <1>2, <3>1, ContractAssumption, ZeroSum DEF Burn_Inv, Burn_Types,
                   MirrorAmounts
            <4> QED BY <4>1, TakenFrom
        <3> QED BY <1>2, <3>1, <3>s1, ContractAssumption, ZeroSum DEF Burn_Inv, Burn_Types,
               Burn_Conserves, MirrorAmounts, MirrorFunds
    <2> QED BY <2>1, <2>2, <2>3
<1>3. Burn_Inv /\ UNCHANGED vars => Burn_Inv'
    BY DEF Burn_Inv, Burn_Types, Burn_Conserves, vars
<1> QED BY <1>1, <1>2, <1>3

-----------------------------------------------------------------------------
(* dust_griefing.                                                          *)
Dust_Types ==
    /\ store \in [balance : [Address -> Int]]
    /\ past \in [net : Int]

Dust_Inv == Dust_Types /\ Dust_EntriesAreWorthIt

\* Every deployment is in Dust_Inv; a call of the corrected contract, or none,
\* stays in it.
LEMMA Dust_Correct ==
    /\ now = 0 /\ Dust_Init => Dust_Inv
    /\ Secure /\ Dust_Inv /\ Dust_Next => Dust_Inv'
    /\ Dust_Inv /\ UNCHANGED vars => Dust_Inv'
<1>1. ASSUME now = 0, Dust_Init PROVE Dust_Inv
    <2>1. Dust_Types
        BY <1>1, ContractAssumption, ZeroSum DEF Dust_Init, Dust_Types, Zero,
           Dust_EntriesAreWorthIt, MIN_DEPOSIT
    <2>2. Dust_EntriesAreWorthIt
        BY <1>1, ContractAssumption, ZeroSum DEF Dust_Init, Dust_EntriesAreWorthIt, Zero,
           MIN_DEPOSIT
    <2> QED BY <2>1, <2>2 DEF Dust_Inv
<1>2. ASSUME Secure, Dust_Inv, Dust_Next PROVE Dust_Inv'
    <2>1. PICK u \in Address, amount \in -1..3 : Dust_deposit(u, amount)
        BY <1>2, Zenon DEF Dust_Next, Lib, Secure
    <2>2. CASE Dust_deposit(u, amount)
        <3>1. /\ store' = [balance |-> Added(store.balance, u, amount)]
              /\ past' = [net |-> past.net + amount]
              /\ amount >= MIN_DEPOSIT
              /\ store.balance[u] + amount \in -MaxDust..MaxDust
            BY <1>2, <2>2 DEF Dust_deposit, WriteAnd, Dust_Inv, Dust_Types, Added, Taken
        <3>s1. /\ Added(store.balance, u, amount) \in [Address -> Int]
               /\ SumFunction(Added(store.balance, u, amount)) =
                  SumFunction(store.balance) + amount /\
                  SumFunction(store.balance) \in Int
               /\ \A v \in Address :
                  Added(store.balance, u,
                        amount)[v] = store.balance[v] + (IF v = u THEN amount ELSE 0)
            <4>1. store.balance \in [Address -> Int] /\ u \in Address /\ amount \in Int
                BY <1>2, <3>1, ContractAssumption, ZeroSum DEF Dust_Inv, Dust_Types
            <4> QED BY <4>1, AddedTo
        <3> QED BY <1>2, <3>1, <3>s1, ContractAssumption, ZeroSum DEF Dust_Inv, Dust_Types,
               Dust_EntriesAreWorthIt, MIN_DEPOSIT, MaxDust
    <2> QED BY <2>1, <2>2
<1>3. Dust_Inv /\ UNCHANGED vars => Dust_Inv'
    BY DEF Dust_Inv, Dust_Types, Dust_EntriesAreWorthIt, vars
<1> QED BY <1>1, <1>2, <1>3

-----------------------------------------------------------------------------
(* secure_lending.                                                         *)
Position_Types ==
    /\ store \in [collateral : [Address -> Int], debt : [Address -> Int]]
    /\ past \in [left : Int, forgiven : Int]

\* Every debt is covered at the minimum ratio.
Position_WithinRatio ==
    \A u \in Address :
        store.debt[u] >= 0 /\ store.collateral[u] * HUNDRED >= store.debt[u] * MIN_COLLATERAL_RATIO

Position_Inv == Position_Types /\ Position_WithinRatio /\ Position_DebtsAreCovered

\* Clearing a position leaves its collateral against its debt, by the ratio of
\* borrow.
LEMMA Position_Cleared ==
    ASSUME Position_Inv, NEW u \in Address, Position_clear(u) PROVE Position_Inv'
<1>1. /\ store = [collateral |-> store.collateral, debt |-> store.debt]
      /\ store.collateral \in [Address -> Int] /\ store.debt \in [Address -> Int]
      /\ past.left \in Int /\ past.forgiven \in Int
      /\ past.left * HUNDRED >= past.forgiven * MIN_COLLATERAL_RATIO
      /\ \A v \in Address : store.debt[v] >= 0 /\
         store.collateral[v] * HUNDRED >= store.debt[v] * MIN_COLLATERAL_RATIO
    BY DEF Position_Inv, Position_Types, Position_WithinRatio, Position_DebtsAreCovered
<1>2. PICK c, d : c = [store.collateral EXCEPT ![u] = 0] /\ d = [store.debt EXCEPT ![u] = 0]
    OBVIOUS
<1>3. PICK m \in Int, n \in Int :
          m = past.left + store.collateral[u] /\ n = past.forgiven + store.debt[u]
    BY <1>1
<1>4. store' = [store EXCEPT !.collateral = c, !.debt = d] /\ past' = [left |-> m, forgiven |-> n]
    BY <1>2, <1>3 DEF Position_clear, WriteAnd
<1>5. store' = [collateral |-> c, debt |-> d]
    BY <1>1, <1>4
<1>6. /\ c \in [Address -> Int] /\ d \in [Address -> Int]
      /\ \A v \in Address : c[v] = IF v = u THEN 0 ELSE store.collateral[v]
      /\ \A v \in Address : d[v] = IF v = u THEN 0 ELSE store.debt[v]
    BY <1>1, <1>2
<1>7. m * HUNDRED >= n * MIN_COLLATERAL_RATIO
    BY <1>1, <1>3 DEF HUNDRED, MIN_COLLATERAL_RATIO
<1>8. ASSUME NEW v \in Address
      PROVE  /\ d[v] >= 0 /\ c[v] * HUNDRED >= d[v] * MIN_COLLATERAL_RATIO
             /\ ~(d[v] # 0 /\ c[v] * HUNDRED < d[v] * LIQUIDATION_THRESHOLD)
    BY <1>1, <1>6 DEF HUNDRED, MIN_COLLATERAL_RATIO, LIQUIDATION_THRESHOLD
<1>9. Position_Types'
    BY <1>3, <1>4, <1>5, <1>6 DEF Position_Types
<1>10. Position_WithinRatio' /\ Position_DebtsAreCovered'
    BY <1>4, <1>5, <1>7, <1>8
       DEF Position_WithinRatio, Position_DebtsAreCovered, Position_liquidatable
<1> QED BY <1>9, <1>10 DEF Position_Inv

\* Every deployment is in Position_Inv; a call of the corrected contract, or
\* none, stays in it.
LEMMA Position_Correct ==
    /\ now = 0 /\ Position_Init => Position_Inv
    /\ Secure /\ Position_Inv /\ Position_Next => Position_Inv'
    /\ Position_Inv /\ UNCHANGED vars => Position_Inv'
<1>1. now = 0 /\ Position_Init => Position_Inv
    BY ContractAssumption DEF Position_Init, Position_Inv, Position_Types, Position_WithinRatio,
       Position_DebtsAreCovered, HUNDRED, MIN_COLLATERAL_RATIO, Position_DebtsAreCovered,
       Position_liquidatable, LIQUIDATION_THRESHOLD, Position_Init, Zero
<1>2. ASSUME Secure, Position_Inv, Position_Next PROVE Position_Inv'
    <2>1. PICK u \in Address, amount \in -1..3 :
              Position_initialize(u) \/ Position_deposit_collateral(u, amount) \/
              Position_borrow(u, amount) \/ Position_repay(u, amount) \/ Position_liquidate(u)
        BY <1>2, Zenon DEF Position_Next, Lib, Secure
    <2>2. CASE Position_initialize(u)
        <3>1. Position_clear(u)
            BY <2>2 DEF Position_initialize
        <3> QED BY <1>2, <3>1, Position_Cleared
    <2>3. CASE Position_deposit_collateral(u, amount)
        <3>1. /\ store' = [collateral |-> [store.collateral EXCEPT ![u] = @ + amount],
                           debt |-> store.debt]
              /\ past' = past
              /\ amount > 0
              /\ store.collateral[u] + amount <= MaxPosition
            BY <1>2, <2>3 DEF Position_deposit_collateral, Write, Position_Inv, Position_Types
        <3> QED BY <1>2, <3>1, ContractAssumption DEF Position_Inv, Position_Types,
               Position_WithinRatio, Position_DebtsAreCovered, HUNDRED, MIN_COLLATERAL_RATIO,
               Position_liquidatable, LIQUIDATION_THRESHOLD, MaxPosition
    <2>4. CASE Position_borrow(u, amount)
        <3>1. /\ store' = [collateral |-> store.collateral,
                           debt |-> [store.debt EXCEPT ![u] = @ + amount]]
              /\ past' = past
              /\ amount > 0
              /\ store.collateral[u] * HUNDRED >= (store.debt[u] + amount) * MIN_COLLATERAL_RATIO
            BY <1>2, <2>4 DEF Position_borrow, Write, Position_Inv, Position_Types
        <3> QED BY <1>2, <3>1, ContractAssumption DEF Position_Inv, Position_Types,
               Position_WithinRatio, Position_DebtsAreCovered, HUNDRED, MIN_COLLATERAL_RATIO,
               Position_liquidatable, LIQUIDATION_THRESHOLD
    <2>5. CASE Position_repay(u, amount)
        <3>1. /\ store' = [collateral |-> store.collateral,
                           debt |-> [store.debt EXCEPT ![u] = @ - amount]]
              /\ past' = past
              /\ amount > 0
              /\ amount <= store.debt[u]
            BY <1>2, <2>5 DEF Position_repay, Write, Position_Inv, Position_Types
        <3> QED BY <1>2, <3>1, ContractAssumption DEF Position_Inv, Position_Types,
               Position_WithinRatio, Position_DebtsAreCovered, HUNDRED, MIN_COLLATERAL_RATIO,
               Position_liquidatable, LIQUIDATION_THRESHOLD
    <2>6. CASE Position_liquidate(u)
        <3>1. ~Position_liquidatable(u)
            BY <1>2 DEF Position_Inv, Position_DebtsAreCovered
        <3>2. UNCHANGED vars
            BY <2>6, <3>1 DEF Position_liquidate
        <3> QED BY <1>2, <3>2
               DEF vars, Position_Inv, Position_Types, Position_WithinRatio,
               Position_DebtsAreCovered,
               Position_liquidatable
    <2> QED BY <2>1, <2>2, <2>3, <2>4, <2>5, <2>6
<1>3. Position_Inv /\ UNCHANGED vars => Position_Inv'
    BY DEF Position_Inv, Position_Types, Position_WithinRatio, Position_DebtsAreCovered, vars,
       Position_liquidatable
<1> QED BY <1>1, <1>2, <1>3

-----------------------------------------------------------------------------
(* secure_staking.                                                         *)
Staking_Types ==
    /\ now \in Nat
    /\ store = [admin |-> store.admin, stake |-> store.stake, stakedAt |-> store.stakedAt,
                rewardRate |-> store.rewardRate]
    /\ store.stakedAt \in [Address -> Nat]
    /\ past \in [ledgers : [Address -> Nat]]

\* No stake is dated in the future.
Staking_NotAhead ==
    \A u \in Address : store.stakedAt[u] <= now

Staking_Inv == Staking_Types /\ Staking_NotAhead /\ Staking_LedgersPaidOnce

\* Every deployment is in Staking_Inv; a call of the corrected contract, or
\* none, stays in it.
LEMMA Staking_Correct ==
    /\ now = 0 /\ Staking_Init => Staking_Inv
    /\ Secure /\ Staking_Inv /\ Staking_Next => Staking_Inv'
    /\ Staking_Inv /\ UNCHANGED vars => Staking_Inv'
<1>1. now = 0 /\ Staking_Init => Staking_Inv
    BY ContractAssumption, SoloAccount DEF Staking_Init, Staking_Inv, Staking_Types,
       Staking_NotAhead, Staking_LedgersPaidOnce, Staking_LedgersPaidOnce, Staking_Init, Zero
<1>2. ASSUME Secure, Staking_Inv, Staking_Next PROVE Staking_Inv'
    <2>1. \/ CloseLedger
          \/ \E u \in Solo, caller \in Address,
             amount \in 0..2 : Staking_initialize(caller, amount) \/
             Staking_update_rate(caller, amount) \/ Staking_stake(u, amount) \/
             Staking_claim_rewards(u)
        BY <1>2, Zenon DEF Staking_Next, Lib, Secure
    <2>2. CASE CloseLedger
        <3>1. /\ store' = store
              /\ past' = past
              /\ now' = now + 1
            BY <1>2, <2>2 DEF CloseLedger, Staking_Inv, Staking_Types
        <3> QED BY <1>2, <3>1, ContractAssumption, SoloAccount DEF Staking_Inv, Staking_Types,
               Staking_NotAhead, Staking_LedgersPaidOnce
    <2>3. ASSUME NEW u \in Solo, NEW caller \in Address, NEW amount \in 0..2,
                 Staking_initialize(caller, amount)
          PROVE  Staking_Inv'
        <3>1. /\ store' = [admin |-> caller, stake |-> store.stake, stakedAt |-> store.stakedAt,
                           rewardRate |-> amount]
              /\ past' = past
              /\ now' = now
              /\ store.admin = None
              /\ amount <= MAX_RATE
            BY <1>2, <2>3 DEF Staking_initialize, Write, Staking_Inv, Staking_Types
        <3> QED BY <1>2, <3>1, ContractAssumption, SoloAccount DEF Staking_Inv, Staking_Types,
               Staking_NotAhead, Staking_LedgersPaidOnce, MAX_RATE
    <2>4. ASSUME NEW u \in Solo, NEW caller \in Address, NEW amount \in 0..2,
                 Staking_update_rate(caller, amount)
          PROVE  Staking_Inv'
        <3>1. /\ store' = [admin |-> store.admin, stake |-> store.stake,
                           stakedAt |-> store.stakedAt, rewardRate |-> amount]
              /\ past' = past
              /\ now' = now
              /\ store.admin # None
              /\ caller = store.admin
              /\ amount <= MAX_RATE
            BY <1>2, <2>4 DEF Staking_update_rate, Write, Staking_Inv, Staking_Types
        <3> QED BY <1>2, <3>1, ContractAssumption, SoloAccount DEF Staking_Inv, Staking_Types,
               Staking_NotAhead, Staking_LedgersPaidOnce, MAX_RATE
    <2>5. ASSUME NEW u \in Solo, NEW caller \in Address, NEW amount \in 0..2,
                 Staking_stake(u, amount)
          PROVE  Staking_Inv'
        <3>1. /\ store = [admin |-> store.admin, stake |-> store.stake, stakedAt |-> store.stakedAt,
                          rewardRate |-> store.rewardRate]
              /\ store.stakedAt \in [Address -> Nat] /\ now \in Nat /\ u \in Address /\
                 past.ledgers \in [Address -> Nat]
            BY <1>2, SoloAccount DEF Staking_Inv, Staking_Types
        <3>2. PICK s, a :
                  s = [store.stake EXCEPT ![u] = amount] /\ a = [store.stakedAt EXCEPT ![u] = now]
            OBVIOUS
        <3>3. store' = [store EXCEPT !.stake = s, !.stakedAt = a] /\ past' = past /\ now' = now
            BY <2>5, <3>2 DEF Staking_stake, Write
        <3>4. store' = [admin |-> store.admin, stake |-> s, stakedAt |-> a,
                        rewardRate |-> store.rewardRate]
            BY <3>1, <3>3
        <3>5. a \in [Address -> Nat] /\
                  \A v \in Address : a[v] = IF v = u THEN now ELSE store.stakedAt[v]
            BY <3>1, <3>2
        <3>a. Staking_Types'
            BY <1>2, <3>1, <3>3, <3>4, <3>5 DEF Staking_Inv, Staking_Types
        <3>b. ASSUME NEW v \in Address PROVE a[v] <= now
            BY <1>2, <3>1, <3>5 DEF Staking_Inv, Staking_NotAhead
        <3>c. Staking_NotAhead'
            BY <3>3, <3>4, <3>b DEF Staking_NotAhead
        <3>7. ASSUME NEW v \in Address PROVE past.ledgers[v] + (now - a[v]) <= now
            BY <1>2, <3>1, <3>5 DEF Staking_Inv, Staking_NotAhead, Staking_LedgersPaidOnce
        <3>8. Staking_LedgersPaidOnce'
            BY <3>3, <3>4, <3>7 DEF Staking_LedgersPaidOnce
        <3> QED BY <3>8, <3>a, <3>c DEF Staking_Inv
    <2>6. ASSUME NEW u \in Solo, NEW caller \in Address, NEW amount \in 0..2,
                 Staking_claim_rewards(u)
          PROVE  Staking_Inv'
        <3>1. /\ store = [admin |-> store.admin, stake |-> store.stake, stakedAt |-> store.stakedAt,
                          rewardRate |-> store.rewardRate]
              /\ past = [ledgers |-> past.ledgers] /\ past.ledgers \in [Address -> Nat]
              /\ store.stakedAt \in [Address -> Nat] /\ now \in Nat /\ u \in Address
              /\ store.stakedAt[u] <= now /\ past.ledgers[u] <= store.stakedAt[u]
            BY <1>2, SoloAccount
               DEF Staking_Inv, Staking_Types, Staking_NotAhead, Staking_LedgersPaidOnce
        <3>2. PICK a, n, l : /\ a = [store.stakedAt EXCEPT ![u] = now]
                             /\ n = Capped(past.ledgers[u] + Staking_paid(u)) /\
                                l = [past.ledgers EXCEPT ![u] = n]
            OBVIOUS
        <3>3. store' = [store EXCEPT !.stakedAt = a] /\ past' = [past EXCEPT !.ledgers = l] /\
                  now' = now
            BY <2>6, <3>2 DEF Staking_claim_rewards, WriteAnd
        <3>4. /\ store' = [admin |-> store.admin, stake |-> store.stake, stakedAt |-> a,
                           rewardRate |-> store.rewardRate]
              /\ past' = [ledgers |-> l]
            BY <3>1, <3>3
        <3>5. n \in Nat /\ n <= now
            <4>1. PICK p \in Nat : p = Staking_paid(u) /\ p <= now - store.stakedAt[u]
                BY <3>1 DEF Staking_paid
            <4>2. n = Capped(past.ledgers[u] + p)
                BY <3>2, <4>1
            <4> QED BY <3>1, <4>1, <4>2 DEF Capped, Cap
        <3>6. /\ a \in [Address -> Nat] /\
                 \A v \in Address : a[v] = IF v = u THEN now ELSE store.stakedAt[v]
              /\ l \in [Address -> Nat] /\
                 \A v \in Address : l[v] = IF v = u THEN n ELSE past.ledgers[v]
            BY <3>1, <3>2, <3>5
        <3> QED BY <1>2, <3>1, <3>3, <3>4, <3>5, <3>6
               DEF Staking_Inv, Staking_Types, Staking_NotAhead, Staking_LedgersPaidOnce
    <2> QED BY <2>1, <2>2, <2>3, <2>4, <2>5, <2>6
<1>3. Staking_Inv /\ UNCHANGED vars => Staking_Inv'
    BY DEF Staking_Inv, Staking_Types, Staking_NotAhead, Staking_LedgersPaidOnce, vars
<1> QED BY <1>1, <1>2, <1>3

-----------------------------------------------------------------------------
(* secure_airdrop.                                                         *)
\* One outgoing token call.
Airdrop_Call == [to : Address, amount : Int]

\* The claims whose transfer is under way: of listed leaves, of accounts that
\* are marked and not yet paid, and no account twice.
Airdrop_Waiting(calls, claimed, root, paid) ==
    /\ \A i \in 1..Len(calls) :
        /\ calls[i].to \in claimed /\ paid[calls[i].to] = 0
        /\ <<calls[i].to, calls[i].amount>> \in root
    /\ \A i, j \in 1..Len(calls) : calls[i].to = calls[j].to => i = j
    /\ \A u \in Address : u \notin claimed => paid[u] = 0

\* The payments after c came back.
Airdrop_Pays(p, q, c) ==
    q \in [Address -> Int] /\ \A u \in Address : q[u] = IF u = c.to THEN p[u] + c.amount ELSE p[u]

\* A claim adds one listed account that has not claimed to those waiting.
LEMMA Airdrop_OneMoreWaits ==
    ASSUME NEW calls \in Seq(Airdrop_Call), NEW claimed, NEW root, NEW paid, NEW c \in Airdrop_Call,
           Airdrop_Waiting(calls, claimed, root, paid), c.to \notin claimed,
               <<c.to, c.amount>> \in root
    PROVE  Append(calls, c) \in Seq(Airdrop_Call) /\
        Airdrop_Waiting(Append(calls, c), claimed \cup {c.to}, root, paid)
<1>1. PICK e : e = Append(calls, c)
    OBVIOUS
<1>2. /\ e \in Seq(Airdrop_Call) /\ Len(e) = Len(calls) + 1 /\ e[Len(calls) + 1] = c /\
         Len(calls) \in Nat
      /\ \A i \in 1..Len(calls) : e[i] = calls[i]
    BY <1>1, AppendProperties, LenProperties
<1>3. c.to \in Address /\ paid[c.to] = 0
    BY DEF Airdrop_Call, Airdrop_Waiting
<1>4. ASSUME NEW i \in 1..Len(e)
      PROVE  /\ e[i].to \in claimed \cup {c.to} /\ paid[e[i].to] = 0
             /\ <<e[i].to, e[i].amount>> \in root
    <2>1. CASE i = Len(calls) + 1
        BY <1>2, <1>3, <2>1
    <2>2. CASE i # Len(calls) + 1
        <3>1. i \in 1..Len(calls) /\ e[i] = calls[i]
            BY <1>2, <2>2
        <3> QED BY <3>1 DEF Airdrop_Waiting
    <2> QED BY <2>1, <2>2
<1>5. ASSUME NEW i \in 1..Len(e), NEW j \in 1..Len(e), e[i].to = e[j].to PROVE i = j
    <2>1. \A k \in 1..Len(calls) : e[k].to \in claimed /\ e[k].to # c.to
        BY <1>2 DEF Airdrop_Waiting
    <2>2. i \in 1..Len(calls) <=> i # Len(calls) + 1
        BY <1>2
    <2>3. j \in 1..Len(calls) <=> j # Len(calls) + 1
        BY <1>2
    <2>4. CASE i \in 1..Len(calls) /\ j \in 1..Len(calls)
        BY <1>2, <1>5, <2>4 DEF Airdrop_Waiting
    <2> QED BY <1>2, <1>5, <2>1, <2>2, <2>3, <2>4
<1>6. Airdrop_Waiting(e, claimed \cup {c.to}, root, paid)
    <2>1. \A u \in Address : u \notin claimed \cup {c.to} => paid[u] = 0
        BY DEF Airdrop_Waiting
    <2> QED BY <1>4, <1>5, <2>1 DEF Airdrop_Waiting
<1> QED BY <1>1, <1>2, <1>6

\* Paying the innermost call pays an account of the list its listed amount.
LEMMA Airdrop_LastIsPaid ==
    ASSUME NEW calls \in Seq(Airdrop_Call), calls # <<>>, NEW claimed, NEW root,
        NEW paid \in [Address -> Int],
           NEW paid2, Airdrop_Waiting(calls, claimed, root, paid),
               Airdrop_Pays(paid, paid2, Last(calls))
    PROVE  /\ Front(calls) \in Seq(Airdrop_Call) /\
              Airdrop_Waiting(Front(calls), claimed, root, paid2)
           /\ paid2[Last(calls).to] = Last(calls).amount
           /\ <<Last(calls).to, Last(calls).amount>> \in root
<1>1. PICK n \in Nat : n = Len(calls) /\ n > 0
    BY LenProperties, EmptySeq
<1>2. PICK c, f : c = calls[n] /\ f = SubSeq(calls, 1, n - 1)
    OBVIOUS
<1>3. Last(calls) = c /\ Front(calls) = f /\ c \in Airdrop_Call
    BY <1>1, <1>2, ElementOfSeq DEF Last, Front
<1>4. \A i \in 1..(n - 1) : calls[i] \in Airdrop_Call
    BY <1>1, ElementOfSeq
<1>5. f \in Seq(Airdrop_Call) /\ Len(f) = n - 1 /\ \A i \in 1..(n - 1) : f[i] = calls[i]
    <2>1. n - 1 \in Int /\ 1 \in Int
        OBVIOUS
    <2>2. /\ SubSeq(calls, 1, n - 1) \in Seq(Airdrop_Call)
          /\ Len(SubSeq(calls, 1, n - 1)) = IF 1 <= n - 1 THEN n - 1 - 1 + 1 ELSE 0
          /\ \A i \in 1..(n - 1 - 1 + 1) : SubSeq(calls, 1, n - 1)[i] = calls[1 + i - 1]
        BY <1>4, <2>1, SubSeqProperties
    <2> QED BY <1>1, <1>2, <2>2
<1>6. c.to \in Address /\ c.amount \in Int /\ paid[c.to] = 0 /\ c.to \in claimed /\
          <<c.to, c.amount>> \in root
    BY <1>1, <1>2, <1>3 DEF Airdrop_Call, Airdrop_Waiting
<1>7. ASSUME NEW i \in 1..Len(f)
      PROVE  f[i].to \in claimed /\ paid2[f[i].to] = 0 /\ <<f[i].to, f[i].amount>> \in root
    <2>1. i \in 1..n /\ n \in 1..n /\ i # n /\ f[i] = calls[i] /\ calls[i] \in Airdrop_Call
        BY <1>1, <1>4, <1>5
    <2>2. calls[i].to # c.to /\ calls[i].to \in Address
        BY <1>1, <1>2, <2>1 DEF Airdrop_Waiting, Airdrop_Call
    <2> QED BY <1>1, <1>3, <2>1, <2>2 DEF Airdrop_Waiting, Airdrop_Pays
<1>8. ASSUME NEW i \in 1..Len(f), NEW j \in 1..Len(f), f[i].to = f[j].to PROVE i = j
    BY <1>1, <1>5, <1>8 DEF Airdrop_Waiting
<1>9. \A u \in Address : u \notin claimed => paid2[u] = 0
    BY <1>3, <1>6 DEF Airdrop_Waiting, Airdrop_Pays
<1>10. Airdrop_Waiting(f, claimed, root, paid2)
    BY <1>7, <1>8, <1>9 DEF Airdrop_Waiting
<1> QED BY <1>3, <1>5, <1>6, <1>10 DEF Airdrop_Pays

Airdrop_Types ==
    /\ store = [admin |-> store.admin, merkleRoot |-> store.merkleRoot, claimed |-> store.claimed,
                calls |-> store.calls, held |-> store.held, reentry |-> store.reentry]
    /\ store.calls \in Seq(Airdrop_Call)
    /\ past \in [paid : [Address -> Int]]

\* Who claimed has been paid as listed or waits in the call stack.
Airdrop_InOrder ==
    Airdrop_Waiting(store.calls, store.claimed, store.merkleRoot, past.paid)

Airdrop_Inv == Airdrop_Types /\ Airdrop_InOrder /\ Airdrop_OneLeafPaid

\* Every deployment is in Airdrop_Inv; a call of the corrected contract, or
\* none, stays in it.
LEMMA Airdrop_Correct ==
    /\ now = 0 /\ Airdrop_Init => Airdrop_Inv
    /\ Secure /\ Airdrop_Inv /\ Airdrop_Next => Airdrop_Inv'
    /\ Airdrop_Inv /\ UNCHANGED vars => Airdrop_Inv'
<1>1. now = 0 /\ Airdrop_Init => Airdrop_Inv
    <2> SUFFICES ASSUME Airdrop_Init PROVE Airdrop_Inv
        OBVIOUS
    <2>1. Airdrop_Types /\ store.calls = <<>> /\ \A u \in Address : past.paid[u] = 0
        BY DEF Airdrop_Init, Airdrop_Types, Zero
    <2>2. 1..Len(store.calls) = {}
        BY <2>1
    <2> QED BY <2>1, <2>2 DEF Airdrop_Inv, Airdrop_InOrder, Airdrop_Waiting, Airdrop_OneLeafPaid
<1>2. ASSUME Secure, Airdrop_Inv, Airdrop_Next PROVE Airdrop_Inv'
    <2>1. \/ \E u \in Address, amount \in 1..2 : Airdrop_claim(u, amount)
          \/ \E u \in Solo : Airdrop_initialize(u)
          \/ Airdrop_fund(2)
          \/ Airdrop_transfer
        BY <1>2, Zenon DEF Airdrop_Next, Lib, Secure
    <2>2. ASSUME NEW u \in Address, NEW amount \in 1..2,
                 Airdrop_claim(u, amount)
          PROVE  Airdrop_Inv'
        <3>1. PICK c, d : c = [to |-> u, amount |-> amount] /\ d = store.claimed \cup {u}
            OBVIOUS
        <3>2. /\ store = [admin |-> store.admin, merkleRoot |-> store.merkleRoot,
                          claimed |-> store.claimed,
                          calls |-> store.calls, held |-> store.held, reentry |-> store.reentry]
              /\ store.calls \in Seq(Airdrop_Call)
              /\ Airdrop_Waiting(store.calls, store.claimed, store.merkleRoot, past.paid)
            BY <1>2 DEF Airdrop_Inv, Airdrop_Types, Airdrop_InOrder
        <3>3. PICK m : m = [store EXCEPT !.claimed = d]
            OBVIOUS
        <3>4. m = [admin |-> store.admin, merkleRoot |-> store.merkleRoot, claimed |-> d,
                   calls |-> store.calls, held |-> store.held, reentry |-> store.reentry]
            BY <3>2, <3>3
        <3>5. m.calls = store.calls
            BY <3>4
        <3>6. /\ u \notin store.claimed /\ <<u, amount>> \in store.merkleRoot /\ past' = past
              /\ store' = [m EXCEPT !.calls = Append(store.calls, c)]
            BY <2>2, <3>1, <3>3, <3>5
               DEF Airdrop_claim, Airdrop_is_claimed, Airdrop_verify_merkle_proof,
               Airdrop_leaf_hash,
               Airdrop_mark_claimed, Write
        <3>7. store' = [admin |-> store.admin, merkleRoot |-> store.merkleRoot, claimed |-> d,
                        calls |-> Append(store.calls, c), held |-> store.held,
                            reentry |-> store.reentry]
            BY <3>4, <3>6
        <3>8. c \in Airdrop_Call /\ c.to = u /\ c.amount = amount
            BY <3>1 DEF Airdrop_Call
        <3>9. /\ Append(store.calls, c) \in Seq(Airdrop_Call)
              /\ Airdrop_Waiting(Append(store.calls, c), store.claimed \cup {c.to},
                                 store.merkleRoot, past.paid)
            BY <3>2, <3>6, <3>8, Airdrop_OneMoreWaits
        <3>c. /\ store.calls' = Append(store.calls, c) /\ store.claimed' = store.claimed \cup {c.to}
              /\ store.merkleRoot' = store.merkleRoot /\ past.paid' = past.paid
            BY <3>1, <3>6, <3>7, <3>8
        <3>d. Airdrop_InOrder'
            BY <3>9, <3>c DEF Airdrop_InOrder
        <3>a. Airdrop_Types' /\ Airdrop_InOrder'
            BY <1>2, <3>6, <3>7, <3>9, <3>d DEF Airdrop_Inv, Airdrop_Types
        <3>b. Airdrop_OneLeafPaid'
            BY <1>2, <3>6, <3>7 DEF Airdrop_Inv, Airdrop_OneLeafPaid
        <3> QED BY <3>a, <3>b DEF Airdrop_Inv
    <2>3. ASSUME NEW u \in Solo,
                 Airdrop_initialize(u)
          PROVE  Airdrop_Inv'
        <3>1. /\ store' = [admin |-> u, merkleRoot |-> store.merkleRoot, claimed |-> store.claimed,
                           calls |-> store.calls, held |-> store.held, reentry |-> store.reentry]
              /\ past' = past
              /\ store.admin = None
            BY <1>2, <2>3 DEF Airdrop_initialize, Write, Airdrop_Inv, Airdrop_Types
        <3> QED BY <1>2, <3>1, ContractAssumption DEF Airdrop_Inv, Airdrop_Types,
               Airdrop_InOrder, Airdrop_OneLeafPaid
    <2>4. CASE Airdrop_fund(2)
        <3>1. /\ store' = [admin |-> store.admin, merkleRoot |-> store.merkleRoot,
                           claimed |-> store.claimed, calls |-> store.calls,
                           held |-> store.held + 2, reentry |-> store.reentry]
              /\ past' = past
              /\ store.admin # None
              /\ store.calls = <<>>
              /\ store.held + 2 \in 0..4
            BY <1>2, <2>4 DEF Airdrop_fund, Write, Airdrop_Inv, Airdrop_Types
        <3> QED BY <1>2, <3>1, ContractAssumption DEF Airdrop_Inv, Airdrop_Types,
               Airdrop_InOrder, Airdrop_OneLeafPaid
    <2>5. CASE Airdrop_transfer
        <3>1. PICK c, q :
                  c = Last(store.calls) /\
                  q = [past.paid EXCEPT ![Last(store.calls).to] =
                       past.paid[Last(store.calls).to] + Last(store.calls).amount]
            OBVIOUS
        <3>2. /\ store = [admin |-> store.admin, merkleRoot |-> store.merkleRoot,
                          claimed |-> store.claimed,
                          calls |-> store.calls, held |-> store.held, reentry |-> store.reentry]
              /\ past = [paid |-> past.paid] /\ past.paid \in [Address -> Int]
              /\ store.calls \in Seq(Airdrop_Call) /\ store.calls # <<>>
              /\ Airdrop_Waiting(store.calls, store.claimed, store.merkleRoot, past.paid)
            BY <1>2, <2>5 DEF Airdrop_Inv, Airdrop_Types, Airdrop_InOrder, Airdrop_transfer
        <3>3. PICK h : h = store.held - c.amount
            OBVIOUS
        <3>4. store' = [store EXCEPT !.held = h, !.calls = Front(store.calls)] /\
                  past' = [past EXCEPT !.paid = q]
            BY <2>5, <3>1, <3>3 DEF Airdrop_transfer, WriteAnd
        <3>5. /\ store' = [admin |-> store.admin, merkleRoot |-> store.merkleRoot,
                           claimed |-> store.claimed,
                           calls |-> Front(store.calls), held |-> h, reentry |-> store.reentry]
              /\ past' = [paid |-> q]
            BY <3>2, <3>4
        <3>6. c \in Airdrop_Call /\ c.to \in Address /\ c.amount \in Int
            <4>1. Len(store.calls) \in 1..Len(store.calls)
                BY <3>2, LenProperties, EmptySeq
            <4>2. store.calls[Len(store.calls)] \in Airdrop_Call
                BY <3>2, <4>1, ElementOfSeq
            <4>3. c \in Airdrop_Call
                BY <3>1, <4>2 DEF Last
            <4> QED BY <4>3 DEF Airdrop_Call
        <3>7. Airdrop_Pays(past.paid, q, Last(store.calls))
            BY <3>1, <3>2, <3>6 DEF Airdrop_Pays
        <3>8. /\ Front(store.calls) \in Seq(Airdrop_Call)
              /\ Airdrop_Waiting(Front(store.calls), store.claimed, store.merkleRoot, q)
              /\ q[Last(store.calls).to] = Last(store.calls).amount
              /\ <<Last(store.calls).to, Last(store.calls).amount>> \in store.merkleRoot
            BY <3>2, <3>7, Airdrop_LastIsPaid
        <3>9. Airdrop_Types' /\ Airdrop_InOrder'
            BY <3>5, <3>7, <3>8 DEF Airdrop_Types, Airdrop_InOrder, Airdrop_Pays
        <3>a. ASSUME NEW v \in Address, q[v] > 0 PROVE <<v, q[v]>> \in store.merkleRoot
            <4>1. CASE v = Last(store.calls).to
                BY <3>8, <4>1
            <4>2. CASE v # Last(store.calls).to
                BY <1>2, <3>7, <3>a, <4>2 DEF Airdrop_Inv, Airdrop_OneLeafPaid, Airdrop_Pays
            <4> QED BY <4>1, <4>2
        <3>b. Airdrop_OneLeafPaid'
            BY <3>5, <3>a DEF Airdrop_OneLeafPaid
        <3> QED BY <3>9, <3>b DEF Airdrop_Inv
    <2> QED BY <2>1, <2>2, <2>3, <2>4, <2>5
<1>3. Airdrop_Inv /\ UNCHANGED vars => Airdrop_Inv'
    BY DEF Airdrop_Inv, Airdrop_Types, Airdrop_InOrder, Airdrop_OneLeafPaid, vars
<1> QED BY <1>1, <1>2, <1>3

-----------------------------------------------------------------------------
(* paginated_airdrop.                                                      *)
\* The registrations of u that the walks have passed.
Pages_Passed(users, cursor, u) ==
    {at \in Walkers \X (1..Len(users)) : at[2] <= cursor[at[1]] /\ users[at[2]] = u}

\* The registrations of u in a batch, as the code numbers them.
Pages_Batched(users, start, end, u) == {i \in start..(end - 1) : users[i + 1] = u}

\* The cursors after the walk of w has come to end.
Pages_Moved(cursor, moved, w, end) ==
    moved \in [Walkers -> Nat] /\ \A x \in Walkers : moved[x] = IF x = w THEN end ELSE cursor[x]

\* Finitely many entries lie behind the cursors.
LEMMA Pages_PassedFinite ==
    ASSUME NEW users \in Seq(Address), NEW cursor, NEW u
        PROVE IsFiniteSet(Pages_Passed(users, cursor, u))
<1>1. Len(users) \in Int /\ 1 \in Int
    BY LenProperties
<1>2. IsFiniteSet(1..Len(users))
    BY <1>1, FS_Interval
<1>3. IsFiniteSet(Walkers)
    <2>1. IsFiniteSet({"first"})
        BY FS_Singleton
    <2>2. IsFiniteSet({"first"} \cup {"second"}) /\ Walkers = {"first"} \cup {"second"}
        BY <2>1, FS_AddElement DEF Walkers
    <2> QED BY <2>2
<1>4. IsFiniteSet(Walkers \X (1..Len(users)))
    BY <1>2, <1>3, FS_Product
<1>5. Pages_Passed(users, cursor, u) \subseteq Walkers \X (1..Len(users))
    BY DEF Pages_Passed
<1> QED BY <1>4, <1>5, FS_Subset

\* A batch credits finitely many registrations.
LEMMA Pages_BatchFinite ==
    ASSUME NEW users, NEW start \in Nat, NEW end \in Nat, NEW u
    PROVE  IsFiniteSet(Pages_Batched(users, start, end, u))
<1>1. start \in Int /\ end - 1 \in Int
    OBVIOUS
<1>2. IsFiniteSet(start..(end - 1))
    BY <1>1, FS_Interval
<1>3. Pages_Batched(users, start, end, u) \subseteq start..(end - 1)
    BY DEF Pages_Batched
<1> QED BY <1>2, <1>3, FS_Subset

\* At first no entry does.
LEMMA Pages_NothingPassed ==
    ASSUME NEW u PROVE Pages_Passed(<<>>, [w \in Walkers |-> 0], u) = {}
<1>1. 1..Len(<<>>) = {}
    OBVIOUS
<1> QED BY <1>1 DEF Pages_Passed

\* Appending a user behind every cursor passes nothing.
LEMMA Pages_OneMore ==
    ASSUME NEW users \in Seq(Address), NEW cursor \in [Walkers -> Nat], NEW v \in Address, NEW u,
           \A w \in Walkers : cursor[w] <= Len(users)
    PROVE  Pages_Passed(Append(users, v), cursor, u) = Pages_Passed(users, cursor, u)
<1>1. PICK n \in Nat : n = Len(users)
    BY LenProperties
<1>e. PICK e : e = Append(users, v)
    OBVIOUS
<1>2. Len(e) = n + 1 /\ \A i \in 1..n : e[i] = users[i]
    BY <1>1, <1>e, AppendProperties
<1>3. ASSUME NEW w \in Walkers, NEW i \in 1..(n + 1)
      PROVE  (i <= cursor[w] /\ e[i] = u) <=> (i \in 1..n /\ i <= cursor[w] /\ users[i] = u)
    <2>1. cursor[w] \in Nat /\ cursor[w] <= n
        BY <1>1, <1>e
    <2> QED BY <1>2, <2>1
<1>4. Pages_Passed(e, cursor, u) \subseteq Pages_Passed(users, cursor, u)
    <2> SUFFICES ASSUME NEW at \in Pages_Passed(e, cursor, u)
            PROVE at \in Pages_Passed(users, cursor, u)
        OBVIOUS
    <2>1. PICK w \in Walkers, i \in 1..(n + 1) : at = <<w, i>>
        BY <1>2 DEF Pages_Passed
    <2>2. at[1] = w /\ at[2] = i
        BY <2>1
    <2>3. i <= cursor[w] /\ e[i] = u
        BY <2>2 DEF Pages_Passed
    <2>4. i \in 1..n /\ users[i] = u
        BY <1>3, <2>3
    <2> QED BY <1>1, <1>e, <2>1, <2>2, <2>3, <2>4 DEF Pages_Passed
<1>5. Pages_Passed(users, cursor, u) \subseteq Pages_Passed(e, cursor, u)
    <2> SUFFICES ASSUME NEW at \in Pages_Passed(users, cursor, u)
            PROVE at \in Pages_Passed(e, cursor, u)
        OBVIOUS
    <2>1. PICK w \in Walkers, i \in 1..n : at = <<w, i>>
        BY <1>1, <1>e DEF Pages_Passed
    <2>2. at[1] = w /\ at[2] = i /\ i \in 1..(n + 1)
        BY <2>1
    <2>3. i <= cursor[w] /\ users[i] = u
        BY <2>2 DEF Pages_Passed
    <2>4. e[i] = u
        BY <1>2, <2>3
    <2> QED BY <1>2, <2>1, <2>2, <2>3, <2>4 DEF Pages_Passed
<1> QED BY <1>1, <1>e, <1>4, <1>5

\* A batch of walker w from start to end passes its registrations and no other.
LEMMA Pages_BatchPasses ==
    ASSUME NEW users \in Seq(Address), NEW cursor \in [Walkers -> Nat], NEW moved,
           NEW w \in Walkers, NEW end \in Nat, NEW u, cursor[w] <= end, end <= Len(users),
           Pages_Moved(cursor, moved, w, end)
    PROVE  Cardinality(Pages_Passed(users, moved, u)) =
               Cardinality(Pages_Passed(users, cursor, u)) + Cardinality(Pages_Batched(users,
                     cursor[w], end, u))
<1>1. PICK n \in Nat, s \in Nat : n = Len(users) /\ s = cursor[w]
    BY LenProperties
<1>p. PICK P, Q, B :
          /\ P = Pages_Passed(users, cursor, u)
          /\ Q = Pages_Passed(users, moved, u) /\ B = Pages_Batched(users, cursor[w], end, u)
    OBVIOUS
<1>2. PICK f : f = [i \in B |-> <<w, i + 1>>]
    OBVIOUS
<1>3. B \subseteq s..(end - 1) /\ \A i \in s..(end - 1) : i \in B <=> users[i + 1] = u
    BY <1>1, <1>p DEF Pages_Batched
<1>4. IsFiniteSet(B)
    <2>1. s \in Int /\ end - 1 \in Int
        OBVIOUS
    <2>2. IsFiniteSet(s..(end - 1))
        BY <2>1, FS_Interval
    <2> QED BY <1>3, <2>2, FS_Subset
<1>5. \A x \in Walkers, i \in 1..n : <<x, i>> \in P <=> (i <= cursor[x] /\ users[i] = u)
    BY <1>1, <1>p DEF Pages_Passed
<1>6. \A x \in Walkers, i \in 1..n : <<x, i>> \in Q <=> (i <= moved[x] /\ users[i] = u)
    BY <1>1, <1>p DEF Pages_Passed
<1>7. PICK R : R = {f[i] : i \in B}
    OBVIOUS
<1>8. Cardinality(R) = Cardinality(B) /\ IsFiniteSet(R)
    <2>1. f \in [B -> R]
        BY <1>2, <1>7
    <2>2. ASSUME NEW i \in B, NEW j \in B, f[i] = f[j] PROVE i = j
        <3>1. <<w, i + 1>> = <<w, j + 1>>
            BY <1>2, <2>2
        <3>2. i + 1 = j + 1
            BY <3>1
        <3> QED BY <1>3, <3>2
    <2>3. \A r \in R : \E i \in B : f[i] = r
        BY <1>7
    <2>4. f \in Bijection(B, R)
        BY <2>1, <2>2, <2>3 DEF Bijection, Injection, Surjection, IsInjective
    <2>5. ExistsBijection(B, R)
        BY <2>4 DEF ExistsBijection
    <2> QED BY <1>4, <2>5, FS_Bijection
<1>9. \A i \in B : i \in s..(end - 1) /\ i + 1 \in 1..n /\ i + 1 > s /\ i + 1 <= end /\
          users[i + 1] = u
    BY <1>1, <1>p, <1>3
<1>10. R \subseteq Q /\ P \cap R = {}
    <2> SUFFICES ASSUME NEW i \in B PROVE f[i] \in Q /\ f[i] \notin P
        BY <1>7
    <2>1. f[i] = <<w, i + 1>> /\ moved[w] = end /\ cursor[w] = s
        BY <1>1, <1>p, <1>2 DEF Pages_Moved
    <2>2. i + 1 \in 1..n /\ i + 1 > s /\ i + 1 <= end /\ users[i + 1] = u /\ i + 1 \in Int
        BY <1>9
    <2>3. <<w, i + 1>> \in Q /\ <<w, i + 1>> \notin P
        BY <1>5, <1>6, <2>1, <2>2
    <2> QED BY <2>1, <2>3
<1>11. P \subseteq Q
    <2> SUFFICES ASSUME NEW at \in P PROVE at \in Q
        OBVIOUS
    <2>1. PICK x \in Walkers, i \in 1..n : at = <<x, i>>
        BY <1>1, <1>p DEF Pages_Passed
    <2>2. i <= cursor[x] /\ users[i] = u
        BY <1>5, <2>1
    <2>3. i <= moved[x]
        BY <2>2 DEF Pages_Moved
    <2> QED BY <1>6, <2>1, <2>2, <2>3
<1>12. Q \subseteq P \cup R
    <2> SUFFICES ASSUME NEW at \in Q, at \notin P PROVE at \in R
        OBVIOUS
    <2>1. PICK x \in Walkers, i \in 1..n : at = <<x, i>>
        BY <1>1, <1>p DEF Pages_Passed
    <2>2. i <= moved[x] /\ users[i] = u /\ ~(i <= cursor[x])
        BY <1>5, <1>6, <2>1
    <2>3. x = w /\ i <= end /\ i > s
        BY <1>1, <1>p, <2>2 DEF Pages_Moved
    <2>4. PICK j \in Int : j = i - 1
        OBVIOUS
    <2>5. j \in s..(end - 1) /\ j + 1 = i
        BY <2>3, <2>4
    <2>6. j \in B
        BY <1>3, <2>2, <2>5
    <2>7. f[j] = at
        BY <1>2, <2>1, <2>3, <2>5, <2>6
    <2> QED BY <1>7, <2>6, <2>7
<1>13. Q = P \cup R
    BY <1>10, <1>11, <1>12
<1>14. IsFiniteSet(P)
    BY <1>1, <1>p, Pages_PassedFinite
<1>15. Cardinality(P \cup R) = Cardinality(P) + Cardinality(R) - Cardinality(P \cap R)
    BY <1>8, <1>14, FS_Union
<1>16. Cardinality(P \cap R) = 0 /\ Cardinality(P) \in Nat /\ Cardinality(R) \in Nat
    BY <1>8, <1>10, <1>14, FS_EmptySet, FS_CardinalityType
<1>17. Cardinality(Q) = Cardinality(P) + Cardinality(B)
    BY <1>8, <1>13, <1>15, <1>16
<1> QED BY <1>1, <1>p, <1>17

Pages_Types ==
    /\ store \in [users : Seq(Address), balance : [Address -> Int]]
    /\ past \in [cursor : [Walkers -> Nat], stray : [Address -> Int]]

\* No cursor is beyond the list.
Pages_WithinList ==
    \A w \in Walkers : past.cursor[w] <= Len(store.users)

Pages_Inv == Pages_Types /\ Pages_WithinList /\ Pages_WalksCreditOnce

\* Every deployment is in Pages_Inv; a call of the corrected contract, or none,
\* stays in it.
LEMMA Pages_Correct ==
    /\ now = 0 /\ Pages_Init => Pages_Inv
    /\ Secure /\ Pages_Inv /\ Pages_Next => Pages_Inv'
    /\ Pages_Inv /\ UNCHANGED vars => Pages_Inv'
<1>1. now = 0 /\ Pages_Init => Pages_Inv
    <2> SUFFICES ASSUME Pages_Init PROVE Pages_Inv
        OBVIOUS
    <2>1. /\ Pages_Types /\ Pages_WithinList /\ store.users = <<>> /\
             past.cursor = [w \in Walkers |-> 0]
          /\ \A u \in Address : store.balance[u] = 0 /\ past.stray[u] = 0
        BY DEF Pages_Init, Pages_Types, Pages_WithinList, Zero
    <2>2. ASSUME NEW u \in Address
              PROVE store.balance[u] =
              past.stray[u] + Cardinality(Pages_Passed(store.users, past.cursor, u))
        <3>1. Pages_Passed(store.users, past.cursor, u) = {}
            BY <2>1, Pages_NothingPassed
        <3>2. Cardinality(Pages_Passed(store.users, past.cursor, u)) = 0
            BY <3>1, FS_EmptySet
        <3>3. store.balance[u] = 0 /\ past.stray[u] = 0
            BY <2>1
        <3> QED BY <3>2, <3>3
    <2>3. Pages_WalksCreditOnce
        BY <2>2 DEF Pages_WalksCreditOnce, Pages_Passed
    <2> QED BY <2>1, <2>3 DEF Pages_Inv
<1>2. ASSUME Secure, Pages_Inv, Pages_Next PROVE Pages_Inv'
    <2>1. \/ \E u \in Address : Pages_register(u)
          \/ \E w \in Walkers, count \in 0..3 : Pages_distribute_batch(w, count)
          \/ \E start \in 0..MaxUsers, count \in 0..3 : Pages_distribute_batch_from(start, count)
        BY <1>2, Zenon DEF Pages_Next, Lib, Secure
    <2>2. ASSUME NEW u \in Address,
                 Pages_register(u)
          PROVE  Pages_Inv'
        <3>1. /\ store.users \in Seq(Address) /\ past.cursor \in [Walkers -> Nat] /\
                 store.balance \in [Address -> Int]
              /\ store = [users |-> store.users, balance |-> store.balance]
            BY <1>2 DEF Pages_Inv, Pages_Types
        <3>2. store' = [users |-> Append(store.users, u), balance |-> store.balance] /\ past' = past
            BY <2>2, <3>1 DEF Pages_register, Write
        <3>3. Append(store.users, u) \in Seq(Address) /\
                  Len(Append(store.users, u)) = Len(store.users) + 1 /\ Len(store.users) \in Nat
            BY <3>1, AppendProperties, LenProperties
        <3>4. \A w \in Walkers : past.cursor[w] <= Len(store.users)
            BY <1>2 DEF Pages_Inv, Pages_WithinList
        <3>5. Pages_Types'
            BY <1>2, <3>1, <3>2, <3>3 DEF Pages_Inv, Pages_Types
        <3>6. Pages_WithinList'
            BY <3>1, <3>2, <3>3, <3>4 DEF Pages_WithinList
        <3>7. ASSUME NEW v \in Address
                  PROVE store.balance[v] =
                  past.stray[v] + Cardinality(Pages_Passed(Append(store.users, u), past.cursor, v))
            <4>1. store.balance[v] =
                      past.stray[v] + Cardinality(Pages_Passed(store.users, past.cursor, v))
                BY <1>2 DEF Pages_Inv, Pages_WalksCreditOnce, Pages_Passed
            <4>2. Pages_Passed(Append(store.users, u), past.cursor, v) = Pages_Passed(store.users,
                        past.cursor, v)
                BY <3>1, <3>4, Pages_OneMore
            <4> QED BY <4>1, <4>2
        <3>8. ASSUME NEW v \in Address
                  PROVE store'.balance[v] =
                  past'.stray[v] + Cardinality(Pages_Passed(store'.users, past'.cursor, v))
            BY <3>2, <3>7
        <3>9. Pages_WalksCreditOnce'
            BY <3>8 DEF Pages_WalksCreditOnce, Pages_Passed
        <3> QED BY <3>5, <3>6, <3>9 DEF Pages_Inv
    <2>3. ASSUME NEW w \in Walkers, NEW count \in 0..3,
                 Pages_distribute_batch(w, count)
          PROVE  Pages_Inv'
        <3>1. /\ store.users \in Seq(Address) /\ past.cursor \in [Walkers -> Nat] /\
                 store.balance \in [Address -> Int]
              /\ store = [users |-> store.users, balance |-> store.balance] /\
                 past = [cursor |-> past.cursor, stray |-> past.stray] /\
                 past.stray \in [Address -> Int]
              /\ past.cursor[w] \in Nat /\ past.cursor[w] <= Len(store.users) /\
                 Len(store.users) \in Nat
            BY <1>2, LenProperties DEF Pages_Inv, Pages_Types, Pages_WithinList
        <3>2. PICK batch \in Nat : batch = IF count < MAX_BATCH THEN count ELSE MAX_BATCH
            BY DEF MAX_BATCH
        <3>3. PICK end \in Nat : /\ end = IF past.cursor[w] + batch < Len(store.users)
                                    THEN past.cursor[w] + batch ELSE Len(store.users)
                                 /\ past.cursor[w] <= end /\ end <= Len(store.users)
            <4>1. PICK l \in Nat, f \in Nat : l = Len(store.users) /\ f = past.cursor[w]
                BY <3>1
            <4>2. PICK e \in Nat :
                      e = (IF f + batch < l THEN f + batch ELSE l) /\ (f <= l => f <= e /\ e <= l)
                OBVIOUS
            <4> QED BY <3>1, <4>1, <4>2
        <3>4. Pages_batch(past.cursor[w], count,
                          MAX_BATCH) = [credited |-> past.cursor[w]..(end - 1), end |-> end]
            BY <3>2, <3>3 DEF Pages_batch
        <3>5. PICK b, c : /\ b =
                             [u \in Address |-> store.balance[u] + Cardinality(Pages_Batched(store.users,
                                   past.cursor[w], end, u))]
                          /\ c = [past.cursor EXCEPT ![w] = end]
            OBVIOUS
        <3>6. store' = [store EXCEPT !.balance = b] /\ past' = [past EXCEPT !.cursor = c]
            BY <2>3, <3>4, <3>5
               DEF Pages_distribute_batch, Pages_distribute, Pages_credit, WriteAnd, Pages_Batched
        <3>7. store' = [users |-> store.users, balance |-> b] /\
                  past' = [cursor |-> c, stray |-> past.stray]
            BY <3>1, <3>6
        <3>8. c \in [Walkers -> Nat] /\
                  \A x \in Walkers : c[x] = IF x = w THEN end ELSE past.cursor[x]
            BY <3>1, <3>5
        <3>9. ASSUME NEW v \in Address
                  PROVE b[v] = past.stray[v] + Cardinality(Pages_Passed(store.users, c, v)) /\
                  b[v] \in Int
            <4>1. store.balance[v] =
                      past.stray[v] + Cardinality(Pages_Passed(store.users, past.cursor, v))
                BY <1>2 DEF Pages_Inv, Pages_WalksCreditOnce, Pages_Passed
            <4>a. /\ store.users \in Seq(Address) /\ past.cursor \in [Walkers -> Nat]
                  /\ past.cursor[w] <= end /\ end <= Len(store.users)
                BY <3>1, <3>3, <3>8
            <4>b. Pages_Moved(past.cursor, c, w, end)
                BY <3>8 DEF Pages_Moved
            <4>2. Cardinality(Pages_Passed(store.users, c, v)) =
                      Cardinality(Pages_Passed(store.users, past.cursor, v))
                          + Cardinality(Pages_Batched(store.users, past.cursor[w], end, v))
                BY <4>a, <4>b, Pages_BatchPasses
            <4>3. b[v] = store.balance[v] + Cardinality(Pages_Batched(store.users, past.cursor[w],
                        end, v))
                BY <3>5
            <4>4. Cardinality(Pages_Passed(store.users, c, v)) \in Nat
                BY <3>1, Pages_PassedFinite, FS_CardinalityType
            <4>5. /\ Cardinality(Pages_Passed(store.users, past.cursor, v)) \in Nat /\
                     past.stray[v] \in Int
                  /\ Cardinality(Pages_Batched(store.users, past.cursor[w], end, v)) \in Nat
                <5>1. Cardinality(Pages_Passed(store.users, past.cursor, v)) \in Nat
                    BY <3>1, Pages_PassedFinite, FS_CardinalityType
                <5>2. IsFiniteSet(Pages_Batched(store.users, past.cursor[w], end, v))
                    BY <3>1, Pages_BatchFinite
                <5> QED BY <3>1, <5>1, <5>2, FS_CardinalityType
            <4> QED BY <4>1, <4>2, <4>3, <4>4, <4>5
        <3>a. b \in [Address -> Int]
            <4>1. b = [v \in Address |-> b[v]]
                BY <3>5
            <4> QED BY <3>9, <4>1
        <3>b. Pages_Types'
            BY <3>1, <3>7, <3>8, <3>a DEF Pages_Types
        <3>c. Pages_WithinList'
            <4>1. ASSUME NEW x \in Walkers PROVE c[x] <= Len(store.users)
                BY <1>2, <3>3, <3>8 DEF Pages_Inv, Pages_WithinList
            <4> QED BY <3>7, <4>1 DEF Pages_WithinList
        <3>d. ASSUME NEW v \in Address
                  PROVE store'.balance[v] =
                  past'.stray[v] + Cardinality(Pages_Passed(store'.users, past'.cursor, v))
            BY <3>7, <3>9
        <3>e. Pages_WalksCreditOnce'
            BY <3>d DEF Pages_WalksCreditOnce, Pages_Passed
        <3> QED BY <3>b, <3>c, <3>e DEF Pages_Inv
    <2>4. ASSUME NEW start \in 0..MaxUsers, NEW count \in 0..3,
                 Pages_distribute_batch_from(start, count)
          PROVE  Pages_Inv'
        <3>1. /\ store.users \in Seq(Address) /\ past.cursor \in [Walkers -> Nat] /\
                 store.balance \in [Address -> Int]
              /\ store = [users |-> store.users, balance |-> store.balance] /\
                 past = [cursor |-> past.cursor, stray |-> past.stray]
              /\ past.stray \in [Address -> Int] /\ Len(store.users) \in Nat /\ start \in Nat
            BY <1>2, LenProperties DEF Pages_Inv, Pages_Types, MaxUsers
        <3>2. PICK batch \in Nat : batch = IF count < MAX_BATCH THEN count ELSE MAX_BATCH
            BY DEF MAX_BATCH
        <3>3. PICK end \in Nat :
                  end = IF start + batch < Len(store.users) THEN start + batch ELSE Len(store.users)
            <4>1. PICK l \in Nat, f \in Nat : l = Len(store.users) /\ f = start
                BY <3>1
            <4>2. PICK e \in Nat :
                      e = (IF f + batch < l THEN f + batch ELSE l) /\ (f <= l => f <= e /\ e <= l)
                OBVIOUS
            <4> QED BY <4>1, <4>2
        <3>4. Pages_batch(start, count, MAX_BATCH) = [credited |-> start..(end - 1), end |-> end]
            BY <3>2, <3>3 DEF Pages_batch
        <3>5. PICK b, c : /\ b =
                             [u \in Address |-> store.balance[u] + Cardinality(Pages_Batched(store.users,
                                   start, end, u))]
                          /\ c = [u \in Address |-> past.stray[u] + Cardinality(Pages_Batched(store.users,
                                start, end, u))]
            OBVIOUS
        <3>6. store' = [store EXCEPT !.balance = b] /\ past' = [past EXCEPT !.stray = c]
            BY <2>4, <3>4, <3>5
               DEF Pages_distribute_batch_from, Pages_credit, WriteAnd, Pages_Batched
        <3>7. store' = [users |-> store.users, balance |-> b] /\
                  past' = [cursor |-> past.cursor, stray |-> c]
            BY <3>1, <3>6
        <3>9. ASSUME NEW v \in Address
              PROVE  /\ b[v] = c[v] + Cardinality(Pages_Passed(store.users, past.cursor, v))
                     /\ b[v] \in Int /\ c[v] \in Int
            <4>1. store.balance[v] =
                      past.stray[v] + Cardinality(Pages_Passed(store.users, past.cursor, v))
                BY <1>2 DEF Pages_Inv, Pages_WalksCreditOnce, Pages_Passed
            <4>2. IsFiniteSet(Pages_Batched(store.users, start, end, v)) /\
                      IsFiniteSet(Pages_Passed(store.users, past.cursor, v))
                BY <3>1, Pages_BatchFinite, Pages_PassedFinite
            <4>3. PICK m \in Nat, k \in Nat : /\ m =
                                                 Cardinality(Pages_Batched(store.users, start,
                                                       end, v))
                                              /\ k = Cardinality(Pages_Passed(store.users,
                                                    past.cursor, v))
                BY <4>2, FS_CardinalityType
            <4>4. b[v] = store.balance[v] + m /\ c[v] = past.stray[v] + m /\ past.stray[v] \in Int
                BY <3>1, <3>5, <4>3
            <4> QED BY <4>1, <4>3, <4>4
        <3>a. b \in [Address -> Int] /\ c \in [Address -> Int]
            <4>1. b = [v \in Address |-> b[v]] /\ c = [v \in Address |-> c[v]]
                BY <3>5
            <4> QED BY <3>9, <4>1
        <3>b. Pages_Types'
            BY <3>1, <3>7, <3>a DEF Pages_Types
        <3>c. Pages_WithinList'
            BY <1>2, <3>7 DEF Pages_Inv, Pages_WithinList
        <3>d. ASSUME NEW v \in Address
                  PROVE store'.balance[v] =
                  past'.stray[v] + Cardinality(Pages_Passed(store'.users, past'.cursor, v))
            BY <3>7, <3>9
        <3>e. Pages_WalksCreditOnce'
            BY <3>d DEF Pages_WalksCreditOnce, Pages_Passed
        <3> QED BY <3>b, <3>c, <3>e DEF Pages_Inv
    <2> QED BY <2>1, <2>2, <2>3, <2>4
<1>3. Pages_Inv /\ UNCHANGED vars => Pages_Inv'
    <2> SUFFICES ASSUME Pages_Inv, UNCHANGED vars PROVE Pages_Inv'
        OBVIOUS
    <2>1. store' = store /\ past' = past
        BY DEF vars
    <2>2. Pages_Types' /\ Pages_WithinList'
        BY <2>1 DEF Pages_Inv, Pages_Types, Pages_WithinList
    <2>3. \A u \in Address :
              store.balance[u] =
              past.stray[u] + Cardinality(Pages_Passed(store.users, past.cursor, u))
        BY DEF Pages_Inv, Pages_WalksCreditOnce, Pages_Passed
    <2>4. \A u \in Address :
              store'.balance[u] =
              past'.stray[u] + Cardinality(Pages_Passed(store'.users, past'.cursor, u))
        BY <2>1, <2>3
    <2>5. Pages_WalksCreditOnce'
        BY <2>4 DEF Pages_WalksCreditOnce, Pages_Passed
    <2> QED BY <2>2, <2>5 DEF Pages_Inv
<1> QED BY <1>1, <1>2, <1>3


-----------------------------------------------------------------------------
(* airdrop_expiry_ignored.                                                 *)
Expiry_Types ==
    /\ now \in Nat
    /\ store = [admin |-> store.admin, expiry |-> store.expiry, balance |-> store.balance,
                claimed |-> store.claimed, root |-> store.root]
    /\ store.expiry \in Nat \cup {None}
    /\ past = [paid |-> past.paid, closed |-> past.closed]
    /\ past.closed \in BOOLEAN

\* The window was found closed only after its expiry, and the clock does not go
\* back.
Expiry_ClosedIsOver ==
    past.closed => store.expiry # None /\ now > store.expiry

Expiry_Inv == Expiry_Types /\ Expiry_ClosedIsOver

\* Every deployment is in Expiry_Inv; a call of the corrected contract, or
\* none, stays in it.
LEMMA Expiry_Correct ==
    /\ now = 0 /\ Expiry_Init => Expiry_Inv
    /\ Secure /\ Expiry_Inv /\ Expiry_Next => Expiry_Inv' /\ Expiry_ClosedPaysNobody
    /\ Expiry_Inv /\ UNCHANGED vars => Expiry_Inv' /\ Expiry_ClosedPaysNobody
<1>1. now = 0 /\ Expiry_Init => Expiry_Inv
    BY ContractAssumption DEF Expiry_Init, Expiry_Inv, Expiry_Types, Expiry_ClosedIsOver,
       Grants, Roots, Expiry_Init, Zero
<1>2. ASSUME Secure, Expiry_Inv, Expiry_Next PROVE Expiry_Inv' /\ Expiry_ClosedPaysNobody
    <2>1. PICK u \in Address, e \in 0..1, n \in Grants, r \in Roots :
              Expiry_initialize(u, e, n) \/ Expiry_set_merkle_root(r) \/ Expiry_claim(u, n) \/
              Expiry_reclaim_expired_funds \/ CloseLedger
        BY <1>2, Zenon DEF Expiry_Next, Lib, Secure
    <2>2. CASE Expiry_initialize(u, e, n)
        <3>1. /\ store' = [admin |-> u, expiry |-> e, balance |-> n, claimed |-> store.claimed,
                           root |-> store.root]
              /\ past' = [paid |-> past.paid, closed |-> FALSE]
              /\ now' = now
            BY <1>2, <2>2 DEF Expiry_initialize, WriteAnd, Expiry_Inv, Expiry_Types
        <3> QED BY <1>2, <3>1, ContractAssumption DEF Expiry_Inv, Expiry_Types,
               Expiry_ClosedIsOver, Grants, Roots, Expiry_ClosedPaysNobody
    <2>3. CASE Expiry_set_merkle_root(r)
        <3>1. /\ store' = [admin |-> store.admin, expiry |-> store.expiry,
                           balance |-> store.balance, claimed |-> store.claimed, root |-> r]
              /\ past' = past
              /\ now' = now
              /\ store.admin # None
            BY <1>2, <2>3 DEF Expiry_set_merkle_root, Write, Expiry_Inv, Expiry_Types
        <3> QED BY <1>2, <3>1, ContractAssumption DEF Expiry_Inv, Expiry_Types,
               Expiry_ClosedIsOver, Grants, Roots, Expiry_ClosedPaysNobody
    <2>4. CASE Expiry_claim(u, n)
        <3>1. PICK p, c, b :
                  p = [past.paid EXCEPT ![u] = past.paid[u] + n] /\ c = store.claimed \cup {u} /\
                  b = store.balance - n
            OBVIOUS
        <3>2. /\ store' = [store EXCEPT !.claimed = c, !.balance = b] /\
                 past' = [past EXCEPT !.paid = p]
              /\ store.expiry # None /\ now <= store.expiry /\ now' = now
            BY <2>4, <3>1 DEF Expiry_claim, Expiry_claim_lib, WriteAnd, Pay
        <3>3. /\ store' = [admin |-> store.admin, expiry |-> store.expiry, balance |-> b,
                           claimed |-> c, root |-> store.root]
              /\ past' = [paid |-> p, closed |-> past.closed]
            BY <1>2, <3>2 DEF Expiry_Inv, Expiry_Types
        <3>4. ~past.closed /\ now \in Nat /\ store.expiry \in Nat \cup {None}
            BY <1>2, <3>2 DEF Expiry_Inv, Expiry_Types, Expiry_ClosedIsOver
        <3>5. Expiry_Types' /\ Expiry_ClosedIsOver'
            BY <1>2, <3>2, <3>3, <3>4 DEF Expiry_Inv, Expiry_Types, Expiry_ClosedIsOver
        <3>6. Expiry_ClosedPaysNobody
            BY <3>2, <3>4 DEF Expiry_ClosedPaysNobody
        <3> QED BY <3>5, <3>6 DEF Expiry_Inv
    <2>5. CASE Expiry_reclaim_expired_funds
        <3>1. /\ store' = [admin |-> store.admin, expiry |-> store.expiry, balance |-> 0,
                           claimed |-> store.claimed, root |-> store.root]
              /\ past' = [paid |-> past.paid, closed |-> TRUE]
              /\ now' = now
              /\ store.expiry # None
              /\ now > store.expiry
            BY <1>2, <2>5 DEF Expiry_reclaim_expired_funds, WriteAnd, Expiry_Inv, Expiry_Types
        <3> QED BY <1>2, <3>1, ContractAssumption DEF Expiry_Inv, Expiry_Types,
               Expiry_ClosedIsOver, Grants, Roots, Expiry_ClosedPaysNobody
    <2>6. CASE CloseLedger
        <3>1. /\ store' = store
              /\ past' = past
              /\ now' = now + 1
            BY <1>2, <2>6 DEF CloseLedger, Expiry_Inv, Expiry_Types
        <3> QED BY <1>2, <3>1, ContractAssumption DEF Expiry_Inv, Expiry_Types,
               Expiry_ClosedIsOver, Grants, Roots, Expiry_ClosedPaysNobody
    <2> QED BY <2>1, <2>2, <2>3, <2>4, <2>5, <2>6
<1>3. Expiry_Inv /\ UNCHANGED vars => Expiry_Inv' /\ Expiry_ClosedPaysNobody
    BY DEF Expiry_Inv, Expiry_Types, Expiry_ClosedPaysNobody, Expiry_ClosedIsOver, vars
<1> QED BY <1>1, <1>2, <1>3

-----------------------------------------------------------------------------
(* airdrop_claim_before_start.                                             *)
Start_Types ==
    /\ now \in Nat
    /\ store = [admin |-> store.admin, start |-> store.start, claimed |-> store.claimed,
                held |-> store.held]
    /\ store.start \in Int \cup {None}
    /\ store.claimed \in SUBSET Address
    /\ store.held \in Int
    /\ past \in [paid : [Address -> Int], funded : Int]

\* Who has not claimed was not paid, and nobody claims before a start is set.
Start_ClaimedIsPaid ==
    /\ \A u \in Address : u \notin store.claimed => past.paid[u] = 0
    /\ store.claimed # {} => store.start # None
    /\ store.admin = None => store.start = None

Start_Inv == Start_Types /\ Start_ClaimedIsPaid /\ Start_PaidAfterStart

\* Every deployment is in Start_Inv; a call of the corrected contract, or none,
\* stays in it.
LEMMA Start_Correct ==
    /\ now = 0 /\ Start_Init => Start_Inv
    /\ Secure /\ Start_Inv /\ Start_Next => Start_Inv'
    /\ Start_Inv /\ UNCHANGED vars => Start_Inv'
<1>1. now = 0 /\ Start_Init => Start_Inv
    BY ZeroSum DEF Start_Init, Start_Inv, Start_Types, Start_ClaimedIsPaid, Start_PaidAfterStart,
       Zero
<1>2. ASSUME Secure, Start_Inv, Start_Next PROVE Start_Inv'
    <2>1. PICK u \in Address, n \in -1..2 :
              Start_initialize(u, n + 1) \/ Start_fund(n) \/ Start_claim(u, n) \/ CloseLedger
        BY <1>2, Zenon DEF Start_Next, Lib, Secure
    <2>2. CASE Start_initialize(u, n + 1)
        <3>1. /\ store' = [admin |-> u, start |-> (n + 1), claimed |-> store.claimed,
                           held |-> store.held]
              /\ past' = past
              /\ now' = now
              /\ store.admin = None
            BY <1>2, <2>2 DEF Start_initialize, Write, Start_Inv, Start_Types, Added, Taken
        <3> QED BY <1>2, <3>1, ContractAssumption, ZeroSum DEF Start_Inv, Start_Types,
               Start_ClaimedIsPaid, Start_PaidAfterStart
    <2>3. CASE Start_fund(n)
        <3>1. /\ store' = [admin |-> store.admin, start |-> store.start, claimed |-> store.claimed,
                           held |-> store.held + n]
              /\ past' = [paid |-> past.paid, funded |-> past.funded + n]
              /\ now' = now
              /\ store.admin # None
              /\ token_moves(MaxHeld - past.funded, n)
            BY <1>2, <2>3 DEF Start_fund, WriteAnd, Start_Inv, Start_Types, Added, Taken
        <3>2. Start_Types'
            BY <1>2, <3>1, ContractAssumption, ZeroSum DEF Start_Inv, Start_Types, token_moves,
               MaxHeld
        <3>3. Start_ClaimedIsPaid'
            BY <1>2, <3>1, ContractAssumption, ZeroSum DEF Start_Inv, Start_Types,
               Start_ClaimedIsPaid, Start_PaidAfterStart, token_moves, MaxHeld
        <3>4. Start_PaidAfterStart'
            <4>1. SumFunction(past.paid) \in Int
                BY <1>2, SumInt, AccountsAssumption DEF Start_Inv, Start_Types
            <4> QED BY <1>2, <3>1, <4>1
                   DEF Start_Inv, Start_Types, Start_ClaimedIsPaid, Start_PaidAfterStart
        <3> QED BY <3>2, <3>3, <3>4 DEF Start_Inv
    <2>4. CASE Start_claim(u, n)
        <3>1. /\ u \notin store.claimed /\ past.paid[u] = 0 /\ 0 <= n /\ n <= store.held
              /\ past = [paid |-> past.paid, funded |-> past.funded] /\
                 past.paid \in [Address -> Int]
              /\ store.held \in Int /\ past.funded \in Int /\ n \in Int
              /\ store.held + SumFunction(past.paid) = past.funded
            BY <1>2, <2>4 DEF Start_claim, Start_claim_lib, token_moves, Start_Inv, Start_Types,
               Start_ClaimedIsPaid, Start_PaidAfterStart
        <3>2. PICK p, c : p = Added(past.paid, u, n) /\ c = store.claimed \cup {u}
            OBVIOUS
        <3>3. store' = [store EXCEPT !.claimed = c, !.held = store.held - n] /\
                  past' = [past EXCEPT !.paid = p]
            BY <2>4, <3>2 DEF Start_claim, Start_claim_lib, WriteAnd, Pay, Added
        <3>4. /\ store' = [admin |-> store.admin, start |-> store.start, claimed |-> c,
                           held |-> store.held - n]
              /\ past' = [paid |-> p, funded |-> past.funded]
            BY <1>2, <3>1, <3>3 DEF Start_Inv, Start_Types
        <3>5. /\ p \in [Address -> Int] /\ SumFunction(p) = SumFunction(past.paid) + n /\
                 SumFunction(past.paid) \in Int
              /\ \A v \in Address : p[v] = past.paid[v] + (IF v = u THEN n ELSE 0)
            BY <3>1, <3>2, AddedTo, SMTT(60)
        <3>n. now' = now
            BY <2>4 DEF Start_claim, Start_claim_lib, WriteAnd
        <3>6. Start_Types' /\ Start_ClaimedIsPaid'
            <4>1. Start_Types'
                BY <1>2, <3>1, <3>2, <3>4, <3>5, <3>n DEF Start_Inv, Start_Types
            <4>2. \A v \in Address : v \notin c => p[v] = 0
                BY <1>2, <3>2, <3>5 DEF Start_Inv, Start_Types, Start_ClaimedIsPaid
            <4>3. store.start # None
                BY <1>2, <2>4 DEF Start_claim, Start_claim_lib, Start_Inv, Start_ClaimedIsPaid
            <4> QED BY <1>2, <3>4, <4>1, <4>2, <4>3 DEF Start_Inv, Start_ClaimedIsPaid
        <3>7. store.held' + SumFunction(past.paid') = past.funded'
            BY <3>1, <3>4, <3>5

        <3>8. store.start # None /\ store.start <= now /\ now' = now
            BY <1>2, <2>4 DEF Start_claim, Start_claim_lib, WriteAnd, Start_Inv, Start_Types
        <3> QED BY <3>4, <3>6, <3>7, <3>8 DEF Start_Inv, Start_PaidAfterStart
    <2>5. CASE CloseLedger
        <3>1. /\ store' = store
              /\ past' = past
              /\ now' = now + 1
            BY <1>2, <2>5 DEF CloseLedger, Start_Inv, Start_Types, Added, Taken
        <3> QED BY <1>2, <3>1, ContractAssumption, ZeroSum DEF Start_Inv, Start_Types,
               Start_ClaimedIsPaid, Start_PaidAfterStart
    <2> QED BY <2>1, <2>2, <2>3, <2>4, <2>5
<1>3. Start_Inv /\ UNCHANGED vars => Start_Inv'
    BY DEF Start_Inv, Start_Types, Start_ClaimedIsPaid, Start_PaidAfterStart, vars
<1> QED BY <1>1, <1>2, <1>3

-----------------------------------------------------------------------------
(* merkle_leaf_missing_amount.                                             *)
Leaf_Types ==
    /\ store = [admin |-> store.admin, root |-> store.root, claimed |-> store.claimed,
                held |-> store.held]
    /\ store.claimed \in SUBSET Address
    /\ store.held \in Int
    /\ past \in [paid : [Address -> Int], funded : Int]

\* Who has not claimed was not paid, and nobody claims before a root is set.
Leaf_ClaimedIsPaid ==
    /\ \A u \in Address : u \notin store.claimed => past.paid[u] = 0
    /\ store.admin = None => store.claimed = {} /\ store.root = None

Leaf_Inv == Leaf_Types /\ Leaf_ClaimedIsPaid /\ Leaf_PaidAsListed

\* Every deployment is in Leaf_Inv; a call of the corrected contract, or none,
\* stays in it.
LEMMA Leaf_Correct ==
    /\ now = 0 /\ Leaf_Init => Leaf_Inv
    /\ Secure /\ Leaf_Inv /\ Leaf_Next => Leaf_Inv'
    /\ Leaf_Inv /\ UNCHANGED vars => Leaf_Inv'
<1>1. now = 0 /\ Leaf_Init => Leaf_Inv
    BY ZeroSum DEF Leaf_Init, Leaf_Inv, Leaf_Types, Leaf_ClaimedIsPaid, Leaf_PaidAsListed, Zero
<1>2. ASSUME Secure, Leaf_Inv, Leaf_Next PROVE Leaf_Inv'
    <2>1. PICK u \in Address, n \in 0..2, r \in Roots :
              Leaf_initialize(u, r) \/ Leaf_fund(n) \/ Leaf_claim(u, n)
        BY <1>2, Zenon DEF Leaf_Next, Lib, Secure
    <2>2. CASE Leaf_initialize(u, r)
        <3>1. /\ store' = [admin |-> u, root |-> r, claimed |-> store.claimed, held |-> store.held]
              /\ past' = past
              /\ store.admin = None
            BY <1>2, <2>2 DEF Leaf_initialize, Write, Leaf_Inv, Leaf_Types, Added, Taken
        <3> QED BY <1>2, <3>1, ContractAssumption, ZeroSum DEF Leaf_Inv, Leaf_Types,
               Leaf_ClaimedIsPaid, Leaf_PaidAsListed, Roots
    <2>3. CASE Leaf_fund(n)
        <3>1. /\ store' = [admin |-> store.admin, root |-> store.root, claimed |-> store.claimed,
                           held |-> store.held + n]
              /\ past' = [paid |-> past.paid, funded |-> past.funded + n]
              /\ store.admin # None
              /\ token_moves(MaxHeld - past.funded, n)
            BY <1>2, <2>3 DEF Leaf_fund, WriteAnd, Leaf_Inv, Leaf_Types, Added, Taken
        <3>2. Leaf_Types'
            BY <1>2, <3>1, ContractAssumption, ZeroSum DEF Leaf_Inv, Leaf_Types, token_moves,
               MaxHeld, Roots
        <3>3. Leaf_ClaimedIsPaid'
            BY <1>2, <3>1, ContractAssumption, ZeroSum DEF Leaf_Inv, Leaf_Types,
               Leaf_ClaimedIsPaid, Leaf_PaidAsListed, Roots, token_moves, MaxHeld
        <3>4. Leaf_PaidAsListed'
            <4>1. SumFunction(past.paid) \in Int
                BY <1>2, SumInt, AccountsAssumption DEF Leaf_Inv, Leaf_Types
            <4> QED BY <1>2, <3>1, <4>1
                   DEF Leaf_Inv, Leaf_Types, Leaf_ClaimedIsPaid, Leaf_PaidAsListed
        <3> QED BY <3>2, <3>3, <3>4 DEF Leaf_Inv
    <2>4. CASE Leaf_claim(u, n)
        <3>1. /\ u \notin store.claimed /\ past.paid[u] = 0 /\ 0 <= n /\ n <= store.held
              /\ past = [paid |-> past.paid, funded |-> past.funded] /\
                 past.paid \in [Address -> Int]
              /\ store.held \in Int /\ past.funded \in Int /\ n \in Int
              /\ store.held + SumFunction(past.paid) = past.funded
            BY <1>2, <2>4 DEF Leaf_claim, token_moves, Leaf_Inv, Leaf_Types, Leaf_ClaimedIsPaid,
               Leaf_PaidAsListed
        <3>2. PICK p, c : p = Added(past.paid, u, n) /\ c = store.claimed \cup {u}
            OBVIOUS
        <3>3. store' = [store EXCEPT !.claimed = c, !.held = store.held - n] /\
                  past' = [past EXCEPT !.paid = p]
            BY <2>4, <3>2 DEF Leaf_claim, WriteAnd, Pay, Added
        <3>4. /\ store' = [admin |-> store.admin, root |-> store.root, claimed |-> c,
                           held |-> store.held - n]
              /\ past' = [paid |-> p, funded |-> past.funded]
            BY <1>2, <3>1, <3>3 DEF Leaf_Inv, Leaf_Types
        <3>5. /\ p \in [Address -> Int] /\ SumFunction(p) = SumFunction(past.paid) + n /\
                 SumFunction(past.paid) \in Int
              /\ \A v \in Address : p[v] = past.paid[v] + (IF v = u THEN n ELSE 0)
            BY <3>1, <3>2, AddedTo
        <3>6. Leaf_Types' /\ Leaf_ClaimedIsPaid'
            <4>1. Leaf_Types'
                BY <1>2, <3>1, <3>2, <3>4, <3>5 DEF Leaf_Inv, Leaf_Types
            <4>2. \A v \in Address : v \notin c => p[v] = 0
                BY <1>2, <3>2, <3>5 DEF Leaf_Inv, Leaf_Types, Leaf_ClaimedIsPaid
            <4>3. store.admin # None
                BY <1>2, <2>4 DEF Leaf_claim, Leaf_Inv, Leaf_ClaimedIsPaid
            <4> QED BY <1>2, <3>4, <4>1, <4>2, <4>3 DEF Leaf_Inv, Leaf_ClaimedIsPaid
        <3>7. store.held' + SumFunction(past.paid') = past.funded'
            BY <3>1, <3>4, <3>5

        <3>8. <<u, n>> \in store.root
            BY <2>4 DEF Leaf_claim, Leaf_verify_merkle_proof
        <3>9. ASSUME NEW v \in Address, p[v] > 0 PROVE <<v, p[v]>> \in store.root
            BY <1>2, <3>1, <3>5, <3>8, <3>9 DEF Leaf_Inv, Leaf_PaidAsListed
        <3> QED BY <3>4, <3>6, <3>7, <3>9 DEF Leaf_Inv, Leaf_PaidAsListed
    <2> QED BY <2>1, <2>2, <2>3, <2>4
<1>3. Leaf_Inv /\ UNCHANGED vars => Leaf_Inv'
    BY DEF Leaf_Inv, Leaf_Types, Leaf_ClaimedIsPaid, Leaf_PaidAsListed, vars
<1> QED BY <1>1, <1>2, <1>3

-----------------------------------------------------------------------------
(* airdrop_campaign_collision.                                             *)
Campaign_Types ==
    /\ store = [admin |-> store.admin, root |-> store.root, claimed |-> store.claimed]
    /\ past = [paid |-> past.paid, leaves |-> past.leaves]
    /\ past.paid \in [CampaignIds -> [Address -> Int]]

\* What a root grants was published for its campaign, and who was paid by a
\* campaign is marked in that campaign.
Campaign_Listed ==
    /\ store.root = [c \in CampaignIds |-> store.root[c]] /\
       past.leaves = [c \in CampaignIds |-> past.leaves[c]]
    /\ \A c \in CampaignIds : store.root[c] # None => store.root[c] \subseteq past.leaves[c]
    /\ \A c \in CampaignIds, u \in Address : 
          past.paid[c][u] >= 0 /\ (<<c, u>> \in store.claimed <=> past.paid[c][u] > 0)

Campaign_Inv == Campaign_Types /\ Campaign_Listed /\ Campaign_OwedIsClaimable

\* Every deployment is in Campaign_Inv; a call of the corrected contract, or
\* none, stays in it.
LEMMA Campaign_Correct ==
    /\ now = 0 /\ Campaign_Init => Campaign_Inv
    /\ Secure /\ Campaign_Inv /\ Campaign_Next => Campaign_Inv'
    /\ Campaign_Inv /\ UNCHANGED vars => Campaign_Inv'
<1>1. now = 0 /\ Campaign_Init => Campaign_Inv
    BY DEF Campaign_Init, Campaign_Inv, Campaign_Types, Campaign_Listed, Campaign_OwedIsClaimable,
       Zero
<1>2. ASSUME Secure, Campaign_Inv, Campaign_Next PROVE Campaign_Inv'
    <2>1. PICK c \in CampaignIds, u \in Address, n \in Grants, r \in CampaignRoots :
              Campaign_initialize(u) \/ Campaign_create_campaign(c, r) \/ Campaign_claim(c, u, n)
        BY <1>2, Zenon DEF Campaign_Next, Lib, Secure
    <2>2. CASE Campaign_initialize(u)
        <3>1. /\ store' = [admin |-> u, root |-> store.root, claimed |-> store.claimed]
              /\ past' = past
            BY <1>2, <2>2 DEF Campaign_initialize, Write, Campaign_Inv, Campaign_Types
        <3> QED BY <1>2, <3>1, ContractAssumption DEF Campaign_Inv, Campaign_Types,
               Campaign_Listed, Campaign_OwedIsClaimable, CampaignIds, Grants
    <2>3. CASE Campaign_create_campaign(c, r)
        <3>1. /\ store' = [admin |-> store.admin, root |-> [store.root EXCEPT ![c] = r],
                           claimed |-> store.claimed]
              /\ past' = [paid |-> past.paid, leaves |-> [past.leaves EXCEPT ![c] = @ \cup r]]
              /\ store.admin # None
            BY <1>2, <2>3 DEF Campaign_create_campaign, WriteAnd, Campaign_Inv, Campaign_Types
        <3>2. Campaign_Types'
            BY <1>2, <3>1, ContractAssumption DEF Campaign_Inv, Campaign_Types, CampaignIds,
               Grants
        <3>3. Campaign_Listed'
            BY <1>2, <3>1, ContractAssumption DEF Campaign_Inv, Campaign_Types, Campaign_Listed,
               Campaign_OwedIsClaimable, CampaignIds, Grants
        <3>4. Campaign_OwedIsClaimable'
            BY <1>2, <3>1, ContractAssumption DEF Campaign_Inv, Campaign_Types, Campaign_Listed,
               Campaign_OwedIsClaimable, CampaignIds, Grants
        <3> QED BY <3>2, <3>3, <3>4 DEF Campaign_Inv
    <2>4. CASE Campaign_claim(c, u, n)
        <3>0. PICK b : b = [past.paid[c] EXCEPT ![u] = past.paid[c][u] + n]
            OBVIOUS
        <3>1. /\ b = [past.paid[c] EXCEPT ![u] = past.paid[c][u] + n] /\ b \in [Address -> Int]
              /\ \A w \in Address : b[w] = IF w = u THEN past.paid[c][u] + n ELSE past.paid[c][w]
            <4>1. past.paid[c] \in [Address -> Int] /\ n \in Int
                BY <1>2 DEF Campaign_Inv, Campaign_Types, Grants
            <4> QED BY <3>0, <4>1
        <3>2. PICK p, d : p = [past.paid EXCEPT ![c] = b] /\ d = store.claimed \cup {<<c, u>>}
            OBVIOUS
        <3>3. store' = [store EXCEPT !.claimed = d] /\ past' = [past EXCEPT !.paid = p]
            BY <2>4, <3>1, <3>2 DEF Campaign_claim, WriteAnd
        <3>4. /\ store' = [admin |-> store.admin, root |-> store.root, claimed |-> d]
              /\ past' = [paid |-> p, leaves |-> past.leaves]
            BY <1>2, <3>3 DEF Campaign_Inv, Campaign_Types
        <3>5. p \in [CampaignIds -> [Address -> Int]] /\
                  \A k \in CampaignIds : p[k] = IF k = c THEN b ELSE past.paid[k]
            BY <1>2, <3>1, <3>2 DEF Campaign_Inv, Campaign_Types
        <3>6. \A k \in CampaignIds, w \in Address :
                  /\ (k # c \/ w # u) => p[k][w] = past.paid[k][w]
                  /\ (<<k, w>> \in d) = (<<k, w>> \in store.claimed \/ (k = c /\ w = u))
            BY <3>1, <3>2, <3>5
        <3>7. <<c, u>> \notin store.claimed /\ <<c, u, n>> \in store.root[c] /\
                  store.root[c] # None /\ n > 0
            BY <2>4 DEF Campaign_claim, Campaign_verify_merkle_proof_secure, Grants
        <3>8. past.paid[c][u] = 0 /\ p[c][u] = n /\ <<c, u, n>> \in past.leaves[c]
            <4>1. past.paid[c][u] \in Int /\ past.paid[c][u] >= 0 /\ ~(past.paid[c][u] > 0) /\
                      store.root[c] \subseteq past.leaves[c]
                BY <1>2, <3>7 DEF Campaign_Inv, Campaign_Types, Campaign_Listed
            <4>2. past.paid[c][u] = 0 /\ n \in Int
                BY <4>1 DEF Grants
            <4> QED BY <3>1, <3>5, <3>7, <4>1, <4>2
        <3>9. Campaign_Types'
            BY <1>2, <3>4, <3>5 DEF Campaign_Inv, Campaign_Types
        <3>10. Campaign_Listed'
            <4>1. \A k \in CampaignIds, w \in Address : p[k][w] >= 0 /\
                      (<<k, w>> \in d <=> p[k][w] > 0)
                <5> SUFFICES ASSUME NEW k \in CampaignIds, NEW w \in Address
                        PROVE p[k][w] >= 0 /\ (<<k, w>> \in d <=> p[k][w] > 0)
                    OBVIOUS
                <5>1. CASE k = c /\ w = u
                    BY <3>6, <3>7, <3>8, <5>1 DEF Grants
                <5>2. CASE k # c \/ w # u
                    BY <1>2, <3>6, <5>2 DEF Campaign_Inv, Campaign_Listed
                <5> QED BY <5>1, <5>2
            <4> QED BY <1>2, <3>4, <4>1 DEF Campaign_Inv, Campaign_Listed
        <3>11. Campaign_OwedIsClaimable'
            <4> SUFFICES ASSUME NEW k \in CampaignIds, NEW w \in Address
                         PROVE  /\ p[k][w] > 0 => <<k, w, p[k][w]>> \in past.leaves[k]
                                /\ (store.root[k] # None /\ <<k, w, 1>> \in store.root[k] /\
                                    p[k][w] = 0) =>
                                   <<k, w>> \notin d
                BY <3>4 DEF Campaign_OwedIsClaimable
            <4>1. CASE k = c /\ w = u
                BY <3>7, <3>8, <4>1 DEF Grants
            <4>2. CASE k # c \/ w # u
                BY <1>2, <3>6, <4>2 DEF Campaign_Inv, Campaign_OwedIsClaimable
            <4> QED BY <4>1, <4>2
        <3> QED BY <3>9, <3>10, <3>11 DEF Campaign_Inv
    <2> QED BY <2>1, <2>2, <2>3, <2>4
<1>3. Campaign_Inv /\ UNCHANGED vars => Campaign_Inv'
    BY DEF Campaign_Inv, Campaign_Types, Campaign_Listed, Campaign_OwedIsClaimable, vars
<1> QED BY <1>1, <1>2, <1>3

-----------------------------------------------------------------------------
(* epoch_claim_no_advance.                                                 *)
\* The epochs of c follow each other up to k, the last of them.
Epoch_Rising(c, k) ==
    /\ Len(c) <= k
    /\ \A i, j \in 1..Len(c) : i < j => c[i] < c[j]
    /\ \A i \in 1..Len(c) : c[i] <= k
    /\ Len(c) > 0 => c[Len(c)] = k

\* A later epoch continues the list.
LEMMA Epoch_RisingAppend ==
    ASSUME NEW c \in Seq(Int), NEW k \in Nat, NEW e \in Nat, k < e, Epoch_Rising(c, k)
    PROVE  Len(c) < e /\ Append(c, e) \in Seq(Int) /\ Epoch_Rising(Append(c, e), e)
<1>1. PICK d : d = Append(c, e)
    OBVIOUS
<1>2. PICK n \in Nat : n = Len(c)
    OBVIOUS
<1>3. d \in Seq(Int) /\ Len(d) = n + 1 /\ d[n + 1] = e /\ \A i \in 1..n : d[i] = c[i] /\
          c[i] \in Int
    BY <1>1, <1>2
<1>4. n <= k /\ (\A i, j \in 1..n : i < j => c[i] < c[j]) /\ \A i \in 1..n : c[i] <= k
    BY <1>2 DEF Epoch_Rising
<1>5. \A i \in 1..(n + 1) : d[i] <= e /\ d[i] \in Int
    BY <1>3, <1>4
<1>6. \A i, j \in 1..(n + 1) : i < j => d[i] < d[j]
    <2> SUFFICES ASSUME NEW i \in 1..(n + 1), NEW j \in 1..(n + 1), i < j PROVE d[i] < d[j]
        OBVIOUS
    <2>1. i \in 1..n /\ d[i] = c[i] /\ c[i] \in Int /\ c[i] <= k
        BY <1>3, <1>4
    <2>2. CASE j \in 1..n
        <3>1. d[j] = c[j]
            BY <1>3, <2>2
        <3>2. c[i] < c[j]
            BY <1>4, <2>1, <2>2
        <3> QED BY <2>1, <3>1, <3>2
    <2>3. CASE j = n + 1
        BY <1>3, <2>1, <2>3
    <2> QED BY <2>2, <2>3
<1>7. Epoch_Rising(d, e)
    BY <1>3, <1>4, <1>5, <1>6 DEF Epoch_Rising
<1> QED BY <1>1, <1>2, <1>3, <1>4, <1>7

\* A rising list names no epoch twice and ends in its last.
LEMMA Epoch_RisingIsOnce ==
    ASSUME NEW c \in Seq(Int), NEW k \in Nat, Epoch_Rising(c, k)
    PROVE  IsInjective(c) /\ (c # <<>> => k = Last(c))
<1>1. DOMAIN c = 1..Len(c) /\ \A i \in 1..Len(c) : c[i] \in Int
    OBVIOUS
<1>2. ASSUME NEW i \in 1..Len(c), NEW j \in 1..Len(c), c[i] = c[j] PROVE i = j
    <2>1. ~(i < j) /\ ~(j < i)
        BY <1>1, <1>2 DEF Epoch_Rising
    <2> QED BY <2>1
<1>3. IsInjective(c)
    BY <1>1, <1>2 DEF IsInjective
<1>4. c # <<>> => Len(c) > 0
    OBVIOUS
<1> QED BY <1>3, <1>4 DEF Epoch_Rising, Last

Epoch_Types ==
    /\ store = [current |-> store.current, reward |-> store.reward, last |-> store.last]
    /\ store.current \in 0..MaxEpoch
    /\ store.last \in [Address -> 0..MaxEpoch]
    /\ past \in [claims : [Address -> Seq(Int)]]

\* Each account was paid for later and later epochs, the latest on record: this
\* is what init cannot turn back.
Epoch_EachLater ==
    \A u \in Address : Epoch_Rising(past.claims[u], store.last[u])

Epoch_Inv == Epoch_Types /\ Epoch_EachLater

\* So no epoch is paid twice to one account.
LEMMA Epoch_Promise == Epoch_Inv => Epoch_PaidOnce
<1> SUFFICES ASSUME Epoch_Inv, NEW u \in Address
             PROVE  /\ IsInjective(past.claims[u])
                    /\ past.claims[u] # <<>> => store.last[u] = Last(past.claims[u])
    BY DEF Epoch_PaidOnce, Epoch_get_last_claimed_epoch
<1>1. past.claims[u] \in Seq(Int) /\ store.last[u] \in Nat
    BY DEF Epoch_Inv, Epoch_Types, MaxEpoch
<1>2. Epoch_Rising(past.claims[u], store.last[u])
    BY DEF Epoch_Inv, Epoch_EachLater
<1> QED BY <1>1, <1>2, Epoch_RisingIsOnce

\* Every deployment is in Epoch_Inv; a call of the corrected contract, or none,
\* stays in it.
LEMMA Epoch_Correct ==
    /\ now = 0 /\ Epoch_Init => Epoch_Inv
    /\ Secure /\ Epoch_Inv /\ Epoch_Next => Epoch_Inv'
    /\ Epoch_Inv /\ UNCHANGED vars => Epoch_Inv'
<1>1. now = 0 /\ Epoch_Init => Epoch_Inv
    <2> SUFFICES ASSUME Epoch_Init PROVE Epoch_Inv
        OBVIOUS
    <2>1. \A u \in Address : past.claims[u] = <<>> /\ store.last[u] = 0
        BY DEF Epoch_Init, Zero
    <2>2. Epoch_Rising(<<>>, 0)
        BY DEF Epoch_Rising
    <2>3. Epoch_Types
        BY DEF Epoch_Init, Epoch_Types, Zero, MaxEpoch
    <2>4. Epoch_EachLater
        BY <2>1, <2>2 DEF Epoch_EachLater
    <2> QED BY <2>3, <2>4 DEF Epoch_Inv
<1>2. ASSUME Secure, Epoch_Inv, Epoch_Next PROVE Epoch_Inv'
    <2>1. PICK u \in Address, e \in 0..MaxEpoch :
              Epoch_init(e, 1) \/ Epoch_advance_epoch \/ Epoch_claim_secure(u)
        BY <1>2, Zenon DEF Epoch_Next, Lib, Secure
    <2>2. CASE Epoch_init(e, 1)
        <3>1. /\ store' = [current |-> e, reward |-> 1, last |-> store.last]
              /\ past' = past
            BY <1>2, <2>2 DEF Epoch_init, Write, Epoch_Inv, Epoch_Types
        <3> QED BY <1>2, <3>1, ContractAssumption DEF Epoch_Inv, Epoch_Types, Epoch_EachLater,
               MaxEpoch
    <2>3. CASE Epoch_advance_epoch
        <3>1. /\ store' = [current |-> store.current + 1, reward |-> store.reward,
                           last |-> store.last]
              /\ past' = past
              /\ store.current < MaxEpoch
            BY <1>2, <2>3 DEF Epoch_advance_epoch, Write, Epoch_Inv, Epoch_Types
        <3> QED BY <1>2, <3>1, ContractAssumption DEF Epoch_Inv, Epoch_Types, Epoch_EachLater,
               MaxEpoch
    <2>4. CASE Epoch_claim_secure(u)
        <3>1. PICK c \in Seq(Int), k \in Nat, m \in Nat :
                  c = past.claims[u] /\ k = store.last[u] /\ m = store.current
            BY <1>2 DEF Epoch_Inv, Epoch_Types, MaxEpoch
        <3>2. k < m /\ m <= MaxEpoch /\ Epoch_Rising(c, k)
            BY <1>2, <2>4, <3>1
               DEF Epoch_claim_secure, Epoch_Inv, Epoch_Types, Epoch_EachLater, MaxEpoch
        <3>3. Len(c) < m /\ Append(c, m) \in Seq(Int) /\ Epoch_Rising(Append(c, m), m)
            BY <3>1, <3>2, Epoch_RisingAppend
        <3>4. PICK d \in Seq(Int) : d = Append(c, m)
            BY <3>3
        <3>5. ~(Len(c) > MaxEpoch)
            BY <3>1, <3>2, <3>3 DEF MaxEpoch
        <3>6. PICK l, h : l = [store.last EXCEPT ![u] = m] /\ h = [past.claims EXCEPT ![u] = d]
            OBVIOUS
        <3>7. store' = [store EXCEPT !.last = l] /\ past' = [past EXCEPT !.claims = h]
            BY <2>4, <3>1, <3>4, <3>5, <3>6 DEF Epoch_claim_secure, Epoch_Claimed, WriteAnd
        <3>8. store' = [current |-> store.current, reward |-> store.reward, last |-> l] /\
                  past' = [claims |-> h]
            BY <1>2, <3>7 DEF Epoch_Inv, Epoch_Types
        <3>9. /\ l \in [Address -> 0..MaxEpoch] /\
                 \A w \in Address : l[w] = IF w = u THEN m ELSE store.last[w]
              /\ h \in [Address -> Seq(Int)] /\
                 \A w \in Address : h[w] = IF w = u THEN d ELSE past.claims[w]
            BY <1>2, <3>1, <3>4, <3>6 DEF Epoch_Inv, Epoch_Types
        <3>10. Epoch_Types'
            BY <1>2, <3>8, <3>9 DEF Epoch_Inv, Epoch_Types
        <3>11. Epoch_EachLater'
            BY <1>2, <3>3, <3>4, <3>8, <3>9 DEF Epoch_Inv, Epoch_EachLater
        <3> QED BY <3>10, <3>11 DEF Epoch_Inv
    <2> QED BY <2>1, <2>2, <2>3, <2>4
<1>3. Epoch_Inv /\ UNCHANGED vars => Epoch_Inv'
    BY DEF Epoch_Inv, Epoch_Types, Epoch_EachLater, vars
<1> QED BY <1>1, <1>2, <1>3

\* A part of t times d is at most t parts of d.
LEMMA DivWithin == ASSUME NEW x \in Nat, NEW t \in Nat, NEW d \in Nat \ {0}, x <= t * d
    PROVE x \div d <= t
<1>1. PICK a \in Nat : a = x \div d
    OBVIOUS
<1>2. d * a <= x
    BY <1>1
<1>3. d * a < d * (t + 1)
    BY <1>2
<1>4. a < t + 1
    BY <1>3
<1> QED BY <1>1, <1>4

\* The linear part of a schedule lies between nothing and the grant.
LEMMA Slope ==
    ASSUME NEW t \in Int, NEW y \in Nat, NEW d \in Nat \ {0}, y < d
    PROVE  /\ Quotient(t * y, d) \in Int /\ (t < 0 => Quotient(t * y, d) <= 0)
           /\ t >= 0 => /\ t * y \in Nat /\ Quotient(t * y, d) = (t * y) \div d
                        /\ 0 <= Quotient(t * y, d) /\ Quotient(t * y, d) <= t
<1>1. t * y \in Int
    OBVIOUS
<1>2. Quotient(t * y, d) \in Int
    BY <1>1, QuotientInt
<1>3. CASE t >= 0
    <2>1. PICK z \in Nat : z = t * y /\ z <= t * d
        BY <1>3
    <2>2. Quotient(z, d) = z \div d /\ z \div d \in Nat
        BY QuotientIsDiv
    <2>3. z \div d <= t
        BY <1>3, <2>1, DivWithin
    <2> QED BY <1>2, <1>3, <2>1, <2>2, <2>3
<1>4. CASE t < 0
    <2>1. PICK z \in Nat : z = -(t * y)
        BY <1>1, <1>4
    <2>2. z \div d \in Nat
        BY <2>1
    <2>3. Quotient(-z, d) <= 0
        BY <2>2 DEF Quotient
    <2>4. -z = t * y
        BY <1>1, <2>1
    <2> QED BY <1>2, <1>4, <2>3, <2>4
<1> QED BY <1>3, <1>4

\* A grant vests over time, from nothing to the whole; a negative total never
\* pays.
LEMMA LinearGrows ==
    ASSUME NEW s, s.total \in Int, s.cliff \in Nat, s.end \in Nat, NEW a \in Nat, NEW b \in Nat,
        a <= b
    PROVE  /\ Linear(s, a) \in Int /\ Linear(s, b) \in Int
           /\ s.total >= 0 => 0 <= Linear(s, a) /\ Linear(s, a) <= Linear(s, b) /\
              Linear(s, b) <= s.total
           /\ s.total < 0 => Linear(s, a) <= 0
<1>1. PICK t \in Int, c \in Nat, e \in Nat : t = s.total /\ c = s.cliff /\ e = s.end
    OBVIOUS
<1>p. PICK qa, qb : qa = Quotient(t * (a - c), e - c) /\ qb = Quotient(t * (b - c), e - c)
    OBVIOUS
<1>a. c <= a /\ a < e => qa \in Int /\ (t < 0 => qa <= 0) /\ (t >= 0 => 0 <= qa /\ qa <= t)
    <2> SUFFICES ASSUME c <= a, a < e
            PROVE qa \in Int /\ (t < 0 => qa <= 0) /\ (t >= 0 => 0 <= qa /\ qa <= t)
        OBVIOUS
    <2>1. PICK y \in Nat, d \in Nat \ {0} : y = a - c /\ d = e - c /\ y < d
        OBVIOUS
    <2>2. qa = Quotient(t * y, d)
        BY <1>p, <2>1
    <2> QED BY <2>1, <2>2, Slope
<1>b. c <= b /\ b < e => qb \in Int /\ (t < 0 => qb <= 0) /\ (t >= 0 => 0 <= qb /\ qb <= t)
    <2> SUFFICES ASSUME c <= b, b < e
            PROVE qb \in Int /\ (t < 0 => qb <= 0) /\ (t >= 0 => 0 <= qb /\ qb <= t)
        OBVIOUS
    <2>1. PICK y \in Nat, d \in Nat \ {0} : y = b - c /\ d = e - c /\ y < d
        OBVIOUS
    <2>2. qb = Quotient(t * y, d)
        BY <1>p, <2>1
    <2> QED BY <2>1, <2>2, Slope
<1>c. t >= 0 /\ c <= a /\ b < e => qa <= qb
    <2> SUFFICES ASSUME t >= 0, c <= a, b < e PROVE qa <= qb
        OBVIOUS
    <2>1. PICK x \in Nat, y \in Nat, d \in Nat \ {0} :
              x = a - c /\ y = b - c /\ d = e - c /\ x <= y /\ y < d
        OBVIOUS
    <2>a. x < d /\ qa = Quotient(t * x, d) /\ qb = Quotient(t * y, d)
        BY <1>p, <2>1
    <2>2. t * x \in Nat /\ qa = (t * x) \div d
        <3>1. t * x \in Nat /\ Quotient(t * x, d) = (t * x) \div d
            BY <2>1, <2>a, Slope
        <3> QED BY <2>a, <3>1
    <2>3. t * y \in Nat /\ qb = (t * y) \div d
        <3>1. t * y \in Nat /\ Quotient(t * y, d) = (t * y) \div d
            BY <2>1, Slope
        <3> QED BY <2>a, <3>1
    <2>4. t * x <= t * y
        BY <2>1
    <2> QED BY <2>1, <2>2, <2>3, <2>4, DivGrows
<1>d. /\ Linear(s, a) = IF a < c THEN 0 ELSE IF a >= e THEN t ELSE qa
      /\ Linear(s, b) = IF b < c THEN 0 ELSE IF b >= e THEN t ELSE qb
    BY <1>1, <1>p DEF Linear
<1>4. Linear(s, a) \in Int /\ Linear(s, b) \in Int /\ (t < 0 => Linear(s, a) <= 0)
    BY <1>a, <1>b, <1>d
<1>5. t >= 0 => 0 <= Linear(s, a) /\ Linear(s, a) <= Linear(s, b) /\ Linear(s, b) <= t
    <2>1. CASE a < c
        BY <1>b, <1>d, <2>1
    <2>2. ASSUME t >= 0, a >= c, b < e
              PROVE 0 <= Linear(s, a) /\ Linear(s, a) <= Linear(s, b) /\ Linear(s, b) <= t
        <3>1. c <= a /\ a < e /\ c <= b /\ b < e
            BY <2>2
        <3>2. Linear(s, a) = qa /\ Linear(s, b) = qb
            BY <1>d, <3>1
        <3>3. qa \in Int /\ qb \in Int /\ 0 <= qa /\ qb <= t /\ qa <= qb
            BY <1>a, <1>b, <1>c, <2>2, <3>1
        <3> QED BY <3>2, <3>3
    <2>3. ASSUME t >= 0, a >= c, b >= e
              PROVE 0 <= Linear(s, a) /\ Linear(s, a) <= Linear(s, b) /\ Linear(s, b) <= t
        <3>1. Linear(s, b) = t
            BY <1>d, <2>3
        <3>2. CASE a >= e
            <4>1. Linear(s, a) = t
                BY <1>d, <2>3, <3>2
            <4> QED BY <2>3, <3>1, <4>1
        <3>3. CASE a < e
            <4>1. Linear(s, a) = qa
                BY <1>d, <2>3, <3>3
            <4>2. qa \in Int /\ 0 <= qa /\ qa <= t
                BY <1>a, <2>3, <3>3
            <4> QED BY <3>1, <4>1, <4>2
        <3> QED BY <3>2, <3>3
    <2> QED BY <2>1, <2>2, <2>3
<1> QED BY <1>1, <1>4, <1>5

-----------------------------------------------------------------------------
(* zero_reward_rate.                                                       *)
Rate_Types ==
    /\ store = [admin |-> store.admin, rate |-> store.rate, stake |-> store.stake, at |-> store.at]
    /\ store.rate \in Int
    /\ past = [announced |-> past.announced, first |-> past.first, paid |-> past.paid]
    /\ past.announced \in Int \cup {None}
    /\ past.first \in Int

\* No rate is announced before initialize.
Rate_UnsetIsSilent ==
    store.admin = None => past.announced = None

Rate_Inv == Rate_Types /\ Rate_UnsetIsSilent /\ Rate_IsAnnounced

\* Every deployment is in Rate_Inv; a call of the corrected contract, or none,
\* stays in it.
LEMMA Rate_Correct ==
    /\ now = 0 /\ Rate_Init => Rate_Inv
    /\ Secure /\ Rate_Inv /\ Rate_Next => Rate_Inv'
    /\ Rate_Inv /\ UNCHANGED vars => Rate_Inv'
<1>1. now = 0 /\ Rate_Init => Rate_Inv
    BY ContractAssumption DEF Rate_Init, Rate_Inv, Rate_Types, Rate_UnsetIsSilent,
       Rate_IsAnnounced, Rate_IsAnnounced, Rate_get_reward_rate, Rate_Init
<1>2. ASSUME Secure, Rate_Inv, Rate_Next PROVE Rate_Inv'
    <2>1. PICK u \in Solo, n \in -1..1 :
              Rate_initialize(u, n) \/ Rate_set_reward_rate(n) \/ Rate_stake(u, n) \/
              Rate_claim_rewards(u) \/ CloseLedger
        BY <1>2, Zenon DEF Rate_Next, Lib, Secure
    <2>2. CASE Rate_initialize(u, n)
        <3>1. /\ store' = [admin |-> u, rate |-> n, stake |-> store.stake, at |-> store.at]
              /\ past' = [announced |-> past.announced, first |-> n, paid |-> past.paid]
              /\ n # 0
              /\ store.admin = None
            BY <1>2, <2>2 DEF Rate_initialize, Rate_initialize_lib, WriteAnd, Rate_Inv,
               Rate_Types
        <3> QED BY <1>2, <3>1, ContractAssumption DEF Rate_Inv, Rate_Types, Rate_UnsetIsSilent,
               Rate_IsAnnounced, Rate_get_reward_rate
    <2>3. CASE Rate_set_reward_rate(n)
        <3>1. /\ store' = [admin |-> store.admin, rate |-> n, stake |-> store.stake,
                           at |-> store.at]
              /\ past' = [announced |-> n, first |-> past.first, paid |-> past.paid]
              /\ store.admin # None
              /\ n # 0
            BY <1>2, <2>3 DEF Rate_set_reward_rate, WriteAnd, Rate_Inv, Rate_Types
        <3> QED BY <1>2, <3>1, ContractAssumption DEF Rate_Inv, Rate_Types, Rate_UnsetIsSilent,
               Rate_IsAnnounced, Rate_get_reward_rate
    <2>4. CASE Rate_stake(u, n)
        <3>1. /\ store' = [admin |-> store.admin, rate |-> store.rate,
                           stake |-> [store.stake EXCEPT ![u] = @ + n],
                           at |-> [store.at EXCEPT ![u] = now]]
              /\ past' = past
              /\ store.stake[u] + n \in -MaxStake..MaxStake
            BY <1>2, <2>4 DEF Rate_stake, Write, Rate_Inv, Rate_Types
        <3> QED BY <1>2, <3>1, ContractAssumption DEF Rate_Inv, Rate_Types, Rate_UnsetIsSilent,
               Rate_IsAnnounced, Rate_get_reward_rate, MaxStake
    <2>5. CASE Rate_claim_rewards(u)
        <3>1. /\ store' = [admin |-> store.admin, rate |-> store.rate, stake |-> store.stake,
                           at |-> [store.at EXCEPT ![u] = now]]
              /\ past' = [announced |-> past.announced, first |-> past.first,
                          paid |-> [past.paid EXCEPT ![u] =
                                    IF (store.stake[u] * store.rate * (now - (IF store.at[u] = None
                                          THEN now ELSE store.at[u]))) = 0
                                    THEN @ ELSE 1]]
            BY <1>2, <2>5 DEF Rate_claim_rewards, WriteAnd, Rate_Inv, Rate_Types
        <3> QED BY <1>2, <3>1, ContractAssumption DEF Rate_Inv, Rate_Types, Rate_UnsetIsSilent,
               Rate_IsAnnounced, Rate_get_reward_rate
    <2>6. CASE CloseLedger
        <3>1. /\ store' = store
              /\ past' = past
            BY <1>2, <2>6 DEF CloseLedger, Rate_Inv, Rate_Types
        <3> QED BY <1>2, <3>1, ContractAssumption DEF Rate_Inv, Rate_Types, Rate_UnsetIsSilent,
               Rate_IsAnnounced, Rate_get_reward_rate
    <2> QED BY <2>1, <2>2, <2>3, <2>4, <2>5, <2>6
<1>3. Rate_Inv /\ UNCHANGED vars => Rate_Inv'
    BY DEF Rate_Inv, Rate_Types, Rate_UnsetIsSilent, Rate_IsAnnounced, vars,
       Rate_get_reward_rate
<1> QED BY <1>1, <1>2, <1>3

-----------------------------------------------------------------------------
(* validator_commission_uncapped.                                          *)
Commission_Types ==
    /\ store \in [bps : 0..Whole, rewards : Int]
    /\ past \in [total : Int]

Commission_Inv == Commission_Types /\ Commission_IsAPart

\* Every deployment is in Commission_Inv; a call of the corrected contract, or
\* none, stays in it.
LEMMA Commission_Correct ==
    /\ now = 0 /\ Commission_Init => Commission_Inv
    /\ Secure /\ Commission_Inv /\ Commission_Next => Commission_Inv'
    /\ Commission_Inv /\ UNCHANGED vars => Commission_Inv'
<1>1. ASSUME now = 0, Commission_Init PROVE Commission_Inv
    <2>1. Commission_Types
        BY <1>1, ContractAssumption DEF Commission_Init, Commission_Types, Commission_IsAPart,
           Commission_get_delegator_rewards, Whole
    <2>2. Commission_IsAPart
        BY <1>1, ContractAssumption DEF Commission_Init, Commission_IsAPart,
           Commission_get_delegator_rewards, Whole
    <2> QED BY <2>1, <2>2 DEF Commission_Inv
<1>2. ASSUME Secure, Commission_Inv, Commission_Next PROVE Commission_Inv'
    <2>1. PICK n \in -1..3 :
              Commission_init \/ Commission_set_commission(n) \/ Commission_distribute_rewards(n)
        BY <1>2, Zenon DEF Commission_Next, Lib, Secure
    <2>2. CASE Commission_init
        <3>1. /\ store' = [bps |-> 0, rewards |-> 0]
              /\ past' = [total |-> 0]
            BY <1>2, <2>2 DEF Commission_init, WriteAnd, Commission_Inv, Commission_Types
        <3>2. Commission_Types'
            BY <1>2, <3>1, ContractAssumption DEF Commission_Inv, Commission_Types, Whole
        <3>3. Commission_IsAPart'
            BY <1>2, <3>1, ContractAssumption DEF Commission_Inv, Commission_Types,
               Commission_IsAPart, Commission_get_delegator_rewards, Whole
        <3> QED BY <3>2, <3>3 DEF Commission_Inv
    <2>3. CASE Commission_set_commission(n)
        <3>1. /\ store' = [bps |-> n, rewards |-> store.rewards]
              /\ past' = past
              /\ n \in 0..Whole
            BY <1>2, <2>3 DEF Commission_set_commission, Commission_set_commission_lib, Write,
               Commission_Inv, Commission_Types
        <3> QED BY <1>2, <3>1, ContractAssumption DEF Commission_Inv, Commission_Types,
               Commission_IsAPart, Commission_get_delegator_rewards, Whole
    <2>4. CASE Commission_distribute_rewards(n)
        <3>1. /\ store' = [bps |-> store.bps, rewards |-> Commission_delegator(n)]
              /\ past' = [total |-> n]
              /\ Commission_get_commission \in 0..Whole
              /\ Commission_delegator(n) >= 0
            BY <1>2, <2>4 DEF Commission_distribute_rewards, Commission_distribute_rewards_lib,
               WriteAnd, Commission_Inv, Commission_Types
        <3> QED BY <1>2, <3>1, ContractAssumption DEF Commission_Inv, Commission_Types,
               Commission_IsAPart, Commission_get_delegator_rewards, Whole,
               Commission_delegator, Commission_get_commission, Quotient
    <2> QED BY <2>1, <2>2, <2>3, <2>4
<1>3. Commission_Inv /\ UNCHANGED vars => Commission_Inv'
    BY DEF Commission_Inv, Commission_Types, Commission_IsAPart, vars,
       Commission_get_delegator_rewards
<1> QED BY <1>1, <1>2, <1>3

-----------------------------------------------------------------------------
(* slash_without_evidence.                                                 *)
\* One piece of evidence against a scanner.
Slash_Evidence == [scanner : Address, finalized : BOOLEAN]

Slash_Types ==
    /\ store = [admin |-> store.admin, stake |-> store.stake, treasury |-> store.treasury,
                evidence |-> store.evidence, ids |-> store.ids]
    /\ store.treasury \in Int
    /\ store.evidence \in [Report -> Slash_Evidence \cup {None}]
    /\ store.ids \in SUBSET Report
    /\ past \in [taken : Int, slashed : SUBSET Address, proven : SUBSET Address]

\* Finalized evidence is against a scanner that is on record as proven.
Slash_FinalIsProven ==
    \A r \in Report : store.evidence[r] # None /\
        store.evidence[r].finalized => store.evidence[r].scanner \in past.proven

Slash_Inv == Slash_Types /\ Slash_FinalIsProven /\ Slash_OnlyProven

\* Every deployment is in Slash_Inv; a call of the corrected contract, or none,
\* stays in it.
LEMMA Slash_Correct ==
    /\ now = 0 /\ Slash_Init => Slash_Inv
    /\ Secure /\ Slash_Inv /\ Slash_Next => Slash_Inv'
    /\ Slash_Inv /\ UNCHANGED vars => Slash_Inv'
<1>1. now = 0 /\ Slash_Init => Slash_Inv
    BY ContractAssumption DEF Slash_Init, Slash_Inv, Slash_Types, Slash_FinalIsProven,
       Slash_OnlyProven, Report, Slash_OnlyProven, Slash_get_treasury, Slash_Evidence,
       Slash_Init
<1>2. ASSUME Secure, Slash_Inv, Slash_Next PROVE Slash_Inv'
    <2>1. PICK u \in Address, n \in 0..1, r \in Report :
              Slash_initialize(u) \/ Slash_register_scanner(u, n) \/ Slash_slash(u, n) \/
              Slash_submit_evidence(u, r) \/ Slash_finalize_evidence(r)
        BY <1>2, Zenon DEF Slash_Next, Lib, Secure
    <2>2. CASE Slash_initialize(u)
        <3>1. /\ store' = [admin |-> u, stake |-> store.stake, treasury |-> store.treasury,
                           evidence |-> store.evidence, ids |-> store.ids]
              /\ past' = past
              /\ store.admin = None
            BY <1>2, <2>2 DEF Slash_initialize, Write, Slash_Inv, Slash_Types
        <3> QED BY <1>2, <3>1, ContractAssumption DEF Slash_Inv, Slash_Types,
               Slash_FinalIsProven, Slash_OnlyProven, Report, Slash_get_treasury, Slash_Evidence
    <2>3. CASE Slash_register_scanner(u, n)
        <3>1. /\ store' = [admin |-> store.admin, stake |-> [store.stake EXCEPT ![u] = n],
                           treasury |-> store.treasury, evidence |-> store.evidence,
                           ids |-> store.ids]
              /\ past' = past
              /\ n > 0
            BY <1>2, <2>3 DEF Slash_register_scanner, Write, Slash_Inv, Slash_Types
        <3> QED BY <1>2, <3>1, ContractAssumption DEF Slash_Inv, Slash_Types,
               Slash_FinalIsProven, Slash_OnlyProven, Report, Slash_get_treasury, Slash_Evidence
    <2>4. CASE Slash_slash(u, n)
        <3>1. /\ store' = [admin |-> store.admin, stake |-> [store.stake EXCEPT ![u] = @ - n],
                           treasury |-> store.treasury + n, evidence |-> store.evidence,
                           ids |-> store.ids]
              /\ past' = [taken |-> past.taken + n, slashed |-> past.slashed \cup {u},
                          proven |-> past.proven]
              /\ Slash_has_finalized_evidence(u)
              /\ store.admin # None
              /\ n > 0
              /\ store.stake[u] >= n
              /\ store.treasury + n <= 3
            BY <1>2, <2>4 DEF Slash_slash, Slash_slash_lib, WriteAnd, Slash_Inv, Slash_Types
        <3> QED BY <1>2, <3>1, ContractAssumption DEF Slash_Inv, Slash_Types,
               Slash_FinalIsProven, Slash_OnlyProven, Report, Slash_get_treasury,
               Slash_Evidence, Slash_has_finalized_evidence
    <2>5. CASE Slash_submit_evidence(u, r)
        <3>1. /\ store' = [admin |-> store.admin, stake |-> store.stake,
                           treasury |-> store.treasury,
                           evidence |-> [store.evidence EXCEPT ![r] = [scanner |-> u,
                                 finalized |-> FALSE]],
                           ids |-> store.ids \cup {r}]
              /\ past' = past
              /\ store.admin # None
            BY <1>2, <2>5 DEF Slash_submit_evidence, Write, Slash_Inv, Slash_Types
        <3> QED BY <1>2, <3>1, ContractAssumption DEF Slash_Inv, Slash_Types,
               Slash_FinalIsProven, Slash_OnlyProven, Report, Slash_get_treasury, Slash_Evidence
    <2>6. CASE Slash_finalize_evidence(r)
        <3>1. PICK v \in Slash_Evidence : v = store.evidence[r] /\ store.evidence[r] # None
            BY <1>2, <2>6 DEF Slash_finalize_evidence, Slash_Inv, Slash_Types
        <3>2. PICK h, p :
                  h = [store.evidence EXCEPT ![r].finalized = TRUE] /\
                  p = past.proven \cup {v.scanner}
            OBVIOUS
        <3>3. store' = [store EXCEPT !.evidence = h] /\ past' = [past EXCEPT !.proven = p]
            BY <2>6, <3>1, <3>2 DEF Slash_finalize_evidence, WriteAnd
        <3>4. store.evidence \in [Report -> Slash_Evidence \cup {None}] /\ r \in Report /\
                  v.scanner \in Address
            BY <1>2, <3>1 DEF Slash_Inv, Slash_Types, Slash_Evidence
        <3>5. PICK e \in Slash_Evidence :
                  e = [scanner |-> v.scanner, finalized |-> TRUE] /\ e.scanner = v.scanner
            <4> DEFINE e == [scanner |-> v.scanner, finalized |-> TRUE]
            <4>1. TRUE \in BOOLEAN
                OBVIOUS
            <4>2. e \in Slash_Evidence
                BY <3>4, <4>1, Zenon DEF Slash_Evidence
            <4>3. e.scanner = v.scanner
                OBVIOUS
            <4> QED BY <4>2, <4>3
        <3>6. h \in [Report -> Slash_Evidence \cup {None}] /\
                  \A q \in Report : h[q] = IF q = r THEN e ELSE store.evidence[q]
            BY <3>1, <3>2, <3>4, <3>5 DEF Slash_Evidence
        <3>7. /\ store' = [admin |-> store.admin, stake |-> store.stake,
                           treasury |-> store.treasury, evidence |-> h, ids |-> store.ids]
              /\ past' = [taken |-> past.taken, slashed |-> past.slashed, proven |-> p]
            BY <1>2, <3>3 DEF Slash_Inv, Slash_Types
        <3>8. Slash_Types'
            BY <1>2, <3>2, <3>4, <3>6, <3>7 DEF Slash_Inv, Slash_Types
        <3>9. Slash_FinalIsProven'
            BY <1>2, <3>2, <3>5, <3>6, <3>7 DEF Slash_Inv, Slash_FinalIsProven
        <3>10. Slash_OnlyProven'
            BY <1>2, <3>2, <3>7 DEF Slash_Inv, Slash_OnlyProven, Slash_get_treasury
        <3> QED BY <3>8, <3>9, <3>10 DEF Slash_Inv
    <2> QED BY <2>1, <2>2, <2>3, <2>4, <2>5, <2>6
<1>3. Slash_Inv /\ UNCHANGED vars => Slash_Inv'
    BY DEF Slash_Inv, Slash_Types, Slash_FinalIsProven, Slash_OnlyProven, vars,
       Slash_get_treasury
<1> QED BY <1>1, <1>2, <1>3

-----------------------------------------------------------------------------
(* underfunded_reward_pool.                                                *)
Pool_Types ==
    /\ now \in Nat
    /\ store \in [stake : [Address -> Nat], last : [Address -> Int], pool : Int]
    /\ past \in [paid : [Address -> Nat], funded : 0..2, forfeited : [Address -> Int]]

\* No claim is dated in the future.
Pool_NotAhead ==
    \A u \in Address : store.last[u] <= now

Pool_Inv == Pool_Types /\ Pool_NotAhead /\ Pool_Solvent

\* Every deployment is in Pool_Inv; a call of the corrected contract, or none,
\* stays in it.
LEMMA Pool_Correct ==
    /\ now = 0 /\ Pool_Init => Pool_Inv
    /\ Secure /\ Pool_Inv /\ Pool_Next => Pool_Inv' /\ Pool_WindowEnds
    /\ Pool_Inv /\ UNCHANGED vars => Pool_Inv' /\ Pool_WindowEnds
<1>1. ASSUME now = 0, Pool_Init PROVE Pool_Inv
    <2>1. Pool_Types
        BY <1>1, ContractAssumption, ZeroSum DEF Pool_Init, Pool_Types, Zero, Pool_Solvent
    <2>2. Pool_NotAhead
        BY <1>1, ContractAssumption, ZeroSum DEF Pool_Init, Pool_NotAhead, Zero, Pool_Solvent
    <2>3. Pool_Solvent
        BY <1>1, ContractAssumption, ZeroSum DEF Pool_Init, Pool_Solvent, Zero
    <2> QED BY <2>1, <2>2, <2>3 DEF Pool_Inv
<1>2. ASSUME Secure, Pool_Inv, Pool_Next PROVE Pool_Inv' /\ Pool_WindowEnds
    <2>1. PICK u \in Address, n \in 0..2 :
              Pool_initialize(n) \/ Pool_stake(u, n) \/ Pool_claim_rewards(u) \/ CloseLedger
        BY <1>2, Zenon DEF Pool_Next, Lib, Secure
    <2>2. CASE Pool_initialize(n)
        <3>1. /\ store' = [stake |-> store.stake, last |-> store.last, pool |-> n]
              /\ past' = [paid |-> Zero, funded |-> n, forfeited |-> past.forfeited]
              /\ now' = now
            BY <1>2, <2>2 DEF Pool_initialize, WriteAnd, Pool_Inv, Pool_Types, Added, Taken
        <3>2. Pool_Types'
            <4>1. Zero \in [Address -> Nat]
                BY DEF Zero
            <4> QED BY <1>2, <3>1, <4>1 DEF Pool_Inv, Pool_Types
        <3>3. Pool_NotAhead'
            BY <1>2, <3>1, ContractAssumption, ZeroSum DEF Pool_Inv, Pool_Types, Pool_NotAhead,
               Pool_Solvent
        <3>4. Pool_Solvent'
            BY <1>2, <3>1, ContractAssumption, ZeroSum DEF Pool_Inv, Pool_Types, Pool_NotAhead,
               Pool_Solvent
        <3>5. Pool_WindowEnds
            BY <1>2, <3>1, ContractAssumption, ZeroSum DEF Pool_Inv, Pool_Types, Pool_NotAhead,
               Pool_Solvent, Pool_WindowEnds, Pool_calculate_reward, REWARD_RATE
        <3> QED BY <3>2, <3>3, <3>4, <3>5 DEF Pool_Inv
    <2>3. CASE Pool_stake(u, n)
        <3>1. /\ store = [stake |-> store.stake, last |-> store.last, pool |-> store.pool]
              /\ past = [paid |-> past.paid, funded |-> past.funded, forfeited |-> past.forfeited]
              /\ store.stake \in [Address -> Nat] /\ store.last \in [Address -> Int] /\ now \in Nat
              /\ past.forfeited \in [Address -> Int] /\ \A v \in Address : store.last[v] <= now
            BY <1>2 DEF Pool_Inv, Pool_Types, Pool_NotAhead
        <3>2. PICK s, l, f : /\ s = [store.stake EXCEPT ![u] = n] /\
                                l = [store.last EXCEPT ![u] = now]
                             /\ f = [past.forfeited EXCEPT ![u] =
                                     Capped(past.forfeited[u] + Pool_calculate_reward(u))]
            OBVIOUS
        <3>r. f \in [Address -> Int]
            <4>1. PICK a \in Nat, d \in Int : a = store.stake[u] /\ d = now - store.last[u]
                BY <3>1
            <4>2. a * 1 * d \in Int
                BY <4>1
            <4>3. PICK r \in Int : r = Pool_calculate_reward(u)
                BY <4>1, <4>2 DEF Pool_calculate_reward, REWARD_RATE
            <4>4. PICK k \in Int : k = past.forfeited[u] + r
                BY <3>1
            <4>5. Capped(k) \in Int
                BY DEF Capped, Cap
            <4> QED BY <3>1, <3>2, <4>3, <4>4, <4>5
        <3>3. store' = [store EXCEPT !.stake = s, !.last = l] /\
                  past' = [past EXCEPT !.forfeited = f] /\ now' = now
            BY <2>3, <3>2 DEF Pool_stake, WriteAnd
        <3>4. /\ store' = [stake |-> s, last |-> l, pool |-> store.pool]
              /\ past' = [paid |-> past.paid, funded |-> past.funded, forfeited |-> f]
            BY <3>1, <3>3
        <3>5. /\ s \in [Address -> Nat] /\ l \in [Address -> Int]
              /\ \A v \in Address : l[v] = IF v = u THEN now ELSE store.last[v]
            BY <3>1, <3>2
        <3>6. Pool_Types'
            BY <1>2, <3>1, <3>3, <3>4, <3>5, <3>r DEF Pool_Inv, Pool_Types
        <3>7. Pool_NotAhead'
            BY <3>1, <3>3, <3>4, <3>5 DEF Pool_NotAhead
        <3>8. Pool_Solvent'
            BY <1>2, <3>4 DEF Pool_Inv, Pool_Solvent
        <3>9. Pool_WindowEnds
            <4> SUFFICES ASSUME NEW v \in Address, l[v] # store.last[v]
                         PROVE  f[v] = Capped(past.forfeited[v] + Pool_calculate_reward(v))
                BY <3>4 DEF Pool_WindowEnds
            <4>1. v = u
                BY <3>5
            <4>2. u \in DOMAIN past.forfeited
                BY <1>2 DEF Pool_Inv, Pool_Types
            <4> QED BY <3>2, <4>1, <4>2
        <3> QED BY <3>6, <3>7, <3>8, <3>9 DEF Pool_Inv
    <2>4. CASE Pool_claim_rewards(u)
        <3>1. /\ store.stake \in [Address -> Nat] /\ store.last \in [Address -> Int] /\
                 store.pool \in Int /\ now \in Nat
              /\ past = [paid |-> past.paid, funded |-> past.funded,
                         forfeited |-> past.forfeited] /\
                 past.paid \in [Address -> Nat] /\ past.funded \in 0..2
              /\ past.forfeited \in [Address -> Int]
              /\ store = [stake |-> store.stake, last |-> store.last, pool |-> store.pool]
              /\ store.pool + SumFunction(past.paid) = past.funded /\
                 \A v \in Address : store.last[v] <= now
            BY <1>2 DEF Pool_Inv, Pool_Types, Pool_Solvent, Pool_NotAhead
        <3>2. PICK r \in Nat : r = Pool_calculate_reward(u)
            <4>1. PICK a \in Nat, d \in Nat : a = store.stake[u] /\ d = now - store.last[u]
                BY <3>1
            <4>2. a * 1 * d \in Nat
                BY <4>1
            <4> QED BY <4>1, <4>2 DEF Pool_calculate_reward, REWARD_RATE
        <3>3. r <= store.pool
            BY <2>4, <3>1, <3>2 DEF Pool_claim_rewards
        <3>4. SumFunction(past.paid) \in Nat /\ past.paid[u] <= SumFunction(past.paid) /\
                  past.paid[u] \in Nat
            BY <3>1, SumBounds, AccountsAssumption
        <3>5. Capped(past.paid[u] + r) = past.paid[u] + r
            BY <3>1, <3>3, <3>4 DEF Capped, Cap
        <3>6. PICK p, l : p = Added(past.paid, u, r) /\ l = [store.last EXCEPT ![u] = now]
            OBVIOUS
        <3>7. store' = [store EXCEPT !.last = l, !.pool = store.pool - r] /\
                  past' = [past EXCEPT !.paid = p] /\ now' = now
            BY <2>4, <3>2, <3>5, <3>6 DEF Pool_claim_rewards, WriteAnd, Credit, Added
        <3>8. store' = [stake |-> store.stake, last |-> l, pool |-> store.pool - r] /\
                  past' = [paid |-> p, funded |-> past.funded, forfeited |-> past.forfeited]
            BY <3>1, <3>7
        <3>9. past.paid \in [Address -> Int] /\ u \in Address /\ r \in Int
            BY <3>1
        <3>10. /\ p \in [Address -> Int] /\ SumFunction(p) = SumFunction(past.paid) + r
               /\ \A v \in Address : p[v] = past.paid[v] + (IF v = u THEN r ELSE 0)
            <4>1. PICK q : q = past.paid
                OBVIOUS
            <4>2. q \in [Address -> Int]
                BY <3>9, <4>1
            <4>3. p = Added(q, u, r)
                BY <3>6, <4>1
            <4>4. /\ p \in [Address -> Int] /\ SumFunction(p) = SumFunction(q) + r
                  /\ \A v \in Address : p[v] = q[v] + (IF v = u THEN r ELSE 0)
                BY <3>9, <4>2, <4>3, AddedTo
            <4> QED BY <4>1, <4>4
        <3>11. p \in [Address -> Nat] /\ l \in [Address -> Int] /\
                   \A v \in Address : l[v] = IF v = u THEN now ELSE store.last[v]
            BY <3>1, <3>2, <3>6, <3>10
        <3>12. Pool_Types'
            BY <3>1, <3>2, <3>7, <3>8, <3>11 DEF Pool_Types
        <3>13. Pool_NotAhead'
            BY <3>1, <3>7, <3>8, <3>11 DEF Pool_NotAhead
        <3>14. Pool_Solvent'
            BY <3>1, <3>3, <3>4, <3>8, <3>10 DEF Pool_Solvent
        <3>15. Pool_WindowEnds
            BY <3>2, <3>8, <3>10, <3>11 DEF Pool_WindowEnds
        <3> QED BY <3>12, <3>13, <3>14, <3>15 DEF Pool_Inv
    <2>5. CASE CloseLedger
        <3>1. /\ store' = store
              /\ past' = past
              /\ now' = now + 1
            BY <1>2, <2>5 DEF CloseLedger, Pool_Inv, Pool_Types, Added, Taken
        <3> QED BY <1>2, <3>1, ContractAssumption, ZeroSum DEF Pool_Inv, Pool_Types,
               Pool_NotAhead, Pool_Solvent, Pool_WindowEnds, Pool_calculate_reward, REWARD_RATE
    <2> QED BY <2>1, <2>2, <2>3, <2>4, <2>5
<1>3. Pool_Inv /\ UNCHANGED vars => Pool_Inv' /\ Pool_WindowEnds
    BY DEF Pool_Inv, Pool_Types, Pool_WindowEnds, Pool_NotAhead, Pool_Solvent, vars,
       Pool_calculate_reward
<1> QED BY <1>1, <1>2, <1>3

-----------------------------------------------------------------------------
(* revoked_vesting_claim.                                                  *)
\* A schedule, with the ledger of its revocation.
Revoked_Schedule ==
    [total : Totals, claimed : Nat, cliff : Nat, end : Nat, revoked_at : Nat \cup {None}]

\* The ledger up to which a schedule has vested at ledger t.
Revoked_Stop(s, t) == IF s.revoked_at # None /\ t > s.revoked_at THEN s.revoked_at ELSE t

Revoked_Types ==
    /\ now \in Nat
    /\ store = [admin |-> store.admin, schedule |-> store.schedule]
    /\ store.schedule \in [Address -> Revoked_Schedule \cup {None}]
    /\ past \in [paid : [Address -> Nat]]

\* An account was paid what its schedule says it claimed, and nothing before it
\* has one.
Revoked_Recorded ==
    \A u \in Address : past.paid[u] = IF store.schedule[u] = None THEN 0
        ELSE store.schedule[u].claimed

\* What was paid had vested by the ledger at which vesting stops.
Revoked_Earned ==
    \A u \in Address : store.schedule[u] # None =>
        past.paid[u] <= 0 \/
            past.paid[u] <= Linear(store.schedule[u], Revoked_Stop(store.schedule[u], now))

Revoked_Inv == Revoked_Types /\ Revoked_Recorded /\ Revoked_Earned

\* So what was paid is recorded and had vested.
LEMMA Revoked_Promise == Revoked_Inv => Revoked_PaidIsVested
<1> SUFFICES ASSUME Revoked_Inv, NEW u \in Address, store.schedule[u] # None
             PROVE  LET s == store.schedule[u]
                    IN  past.paid[u] = s.claimed /\
                        past.paid[u] <= Max({0, Revoked_vested_for_schedule(s)})
    BY DEF Revoked_PaidIsVested
<1>1. PICK s \in Revoked_Schedule : s = store.schedule[u]
    BY DEF Revoked_Inv, Revoked_Types
<1>2. /\ past.paid[u] = s.claimed /\ past.paid[u] \in Nat
      /\ past.paid[u] <= 0 \/ past.paid[u] <= Linear(s, Revoked_Stop(s, now))
    BY <1>1 DEF Revoked_Inv, Revoked_Types, Revoked_Recorded, Revoked_Earned
<1>3. s.total \in Int /\ s.cliff \in Nat /\ s.end \in Nat /\ Revoked_Stop(s, now) \in Nat
    BY <1>1 DEF Revoked_Inv, Revoked_Types, Revoked_Schedule, Totals, Revoked_Stop
<1>4. PICK v \in Int : v = Linear(s, Revoked_Stop(s, now))
    BY <1>3, LinearGrows
<1>5. Revoked_vested_for_schedule(s) = v
    BY <1>4 DEF Revoked_vested_for_schedule, Revoked_Stop
<1>6. Max({0, v}) = IF v > 0 THEN v ELSE 0
    BY MaxZero
<1>7. past.paid[u] <= Max({0, v})
    BY <1>2, <1>4, <1>6
<1> QED BY <1>1, <1>2, <1>5, <1>7

\* Every deployment is in Revoked_Inv; a call of the corrected contract, or
\* none, stays in it.
LEMMA Revoked_Correct ==
    /\ now = 0 /\ Revoked_Init => Revoked_Inv
    /\ Secure /\ Revoked_Inv /\ Revoked_Next => Revoked_Inv'
    /\ Revoked_Inv /\ UNCHANGED vars => Revoked_Inv'
<1>1. now = 0 /\ Revoked_Init => Revoked_Inv
    <2> SUFFICES ASSUME now = 0, Revoked_Init PROVE Revoked_Inv
        OBVIOUS
    <2>1. \A u \in Address : store.schedule[u] = None /\ past.paid[u] = 0
        BY DEF Revoked_Init, NoSchedules, Zero
    <2>2. Revoked_Types
        BY DEF Revoked_Init, Revoked_Types, NoSchedules, Zero
    <2> QED BY <2>1, <2>2 DEF Revoked_Inv, Revoked_Recorded, Revoked_Earned
<1>2. ASSUME Secure, Revoked_Inv, Revoked_Next PROVE Revoked_Inv'
    <2>1. PICK u \in Solo, n \in Totals, c \in Ledgers, e \in Ledgers :
              Revoked_initialize(u) \/ Revoked_create_schedule(u, n, c, e) \/ Revoked_revoke(u) \/
              Revoked_claim(u) \/ CloseLedger
        BY <1>2, Zenon DEF Revoked_Next, Lib, Secure
    <2>2. CASE Revoked_initialize(u)
        <3>1. /\ store' = [admin |-> u, schedule |-> store.schedule]
              /\ past' = past
              /\ now' = now
            BY <1>2, <2>2 DEF Revoked_initialize, Write, Revoked_Inv, Revoked_Types
        <3> QED BY <1>2, <3>1 DEF Revoked_Inv, Revoked_Types, Revoked_Recorded,
               Revoked_Earned
    <2>3. CASE Revoked_create_schedule(u, n, c, e)
        <3>1. u \in Address /\ now \in Nat /\ past.paid \in [Address -> Nat] /\
                  store.schedule[u] = None /\ past.paid[u] = 0
              /\ store.schedule \in [Address -> Revoked_Schedule \cup {None}] /\
                 store = [admin |-> store.admin, schedule |-> store.schedule]
            BY <1>2, <2>3, SoloAccount
               DEF Revoked_create_schedule, Revoked_Inv, Revoked_Types, Revoked_Recorded
        <3>p. PICK r : r = [total |-> n, claimed |-> 0, cliff |-> c, end |-> e, revoked_at |-> None]
            OBVIOUS
        <3>2. r = [total |-> n, claimed |-> 0, cliff |-> c, end |-> e, revoked_at |-> None] /\
                  r \in Revoked_Schedule /\ r.claimed = 0
            BY <3>p, <2>3 DEF Revoked_create_schedule,  Revoked_Schedule, Totals, Ledgers
        <3>3. PICK h : h = [store.schedule EXCEPT ![u] = r]
            OBVIOUS
        <3>4. store' = [store EXCEPT !.schedule = h] /\ past' = past /\ now' = now
            BY <2>3, <3>2, <3>3 DEF Revoked_create_schedule, Write, Revoked_Stop
        <3>5. /\ h \in [Address -> Revoked_Schedule \cup {None}] /\
                 \A w \in Address : h[w] = IF w = u THEN r ELSE store.schedule[w]
            BY <3>1, <3>2, <3>3
        <3>6. store' = [admin |-> store.admin, schedule |-> h]
            BY <3>1, <3>4
        <3>21. Revoked_Types'
            BY <1>2, <3>1, <3>2, <3>4, <3>5, <3>6, ContractAssumption
               DEF Revoked_Inv, Revoked_Types, Revoked_Recorded, Revoked_Earned, Revoked_Schedule
        <3>22. Revoked_Recorded'
            BY <1>2, <3>1, <3>2, <3>4, <3>5, <3>6, ContractAssumption
               DEF Revoked_Inv, Revoked_Types, Revoked_Recorded, Revoked_Earned, Revoked_Schedule
        <3>23. Revoked_Earned'
            BY <1>2, <3>1, <3>2, <3>4, <3>5, <3>6, ContractAssumption
               DEF Revoked_Inv, Revoked_Types, Revoked_Recorded, Revoked_Earned, Revoked_Schedule
        <3> QED BY <3>21, <3>22, <3>23 DEF Revoked_Inv
    <2>4. CASE Revoked_revoke(u)
        <3>1. PICK s \in Revoked_Schedule :
                  s = store.schedule[u] /\ store.schedule[u] # None /\ s.revoked_at = None
            BY <1>2, <2>4, SoloAccount DEF Revoked_revoke, Revoked_Inv, Revoked_Types
        <3>2. u \in Address /\ now \in Nat /\
                  store.schedule \in [Address -> Revoked_Schedule \cup {None}] /\
                  store = [admin |-> store.admin, schedule |-> store.schedule]
            BY <1>2, SoloAccount DEF Revoked_Inv, Revoked_Types
        <3>3. PICK h : h = [store.schedule EXCEPT ![u].revoked_at = now]
            OBVIOUS
        <3>4. store' = [store EXCEPT !.schedule = h] /\ past' = past /\ now' = now
            BY <2>4, <3>3 DEF Revoked_revoke, Write
        <3>p. PICK q : q = [total |-> s.total, claimed |-> s.claimed, cliff |-> s.cliff,
                            end |-> s.end, revoked_at |-> now]
            OBVIOUS
        <3>5. q \in Revoked_Schedule /\ q # None /\ q.claimed = s.claimed /\ q.total = s.total /\
                  q.cliff = s.cliff /\ q.end = s.end /\ q.revoked_at = now
            BY <3>p, <3>1, <3>2, ScheduleAssumption DEF Revoked_Schedule
        <3>6. /\ h \in [Address -> Revoked_Schedule \cup {None}] /\
                 \A w \in Address : h[w] = IF w = u THEN q ELSE store.schedule[w]
            BY <3>1, <3>2, <3>3, <3>5, <3>p DEF Revoked_Schedule
        <3>7. store' = [admin |-> store.admin, schedule |-> h]
            BY <3>2, <3>4
        <3>8. Linear(q, Revoked_Stop(q, now)) = Linear(s, Revoked_Stop(s, now))
            BY <3>1, <3>2, <3>5 DEF Linear, Revoked_Stop
        <3>21. Revoked_Types'
            BY <1>2, <3>1, <3>2, <3>4, <3>5, <3>6, <3>7, <3>8, ContractAssumption
               DEF Revoked_Inv, Revoked_Types, Revoked_Recorded, Revoked_Earned
        <3>22. Revoked_Recorded'
            BY <1>2, <3>1, <3>2, <3>4, <3>5, <3>6, <3>7, <3>8, ContractAssumption
               DEF Revoked_Inv, Revoked_Types, Revoked_Recorded, Revoked_Earned
        <3>23. Revoked_Earned'
            BY <1>2, <3>1, <3>2, <3>4, <3>5, <3>6, <3>7, <3>8, ContractAssumption
               DEF Revoked_Inv, Revoked_Types, Revoked_Recorded, Revoked_Earned
        <3> QED BY <3>21, <3>22, <3>23 DEF Revoked_Inv
    <2>5. CASE Revoked_claim(u)
        <3>1. PICK s \in Revoked_Schedule : s = store.schedule[u] /\ store.schedule[u] # None
            BY <1>2, <2>5, SoloAccount DEF Revoked_claim, Revoked_Inv, Revoked_Types
        <3>2. u \in Address /\ now \in Nat /\ past = [paid |-> past.paid] /\
                  past.paid \in [Address -> Nat]
              /\ past.paid[u] = s.claimed /\
                 store.schedule \in [Address -> Revoked_Schedule \cup {None}] /\
                 store = [admin |-> store.admin, schedule |-> store.schedule]
            BY <1>2, <3>1, SoloAccount DEF Revoked_Inv, Revoked_Types, Revoked_Recorded
        <3>3. PICK v \in Int : v = Revoked_vested_for_schedule(s)
            <4>1. s.total \in Int /\ s.cliff \in Nat /\ s.end \in Nat /\
                      Revoked_Stop(s, now) \in Nat
                BY <3>1, <3>2 DEF Revoked_Schedule, Totals, Revoked_Stop
            <4>2. Linear(s, Revoked_Stop(s, now)) \in Int
                BY <4>1, LinearGrows
            <4> QED BY <1>2, <3>1, <3>2, <4>2, <2>5
                   DEF Revoked_vested_for_schedule, Revoked_claim, Revoked_Stop
        <3>4. v > s.claimed /\ v <= s.total /\ s.total \in Totals /\ s.claimed \in Nat
            <4>1. v > s.claimed /\ s.claimed \in Nat /\ s.total \in Totals
                BY <2>5, <3>1, <3>3 DEF Revoked_claim, Revoked_Schedule, Revoked_Stop
            <4>2. s.total \in Int /\ s.cliff \in Nat /\ s.end \in Nat /\
                      Revoked_Stop(s, now) \in Nat /\ v = Linear(s, Revoked_Stop(s, now))
                BY <1>2, <2>5, <3>1, <3>2, <3>3
                   DEF Revoked_Schedule, Totals, Revoked_vested_for_schedule, Revoked_claim,
                   Revoked_Stop
            <4>3. (s.total >= 0 => v <= s.total) /\ (s.total < 0 => v <= 0)
                BY <4>2, LinearGrows
            <4> QED BY <3>3, <4>1, <4>2, <4>3
        <3>5. PICK h, p :
                  h = [store.schedule EXCEPT ![u].claimed = v] /\
                  p = [past.paid EXCEPT ![u] = Capped(past.paid[u] + (v - s.claimed))]
            OBVIOUS
        <3>6. store' = [store EXCEPT !.schedule = h] /\ past' = [past EXCEPT !.paid = p] /\
                  now' = now
            BY <2>5, <3>1, <3>3, <3>5 DEF Revoked_claim, Credit, WriteAnd, Revoked_Stop
        <3>7. Capped(past.paid[u] + (v - s.claimed)) = v
            BY <3>2, <3>3, <3>4 DEF Capped, Cap, Totals
        <3>p. PICK q : q = [total |-> s.total, claimed |-> v, cliff |-> s.cliff, end |-> s.end,
                            revoked_at |-> s.revoked_at]
            OBVIOUS
        <3>8. q \in Revoked_Schedule /\ q # None /\ q.claimed = v /\ q.total = s.total /\
                  q.cliff = s.cliff /\ q.end = s.end /\ q.revoked_at = s.revoked_at
            BY <3>p, <3>1, <3>3, <3>4, ScheduleAssumption DEF Revoked_Schedule
        <3>9. /\ h \in [Address -> Revoked_Schedule \cup {None}] /\
                 \A w \in Address : h[w] = IF w = u THEN q ELSE store.schedule[w]
            BY <3>1, <3>2, <3>5, <3>8, <3>p DEF Revoked_Schedule
        <3>10. p \in [Address -> Nat] /\ \A w \in Address : p[w] = IF w = u THEN v ELSE past.paid[w]
            BY <3>2, <3>3, <3>4, <3>5, <3>7
        <3>11. store' = [admin |-> store.admin, schedule |-> h] /\ past' = [paid |-> p]
            BY <3>2, <3>6

        <3>12. Linear(q, Revoked_Stop(q, now)) = v
            BY <3>1, <3>3, <3>8 DEF Linear, Revoked_Stop, Revoked_vested_for_schedule
        <3>21. Revoked_Types'
            BY <1>2, <3>1, <3>2, <3>4, <3>6, <3>8, <3>9, <3>10, <3>11, ContractAssumption, <3>12
               DEF Revoked_Inv, Revoked_Types, Revoked_Recorded, Revoked_Earned, Revoked_Schedule
        <3>22. Revoked_Recorded'
            BY <1>2, <3>1, <3>2, <3>4, <3>6, <3>8, <3>9, <3>10, <3>11, ContractAssumption, <3>12
               DEF Revoked_Inv, Revoked_Types, Revoked_Recorded, Revoked_Earned, Revoked_Schedule
        <3>23. Revoked_Earned'
            BY <1>2, <3>1, <3>2, <3>4, <3>6, <3>8, <3>9, <3>10, <3>11, ContractAssumption, <3>12
               DEF Revoked_Inv, Revoked_Types, Revoked_Recorded, Revoked_Earned, Revoked_Schedule
        <3> QED BY <3>21, <3>22, <3>23 DEF Revoked_Inv
    <2>6. CASE CloseLedger
        <3>1. store' = store /\ past' = past /\ now' = now + 1 /\ now' \in Nat
            BY <1>2, <2>6 DEF CloseLedger, Revoked_Inv, Revoked_Types

        <3>2. ASSUME NEW w \in Address, store.schedule[w] # None,
                     past.paid[w] <= 0 \/
                         past.paid[w] <=
                         Linear(store.schedule[w], Revoked_Stop(store.schedule[w], now))
              PROVE  past.paid[w] <= 0 \/
                  past.paid[w] <= Linear(store.schedule[w], Revoked_Stop(store.schedule[w], now'))
            <4>1. PICK s \in Revoked_Schedule : s = store.schedule[w]
                BY <1>2, <3>2 DEF Revoked_Inv, Revoked_Types
            <4>2. PICK a \in Nat, b \in Nat :
                      a = Revoked_Stop(s, now) /\ b = Revoked_Stop(s, now') /\ a <= b
                <5>1. now \in Nat /\ now' = now + 1 /\ s.revoked_at \in Nat \cup {None}
                    BY <1>2, <3>1, <4>1 DEF Revoked_Inv, Revoked_Types, Revoked_Schedule
                <5> QED BY <5>1 DEF Revoked_Stop
            <4>3. s.total \in Int /\ s.cliff \in Nat /\ s.end \in Nat
                BY <4>1 DEF Revoked_Schedule, Totals
            <4>4. /\ Linear(s, a) \in Int /\ Linear(s, b) \in Int
                  /\ s.total >= 0 => Linear(s, a) <= Linear(s, b)
                  /\ s.total < 0 => Linear(s, a) <= 0
                BY <4>2, <4>3, LinearGrows
            <4>5. past.paid[w] \in Nat
                BY <1>2 DEF Revoked_Inv, Revoked_Types
            <4> QED BY <3>2, <4>1, <4>2, <4>3, <4>4, <4>5
        <3>21. Revoked_Types'
            BY <1>2, <3>1, <3>2 DEF Revoked_Inv, Revoked_Types, Revoked_Recorded, Revoked_Earned
        <3>22. Revoked_Recorded'
            BY <1>2, <3>1, <3>2 DEF Revoked_Inv, Revoked_Types, Revoked_Recorded, Revoked_Earned
        <3>23. Revoked_Earned'
            BY <1>2, <3>1, <3>2 DEF Revoked_Inv, Revoked_Types, Revoked_Recorded, Revoked_Earned
        <3> QED BY <3>21, <3>22, <3>23 DEF Revoked_Inv
    <2> QED BY <2>1, <2>2, <2>3, <2>4, <2>5, <2>6
<1>3. Revoked_Inv /\ UNCHANGED vars => Revoked_Inv'
    BY DEF Revoked_Inv, Revoked_Types, Revoked_Recorded, Revoked_Earned, vars
<1> QED BY <1>1, <1>2, <1>3

-----------------------------------------------------------------------------
(* vesting_claimed_not_subtracted.                                         *)
\* A schedule.
Subtract_Schedule ==
    [total : Totals, claimed : Nat, cliff : Nat, end : Nat]

Subtract_Types ==
    /\ now \in Nat
    /\ store = [admin |-> store.admin, schedule |-> store.schedule]
    /\ store.schedule \in [Address -> Subtract_Schedule \cup {None}]
    /\ past \in [paid : [Address -> Nat]]

\* An account was paid what its schedule says it claimed, and nothing before it
\* has one.
Subtract_Recorded ==
    \A u \in Address : past.paid[u] = IF store.schedule[u] = None THEN 0
        ELSE store.schedule[u].claimed

\* No more is recorded as claimed than was granted.
Subtract_Within ==
    \A u \in Address : store.schedule[u] # None =>
        store.schedule[u].claimed <= 0 \/ store.schedule[u].claimed <= store.schedule[u].total

Subtract_Inv == Subtract_Types /\ Subtract_Recorded /\ Subtract_Within

\* So an account was paid what it can read as claimed, within its grant.
LEMMA Subtract_Promise == Subtract_Inv => Subtract_PaidIsClaimed
<1> SUFFICES ASSUME Subtract_Inv, NEW u \in Address, store.schedule[u] # None
             PROVE  past.paid[u] = store.schedule[u].claimed /\
                 past.paid[u] <= Max({0, store.schedule[u].total})
    BY DEF Subtract_PaidIsClaimed, Subtract_claimed_amount
<1>1. PICK s \in Subtract_Schedule : s = store.schedule[u]
    BY DEF Subtract_Inv, Subtract_Types
<1>2. past.paid[u] = s.claimed /\ past.paid[u] \in Nat /\ (s.claimed <= 0 \/ s.claimed <= s.total)
    BY <1>1 DEF Subtract_Inv, Subtract_Types, Subtract_Recorded, Subtract_Within
<1>3. PICK v \in Int : v = s.total
    BY <1>1 DEF Subtract_Schedule, Totals
<1>4. Max({0, v}) = IF v > 0 THEN v ELSE 0
    BY MaxZero
<1> QED BY <1>1, <1>2, <1>3, <1>4

\* Every deployment is in Subtract_Inv; a call of the corrected contract, or
\* none, stays in it.
LEMMA Subtract_Correct ==
    /\ now = 0 /\ Subtract_Init => Subtract_Inv
    /\ Secure /\ Subtract_Inv /\ Subtract_Next => Subtract_Inv'
    /\ Subtract_Inv /\ UNCHANGED vars => Subtract_Inv'
<1>1. now = 0 /\ Subtract_Init => Subtract_Inv
    <2> SUFFICES ASSUME now = 0, Subtract_Init PROVE Subtract_Inv
        OBVIOUS
    <2>1. \A u \in Address : store.schedule[u] = None /\ past.paid[u] = 0
        BY DEF Subtract_Init, NoSchedules, Zero
    <2>2. Subtract_Types
        BY DEF Subtract_Init, Subtract_Types, NoSchedules, Zero
    <2> QED BY <2>1, <2>2 DEF Subtract_Inv, Subtract_Recorded, Subtract_Within
<1>2. ASSUME Secure, Subtract_Inv, Subtract_Next PROVE Subtract_Inv'
    <2>1. PICK u \in Solo, n \in Totals, c \in Ledgers, e \in Ledgers :
              Subtract_initialize(u) \/ Subtract_create_schedule(u, n, c, e) \/ Subtract_claim(u) \/
              CloseLedger
        BY <1>2, Zenon DEF Subtract_Next, Lib, Secure
    <2>2. CASE Subtract_initialize(u)
        <3>1. /\ store' = [admin |-> u, schedule |-> store.schedule]
              /\ past' = past
              /\ now' = now
            BY <1>2, <2>2 DEF Subtract_initialize, Write, Subtract_Inv, Subtract_Types
        <3> QED BY <1>2, <3>1, ContractAssumption DEF Subtract_Inv, Subtract_Types,
               Subtract_Recorded, Subtract_Within, Subtract_Schedule, Totals, Ledgers
    <2>3. CASE Subtract_create_schedule(u, n, c, e)
        <3>1. u \in Address /\ now \in Nat /\ past.paid \in [Address -> Nat] /\
                  store.schedule[u] = None /\ past.paid[u] = 0
              /\ store.schedule \in [Address -> Subtract_Schedule \cup {None}] /\
                 store = [admin |-> store.admin, schedule |-> store.schedule]
            BY <1>2, <2>3, SoloAccount
               DEF Subtract_create_schedule, Subtract_Inv, Subtract_Types, Subtract_Recorded
        <3>p. PICK r : r = [total |-> n, claimed |-> 0, cliff |-> c, end |-> e]
            OBVIOUS
        <3>2. r = [total |-> n, claimed |-> 0, cliff |-> c, end |-> e] /\ r \in Subtract_Schedule /\
                  r.claimed = 0
            BY <3>p, <2>3 DEF Subtract_create_schedule,  Subtract_Schedule, Totals, Ledgers
        <3>3. PICK h : h = [store.schedule EXCEPT ![u] = r]
            OBVIOUS
        <3>4. store' = [store EXCEPT !.schedule = h] /\ past' = past /\ now' = now
            BY <2>3, <3>2, <3>3 DEF Subtract_create_schedule, Write
        <3>5. /\ h \in [Address -> Subtract_Schedule \cup {None}] /\
                 \A w \in Address : h[w] = IF w = u THEN r ELSE store.schedule[w]
            BY <3>1, <3>2, <3>3
        <3>6. store' = [admin |-> store.admin, schedule |-> h]
            BY <3>1, <3>4
        <3>21. Subtract_Types'
            BY <1>2, <3>1, <3>2, <3>4, <3>5, <3>6, ContractAssumption
               DEF Subtract_Inv, Subtract_Types, Subtract_Recorded, Subtract_Within,
               Subtract_Schedule
        <3>22. Subtract_Recorded'
            BY <1>2, <3>1, <3>2, <3>4, <3>5, <3>6, ContractAssumption
               DEF Subtract_Inv, Subtract_Types, Subtract_Recorded, Subtract_Within,
               Subtract_Schedule
        <3>23. Subtract_Within'
            BY <1>2, <3>1, <3>2, <3>4, <3>5, <3>6, ContractAssumption
               DEF Subtract_Inv, Subtract_Types, Subtract_Recorded, Subtract_Within,
               Subtract_Schedule
        <3> QED BY <3>21, <3>22, <3>23 DEF Subtract_Inv
    <2>4. CASE Subtract_claim(u)
        <3>1. PICK s \in Subtract_Schedule : s = store.schedule[u] /\ store.schedule[u] # None
            BY <1>2, <2>4, SoloAccount DEF Subtract_claim, Subtract_Inv, Subtract_Types
        <3>2. u \in Address /\ now \in Nat /\ past = [paid |-> past.paid] /\
                  past.paid \in [Address -> Nat]
              /\ past.paid[u] = s.claimed /\
                 store.schedule \in [Address -> Subtract_Schedule \cup {None}] /\
                 store = [admin |-> store.admin, schedule |-> store.schedule]
            BY <1>2, <3>1, SoloAccount DEF Subtract_Inv, Subtract_Types, Subtract_Recorded
        <3>3. PICK v \in Int : v = Subtract_vested_for_schedule(s)
            <4>1. s.total \in Int /\ s.cliff \in Nat /\ s.end \in Nat /\ now \in Nat
                BY <3>1, <3>2 DEF Subtract_Schedule, Totals
            <4>2. Linear(s, now) \in Int
                BY <4>1, LinearGrows
            <4> QED BY <1>2, <3>1, <3>2, <4>2, <2>4 DEF Subtract_vested_for_schedule, Subtract_claim
        <3>4. v > s.claimed /\ v <= s.total /\ s.total \in Totals /\ s.claimed \in Nat
            <4>1. v > s.claimed /\ s.claimed \in Nat /\ s.total \in Totals
                BY <2>4, <3>1, <3>3 DEF Subtract_claim, Subtract_Schedule
            <4>2. s.total \in Int /\ s.cliff \in Nat /\ s.end \in Nat /\ now \in Nat /\
                      v = Linear(s, now)
                BY <1>2, <2>4, <3>1, <3>2, <3>3
                   DEF Subtract_Schedule, Totals, Subtract_vested_for_schedule, Subtract_claim
            <4>3. (s.total >= 0 => v <= s.total) /\ (s.total < 0 => v <= 0)
                BY <4>2, LinearGrows
            <4> QED BY <3>3, <4>1, <4>2, <4>3
        <3>5. PICK h, p :
                  h = [store.schedule EXCEPT ![u].claimed = v] /\
                  p = [past.paid EXCEPT ![u] = Capped(past.paid[u] + (v - s.claimed))]
            OBVIOUS
        <3>6. store' = [store EXCEPT !.schedule = h] /\ past' = [past EXCEPT !.paid = p] /\
                  now' = now
            BY <2>4, <3>1, <3>3, <3>5 DEF Subtract_claim, Credit, WriteAnd
        <3>7. Capped(past.paid[u] + (v - s.claimed)) = v
            BY <3>2, <3>3, <3>4 DEF Capped, Cap, Totals
        <3>p. PICK q : q = [total |-> s.total, claimed |-> v, cliff |-> s.cliff, end |-> s.end]
            OBVIOUS
        <3>8. q \in Subtract_Schedule /\ q # None /\ q.claimed = v /\ q.total = s.total /\
                  q.cliff = s.cliff /\ q.end = s.end
            BY <3>p, <3>1, <3>3, <3>4, ScheduleAssumption DEF Subtract_Schedule
        <3>9. /\ h \in [Address -> Subtract_Schedule \cup {None}] /\
                 \A w \in Address : h[w] = IF w = u THEN q ELSE store.schedule[w]
            BY <3>1, <3>2, <3>5, <3>8, <3>p DEF Subtract_Schedule
        <3>10. p \in [Address -> Nat] /\ \A w \in Address : p[w] = IF w = u THEN v ELSE past.paid[w]
            BY <3>2, <3>3, <3>4, <3>5, <3>7
        <3>11. store' = [admin |-> store.admin, schedule |-> h] /\ past' = [paid |-> p]
            BY <3>2, <3>6
        <3>21. Subtract_Types'
            BY <1>2, <3>1, <3>2, <3>4, <3>6, <3>8, <3>9, <3>10, <3>11, ContractAssumption
               DEF Subtract_Inv, Subtract_Types, Subtract_Recorded, Subtract_Within,
               Subtract_Schedule
        <3>22. Subtract_Recorded'
            BY <1>2, <3>1, <3>2, <3>4, <3>6, <3>8, <3>9, <3>10, <3>11, ContractAssumption
               DEF Subtract_Inv, Subtract_Types, Subtract_Recorded, Subtract_Within,
               Subtract_Schedule
        <3>23. Subtract_Within'
            BY <1>2, <3>1, <3>2, <3>4, <3>6, <3>8, <3>9, <3>10, <3>11, ContractAssumption
               DEF Subtract_Inv, Subtract_Types, Subtract_Recorded, Subtract_Within,
               Subtract_Schedule
        <3> QED BY <3>21, <3>22, <3>23 DEF Subtract_Inv
    <2>5. CASE CloseLedger
        <3>1. store' = store /\ past' = past /\ now' = now + 1 /\ now' \in Nat
            BY <1>2, <2>5 DEF CloseLedger, Subtract_Inv, Subtract_Types
        <3>21. Subtract_Types'
            BY <1>2, <3>1 DEF Subtract_Inv, Subtract_Types, Subtract_Recorded, Subtract_Within
        <3>22. Subtract_Recorded'
            BY <1>2, <3>1 DEF Subtract_Inv, Subtract_Types, Subtract_Recorded, Subtract_Within
        <3>23. Subtract_Within'
            BY <1>2, <3>1 DEF Subtract_Inv, Subtract_Types, Subtract_Recorded, Subtract_Within
        <3> QED BY <3>21, <3>22, <3>23 DEF Subtract_Inv
    <2> QED BY <2>1, <2>2, <2>3, <2>4, <2>5
<1>3. Subtract_Inv /\ UNCHANGED vars => Subtract_Inv'
    BY DEF Subtract_Inv, Subtract_Types, Subtract_Recorded, Subtract_Within, vars
<1> QED BY <1>1, <1>2, <1>3

-----------------------------------------------------------------------------
(* vesting_cliff_after_end.                                                *)
\* A schedule.
Cliff_Schedule ==
    [total : Totals, claimed : Nat, start : Int, cliff : Nat, end : Nat]

Cliff_Types ==
    /\ now \in Nat
    /\ store \in [schedule : [Address -> Cliff_Schedule \cup {None}]]
    /\ past \in [paid : [Address -> Nat]]

\* An account was paid what its schedule says it claimed, and nothing before it
\* has one.
Cliff_Recorded ==
    \A u \in Address : past.paid[u] = IF store.schedule[u] = None THEN 0
        ELSE store.schedule[u].claimed

\* The cliff is not after the end: the guard that the fixture lacks.
Cliff_InOrder ==
    \A u \in Address : store.schedule[u] # None => store.schedule[u].cliff <= store.schedule[u].end

Cliff_Inv == Cliff_Types /\ Cliff_Recorded /\ Cliff_InOrder

\* So a schedule has vested completely at its end.
LEMMA Cliff_Promise == Cliff_Inv => Cliff_CompleteAtEnd
<1> SUFFICES ASSUME Cliff_Inv, NEW u \in Address, store.schedule[u] # None
             PROVE  /\ past.paid[u] = store.schedule[u].claimed
                    /\ now >= store.schedule[u].end =>
                       Linear(store.schedule[u], now) = store.schedule[u].total
    BY DEF Cliff_CompleteAtEnd, Cliff_vested_amount, Cliff_vested_for_schedule
<1>1. PICK s \in Cliff_Schedule : s = store.schedule[u]
    BY DEF Cliff_Inv, Cliff_Types
<1>2. past.paid[u] = s.claimed /\ s.cliff <= s.end /\ now \in Nat
    BY <1>1 DEF Cliff_Inv, Cliff_Types, Cliff_Recorded, Cliff_InOrder
<1>3. s.cliff \in Nat /\ s.end \in Nat
    BY <1>1 DEF Cliff_Schedule
<1>4. now >= s.end => Linear(s, now) = s.total
    BY <1>2, <1>3 DEF Linear
<1> QED BY <1>1, <1>2, <1>4

\* Every deployment is in Cliff_Inv; a call of the corrected contract, or none,
\* stays in it.
LEMMA Cliff_Correct ==
    /\ now = 0 /\ Cliff_Init => Cliff_Inv
    /\ Secure /\ Cliff_Inv /\ Cliff_Next => Cliff_Inv'
    /\ Cliff_Inv /\ UNCHANGED vars => Cliff_Inv'
<1>1. now = 0 /\ Cliff_Init => Cliff_Inv
    <2> SUFFICES ASSUME now = 0, Cliff_Init PROVE Cliff_Inv
        OBVIOUS
    <2>1. \A u \in Address : store.schedule[u] = None /\ past.paid[u] = 0
        BY DEF Cliff_Init, NoSchedules, Zero
    <2>2. Cliff_Types
        BY DEF Cliff_Init, Cliff_Types, NoSchedules, Zero
    <2> QED BY <2>1, <2>2 DEF Cliff_Inv, Cliff_Recorded, Cliff_InOrder
<1>2. ASSUME Secure, Cliff_Inv, Cliff_Next PROVE Cliff_Inv'
    <2>1. PICK u \in Solo, n \in Totals, b \in 0..1, c \in Ledgers, e \in Ledgers :
              Cliff_initialize(u, n, b, c, e) \/ Cliff_claim(u) \/ CloseLedger
        BY <1>2, Zenon DEF Cliff_Next, Lib, Secure
    <2>2. CASE Cliff_initialize(u, n, b, c, e)
        <3>1. u \in Address /\ now \in Nat /\ past.paid \in [Address -> Nat] /\
                  store.schedule[u] = None /\ past.paid[u] = 0
              /\ store.schedule \in [Address -> Cliff_Schedule \cup {None}] /\
                 store = [schedule |-> store.schedule]
            BY <1>2, <2>2, SoloAccount DEF Cliff_initialize, Cliff_Inv, Cliff_Types, Cliff_Recorded
        <3>p. PICK r : r = [total |-> n, claimed |-> 0, start |-> b, cliff |-> c, end |-> e]
            OBVIOUS
        <3>2. r = [total |-> n, claimed |-> 0, start |-> b, cliff |-> c, end |-> e] /\
                  r \in Cliff_Schedule /\ r.claimed = 0 /\ r.cliff <= r.end
            BY <3>p, <2>2 DEF Cliff_initialize,  Cliff_Schedule, Totals, Ledgers
        <3>3. PICK h : h = [store.schedule EXCEPT ![u] = r]
            OBVIOUS
        <3>4. store' = [store EXCEPT !.schedule = h] /\ past' = past /\ now' = now
            BY <2>2, <3>2, <3>3 DEF Cliff_initialize, Write, Cliff_initialize_lib
        <3>5. /\ h \in [Address -> Cliff_Schedule \cup {None}] /\
                 \A w \in Address : h[w] = IF w = u THEN r ELSE store.schedule[w]
            BY <3>1, <3>2, <3>3
        <3>6. store' = [schedule |-> h]
            BY <3>1, <3>4
        <3>21. Cliff_Types'
            BY <1>2, <3>1, <3>2, <3>4, <3>5, <3>6, ContractAssumption
               DEF Cliff_Inv, Cliff_Types, Cliff_Recorded, Cliff_InOrder, Cliff_Schedule
        <3>22. Cliff_Recorded'
            BY <1>2, <3>1, <3>2, <3>4, <3>5, <3>6, ContractAssumption
               DEF Cliff_Inv, Cliff_Types, Cliff_Recorded, Cliff_InOrder, Cliff_Schedule
        <3>23. Cliff_InOrder'
            BY <1>2, <3>1, <3>2, <3>4, <3>5, <3>6, ContractAssumption
               DEF Cliff_Inv, Cliff_Types, Cliff_Recorded, Cliff_InOrder, Cliff_Schedule
        <3> QED BY <3>21, <3>22, <3>23 DEF Cliff_Inv
    <2>3. CASE Cliff_claim(u)
        <3>1. PICK s \in Cliff_Schedule : s = store.schedule[u] /\ store.schedule[u] # None
            BY <1>2, <2>3, SoloAccount DEF Cliff_claim, Cliff_Inv, Cliff_Types
        <3>2. u \in Address /\ now \in Nat /\ past = [paid |-> past.paid] /\
                  past.paid \in [Address -> Nat]
              /\ past.paid[u] = s.claimed /\
                 store.schedule \in [Address -> Cliff_Schedule \cup {None}] /\
                 store = [schedule |-> store.schedule]
            BY <1>2, <3>1, SoloAccount DEF Cliff_Inv, Cliff_Types, Cliff_Recorded
        <3>3. PICK v \in Int : v = Cliff_vested_for_schedule_lib(s)
            <4>1. s.total \in Int /\ s.cliff \in Nat /\ s.end \in Nat /\ now \in Nat
                BY <3>1, <3>2 DEF Cliff_Schedule, Totals, Cliff_initialize_lib
            <4>2. Linear(s, now) \in Int
                BY <4>1, LinearGrows
            <4> QED BY <1>2, <3>1, <3>2, <4>2, <2>3
                   DEF Cliff_vested_for_schedule_lib, Cliff_claim, Cliff_initialize_lib
        <3>4. v > s.claimed /\ v <= s.total /\ s.total \in Totals /\ s.claimed \in Nat
            <4>1. v > s.claimed /\ s.claimed \in Nat /\ s.total \in Totals
                BY <2>3, <3>1, <3>3 DEF Cliff_claim, Cliff_Schedule, Cliff_initialize_lib
            <4>2. s.total \in Int /\ s.cliff \in Nat /\ s.end \in Nat /\ now \in Nat /\
                      v = Linear(s, now)
                BY <1>2, <2>3, <3>1, <3>2, <3>3
                   DEF Cliff_Schedule, Totals, Cliff_vested_for_schedule_lib, Cliff_claim,
                   Cliff_initialize_lib
            <4>3. (s.total >= 0 => v <= s.total) /\ (s.total < 0 => v <= 0)
                BY <4>2, LinearGrows
            <4> QED BY <3>3, <4>1, <4>2, <4>3
        <3>5. PICK h, p :
                  h = [store.schedule EXCEPT ![u].claimed = v] /\
                  p = [past.paid EXCEPT ![u] = Capped(past.paid[u] + (v - s.claimed))]
            OBVIOUS
        <3>6. store' = [store EXCEPT !.schedule = h] /\ past' = [past EXCEPT !.paid = p] /\
                  now' = now
            BY <2>3, <3>1, <3>3, <3>5 DEF Cliff_claim, Credit, WriteAnd, Cliff_initialize_lib
        <3>7. Capped(past.paid[u] + (v - s.claimed)) = v
            BY <3>2, <3>3, <3>4 DEF Capped, Cap, Totals
        <3>p. PICK q : q = [total |-> s.total, claimed |-> v, start |-> s.start, cliff |-> s.cliff,
                            end |-> s.end]
            OBVIOUS
        <3>8. q \in Cliff_Schedule /\ q # None /\ q.claimed = v /\ q.total = s.total /\
                  q.cliff = s.cliff /\ q.end = s.end
            BY <3>p, <3>1, <3>3, <3>4, ScheduleAssumption DEF Cliff_Schedule
        <3>9. /\ h \in [Address -> Cliff_Schedule \cup {None}] /\
                 \A w \in Address : h[w] = IF w = u THEN q ELSE store.schedule[w]
            BY <3>1, <3>2, <3>5, <3>8, <3>p DEF Cliff_Schedule
        <3>10. p \in [Address -> Nat] /\ \A w \in Address : p[w] = IF w = u THEN v ELSE past.paid[w]
            BY <3>2, <3>3, <3>4, <3>5, <3>7
        <3>11. store' = [schedule |-> h] /\ past' = [paid |-> p]
            BY <3>2, <3>6
        <3>21. Cliff_Types'
            BY <1>2, <3>1, <3>2, <3>4, <3>6, <3>8, <3>9, <3>10, <3>11, ContractAssumption
               DEF Cliff_Inv, Cliff_Types, Cliff_Recorded, Cliff_InOrder, Cliff_Schedule
        <3>22. Cliff_Recorded'
            BY <1>2, <3>1, <3>2, <3>4, <3>6, <3>8, <3>9, <3>10, <3>11, ContractAssumption
               DEF Cliff_Inv, Cliff_Types, Cliff_Recorded, Cliff_InOrder, Cliff_Schedule
        <3>23. Cliff_InOrder'
            BY <1>2, <3>1, <3>2, <3>4, <3>6, <3>8, <3>9, <3>10, <3>11, ContractAssumption
               DEF Cliff_Inv, Cliff_Types, Cliff_Recorded, Cliff_InOrder, Cliff_Schedule
        <3> QED BY <3>21, <3>22, <3>23 DEF Cliff_Inv
    <2>4. CASE CloseLedger
        <3>1. store' = store /\ past' = past /\ now' = now + 1 /\ now' \in Nat
            BY <1>2, <2>4 DEF CloseLedger, Cliff_Inv, Cliff_Types
        <3>21. Cliff_Types'
            BY <1>2, <3>1 DEF Cliff_Inv, Cliff_Types, Cliff_Recorded, Cliff_InOrder
        <3>22. Cliff_Recorded'
            BY <1>2, <3>1 DEF Cliff_Inv, Cliff_Types, Cliff_Recorded, Cliff_InOrder
        <3>23. Cliff_InOrder'
            BY <1>2, <3>1 DEF Cliff_Inv, Cliff_Types, Cliff_Recorded, Cliff_InOrder
        <3> QED BY <3>21, <3>22, <3>23 DEF Cliff_Inv
    <2> QED BY <2>1, <2>2, <2>3, <2>4
<1>3. Cliff_Inv /\ UNCHANGED vars => Cliff_Inv'
    BY DEF Cliff_Inv, Cliff_Types, Cliff_Recorded, Cliff_InOrder, vars
<1> QED BY <1>1, <1>2, <1>3

-----------------------------------------------------------------------------
(* reward_checkpoint_missing.                                              *)
\* What a stake s is entitled to at accumulator a.
Checkpoint_Part(a, s) == (a * s) \div PREC

\* The entitlement grows with the accumulator, and rounding costs at most one
\* unit of the scale.
LEMMA Checkpoint_PartGrows ==
    /\ \A a \in Nat, s \in Nat : Checkpoint_Part(a, s) \in Nat
    /\ \A s \in Nat : Checkpoint_Part(0, s) = 0
    /\ \A a \in Nat, b \in Nat, s \in Nat : b <= a => Checkpoint_Part(b, s) <= Checkpoint_Part(a, s)
    /\ \A a \in Nat, b \in Nat, s \in Nat :
          b <= a => (Checkpoint_Part(a, s) - Checkpoint_Part(b, s)) * PREC <= (a - b) * s + PREC
<1>1. \A a \in Nat, s \in Nat : a * s \in Nat /\ 0 * s = 0
    OBVIOUS
<1>2. \A a \in Nat, s \in Nat : Checkpoint_Part(a, s) \in Nat
    BY <1>1 DEF Checkpoint_Part, PREC
<1>3. \A s \in Nat : Checkpoint_Part(0, s) = 0
    <2> SUFFICES ASSUME NEW s \in Nat PROVE Checkpoint_Part(0, s) = 0
        OBVIOUS
    <2>1. 0 * s = 0
        OBVIOUS
    <2> QED BY <2>1 DEF Checkpoint_Part, PREC
<1>4. ASSUME NEW a \in Nat, NEW b \in Nat, NEW s \in Nat, b <= a
      PROVE  /\ Checkpoint_Part(b, s) <= Checkpoint_Part(a, s)
             /\ (Checkpoint_Part(a, s) - Checkpoint_Part(b, s)) * PREC <= (a - b) * s + PREC
    <2>1. PICK x \in Nat, y \in Nat : x = a * s /\ y = b * s /\ y <= x /\ (a - b) * s = x - y
        BY <1>4
    <2>2. y \div 2 <= x \div 2 /\ (x \div 2 - y \div 2) * 2 <= x - y + 2
        BY <2>1
    <2> QED BY <2>1, <2>2 DEF Checkpoint_Part, PREC
<1> QED BY <1>2, <1>3, <1>4

Checkpoint_Types ==
    /\ store \in [acc : Nat, stake : [Address -> Nat], debt : [Address -> Nat]]
    /\ past \in [base : [Address -> Nat], paid : [Address -> Nat]]

\* What was paid since the deposit, on top of the entitlement at the deposit,
\* is within the debt on record and within the present entitlement.
Checkpoint_Earned ==
    \A u \in Address :
        /\ past.paid[u] + Checkpoint_Part(past.base[u], store.stake[u]) <= store.debt[u]
        /\ past.paid[u] + Checkpoint_Part(past.base[u], store.stake[u]) <=
           Checkpoint_Part(store.acc, store.stake[u])

Checkpoint_Inv == Checkpoint_Types /\ Checkpoint_Earned

\* So a stake is paid for the growth since its own deposit only.
LEMMA Checkpoint_Promise == Checkpoint_Inv => Checkpoint_EarnsFromDeposit
<1> SUFFICES ASSUME Checkpoint_Inv, NEW u \in Address, store.acc >= past.base[u]
             PROVE  past.paid[u] * PREC <= (store.acc - past.base[u]) * store.stake[u] + PREC
    BY DEF Checkpoint_EarnsFromDeposit, Checkpoint_get_acc, Checkpoint_get_stake
<1>1. PICK a \in Nat, b \in Nat, s \in Nat, p \in Nat :
          a = store.acc /\ b = past.base[u] /\ s = store.stake[u] /\ p = past.paid[u]
    BY DEF Checkpoint_Inv, Checkpoint_Types
<1>2. PICK x \in Nat, y \in Nat : x = Checkpoint_Part(a, s) /\ y = Checkpoint_Part(b, s)
    BY Checkpoint_PartGrows
<1>3. p + y <= x
    BY <1>1, <1>2 DEF Checkpoint_Inv, Checkpoint_Earned
<1>4. (x - y) * PREC <= (a - b) * s + PREC
    BY <1>1, <1>2, Checkpoint_PartGrows
<1>5. PICK z \in Int : z = (a - b) * s
    BY <1>1
<1>6. p * PREC <= z + PREC
    BY <1>3, <1>4, <1>5 DEF PREC
<1> QED BY <1>1, <1>5, <1>6

\* Every deployment is in Checkpoint_Inv; a call of the corrected contract, or
\* none, stays in it.
LEMMA Checkpoint_Correct ==
    /\ now = 0 /\ Checkpoint_Init => Checkpoint_Inv
    /\ Secure /\ Checkpoint_Inv /\ Checkpoint_Next => Checkpoint_Inv'
    /\ Checkpoint_Inv /\ UNCHANGED vars => Checkpoint_Inv'
<1>1. now = 0 /\ Checkpoint_Init => Checkpoint_Inv
    <2> SUFFICES ASSUME Checkpoint_Init PROVE Checkpoint_Inv
        OBVIOUS
    <2>1. Checkpoint_Types
        BY DEF Checkpoint_Init, Checkpoint_Types, Zero
    <2>2. \A u \in Address : past.paid[u] = 0 /\ past.base[u] = 0 /\ store.stake[u] = 0 /\
              store.debt[u] = 0 /\ store.acc = 0
        BY DEF Checkpoint_Init, Zero
    <2>3. Checkpoint_Part(0, 0) = 0
        BY Checkpoint_PartGrows
    <2>4. Checkpoint_Earned
        BY <2>2, <2>3 DEF Checkpoint_Earned
    <2> QED BY <2>1, <2>4 DEF Checkpoint_Inv
<1>2. ASSUME Secure, Checkpoint_Inv, Checkpoint_Next PROVE Checkpoint_Inv'
    <2>1. PICK u \in Solo, n \in 0..2 :
              Checkpoint_initialize(n) \/ Checkpoint_add_rewards(n) \/ Checkpoint_stake(u, n) \/
              Checkpoint_claim_rewards(u)
        BY <1>2, Zenon DEF Checkpoint_Next, Lib, Secure
    <2>2. CASE Checkpoint_initialize(n)
        <3>0. PICK z : z = Zero
            OBVIOUS
        <3>a. store' = [store EXCEPT !.acc = n] /\ past' = [past EXCEPT !.base = z, !.paid = z] /\
                  n \in Nat
            BY <2>2, <3>0 DEF Checkpoint_initialize, WriteAnd, Zero
        <3>1. /\ store' = [acc |-> n, stake |-> store.stake, debt |-> store.debt] /\
                 past' = [base |-> Zero, paid |-> Zero] /\ n \in Nat
            BY <1>2, <3>0, <3>a DEF Checkpoint_Inv, Checkpoint_Types
        <3>2. Zero \in [Address -> Nat] /\ \A u1 \in Address : Zero[u1] = 0
            BY DEF Zero
        <3>3. Checkpoint_Types'
            BY <1>2, <3>1, <3>2 DEF Checkpoint_Inv, Checkpoint_Types
        <3>4. ASSUME NEW w \in Address
              PROVE  0 + Checkpoint_Part(0, store.stake[w]) <= store.debt[w] /\
                  0 + Checkpoint_Part(0, store.stake[w]) <= Checkpoint_Part(n, store.stake[w])
            <4>1. store.stake[w] \in Nat /\ store.debt[w] \in Nat
                BY <1>2 DEF Checkpoint_Inv, Checkpoint_Types
            <4>2. Checkpoint_Part(0, store.stake[w]) = 0 /\
                      Checkpoint_Part(n, store.stake[w]) \in Nat
                BY <3>1, <4>1, Checkpoint_PartGrows
            <4> QED BY <4>1, <4>2
        <3>5. Checkpoint_Earned'
            BY <3>1, <3>2, <3>4 DEF Checkpoint_Earned
        <3> QED BY <3>3, <3>5 DEF Checkpoint_Inv
    <2>3. CASE Checkpoint_add_rewards(n)
        <3>1. /\ store' = [acc |-> store.acc + n, stake |-> store.stake, debt |-> store.debt] /\
                 past' = past /\ n \in Nat
            BY <1>2, <2>3 DEF Checkpoint_add_rewards, Write, Checkpoint_Inv, Checkpoint_Types
        <3>2. Checkpoint_Types'
            BY <1>2, <3>1 DEF Checkpoint_Inv, Checkpoint_Types
        <3>3. ASSUME NEW w \in Address
              PROVE  past.paid[w] + Checkpoint_Part(past.base[w], store.stake[w]) <=
                  Checkpoint_Part(store.acc + n, store.stake[w])
            <4>1. PICK a \in Nat, b \in Nat, s \in Nat, p \in Nat :
                      a = store.acc /\ b = past.base[w] /\ s = store.stake[w] /\ p = past.paid[w]
                BY <1>2 DEF Checkpoint_Inv, Checkpoint_Types
            <4>2. p + Checkpoint_Part(b, s) <= Checkpoint_Part(a, s)
                BY <1>2, <4>1 DEF Checkpoint_Inv, Checkpoint_Earned
            <4>4. a <= a + n /\ a + n \in Nat
                BY <3>1
            <4>3. Checkpoint_Part(b, s) \in Nat /\ Checkpoint_Part(a, s) \in Nat /\
                      Checkpoint_Part(a + n, s) \in Nat
                BY <4>1, <4>4, Checkpoint_PartGrows
            <4>5. Checkpoint_Part(a, s) <= Checkpoint_Part(a + n, s)
                BY <4>4, Checkpoint_PartGrows
            <4> QED BY <4>1, <4>2, <4>3, <4>5
        <3>4. Checkpoint_Earned'
            BY <1>2, <3>1, <3>3 DEF Checkpoint_Inv, Checkpoint_Earned
        <3> QED BY <3>2, <3>4 DEF Checkpoint_Inv
    <2>4. CASE Checkpoint_stake(u, n)
        <3>1. PICK t : t = store.stake[u] + n
            OBVIOUS
        <3>2. PICK e : e = Checkpoint_Part(store.acc, t)
            OBVIOUS
        <3>3. PICK s, d, b, p :
                  s = [store.stake EXCEPT ![u] = t] /\ d = [store.debt EXCEPT ![u] = e]
                                /\ b = [past.base EXCEPT ![u] = store.acc] /\
                                   p = [past.paid EXCEPT ![u] = 0]
            OBVIOUS
        <3>4. store' = [store EXCEPT !.stake = s, !.debt = d] /\
                  past' = [past EXCEPT !.base = b, !.paid = p]
            BY <2>4, <3>1, <3>2, <3>3
               DEF Checkpoint_stake, WriteAnd, Checkpoint_get_stake, Checkpoint_get_acc,
               Checkpoint_Part
        <3>5. u \in Address /\ n \in Nat /\ t \in Nat /\ store.acc \in Nat
            BY <1>2, <3>1, SoloAccount DEF Checkpoint_Inv, Checkpoint_Types
        <3>6. e \in Nat
            BY <3>2, <3>5, Checkpoint_PartGrows
        <3>7. store' = [acc |-> store.acc, stake |-> s, debt |-> d] /\
                  past' = [base |-> b, paid |-> p]
            BY <1>2, <3>4 DEF Checkpoint_Inv, Checkpoint_Types
        <3>8. /\ s \in [Address -> Nat] /\ d \in [Address -> Nat] /\ b \in [Address -> Nat] /\
                 p \in [Address -> Nat]
              /\ \A w \in Address : s[w] = IF w = u THEN t ELSE store.stake[w]
              /\ \A w \in Address : d[w] = IF w = u THEN e ELSE store.debt[w]
              /\ \A w \in Address : b[w] = IF w = u THEN store.acc ELSE past.base[w]
              /\ \A w \in Address : p[w] = IF w = u THEN 0 ELSE past.paid[w]
            BY <1>2, <3>3, <3>5, <3>6 DEF Checkpoint_Inv, Checkpoint_Types
        <3>9. Checkpoint_Types'
            BY <3>5, <3>7, <3>8 DEF Checkpoint_Types
        <3>10. 0 + Checkpoint_Part(store.acc, t) <= e
            BY <3>2, <3>6
        <3>11. Checkpoint_Earned'
            BY <1>2, <3>2, <3>7, <3>8, <3>10 DEF Checkpoint_Inv, Checkpoint_Earned
        <3> QED BY <3>9, <3>11 DEF Checkpoint_Inv
    <2>5. CASE Checkpoint_claim_rewards(u)
        <3>1. PICK e : e = Checkpoint_Part(store.acc, store.stake[u])
            OBVIOUS
        <3>2. PICK n1 : n1 = Capped(past.paid[u] + saturating_sub(e, store.debt[u]))
            OBVIOUS
        <3>3. PICK d, p : d = [store.debt EXCEPT ![u] = e] /\ p = [past.paid EXCEPT ![u] = n1]
            OBVIOUS
        <3>4. store' = [store EXCEPT !.debt = d] /\ past' = [past EXCEPT !.paid = p]
            BY <2>5, <3>1, <3>2, <3>3
               DEF Checkpoint_claim_rewards, WriteAnd, Checkpoint_get_stake, Checkpoint_get_acc,
               Checkpoint_get_debt, Checkpoint_Part
        <3>5. u \in Address /\ store.acc \in Nat /\ store.stake[u] \in Nat /\
                  store.debt[u] \in Nat /\ past.paid[u] \in Nat /\ past.base[u] \in Nat
            BY <1>2, SoloAccount DEF Checkpoint_Inv, Checkpoint_Types
        <3>6. PICK y \in Nat : y = Checkpoint_Part(past.base[u], store.stake[u])
            BY <3>5, Checkpoint_PartGrows
        <3>7. e \in Nat /\ past.paid[u] + y <= store.debt[u] /\ past.paid[u] + y <= e
            BY <1>2, <3>1, <3>5, <3>6, Checkpoint_PartGrows DEF Checkpoint_Inv, Checkpoint_Earned
        <3>8. n1 \in Nat /\ n1 + y <= e
            BY <3>2, <3>5, <3>6, <3>7 DEF Capped, Cap, saturating_sub
        <3>9. store' = [acc |-> store.acc, stake |-> store.stake, debt |-> d] /\
                  past' = [base |-> past.base, paid |-> p]
            BY <1>2, <3>4 DEF Checkpoint_Inv, Checkpoint_Types
        <3>10. /\ d \in [Address -> Nat] /\ p \in [Address -> Nat]
               /\ \A w \in Address : d[w] = IF w = u THEN e ELSE store.debt[w]
               /\ \A w \in Address : p[w] = IF w = u THEN n1 ELSE past.paid[w]
            BY <1>2, <3>3, <3>5, <3>7, <3>8 DEF Checkpoint_Inv, Checkpoint_Types
        <3>11. Checkpoint_Types'
            BY <1>2, <3>9, <3>10 DEF Checkpoint_Inv, Checkpoint_Types
        <3>12. Checkpoint_Earned'
            BY <1>2, <3>1, <3>6, <3>8, <3>9, <3>10 DEF Checkpoint_Inv, Checkpoint_Earned
        <3> QED BY <3>11, <3>12 DEF Checkpoint_Inv
    <2> QED BY <2>1, <2>2, <2>3, <2>4, <2>5
<1>3. Checkpoint_Inv /\ UNCHANGED vars => Checkpoint_Inv'
    BY DEF Checkpoint_Inv, Checkpoint_Types, Checkpoint_Earned, vars
<1> QED BY <1>1, <1>2, <1>3


-----------------------------------------------------------------------------
(* collateral_factor_over_100.                                             *)
Factor_Types ==
    /\ store = [admin |-> store.admin, factor |-> store.factor, collateral |-> store.collateral,
                debt |-> store.debt]
    /\ store.factor \in 0..FULL
    /\ store.collateral \in [Address -> Int]
    /\ store.debt \in [Address -> Int]

\* Neither collateral nor debt is negative.
Factor_NoneNegative ==
    \A u \in Address : store.collateral[u] >= 0 /\ store.debt[u] >= 0

Factor_Inv == Factor_Types /\ Factor_NoneNegative /\ Factor_Covered

\* Every deployment is in Factor_Inv; a call of the corrected contract, or
\* none, stays in it.
LEMMA Factor_Correct ==
    /\ now = 0 /\ Factor_Init => Factor_Inv
    /\ Secure /\ Factor_Inv /\ Factor_Next => Factor_Inv'
    /\ Factor_Inv /\ UNCHANGED vars => Factor_Inv'
<1>1. now = 0 /\ Factor_Init => Factor_Inv
    BY DEF Factor_Init, Factor_Inv, Factor_Types, Factor_NoneNegative, Factor_Covered,
       Factor_get_position, Zero, FULL
<1>2. ASSUME Secure, Factor_Inv, Factor_Next PROVE Factor_Inv'
    <2>1. PICK u \in Address, n \in 0..2, f \in Factors :
              Factor_initialize(u, f) \/ Factor_set_collateral_factor(u, f) \/
              Factor_deposit_collateral(u, n) \/ Factor_borrow(u, n)
        BY <1>2, Zenon DEF Factor_Next, Lib, Secure
    <2>2. CASE Factor_initialize(u, f)
        <3>1. /\ store' = [admin |-> u, factor |-> f, collateral |-> store.collateral,
                           debt |-> store.debt]
              /\ past' = past
              /\ 0 < f
              /\ f <= FULL
              /\ store.admin = None
            BY <1>2, <2>2 DEF Factor_initialize, Factor_initialize_vulnerable, Write,
               Factor_Inv, Factor_Types
        <3> QED BY <1>2, <3>1, ContractAssumption DEF Factor_Inv, Factor_Types,
               Factor_NoneNegative, Factor_Covered, Factor_get_position, FULL, Factors
    <2>3. CASE Factor_set_collateral_factor(u, f)
        <3>1. /\ store' = [admin |-> store.admin, factor |-> f, collateral |-> store.collateral,
                           debt |-> store.debt]
              /\ past' = past
              /\ 0 < f
              /\ f <= FULL
              /\ store.admin = u
            BY <1>2, <2>3 DEF Factor_set_collateral_factor,
               Factor_set_collateral_factor_vulnerable, Write, Factor_Inv, Factor_Types
        <3> QED BY <1>2, <3>1, ContractAssumption DEF Factor_Inv, Factor_Types,
               Factor_NoneNegative, Factor_Covered, Factor_get_position, FULL, Factors
    <2>4. CASE Factor_deposit_collateral(u, n)
        <3>1. /\ store' = [admin |-> store.admin, factor |-> store.factor,
                           collateral |-> [store.collateral EXCEPT ![u] = @ + n],
                           debt |-> store.debt]
              /\ past' = past
              /\ n > 0
              /\ store.collateral[u] + n <= MaxDebt
            BY <1>2, <2>4 DEF Factor_deposit_collateral, Write, Factor_Inv, Factor_Types
        <3> QED BY <1>2, <3>1, ContractAssumption DEF Factor_Inv, Factor_Types,
               Factor_NoneNegative, Factor_Covered, Factor_get_position, FULL, Factors, MaxDebt
    <2>5. CASE Factor_borrow(u, n)
        <3>1. /\ store' = [admin |-> store.admin, factor |-> store.factor,
                           collateral |-> store.collateral,
                           debt |-> [store.debt EXCEPT ![u] = @ + n]]
              /\ past' = past
              /\ n > 0
              /\ store.collateral[u] * store.factor >= (store.debt[u] + n) * FULL
            BY <1>2, <2>5 DEF Factor_borrow, Write, Factor_Inv, Factor_Types
        <3> QED BY <1>2, <3>1, ContractAssumption DEF Factor_Inv, Factor_Types,
               Factor_NoneNegative, Factor_Covered, Factor_get_position, FULL, Factors
    <2> QED BY <2>1, <2>2, <2>3, <2>4, <2>5
<1>3. Factor_Inv /\ UNCHANGED vars => Factor_Inv'
    BY DEF Factor_Inv, Factor_Types, Factor_NoneNegative, Factor_Covered, vars,
       Factor_get_position
<1> QED BY <1>1, <1>2, <1>3

-----------------------------------------------------------------------------
(* uncapped_rate.                                                          *)
Uncapped_Types ==
    /\ now \in Nat
    /\ store = [admin |-> store.admin, rate |-> store.rate, stake |-> store.stake,
                staked_at |-> store.staked_at]
    /\ store.rate \in Nat
    /\ store.stake \in [Address -> Nat]
    /\ store.staked_at \in [Address -> Nat]
    /\ past \in [by_admin : BOOLEAN, over : BOOLEAN]

\* A rate the admin set is within the cap.
Uncapped_AdminWithinCap ==
    past.by_admin => store.rate <= RATE_CAP

\* No stake is dated in the future.
Uncapped_NotAhead ==
    \A u \in Address : store.staked_at[u] <= now

Uncapped_Inv == Uncapped_Types /\ Uncapped_AdminWithinCap /\ Uncapped_NotAhead /\
    Uncapped_PaysWithinCap

\* Every deployment is in Uncapped_Inv; a call of the corrected contract, or
\* none, stays in it.
LEMMA Uncapped_Correct ==
    /\ now = 0 /\ Uncapped_Init => Uncapped_Inv
    /\ Secure /\ Uncapped_Inv /\ Uncapped_Next => Uncapped_Inv'
    /\ Uncapped_Inv /\ UNCHANGED vars => Uncapped_Inv'
<1>1. now = 0 /\ Uncapped_Init => Uncapped_Inv
    BY DEF Uncapped_Init, Uncapped_Inv, Uncapped_Types, Uncapped_AdminWithinCap, Uncapped_NotAhead,
       Uncapped_PaysWithinCap, Zero
<1>2. ASSUME Secure, Uncapped_Inv, Uncapped_Next PROVE Uncapped_Inv'
    <2>1. PICK u \in Solo, n \in 0..2 :
              Uncapped_initialize(u, n) \/ Uncapped_update_rate(n) \/ Uncapped_stake(u, n) \/
              Uncapped_claim_rewards(u) \/ CloseLedger
        BY <1>2, Zenon DEF Uncapped_Next, Lib, Secure
    <2>2. CASE Uncapped_initialize(u, n)
        <3>1. /\ store' = [admin |-> u, rate |-> n, stake |-> store.stake,
                           staked_at |-> store.staked_at]
              /\ past' = [by_admin |-> FALSE, over |-> past.over]
              /\ now' = now
            BY <1>2, <2>2 DEF Uncapped_initialize, WriteAnd, Uncapped_Inv, Uncapped_Types
        <3> QED BY <1>2, <3>1, ContractAssumption, SoloAccount DEF Uncapped_Inv, Uncapped_Types,
               Uncapped_AdminWithinCap, Uncapped_NotAhead, Uncapped_PaysWithinCap, RATE_CAP
    <2>3. CASE Uncapped_update_rate(n)
        <3>1. /\ store' = [admin |-> store.admin, rate |-> n, stake |-> store.stake,
                           staked_at |-> store.staked_at]
              /\ past' = [by_admin |-> TRUE, over |-> past.over]
              /\ now' = now
              /\ n <= RATE_CAP
              /\ Uncapped_require_admin
            BY <1>2, <2>3 DEF Uncapped_update_rate, Uncapped_update_rate_lib, WriteAnd,
               Uncapped_Inv, Uncapped_Types
        <3> QED BY <1>2, <3>1, ContractAssumption, SoloAccount DEF Uncapped_Inv, Uncapped_Types,
               Uncapped_AdminWithinCap, Uncapped_NotAhead, Uncapped_PaysWithinCap, RATE_CAP,
               Uncapped_require_admin
    <2>4. CASE Uncapped_stake(u, n)
        <3>1. /\ store' = [admin |-> store.admin, rate |-> store.rate,
                           stake |-> [store.stake EXCEPT ![u] = n],
                           staked_at |-> [store.staked_at EXCEPT ![u] = now]]
              /\ past' = past
              /\ now' = now
            BY <1>2, <2>4 DEF Uncapped_stake, Write, Uncapped_Inv, Uncapped_Types
        <3> QED BY <1>2, <3>1, ContractAssumption, SoloAccount DEF Uncapped_Inv, Uncapped_Types,
               Uncapped_AdminWithinCap, Uncapped_NotAhead, Uncapped_PaysWithinCap, RATE_CAP
    <2>5. CASE Uncapped_claim_rewards(u)
        <3>1. /\ store' = [admin |-> store.admin, rate |-> store.rate, stake |-> store.stake,
                           staked_at |-> [store.staked_at EXCEPT ![u] = now]]
              /\ past' = [by_admin |-> past.by_admin, over |-> past.over \/
                          (past.by_admin /\
                           (Uncapped_staked_amount(u) * (now - store.staked_at[u])) * Uncapped_current_rate >
                           (Uncapped_staked_amount(u) * (now - store.staked_at[u])) * RATE_CAP)]
              /\ now' = now
            BY <1>2, <2>5 DEF Uncapped_claim_rewards, WriteAnd, Uncapped_Inv, Uncapped_Types
        <3> QED BY <1>2, <3>1, ContractAssumption, SoloAccount DEF Uncapped_Inv, Uncapped_Types,
               Uncapped_AdminWithinCap, Uncapped_NotAhead, Uncapped_PaysWithinCap, RATE_CAP,
               Uncapped_staked_amount, Uncapped_current_rate
    <2>6. CASE CloseLedger
        <3>1. /\ store' = store
              /\ past' = past
              /\ now' = now + 1
            BY <1>2, <2>6 DEF CloseLedger, Uncapped_Inv, Uncapped_Types
        <3> QED BY <1>2, <3>1, ContractAssumption, SoloAccount DEF Uncapped_Inv, Uncapped_Types,
               Uncapped_AdminWithinCap, Uncapped_NotAhead, Uncapped_PaysWithinCap, RATE_CAP
    <2> QED BY <2>1, <2>2, <2>3, <2>4, <2>5, <2>6
<1>3. Uncapped_Inv /\ UNCHANGED vars => Uncapped_Inv'
    BY DEF Uncapped_Inv, Uncapped_Types, Uncapped_AdminWithinCap, Uncapped_NotAhead,
       Uncapped_PaysWithinCap, vars
<1> QED BY <1>1, <1>2, <1>3

-----------------------------------------------------------------------------
(* borrow_cap_asset_mixup.                                                 *)
Mixup_Types ==
    /\ store \in [cap : [Mixup_Assets \cup {Mixup_Any} -> Int \cup {None}],
                  total : [Mixup_Assets \cup {Mixup_Any} -> Int]]
    /\ past \in [cap : [Mixup_Assets -> Int \cup {None}], loans : [Mixup_Assets -> Int]]

\* Cap and total on record are those of the asset itself.
Mixup_SameBooks ==
    \A a \in Mixup_Assets : store.cap[a] = past.cap[a] /\ store.total[a] = past.loans[a]

Mixup_Inv == Mixup_Types /\ Mixup_SameBooks

\* Every deployment is in Mixup_Inv; a call of the corrected contract, or none,
\* stays in it.
LEMMA Mixup_Correct ==
    /\ now = 0 /\ Mixup_Init => Mixup_Inv
    /\ Secure /\ Mixup_Inv /\ Mixup_Next => Mixup_Inv' /\ Mixup_LoansWithinOwnCap
    /\ Mixup_Inv /\ UNCHANGED vars => Mixup_Inv' /\ Mixup_LoansWithinOwnCap
<1>1. now = 0 /\ Mixup_Init => Mixup_Inv
    BY ContractAssumption DEF Mixup_Init, Mixup_Inv, Mixup_Types, Mixup_SameBooks, Mixup_Assets,
       Mixup_Init, Mixup_Any
<1>2. ASSUME Secure, Mixup_Inv, Mixup_Next PROVE Mixup_Inv' /\ Mixup_LoansWithinOwnCap
    <2>1. PICK asset \in Mixup_Assets, n \in {-1, 1}, cap \in 0..1 :
              Mixup_set_borrow_cap(asset, cap) \/ Mixup_borrow(asset, n)
        BY <1>2, Zenon DEF Mixup_Next, Lib, Secure
    <2>2. CASE Mixup_set_borrow_cap(asset, cap)
        <3>1. /\ store' = [cap |-> [store.cap EXCEPT ![asset] = cap], total |-> store.total]
              /\ past' = [cap |-> [past.cap EXCEPT ![asset] = cap], loans |-> past.loans]
            BY <1>2, <2>2 DEF Mixup_set_borrow_cap, Mixup_caps, WriteAnd, Mixup_Inv, Mixup_Types
        <3> QED BY <1>2, <3>1, ContractAssumption DEF Mixup_Inv, Mixup_Types, Mixup_SameBooks,
               Mixup_Assets, Mixup_LoansWithinOwnCap
    <2>3. CASE Mixup_borrow(asset, n)
        <3>1. /\ store' = [cap |-> store.cap,
                           total |-> [store.total EXCEPT ![asset] =
                                      (Mixup_get_total_borrowed(asset) + n)]]
              /\ past' = [cap |-> past.cap, loans |-> [past.loans EXCEPT ![asset] = @ + n]]
              /\ store.cap[asset] = None \/
                 (Mixup_get_total_borrowed(asset) + n) <= Mixup_get_borrow_cap(asset)
              /\ past.loans[asset] + n \in 0..2
            BY <1>2, <2>3 DEF Mixup_borrow, Mixup_borrows, WriteAnd, Mixup_Inv, Mixup_Types
        <3> QED BY <1>2, <3>1, ContractAssumption DEF Mixup_Inv, Mixup_Types, Mixup_SameBooks,
               Mixup_Assets, Mixup_get_total_borrowed, Mixup_get_borrow_cap,
               Mixup_LoansWithinOwnCap
    <2> QED BY <2>1, <2>2, <2>3
<1>3. Mixup_Inv /\ UNCHANGED vars => Mixup_Inv' /\ Mixup_LoansWithinOwnCap
    BY DEF Mixup_Inv, Mixup_Types, Mixup_LoansWithinOwnCap, Mixup_SameBooks, vars
<1> QED BY <1>1, <1>2, <1>3

-----------------------------------------------------------------------------
(* collateral_withdraw_no_health_check.                                    *)
\* More collateral never lowers the borrow limit, and none gives none.
LEMMA Health_LimitGrows ==
    /\ \A c \in Int : Health_borrow_limit(c) \in Int
    /\ \A c \in Int, d \in Int : c <= d => Health_borrow_limit(c) <= Health_borrow_limit(d)
    /\ Health_borrow_limit(0) = 0
BY DEF Health_borrow_limit, Quotient

Health_Types ==
    /\ store \in [collateral : [Address -> Int], debt : [Address -> Int]]
    /\ past \in [taken : SUBSET Address]

Health_Inv == Health_Types /\ Health_DebtIsCovered

\* Every deployment is in Health_Inv; a call of the corrected contract, or
\* none, stays in it.
LEMMA Health_Correct ==
    /\ now = 0 /\ Health_Init => Health_Inv
    /\ Secure /\ Health_Inv /\ Health_Next => Health_Inv'
    /\ Health_Inv /\ UNCHANGED vars => Health_Inv'
<1>1. now = 0 /\ Health_Init => Health_Inv
    <2> SUFFICES ASSUME Health_Init PROVE Health_Inv
        OBVIOUS
    <2>1. Health_Types /\ \A u \in Address : store.collateral[u] = 0 /\ store.debt[u] = 0
        BY DEF Health_Init, Health_Types, Zero
    <2> QED BY <2>1, Health_LimitGrows DEF Health_Inv, Health_DebtIsCovered, Health_position
<1>2. ASSUME Secure, Health_Inv, Health_Next PROVE Health_Inv'
    <2>1. PICK u \in Solo, n \in {-2, -1, 1, 2} :
              Health_deposit(u, n) \/ Health_borrow(u, n) \/ Health_withdraw(u, n)
        BY <1>2, Zenon DEF Health_Next, Lib, Secure
    <2>2. CASE Health_deposit(u, n)
        <3>1. /\ store' = [collateral |-> [store.collateral EXCEPT ![u] = @ + n],
                           debt |-> store.debt]
              /\ past' = [taken |-> IF n < 0 THEN past.taken \cup {u} ELSE past.taken]
              /\ store.collateral[u] + n \in -HealthBound..HealthBound
            BY <1>2, <2>2 DEF Health_deposit, WriteAnd, Health_Inv, Health_Types
        <3> QED BY <1>2, <3>1, ContractAssumption, SoloAccount, Health_LimitGrows DEF
               Health_Inv, Health_Types, Health_DebtIsCovered, Health_position, Quotient,
               HealthBound
    <2>3. CASE Health_borrow(u, n)
        <3>1. /\ store' = [collateral |-> store.collateral,
                           debt |-> [store.debt EXCEPT ![u] = (store.debt[u] + n)]]
              /\ past' = past
              /\ Health_assert_healthy(store.collateral[u], store.debt[u] + n)
              /\ (store.debt[u] + n) \in -HealthBound..HealthBound
            BY <1>2, <2>3 DEF Health_borrow, Health_set_debt, Write, Health_Inv, Health_Types
        <3> QED BY <1>2, <3>1, ContractAssumption, SoloAccount, Health_LimitGrows DEF
               Health_Inv, Health_Types, Health_DebtIsCovered, Health_position, Quotient,
               Health_assert_healthy, HealthBound
    <2>4. CASE Health_withdraw(u, n)
        <3>1. /\ store' =
                 [collateral |-> [store.collateral EXCEPT ![u] = (store.collateral[u] - n)],
                           debt |-> store.debt]
              /\ past' = past
              /\ Health_assert_healthy(store.collateral[u] - n, store.debt[u])
              /\ store.collateral[u] >= n
              /\ (store.collateral[u] - n) \in -HealthBound..HealthBound
            BY <1>2, <2>4 DEF Health_withdraw, Health_withdraw_lib, Health_set_collateral,
               Write, Health_Inv, Health_Types
        <3> QED BY <1>2, <3>1, ContractAssumption, SoloAccount, Health_LimitGrows DEF
               Health_Inv, Health_Types, Health_DebtIsCovered, Health_position, Quotient,
               Health_assert_healthy, HealthBound
    <2> QED BY <2>1, <2>2, <2>3, <2>4
<1>3. Health_Inv /\ UNCHANGED vars => Health_Inv'
    BY DEF Health_Inv, Health_Types, Health_DebtIsCovered, vars, Health_position
<1> QED BY <1>1, <1>2, <1>3

-----------------------------------------------------------------------------
(* mixed_collateral_decimals.                                              *)
Mixed_Types ==
    /\ store \in [price : [Symbols -> 0..2], decimals : [Symbols -> 0..1], collateral : Int,
                  debt : Int]
    /\ past \in [worth : Int]

\* The debt is within the collateral on record, which is worth no more than
\* what was deposited, in base units.
Mixed_CollateralIsWorth ==
    store.debt <= store.collateral /\ store.collateral * BASE <= past.worth

Mixed_Inv == Mixed_Types /\ Mixed_CollateralIsWorth /\ Mixed_DebtIsCovered

\* Every deployment is in Mixed_Inv; a call of the corrected contract, or none,
\* stays in it.
LEMMA Mixed_Correct ==
    /\ now = 0 /\ Mixed_Init => Mixed_Inv
    /\ Secure /\ Mixed_Inv /\ Mixed_Next => Mixed_Inv'
    /\ Mixed_Inv /\ UNCHANGED vars => Mixed_Inv'
<1>1. now = 0 /\ Mixed_Init => Mixed_Inv
    BY ContractAssumption DEF Mixed_Init, Mixed_Inv, Mixed_Types, Mixed_CollateralIsWorth,
       Mixed_DebtIsCovered, BASE, Mixed_DebtIsCovered, Mixed_get_debt, MaxDebt, Symbols,
       Mixed_Init
<1>2. ASSUME Secure, Mixed_Inv, Mixed_Next PROVE Mixed_Inv'
    <2>1. PICK t \in Symbols, n \in 1..2, price \in 1..2, decimals \in 0..1 :
              Mixed_register_token(t, price, decimals) \/ Mixed_deposit(t, n) \/
              Mixed_borrow(n - 1) \/ Mixed_borrow(-1)
        BY <1>2, Zenon DEF Mixed_Next, Lib, Secure
    <2>2. CASE Mixed_register_token(t, price, decimals)
        <3>1. /\ store' = [price |-> [store.price EXCEPT ![t] = price],
                           decimals |-> [store.decimals EXCEPT ![t] = decimals],
                           collateral |-> store.collateral, debt |-> store.debt]
              /\ past' = past
            BY <1>2, <2>2 DEF Mixed_register_token, Write, Mixed_Inv, Mixed_Types
        <3> QED BY <1>2, <3>1, ContractAssumption DEF Mixed_Inv, Mixed_Types,
               Mixed_CollateralIsWorth, Mixed_DebtIsCovered, BASE, Mixed_get_debt, MaxDebt,
               Symbols
    <2>3. CASE Mixed_deposit(t, n)
        <3>1. PICK p \in 0..2, d \in 0..1 : p = store.price[t] /\ d = store.decimals[t]
            BY <1>2 DEF Mixed_Inv, Mixed_Types
        <3>2. PICK c, g : c = to_usd(n, p, d) /\ g = n * p * BASE^(1 - d)
            OBVIOUS
        <3>3. c \in Int /\ g \in Int /\ c * BASE <= g /\ g >= 0
            <4>1. n * p \in 0..4
                BY <3>1
            <4>2. CASE d = 0
                <5>1. BASE^d = 1 /\ BASE^(1 - d) = 2
                    BY <4>2 DEF BASE
                <5>2. PICK x \in 0..4 : x = n * p
                    BY <4>1
                <5> QED BY <3>2, <5>1, <5>2 DEF to_usd, Quotient, BASE
            <4>3. CASE d = 1
                <5>1. BASE^d = 2 /\ BASE^(1 - d) = 1
                    BY <4>3 DEF BASE
                <5>2. PICK x \in 0..4 : x = n * p
                    BY <4>1
                <5> QED BY <3>2, <5>1, <5>2 DEF to_usd, Quotient, BASE
            <4> QED BY <4>2, <4>3
        <3>4. store' = [store EXCEPT !.collateral = store.collateral + c] /\
                  past' = [past EXCEPT !.worth = Capped(past.worth + g)] /\
                  store.collateral + c <= MaxDebt
            BY <2>3, <3>1, <3>2 DEF Mixed_deposit, Mixed_deposits, WriteAnd
        <3>5. /\ store' = [price |-> store.price, decimals |-> store.decimals,
                           collateral |-> store.collateral + c, debt |-> store.debt]
              /\ past' = [worth |-> Capped(past.worth + g)]
            BY <1>2, <3>4 DEF Mixed_Inv, Mixed_Types
        <3>6. store.collateral \in Int /\ store.debt \in Int /\ past.worth \in Int /\
                  store.debt <= store.collateral /\ store.collateral * 2 <= past.worth
              /\ store.debt * 2 <= past.worth
            BY <1>2 DEF Mixed_Inv, Mixed_Types, Mixed_CollateralIsWorth, Mixed_DebtIsCovered,
               Mixed_get_debt, BASE
        <3>7. c >= 0
            <4>1. CASE d = 0
                <5>1. BASE^d = 1 /\ n * p \in 0..4
                    BY <3>1, <4>1 DEF BASE
                <5> QED BY <3>2, <5>1 DEF to_usd, Quotient
            <4>2. CASE d = 1
                <5>1. BASE^d = 2 /\ n * p \in 0..4
                    BY <3>1, <4>2 DEF BASE
                <5> QED BY <3>2, <5>1 DEF to_usd, Quotient
            <4> QED BY <4>1, <4>2
        <3>8. (store.collateral + c) * 2 <= Capped(past.worth + g) /\ Capped(past.worth + g) \in Int
            BY <3>3, <3>4, <3>6 DEF Capped, Cap, MaxDebt, BASE
        <3>9. Mixed_Types'
            BY <1>2, <3>3, <3>5, <3>6, <3>8 DEF Mixed_Inv, Mixed_Types
        <3>10. Mixed_CollateralIsWorth'
            BY <3>3, <3>5, <3>6, <3>7, <3>8 DEF Mixed_CollateralIsWorth, BASE
        <3>11. Mixed_DebtIsCovered'
            BY <3>3, <3>5, <3>6, <3>7, <3>8 DEF Mixed_DebtIsCovered, Mixed_get_debt, BASE
        <3> QED BY <3>9, <3>10, <3>11 DEF Mixed_Inv
    <2>4. CASE Mixed_borrow(n - 1)
        <3>1. /\ store' = [price |-> store.price, decimals |-> store.decimals,
                           collateral |-> store.collateral, debt |-> store.debt + (n - 1)]
              /\ past' = past
              /\ store.collateral >= store.debt + (n - 1)
              /\ store.debt + (n - 1) >= -1
            BY <1>2, <2>4 DEF Mixed_borrow, Write, Mixed_Inv, Mixed_Types
        <3> QED BY <1>2, <3>1, ContractAssumption DEF Mixed_Inv, Mixed_Types,
               Mixed_CollateralIsWorth, Mixed_DebtIsCovered, BASE, Mixed_get_debt, MaxDebt,
               Symbols
    <2>5. CASE Mixed_borrow(-1)
        <3>1. /\ store' = [price |-> store.price, decimals |-> store.decimals,
                           collateral |-> store.collateral, debt |-> store.debt + -1]
              /\ past' = past
              /\ store.collateral >= store.debt + -1
              /\ store.debt + -1 >= -1
            BY <1>2, <2>5 DEF Mixed_borrow, Write, Mixed_Inv, Mixed_Types
        <3> QED BY <1>2, <3>1, ContractAssumption DEF Mixed_Inv, Mixed_Types,
               Mixed_CollateralIsWorth, Mixed_DebtIsCovered, BASE, Mixed_get_debt, MaxDebt,
               Symbols
    <2> QED BY <2>1, <2>2, <2>3, <2>4, <2>5
<1>3. Mixed_Inv /\ UNCHANGED vars => Mixed_Inv'
    BY DEF Mixed_Inv, Mixed_Types, Mixed_CollateralIsWorth, Mixed_DebtIsCovered, vars,
       Mixed_get_debt
<1> QED BY <1>1, <1>2, <1>3

-----------------------------------------------------------------------------
(* repay_for_reward_grief.                                                 *)
Grief_Types ==
    /\ now \in Nat
    /\ store = [admin |-> store.admin, rate |-> store.rate, debt |-> store.debt,
                accrued |-> store.accrued, checkpoint |-> store.checkpoint]
    /\ store.rate \in Nat
    /\ store.debt \in [Address -> Int]
    /\ store.accrued \in [Address -> Int]
    /\ store.checkpoint \in [Address -> Nat \cup {None}]

Grief_Inv == Grief_Types

\* Every deployment is in Grief_Inv; a call of the corrected contract, or none,
\* stays in it.
LEMMA Grief_Correct ==
    /\ now = 0 /\ Grief_Init => Grief_Inv
    /\ Secure /\ Grief_Inv /\ Grief_Next => Grief_Inv' /\ Grief_RepaymentKeepsReward
    /\ Grief_Inv /\ UNCHANGED vars => Grief_Inv' /\ Grief_RepaymentKeepsReward
<1>1. now = 0 /\ Grief_Init => Grief_Inv
    BY DEF Grief_Init, Grief_Inv, Grief_Types, Zero
<1>2. ASSUME Secure, Grief_Inv, Grief_Next PROVE Grief_Inv' /\ Grief_RepaymentKeepsReward
    <2>1. PICK u \in Solo, n \in 0..2 :
              Grief_initialize(u, n) \/ Grief_borrow(u, n) \/ Grief_repay_for(u, n) \/
              Grief_claim_rewards(u) \/ CloseLedger
        BY <1>2, Zenon DEF Grief_Next, Lib, Secure
    <2>2. CASE Grief_initialize(u, n)
        <3>1. /\ store' = [admin |-> u, rate |-> n, debt |-> store.debt, accrued |-> store.accrued,
                           checkpoint |-> store.checkpoint]
              /\ past' = past
              /\ now' = now
              /\ store.admin = None
              /\ n > 0
            BY <1>2, <2>2 DEF Grief_initialize, Write, Grief_Inv, Grief_Types
        <3> QED BY <1>2, <3>1, ContractAssumption, SoloAccount DEF Grief_Inv, Grief_Types,
               MaxDebt, Grief_RepaymentKeepsReward, Grief_get_reward_checkpoint
    <2>3. CASE Grief_borrow(u, n)
        <3>1. /\ store' = [admin |-> store.admin, rate |-> store.rate,
                           debt |-> [store.debt EXCEPT ![u] = @ + n], accrued |-> store.accrued,
                           checkpoint |-> [store.checkpoint EXCEPT ![u] = now]]
              /\ past' = past
              /\ now' = now
              /\ n > 0
              /\ store.debt[u] + n <= MaxDebt
            BY <1>2, <2>3 DEF Grief_borrow, Write, Grief_Inv, Grief_Types
        <3> QED BY <1>2, <3>1, ContractAssumption, SoloAccount DEF Grief_Inv, Grief_Types,
               MaxDebt, Grief_RepaymentKeepsReward, Grief_get_reward_checkpoint
    <2>4. CASE Grief_repay_for(u, n)
        <3>1. /\ u \in Address /\ now \in Nat /\ n \in Int /\ n > 0 /\ store.rate \in Nat /\
                 store.debt \in [Address -> Int] /\ store.accrued \in [Address -> Int]
              /\ store.checkpoint \in [Address -> Nat \cup {None}]
            BY <1>2, <2>4, SoloAccount DEF Grief_repay_for, Grief_Inv, Grief_Types
        <3>2. PICK r : r = Grief_Claimable(u)
            OBVIOUS
        <3>3. r \in Int
            <4>1. PICK a \in Int, d \in Int, x \in Nat :
                      a = store.accrued[u] /\ d = store.debt[u] /\ x = store.rate
                BY <3>1
            <4>2. PICK t \in Int : t = now - Grief_get_reward_checkpoint(u)
                BY <3>1 DEF Grief_get_reward_checkpoint
            <4>3. a + d * x * t \in Int
                OBVIOUS
            <4> QED BY <3>2, <4>1, <4>2, <4>3 DEF Grief_Claimable
        <3>4. PICK a, d, c :
                  a = [store.accrued EXCEPT ![u] = r] /\
                  d = [store.debt EXCEPT ![u] = store.debt[u] - n] /\
                  c = [store.checkpoint EXCEPT ![u] = now]
            OBVIOUS
        <3>5. store' = [store EXCEPT !.accrued = a, !.debt = d, !.checkpoint = c] /\ past' = past /\
                  now' = now
            BY <2>4, <3>2, <3>4 DEF Grief_repay_for, Write
        <3>6. store' = [admin |-> store.admin, rate |-> store.rate, debt |-> d, accrued |-> a,
                        checkpoint |-> c]
            BY <1>2, <3>5 DEF Grief_Inv, Grief_Types
        <3>7. /\ d \in [Address -> Int] /\
                 \A w \in Address : d[w] = IF w = u THEN store.debt[u] - n ELSE store.debt[w]
              /\ a \in [Address -> Int] /\ a[u] = r
              /\ c \in [Address -> Nat \cup {None}] /\ c[u] = now
            BY <3>1, <3>3, <3>4
        <3>8. Grief_Types'
            BY <3>1, <3>5, <3>6, <3>7 DEF Grief_Types
        <3>9. Grief_Claimable(u)' = r
            <4>1. PICK x \in Int, y \in Int : x = d[u] /\ y = store.rate
                BY <3>1, <3>7
            <4>2. now - now = 0 /\ x * y * 0 = 0
                BY <3>1
            <4>3. Grief_Claimable(u)' =
                      a[u] + d[u] * store.rate * (now - (IF c[u] = None THEN now ELSE c[u]))
                BY <3>5, <3>6 DEF Grief_Claimable, Grief_get_reward_checkpoint
            <4> QED BY <3>3, <3>7, <4>1, <4>2, <4>3
        <3>10. \A w \in Address : store'.debt[w] < store.debt[w] => w = u
            BY <3>1, <3>6, <3>7
        <3>11. Grief_RepaymentKeepsReward
            BY <3>2, <3>9, <3>10 DEF Grief_RepaymentKeepsReward
        <3> QED BY <3>8, <3>11 DEF Grief_Inv
    <2>5. CASE Grief_claim_rewards(u)
        <3>1. /\ store' = [admin |-> store.admin, rate |-> store.rate, debt |-> store.debt,
                           accrued |-> [store.accrued EXCEPT ![u] = 0],
                           checkpoint |-> [store.checkpoint EXCEPT ![u] = now]]
              /\ past' = past
              /\ now' = now
            BY <1>2, <2>5 DEF Grief_claim_rewards, Write, Grief_Inv, Grief_Types
        <3> QED BY <1>2, <3>1, ContractAssumption, SoloAccount DEF Grief_Inv, Grief_Types,
               MaxDebt, Grief_RepaymentKeepsReward, Grief_get_reward_checkpoint
    <2>6. CASE CloseLedger
        <3>1. /\ store' = store
              /\ past' = past
              /\ now' = now + 1
            BY <1>2, <2>6 DEF CloseLedger, Grief_Inv, Grief_Types
        <3> QED BY <1>2, <3>1, ContractAssumption, SoloAccount DEF Grief_Inv, Grief_Types,
               MaxDebt, Grief_RepaymentKeepsReward, Grief_get_reward_checkpoint
    <2> QED BY <2>1, <2>2, <2>3, <2>4, <2>5, <2>6
<1>3. Grief_Inv /\ UNCHANGED vars => Grief_Inv' /\ Grief_RepaymentKeepsReward
    BY DEF Grief_Inv, Grief_Types, Grief_RepaymentKeepsReward, vars, Grief_Claimable,
       Grief_get_reward_checkpoint
<1> QED BY <1>1, <1>2, <1>3


-----------------------------------------------------------------------------
(* interest_index_reset.                                                   *)
\* Accruing raises the index or leaves it, and touches no debt.
LEMMA Index_Accrued ==
    ASSUME NEW s, now \in Nat, s.index \in Nat, s.last \in Nat, s.last <= now,
           s = [supply |-> s.supply, index |-> s.index, last |-> s.last, debt |-> s.debt,
                total_debt |-> s.total_debt]
    PROVE  \E i \in Nat, l \in Nat :
              /\ Index_accrue_index(s) = [supply |-> s.supply, index |-> i, last |-> l,
                                          debt |-> s.debt,
                                          total_debt |-> s.total_debt]
              /\ i >= s.index /\ l <= now
<1>1. CASE now <= s.last
    <2>1. Index_accrue_index(s) = s
        BY <1>1 DEF Index_accrue_index
    <2> QED BY <2>1
<1>2. CASE ~(now <= s.last)
    <2>1. PICK t \in Nat : t = now - s.last
        BY <1>2
    <2>2. PICK x \in Nat : x = s.index * t
        BY <2>1
    <2>3. PICK i \in Nat : i = s.index + x \div 2 /\ i >= s.index
        BY <2>2
    <2>4. Index_accrue_index(s) = [s EXCEPT !.index = i, !.last = now]
        BY <1>2, <2>1, <2>2, <2>3 DEF Index_accrue_index
    <2>5. Index_accrue_index(s) = [supply |-> s.supply, index |-> i, last |-> now, debt |-> s.debt,
                                   total_debt |-> s.total_debt]
        BY <2>4
    <2> QED BY <2>3, <2>5
<1> QED BY <1>1, <1>2

\* With a larger share and a larger index the rounded debt is no smaller.
LEMMA Index_ValueGrows ==
    ASSUME NEW d \in [Address -> Nat], NEW e \in [Address -> Nat], NEW i \in Nat, NEW j \in Nat,
        i <= j,
           \A v \in Address : d[v] <= e[v]
    PROVE  \A v \in Address : (e[v] * j) \div INDEX_SCALE >= (d[v] * i) \div INDEX_SCALE
<1> SUFFICES ASSUME NEW v \in Address
        PROVE (e[v] * j) \div INDEX_SCALE >= (d[v] * i) \div INDEX_SCALE
    OBVIOUS
<1>1. PICK x \in Nat, y \in Nat : x = d[v] /\ y = e[v] /\ x <= y
    OBVIOUS
<1>2. x * i <= y * j /\ x * i \in Nat /\ y * j \in Nat
    <2>1. PICK p \in Nat, q \in Nat : p = y - x /\ q = j - i
        BY <1>1
    <2>2. y = x + p /\ j = i + q
        BY <1>1, <2>1
    <2>3. x * i \in Nat /\ x * q \in Nat /\ p * i \in Nat /\ p * q \in Nat
        OBVIOUS
    <2>4. (x + p) * (i + q) = x * i + x * q + p * i + p * q
        OBVIOUS
    <2> QED BY <2>2, <2>3, <2>4
<1>3. INDEX_SCALE \in Nat \ {0}
    BY DEF INDEX_SCALE
<1>4. (x * i) \div INDEX_SCALE <= (y * j) \div INDEX_SCALE
    BY <1>2, <1>3, DivGrows
<1>5. (x * i) \div INDEX_SCALE \in Int /\ (y * j) \div INDEX_SCALE \in Int
    BY <1>2 DEF INDEX_SCALE
<1> QED BY <1>1, <1>4, <1>5

Index_Types ==
    /\ now \in Nat
    /\ store \in [supply : Int, index : Nat, last : Nat, debt : [Address -> Nat], total_debt : Int]
    /\ past \in [flip : BOOLEAN]

\* The last accrual is not in the future.
Index_NotAhead ==
    store.last <= now

\* The total debt is the sum of the debts.
Index_TotalIsSum ==
    store.total_debt = SumFunction(store.debt)

Index_Inv == Index_Types /\ Index_NotAhead /\ Index_TotalIsSum

\* Every deployment is in Index_Inv; a call of the corrected contract, or none,
\* stays in it.
LEMMA Index_Correct ==
    /\ now = 0 /\ Index_Init => Index_Inv
    /\ Secure /\ Index_Inv /\ Index_Next => Index_Inv' /\ Index_DebtKeepsGrowing
    /\ Index_Inv /\ UNCHANGED vars => Index_Inv' /\ Index_DebtKeepsGrowing
<1>1. now = 0 /\ Index_Init => Index_Inv
    <2>1. Zero \in [Address -> Nat] /\ SumFunction(Zero) = 0
        BY ZeroSum DEF Zero
    <2> QED BY <2>1
           DEF Index_Init, Index_Inv, Index_Types, Index_NotAhead, Index_TotalIsSum, INDEX_SCALE
<1>2. ASSUME Secure, Index_Inv, Index_Next PROVE Index_Inv' /\ Index_DebtKeepsGrowing
    <2>1. PICK u \in Solo, n \in -1..2 :
              Index_initialize(n) \/ Index_borrow(u, n) \/ Index_deposit(n) \/ Index_withdraw(n) \/
              Index_borrow_index \/ CloseLedger
        BY <1>2, Zenon DEF Index_Next, Lib, Secure
    <2>2. CASE Index_initialize(n)
        <3>1. /\ now \in Nat /\ n \in Int /\
                 store = [supply |-> store.supply, index |-> store.index, last |-> store.last,
                          debt |-> store.debt,
                                        total_debt |-> store.total_debt]
              /\ store.debt \in [Address -> Nat] /\ store.total_debt \in Int /\
                 store.total_debt = SumFunction(store.debt)
              /\ past = [flip |-> past.flip] /\ past.flip \in BOOLEAN
            BY <1>2 DEF Index_Inv, Index_Types, Index_TotalIsSum
        <3>2. store' = [store EXCEPT !.supply = n, !.index = INDEX_SCALE, !.last = now] /\
                  past' = [flip |-> ~past.flip] /\ now' = now
            BY <2>2 DEF Index_initialize, WriteAnd
        <3>3. store' = [supply |-> n, index |-> INDEX_SCALE, last |-> now, debt |-> store.debt,
                        total_debt |-> store.total_debt]
            BY <3>1, <3>2
        <3>4. past' \in [flip : BOOLEAN] /\ past' # past
            <4>1. PICK f : f = ~past.flip
                OBVIOUS
            <4>2. f \in BOOLEAN /\ f # past.flip
                BY <3>1, <4>1, Zenon
            <4>3. past' = [flip |-> f]
                BY <3>2, <4>1, Zenon
            <4>4. past' \in [flip : BOOLEAN] /\ past'.flip = f
                BY <4>2, <4>3
            <4> QED BY <4>2, <4>4
        <3>5. Index_Types'
            BY <3>1, <3>2, <3>3, <3>4 DEF Index_Types, INDEX_SCALE
        <3>6. Index_NotAhead' /\ Index_TotalIsSum'
            BY <3>1, <3>2, <3>3 DEF Index_NotAhead, Index_TotalIsSum
        <3>7. Index_DebtKeepsGrowing
            BY <3>4, <3>6 DEF Index_DebtKeepsGrowing, Index_TotalIsSum
        <3> QED BY <3>5, <3>6, <3>7 DEF Index_Inv
    <2>3. CASE Index_borrow(u, n)
        <3>1. /\ now \in Nat /\ store.supply \in Int /\ store.index \in Nat /\ store.last \in Nat /\
                 store.last <= now
              /\ store.debt \in [Address -> Nat] /\ store.total_debt \in Int /\
                 store.total_debt = SumFunction(store.debt)
              /\ store = [supply |-> store.supply, index |-> store.index, last |-> store.last,
                          debt |-> store.debt,
                          total_debt |-> store.total_debt]
              /\ past \in [flip : BOOLEAN]
            BY <1>2 DEF Index_Inv, Index_Types, Index_NotAhead, Index_TotalIsSum
        <3>2. PICK i \in Nat, l \in Nat :
                /\ Index_accrue_index(store) = [supply |-> store.supply, index |-> i, last |-> l,
                                                debt |-> store.debt,
                                                total_debt |-> store.total_debt]
                /\ i >= store.index /\ l <= now
            BY <3>1, Index_Accrued

        <3>3. u \in Address /\ n \in Int /\ n > 0
            BY <2>3, SoloAccount DEF Index_borrow
        <3>4. PICK d : d = Added(store.debt, u, n)
            OBVIOUS
        <3>5. /\ d \in [Address -> Nat] /\ (\A v \in Address : d[v] >= store.debt[v]) /\
                 SumFunction(d) = store.total_debt + n
              /\ SumFunction(d) \in Int
            <4>1. store.debt \in [Address -> Int]
                BY <3>1
            <4>2. /\ d \in [Address -> Int] /\ SumFunction(store.debt) \in Int /\
                     SumFunction(d) = SumFunction(store.debt) + n
                  /\ \A v \in Address : d[v] = store.debt[v] + (IF v = u THEN n ELSE 0)
                BY <3>3, <3>4, <4>1, AddedTo
            <4> QED BY <3>1, <3>3, <4>2
        <3>6. /\ store' = [supply |-> store.supply - n, index |-> i, last |-> l, debt |-> d,
                           total_debt |-> store.total_debt + n]
              /\ past' = past /\ now' = now
            <4>1. PICK r : r = Index_accrue_index(store)
                OBVIOUS
            <4>2. store' = [r EXCEPT !.debt = [r.debt EXCEPT ![u] = r.debt[u] + n],
                            !.total_debt = r.total_debt + n, !.supply = r.supply - n]
                  /\ past' = past /\ now' = now
                BY <2>3, <4>1 DEF Index_borrow, Write
            <4>3. r.debt = store.debt /\ r.total_debt = store.total_debt /\ r.supply = store.supply
                BY <3>2, <4>1
            <4>4. d = [r.debt EXCEPT ![u] = r.debt[u] + n]
                BY <3>4, <4>3 DEF Added
            <4>5. store' = [r EXCEPT !.debt = d, !.total_debt = store.total_debt + n,
                            !.supply = store.supply - n]
                BY <4>2, <4>3, <4>4
            <4>6. r = [supply |-> store.supply, index |-> i, last |-> l, debt |-> store.debt,
                       total_debt |-> store.total_debt]
                BY <3>2, <4>1
            <4>7. PICK p, q : p = store.supply - n /\ q = store.total_debt + n
                OBVIOUS
            <4>8. store' = [r EXCEPT !.debt = d, !.total_debt = q, !.supply = p]
                BY <4>5, <4>7
            <4>9. store' = [supply |-> p, index |-> i, last |-> l, debt |-> d, total_debt |-> q]
                BY <4>6, <4>8
            <4> QED BY <4>2, <4>7, <4>9

        <3>7. Index_Types'
            BY <3>1, <3>2, <3>3, <3>5, <3>6 DEF Index_Types
        <3>8. Index_NotAhead' /\ Index_TotalIsSum'
            BY <3>1, <3>2, <3>3, <3>5, <3>6 DEF Index_NotAhead, Index_TotalIsSum
        <3>9. \A v \in Address : Index_debt_value(v)' >= Index_debt_value(v)
            <4>1. store'.index \in Nat /\ store'.index >= store.index /\
                      store'.debt \in [Address -> Nat]
                  /\ \A v \in Address : store'.debt[v] >= store.debt[v]
                BY <3>1, <3>2, <3>3, <3>5, <3>6
            <4> QED BY <3>1, <4>1, Index_ValueGrows DEF Index_debt_value
        <3>10. Index_DebtKeepsGrowing
            BY <3>8, <3>9 DEF Index_DebtKeepsGrowing, Index_TotalIsSum
        <3> QED BY <3>7, <3>8, <3>10 DEF Index_Inv
    <2>4. CASE Index_deposit(n)
        <3>1. /\ now \in Nat /\ store.supply \in Int /\ store.index \in Nat /\ store.last \in Nat /\
                 store.last <= now
              /\ store.debt \in [Address -> Nat] /\ store.total_debt \in Int /\
                 store.total_debt = SumFunction(store.debt)
              /\ store = [supply |-> store.supply, index |-> store.index, last |-> store.last,
                          debt |-> store.debt,
                          total_debt |-> store.total_debt]
              /\ past \in [flip : BOOLEAN]
            BY <1>2 DEF Index_Inv, Index_Types, Index_NotAhead, Index_TotalIsSum
        <3>2. PICK i \in Nat, l \in Nat :
                /\ Index_accrue_index(store) = [supply |-> store.supply, index |-> i, last |-> l,
                                                debt |-> store.debt,
                                                total_debt |-> store.total_debt]
                /\ i >= store.index /\ l <= now
            BY <3>1, Index_Accrued

        <3>6. PICK k \in Nat, m \in Nat :
                /\ store' = [supply |-> store.supply + n, index |-> k, last |-> m,
                             debt |-> store.debt, total_debt |-> store.total_debt]
                /\ k >= store.index /\ m <= now /\ past' = past /\ now' = now
            <4>1. CASE store.supply = 0 /\ store.total_debt > 0
                <5>1. PICK r : r = Index_accrue_index(store)
                    OBVIOUS
                <5>2. store' = [r EXCEPT !.supply = r.supply + n] /\ past' = past /\ now' = now
                    BY <2>4, <4>1, <5>1 DEF Index_deposit, Write
                <5> QED BY <3>2, <5>1, <5>2
            <4>2. CASE ~(store.supply = 0 /\ store.total_debt > 0)
                <5>1. store' = [store EXCEPT !.supply = store.supply + n] /\ past' = past /\
                          now' = now
                    BY <2>4, <4>2 DEF Index_deposit, Write
                <5>2. store' = [supply |-> store.supply + n, index |-> store.index,
                                last |-> store.last, debt |-> store.debt,
                                total_debt |-> store.total_debt]
                    BY <3>1, <5>1
                <5>3. store.index \in Nat /\ store.last \in Nat /\ store.index >= store.index /\
                          store.last <= now
                    BY <3>1
                <5> QED BY <5>1, <5>2, <5>3, Zenon
            <4> QED BY <4>1, <4>2

        <3>7. Index_Types'
            BY <3>1, <3>2, <3>6 DEF Index_Types
        <3>8. Index_NotAhead' /\ Index_TotalIsSum'
            BY <3>1, <3>2, <3>6 DEF Index_NotAhead, Index_TotalIsSum
        <3>9. \A v \in Address : Index_debt_value(v)' >= Index_debt_value(v)
            <4>1. store'.index \in Nat /\ store'.index >= store.index /\
                      store'.debt \in [Address -> Nat]
                  /\ \A v \in Address : store'.debt[v] >= store.debt[v]
                BY <3>1, <3>2, <3>6
            <4> QED BY <3>1, <4>1, Index_ValueGrows DEF Index_debt_value
        <3>10. Index_DebtKeepsGrowing
            BY <3>8, <3>9 DEF Index_DebtKeepsGrowing, Index_TotalIsSum
        <3> QED BY <3>7, <3>8, <3>10 DEF Index_Inv
    <2>5. CASE Index_withdraw(n)
        <3>1. /\ now \in Nat /\ store.supply \in Int /\ store.index \in Nat /\ store.last \in Nat /\
                 store.last <= now
              /\ store.debt \in [Address -> Nat] /\ store.total_debt \in Int /\
                 store.total_debt = SumFunction(store.debt)
              /\ store = [supply |-> store.supply, index |-> store.index, last |-> store.last,
                          debt |-> store.debt,
                          total_debt |-> store.total_debt]
              /\ past \in [flip : BOOLEAN]
            BY <1>2 DEF Index_Inv, Index_Types, Index_NotAhead, Index_TotalIsSum
        <3>2. PICK i \in Nat, l \in Nat :
                /\ Index_accrue_index(store) = [supply |-> store.supply, index |-> i, last |-> l,
                                                debt |-> store.debt,
                                                total_debt |-> store.total_debt]
                /\ i >= store.index /\ l <= now
            BY <3>1, Index_Accrued

        <3>6. /\ store' = [supply |-> store.supply - n, index |-> store.index, last |-> store.last,
                           debt |-> store.debt, total_debt |-> store.total_debt]
              /\ past' = past /\ now' = now
            BY <2>5, <3>1 DEF Index_withdraw, Write

        <3>7. Index_Types'
            BY <3>1, <3>2, <3>6 DEF Index_Types
        <3>8. Index_NotAhead' /\ Index_TotalIsSum'
            BY <3>1, <3>2, <3>6 DEF Index_NotAhead, Index_TotalIsSum
        <3>9. \A v \in Address : Index_debt_value(v)' >= Index_debt_value(v)
            <4>1. store'.index \in Nat /\ store'.index >= store.index /\
                      store'.debt \in [Address -> Nat]
                  /\ \A v \in Address : store'.debt[v] >= store.debt[v]
                BY <3>1, <3>2, <3>6
            <4> QED BY <3>1, <4>1, Index_ValueGrows DEF Index_debt_value
        <3>10. Index_DebtKeepsGrowing
            BY <3>8, <3>9 DEF Index_DebtKeepsGrowing, Index_TotalIsSum
        <3> QED BY <3>7, <3>8, <3>10 DEF Index_Inv
    <2>6. CASE Index_borrow_index
        <3>1. /\ now \in Nat /\ store.supply \in Int /\ store.index \in Nat /\ store.last \in Nat /\
                 store.last <= now
              /\ store.debt \in [Address -> Nat] /\ store.total_debt \in Int /\
                 store.total_debt = SumFunction(store.debt)
              /\ store = [supply |-> store.supply, index |-> store.index, last |-> store.last,
                          debt |-> store.debt,
                          total_debt |-> store.total_debt]
              /\ past \in [flip : BOOLEAN]
            BY <1>2 DEF Index_Inv, Index_Types, Index_NotAhead, Index_TotalIsSum
        <3>2. PICK i \in Nat, l \in Nat :
                /\ Index_accrue_index(store) = [supply |-> store.supply, index |-> i, last |-> l,
                                                debt |-> store.debt,
                                                total_debt |-> store.total_debt]
                /\ i >= store.index /\ l <= now
            BY <3>1, Index_Accrued

        <3>6. /\ store' = [supply |-> store.supply, index |-> i, last |-> l, debt |-> store.debt,
                           total_debt |-> store.total_debt]
              /\ past' = past /\ now' = now
            BY <2>6, <3>2 DEF Index_borrow_index, Write

        <3>7. Index_Types'
            BY <3>1, <3>2, <3>6 DEF Index_Types
        <3>8. Index_NotAhead' /\ Index_TotalIsSum'
            BY <3>1, <3>2, <3>6 DEF Index_NotAhead, Index_TotalIsSum
        <3>9. \A v \in Address : Index_debt_value(v)' >= Index_debt_value(v)
            <4>1. store'.index \in Nat /\ store'.index >= store.index /\
                      store'.debt \in [Address -> Nat]
                  /\ \A v \in Address : store'.debt[v] >= store.debt[v]
                BY <3>1, <3>2, <3>6
            <4> QED BY <3>1, <4>1, Index_ValueGrows DEF Index_debt_value
        <3>10. Index_DebtKeepsGrowing
            BY <3>8, <3>9 DEF Index_DebtKeepsGrowing, Index_TotalIsSum
        <3> QED BY <3>7, <3>8, <3>10 DEF Index_Inv
    <2>7. CASE CloseLedger
        <3>1. /\ now \in Nat /\ store.supply \in Int /\ store.index \in Nat /\ store.last \in Nat /\
                 store.last <= now
              /\ store.debt \in [Address -> Nat] /\ store.total_debt \in Int /\
                 store.total_debt = SumFunction(store.debt)
              /\ store = [supply |-> store.supply, index |-> store.index, last |-> store.last,
                          debt |-> store.debt,
                          total_debt |-> store.total_debt]
              /\ past \in [flip : BOOLEAN]
            BY <1>2 DEF Index_Inv, Index_Types, Index_NotAhead, Index_TotalIsSum
        <3>2. PICK i \in Nat, l \in Nat :
                /\ Index_accrue_index(store) = [supply |-> store.supply, index |-> i, last |-> l,
                                                debt |-> store.debt,
                                                total_debt |-> store.total_debt]
                /\ i >= store.index /\ l <= now
            BY <3>1, Index_Accrued

        <3>6. store' = store /\ past' = past /\ now' = now + 1
            BY <2>7 DEF CloseLedger

        <3>7. Index_Types'
            BY <3>1, <3>2, <3>6 DEF Index_Types
        <3>8. Index_NotAhead' /\ Index_TotalIsSum'
            BY <3>1, <3>2, <3>6 DEF Index_NotAhead, Index_TotalIsSum
        <3>9. \A v \in Address : Index_debt_value(v)' >= Index_debt_value(v)
            <4>1. store'.index \in Nat /\ store'.index >= store.index /\
                      store'.debt \in [Address -> Nat]
                  /\ \A v \in Address : store'.debt[v] >= store.debt[v]
                BY <3>1, <3>2, <3>6
            <4> QED BY <3>1, <4>1, Index_ValueGrows DEF Index_debt_value
        <3>10. Index_DebtKeepsGrowing
            BY <3>8, <3>9 DEF Index_DebtKeepsGrowing, Index_TotalIsSum
        <3> QED BY <3>7, <3>8, <3>10 DEF Index_Inv
    <2> QED BY <2>1, <2>2, <2>3, <2>4, <2>5, <2>6, <2>7
<1>3. Index_Inv /\ UNCHANGED vars => Index_Inv' /\ Index_DebtKeepsGrowing
    <2> SUFFICES ASSUME Index_Inv, UNCHANGED vars PROVE Index_Inv' /\ Index_DebtKeepsGrowing
        OBVIOUS
    <2>1. Index_Inv'
        BY DEF Index_Inv, Index_Types, Index_NotAhead, Index_TotalIsSum, vars
    <2>2. store.index \in Nat /\ store.debt \in [Address -> Nat] /\ store' = store
        BY DEF Index_Inv, Index_Types, vars
    <2>3. \A v \in Address : Index_debt_value(v)' >= Index_debt_value(v)
        BY <2>2, Index_ValueGrows DEF Index_debt_value
    <2> QED BY <2>1, <2>3 DEF Index_DebtKeepsGrowing, Index_Inv, Index_TotalIsSum
<1> QED BY <1>1, <1>2, <1>3

-----------------------------------------------------------------------------
(* borrow_without_accrual.                                                 *)
\* The debt with interest to date is a number.
LEMMA Accrual_Projected ==
    ASSUME NEW u \in Address, now \in Nat, store.debt \in [Address -> Int],
        store.last \in [Address -> Nat]
    PROVE  Accrual_projected_debt(u) \in Int
<1>1. PICK m \in Int : m = Max({0, now - store.last[u]})
    <2>1. now - store.last[u] \in Int
        OBVIOUS
    <2> QED BY <2>1, MaxZero
<1>2. PICK x \in Int : x = store.debt[u] * m
    OBVIOUS
<1>3. store.debt[u] + x \div 2 \in Int
    OBVIOUS
<1> QED BY <1>1, <1>2, <1>3 DEF Accrual_projected_debt

Accrual_Types ==
    /\ now \in Nat
    /\ store \in [debt : [Address -> Int], last : [Address -> Nat]]

\* No accrual is dated in the future.
Accrual_NotAhead ==
    \A v \in Address : store.last[v] <= now

Accrual_Inv == Accrual_Types /\ Accrual_NotAhead

\* Every deployment is in Accrual_Inv; a call of the corrected contract, or
\* none, stays in it.
LEMMA Accrual_Correct ==
    /\ now = 0 /\ Accrual_Init => Accrual_Inv
    /\ Secure /\ Accrual_Inv /\ Accrual_Next => Accrual_Inv' /\ Accrual_WithinLimit
    /\ Accrual_Inv /\ UNCHANGED vars => Accrual_Inv' /\ Accrual_WithinLimit
<1>1. now = 0 /\ Accrual_Init => Accrual_Inv
    BY DEF Accrual_Init, Accrual_Inv, Accrual_Types, Accrual_NotAhead, Zero
<1>2. ASSUME Secure, Accrual_Inv, Accrual_Next PROVE Accrual_Inv' /\ Accrual_WithinLimit
    <2>1. PICK u \in Address, n \in 1..2 :
              Accrual_initialize(u, n) \/ Accrual_borrow(u, n) \/ CloseLedger
        BY <1>2, Zenon DEF Accrual_Next, Lib, Secure
    <2>2. CASE Accrual_initialize(u, n)
        <3>1. /\ now \in Nat /\ store.debt \in [Address -> Int] /\
                 store.last \in [Address -> Nat] /\
                 store = [debt |-> store.debt, last |-> store.last]
              /\ \A v \in Address : store.last[v] <= now
            BY <1>2 DEF Accrual_Inv, Accrual_Types, Accrual_NotAhead
        <3>2. PICK d, l : d = [store.debt EXCEPT ![u] = n] /\ l = [store.last EXCEPT ![u] = now]
            OBVIOUS
        <3>3. store' = [store EXCEPT !.debt = d, !.last = l] /\ past' = past /\ now' = now /\
                  n <= BORROW_LIMIT /\ n \in Int
            BY <2>2, <3>2 DEF Accrual_initialize, Write
        <3>4. store' = [debt |-> d, last |-> l]
            BY <3>1, <3>3
        <3>5. /\ d \in [Address -> Int] /\ l \in [Address -> Nat] /\ d[u] = n /\ l[u] = now
              /\ \A v \in Address : v # u => d[v] = store.debt[v] /\ l[v] = store.last[v]
            BY <3>1, <3>2, <3>3
        <3>6. Accrual_Types' /\ Accrual_NotAhead'
            <4>1. Accrual_Types'
                BY <3>1, <3>3, <3>4, <3>5 DEF Accrual_Types
            <4>2. \A v \in Address : l[v] <= now
                BY <3>1, <3>5
            <4> QED BY <3>3, <3>4, <4>1, <4>2 DEF Accrual_NotAhead
        <3>7. \A v \in Address : store'.debt[v] > store.debt[v] => v = u
            BY <3>1, <3>4, <3>5
        <3>8. Accrual_projected_debt(u)' = d[u]
            <4>1. PICK x \in Int : x = d[u]
                BY <3>5
            <4>2. now - now = 0 /\ Max({0, now - now}) = 0
                BY <3>1, MaxZero
            <4>3. x * 0 = 0 /\ 0 \div 2 = 0
                OBVIOUS
            <4>4. Accrual_projected_debt(u)' = d[u] + (d[u] * Max({0, now - l[u]})) \div 2
                BY <3>3, <3>4 DEF Accrual_projected_debt
            <4> QED BY <3>5, <4>1, <4>2, <4>3, <4>4
        <3>9. Accrual_WithinLimit
            BY <3>3, <3>5, <3>7, <3>8 DEF Accrual_WithinLimit
        <3> QED BY <3>6, <3>9 DEF Accrual_Inv
    <2>3. CASE Accrual_borrow(u, n)
        <3>1. /\ now \in Nat /\ store.debt \in [Address -> Int] /\
                 store.last \in [Address -> Nat] /\
                 store = [debt |-> store.debt, last |-> store.last]
              /\ \A v \in Address : store.last[v] <= now
            BY <1>2 DEF Accrual_Inv, Accrual_Types, Accrual_NotAhead
        <3>a. PICK k \in Int, e \in [Address -> Int], l \in [Address -> Nat] :
                /\ Accrual_accrue_borrower(u) = [debt |-> e, last |-> l] /\ e[u] = k /\ l[u] = now
                /\ \A v \in Address : v # u => e[v] = store.debt[v] /\ l[v] = store.last[v]
            <4>1. CASE store.debt[u] # 0 /\ now <= store.last[u]
                <5>1. Accrual_accrue_borrower(u) = store
                    BY <4>1 DEF Accrual_accrue_borrower
                <5>2. store.last[u] = now
                    BY <3>1, <4>1
                <5> QED BY <3>1, <5>1, <5>2
            <4>2. CASE ~(store.debt[u] # 0 /\ now <= store.last[u])
                <5>1. PICK p \in Int : p = Accrual_projected_debt(u)
                    BY <3>1, Accrual_Projected
                <5>2. PICK e \in [Address -> Int], l \in [Address -> Nat] :
                          e = [store.debt EXCEPT ![u] = p] /\ l = [store.last EXCEPT ![u] = now]
                    BY <3>1
                <5>3. Accrual_accrue_borrower(u) = [store EXCEPT !.debt = e, !.last = l]
                    BY <4>2, <5>1, <5>2 DEF Accrual_accrue_borrower
                <5>4. Accrual_accrue_borrower(u) = [debt |-> e, last |-> l]
                    BY <3>1, <5>3
                <5>5. e[u] = p /\ l[u] = now /\ \A v \in Address : v # u => e[v] = store.debt[v] /\
                          l[v] = store.last[v]
                    BY <3>1, <5>2
                <5> QED BY <5>4, <5>5
            <4> QED BY <4>1, <4>2
        <3>2. PICK d : d = [e EXCEPT ![u] = k + n]
            OBVIOUS
        <3>b. store' = [debt |-> d, last |-> l] /\ past' = past /\ now' = now /\
                  k + n <= BORROW_LIMIT /\ n \in Int
            BY <2>3, <3>a, <3>2 DEF Accrual_borrow, Write
        <3>3. past' = past /\ now' = now
            BY <3>b
        <3>4. store' = [debt |-> d, last |-> l]
            BY <3>b
        <3>5. /\ d \in [Address -> Int] /\ l \in [Address -> Nat] /\ d[u] = k + n /\ l[u] = now
              /\ \A v \in Address : v # u => d[v] = store.debt[v] /\ l[v] = store.last[v]
            BY <3>1, <3>a, <3>2, <3>b
        <3>6. Accrual_Types' /\ Accrual_NotAhead'
            <4>1. Accrual_Types'
                BY <3>1, <3>3, <3>4, <3>5 DEF Accrual_Types
            <4>2. \A v \in Address : l[v] <= now
                BY <3>1, <3>5
            <4> QED BY <3>3, <3>4, <4>1, <4>2 DEF Accrual_NotAhead
        <3>7. \A v \in Address : store'.debt[v] > store.debt[v] => v = u
            BY <3>1, <3>4, <3>5
        <3>8. Accrual_projected_debt(u)' = d[u]
            <4>1. PICK x \in Int : x = d[u]
                BY <3>5
            <4>2. now - now = 0 /\ Max({0, now - now}) = 0
                BY <3>1, MaxZero
            <4>3. x * 0 = 0 /\ 0 \div 2 = 0
                OBVIOUS
            <4>4. Accrual_projected_debt(u)' = d[u] + (d[u] * Max({0, now - l[u]})) \div 2
                BY <3>3, <3>4 DEF Accrual_projected_debt
            <4> QED BY <3>5, <4>1, <4>2, <4>3, <4>4
        <3>9. Accrual_WithinLimit
            BY <3>b, <3>5, <3>7, <3>8 DEF Accrual_WithinLimit
        <3> QED BY <3>6, <3>9 DEF Accrual_Inv
    <2>4. CASE CloseLedger
        <3>1. /\ store' = store
              /\ past' = past
              /\ now' = now + 1
            BY <1>2, <2>4 DEF CloseLedger, Accrual_Inv, Accrual_Types
        <3> QED BY <1>2, <3>1, ContractAssumption DEF Accrual_Inv, Accrual_Types,
               Accrual_NotAhead, Accrual_WithinLimit, BORROW_LIMIT
    <2> QED BY <2>1, <2>2, <2>3, <2>4
<1>3. Accrual_Inv /\ UNCHANGED vars => Accrual_Inv' /\ Accrual_WithinLimit
    BY DEF Accrual_Inv, Accrual_Types, Accrual_WithinLimit, Accrual_NotAhead, vars,
       Accrual_projected_debt
<1> QED BY <1>1, <1>2, <1>3

-----------------------------------------------------------------------------
(* liquidation_dust_rounding.                                              *)
\* The powers of two up to the bound on rounds.
LEMMA Round_Powers == 2^0 = 1 /\ 2^1 = 2 /\ 2^2 = 4
OBVIOUS

\* The least of two numbers.
LEMMA Round_LeastOfTwo ==
    ASSUME NEW a \in Int, NEW b \in Int PROVE Min({a, b}) = IF a <= b THEN a ELSE b
<1> DEFINE m == IF a <= b THEN a ELSE b
<1>1. m \in {a, b} /\ \A y \in {a, b} : m <= y
    OBVIOUS
<1>2. \A x \in {a, b} : (\A y \in {a, b} : x <= y) => x = m
    OBVIOUS
<1> QED BY <1>1, <1>2 DEF Min

\* The close amount, rounded up, is at least half of the debt and at most the
\* debt.
LEMMA Round_CeilHalf ==
    ASSUME NEW d \in Int
    PROVE  /\ ceil_div(d * CLOSE_FACTOR, SCALE) \in Int
           /\ d >= 0 => 2 * ceil_div(d * CLOSE_FACTOR, SCALE) >= d /\
              ceil_div(d * CLOSE_FACTOR, SCALE) <= d
BY DEF ceil_div, CLOSE_FACTOR, SCALE, Quotient

Round_Types ==
    /\ store \in [debt : [Address -> Int], collateral : [Address -> Int]]
    /\ past \in [borrowed : [Address -> Int], rounds : [Address -> 0..MaxRounds]]

Round_Inv == Round_Types /\ Round_EachHalves

\* Every deployment is in Round_Inv; a call of the corrected contract, or none,
\* stays in it.
LEMMA Round_Correct ==
    /\ now = 0 /\ Round_Init => Round_Inv
    /\ Secure /\ Round_Inv /\ Round_Next => Round_Inv'
    /\ Round_Inv /\ UNCHANGED vars => Round_Inv'
<1>1. now = 0 /\ Round_Init => Round_Inv
    <2> SUFFICES ASSUME Round_Init PROVE Round_Inv
        OBVIOUS
    <2>1. Round_Types /\ \A v \in Address : store.debt[v] = 0 /\ past.borrowed[v] = 0 /\
              past.rounds[v] = 0
        BY DEF Round_Init, Round_Types, Zero, MaxRounds
    <2>2. 0 * 2^0 <= 0
        BY Round_Powers
    <2> QED BY <2>1, <2>2 DEF Round_Inv, Round_EachHalves
<1>2. ASSUME Secure, Round_Inv, Round_Next PROVE Round_Inv'
    <2>1. PICK u \in Solo, debt \in -2..4, collateral \in {-1, 1, 4} :
              Round_borrow(u, debt, collateral) \/ Round_liquidate(u)
        BY <1>2, Zenon DEF Round_Next, Lib, Secure
    <2>2. CASE Round_borrow(u, debt, collateral)
        <3>1. /\ u \in Address /\ debt \in Int /\ collateral \in Int /\
                 store \in [debt : [Address -> Int], collateral : [Address -> Int]]
              /\ past \in [borrowed : [Address -> Int], rounds : [Address -> 0..MaxRounds]]
              /\ \A v \in Address : past.borrowed[v] >= 0 =>
                 store.debt[v] * 2^past.rounds[v] <= past.borrowed[v]
            BY <1>2, SoloAccount DEF Round_Inv, Round_Types, Round_EachHalves
        <3>2. PICK d, c, b, r : /\ d = [store.debt EXCEPT ![u] = debt] /\
                                   c = [store.collateral EXCEPT ![u] = collateral]
                                /\ b = [past.borrowed EXCEPT ![u] = debt] /\
                                   r = [past.rounds EXCEPT ![u] = 0]
            OBVIOUS
        <3>3. store' = [store EXCEPT !.debt = d, !.collateral = c] /\
                  past' = [past EXCEPT !.borrowed = b, !.rounds = r]
            BY <2>2, <3>2 DEF Round_borrow, WriteAnd
        <3>4. store' = [debt |-> d, collateral |-> c] /\ past' = [borrowed |-> b, rounds |-> r]
            BY <3>1, <3>3
        <3>5. /\ d \in [Address -> Int] /\ c \in [Address -> Int] /\ b \in [Address -> Int] /\
                 r \in [Address -> 0..MaxRounds]
              /\ d[u] = debt /\ b[u] = debt /\ r[u] = 0
              /\ \A v \in Address : v # u => d[v] = store.debt[v] /\ b[v] = past.borrowed[v] /\
                 r[v] = past.rounds[v]
            BY <3>1, <3>2 DEF MaxRounds
        <3>6. Round_Types'
            BY <3>4, <3>5 DEF Round_Types
        <3>7. \A v \in Address : b[v] >= 0 => d[v] * 2^r[v] <= b[v]
            <4>1. debt * 2^0 <= debt
                BY <3>1, Round_Powers
            <4> QED BY <3>1, <3>5, <4>1, ZenonT(60)
        <3> QED BY <3>4, <3>6, <3>7 DEF Round_Inv, Round_EachHalves
    <2>3. CASE Round_liquidate(u)
        <3>1. /\ u \in Address /\ store \in [debt : [Address -> Int], collateral : [Address -> Int]]
              /\ past \in [borrowed : [Address -> Int], rounds : [Address -> 0..MaxRounds]]
              /\ \A v \in Address : past.borrowed[v] >= 0 =>
                 store.debt[v] * 2^past.rounds[v] <= past.borrowed[v]
            BY <1>2, SoloAccount DEF Round_Inv, Round_Types, Round_EachHalves
        <3>2. PICK d \in Int, c \in Int, b \in Int, r \in 0..MaxRounds :
                d = store.debt[u] /\ c = store.collateral[u] /\ b = past.borrowed[u] /\
                    r = past.rounds[u]
            BY <3>1
        <3>3. PICK calc \in Int, s \in Int :
                  calc = ceil_div(d * CLOSE_FACTOR, SCALE) /\ s = ceil_div(c * CLOSE_FACTOR, SCALE)
            BY Round_CeilHalf
        <3>4. PICK repay \in Int, seize \in Int :
                /\ repay = Min({IF calc = 0 /\ d > 0 THEN d ELSE Max({calc, 0}), d}) /\
                   seize = Min({s, c})
                /\ d >= 0 => 2 * repay >= d
                /\ d < 0 => repay = d
            <4>1. PICK x \in Int : x = Max({0, calc}) /\ x >= calc /\ x >= 0
                BY MaxZero
            <4>2. Max({calc, 0}) = x
                <5>1. {calc, 0} = {0, calc}
                    OBVIOUS
                <5> QED BY <4>1, <5>1
            <4>3. PICK y \in Int :
                      y = (IF calc = 0 /\ d > 0 THEN d ELSE Max({calc, 0})) /\
                      (d >= 0 => 2 * y >= d) /\ y >= 0
                BY <3>3, <4>1, <4>2, Round_CeilHalf
            <4>4. Min({y, d}) = (IF y <= d THEN y ELSE d) /\ Min({s, c}) \in Int
                BY Round_LeastOfTwo
            <4> QED BY <4>3, <4>4
        <3>5. PICK e, f, k : /\ e = [store.debt EXCEPT ![u] = d - repay] /\
                                f = [store.collateral EXCEPT ![u] = c - seize]
                             /\ k = [past.rounds EXCEPT ![u] = r + 1]
            OBVIOUS
        <3>6. store' = [store EXCEPT !.debt = e, !.collateral = f] /\
                  past' = [past EXCEPT !.rounds = k] /\ r < MaxRounds
            BY <2>3, <3>2, <3>3, <3>4, <3>5
               DEF Round_liquidate, Round_liquidates, Round_get_debt, Round_get_collateral, WriteAnd
        <3>7. store' = [debt |-> e, collateral |-> f] /\
                  past' = [borrowed |-> past.borrowed, rounds |-> k]
            BY <3>1, <3>6
        <3>8. /\ e \in [Address -> Int] /\ f \in [Address -> Int] /\ k \in [Address -> 0..MaxRounds]
              /\ e[u] = d - repay /\ k[u] = r + 1
              /\ \A v \in Address : v # u => e[v] = store.debt[v] /\ k[v] = past.rounds[v]
            BY <3>1, <3>5, <3>6 DEF MaxRounds
        <3>9. Round_Types'
            BY <3>1, <3>7, <3>8 DEF Round_Types
        <3>10. b >= 0 => (d - repay) * 2^(r + 1) <= b
            <4>1. b >= 0 => d * 2^r <= b
                BY <3>1, <3>2
            <4>2. CASE r = 0
                <5>1. 2^r = 1 /\ 2^(r + 1) = 2
                    BY <4>2, Round_Powers
                <5> QED BY <3>4, <4>1, <5>1
            <4>3. CASE r = 1
                <5>1. 2^r = 2 /\ 2^(r + 1) = 4
                    BY <4>3, Round_Powers
                <5> QED BY <3>4, <4>1, <5>1
            <4> QED BY <3>6, <4>2, <4>3 DEF MaxRounds
        <3>11. \A v \in Address : past.borrowed[v] >= 0 => e[v] * 2^k[v] <= past.borrowed[v]
            BY <3>1, <3>2, <3>8, <3>10
        <3> QED BY <3>7, <3>9, <3>11 DEF Round_Inv, Round_EachHalves
    <2> QED BY <2>1, <2>2, <2>3
<1>3. Round_Inv /\ UNCHANGED vars => Round_Inv'
    BY DEF Round_Inv, Round_Types, Round_EachHalves, vars
<1> QED BY <1>1, <1>2, <1>3

\* Shares rounded down for n cost no more than n at the present price.
LEMMA FloorShares ==
    ASSUME NEW t \in Nat \ {0}, NEW s \in Nat, NEW n \in Nat
    PROVE  Quotient(n * s, t) \in Nat /\ t * Quotient(n * s, t) <= n * s
<1>1. PICK x \in Nat : x = n * s
    OBVIOUS
<1>2. PICK q \in Nat : q = x \div t
    OBVIOUS
<1>3. t * q <= x
    BY <1>2
<1> QED BY <1>1, <1>2, <1>3, QuotientIsDiv

\* Shares rounded up for n are worth at least n at the present price.
LEMMA CeilShares ==
    ASSUME NEW t \in Nat \ {0}, NEW s \in Nat, NEW n \in Nat
    PROVE  Quotient(n * s + t - 1, t) \in Nat /\ t * Quotient(n * s + t - 1, t) >= n * s
<1>1. PICK x \in Nat : x = n * s
    OBVIOUS
<1>2. PICK y \in Nat : y = x + t - 1
    OBVIOUS
<1>3. PICK q \in Nat : q = y \div t
    OBVIOUS
<1>4. y < t * q + t
    BY <1>3
<1>5. PICK z \in Int : z = t * q
    OBVIOUS
<1>6. z >= x
    BY <1>2, <1>4, <1>5
<1>7. Quotient(y, t) = q
    BY <1>2, <1>3, QuotientIsDiv
<1> QED BY <1>1, <1>2, <1>3, <1>5, <1>6, <1>7

\* Minting m shares for n assets that pay for them dilutes nobody.
LEMMA PaidFor ==
    ASSUME NEW t \in Int, NEW s \in Int, NEW n \in Int, NEW m \in Int, t * m <= n * s
    PROVE  NotDiluted(t, s, t + n, s + m)
<1>1. (t + n) * s = t * s + n * s /\ t * (s + m) = t * s + t * m
    OBVIOUS
<1>2. t * s \in Int /\ n * s \in Int /\ t * m \in Int
    OBVIOUS
<1> QED BY <1>1, <1>2 DEF NotDiluted

\* Neither does a step that changes nothing.
LEMMA NoChange == ASSUME NEW t \in Int, NEW s \in Int PROVE NotDiluted(t, s, t, s)
BY DEF NotDiluted

-----------------------------------------------------------------------------
(* admin_skim_donations.                                                   *)
Skim_Types ==
    /\ store \in [admin : Address \cup {None}, accounted : Int, raw : Int, donations : Int]
    /\ past \in [injected : Int, donated : Int, skimmed : Int]

Skim_Inv == Skim_Types /\ Skim_OnlyDonations

\* Every deployment is in Skim_Inv; a call of the corrected contract, or none,
\* stays in it.
LEMMA Skim_Correct ==
    /\ now = 0 /\ Skim_Init => Skim_Inv
    /\ Secure /\ Skim_Inv /\ Skim_Next => Skim_Inv'
    /\ Skim_Inv /\ UNCHANGED vars => Skim_Inv'
<1>1. now = 0 /\ Skim_Init => Skim_Inv
    BY ContractAssumption, SoloAccount DEF Skim_Init, Skim_Inv, Skim_Types, Skim_OnlyDonations,
       Skim_OnlyDonations, Skim_Init
<1>2. ASSUME Secure, Skim_Inv, Skim_Next PROVE Skim_Inv'
    <2>1. PICK u \in Solo, n \in 0..2 :
              Skim_initialize(u) \/ Skim_deposit(n) \/ Skim_inject_excess(n) \/ Skim_donate(n) \/
              Skim_skim
        BY <1>2, Zenon DEF Skim_Next, Lib, Secure
    <2>2. CASE Skim_initialize(u)
        <3>1. /\ store' = [admin |-> u, accounted |-> 0, raw |-> 0, donations |-> 0]
              /\ past' = [injected |-> 0, donated |-> 0, skimmed |-> 0]
              /\ store.admin = None
            BY <1>2, <2>2 DEF Skim_initialize, WriteAnd, Skim_Inv, Skim_Types
        <3> QED BY <1>2, <3>1, ContractAssumption, SoloAccount DEF Skim_Inv, Skim_Types,
               Skim_OnlyDonations
    <2>3. CASE Skim_deposit(n)
        <3>1. /\ store' = [admin |-> store.admin, accounted |-> store.accounted + n,
                           raw |-> store.raw + n, donations |-> store.donations]
              /\ past' = past
              /\ n > 0
              /\ store.accounted + n <= MaxAssets
            BY <1>2, <2>3 DEF Skim_deposit, Write, Skim_Inv, Skim_Types
        <3> QED BY <1>2, <3>1, ContractAssumption, SoloAccount DEF Skim_Inv, Skim_Types,
               Skim_OnlyDonations, MaxAssets
    <2>4. CASE Skim_inject_excess(n)
        <3>1. /\ store' = [admin |-> store.admin, accounted |-> store.accounted,
                           raw |-> store.raw + n, donations |-> store.donations]
              /\ past' = [injected |-> past.injected + n, donated |-> past.donated,
                          skimmed |-> past.skimmed]
              /\ n > 0
              /\ past.injected + n <= MaxAssets
            BY <1>2, <2>4 DEF Skim_inject_excess, WriteAnd, Skim_Inv, Skim_Types
        <3> QED BY <1>2, <3>1, ContractAssumption, SoloAccount DEF Skim_Inv, Skim_Types,
               Skim_OnlyDonations, MaxAssets
    <2>5. CASE Skim_donate(n)
        <3>1. /\ store' = [admin |-> store.admin, accounted |-> store.accounted, raw |-> store.raw,
                           donations |-> store.donations + n]
              /\ past' = [injected |-> past.injected, donated |-> past.donated + n,
                          skimmed |-> past.skimmed]
              /\ n > 0
              /\ past.donated + n <= MaxAssets
            BY <1>2, <2>5 DEF Skim_donate, WriteAnd, Skim_Inv, Skim_Types
        <3> QED BY <1>2, <3>1, ContractAssumption, SoloAccount DEF Skim_Inv, Skim_Types,
               Skim_OnlyDonations, MaxAssets
    <2>6. CASE Skim_skim
        <3>1. /\ store' = [admin |-> store.admin, accounted |-> store.accounted,
                           raw |-> store.raw - store.donations, donations |-> 0]
              /\ past' = [injected |-> past.injected, donated |-> past.donated,
                          skimmed |-> past.skimmed + store.donations]
              /\ store.admin # None
              /\ store.donations > 0
            BY <1>2, <2>6 DEF Skim_skim, WriteAnd, Skim_Inv, Skim_Types
        <3> QED BY <1>2, <3>1, ContractAssumption, SoloAccount DEF Skim_Inv, Skim_Types,
               Skim_OnlyDonations
    <2> QED BY <2>1, <2>2, <2>3, <2>4, <2>5, <2>6
<1>3. Skim_Inv /\ UNCHANGED vars => Skim_Inv'
    BY DEF Skim_Inv, Skim_Types, Skim_OnlyDonations, vars
<1> QED BY <1>1, <1>2, <1>3

-----------------------------------------------------------------------------
(* rebasing_token_accounting.                                              *)
Rebase_Types ==
    /\ store \in [shares : [Address -> Int], tokens : Int, total : Int, live : Int]
    /\ past \in [live : Int]

\* The vault knows what it holds, and the shares add up.
Rebase_Held ==
    past.live = store.tokens /\ store.total = SumFunction(store.shares)

Rebase_Inv == Rebase_Types /\ Rebase_Held

\* So the shares own the live balance.
LEMMA Rebase_Promise == Rebase_Inv => Rebase_SharesOwnTheBalance
<1> SUFFICES ASSUME Rebase_Inv PROVE Rebase_SharesOwnTheBalance
    OBVIOUS
<1>1. store.shares \in [Address -> Int] /\ past.live = store.tokens /\
          store.total = SumFunction(store.shares)
    BY DEF Rebase_Inv, Rebase_Types, Rebase_Held
<1> QED BY <1>1 DEF Rebase_SharesOwnTheBalance

\* Every deployment is in Rebase_Inv; a call of the corrected contract, or
\* none, stays in it.
LEMMA Rebase_Correct ==
    /\ now = 0 /\ Rebase_Init => Rebase_Inv
    /\ Secure /\ Rebase_Inv /\ Rebase_Next => Rebase_Inv' /\ Rebase_OthersKeepTheirs
    /\ Rebase_Inv /\ UNCHANGED vars => Rebase_Inv' /\ Rebase_OthersKeepTheirs
<1>1. now = 0 /\ Rebase_Init => Rebase_Inv
    BY ZeroSum DEF Rebase_Init, Rebase_Inv, Rebase_Types, Rebase_Held
<1>2. ASSUME Secure, Rebase_Inv, Rebase_Next PROVE Rebase_Inv' /\ Rebase_OthersKeepTheirs
    <2>1. PICK u \in Address, n \in 0..2, delta \in {-1, 1} :
              Rebase_deposit(u, n) \/ Rebase_withdraw(u, n) \/ Rebase_rebase(delta)
        BY <1>2, Zenon DEF Rebase_Next, Lib, Secure
    <2>2. CASE Rebase_deposit(u, n)
        <3>1. /\ u \in Address /\ n \in Int /\ n > 0 /\ store.shares \in [Address -> Int] /\
                 store.tokens \in Int /\ store.total \in Int
              /\ store = [shares |-> store.shares, tokens |-> store.tokens, total |-> store.total,
                          live |-> store.live] /\
                 store.live \in Int
              /\ past = [live |-> past.live] /\ past.live = store.tokens /\
                 store.total = SumFunction(store.shares)
            BY <1>2, <2>2 DEF Rebase_Inv, Rebase_Types, Rebase_Held, Rebase_deposit
        <3>2. PICK m \in Int : m = Rebase_new_shares(n)
            <4>1. CASE store.total = 0 \/ store.tokens = 0
                BY <3>1, <4>1 DEF Rebase_new_shares
            <4>2. CASE ~(store.total = 0 \/ store.tokens = 0)
                <5>1. n * store.total \in Int /\ store.tokens # 0
                    BY <3>1, <4>2
                <5> QED BY <3>1, <4>2, <5>1, QuotientInt DEF Rebase_new_shares
            <4> QED BY <4>1, <4>2
        <3>3. PICK s : s = Added(store.shares, u, m)
            OBVIOUS
        <3>4. s \in [Address -> Int] /\ SumFunction(s) = store.total + m
            BY <3>1, <3>2, <3>3, AddedTo
        <3>5. PICK k \in Int, t \in Int : k = store.total + m /\ t = store.tokens + n
            BY <3>1, <3>2
        <3>6. store' = [store EXCEPT !.shares = s, !.total = k, !.tokens = t] /\
                  past' = [live |-> t]
            BY <2>2, <3>1, <3>2, <3>3, <3>5 DEF Rebase_deposit, WriteAnd, Added
        <3>7. store' = [shares |-> s, tokens |-> t, total |-> k, live |-> store.live]
            BY <3>1, <3>6
        <3>8. Rebase_Types' /\ Rebase_Held'
            BY <3>1, <3>4, <3>5, <3>6, <3>7 DEF Rebase_Types, Rebase_Held
        <3>9. Rebase_OthersKeepTheirs
            <4>a. ASSUME k = store.total PROVE s = store.shares
                <5>1. m = 0
                    BY <3>1, <3>2, <3>5, <4>a
                <5>2. PICK f : f = store.shares
                    OBVIOUS
                <5>3. f \in [Address -> Int] /\ u \in Address /\ s = Added(f, u, 0)
                    BY <3>1, <3>3, <5>1, <5>2
                <5>4. f[u] + 0 = f[u]
                    BY <5>3
                <5>5. s = [f EXCEPT ![u] = f[u]]
                    BY <5>3, <5>4 DEF Added
                <5> QED BY <5>2, <5>3, <5>5
            <4> SUFFICES ASSUME store.total > 0, store.tokens >= 0
                    PROVE NotDiluted(store.tokens, store.total, t, k)
                BY <3>7, <4>a DEF Rebase_OthersKeepTheirs
            <4>1. store.tokens * m <= n * store.total
                <5>1. CASE store.tokens = 0
                    <6>1. store.tokens * m = 0
                        BY <3>2, <5>1
                    <6>2. n * store.total >= 0
                        BY <3>1
                    <6> QED BY <3>1, <6>1, <6>2
                <5>2. CASE store.tokens # 0
                    <6>1. m = Quotient(n * store.total, store.tokens)
                        BY <3>1, <3>2, <5>2 DEF Rebase_new_shares
                    <6>2. store.tokens \in Nat \ {0} /\ store.total \in Nat /\ n \in Nat
                        BY <3>1, <5>2
                    <6> QED BY <6>1, <6>2, FloorShares
                <5> QED BY <5>1, <5>2
            <4> QED BY <3>1, <3>2, <3>5, <4>1, PaidFor
        <3> QED BY <3>8, <3>9 DEF Rebase_Inv
    <2>3. CASE Rebase_withdraw(u, n)
        <3>1. /\ u \in Address /\ n \in Int /\ n > 0 /\ store.shares \in [Address -> Int] /\
                 store.tokens \in Int /\ store.total \in Int
              /\ store = [shares |-> store.shares, tokens |-> store.tokens, total |-> store.total,
                          live |-> store.live] /\
                 store.live \in Int
              /\ past = [live |-> past.live] /\ past.live = store.tokens /\
                 store.total = SumFunction(store.shares)
            BY <1>2, <2>3 DEF Rebase_Inv, Rebase_Types, Rebase_Held, Rebase_withdraw
        <3>2. PICK m \in Int : m = Rebase_tokens_out(n)
            <4>1. n * store.tokens \in Int /\ store.total # 0
                BY <3>1, <2>3 DEF Rebase_withdraw
            <4> QED BY <3>1, <4>1, QuotientInt DEF Rebase_tokens_out
        <3>3. PICK s : s = Taken(store.shares, u, n)
            OBVIOUS
        <3>4. s \in [Address -> Int] /\ SumFunction(s) = store.total - n
            BY <3>1, <3>2, <3>3, TakenFrom
        <3>5. PICK k \in Int, t \in Int : k = store.total - n /\ t = store.tokens - m
            BY <3>1, <3>2
        <3>6. store' = [store EXCEPT !.shares = s, !.total = k, !.tokens = t] /\
                  past' = [live |-> t]
            BY <2>3, <3>1, <3>2, <3>3, <3>5 DEF Rebase_withdraw, WriteAnd, Taken
        <3>7. store' = [shares |-> s, tokens |-> t, total |-> k, live |-> store.live]
            BY <3>1, <3>6
        <3>8. Rebase_Types' /\ Rebase_Held'
            BY <3>1, <3>4, <3>5, <3>6, <3>7 DEF Rebase_Types, Rebase_Held
        <3>9. Rebase_OthersKeepTheirs
            <4>a. ASSUME k = store.total PROVE s = store.shares
                <5>1. n = 0
                    BY <3>1, <3>2, <3>5, <4>a
                <5>2. PICK f : f = store.shares
                    OBVIOUS
                <5>3. f \in [Address -> Int] /\ u \in Address /\ s = Taken(f, u, 0)
                    BY <3>1, <3>3, <5>1, <5>2
                <5>4. f[u] - 0 = f[u]
                    BY <5>3
                <5>5. s = [f EXCEPT ![u] = f[u]]
                    BY <5>3, <5>4 DEF Taken
                <5> QED BY <5>2, <5>3, <5>5
            <4> SUFFICES ASSUME store.total > 0, store.tokens >= 0
                    PROVE NotDiluted(store.tokens, store.total, t, k)
                BY <3>7, <4>a DEF Rebase_OthersKeepTheirs
            <4>1. store.total * m <= n * store.tokens
                <5>1. m = Quotient(n * store.tokens, store.total) /\ store.total \in Nat \ {0} /\
                          store.tokens \in Nat /\ n \in Nat
                    BY <3>1, <3>2 DEF Rebase_tokens_out
                <5> QED BY <5>1, FloorShares
            <4>2. PICK p \in Int, q \in Int : p = store.tokens /\ q = store.total
                BY <3>1
            <4>3. PICK a \in Int, b \in Int, c \in Int : a = p * q /\ b = q * m /\ c = p * n
                BY <3>1
            <4>4. (p - m) * q = p * q - q * m /\ p * (q - n) = p * q - p * n /\ n * p = p * n
                <5>1. (p - m) * q = p * q - q * m
                    OBVIOUS
                <5>2. p * (q - n) = p * q - p * n /\ n * p = p * n
                    BY <3>1
                <5> QED BY <5>1, <5>2
            <4> QED BY <3>5, <4>1, <4>2, <4>3, <4>4 DEF NotDiluted
        <3> QED BY <3>8, <3>9 DEF Rebase_Inv
    <2>4. CASE Rebase_rebase(delta)
        <3>1. /\ store' = [shares |-> store.shares, tokens |-> store.tokens + delta,
                           total |-> store.total, live |-> store.live]
              /\ past' = [live |-> past.live + delta]
              /\ past.live + delta \in -1..MaxAssets
            BY <1>2, <2>4 DEF Rebase_rebase, WriteAnd, Rebase_Inv, Rebase_Types
        <3> QED BY <1>2, <3>1, ContractAssumption DEF Rebase_Inv, Rebase_Types, Rebase_Held,
               MaxAssets, Rebase_OthersKeepTheirs, NotDiluted
    <2> QED BY <2>1, <2>2, <2>3, <2>4
<1>3. Rebase_Inv /\ UNCHANGED vars => Rebase_Inv' /\ Rebase_OthersKeepTheirs
    BY DEF Rebase_Inv, Rebase_Types, Rebase_OthersKeepTheirs, Rebase_Held, vars
<1> QED BY <1>1, <1>2, <1>3

-----------------------------------------------------------------------------
(* rescue_primary_asset.                                                   *)
\* What is owed is the sum of the entries and of the overdrafts.
Rescue_Splits(b) == SumFunction(Owed(b)) = SumFunction(b) + SumFunction(Overdrawn(b))

\* What is owed and what is overdrawn are amounts for every account.
LEMMA Rescue_SplitTypes ==
    ASSUME NEW b \in [Address -> Int]
    PROVE  /\ Owed(b) \in [Address -> Int] /\ Overdrawn(b) \in [Address -> Int]
           /\ \A a \in Address : Owed(b)[a] = IF b[a] > 0 THEN b[a] ELSE 0
           /\ \A a \in Address : Overdrawn(b)[a] = IF b[a] < 0 THEN -b[a] ELSE 0
BY DEF Owed, Overdrawn

\* Nothing is owed or overdrawn at the start.
LEMMA Rescue_SplitsZero == Rescue_Splits(Zero)
<1>1. /\ Zero \in [Address -> Int] /\ \A a \in Address : Zero[a] = 0
    BY DEF Zero
<1>2. PICK f, g : f = Owed(Zero) /\ g = Overdrawn(Zero)
    OBVIOUS
<1>3. f \in [Address -> Int] /\ g \in [Address -> Int] /\ \A a \in Address : f[a] = 0 /\ g[a] = 0
    BY <1>1, <1>2, Rescue_SplitTypes
<1>4. SumFunction(f) = 0 /\ SumFunction(g) = 0
    BY <1>3, SumOfZeros
<1> QED BY <1>2, <1>4, ZeroSum DEF Rescue_Splits

\* One entry that moves keeps that so.
LEMMA Rescue_SplitShifts ==
    ASSUME NEW b \in [Address -> Int], NEW c \in [Address -> Int], NEW a \in Address, NEW d \in Int,
           c[a] = b[a] + d, \A x \in Address : x # a => c[x] = b[x], Rescue_Splits(b)
    PROVE  Rescue_Splits(c)
<1>1. PICK f, g, h, k : f = Owed(b) /\ g = Owed(c) /\ h = Overdrawn(b) /\ k = Overdrawn(c)
    OBVIOUS
<1>2. /\ f \in [Address -> Int] /\ g \in [Address -> Int]
      /\ h \in [Address -> Int] /\ k \in [Address -> Int]
      /\ \A x \in Address : f[x] = (IF b[x] > 0 THEN b[x] ELSE 0) /\
         g[x] = (IF c[x] > 0 THEN c[x] ELSE 0)
      /\ \A x \in Address : h[x] = (IF b[x] < 0 THEN -b[x] ELSE 0) /\
         k[x] = (IF c[x] < 0 THEN -c[x] ELSE 0)
    BY <1>1, Rescue_SplitTypes
<1>3. PICK p \in Int, q \in Int : p = g[a] - f[a] /\ q = k[a] - h[a]
    BY <1>2
<1>4. g[a] = f[a] + p /\ k[a] = h[a] + q /\ p - q = d
    BY <1>2, <1>3
<1>5. \A x \in Address : x # a => g[x] = f[x] /\ k[x] = h[x]
    BY <1>2
<1>6. SumFunction(f) \in Int /\ SumFunction(g) = SumFunction(f) + p
    <2>1. f \in [Address -> Int] /\ g \in [Address -> Int] /\ g[a] = f[a] + p
        BY <1>2, <1>4
    <2>2. \A x \in Address : x # a => g[x] = f[x]
        BY <1>5
    <2> QED BY <2>1, <2>2, SumShifts
<1>7. SumFunction(h) \in Int /\ SumFunction(k) = SumFunction(h) + q
    <2>1. h \in [Address -> Int] /\ k \in [Address -> Int] /\ k[a] = h[a] + q
        BY <1>2, <1>4
    <2>2. \A x \in Address : x # a => k[x] = h[x]
        BY <1>5
    <2> QED BY <2>1, <2>2, SumShifts
<1>8. SumFunction(b) \in Int /\ SumFunction(c) = SumFunction(b) + d
    BY SumShifts
<1>9. SumFunction(f) = SumFunction(b) + SumFunction(h)
    BY <1>1 DEF Rescue_Splits
<1>10. SumFunction(g) = SumFunction(c) + SumFunction(k)
    BY <1>4, <1>6, <1>7, <1>8, <1>9
<1> QED BY <1>1, <1>10 DEF Rescue_Splits

Rescue_Types ==
    /\ store \in [admin : Address \cup {None}, token : {None, "managed"},
                  balance : [Address -> Int]]
    /\ past \in [held : [RescueToken -> Int]]

\* After initialize the managed token is the one on record: the rescue guard
\* compares with it.
Rescue_Named ==
    store.admin # None => store.token = "managed"

\* The balances add up to what is held of the managed token.
Rescue_Held ==
    SumFunction(store.balance) = past.held["managed"]

\* What is owed less what is overdrawn is the sum of the balances.
Rescue_Split ==
    Rescue_Splits(store.balance)

Rescue_Inv == Rescue_Types /\ Rescue_Named /\ Rescue_Held /\ Rescue_Split

\* So the books are held.
LEMMA Rescue_Promise == Rescue_Inv => Rescue_OwedIsHeld
<1> SUFFICES ASSUME Rescue_Inv, store.token # None
             PROVE  SumFunction(Owed(store.balance)) =
                 past.held[store.token] + SumFunction(Overdrawn(store.balance))
    BY DEF Rescue_OwedIsHeld
<1>1. store.token = "managed" /\ SumFunction(store.balance) = past.held["managed"] /\
          Rescue_Splits(store.balance)
    BY DEF Rescue_Inv, Rescue_Types, Rescue_Held, Rescue_Split
<1> QED BY <1>1 DEF Rescue_Splits

\* Every deployment is in Rescue_Inv; a call of the corrected contract, or
\* none, stays in it.
LEMMA Rescue_Correct ==
    /\ now = 0 /\ Rescue_Init => Rescue_Inv
    /\ Secure /\ Rescue_Inv /\ Rescue_Next => Rescue_Inv'
    /\ Rescue_Inv /\ UNCHANGED vars => Rescue_Inv'
<1>1. now = 0 /\ Rescue_Init => Rescue_Inv
    <2> SUFFICES ASSUME Rescue_Init PROVE Rescue_Inv
        OBVIOUS
    <2>1. Rescue_Types /\ Rescue_Named /\ Rescue_Held
        BY ZeroSum DEF Rescue_Init, Rescue_Types, Rescue_Named, Rescue_Held, RescueToken
    <2>2. Rescue_Split
        BY Rescue_SplitsZero DEF Rescue_Init, Rescue_Split
    <2> QED BY <2>1, <2>2 DEF Rescue_Inv
<1>2. ASSUME Secure, Rescue_Inv, Rescue_Next PROVE Rescue_Inv'
    <2>1. PICK u \in Address, n \in Sums, t \in RescueToken :
              Rescue_initialize(u) \/ Rescue_deposit(u, n) \/ Rescue_withdraw(u, n) \/
              Rescue_rescue_token(t, n)
        BY <1>2, Zenon DEF Rescue_Next, Lib, Secure
    <2>2. CASE Rescue_initialize(u)
        <3>1. store' = [store EXCEPT !.admin = u, !.token = "managed"] /\ past' = past
            BY <2>2 DEF Rescue_initialize, Write
        <3>2. store' = [admin |-> u, token |-> "managed", balance |-> store.balance]
            BY <1>2, <3>1 DEF Rescue_Inv, Rescue_Types
        <3>3. Rescue_Types' /\ Rescue_Named' /\ Rescue_Held'
            BY <1>2, <3>1, <3>2 DEF Rescue_Inv, Rescue_Types, Rescue_Named, Rescue_Held
        <3>4. Rescue_Split'
            BY <1>2, <3>2 DEF Rescue_Inv, Rescue_Split
        <3> QED BY <3>3, <3>4 DEF Rescue_Inv
    <2>3. CASE Rescue_deposit(u, n)
        <3>1. /\ u \in Address /\ n \in Int /\ store.balance \in [Address -> Int] /\
                 past = [held |-> past.held] /\ past.held \in [RescueToken -> Int]
              /\ store = [admin |-> store.admin, token |-> store.token, balance |-> store.balance]
              /\ "managed" \in RescueToken /\ SumFunction(store.balance) = past.held["managed"]
            BY <1>2 DEF Rescue_Inv, Rescue_Types, Rescue_Held, RescueToken, Sums
        <3>2. PICK b, h :
                  b = Added(store.balance, u, n) /\
                  h = [past.held EXCEPT !["managed"] = past.held["managed"] + n]
            OBVIOUS
        <3>3. b \in [Address -> Int] /\ SumFunction(b) = past.held["managed"] + n
            BY <3>1, <3>2, AddedTo
        <3>4. h \in [RescueToken -> Int] /\ h["managed"] = past.held["managed"] + n
            BY <3>1, <3>2
        <3>5. store' = [store EXCEPT !.balance = b] /\ past' = [past EXCEPT !.held = h]
            BY <2>3, <3>2 DEF Rescue_deposit, WriteAnd, Added
        <3>6. store' = [admin |-> store.admin, token |-> store.token, balance |-> b] /\
                  past' = [held |-> h]
            BY <3>1, <3>5
        <3>7. Rescue_Types'
            BY <1>2, <3>3, <3>4, <3>6 DEF Rescue_Inv, Rescue_Types
        <3>8. Rescue_Named' /\ Rescue_Held'
            BY <1>2, <3>3, <3>4, <3>6 DEF Rescue_Inv, Rescue_Named, Rescue_Held
        <3>9. \A v \in Address : b[v] = store.balance[v] + (IF v = u THEN n ELSE 0)
            <4>1. store.balance \in [Address -> Int] /\ n \in Int
                BY <3>1
            <4>2. \A v \in Address :
                      Added(store.balance, u, n)[v] = store.balance[v] + (IF v = u THEN n ELSE 0)
                BY <4>1, AddedTo
            <4> QED BY <3>2, <4>2
        <3>10. PICK d \in Int : d = n
            BY <3>1
        <3>11. b[u] = store.balance[u] + d /\ \A v \in Address : v # u => b[v] = store.balance[v]
            BY <3>1, <3>9, <3>10
        <3>12. Rescue_Splits(b)
            BY <1>2, <3>1, <3>3, <3>11, Rescue_SplitShifts DEF Rescue_Inv, Rescue_Split
        <3>13. Rescue_Split'
            BY <3>6, <3>12 DEF Rescue_Split
        <3> QED BY <3>7, <3>8, <3>13 DEF Rescue_Inv
    <2>4. CASE Rescue_withdraw(u, n)
        <3>1. /\ u \in Address /\ n \in Int /\ store.balance \in [Address -> Int] /\
                 past = [held |-> past.held] /\ past.held \in [RescueToken -> Int]
              /\ store = [admin |-> store.admin, token |-> store.token, balance |-> store.balance]
              /\ "managed" \in RescueToken /\ SumFunction(store.balance) = past.held["managed"]
            BY <1>2 DEF Rescue_Inv, Rescue_Types, Rescue_Held, RescueToken, Sums
        <3>2. PICK b, h :
                  b = Taken(store.balance, u, n) /\
                  h = [past.held EXCEPT !["managed"] = past.held["managed"] - n]
            OBVIOUS
        <3>3. b \in [Address -> Int] /\ SumFunction(b) = past.held["managed"] - n
            BY <3>1, <3>2, TakenFrom
        <3>4. h \in [RescueToken -> Int] /\ h["managed"] = past.held["managed"] - n
            BY <3>1, <3>2
        <3>5. store' = [store EXCEPT !.balance = b] /\ past' = [past EXCEPT !.held = h]
            BY <2>4, <3>2 DEF Rescue_withdraw, WriteAnd, Taken
        <3>6. store' = [admin |-> store.admin, token |-> store.token, balance |-> b] /\
                  past' = [held |-> h]
            BY <3>1, <3>5
        <3>7. Rescue_Types'
            BY <1>2, <3>3, <3>4, <3>6 DEF Rescue_Inv, Rescue_Types
        <3>8. Rescue_Named' /\ Rescue_Held'
            BY <1>2, <3>3, <3>4, <3>6 DEF Rescue_Inv, Rescue_Named, Rescue_Held
        <3>9. \A v \in Address : b[v] = store.balance[v] - (IF v = u THEN n ELSE 0)
            <4>1. store.balance \in [Address -> Int] /\ n \in Int
                BY <3>1
            <4>2. \A v \in Address :
                      Taken(store.balance, u, n)[v] = store.balance[v] - (IF v = u THEN n ELSE 0)
                BY <4>1, TakenFrom
            <4> QED BY <3>2, <4>2
        <3>10. PICK d \in Int : d = -n
            BY <3>1
        <3>11. b[u] = store.balance[u] + d /\ \A v \in Address : v # u => b[v] = store.balance[v]
            BY <3>1, <3>9, <3>10
        <3>12. Rescue_Splits(b)
            BY <1>2, <3>1, <3>3, <3>11, Rescue_SplitShifts DEF Rescue_Inv, Rescue_Split
        <3>13. Rescue_Split'
            BY <3>6, <3>12 DEF Rescue_Split
        <3> QED BY <3>7, <3>8, <3>13 DEF Rescue_Inv
    <2>5. CASE Rescue_rescue_token(t, n)
        <3>1. /\ n \in Int /\ past = [held |-> past.held] /\ past.held \in [RescueToken -> Int] /\
                 store.token = "managed"
            BY <1>2, <2>5 DEF Rescue_Inv, Rescue_Types, Rescue_Named, Rescue_rescue_token,
               Rescue_rescue_token_lib, Sums
        <3>2. PICK h : h = [past.held EXCEPT ![t] = past.held[t] - n]
            OBVIOUS
        <3>3. t # "managed" /\ store' = store /\ past' = [past EXCEPT !.held = h]
            BY <2>5, <3>1, <3>2 DEF Rescue_rescue_token, Rescue_rescue_token_lib, Observe
        <3>4. past' = [held |-> h]
            BY <3>1, <3>3
        <3>5. h \in [RescueToken -> Int] /\ h["managed"] = past.held["managed"]
            BY <3>1, <3>2, <3>3 DEF RescueToken
        <3>6. Rescue_Types'
            BY <1>2, <3>3, <3>4, <3>5 DEF Rescue_Inv, Rescue_Types
        <3>7. Rescue_Split'
            BY <1>2, <3>3 DEF Rescue_Inv, Rescue_Split
        <3> QED BY <1>2, <3>3, <3>4, <3>5, <3>6, <3>7 DEF Rescue_Inv, Rescue_Named, Rescue_Held
    <2> QED BY <2>1, <2>2, <2>3, <2>4, <2>5
<1>3. Rescue_Inv /\ UNCHANGED vars => Rescue_Inv'
    BY DEF Rescue_Inv, Rescue_Types, Rescue_Named, Rescue_Held, Rescue_Split, vars
<1> QED BY <1>1, <1>2, <1>3

-----------------------------------------------------------------------------
(* unprotected_emergency_withdraw.                                         *)
Emergency_Types ==
    /\ now \in Nat
    /\ store \in [admin : Address \cup {None}, balance : [Address -> Int],
                  unlock : [Address -> Int \cup {None}]]
    /\ past = [signer |-> past.signer]

Emergency_Inv == Emergency_Types

\* Every deployment is in Emergency_Inv; a call of the corrected contract, or
\* none, stays in it.
LEMMA Emergency_Correct ==
    /\ now = 0 /\ Emergency_Init => Emergency_Inv
    /\ Secure /\ Emergency_Inv /\ Emergency_Next => Emergency_Inv' /\ Emergency_ByOwnerOrAdmin
    /\ Emergency_Inv /\ UNCHANGED vars => Emergency_Inv' /\ Emergency_ByOwnerOrAdmin
<1>1. now = 0 /\ Emergency_Init => Emergency_Inv
    BY DEF Emergency_Init, Emergency_Inv, Emergency_Types, Zero
<1>2. ASSUME Secure, Emergency_Inv, Emergency_Next PROVE Emergency_Inv' /\ Emergency_ByOwnerOrAdmin
    <2>1. PICK u \in Address, v \in Address, n \in {-1, 1}, l \in {0, 2} :
              Emergency_initialize(u) \/ Emergency_deposit(u, n, l) \/ Emergency_withdraw(u) \/
              Emergency_emergency_withdraw(u, v) \/ CloseLedger
        BY <1>2, Zenon DEF Emergency_Next, Lib, Secure
    <2>2. CASE Emergency_initialize(u)
        <3>1. /\ store' = [admin |-> u, balance |-> store.balance, unlock |-> store.unlock]
              /\ past' = past
              /\ now' = now
              /\ store.admin = None
            BY <1>2, <2>2 DEF Emergency_initialize, Write, Emergency_Inv, Emergency_Types
        <3> QED BY <1>2, <3>1, ContractAssumption DEF Emergency_Inv, Emergency_Types,
               Emergency_ByOwnerOrAdmin
    <2>3. CASE Emergency_deposit(u, n, l)
        <3>1. /\ u \in Address /\ n \in Int /\ l \in Int /\ store.balance \in [Address -> Int] /\
                 store.unlock \in [Address -> Int \cup {None}]
              /\ store = [admin |-> store.admin, balance |-> store.balance,
                          unlock |-> store.unlock] /\
                 past = [signer |-> past.signer] /\ now \in Nat
              /\ store.admin \in Address \cup {None}
            BY <1>2 DEF Emergency_Inv, Emergency_Types
        <3>2. PICK b, k :
                  b = [store.balance EXCEPT ![u] = store.balance[u] + n] /\
                  k = [store.unlock EXCEPT ![u] = l]
            OBVIOUS
        <3>3. store' = [store EXCEPT !.balance = b, !.unlock = k] /\ past' = [signer |-> u] /\
                  now' = now
            BY <2>3, <3>2 DEF Emergency_deposit, WriteAnd
        <3>4. store' = [admin |-> store.admin, balance |-> b, unlock |-> k]
            BY <3>1, <3>3
        <3>5. b \in [Address -> Int] /\ k \in [Address -> Int \cup {None}] /\
                  \A w \in Address : w # u => k[w] = store.unlock[w] /\ b[w] = store.balance[w]
            BY <3>1, <3>2
        <3>6. Emergency_Inv'
            BY <3>1, <3>3, <3>4, <3>5 DEF Emergency_Inv, Emergency_Types
        <3>7. Emergency_ByOwnerOrAdmin
            BY <2>3, <3>1, <3>3, <3>4, <3>5, ContractAssumption
               DEF Emergency_ByOwnerOrAdmin, Emergency_deposit
        <3> QED BY <3>6, <3>7
    <2>4. CASE Emergency_withdraw(u)
        <3>1. /\ u \in Address /\ n \in Int /\ l \in Int /\ store.balance \in [Address -> Int] /\
                 store.unlock \in [Address -> Int \cup {None}]
              /\ store = [admin |-> store.admin, balance |-> store.balance,
                          unlock |-> store.unlock] /\
                 past = [signer |-> past.signer] /\ now \in Nat
              /\ store.admin \in Address \cup {None}
            BY <1>2 DEF Emergency_Inv, Emergency_Types
        <3>2. PICK b, k :
                  b = [store.balance EXCEPT ![u] = 0] /\ k = [store.unlock EXCEPT ![u] = None]
            OBVIOUS
        <3>3. store' = [store EXCEPT !.balance = b, !.unlock = k] /\ past' = [signer |-> u] /\
                  now' = now
            BY <2>4, <3>2 DEF Emergency_withdraw, Emergency_empties, WriteAnd
        <3>4. store' = [admin |-> store.admin, balance |-> b, unlock |-> k]
            BY <3>1, <3>3
        <3>5. b \in [Address -> Int] /\ k \in [Address -> Int \cup {None}] /\
                  \A w \in Address : w # u => k[w] = store.unlock[w] /\ b[w] = store.balance[w]
            BY <3>1, <3>2
        <3>6. Emergency_Inv'
            BY <3>1, <3>3, <3>4, <3>5 DEF Emergency_Inv, Emergency_Types
        <3>7. Emergency_ByOwnerOrAdmin
            BY <2>4, <3>1, <3>3, <3>4, <3>5, ContractAssumption
               DEF Emergency_ByOwnerOrAdmin, Emergency_withdraw
        <3> QED BY <3>6, <3>7
    <2>5. CASE Emergency_emergency_withdraw(u, v)
        <3>1. /\ u \in Address /\ n \in Int /\ l \in Int /\ store.balance \in [Address -> Int] /\
                 store.unlock \in [Address -> Int \cup {None}]
              /\ store = [admin |-> store.admin, balance |-> store.balance,
                          unlock |-> store.unlock] /\
                 past = [signer |-> past.signer] /\ now \in Nat
              /\ store.admin \in Address \cup {None}
            BY <1>2 DEF Emergency_Inv, Emergency_Types
        <3>2. PICK b, k :
                  b = [store.balance EXCEPT ![u] = 0] /\ k = [store.unlock EXCEPT ![u] = None]
            OBVIOUS
        <3>3. store' = [store EXCEPT !.balance = b, !.unlock = k] /\ past' = [signer |-> v] /\
                  now' = now
            BY <2>5, <3>2 DEF Emergency_emergency_withdraw, Emergency_empties, WriteAnd
        <3>4. store' = [admin |-> store.admin, balance |-> b, unlock |-> k]
            BY <3>1, <3>3
        <3>5. b \in [Address -> Int] /\ k \in [Address -> Int \cup {None}] /\
                  \A w \in Address : w # u => k[w] = store.unlock[w] /\ b[w] = store.balance[w]
            BY <3>1, <3>2
        <3>6. Emergency_Inv'
            BY <3>1, <3>3, <3>4, <3>5 DEF Emergency_Inv, Emergency_Types
        <3>7. Emergency_ByOwnerOrAdmin
            BY <2>5, <3>1, <3>3, <3>4, <3>5, ContractAssumption
               DEF Emergency_ByOwnerOrAdmin, Emergency_emergency_withdraw
        <3> QED BY <3>6, <3>7
    <2>6. CASE CloseLedger
        <3>1. /\ store' = store
              /\ past' = past
              /\ now' = now + 1
            BY <1>2, <2>6 DEF CloseLedger, Emergency_Inv, Emergency_Types
        <3> QED BY <1>2, <3>1, ContractAssumption DEF Emergency_Inv, Emergency_Types,
               Emergency_ByOwnerOrAdmin
    <2> QED BY <2>1, <2>2, <2>3, <2>4, <2>5, <2>6
<1>3. Emergency_Inv /\ UNCHANGED vars => Emergency_Inv' /\ Emergency_ByOwnerOrAdmin
    BY DEF Emergency_Inv, Emergency_Types, Emergency_ByOwnerOrAdmin, vars
<1> QED BY <1>1, <1>2, <1>3

-----------------------------------------------------------------------------
(* withdraw_rounding_leak.                                                 *)
Leak_Types ==
    /\ store \in [assets : Int \cup {None}, total : Int \cup {None}, shares : [Address -> Int]]
    /\ past = [none |-> past.none]

Leak_Inv == Leak_Types

\* Every deployment is in Leak_Inv; a call of the corrected contract, or none,
\* stays in it.
LEMMA Leak_Correct ==
    /\ now = 0 /\ Leak_Init => Leak_Inv
    /\ Secure /\ Leak_Inv /\ Leak_Next => Leak_Inv' /\ PriceKept
    /\ Leak_Inv /\ UNCHANGED vars => Leak_Inv' /\ PriceKept
<1>1. now = 0 /\ Leak_Init => Leak_Inv
    BY DEF Leak_Init, Leak_Inv, Leak_Types, Pool_of_shares, Zero
<1>2. ASSUME Secure, Leak_Inv, Leak_Next PROVE Leak_Inv' /\ PriceKept
    <2>1. PICK u \in Address, n \in 0..3, m \in 1..2 :
              Leak_initialize(n, m) \/ Leak_seed_shares(u, m) \/ Leak_withdraw(u, n)
        BY <1>2, Zenon DEF Leak_Next, Lib, Secure
    <2>2. CASE Leak_initialize(n, m)
        <3>1. /\ n \in Int /\ m \in Int /\ n > 0 /\ m > 0 /\ store.assets = None /\ past' = past
              /\ store' = [store EXCEPT !.assets = n, !.total = m]
            BY <2>2 DEF Leak_initialize, Seeded, Write
        <3>2. store' = [assets |-> n, total |-> m, shares |-> store.shares]
            BY <1>2, <3>1 DEF Leak_Inv, Leak_Types
        <3>3. Leak_Inv'
            BY <1>2, <3>1, <3>2 DEF Leak_Inv, Leak_Types
        <3>4. PriceKept
            BY <3>1 DEF PriceKept
        <3> QED BY <3>3, <3>4
    <2>3. CASE Leak_seed_shares(u, m)
        <3>1. /\ store' = [assets |-> store.assets, total |-> store.total,
                           shares |-> [store.shares EXCEPT ![u] = m]]
              /\ past' = past
            BY <1>2, <2>3 DEF Leak_seed_shares, Write, Leak_Inv, Leak_Types
        <3> QED BY <1>2, <3>1, ContractAssumption DEF Leak_Inv, Leak_Types, PriceKept
    <2>4. CASE Leak_withdraw(u, n)
        <3>1. /\ u \in Address /\ n \in Nat /\ n > 0 /\ store.shares \in [Address -> Int] /\
                 past = [none |-> past.none]
              /\ store.assets \in Int \cup {None} /\ store.total \in Int \cup {None}
            BY <1>2, <2>4 DEF Leak_Inv, Leak_Types, Leak_withdraw
        <3>2. PICK a \in Int, t \in Int : a = Assets /\ t = Total
            BY <3>1 DEF Assets, Total
        <3>3. PICK q \in Int : q = Quotient(n * t + a - 1, a)
            <4>1. n * t + a - 1 \in Int /\ a # 0
                BY <3>1, <3>2, <2>4 DEF Leak_withdraw
            <4> QED BY <4>1, QuotientInt
        <3>4. PICK s : s = [store.shares EXCEPT ![u] = store.shares[u] + (-q)]
            OBVIOUS
        <3>5. store' = [assets |-> a + (-n), total |-> t + (-q), shares |-> s] /\ past' = past
            BY <2>4, <3>2, <3>3, <3>4 DEF Leak_withdraw, Leak_burns, Exchange, Write
        <3>6. s \in [Address -> Int] /\ -n \in Int /\ -q \in Int
            BY <3>1, <3>4
        <3>7. Leak_Inv'
            BY <3>1, <3>5, <3>6 DEF Leak_Inv, Leak_Types
        <3>8. PriceKept
            <4> SUFFICES ASSUME a > 0, t >= 0 PROVE NotDiluted(a, t, a + (-n), t + (-q))
                BY <3>2, <3>5 DEF PriceKept
            <4>1. a * q >= n * t
                <5>1. a \in Nat \ {0} /\ t \in Nat
                    BY <3>2
                <5> QED BY <3>1, <3>3, <5>1, CeilShares
            <4>2. a * (-q) <= (-n) * t
                BY <3>1, <4>1
            <4> QED BY <3>6, <4>2, PaidFor
        <3> QED BY <3>7, <3>8
    <2> QED BY <2>1, <2>2, <2>3, <2>4
<1>3. Leak_Inv /\ UNCHANGED vars => Leak_Inv' /\ PriceKept
    BY DEF Leak_Inv, Leak_Types, PriceKept, vars, Assets, Total
<1> QED BY <1>1, <1>2, <1>3

-----------------------------------------------------------------------------
(* zero_share_rounding.                                                    *)
ZeroShare_Types ==
    /\ store \in [assets : (Nat \ {0}) \cup {None}, total : (Nat \ {0}) \cup {None},
                  shares : [Address -> Int]]
    /\ past = [none |-> past.none]

ZeroShare_Inv == ZeroShare_Types

\* Every deployment is in ZeroShare_Inv; a call of the corrected contract, or
\* none, stays in it.
LEMMA ZeroShare_Correct ==
    /\ now = 0 /\ ZeroShare_Init => ZeroShare_Inv
    /\ Secure /\ ZeroShare_Inv /\ ZeroShare_Next => ZeroShare_Inv' /\ ZeroShare_DepositorGains
    /\ ZeroShare_Inv /\ UNCHANGED vars => ZeroShare_Inv' /\ ZeroShare_DepositorGains
<1>1. now = 0 /\ ZeroShare_Init => ZeroShare_Inv
    BY DEF ZeroShare_Init, ZeroShare_Inv, ZeroShare_Types, Pool_of_shares, Zero
<1>2. ASSUME Secure, ZeroShare_Inv, ZeroShare_Next PROVE ZeroShare_Inv' /\ ZeroShare_DepositorGains
    <2>1. PICK u \in Address, n \in 0..3, m \in 1..2 :
              ZeroShare_initialize(n, m) \/ ZeroShare_deposit(u, n)
        BY <1>2, Zenon DEF ZeroShare_Next, Lib, Secure
    <2>2. CASE ZeroShare_initialize(n, m)
        <3>1. /\ n \in Int /\ m \in Int /\ n > 0 /\ m > 0 /\ store.assets = None /\ past' = past
              /\ store' = [store EXCEPT !.assets = n, !.total = m]
            BY <2>2 DEF ZeroShare_initialize, Seeded, Write
        <3>2. store' = [assets |-> n, total |-> m, shares |-> store.shares]
            BY <1>2, <3>1 DEF ZeroShare_Inv, ZeroShare_Types
        <3>3. ZeroShare_Inv'
            BY <1>2, <3>1, <3>2 DEF ZeroShare_Inv, ZeroShare_Types
        <3>4. ZeroShare_DepositorGains
            BY <3>1 DEF ZeroShare_DepositorGains
        <3> QED BY <3>3, <3>4
    <2>3. CASE ZeroShare_deposit(u, n)
        <3>1. /\ u \in Address /\ n \in Nat /\ n > 0 /\ store.shares \in [Address -> Int] /\
                 past = [none |-> past.none]
              /\ store.assets \in (Nat \ {0}) \cup {None} /\ store.total \in (Nat \ {0}) \cup {None}
            BY <1>2, <2>3 DEF ZeroShare_Inv, ZeroShare_Types, ZeroShare_deposit,
               ZeroShare_deposit_lib
        <3>2. PICK a \in Nat \ {0}, t \in Nat \ {0} : a = Assets /\ t = Total
            BY <3>1 DEF Assets, Total
        <3>3. PICK q \in Nat : q = ZeroShare_minted(n) /\ a * q <= n * t
            BY <3>1, <3>2, FloorShares DEF ZeroShare_minted
        <3>4. PICK s : s = [store.shares EXCEPT ![u] = store.shares[u] + q]
            OBVIOUS
        <3>5. store' = [assets |-> a + n, total |-> t + q, shares |-> s] /\ past' = past /\ q > 0
            BY <2>3, <3>2, <3>3, <3>4 DEF ZeroShare_deposit, ZeroShare_deposit_lib, Exchange, Write
        <3>6. s \in [Address -> Int] /\ s[u] > store.shares[u]
            BY <3>1, <3>4, <3>5
        <3>7. ZeroShare_Inv'
            BY <3>1, <3>5, <3>6 DEF ZeroShare_Inv, ZeroShare_Types
        <3>8. NotDiluted(a, t, a + n, t + q)
            BY <3>1, <3>3, PaidFor
        <3>9. PriceKept
            BY <3>2, <3>5, <3>8 DEF PriceKept
        <3>10. ZeroShare_DepositorGains
            BY <3>1, <3>5, <3>6, <3>9 DEF ZeroShare_DepositorGains, ZeroShare_shares_of
        <3> QED BY <3>7, <3>10
    <2> QED BY <2>1, <2>2, <2>3
<1>3. ZeroShare_Inv /\ UNCHANGED vars => ZeroShare_Inv' /\ ZeroShare_DepositorGains
    BY DEF ZeroShare_Inv, ZeroShare_Types, ZeroShare_DepositorGains, vars, ZeroShare_shares_of
<1> QED BY <1>1, <1>2, <1>3

-----------------------------------------------------------------------------
(* free_share_rounding.                                                    *)
FreeShare_Types ==
    /\ store \in [assets : (Nat \ {0}) \cup {None}, total : (Nat \ {0}) \cup {None},
                  shares : [Address -> Int]]
    /\ past = [none |-> past.none]

\* Assets and shares come into storage together.
FreeShare_Together ==
    store.assets = None <=> store.total = None

FreeShare_Inv == FreeShare_Types /\ FreeShare_Together

\* Every deployment is in FreeShare_Inv; a call of the corrected contract, or
\* none, stays in it.
LEMMA FreeShare_Correct ==
    /\ now = 0 /\ FreeShare_Init => FreeShare_Inv
    /\ Secure /\ FreeShare_Inv /\ FreeShare_Next => FreeShare_Inv' /\ FreeShare_PriceKept
    /\ FreeShare_Inv /\ UNCHANGED vars => FreeShare_Inv' /\ FreeShare_PriceKept
<1>1. now = 0 /\ FreeShare_Init => FreeShare_Inv
    BY DEF FreeShare_Init, FreeShare_Inv, FreeShare_Types, Pool_of_shares, Zero, FreeShare_Together
<1>2. ASSUME Secure, FreeShare_Inv, FreeShare_Next PROVE FreeShare_Inv' /\ FreeShare_PriceKept
    <2>1. PICK u \in Address, n \in 0..3, m \in 1..3 :
              FreeShare_initialize(n, m) \/ FreeShare_mint(u, n)
        BY <1>2, Zenon DEF FreeShare_Next, Lib, Secure
    <2>2. CASE FreeShare_initialize(n, m)
        <3>1. /\ n \in Int /\ m \in Int /\ n > 0 /\ m > 0 /\ store.assets = None /\ past' = past
              /\ store' = [store EXCEPT !.assets = n, !.total = m]
            BY <2>2 DEF FreeShare_initialize, Seeded, Write
        <3>2. store' = [assets |-> n, total |-> m, shares |-> store.shares]
            BY <1>2, <3>1 DEF FreeShare_Inv, FreeShare_Types
        <3>3. FreeShare_Inv'
            BY <1>2, <3>1, <3>2, ContractAssumption
               DEF FreeShare_Inv, FreeShare_Types, FreeShare_Together
        <3>4. FreeShare_PriceKept
            BY <1>2, <3>1 DEF FreeShare_PriceKept, FreeShare_Inv, FreeShare_Together
        <3> QED BY <3>3, <3>4
    <2>3. CASE FreeShare_mint(u, n)
        <3>1. /\ u \in Address /\ n \in Nat /\ n > 0 /\ store.shares \in [Address -> Int] /\
                 past = [none |-> past.none]
              /\ store.assets \in (Nat \ {0}) \cup {None} /\ store.total \in (Nat \ {0}) \cup {None}
            BY <1>2, <2>3 DEF FreeShare_Inv, FreeShare_Types, FreeShare_mint, FreeShare_issues
        <3>2. PICK a \in Nat \ {0}, t \in Nat \ {0} : a = Assets /\ t = Total
            BY <3>1 DEF Assets, Total
        <3>3. PICK q \in Nat : q = Quotient(n * a + t - 1, t) /\ t * q >= n * a
            BY <3>1, <3>2, CeilShares
        <3>4. PICK s : s = [store.shares EXCEPT ![u] = store.shares[u] + n]
            OBVIOUS
        <3>5. store' = [assets |-> a + q, total |-> t + n, shares |-> s] /\ past' = past
            BY <2>3, <3>2, <3>3, <3>4 DEF FreeShare_mint, FreeShare_issues, Exchange, Write
        <3>6. s \in [Address -> Int]
            BY <3>1, <3>4
        <3>7. FreeShare_Inv'
            BY <3>1, <3>5, <3>6, ContractAssumption
               DEF FreeShare_Inv, FreeShare_Types, FreeShare_Together
        <3>8. NotDiluted(a, t, a + q, t + n)
            <4>1. a * n <= q * t
                BY <3>1, <3>3
            <4> QED BY <3>1, <4>1, PaidFor
        <3>9. FreeShare_PriceKept
            BY <3>2, <3>5, <3>8 DEF FreeShare_PriceKept
        <3> QED BY <3>7, <3>9
    <2> QED BY <2>1, <2>2, <2>3
<1>3. FreeShare_Inv /\ UNCHANGED vars => FreeShare_Inv' /\ FreeShare_PriceKept
    BY DEF FreeShare_Inv, FreeShare_Types, FreeShare_PriceKept, FreeShare_Together, vars,
       Assets, Total
<1> QED BY <1>1, <1>2, <1>3

-----------------------------------------------------------------------------
(* empty_vault_share_inflation.                                            *)
Inflation_Types ==
    /\ store \in [assets : Nat, total : Nat, shares : [Address -> Int]]
    /\ past = [none |-> past.none]

Inflation_Inv == Inflation_Types

\* Every deployment is in Inflation_Inv; a call of the corrected contract, or
\* none, stays in it.
LEMMA Inflation_Correct ==
    /\ now = 0 /\ Inflation_Init => Inflation_Inv
    /\ Secure /\ Inflation_Inv /\ Inflation_Next => Inflation_Inv' /\ Inflation_PriceKept
    /\ Inflation_Inv /\ UNCHANGED vars => Inflation_Inv' /\ Inflation_PriceKept
<1>1. now = 0 /\ Inflation_Init => Inflation_Inv
    BY DEF Inflation_Init, Inflation_Inv, Inflation_Types, Zero
<1>2. ASSUME Secure, Inflation_Inv, Inflation_Next PROVE Inflation_Inv' /\ Inflation_PriceKept
    <2>1. PICK u \in Address, n \in 0..2 : Inflation_deposit(u, n) \/ Inflation_donate(n)
        BY <1>2, Zenon DEF Inflation_Next, Lib, Secure
    <2>2. CASE Inflation_deposit(u, n)
        <3>1. /\ u \in Address /\ n \in Nat /\ n > 0 /\ store.shares \in [Address -> Int] /\
                 past = [none |-> past.none]
              /\ store.assets \in Nat /\ store.total \in Nat
            BY <1>2, <2>2 DEF Inflation_Inv, Inflation_Types, Inflation_deposit, Inflation_mints
        <3>2. PICK a \in Nat \ {0}, t \in Nat :
                  a = store.assets + VIRTUAL_OFFSET /\ t = store.total + VIRTUAL_OFFSET
            BY <3>1 DEF VIRTUAL_OFFSET
        <3>3. PICK q \in Nat : q = Quotient(n * t, a) /\ a * q <= n * t
            BY <3>1, FloorShares
        <3>4. PICK s : s = [store.shares EXCEPT ![u] = store.shares[u] + q]
            OBVIOUS
        <3>5. store' = [assets |-> store.assets + n, total |-> store.total + q, shares |-> s] /\
                  past' = past
            BY <2>2, <3>2, <3>3, <3>4 DEF Inflation_deposit, Inflation_mints, Write
        <3>6. s \in [Address -> Int]
            BY <3>1, <3>4
        <3>7. Inflation_Inv'
            BY <3>1, <3>5, <3>6 DEF Inflation_Inv, Inflation_Types
        <3>8. NotDiluted(a, t, a + n, t + q)
            BY <3>1, <3>3, PaidFor
        <3>9. a + n = store'.assets + VIRTUAL_OFFSET /\ t + q = store'.total + VIRTUAL_OFFSET
            BY <3>1, <3>2, <3>5 DEF VIRTUAL_OFFSET
        <3>10. Inflation_PriceKept
            BY <3>2, <3>8, <3>9 DEF Inflation_PriceKept
        <3> QED BY <3>7, <3>10
    <2>3. CASE Inflation_donate(n)
        <3>1. /\ n \in Nat /\ store.shares \in [Address -> Int] /\ past = [none |-> past.none] /\
                 store.assets \in Nat /\ store.total \in Nat
              /\ store = [assets |-> store.assets, total |-> store.total, shares |-> store.shares]
            BY <1>2 DEF Inflation_Inv, Inflation_Types
        <3>2. PICK a \in Nat \ {0}, t \in Nat :
                  a = store.assets + VIRTUAL_OFFSET /\ t = store.total + VIRTUAL_OFFSET
            BY <3>1 DEF VIRTUAL_OFFSET
        <3>3. store' = [assets |-> store.assets + n, total |-> store.total,
                        shares |-> store.shares] /\
                  past' = past
            BY <2>3, <3>1 DEF Inflation_donate, Write
        <3>4. Inflation_Inv'
            BY <3>1, <3>3 DEF Inflation_Inv, Inflation_Types
        <3>5. NotDiluted(a, t, a + n, t + 0)
            <4>1. a * 0 <= n * t
                BY <3>1
            <4> QED BY <3>1, <4>1, PaidFor
        <3>6. a + n = store'.assets + VIRTUAL_OFFSET /\ t + 0 = store'.total + VIRTUAL_OFFSET
            BY <3>1, <3>2, <3>3 DEF VIRTUAL_OFFSET
        <3>7. Inflation_PriceKept
            BY <3>2, <3>5, <3>6 DEF Inflation_PriceKept
        <3> QED BY <3>4, <3>7
    <2> QED BY <2>1, <2>2, <2>3
<1>3. Inflation_Inv /\ UNCHANGED vars => Inflation_Inv' /\ Inflation_PriceKept
    <2> SUFFICES ASSUME Inflation_Inv, UNCHANGED vars PROVE Inflation_Inv' /\ Inflation_PriceKept
        OBVIOUS
    <2>1. Inflation_Inv'
        BY DEF Inflation_Inv, Inflation_Types, vars
    <2>2. store' = store /\ store.assets + VIRTUAL_OFFSET \in Int /\
              store.total + VIRTUAL_OFFSET \in Int
        BY DEF Inflation_Inv, Inflation_Types, VIRTUAL_OFFSET, vars
    <2> QED BY <2>1, <2>2, NoChange DEF Inflation_PriceKept
<1> QED BY <1>1, <1>2, <1>3

-----------------------------------------------------------------------------
(* vault_donation_accounting.                                              *)
\* At par as many shares are minted as assets come in.
LEMMA Donation_Par == ASSUME NEW t \in Nat \ {0}, NEW n \in Nat PROVE Quotient(n * t, t) = n
<1>1. PICK x \in Nat : x = n * t
    OBVIOUS
<1>2. PICK q \in Nat : q = x \div t
    OBVIOUS
<1>3. t * q <= x /\ x < t * q + t
    BY <1>2
<1>4. t * q < t * (n + 1) /\ t * n < t * (q + 1)
    BY <1>1, <1>3
<1>5. q < n + 1 /\ n < q + 1
    BY <1>4
<1> QED BY <1>1, <1>2, <1>5, QuotientIsDiv

Donation_Types ==
    /\ store \in [assets : Nat, total : Nat, shares : [Address -> Int]]
    /\ past \in [deposited : [Address -> Int]]

\* Booked assets and shares are at par: a donation is not booked.
Donation_OneEach ==
    store.assets = store.total

Donation_Inv == Donation_Types /\ Donation_OneEach /\ Donation_SharesAreDeposits

\* Every deployment is in Donation_Inv; a call of the corrected contract, or
\* none, stays in it.
LEMMA Donation_Correct ==
    /\ now = 0 /\ Donation_Init => Donation_Inv
    /\ Secure /\ Donation_Inv /\ Donation_Next => Donation_Inv'
    /\ Donation_Inv /\ UNCHANGED vars => Donation_Inv'
<1>1. now = 0 /\ Donation_Init => Donation_Inv
    BY DEF Donation_Init, Donation_Inv, Donation_Types, Donation_OneEach,
       Donation_SharesAreDeposits, Donation_shares_of, Zero
<1>2. ASSUME Secure, Donation_Inv, Donation_Next PROVE Donation_Inv'
    <2>1. PICK u \in Address, n \in 0..2 : Donation_deposit(u, n) \/ Donation_donate(n)
        BY <1>2, Zenon DEF Donation_Next, Lib, Secure
    <2>2. CASE Donation_deposit(u, n)
        <3>1. /\ u \in Address /\ n \in Nat /\ n > 0 /\ store.shares \in [Address -> Int] /\
                 past = [deposited |-> past.deposited]
              /\ past.deposited \in [Address -> Int] /\ store.assets \in Nat /\
                 store.total = store.assets
              /\ \A v \in Address : store.shares[v] = past.deposited[v]
            BY <1>2, <2>2 DEF Donation_Inv, Donation_Types, Donation_deposit, Donation_OneEach,
               Donation_SharesAreDeposits, Donation_shares_of
        <3>2. (IF store.total = 0 THEN n ELSE Quotient(n * store.total, store.assets)) = n
            <4>1. store.total # 0 => store.total \in Nat \ {0}
                BY <3>1
            <4> QED BY <3>1, <4>1, Donation_Par
        <3>3. PICK s, d :
                  s = [store.shares EXCEPT ![u] = store.shares[u] + n] /\
                  d = [past.deposited EXCEPT ![u] = past.deposited[u] + n]
            OBVIOUS
        <3>4. store' = [assets |-> store.assets + n, total |-> store.total + n, shares |-> s] /\
                  past' = [past EXCEPT !.deposited = d]
            BY <2>2, <3>2, <3>3 DEF Donation_deposit, WriteAnd
        <3>5. past' = [deposited |-> d]
            BY <3>1, <3>4
        <3>6. s \in [Address -> Int] /\ d \in [Address -> Int] /\ \A v \in Address : s[v] = d[v]
            BY <3>1, <3>3
        <3>7. Donation_Types'
            BY <3>1, <3>4, <3>5, <3>6 DEF Donation_Types
        <3> QED BY <3>1, <3>4, <3>5, <3>6, <3>7
               DEF Donation_Inv, Donation_OneEach, Donation_SharesAreDeposits, Donation_shares_of
    <2>3. CASE Donation_donate(n)
        <3>1. /\ store' = store
              /\ past' = past
              /\ n > 0
              /\ store.assets + n <= MaxAssets
            BY <1>2, <2>3 DEF Donation_donate, Write, Donation_Inv, Donation_Types
        <3> QED BY <1>2, <3>1, ContractAssumption DEF Donation_Inv, Donation_Types,
               Donation_OneEach, Donation_SharesAreDeposits, Donation_shares_of, MaxAssets
    <2> QED BY <2>1, <2>2, <2>3
<1>3. Donation_Inv /\ UNCHANGED vars => Donation_Inv'
    BY DEF Donation_Inv, Donation_Types, Donation_OneEach, Donation_SharesAreDeposits, vars,
       Donation_shares_of
<1> QED BY <1>1, <1>2, <1>3

-----------------------------------------------------------------------------
(* deposit_cap_wrong_amount.                                               *)
Cap_Types ==
    /\ store = [credited |-> store.credited, token |-> store.token]
    /\ store.credited \in Int
    /\ past \in [held : Int, wallet : Int]

Cap_Inv == Cap_Types /\ Cap_WithinCap

\* Every deployment is in Cap_Inv; a call of the corrected contract, or none,
\* stays in it.
LEMMA Cap_Correct ==
    /\ now = 0 /\ Cap_Init => Cap_Inv
    /\ Secure /\ Cap_Inv /\ Cap_Next => Cap_Inv'
    /\ Cap_Inv /\ UNCHANGED vars => Cap_Inv'
<1>1. now = 0 /\ Cap_Init => Cap_Inv
    BY ContractAssumption, SoloAccount DEF Cap_Init, Cap_Inv, Cap_Types, Cap_WithinCap,
       Cap_WithinCap, Cap_total_credited, DEPOSIT_CAP, Cap_Init
<1>2. ASSUME Secure, Cap_Inv, Cap_Next PROVE Cap_Inv'
    <2>1. PICK u \in Solo, n \in 0..3 : Cap_token_mint(n) \/ Cap_initialize(u) \/ Cap_deposit(n)
        BY <1>2, Zenon DEF Cap_Next, Lib, Secure
    <2>2. CASE Cap_token_mint(n)
        <3>1. /\ store' = store
              /\ past' = [held |-> past.held, wallet |-> past.wallet + n]
              /\ past.wallet + n \in 0..6
            BY <1>2, <2>2 DEF Cap_token_mint, Observe, Cap_Inv, Cap_Types
        <3> QED BY <1>2, <3>1, ContractAssumption, SoloAccount DEF Cap_Inv, Cap_Types,
               Cap_WithinCap, Cap_total_credited, DEPOSIT_CAP
    <2>3. CASE Cap_initialize(u)
        <3>1. /\ store' = [credited |-> store.credited, token |-> u]
              /\ past' = past
            BY <1>2, <2>3 DEF Cap_initialize, Write, Cap_Inv, Cap_Types
        <3> QED BY <1>2, <3>1, ContractAssumption, SoloAccount DEF Cap_Inv, Cap_Types,
               Cap_WithinCap, Cap_total_credited, DEPOSIT_CAP
    <2>4. CASE Cap_deposit(n)
        <3>1. n \in Int /\ store = [credited |-> store.credited, token |-> store.token] /\
                  store.credited \in Int /\ past.held \in Int /\ past.wallet \in Int
              /\ store.credited = past.held
            BY <1>2 DEF Cap_Inv, Cap_Types, Cap_WithinCap, Cap_total_credited
        <3>2. PICK r \in Int : r = Quotient(n * 90, 100)
            BY <3>1, QuotientInt
        <3>3. Cap_token_transfer(n) = [held |-> past.held + r, wallet |-> past.wallet - n]
            BY <3>2 DEF Cap_token_transfer
        <3>4. PICK c \in Int :
                  c = store.credited + (Cap_token_transfer(n).held - past.held) /\ c = past.held + r
            BY <3>1, <3>3
        <3>5. store' = [store EXCEPT !.credited = c] /\ past' = Cap_token_transfer(n) /\
                  c <= DEPOSIT_CAP
            BY <2>4, <3>4 DEF Cap_deposit, WriteAnd
        <3>6. store' = [credited |-> c, token |-> store.token] /\
                  past' = [held |-> past.held + r, wallet |-> past.wallet - n]
            BY <3>1, <3>3, <3>5
        <3> QED BY <3>1, <3>2, <3>4, <3>5, <3>6
               DEF Cap_Inv, Cap_Types, Cap_WithinCap, Cap_total_credited
    <2> QED BY <2>1, <2>2, <2>3, <2>4
<1>3. Cap_Inv /\ UNCHANGED vars => Cap_Inv'
    BY DEF Cap_Inv, Cap_Types, Cap_WithinCap, vars, Cap_total_credited
<1> QED BY <1>1, <1>2, <1>3

-----------------------------------------------------------------------------
(* sequence_as_timestamp.                                                  *)
Units_Types ==
    /\ now \in Nat
    /\ store \in [balance : Int, unlock : Int \cup {None}]
    /\ past \in [due : Int \cup {None}]

\* The unlock time on record is the time due, both in seconds.
Units_UnlockIsDue ==
    store.unlock = past.due

Units_Inv == Units_Types /\ Units_UnlockIsDue

\* So a withdrawal opens when due.
LEMMA Units_Promise == Secure /\ Units_Inv => Units_OpenWhenDue
BY DEF Secure, Lib, Units_Inv, Units_UnlockIsDue, Units_OpenWhenDue, Units_open, Units_open_lib

\* Every deployment is in Units_Inv; a call of the corrected contract, or none,
\* stays in it.
LEMMA Units_Correct ==
    /\ now = 0 /\ Units_Init => Units_Inv
    /\ Secure /\ Units_Inv /\ Units_Next => Units_Inv'
    /\ Units_Inv /\ UNCHANGED vars => Units_Inv'
<1>1. now = 0 /\ Units_Init => Units_Inv
    BY ContractAssumption DEF Units_Init, Units_Inv, Units_Types, Units_UnlockIsDue, Units_Init
<1>2. ASSUME Secure, Units_Inv, Units_Next PROVE Units_Inv'
    <2>1. PICK n \in -1..1, duration \in 0..2 :
              Units_deposit(n, duration) \/ Units_withdraw \/ CloseLedger
        BY <1>2, Zenon DEF Units_Next, Lib, Secure
    <2>2. CASE Units_deposit(n, duration)
        <3>1. /\ store' = [balance |-> store.balance + n, unlock |-> (now + duration)]
              /\ past' = [due |-> now + duration]
              /\ now' = now
              /\ store.balance + n \in Sums
            BY <1>2, <2>2 DEF Units_deposit, Units_deposits, WriteAnd, Units_Inv, Units_Types
        <3> QED BY <1>2, <3>1, ContractAssumption DEF Units_Inv, Units_Types, Units_UnlockIsDue
    <2>3. CASE Units_withdraw
        <3>1. /\ store' = [balance |-> 0, unlock |-> None]
              /\ past' = [due |-> None]
              /\ now' = now
              /\ Units_open
            BY <1>2, <2>3 DEF Units_withdraw, Units_withdraws, WriteAnd, Units_Inv, Units_Types
        <3> QED BY <1>2, <3>1, ContractAssumption DEF Units_Inv, Units_Types, Units_UnlockIsDue,
               Units_open
    <2>4. CASE CloseLedger
        <3>1. /\ store' = store
              /\ past' = past
              /\ now' = now + 1
            BY <1>2, <2>4 DEF CloseLedger, Units_Inv, Units_Types
        <3> QED BY <1>2, <3>1, ContractAssumption DEF Units_Inv, Units_Types, Units_UnlockIsDue
    <2> QED BY <2>1, <2>2, <2>3, <2>4
<1>3. Units_Inv /\ UNCHANGED vars => Units_Inv'
    BY DEF Units_Inv, Units_Types, Units_UnlockIsDue, vars
<1> QED BY <1>1, <1>2, <1>3

\* A transfer that reads both balances first changes those two only.
LEMMA ReadThenWriteMoves ==
    ASSUME NEW b \in [Address -> Int], NEW op \in TransferOps
    PROVE  /\ ReadThenWrite(b, op) \in [Address -> Int]
           /\ \A v \in Address : v # op.from /\ v # op.to => ReadThenWrite(b, op)[v] = b[v]
<1>1. op.from \in Address /\ op.to \in Address /\ op.amount \in Int
    BY DEF TransferOps
<1>2. PICK f \in Address, t \in Address, n \in Int : f = op.from /\ t = op.to /\ n = op.amount
    BY <1>1
<1>3. PICK x \in Int, y \in Int : x = b[f] - n /\ y = b[t] + n
    OBVIOUS
<1>4. ReadThenWrite(b, op) = [[b EXCEPT ![f] = x] EXCEPT ![t] = y]
    BY <1>2, <1>3 DEF ReadThenWrite
<1> QED BY <1>2, <1>4

\* A transfer that writes the payer before it reads the payee keeps the total,
\* to oneself too.
LEMMA WriteThenReadMoves ==
    ASSUME NEW b \in [Address -> Int], NEW op \in TransferOps
    PROVE  /\ WriteThenRead(b, op) \in [Address -> Int]
           /\ SumFunction(WriteThenRead(b, op)) = SumFunction(b)
<1>1. op.from \in Address /\ op.to \in Address /\ op.amount \in Int
    BY DEF TransferOps
<1>2. PICK f \in Address, t \in Address, n \in Int : f = op.from /\ t = op.to /\ n = op.amount
    BY <1>1
<1>3. PICK c : c = Taken(b, f, n)
    OBVIOUS
<1>4. c \in [Address -> Int] /\ SumFunction(b) \in Int /\ SumFunction(c) = SumFunction(b) - n
    BY <1>3, TakenFrom
<1>5. PICK d : d = Added(c, t, n)
    OBVIOUS
<1>6. d \in [Address -> Int] /\ SumFunction(d) = SumFunction(c) + n
    BY <1>4, <1>5, AddedTo
<1>7. WriteThenRead(b, op) = d
    BY <1>2, <1>3, <1>5 DEF WriteThenRead, Added, Taken
<1> QED BY <1>4, <1>6, <1>7

-----------------------------------------------------------------------------
(* caller_supplied_ledger.                                                 *)
Supplied_Types ==
    /\ past \in [early : BOOLEAN]

Supplied_Inv == Supplied_Types /\ Supplied_VestsByRealLedgers

\* Every deployment is in Supplied_Inv; a call of the corrected contract, or
\* none, stays in it.
LEMMA Supplied_Correct ==
    /\ now = 0 /\ Supplied_Init => Supplied_Inv
    /\ Secure /\ Supplied_Inv /\ Supplied_Next => Supplied_Inv'
    /\ Supplied_Inv /\ UNCHANGED vars => Supplied_Inv'
<1>1. now = 0 /\ Supplied_Init => Supplied_Inv
    <2> SUFFICES ASSUME Supplied_Init PROVE Supplied_Inv
        OBVIOUS
    <2>1. past = [early |-> FALSE]
        BY DEF Supplied_Init
    <2>2. past \in [early : BOOLEAN] /\ past.early = FALSE
        BY <2>1
    <2> QED BY <2>2 DEF Supplied_Inv, Supplied_Types, Supplied_VestsByRealLedgers
<1>2. ASSUME Secure, Supplied_Inv, Supplied_Next PROVE Supplied_Inv'
    <2>1. \/ CloseLedger
          \/ \E n \in {-1, 1, 2}, duration \in {0, 2}, cliff \in 0..1,
             ledger \in 0..4 : Supplied_deposit(n, duration, cliff) \/ Supplied_withdraw(n, ledger)
        BY <1>2, Zenon DEF Supplied_Next, Lib, Secure
    <2>2. CASE CloseLedger
        <3> QED BY <1>2, <2>2
               DEF CloseLedger, Supplied_Inv, Supplied_Types, Supplied_VestsByRealLedgers
    <2>3. ASSUME NEW n \in {-1, 1, 2}, NEW duration \in {0, 2}, NEW cliff \in 0..1, NEW ledger
                 \in 0..4,
                 Supplied_deposit(n, duration, cliff)
          PROVE  Supplied_Inv'
        <3> QED BY <1>2, <2>3
               DEF Supplied_deposit, Write, Supplied_Inv, Supplied_Types,
               Supplied_VestsByRealLedgers
    <2>4. ASSUME NEW n \in {-1, 1, 2}, NEW duration \in {0, 2}, NEW cliff \in 0..1, NEW ledger
                 \in 0..4,
                 Supplied_withdraw(n, ledger)
          PROVE  Supplied_Inv'
        <3>1. Supplied_allows(n, now) /\
                  past' = [early |-> past.early \/ ~Supplied_allows(n, now)] /\ ~past.early
            BY <1>2, <2>4 DEF Supplied_withdraw, Supplied_withdrawn, WriteAnd, Supplied_Inv,
               Supplied_VestsByRealLedgers
        <3>2. past' = [early |-> FALSE] /\ FALSE \in BOOLEAN
            BY <3>1, Zenon
        <3> QED BY <3>2 DEF Supplied_Inv, Supplied_Types, Supplied_VestsByRealLedgers
    <2> QED BY <2>1, <2>2, <2>3, <2>4
<1>3. Supplied_Inv /\ UNCHANGED vars => Supplied_Inv'
    BY DEF Supplied_Inv, Supplied_Types, Supplied_VestsByRealLedgers, vars
<1> QED BY <1>1, <1>2, <1>3

-----------------------------------------------------------------------------
(* batch_pause_bypass.                                                     *)
Batch_Types ==
    /\ store = [admin |-> store.admin, paused |-> store.paused, balance |-> store.balance]
    /\ store.paused \in BOOLEAN
    /\ store.balance \in [Address -> Int]
    /\ past \in [minted : Int]

Batch_Inv == Batch_Types

\* Every deployment is in Batch_Inv; a call of the corrected contract, or none,
\* stays in it.
LEMMA Batch_Correct ==
    /\ now = 0 /\ Batch_Init => Batch_Inv
    /\ Secure /\ Batch_Inv /\ Batch_Next => Batch_Inv' /\ Batch_PausedMovesNothing
    /\ Batch_Inv /\ UNCHANGED vars => Batch_Inv' /\ Batch_PausedMovesNothing
<1>1. now = 0 /\ Batch_Init => Batch_Inv
    BY DEF Batch_Init, Batch_Inv, Batch_Types, Zero
<1>2. ASSUME Secure, Batch_Inv, Batch_Next PROVE Batch_Inv' /\ Batch_PausedMovesNothing
    <2>1. \/ \E u \in Address, n \in {-1, 1} : Batch_initialize(u) \/ Batch_pause \/
             Batch_unpause \/ Batch_mint(u, n)
          \/ \E op1 \in TransferOps, op2 \in TransferOps : Batch_transfer(op1) \/
             Batch_batch_transfer(op1, op2)
        BY <1>2, Zenon DEF Batch_Next, Lib, Secure
    <2>2. ASSUME NEW u \in Address, NEW n \in {-1, 1},
                 Batch_initialize(u)
          PROVE  Batch_Inv' /\ Batch_PausedMovesNothing
        <3>1. /\ store' = [admin |-> u, paused |-> FALSE, balance |-> store.balance]
              /\ past' = past
              /\ store.admin = None
            BY <1>2, <2>2 DEF Batch_initialize, Write, Batch_Inv, Batch_Types
        <3> QED BY <1>2, <3>1, ContractAssumption DEF Batch_Inv, Batch_Types, TransferOps,
               Batch_PausedMovesNothing, Batch_is_paused, Batch_balance
    <2>3. ASSUME NEW u \in Address, NEW n \in {-1, 1},
                 Batch_pause
          PROVE  Batch_Inv' /\ Batch_PausedMovesNothing
        <3>1. /\ store' = [admin |-> store.admin, paused |-> TRUE, balance |-> store.balance]
              /\ past' = past
              /\ store.admin # None
            BY <1>2, <2>3 DEF Batch_pause, Write, Batch_Inv, Batch_Types
        <3> QED BY <1>2, <3>1, ContractAssumption DEF Batch_Inv, Batch_Types, TransferOps,
               Batch_PausedMovesNothing, Batch_is_paused, Batch_balance
    <2>4. ASSUME NEW u \in Address, NEW n \in {-1, 1},
                 Batch_unpause
          PROVE  Batch_Inv' /\ Batch_PausedMovesNothing
        <3>1. /\ store' = [admin |-> store.admin, paused |-> FALSE, balance |-> store.balance]
              /\ past' = past
              /\ store.admin # None
            BY <1>2, <2>4 DEF Batch_unpause, Write, Batch_Inv, Batch_Types
        <3> QED BY <1>2, <3>1, ContractAssumption DEF Batch_Inv, Batch_Types, TransferOps,
               Batch_PausedMovesNothing, Batch_is_paused, Batch_balance
    <2>5. ASSUME NEW u \in Address, NEW n \in {-1, 1},
                 Batch_mint(u, n)
          PROVE  Batch_Inv' /\ Batch_PausedMovesNothing
        <3>1. /\ store' = [admin |-> store.admin, paused |-> store.paused,
                           balance |-> [store.balance EXCEPT ![u] = @ + n]]
              /\ past' = [minted |-> past.minted + 1]
              /\ store.admin # None
              /\ store.balance[u] + n \in Holdings
              /\ past.minted < 2
            BY <1>2, <2>5 DEF Batch_mint, WriteAnd, Batch_Inv, Batch_Types
        <3> QED BY <1>2, <3>1, ContractAssumption DEF Batch_Inv, Batch_Types, TransferOps,
               Batch_PausedMovesNothing, Batch_is_paused, Batch_balance
    <2>6. ASSUME NEW op1 \in TransferOps, NEW op2 \in TransferOps,
                 Batch_transfer(op1)
          PROVE  Batch_Inv' /\ Batch_PausedMovesNothing
        <3>1. /\ store.balance \in [Address -> Int] /\ ~store.paused /\ past' = past
              /\ store = [admin |-> store.admin, paused |-> store.paused, balance |-> store.balance]
            BY <1>2, <2>6 DEF Batch_Inv, Batch_Types, Batch_transfer, Batch_internal_transfer,
               Batch_check_not_paused, Batch_is_paused, Batch_set, Write
        <3>2. PICK b : b = ReadThenWrite(store.balance, op1)
            OBVIOUS
        <3>3. b \in [Address -> Int]
            BY <3>1, <3>2, ReadThenWriteMoves
        <3>4. store' = [store EXCEPT !.balance = b]
            BY <2>6, <3>2 DEF Batch_transfer, Batch_set, Write
        <3>5. store' = [admin |-> store.admin, paused |-> store.paused, balance |-> b]
            BY <3>1, <3>4
        <3> QED BY <1>2, <3>1, <3>3, <3>5
               DEF Batch_Inv, Batch_Types, Batch_PausedMovesNothing, Batch_is_paused
    <2>7. ASSUME NEW op1 \in TransferOps, NEW op2 \in TransferOps,
                 Batch_batch_transfer(op1, op2)
          PROVE  Batch_Inv' /\ Batch_PausedMovesNothing
        <3>1. /\ store.balance \in [Address -> Int] /\ ~store.paused /\ past' = past
              /\ store = [admin |-> store.admin, paused |-> store.paused, balance |-> store.balance]
            BY <1>2, <2>7 DEF Batch_Inv, Batch_Types, Batch_batch_transfer, Batch_internal_transfer,
               Batch_check_not_paused, Batch_is_paused, Batch_set, Write
        <3>2. PICK b : b = ReadThenWrite(ReadThenWrite(store.balance, op1), op2)
            OBVIOUS
        <3>3. b \in [Address -> Int]
            BY <3>1, <3>2, ReadThenWriteMoves
        <3>4. store' = [store EXCEPT !.balance = b]
            BY <2>7, <3>2 DEF Batch_batch_transfer, Batch_set, Write
        <3>5. store' = [admin |-> store.admin, paused |-> store.paused, balance |-> b]
            BY <3>1, <3>4
        <3> QED BY <1>2, <3>1, <3>3, <3>5
               DEF Batch_Inv, Batch_Types, Batch_PausedMovesNothing, Batch_is_paused
    <2> QED BY <2>1, <2>2, <2>3, <2>4, <2>5, <2>6, <2>7
<1>3. Batch_Inv /\ UNCHANGED vars => Batch_Inv' /\ Batch_PausedMovesNothing
    BY DEF Batch_Inv, Batch_Types, Batch_PausedMovesNothing, vars, Batch_is_paused,
       Batch_balance
<1> QED BY <1>1, <1>2, <1>3

-----------------------------------------------------------------------------
(* incomplete_blacklist.                                                   *)
Blacklist_Types ==
    /\ store \in [balance : [Address -> Int], blacklisted : SUBSET Address]
    /\ past \in [minted : Int]

Blacklist_Inv == Blacklist_Types

\* Every deployment is in Blacklist_Inv; a call of the corrected contract, or
\* none, stays in it.
LEMMA Blacklist_Correct ==
    /\ now = 0 /\ Blacklist_Init => Blacklist_Inv
    /\ Secure /\ Blacklist_Inv /\ Blacklist_Next => Blacklist_Inv' /\ Blacklist_ListedIsFrozen
    /\ Blacklist_Inv /\ UNCHANGED vars => Blacklist_Inv' /\ Blacklist_ListedIsFrozen
<1>1. now = 0 /\ Blacklist_Init => Blacklist_Inv
    BY DEF Blacklist_Init, Blacklist_Inv, Blacklist_Types, Zero
<1>2. ASSUME Secure, Blacklist_Inv, Blacklist_Next PROVE Blacklist_Inv' /\ Blacklist_ListedIsFrozen
    <2>1. PICK u \in Address, n \in {-1, 1}, op \in TransferOps :
              Blacklist_mint(u, n) \/ Blacklist_blacklist(u) \/ Blacklist_transfer(op)
        BY <1>2, Zenon DEF Blacklist_Next, Lib, Secure
    <2>2. CASE Blacklist_mint(u, n)
        <3>1. /\ store' = [balance |-> [store.balance EXCEPT ![u] = @ + n],
                           blacklisted |-> store.blacklisted]
              /\ past' = [minted |-> past.minted + 1]
              /\ store.balance[u] + n \in Holdings
              /\ past.minted < 2
            BY <1>2, <2>2 DEF Blacklist_mint, WriteAnd, Blacklist_Inv, Blacklist_Types
        <3> QED BY <1>2, <3>1, ContractAssumption DEF Blacklist_Inv, Blacklist_Types,
               TransferOps, Blacklist_ListedIsFrozen, Blacklist_balance
    <2>3. CASE Blacklist_blacklist(u)
        <3>1. /\ store' = [balance |-> store.balance, blacklisted |-> store.blacklisted \union {u}]
              /\ past' = past
            BY <1>2, <2>3 DEF Blacklist_blacklist, Write, Blacklist_Inv, Blacklist_Types
        <3> QED BY <1>2, <3>1, ContractAssumption DEF Blacklist_Inv, Blacklist_Types,
               TransferOps, Blacklist_ListedIsFrozen, Blacklist_balance
    <2>4. CASE Blacklist_transfer(op)
        <3>1. /\ store \in [balance : [Address -> Int], blacklisted : SUBSET Address] /\
                 past' = past
              /\ op.from \notin store.blacklisted /\ op.to \notin store.blacklisted
            BY <1>2, <2>4 DEF Blacklist_Inv, Blacklist_Types, Blacklist_transfer,
               Blacklist_transfer_lib, Write
        <3>2. PICK b : b = ReadThenWrite(store.balance, op)
            OBVIOUS
        <3>3. b \in [Address -> Int] /\ \A v \in Address : v # op.from /\
                  v # op.to => b[v] = store.balance[v]
            BY <3>1, <3>2, ReadThenWriteMoves
        <3>4. store' = [store EXCEPT !.balance = b]
            BY <2>4, <3>2 DEF Blacklist_transfer, Blacklist_transfer_lib, Write
        <3>5. store' = [balance |-> b, blacklisted |-> store.blacklisted]
            BY <3>1, <3>4
        <3>6. \A v \in store.blacklisted : b[v] = store.balance[v]
            BY <3>1, <3>3
        <3>7. Blacklist_ListedIsFrozen
            BY <3>5, <3>6 DEF Blacklist_ListedIsFrozen, Blacklist_balance
        <3> QED BY <1>2, <3>1, <3>3, <3>5, <3>7 DEF Blacklist_Inv, Blacklist_Types
    <2> QED BY <2>1, <2>2, <2>3, <2>4
<1>3. Blacklist_Inv /\ UNCHANGED vars => Blacklist_Inv' /\ Blacklist_ListedIsFrozen
    BY DEF Blacklist_Inv, Blacklist_Types, Blacklist_ListedIsFrozen, vars, Blacklist_balance
<1> QED BY <1>1, <1>2, <1>3

-----------------------------------------------------------------------------
(* batch_partial_failure.                                                  *)
Partial_Types ==
    /\ store = [balance |-> store.balance, success_count |-> store.success_count,
                complete |-> store.complete]
    /\ store.balance \in [Address -> Int]
    /\ past \in [supply : Int, last : [asked : Int, done : Int]]

\* The latest batch did everything it was asked.
Partial_Whole ==
    past.last.done = past.last.asked

\* The balances add up to the supply.
Partial_AddsUp ==
    SumFunction(store.balance) = past.supply

Partial_Inv == Partial_Types /\ Partial_Whole /\ Partial_AddsUp

\* So a batch happens whole or not at all, and the total stays.
LEMMA Partial_Promise == Partial_Inv => Partial_AllOrNothing
<1> SUFFICES ASSUME Partial_Inv PROVE Partial_AllOrNothing
    OBVIOUS
<1>1. store.balance \in [Address -> Int] /\ SumFunction(store.balance) = past.supply /\
          past.last.done = past.last.asked
    BY DEF Partial_Inv, Partial_Types, Partial_AddsUp, Partial_Whole
<1>2. [u \in Address |-> Partial_balance(u)] = store.balance
    BY <1>1 DEF Partial_balance
<1> QED BY <1>1, <1>2 DEF Partial_AllOrNothing

\* Every deployment is in Partial_Inv; a call of the corrected contract, or
\* none, stays in it.
LEMMA Partial_Correct ==
    /\ now = 0 /\ Partial_Init => Partial_Inv
    /\ Secure /\ Partial_Inv /\ Partial_Next => Partial_Inv'
    /\ Partial_Inv /\ UNCHANGED vars => Partial_Inv'
<1>1. now = 0 /\ Partial_Init => Partial_Inv
    BY ZeroSum DEF Partial_Init, Partial_Inv, Partial_Types, Partial_Whole, Partial_AddsUp
<1>2. ASSUME Secure, Partial_Inv, Partial_Next PROVE Partial_Inv'
    <2>1. \/ \E u \in Address, n \in {-1, 1} : Partial_mint(u, n)
          \/ \E op1 \in TransferOps, op2 \in TransferOps : Partial_execute_batch(op1, op2)
        BY <1>2, Zenon DEF Partial_Next, Lib, Secure
    <2>2. ASSUME NEW u \in Address, NEW n \in {-1, 1},
                 Partial_mint(u, n)
          PROVE  Partial_Inv'
        <3>1. /\ u \in Address /\ n \in Int /\ store.balance \in [Address -> Int] /\
                 past = [supply |-> past.supply, last |-> past.last] /\ past.supply \in Int
              /\ past.last \in [asked : Int, done : Int]
              /\ store = [balance |-> store.balance, success_count |-> store.success_count,
                          complete |-> store.complete]
              /\ SumFunction(store.balance) = past.supply
            BY <1>2 DEF Partial_Inv, Partial_Types, Partial_AddsUp
        <3>2. PICK b : b = Added(store.balance, u, n)
            OBVIOUS
        <3>3. b \in [Address -> Int] /\ SumFunction(b) = past.supply + n
            BY <3>1, <3>2, AddedTo
        <3>4. store' = [store EXCEPT !.balance = b] /\
                  past' = [past EXCEPT !.supply = past.supply + n]
            BY <2>2, <3>2 DEF Partial_mint, WriteAnd, Added
        <3>5. /\ store' = [balance |-> b, success_count |-> store.success_count,
                           complete |-> store.complete]
              /\ past' = [supply |-> past.supply + n, last |-> past.last]
            BY <3>1, <3>4
        <3> QED BY <1>2, <3>1, <3>3, <3>5
               DEF Partial_Inv, Partial_Types, Partial_Whole, Partial_AddsUp
    <2>3. ASSUME NEW op1 \in TransferOps, NEW op2 \in TransferOps,
                 Partial_execute_batch(op1, op2)
          PROVE  Partial_Inv'
        <3>1. /\ store.balance \in [Address -> Int] /\
                 past = [supply |-> past.supply, last |-> past.last] /\ past.supply \in Int
              /\ store = [balance |-> store.balance, success_count |-> store.success_count,
                          complete |-> store.complete]
              /\ SumFunction(store.balance) = past.supply
            BY <1>2 DEF Partial_Inv, Partial_Types, Partial_AddsUp
        <3>2. PICK c : c = WriteThenRead(store.balance, op1)
            OBVIOUS
        <3>3. c \in [Address -> Int] /\ SumFunction(c) = past.supply
            BY <3>1, <3>2, WriteThenReadMoves
        <3>4. PICK b : b = WriteThenRead(c, op2)
            OBVIOUS
        <3>5. b \in [Address -> Int] /\ SumFunction(b) = past.supply
            BY <3>3, <3>4, WriteThenReadMoves
        <3>6. store' = [store EXCEPT !.balance = b] /\
                  past' = [past EXCEPT !.last = [asked |-> 2, done |-> 2]]
            BY <2>3, <3>2, <3>4 DEF Partial_execute_batch, WriteAnd
        <3>7. /\ store' = [balance |-> b, success_count |-> store.success_count,
                           complete |-> store.complete]
              /\ past' = [supply |-> past.supply, last |-> [asked |-> 2, done |-> 2]]
            BY <3>1, <3>6
        <3> QED BY <3>1, <3>5, <3>7 DEF Partial_Inv, Partial_Types, Partial_Whole, Partial_AddsUp
    <2> QED BY <2>1, <2>2, <2>3
<1>3. Partial_Inv /\ UNCHANGED vars => Partial_Inv'
    BY DEF Partial_Inv, Partial_Types, Partial_Whole, Partial_AddsUp, vars
<1> QED BY <1>1, <1>2, <1>3

-----------------------------------------------------------------------------
(* ttl_bump_index_only.                                                    *)
Ttl_Types ==
    /\ now \in Nat
    /\ store \in [index : Int \cup {None}, record : Int \cup {None}]

\* An entry is indexed exactly when it has a record.
Ttl_Together ==
    store.index = store.record

Ttl_Inv == Ttl_Types /\ Ttl_Together /\ Ttl_IndexedHasRecord

\* Every deployment is in Ttl_Inv; a call of the corrected contract, or none,
\* stays in it.
LEMMA Ttl_Correct ==
    /\ now = 0 /\ Ttl_Init => Ttl_Inv
    /\ Secure /\ Ttl_Inv /\ Ttl_Next => Ttl_Inv'
    /\ Ttl_Inv /\ UNCHANGED vars => Ttl_Inv'
<1>1. now = 0 /\ Ttl_Init => Ttl_Inv
    BY ContractAssumption DEF Ttl_Init, Ttl_Inv, Ttl_Types, Ttl_Together, Ttl_IndexedHasRecord,
       Ttl_IndexedHasRecord, Ttl_is_indexed, Ttl_get_record, Ttl_live, Ttl_Init
<1>2. ASSUME Secure, Ttl_Inv, Ttl_Next PROVE Ttl_Inv'
    <2>1. CloseLedger \/ Ttl_register \/ Ttl_refresh
        BY <1>2, Zenon DEF Ttl_Next, Lib, Secure
    <2>2. CASE CloseLedger
        <3>1. /\ store' = store
              /\ past' = past
              /\ now' = now + 1
            BY <1>2, <2>2 DEF CloseLedger, Ttl_Inv, Ttl_Types
        <3> QED BY <1>2, <3>1, ContractAssumption DEF Ttl_Inv, Ttl_Types, Ttl_Together,
               Ttl_IndexedHasRecord, Ttl_is_indexed, Ttl_get_record, Ttl_live
    <2>3. CASE Ttl_register
        <3>1. /\ store' = [index |-> Ttl_set(store.index), record |-> Ttl_set(store.record)]
              /\ past' = past
              /\ now' = now
            BY <1>2, <2>3 DEF Ttl_register, Write, Ttl_Inv, Ttl_Types
        <3> QED BY <1>2, <3>1, ContractAssumption DEF Ttl_Inv, Ttl_Types, Ttl_Together,
               Ttl_IndexedHasRecord, Ttl_is_indexed, Ttl_get_record, Ttl_live, Ttl_set, MIN_TTL
    <2>4. CASE Ttl_refresh
        <3>1. /\ store' = [index |-> Ttl_bump(store.index), record |-> Ttl_bump(store.record)]
              /\ past' = past
              /\ now' = now
              /\ Ttl_live(store.index)
              /\ Ttl_live(store.record)
            BY <1>2, <2>4 DEF Ttl_refresh, Write, Ttl_Inv, Ttl_Types
        <3> QED BY <1>2, <3>1, ContractAssumption DEF Ttl_Inv, Ttl_Types, Ttl_Together,
               Ttl_IndexedHasRecord, Ttl_is_indexed, Ttl_get_record, Ttl_live, Ttl_bump,
               TTL_THRESHOLD, TTL_EXTEND_TO
    <2> QED BY <2>1, <2>2, <2>3, <2>4
<1>3. Ttl_Inv /\ UNCHANGED vars => Ttl_Inv'
    BY DEF Ttl_Inv, Ttl_Types, Ttl_Together, Ttl_IndexedHasRecord, vars, Ttl_is_indexed,
       Ttl_get_record, Ttl_live
<1> QED BY <1>1, <1>2, <1>3

-----------------------------------------------------------------------------
(* fee_on_transfer.                                                        *)
FeeIn_Types ==
    /\ store \in [token : {None, "fee", "standard"}, balance : Int,
                  wallet : [{"fee", "standard"} -> Int]]
    /\ past \in [held : [{"fee", "standard"} -> Int]]

FeeIn_Inv == FeeIn_Types /\ FeeIn_OwedIsHeld

\* Every deployment is in FeeIn_Inv; a call of the corrected contract, or none,
\* stays in it.
LEMMA FeeIn_Correct ==
    /\ now = 0 /\ FeeIn_Init => FeeIn_Inv
    /\ Secure /\ FeeIn_Inv /\ FeeIn_Next => FeeIn_Inv'
    /\ FeeIn_Inv /\ UNCHANGED vars => FeeIn_Inv'
<1>1. now = 0 /\ FeeIn_Init => FeeIn_Inv
    BY ContractAssumption DEF FeeIn_Init, FeeIn_Inv, FeeIn_Types, FeeIn_OwedIsHeld,
       FeeIn_OwedIsHeld, FeeIn_balance, FeeIn_Init
<1>2. ASSUME Secure, FeeIn_Inv, FeeIn_Next PROVE FeeIn_Inv'
    <2>1. PICK t \in {"fee", "standard"}, n \in -1..2 :
              FeeIn_mint(t, n) \/ FeeIn_initialize(t) \/ FeeIn_deposit(n)
        BY <1>2, Zenon DEF FeeIn_Next, Lib, Secure
    <2>2. CASE FeeIn_mint(t, n)
        <3>1. /\ store' = [token |-> store.token, balance |-> store.balance,
                           wallet |-> [store.wallet EXCEPT ![t] = @ + n]]
              /\ past' = past
              /\ store.wallet[t] + n \in Holdings
            BY <1>2, <2>2 DEF FeeIn_mint, Write, FeeIn_Inv, FeeIn_Types
        <3> QED BY <1>2, <3>1, ContractAssumption DEF FeeIn_Inv, FeeIn_Types, FeeIn_OwedIsHeld,
               FeeIn_balance
    <2>3. CASE FeeIn_initialize(t)
        <3>1. /\ store' = [token |-> t, balance |-> store.balance, wallet |-> store.wallet]
              /\ past' = past
            BY <1>2, <2>3 DEF FeeIn_initialize, Write, FeeIn_Inv, FeeIn_Types
        <3> QED BY <1>2, <3>1, ContractAssumption DEF FeeIn_Inv, FeeIn_Types, FeeIn_OwedIsHeld,
               FeeIn_balance
    <2>4. CASE FeeIn_deposit(n)
        <3>1. /\ n \in Int /\ store.token \in {"fee", "standard"} /\ store.balance \in Int /\
                 store.wallet \in [{"fee", "standard"} -> Int]
              /\ store = [token |-> store.token, balance |-> store.balance, wallet |-> store.wallet]
              /\ past = [held |-> past.held] /\ past.held \in [{"fee", "standard"} -> Int]
              /\ store.balance <= past.held["fee"] + past.held["standard"]
            BY <1>2, <2>4 DEF FeeIn_Inv, FeeIn_Types, FeeIn_OwedIsHeld, FeeIn_balance, FeeIn_deposit
        <3>2. PICK r \in Int : r = FeeIn_received(store.token, n)
            BY <3>1, QuotientInt DEF FeeIn_received
        <3>3. PICK w, h, c : /\ w =
                                [store.wallet EXCEPT ![store.token] = store.wallet[store.token] - n]
                             /\ h = [past.held EXCEPT ![store.token] = past.held[store.token] + r]
                             /\ c = store.balance + ((past.held[store.token] + r) - past.held[store.token])
            OBVIOUS
        <3>4. store' = [store EXCEPT !.wallet = w, !.balance = c] /\
                  past' = [past EXCEPT !.held = h]
            BY <2>4, <3>2, <3>3 DEF FeeIn_deposit, FeeIn_deposits, FeeIn_balance, WriteAnd
        <3>5. store' = [token |-> store.token, balance |-> c, wallet |-> w] /\ past' = [held |-> h]
            BY <3>1, <3>4
        <3>6. w \in [{"fee", "standard"} -> Int] /\ h \in [{"fee", "standard"} -> Int] /\
                  c \in Int /\ c = store.balance + r
            BY <3>1, <3>3
        <3>7. h["fee"] + h["standard"] = past.held["fee"] + past.held["standard"] + r
            BY <3>1, <3>3
        <3>8. FeeIn_Types'
            BY <3>1, <3>5, <3>6 DEF FeeIn_Types
        <3>9. c <= h["fee"] + h["standard"]
            BY <3>1, <3>6, <3>7
        <3> QED BY <3>5, <3>8, <3>9 DEF FeeIn_Inv, FeeIn_OwedIsHeld, FeeIn_balance
    <2> QED BY <2>1, <2>2, <2>3, <2>4
<1>3. FeeIn_Inv /\ UNCHANGED vars => FeeIn_Inv'
    BY DEF FeeIn_Inv, FeeIn_Types, FeeIn_OwedIsHeld, vars, FeeIn_balance
<1> QED BY <1>1, <1>2, <1>3

-----------------------------------------------------------------------------
(* self_deposit.                                                           *)
SelfIn_Types ==
    /\ store \in [balance : [Holders -> Int], allowance : [Holders -> Int]]
    /\ past \in [minted : Int]

\* The vault never holds an allowance over its own balance.
SelfIn_NoAllowance ==
    store.allowance[ThisContract] = 0 /\ ThisContract \in Holders

SelfIn_Inv == SelfIn_Types /\ SelfIn_NoAllowance /\ SelfIn_NothingStranded

\* Every deployment is in SelfIn_Inv; a call of the corrected contract, or
\* none, stays in it.
LEMMA SelfIn_Correct ==
    /\ now = 0 /\ SelfIn_Init => SelfIn_Inv
    /\ Secure /\ SelfIn_Inv /\ SelfIn_Next => SelfIn_Inv'
    /\ SelfIn_Inv /\ UNCHANGED vars => SelfIn_Inv'
<1>1. now = 0 /\ SelfIn_Init => SelfIn_Inv
    <2>1. ThisContract \in Holders
        BY DEF Holders
    <2> QED BY <2>1
           DEF SelfIn_Init, SelfIn_Inv, SelfIn_Types, SelfIn_NoAllowance, SelfIn_NothingStranded,
           SelfIn_balance
<1>2. ASSUME Secure, SelfIn_Inv, SelfIn_Next PROVE SelfIn_Inv'
    <2>1. PICK op \in [from : Holders, to : Holders, amount : 1..2] :
              SelfIn_mint(op.to, op.amount) \/ SelfIn_approve(op.from, op.amount) \/
              SelfIn_transfer(op) \/ SelfIn_transfer_from(op)
        BY <1>2, Zenon DEF SelfIn_Next, Lib, Secure
    <2>2. CASE SelfIn_mint(op.to, op.amount)
        <3>1. /\ op.from \in Holders /\ op.to \in Holders /\ op.amount \in Int /\ op.amount > 0 /\
                 store \in [balance : [Holders -> Int], allowance : [Holders -> Int]]
              /\ past \in [minted : Int] /\ ThisContract \in Holders
              /\ store.allowance[ThisContract] = 0 /\ store.balance[ThisContract] <= past.minted
            BY <1>2 DEF SelfIn_Inv, SelfIn_Types, SelfIn_NoAllowance, SelfIn_NothingStranded,
               SelfIn_balance
        <3>2. PICK f \in Holders, t \in Holders, n \in Int :
                  f = op.from /\ t = op.to /\ n = op.amount /\ n > 0
            BY <3>1
        <3>3. PICK b : b = [store.balance EXCEPT ![t] = store.balance[t] + n]
            OBVIOUS
        <3>4. store' = [store EXCEPT !.balance = b] /\
                  past' = IF t = ThisContract THEN [past EXCEPT !.minted = past.minted + n]
                  ELSE past
            BY <2>2, <3>2, <3>3 DEF SelfIn_mint, WriteAnd
        <3>5. /\ store' = [balance |-> b, allowance |-> store.allowance] /\
                 past' = [minted |-> IF t = ThisContract THEN past.minted + n ELSE past.minted]
              /\ b \in [Holders -> Int] /\
                 b[ThisContract] = IF t = ThisContract THEN store.balance[ThisContract] + n
                 ELSE store.balance[ThisContract]
            BY <3>1, <3>2, <3>3, <3>4
        <3>6. SelfIn_Types'
            BY <3>1, <3>2, <3>5 DEF SelfIn_Types
        <3> QED BY <3>1, <3>2, <3>5, <3>6
               DEF SelfIn_Inv, SelfIn_NoAllowance, SelfIn_NothingStranded, SelfIn_balance
    <2>3. CASE SelfIn_approve(op.from, op.amount)
        <3>1. /\ op.from \in Holders /\ op.to \in Holders /\ op.amount \in Int /\ op.amount > 0 /\
                 store \in [balance : [Holders -> Int], allowance : [Holders -> Int]]
              /\ past \in [minted : Int] /\ ThisContract \in Holders
              /\ store.allowance[ThisContract] = 0 /\ store.balance[ThisContract] <= past.minted
            BY <1>2 DEF SelfIn_Inv, SelfIn_Types, SelfIn_NoAllowance, SelfIn_NothingStranded,
               SelfIn_balance
        <3>2. PICK f \in Holders, t \in Holders, n \in Int :
                  f = op.from /\ t = op.to /\ n = op.amount /\ n > 0
            BY <3>1
        <3>3. PICK a : a = [store.allowance EXCEPT ![f] = n]
            OBVIOUS
        <3>4. store' = [store EXCEPT !.allowance = a] /\ past' = past /\ f # ThisContract
            BY <2>3, <3>2, <3>3 DEF SelfIn_approve, Write
        <3>5. store' = [balance |-> store.balance, allowance |-> a] /\ past' = past /\
                  a \in [Holders -> Int] /\ a[ThisContract] = 0
            BY <3>1, <3>2, <3>3, <3>4
        <3>6. SelfIn_Types'
            BY <3>1, <3>2, <3>5 DEF SelfIn_Types
        <3> QED BY <3>1, <3>2, <3>5, <3>6
               DEF SelfIn_Inv, SelfIn_NoAllowance, SelfIn_NothingStranded, SelfIn_balance
    <2>4. CASE SelfIn_transfer(op)
        <3>1. /\ op.from \in Holders /\ op.to \in Holders /\ op.amount \in Int /\ op.amount > 0 /\
                 store \in [balance : [Holders -> Int], allowance : [Holders -> Int]]
              /\ past \in [minted : Int] /\ ThisContract \in Holders
              /\ store.allowance[ThisContract] = 0 /\ store.balance[ThisContract] <= past.minted
            BY <1>2 DEF SelfIn_Inv, SelfIn_Types, SelfIn_NoAllowance, SelfIn_NothingStranded,
               SelfIn_balance
        <3>2. PICK f \in Holders, t \in Holders, n \in Int :
                  f = op.from /\ t = op.to /\ n = op.amount /\ n > 0
            BY <3>1
        <3>3. PICK b : b =
                  [[store.balance EXCEPT ![f] = store.balance[f] - n] EXCEPT ![t] =
                   store.balance[t] + n]
            OBVIOUS
        <3>4. store' = [store EXCEPT !.balance = b] /\ past' = past /\ f # ThisContract /\
                  t # ThisContract
            BY <2>4, <3>2, <3>3 DEF SelfIn_transfer, SelfIn_transfer_lib, ReadThenWrite, Write
        <3>5. /\ store' = [balance |-> b, allowance |-> store.allowance] /\ past' = past
              /\ b \in [Holders -> Int] /\ b[ThisContract] = store.balance[ThisContract]
            BY <3>1, <3>2, <3>3, <3>4
        <3>6. SelfIn_Types'
            BY <3>1, <3>2, <3>5 DEF SelfIn_Types
        <3> QED BY <3>1, <3>2, <3>5, <3>6
               DEF SelfIn_Inv, SelfIn_NoAllowance, SelfIn_NothingStranded, SelfIn_balance
    <2>5. CASE SelfIn_transfer_from(op)
        <3>1. /\ op.from \in Holders /\ op.to \in Holders /\ op.amount \in Int /\ op.amount > 0 /\
                 store \in [balance : [Holders -> Int], allowance : [Holders -> Int]]
              /\ past \in [minted : Int] /\ ThisContract \in Holders
              /\ store.allowance[ThisContract] = 0 /\ store.balance[ThisContract] <= past.minted
            BY <1>2 DEF SelfIn_Inv, SelfIn_Types, SelfIn_NoAllowance, SelfIn_NothingStranded,
               SelfIn_balance
        <3>2. PICK f \in Holders, t \in Holders, n \in Int :
                  f = op.from /\ t = op.to /\ n = op.amount /\ n > 0
            BY <3>1
        <3>3. PICK c, b, a : /\ c = [store.balance EXCEPT ![f] = store.balance[f] - n] /\
                                b = [c EXCEPT ![t] = c[t] + n]
                             /\ a = [store.allowance EXCEPT ![f] = store.allowance[f] - n]
            OBVIOUS
        <3>4. /\ store' = [balance |-> b, allowance |-> a] /\ past' = past /\ t # ThisContract /\
                 store.allowance[f] >= n
            BY <2>5, <3>2, <3>3
               DEF SelfIn_transfer_from, SelfIn_transfer_from_lib, SelfIn_allowance, WriteThenRead,
               Write
        <3>a. f # ThisContract
            BY <3>1, <3>2, <3>4
        <3>5. /\ store' = [balance |-> b, allowance |-> a] /\ past' = past /\
                 a \in [Holders -> Int] /\ a[ThisContract] = 0
              /\ b \in [Holders -> Int] /\ b[ThisContract] = store.balance[ThisContract]
            BY <3>1, <3>2, <3>3, <3>4, <3>a
        <3>6. SelfIn_Types'
            BY <3>1, <3>2, <3>5 DEF SelfIn_Types
        <3> QED BY <3>1, <3>2, <3>5, <3>6
               DEF SelfIn_Inv, SelfIn_NoAllowance, SelfIn_NothingStranded, SelfIn_balance
    <2> QED BY <2>1, <2>2, <2>3, <2>4, <2>5
<1>3. SelfIn_Inv /\ UNCHANGED vars => SelfIn_Inv'
    BY DEF SelfIn_Inv, SelfIn_Types, SelfIn_NoAllowance, SelfIn_NothingStranded, vars,
       SelfIn_balance
<1> QED BY <1>1, <1>2, <1>3

-----------------------------------------------------------------------------
(* negative_fee_bps.                                                       *)
Negative_Types ==
    /\ store = [admin |-> store.admin, fee_bps |-> store.fee_bps, balance |-> store.balance]
    /\ store.fee_bps \in Int
    /\ past \in [by_admin : BOOLEAN, gain : Int]

\* A fee the admin set is not negative.
Negative_AdminAboveZero ==
    past.by_admin => store.fee_bps >= 0

Negative_Inv == Negative_Types /\ Negative_AdminAboveZero /\ Negative_FeesNeverPay

\* Every deployment is in Negative_Inv; a call of the corrected contract, or
\* none, stays in it.
LEMMA Negative_Correct ==
    /\ now = 0 /\ Negative_Init => Negative_Inv
    /\ Secure /\ Negative_Inv /\ Negative_Next => Negative_Inv'
    /\ Negative_Inv /\ UNCHANGED vars => Negative_Inv'
<1>1. now = 0 /\ Negative_Init => Negative_Inv
    BY ContractAssumption DEF Negative_Init, Negative_Inv, Negative_Types,
       Negative_AdminAboveZero, Negative_FeesNeverPay, Negative_FeesNeverPay, Whole,
       Negative_Init
<1>2. ASSUME Secure, Negative_Inv, Negative_Next PROVE Negative_Inv'
    <2>1. PICK u \in Solo, from \in Address, to \in Address, n \in {-1, 1, 2},
              bps \in -Whole..(Whole + 1) :
              Negative_initialize(u, bps) \/ Negative_mint(to, n) \/ Negative_set_fee(bps) \/
              Negative_transfer(from, to, n)
        BY <1>2, Zenon DEF Negative_Next, Lib, Secure
    <2>2. CASE Negative_initialize(u, bps)
        <3>1. /\ store' = [admin |-> u, fee_bps |-> bps, balance |-> store.balance]
              /\ past' = [by_admin |-> FALSE, gain |-> past.gain]
            BY <1>2, <2>2 DEF Negative_initialize, WriteAnd, Negative_Inv, Negative_Types
        <3> QED BY <1>2, <3>1, ContractAssumption DEF Negative_Inv, Negative_Types,
               Negative_AdminAboveZero, Negative_FeesNeverPay, Whole
    <2>3. CASE Negative_mint(to, n)
        <3>1. /\ store' = [admin |-> store.admin, fee_bps |-> store.fee_bps,
                           balance |-> [store.balance EXCEPT ![to] = @ + n]]
              /\ past' = past
              /\ store.balance[to] + n \in Holdings
            BY <1>2, <2>3 DEF Negative_mint, Write, Negative_Inv, Negative_Types
        <3> QED BY <1>2, <3>1, ContractAssumption DEF Negative_Inv, Negative_Types,
               Negative_AdminAboveZero, Negative_FeesNeverPay, Whole
    <2>4. CASE Negative_set_fee(bps)
        <3>1. /\ store' = [admin |-> store.admin, fee_bps |-> bps, balance |-> store.balance]
              /\ past' = [by_admin |-> TRUE, gain |-> past.gain]
              /\ bps >= 0
              /\ store.admin # None
              /\ bps <= Whole
            BY <1>2, <2>4 DEF Negative_set_fee, Negative_set_fee_lib, WriteAnd, Negative_Inv,
               Negative_Types
        <3> QED BY <1>2, <3>1, ContractAssumption DEF Negative_Inv, Negative_Types,
               Negative_AdminAboveZero, Negative_FeesNeverPay, Whole
    <2>5. CASE Negative_transfer(from, to, n)
        <3>1. /\ n \in Int /\ store.fee_bps \in Int /\ past.by_admin \in BOOLEAN /\ past.gain = 0 /\
                 past = [by_admin |-> past.by_admin, gain |-> past.gain]
              /\ store = [admin |-> store.admin, fee_bps |-> store.fee_bps,
                          balance |-> store.balance]
              /\ past.by_admin => store.fee_bps >= 0
            BY <1>2 DEF Negative_Inv, Negative_Types, Negative_FeesNeverPay, Negative_AdminAboveZero
        <3>2. PICK x \in Int : x = n * store.fee_bps
            BY <3>1
        <3>3. PICK fee \in Int : fee = Quotient(x, Whole)
            BY QuotientInt DEF Whole
        <3>4. PICK p, b :
                  p = [store.balance EXCEPT ![from] = @ - n] /\ b = [p EXCEPT ![to] = @ + (n - fee)]
            OBVIOUS
        <3>5. /\ store' = [store EXCEPT !.balance = b]
              /\ past' = IF past.by_admin /\
                 n > 0 THEN [past EXCEPT !.gain = Capped(past.gain + Max({0, -fee}))] ELSE past
            BY <2>5, <3>2, <3>3, <3>4 DEF Negative_transfer, Negative_current_fee_bps, WriteAnd
        <3>6. past' = past
            <4>1. CASE past.by_admin /\ n > 0
                <5>1. x >= 0
                    BY <3>1, <3>2, <4>1
                <5>2. fee >= 0
                    BY <3>3, <5>1, QuotientIsDiv DEF Whole
                <5>3. -fee \in Int /\ Max({0, -fee}) = 0
                    BY <5>2, MaxZero
                <5>4. Capped(past.gain + Max({0, -fee})) = past.gain
                    BY <3>1, <5>3 DEF Capped, Cap
                <5>5. past' = [past EXCEPT !.gain = Capped(past.gain + Max({0, -fee}))]
                    BY <3>5, <4>1
                <5>6. past' = [past EXCEPT !.gain = past.gain]
                    BY <5>4, <5>5
                <5> QED BY <3>1, <5>6
            <4>2. CASE ~(past.by_admin /\ n > 0)
                BY <3>5, <4>2
            <4> QED BY <4>1, <4>2
        <3>7. store' = [admin |-> store.admin, fee_bps |-> store.fee_bps, balance |-> b]
            BY <3>1, <3>5
        <3> QED BY <1>2, <3>1, <3>6, <3>7
               DEF Negative_Inv, Negative_Types, Negative_FeesNeverPay, Negative_AdminAboveZero
    <2> QED BY <2>1, <2>2, <2>3, <2>4, <2>5
<1>3. Negative_Inv /\ UNCHANGED vars => Negative_Inv'
    BY DEF Negative_Inv, Negative_Types, Negative_AdminAboveZero, Negative_FeesNeverPay, vars
<1> QED BY <1>1, <1>2, <1>3

-----------------------------------------------------------------------------
(* fee_precision_loss.                                                     *)
Precision_Types ==
    /\ store \in [balance : [Address -> Int], fees : Int]
    /\ past \in [transfers : Int, minted : Int]

Precision_Inv == Precision_Types /\ Precision_EachTransferPays

\* Every deployment is in Precision_Inv; a call of the corrected contract, or
\* none, stays in it.
LEMMA Precision_Correct ==
    /\ now = 0 /\ Precision_Init => Precision_Inv
    /\ Secure /\ Precision_Inv /\ Precision_Next => Precision_Inv'
    /\ Precision_Inv /\ UNCHANGED vars => Precision_Inv'
<1>1. now = 0 /\ Precision_Init => Precision_Inv
    BY ZeroSum DEF Precision_Init, Precision_Inv, Precision_Types, Precision_EachTransferPays,
       Precision_fees_collected
<1>2. ASSUME Secure, Precision_Inv, Precision_Next PROVE Precision_Inv'
    <2>1. PICK op \in [from : Address, to : Address, amount : 0..2] :
              Precision_mint(op.to, op.amount) \/ Precision_transfer(op)
        BY <1>2, Zenon DEF Precision_Next, Lib, Secure
    <2>2. CASE Precision_mint(op.to, op.amount)
        <3>1. /\ op.to \in Address /\ op.amount \in Int /\ store.balance \in [Address -> Int] /\
                 store.fees \in Int /\ past.transfers \in Int /\ past.minted \in Int
              /\ store = [balance |-> store.balance, fees |-> store.fees] /\
                 past = [transfers |-> past.transfers, minted |-> past.minted]
              /\ store.fees >= past.transfers /\
                 store.fees + SumFunction(store.balance) = past.minted
            BY <1>2 DEF Precision_Inv, Precision_Types, Precision_EachTransferPays,
               Precision_fees_collected
        <3>2. PICK u \in Address, n \in Int : u = op.to /\ n = op.amount
            BY <3>1
        <3>3. PICK b : b = Added(store.balance, u, n)
            OBVIOUS
        <3>4. b \in [Address -> Int] /\ SumFunction(store.balance) \in Int /\
                  SumFunction(b) = SumFunction(store.balance) + n
            BY <3>1, <3>3, AddedTo
        <3>5. store' = [store EXCEPT !.balance = b] /\
                  past' = [past EXCEPT !.minted = past.minted + n]
            BY <2>2, <3>2, <3>3 DEF Precision_mint, WriteAnd, Added
        <3>6. store' = [balance |-> b, fees |-> store.fees] /\
                  past' = [transfers |-> past.transfers, minted |-> past.minted + n]
            BY <3>1, <3>5
        <3>7. store.fees + SumFunction(b) = past.minted + n
            BY <3>1, <3>4
        <3> QED BY <3>1, <3>4, <3>6, <3>7
               DEF Precision_Inv, Precision_Types, Precision_EachTransferPays,
               Precision_fees_collected
    <2>3. CASE Precision_transfer(op)
        <3>1. /\ op.from \in Address /\ op.to \in Address /\ op.amount \in 0..2 /\
                 store.balance \in [Address -> Int] /\ store.fees \in Int
              /\ past.transfers \in Int /\ past.minted \in Int
              /\ store = [balance |-> store.balance, fees |-> store.fees] /\
                 past = [transfers |-> past.transfers, minted |-> past.minted]
              /\ store.fees >= past.transfers /\
                 store.fees + SumFunction(store.balance) = past.minted
            BY <1>2 DEF Precision_Inv, Precision_Types, Precision_EachTransferPays,
               Precision_fees_collected
        <3>2. PICK f \in Address, t \in Address, n \in 0..2 :
                  f = op.from /\ t = op.to /\ n = op.amount
            BY <3>1
        <3>3. PICK fee \in Int : fee = Max({1, n \div 2}) /\ fee >= 1
            <4>1. n \div 2 \in {0, 1}
                OBVIOUS
            <4>2. CASE n \div 2 = 0
                <5>1. Max({1, 0}) = 1
                    <6>1. {1, 0} = {0, 1}
                        OBVIOUS
                    <6> QED BY <6>1, MaxZero
                <5> QED BY <4>2, <5>1
            <4>3. CASE n \div 2 = 1
                <5>1. Max({1, 1}) = 1
                    BY DEF Max
                <5> QED BY <4>3, <5>1
            <4> QED BY <4>1, <4>2, <4>3
        <3>4. PICK c : c = Taken(store.balance, f, n)
            OBVIOUS
        <3>5. c \in [Address -> Int] /\ SumFunction(store.balance) \in Int /\
                  SumFunction(c) = SumFunction(store.balance) - n
            <4>1. n \in Int
                OBVIOUS
            <4> QED BY <3>1, <3>4, <4>1, TakenFrom
        <3>6. PICK b : b = Added(c, t, n - fee)
            OBVIOUS
        <3>7. b \in [Address -> Int] /\ SumFunction(b) = SumFunction(c) + (n - fee)
            <4>1. n - fee \in Int
                BY <3>3
            <4> QED BY <3>5, <3>6, <4>1, AddedTo
        <3>8. c = [store.balance EXCEPT ![op.from] = @ - op.amount] /\
                  b = [c EXCEPT ![op.to] = @ + (op.amount - fee)]
            BY <3>2, <3>4, <3>6 DEF Added, Taken
        <3>9. store' = [balance |-> b, fees |-> store.fees + fee] /\
                  past' = [past EXCEPT !.transfers = past.transfers + 1]
            BY <2>3, <3>2, <3>3, <3>8
               DEF Precision_transfer, Precision_transfers, Precision_fees_collected, WriteAnd
        <3>10. past' = [transfers |-> past.transfers + 1, minted |-> past.minted]
            BY <3>1, <3>9
        <3>11. store.fees + fee + SumFunction(b) = past.minted /\
                   store.fees + fee >= past.transfers + 1
            BY <3>1, <3>3, <3>5, <3>7
        <3> QED BY <3>1, <3>7, <3>9, <3>10, <3>11
               DEF Precision_Inv, Precision_Types, Precision_EachTransferPays,
               Precision_fees_collected
    <2> QED BY <2>1, <2>2, <2>3
<1>3. Precision_Inv /\ UNCHANGED vars => Precision_Inv'
    BY DEF Precision_Inv, Precision_Types, Precision_EachTransferPays, vars,
       Precision_fees_collected
<1> QED BY <1>1, <1>2, <1>3

-----------------------------------------------------------------------------
(* weak_randomness.                                                        *)
\* A further reveal adds its value to the sum.
LEMMA Lottery_OneMore ==
    ASSUME NEW s \in Seq(Int), NEW x \in Int
    PROVE  Append(s, x) \in Seq(Int) /\ SumFunction(s) \in Int /\
        SumFunction(Append(s, x)) = SumFunction(s) + x
<1>1. PICK n \in Nat : n = Len(s)
    OBVIOUS
<1>2. PICK e : e = Append(s, x)
    OBVIOUS
<1>3. e \in Seq(Int) /\ Len(e) = n + 1 /\ e[n + 1] = x /\ \A i \in 1..n : e[i] = s[i]
    BY <1>1, <1>2, AppendProperties
<1>4. s \in [1..n -> Int] /\ e \in [1..(n + 1) -> Int]
    BY <1>1, <1>3
<1>5. SumFunction(s) \in Int /\ SumFunction(e) = SumFunction(s) + e[n + 1]
    BY <1>3, <1>4, SumOneMore
<1> QED BY <1>2, <1>3, <1>5

\* Without a reveal the sum is zero.
LEMMA Lottery_None == SumFunction(<<>>) = 0
<1>1. PICK f, D : f = <<>> /\ D = {}
    OBVIOUS
<1>2. f \in [D -> Int] /\ IsFiniteSet(D) /\ \A x \in D : f[x] = 0
    BY <1>1, FS_EmptySet
<1> QED BY <1>1, <1>2, SumZero

Lottery_Types ==
    /\ store = [participants |-> store.participants, commit |-> store.commit,
                reveal |-> store.reveal, seed |-> store.seed, reveal_count |-> store.reveal_count,
                winner |-> store.winner]
    /\ store.seed \in Int
    /\ past = [nonces |-> past.nonces, drawn |-> past.drawn]
    /\ past.nonces \in Seq(Int)

Lottery_Inv == Lottery_Types /\ Lottery_DrawnFromReveals

\* Every deployment is in Lottery_Inv; a call of the corrected contract, or
\* none, stays in it.
LEMMA Lottery_Correct ==
    /\ now = 0 /\ Lottery_Init => Lottery_Inv
    /\ Secure /\ Lottery_Inv /\ Lottery_Next => Lottery_Inv'
    /\ Lottery_Inv /\ UNCHANGED vars => Lottery_Inv'
<1>1. now = 0 /\ Lottery_Init => Lottery_Inv
    <2> SUFFICES ASSUME Lottery_Init PROVE Lottery_Inv
        OBVIOUS
    <2>1. Lottery_Types /\ store.seed = 0 /\ past.nonces = <<>> /\ past.drawn = None
        BY DEF Lottery_Init, Lottery_Types
    <2> QED BY <2>1, Lottery_None DEF Lottery_Inv, Lottery_DrawnFromReveals
<1>2. ASSUME Secure, Lottery_Inv, Lottery_Next PROVE Lottery_Inv'
    <2>1. \/ CloseLedger
          \/ Lottery_draw
          \/ \E u \in Address, nonce \in Nonces : Lottery_commit(u, nonce) \/
             Lottery_reveal(u, nonce)
        BY <1>2, Zenon DEF Lottery_Next, Lib, Secure
    <2>2. CASE CloseLedger
        <3> QED BY <1>2, <2>2
               DEF CloseLedger, Lottery_Inv, Lottery_Types, Lottery_DrawnFromReveals, Lottery_winner
    <2>3. CASE Lottery_draw
        <3>1. /\ store = [participants |-> store.participants, commit |-> store.commit,
                          reveal |-> store.reveal, seed |-> store.seed,
                          reveal_count |-> store.reveal_count, winner |-> store.winner]
              /\ past = [nonces |-> past.nonces, drawn |-> past.drawn] /\ store.seed \in Int /\
                 past.nonces \in Seq(Int)
              /\ store.seed = SumFunction(past.nonces) % 2
              /\ past.drawn # None =>
                 store.winner = past.drawn.of[(past.drawn.seed % Len(past.drawn.of)) + 1]
            BY <1>2 DEF Lottery_Inv, Lottery_Types, Lottery_DrawnFromReveals, Lottery_winner
        <3>2. PICK w, d : /\ w = store.participants[(store.seed % Len(store.participants)) + 1]
                          /\ d = [of |-> store.participants, seed |-> store.seed,
                                  silent |-> {v \in Range(store.participants) :
                                              store.reveal[v] = None}]
            OBVIOUS
        <3>3. store' = [store EXCEPT !.winner = w] /\ past' = [past EXCEPT !.drawn = d]
            BY <2>3, <3>2 DEF Lottery_draw, WriteAnd
        <3>4. /\ store' = [participants |-> store.participants, commit |-> store.commit,
                           reveal |-> store.reveal, seed |-> store.seed,
                           reveal_count |-> store.reveal_count, winner |-> w]
              /\ past' = [nonces |-> past.nonces, drawn |-> d]
            BY <3>1, <3>3
        <3>5. w = d.of[(d.seed % Len(d.of)) + 1]
            BY <3>2
        <3> QED BY <3>1, <3>4, <3>5
               DEF Lottery_Inv, Lottery_Types, Lottery_DrawnFromReveals, Lottery_winner
    <2>4. ASSUME NEW u \in Address, NEW nonce \in Nonces,
                 Lottery_commit(u, nonce)
          PROVE  Lottery_Inv'
        <3>1. /\ store = [participants |-> store.participants, commit |-> store.commit,
                          reveal |-> store.reveal, seed |-> store.seed,
                          reveal_count |-> store.reveal_count, winner |-> store.winner]
              /\ past = [nonces |-> past.nonces, drawn |-> past.drawn] /\ store.seed \in Int /\
                 past.nonces \in Seq(Int)
              /\ store.seed = SumFunction(past.nonces) % 2
              /\ past.drawn # None =>
                 store.winner = past.drawn.of[(past.drawn.seed % Len(past.drawn.of)) + 1]
            BY <1>2 DEF Lottery_Inv, Lottery_Types, Lottery_DrawnFromReveals, Lottery_winner
        <3>2. PICK p, c :
                  p = Append(store.participants, u) /\ c = [store.commit EXCEPT ![u] = nonce]
            OBVIOUS
        <3>3. store' = [store EXCEPT !.participants = p, !.commit = c] /\ past' = past
            BY <2>4, <3>2 DEF Lottery_commit, Write
        <3>4. store' = [participants |-> p, commit |-> c, reveal |-> store.reveal,
                        seed |-> store.seed,
                        reveal_count |-> store.reveal_count, winner |-> store.winner]
            BY <3>1, <3>3
        <3> QED BY <3>1, <3>3, <3>4
               DEF Lottery_Inv, Lottery_Types, Lottery_DrawnFromReveals, Lottery_winner
    <2>5. ASSUME NEW u \in Address, NEW nonce \in Nonces,
                 Lottery_reveal(u, nonce)
          PROVE  Lottery_Inv'
        <3>1. /\ store = [participants |-> store.participants, commit |-> store.commit,
                          reveal |-> store.reveal, seed |-> store.seed,
                          reveal_count |-> store.reveal_count, winner |-> store.winner]
              /\ past = [nonces |-> past.nonces, drawn |-> past.drawn] /\ store.seed \in Int /\
                 past.nonces \in Seq(Int)
              /\ store.seed = SumFunction(past.nonces) % 2
              /\ past.drawn # None =>
                 store.winner = past.drawn.of[(past.drawn.seed % Len(past.drawn.of)) + 1]
            BY <1>2 DEF Lottery_Inv, Lottery_Types, Lottery_DrawnFromReveals, Lottery_winner
        <3>2. nonce \in Int
            BY <2>5 DEF Nonces
        <3>3. PICK k, r, x, y : /\ k = store.reveal_count + 1 /\
                                   r = [store.reveal EXCEPT ![u] = nonce]
                                /\ x = (store.seed + nonce) % 2 /\ y = Append(past.nonces, nonce)
            OBVIOUS
        <3>4. store' = [store EXCEPT !.seed = x, !.reveal_count = k, !.reveal = r] /\
                  past' = [past EXCEPT !.nonces = y]
            BY <2>5, <3>3 DEF Lottery_reveal, WriteAnd
        <3>5. /\ store' = [participants |-> store.participants, commit |-> store.commit,
                           reveal |-> r, seed |-> x,
                           reveal_count |-> k, winner |-> store.winner]
              /\ past' = [nonces |-> y, drawn |-> past.drawn]
            BY <3>1, <3>4
        <3>6. y \in Seq(Int) /\ SumFunction(past.nonces) \in Int /\
                  SumFunction(y) = SumFunction(past.nonces) + nonce
            BY <3>1, <3>2, <3>3, Lottery_OneMore
        <3>7. x \in Int /\ x = SumFunction(y) % 2
            <4>1. PICK s \in Int : s = SumFunction(past.nonces)
                BY <3>6
            <4>2. ((s % 2) + nonce) % 2 = (s + nonce) % 2 /\ (s + nonce) % 2 \in Int
                BY <3>2
            <4> QED BY <3>1, <3>3, <3>6, <4>1, <4>2
        <3> QED BY <3>1, <3>5, <3>6, <3>7
               DEF Lottery_Inv, Lottery_Types, Lottery_DrawnFromReveals, Lottery_winner
    <2> QED BY <2>1, <2>2, <2>3, <2>4, <2>5
<1>3. Lottery_Inv /\ UNCHANGED vars => Lottery_Inv'
    BY DEF Lottery_Inv, Lottery_Types, Lottery_DrawnFromReveals, vars, Lottery_winner
<1> QED BY <1>1, <1>2, <1>3
=============================================================================
