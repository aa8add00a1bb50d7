------------------------------- MODULE Clients -------------------------------
(***************************************************************************)
(* The node connections behind payers and auditors: who dials, who closes, *)
(* and when.  A command makes one payer from its flags (CreatePayer); a    *)
(* configuration file makes one payer or auditor of each section it has    *)
(* (NewPayers, NewAuditors), all of them or none.                          *)
(*                                                                         *)
(* step: "making", "dialed" (the kind under way has a connection),         *)
(* "returned", "failed", "closed"                                          *)
(***************************************************************************)
EXTENDS Naturals, FiniteSets

CONSTANTS Constructors  \* the constructors a process calls

ASSUME EntryAssumption == Constructors \subseteq {"CreatePayer", "NewPayers", "NewAuditors"}

Kinds == {"eth", "zksync-era"}

VARIABLES
    entry,      \* the constructor that was called
    transport,  \* per kind, what --node-address or node_address names
    wanted,     \* kinds still to make
    conn,       \* per kind, its connection
    ready,      \* kinds made so far
    step        \* see above

clientVars == <<entry, transport, wanted, conn, ready, step>>

ClientsInit ==
    /\ entry \in Constructors
    /\ transport \in [Kinds -> {"http", "ipc"}]
    /\ wanted \in SUBSET Kinds
    /\ entry = "CreatePayer" => Cardinality(wanted) = 1
    /\ conn = [k \in Kinds |-> "none"]
    /\ ready = {}
    /\ step = "making"

(* The eth section comes first. *)
NextKind(k) ==
    /\ k \in wanted
    /\ "eth" \in wanted => k = "eth"

(* Connections with a Close of theirs: the zkSync wrappers have none. *)
Closes(kinds) == kinds \intersect {"eth"}

Closed(kinds) == [k \in Kinds |-> IF k \in kinds /\ conn[k] = "open" THEN "closed" ELSE conn[k]]

(* Mutant: what was made before stays open. *)
FailLeavingOpen(kinds) ==
    /\ step' = "failed"
    /\ conn' = Closed(kinds)
    /\ ready' = {}
    /\ UNCHANGED <<entry, transport, wanted>>

(* Nothing is returned, and what was made before is closed. *)
FailClosing(kinds) ==
    /\ step' = "failed"
    /\ conn' = Closed(kinds \union Closes(ready))
    /\ ready' = {}
    /\ UNCHANGED <<entry, transport, wanted>>

(* A key, an address, an amount or a required setting is wrong, or dialing *)
(* fails.                                                                  *)
NotDialed ==
    /\ step = "making" /\ wanted # {}
    /\ FailClosing({})

Dialed(k) ==
    /\ step = "making"
    /\ NextKind(k)
    /\ step' = "dialed"
    /\ conn' = [conn EXCEPT ![k] = "open"]
    /\ UNCHANGED <<entry, transport, wanted, ready>>

DialsEth == entry # "NewAuditors" /\ Dialed("eth")
DialsZkSyncEra == entry # "NewAuditors" /\ Dialed("zksync-era")

(* An auditor is nothing but its connection. *)
NewEthAuditor == entry = "NewAuditors" /\ Dialed("eth")
NewZkSyncEraAuditor == entry = "NewAuditors" /\ Dialed("zksync-era")

(* A payer asks the node for the decimals of the token, and eth for a tip  *)
(* when none is given.  When that fails, both constructors of an eth payer *)
(* close the client; zksyncera.NewPayer does not.                          *)
NodeRefuses(k) ==
    /\ step = "dialed" /\ entry # "NewAuditors"
    /\ NextKind(k)
    /\ FailClosing(Closes({k}))

EthPayerFails == NodeRefuses("eth")
ZkSyncEraPayerFails == NodeRefuses("zksync-era")

(* CreatePayer defers the Close of the client it hands to eth.NewPayer. *)
ClosedWhenMade(k) == IF entry = "CreatePayer" THEN Closes({k}) ELSE {}

Made(k) ==
    /\ step = "dialed"
    /\ NextKind(k)
    /\ step' = "making"
    /\ wanted' = wanted \ {k}
    /\ ready' = ready \union {k}
    /\ conn' = Closed(ClosedWhenMade(k))
    /\ UNCHANGED <<entry, transport>>

MadeEth == Made("eth")
MadeZkSyncEra == Made("zksync-era")

Returned ==
    /\ step = "making" /\ wanted = {}
    /\ step' = "returned"
    /\ UNCHANGED <<entry, transport, wanted, conn, ready>>

(* Payers.Close, Auditors.Close *)
CloseAll ==
    /\ step = "returned" /\ entry # "CreatePayer"
    /\ step' = "closed"
    /\ conn' = Closed(Closes(ready))
    /\ UNCHANGED <<entry, transport, wanted, ready>>

ClientsNext ==
    \/ NotDialed
    \/ DialsEth \/ DialsZkSyncEra
    \/ NewEthAuditor \/ NewZkSyncEraAuditor
    \/ EthPayerFails \/ ZkSyncEraPayerFails
    \/ MadeEth \/ MadeZkSyncEra
    \/ Returned
    \/ CloseAll

ClientsSpec == ClientsInit /\ [][ClientsNext]_clientVars

------------------------------------------------------------------------------
(* A client that speaks HTTP has nothing to close and goes on working. *)
Reaches(k) == conn[k] = "open" \/ transport[k] = "http"

ClientsTypeOK ==
    /\ entry \in Constructors
    /\ wanted \subseteq Kinds /\ ready \subseteq Kinds
    /\ conn \in [Kinds -> {"none", "open", "closed"}]
    /\ step \in {"making", "dialed", "returned", "failed", "closed"}

(* Whoever gets payers or auditors from a configuration can reach their    *)
(* nodes with them until it closes them; when one section fails, or they   *)
(* are closed, no client of the other stays connected.                     *)
ClientsOwned ==
    /\ entry # "CreatePayer" /\ step = "returned" => \A k \in ready : Reaches(k)
    /\ step \in {"failed", "closed"} => conn["eth"] # "open"

(* The payer a command makes from its flags can reach its node, whatever   *)
(* kind of node address it was given ("By default, the program uses the    *)
(* ./geth.ipc file", "supports http, https, ws, wss schemes").             *)
PayerReachesNode ==
    entry = "CreatePayer" /\ step = "returned" => \A k \in ready : Reaches(k)
==============================================================================
