------------------------------- MODULE MCParts -------------------------------
(***************************************************************************)
(* A small instance of everything that works beside the pipeline and       *)
(* shares no state with it or with each other: the payout directory, the   *)
(* tables in its database, the CSV file, the two caches, the wait for a    *)
(* low base fee, the node connections, the ad-hoc deposit and the commands  *)
(* with the simulated payer.                                               *)
(*                                                                         *)
(* A behaviour is one of a single part, the others rest: what they do is   *)
(* independent, so nothing is lost by not interleaving them.               *)
(***************************************************************************)
EXTENDS PayoutDir, PayoutTables, PayoutFile, FeeCache, QuoteCache, GasPrice, Clients,
        Deposit, Command

CONSTANTS y1, y2, u1, u2   \* two payees, two amounts

VARIABLE part   \* the part that moves

(* A header, a comment, four payments, and three records that are wrong. *)
MCRecords ==
    [width : {2}, first : {"addr", "#"}, second : {"usdAmnt"}]
      \union [width : {2}, first : {y1}, second : {u1, u2, "not a positive amount"}]
      \union [width : {2}, first : {y2}, second : {u1, "amnt"}]
      \union [width : {2}, first : {"not an address"}, second : {u1}]
      \union [width : {3}, first : {y1}, second : {u1}]

(* A part at rest: nothing under way, nothing promised. *)
DirectoryRests == Init /\ dir = Stored(dbVersion, FALSE)
FileRests == FileInit /\ file = <<>>
GasRests == baseFee = 0 /\ leg = "interrupted" /\ signed = Nothing /\ price = 0
ClientsRest ==
    /\ ClientsInit
    /\ entry = "NewPayers" /\ wanted = {} /\ transport = [k \in Kinds |-> "http"]
DepositRests ==
    /\ stand = "aborted" /\ onChain = "none"
    /\ balance = 0 /\ allowance = 0 /\ moved = 0
CommandRests ==
    /\ at = "off" /\ command = "run" /\ draining = FALSE
    /\ agreed = FALSE /\ canceled = FALSE /\ status = "none"
    /\ state = [g \in Batch \union {AdHoc} |-> "confirmed"]
    /\ nonceOf = [g \in Batch \union {AdHoc} |-> 0]
    /\ pipe = <<>> /\ expected = 0
    /\ interrupts = 0 /\ failures = 0

PartsInit ==
    /\ part \in {"directory", "tables", "file", "fees", "quotes", "gas", "clients", "deposit",
                "command"}
    /\ TablesInit /\ FeeInit /\ QuoteInit
    /\ IF part = "directory" THEN Init ELSE DirectoryRests
    /\ IF part = "file" THEN FileInit ELSE FileRests
    /\ IF part = "gas" THEN GasInit ELSE GasRests
    /\ IF part = "clients" THEN ClientsInit ELSE ClientsRest
    /\ IF part = "deposit" THEN DepositInit ELSE DepositRests
    /\ IF part = "command" THEN CommandInit ELSE CommandRests

Rest(moving) ==
    /\ part = moving
    /\ UNCHANGED part
    /\ moving # "directory" => UNCHANGED vars
    /\ moving # "tables" => UNCHANGED tableVars
    /\ moving # "file" => UNCHANGED fileVars
    /\ moving # "fees" => UNCHANGED feeVars
    /\ moving # "quotes" => UNCHANGED quoteVars
    /\ moving # "gas" => UNCHANGED gasVars
    /\ moving # "clients" => UNCHANGED clientVars
    /\ moving # "deposit" => UNCHANGED depositVars
    /\ moving # "command" => UNCHANGED commandVars

PartsNext ==
    \/ Rest("directory") /\ Next
    \/ Rest("tables") /\ TablesNext
    \/ Rest("file") /\ FileNext
    \/ Rest("fees") /\ FeeNext
    \/ Rest("quotes") /\ QuoteNext
    \/ Rest("gas") /\ GasNext
    \/ Rest("clients") /\ ClientsNext
    \/ Rest("deposit") /\ DepositNext
    \/ Rest("command") /\ CommandNext

partsVars ==
    <<part, vars, tableVars, fileVars, feeVars, quoteVars, gasVars, clientVars, depositVars,
      commandVars>>

(* A part that rests has nothing to do, so the fairness of each stands as  *)
(* it is.                                                                  *)
PartsSpec ==
    /\ PartsInit /\ [][PartsNext]_partsVars
    /\ ImportFairness /\ QuoteFairness /\ GasFairness /\ DepositFairness
    /\ CommandFairness
==============================================================================
