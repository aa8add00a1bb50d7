------------------------------ MODULE Command ------------------------------
(***************************************************************************)
(* The commands that pay, from their start to their exit status, with the  *)
(* simulated payer: "run", which previews, asks and works on a database    *)
(* that outlives it, and "payer transfer", whose database of one payout    *)
(* group is in memory.  SIGINT cancels the context of the command; calls   *)
(* with a context of their own do not notice.  The simulated payer answers *)
(* nonce 0 whenever it is asked and confirms whatever it is asked about.   *)
(*                                                                         *)
(* at: "off" (no process), "log", "payer", "database" (setting up),        *)
(* "preview", "prompt", "load" (LoadPipeline), "first check", "fill",        *)
(* "check" (checkNonceGroups), "poll", "ending" (ProcessPayouts is done)   *)
(***************************************************************************)
EXTENDS Naturals, Sequences, FiniteSets

CONSTANTS
    Batch,          \* payout groups of the payout directory
    AdHoc,          \* the payout group of an ad-hoc transfer
    PipelineLimit,  \* --pipeline-limit
    Drainings,      \* values of --drain
    MaxInterrupts,  \* bound: SIGINTs
    MaxFailures     \* bound: calls that fail, processes killed

ASSUME CommandAssumption ==
    /\ IsFiniteSet(Batch) /\ AdHoc \notin Batch
    /\ PipelineLimit \in Nat \ {0}
    /\ Drainings \subseteq BOOLEAN
    /\ MaxInterrupts \in Nat /\ MaxFailures \in Nat

VARIABLES
    at,        \* see above
    command,   \* "run" or "transfer"
    draining,  \* --drain
    agreed,    \* the operator was asked and agreed, or --skip-confirmation
    canceled,  \* the context of the command is
    status,    \* exit status of the last process, "none" while one runs
    state,     \* of a payout group: "none", "pending", "confirmed"
    nonceOf,   \* nonce of the transaction of a payout group
    pipe,      \* payout groups in memory, in the order of their nonces
    expected,  \* expectedNonce
    interrupts, failures

process == <<at, command, draining, agreed, canceled, status>>
database == <<state, nonceOf>>
budget == <<interrupts, failures>>
commandVars == <<process, database, pipe, expected, budget>>

(* The payout groups in the database of the command. *)
Imported == IF command = "run" THEN Batch ELSE {AdHoc}

Pending == {g \in Imported : state[g] = "pending"}
Unattached == {g \in Imported : state[g] = "none"}

CommandInit ==
    /\ at = "off" /\ command = "run" /\ draining = FALSE
    /\ agreed = FALSE /\ canceled = FALSE /\ status = "none"
    /\ state = [g \in Batch \union {AdHoc} |-> "none"]
    /\ nonceOf = [g \in Batch \union {AdHoc} |-> 0]
    /\ pipe = <<>> /\ expected = 0
    /\ interrupts = 0 /\ failures = 0

Proceed(where) ==
    /\ at' = where
    /\ UNCHANGED <<command, draining, agreed, canceled, status>>

(* The process is gone, and its memory with it. *)
Exit(code) ==
    /\ at' = "off"
    /\ status' = code
    /\ pipe' = <<>> /\ expected' = 0
    /\ UNCHANGED <<command, draining, agreed, canceled, nonceOf>>

Start(which, drain) ==
    /\ at = "off"
    /\ at' = "log"
    /\ command' = which /\ draining' = drain
    /\ agreed' = FALSE /\ canceled' = FALSE /\ status' = "none"
    /\ state' = [state EXCEPT ![AdHoc] = "none"]
    /\ UNCHANGED <<nonceOf, pipe, expected, budget>>

StartRun == \E drain \in Drainings : Start("run", drain)
StartTransfer == Start("transfer", FALSE)

(* Log and payer; the run opens its database, the transfer creates one and *)
(* goes on without a preview: nobody is asked.                             *)
OpenLog == at = "log" /\ Proceed("payer") /\ UNCHANGED <<database, pipe, expected, budget>>
NewSimPayer ==
    at = "payer" /\ Proceed("database") /\ UNCHANGED <<database, pipe, expected, budget>>
OpenDatabase ==
    /\ at = "database"
    /\ Proceed(IF command = "run" THEN "preview" ELSE "load")
    /\ UNCHANGED <<database, pipe, expected, budget>>

Preview ==
    /\ at = "preview" /\ ~canceled
    /\ Proceed("prompt")
    /\ UNCHANGED <<database, pipe, expected, budget>>

(* Mutant: the answer to the prompt is not looked at. *)
PromptIgnored ==
    /\ at = "prompt"
    /\ at' = "load"
    /\ agreed' \in BOOLEAN
    /\ UNCHANGED <<command, draining, canceled, status, database, pipe, expected, budget>>

(* The prompt does not notice that the context is canceled. *)
PromptConfirm ==
    /\ at = "prompt"
    /\ at' = "load"
    /\ agreed' = TRUE
    /\ UNCHANGED <<command, draining, canceled, status, database, pipe, expected, budget>>

PromptDeclined ==
    /\ at = "prompt"
    /\ Exit("error")
    /\ UNCHANGED <<state, budget>>

------------------------------------------------------------------------------
(* ProcessPayouts *)

LoadPipeline ==
    /\ at = "load" /\ ~canceled
    /\ Proceed("first check")
    /\ pipe' \in {s \in [1 .. Cardinality(Pending) -> Pending] :
                    /\ \A g \in Pending : \E i \in DOMAIN s : s[i] = g
                    /\ \A i, j \in DOMAIN s : i < j => nonceOf[s[i]] < nonceOf[s[j]]}
    /\ UNCHANGED <<database, expected, budget>>

(* The simulated payer confirms; the outcome is recorded group by group,   *)
(* and a canceled context ends that.                                       *)
FinalizeNonceGroup ==
    /\ at \in {"first check", "check"} /\ ~canceled
    /\ \E i \in DOMAIN pipe :
         /\ state[pipe[i]] = "pending"
         /\ \A j \in 1 .. i - 1 : state[pipe[j]] # "pending"
         /\ state' = [state EXCEPT ![pipe[i]] = "confirmed"]
    /\ UNCHANGED <<process, nonceOf, pipe, expected, budget>>

(* A run waits before it looks at its pipeline again, and then trims it.   *)
NonceGroupsChecked ==
    /\ at \in {"first check", "check"}
    /\ \A i \in DOMAIN pipe : state[pipe[i]] # "pending"
    /\ Proceed(IF at = "check" THEN "poll" ELSE "fill")
    /\ pipe' = IF at = "check" THEN pipe ELSE <<>>
    /\ UNCHANGED <<database, expected, budget>>

PollInterval ==
    /\ at = "poll" /\ ~canceled
    /\ Proceed("fill")
    /\ pipe' = <<>>
    /\ UNCHANGED <<database, expected, budget>>

MayAdd == Len(pipe) < PipelineLimit /\ ~draining /\ Unattached # {}

(* Mutant: a nonce that was never used counts as used. *)
NonceAlwaysUsed == pipe = <<>>

(* The payer is asked for a nonce and answers 0, which this run has used.  *)
NonceUsed == pipe = <<>> /\ expected > 0

NextNonce == IF pipe = <<>> THEN 0 ELSE nonceOf[pipe[Len(pipe)]] + 1

(* A payout group joins the pipeline: its transaction is recorded; sending *)
(* it does nothing.                                                        *)
sendTransaction ==
    /\ at = "fill" /\ ~canceled
    /\ MayAdd /\ ~NonceUsed
    /\ \E g \in Unattached :
         /\ state' = [state EXCEPT ![g] = "pending"]
         /\ nonceOf' = [nonceOf EXCEPT ![g] = NextNonce]
         /\ pipe' = Append(pipe, g)
    /\ expected' = IF pipe = <<>> THEN 1 ELSE expected
    /\ UNCHANGED <<process, budget>>

(* "node returned used nonce 0; expected >= 1" *)
UsedNonceReturned ==
    /\ at = "fill"
    /\ MayAdd /\ NonceUsed
    /\ Exit("error")
    /\ UNCHANGED <<state, budget>>

Filled ==
    /\ at = "fill"
    /\ ~MayAdd
    /\ Proceed(IF pipe = <<>> THEN "ending" ELSE "check")
    /\ UNCHANGED <<database, pipe, expected, budget>>

AllDone ==
    /\ at = "ending"
    /\ Exit("ok")
    /\ UNCHANGED <<state, budget>>

(* Mutant: an interrupted run is a successful one. *)
InterruptSucceeds ==
    /\ canceled
    /\ at \in {"preview", "load", "first check", "fill", "check", "poll"}
    /\ Exit("ok")
    /\ UNCHANGED <<state, budget>>

(* A call finds its context canceled, or the wait between two polls does. *)
ContextCanceled ==
    /\ canceled
    /\ at \in {"preview", "load", "first check", "fill", "check", "poll"}
    /\ Exit("error")
    /\ UNCHANGED <<state, budget>>

Works ==
    \/ OpenLog \/ NewSimPayer \/ OpenDatabase \/ Preview
    \/ LoadPipeline \/ FinalizeNonceGroup \/ NonceGroupsChecked \/ PollInterval
    \/ sendTransaction \/ UsedNonceReturned \/ Filled \/ AllDone \/ ContextCanceled

------------------------------------------------------------------------------
(* The first SIGINT cancels the context, another one does nothing. *)
SIGINT ==
    /\ at # "off" /\ ~canceled
    /\ interrupts < MaxInterrupts
    /\ canceled' = TRUE
    /\ interrupts' = interrupts + 1
    /\ UNCHANGED <<at, command, draining, agreed, status, database, pipe, expected, failures>>

(* A call fails, or the process is killed. *)
Dies ==
    /\ at # "off"
    /\ failures < MaxFailures
    /\ failures' = failures + 1
    /\ Exit("error")
    /\ UNCHANGED <<state, interrupts>>

CommandNext ==
    \/ StartRun \/ StartTransfer
    \/ Works \/ PromptConfirm \/ PromptDeclined
    \/ SIGINT \/ Dies

Settled == \A g \in Batch : state[g] = "confirmed"

(* A process goes on; the operator answers, and until all is settled now   *)
(* and then repeats the run without --drain and agrees to it.              *)
CommandFairness ==
    /\ WF_commandVars(Works)
    /\ SF_commandVars(~Settled /\ Start("run", FALSE))
    /\ WF_commandVars(PromptConfirm \/ PromptDeclined)
    /\ SF_commandVars(~draining /\ PromptConfirm)

CommandSpec == CommandInit /\ [][CommandNext]_commandVars /\ CommandFairness

------------------------------------------------------------------------------
CommandTypeOK ==
    /\ at \in {"off", "log", "payer", "database", "preview", "prompt", "load", "first check",
               "fill", "check", "poll", "ending"}
    /\ command \in {"run", "transfer"}
    /\ draining \in BOOLEAN /\ agreed \in BOOLEAN /\ canceled \in BOOLEAN
    /\ status \in {"none", "ok", "error"}
    /\ state \in [Batch \union {AdHoc} -> {"none", "pending", "confirmed"}]
    /\ nonceOf \in [Batch \union {AdHoc} -> Nat]
    /\ pipe \in Seq(Batch \union {AdHoc})
    /\ expected \in {0, 1}

(* A transaction of the batch is recorded only by a run whose operator has *)
(* agreed, that is not draining and that nobody has interrupted, also when *)
(* the interrupt came before the answer to the prompt.                     *)
Recording ==
    \A g \in Batch : state[g] = "none" /\ state'[g] # "none" =>
        command = "run" /\ agreed /\ ~draining /\ ~canceled

RecordsOnlyWhatIsWanted == [][Recording]_commandVars

(* A command that exits with 0 has paid all it was for, with --drain all   *)
(* that was begun; every other end, an interrupt above all, is an error.   *)
ExitTellsOutcome ==
    status = "ok" => Pending = {} /\ (draining \/ Unattached = {})

(* A simulated run pays no more than a pipeline full before it stops with  *)
(* an error, as its payer knows only one nonce; repeated, whatever cut the *)
(* runs before short, it comes to the end of the batch.                    *)
SimSettlesAll == <>Settled
==============================================================================
