----------------------------- MODULE PayoutFile -----------------------------
(***************************************************************************)
(* The CSV file of the payouts: what an import makes of its records, and   *)
(* what an audit, much later, finds when it loads the file again.  In      *)
(* between it may have been edited, or be another file of the same name:   *)
(* the payout directory is found by the base name alone.                   *)
(*                                                                         *)
(* encoding/csv has dropped empty lines and comments and trimmed the       *)
(* fields; a record is its number of fields and the first two of them.     *)
(***************************************************************************)
EXTENDS Naturals, SequencesExt

CONSTANTS
    Payees,      \* addresses that parse
    Amounts,     \* decimals that parse and are positive
    Records,     \* records a file can have
    MaxRecords,  \* bound: records of a file
    MaxEdits     \* bound: edits

Malformed == {"not an address", "not a positive amount"}
UsdHeaders == {"usdAmnt", "amnt"}

ASSUME FileAssumption ==
    /\ Records \subseteq [width : Nat,
                          first : Payees \union Malformed \union {"", "#", "addr"},
                          second : Amounts \union Malformed \union UsdHeaders]
    /\ MaxRecords \in Nat /\ MaxEdits \in Nat

(* No header field is an address or a decimal. *)
ASSUME HeadersAreNotPayments == "addr" \notin Payees /\ Amounts \intersect UsdHeaders = {}

VARIABLES
    file,        \* the records of the CSV file
    outcome,     \* of the import: "none", "imported" or "refused"
    payouts,     \* the rows of the payout table, by payout group id
    audited,     \* whether the file as it is now was audited
    mismatched,  \* the lines that audit reported
    edits        \* edits so far

fileVars == <<file, outcome, payouts, audited, mismatched, edits>>

Files == BoundedSeq(Records, MaxRecords)

FileInit ==
    /\ file \in Files
    /\ outcome = "none"
    /\ payouts = <<>>
    /\ audited = FALSE
    /\ mismatched = {}
    /\ edits = 0

------------------------------------------------------------------------------
(* csv.Parse *)

Skipped(record) == record.first \in {"", "#"}

Header(record) == record.first = "addr" \/ record.second \in UsdHeaders

Payment(record) == record.first \in Payees /\ record.second \in Amounts

RowOf(line, record) == [line |-> line, payee |-> record.first, usd |-> record.second]

(* Mutant: the first line is taken for the header whatever it says. *)
ParseAnyHeader(parse, record) ==
    LET here  == [parse EXCEPT !.line = @ + 1]
        wrong == [here EXCEPT !.ok = FALSE]
    IN  IF ~parse.ok \/ Skipped(record) THEN here
        ELSE IF record.width # 2 THEN wrong
        ELSE IF parse.inHeader THEN [here EXCEPT !.inHeader = FALSE]
        ELSE IF Payment(record)
             THEN [here EXCEPT !.rows = Append(@, RowOf(here.line, record))]
             ELSE wrong

(* One record; the line of a row is the number of its record. *)
ParseRecord(parse, record) ==
    LET here  == [parse EXCEPT !.line = @ + 1]
        wrong == [here EXCEPT !.ok = FALSE]
    IN  IF ~parse.ok \/ Skipped(record) THEN here
        ELSE IF record.width # 2 THEN wrong
        ELSE IF parse.inHeader
             THEN IF Header(record) THEN [here EXCEPT !.inHeader = FALSE] ELSE wrong
        ELSE IF Payment(record)
             THEN [here EXCEPT !.rows = Append(@, RowOf(here.line, record))]
             ELSE wrong

Parse(records) ==
    LET upTo[i \in 0 .. Len(records)] ==
          IF i = 0 THEN [line |-> 0, inHeader |-> TRUE, ok |-> TRUE, rows |-> <<>>]
          ELSE ParseRecord(upTo[i - 1], records[i])
    IN  upTo[Len(records)]

------------------------------------------------------------------------------
(* Import *)

(* A payout group for each row, numbered in the order of the file. *)
CreatePayoutGroups(rows) == [id \in DOMAIN rows |-> {rows[id]}]

ImportFile ==
    /\ outcome = "none"
    /\ LET parse == Parse(file)
       IN  /\ outcome' = IF parse.ok THEN "imported" ELSE "refused"
           /\ payouts' = IF parse.ok THEN CreatePayoutGroups(parse.rows) ELSE <<>>
    /\ UNCHANGED <<file, audited, mismatched, edits>>

(* A record is changed, added or taken away (of a file not imported yet    *)
(* this only makes another file).                                          *)
EditFile ==
    /\ outcome = "imported"
    /\ edits < MaxEdits
    /\ edits' = edits + 1
    /\ file' \in {ReplaceAt(file, i, r) : i \in DOMAIN file, r \in Records}
                   \union {InsertAt(file, i, r) : i \in DOMAIN file, r \in Records}
                   \union {RemoveAt(file, i) : i \in DOMAIN file}
    /\ audited' = FALSE
    /\ mismatched' = {}
    /\ UNCHANGED <<outcome, payouts>>

------------------------------------------------------------------------------
(* The reconciliation of an audit *)

DBPayouts == UNION {payouts[id] : id \in DOMAIN payouts}

ByLine(rows) ==
    [line \in {r.line : r \in rows} |-> CHOOSE r \in rows : r.line = line]

(* The lines of some rows that the others, by line, do not have so. *)
LinesNotIn(rows, others) ==
    {r.line : r \in {r \in rows :
        \/ r.line \notin DOMAIN others
        \/ r.payee # others[r.line].payee
        \/ r.usd # others[r.line].usd}}

(* Mutant: only the lines of the file are looked up. *)
ReconcileFile(csvPayouts, dbPayouts) == LinesNotIn(csvPayouts, ByLine(dbPayouts))

Reconcile(csvPayouts, dbPayouts) ==
    LinesNotIn(csvPayouts, ByLine(dbPayouts)) \union LinesNotIn(dbPayouts, ByLine(csvPayouts))

(* A file that does not parse cannot be audited. *)
AuditFile ==
    /\ outcome = "imported"
    /\ LET parse == Parse(file)
       IN  parse.ok /\ audited' = TRUE /\ mismatched' = Reconcile(ToSet(parse.rows), DBPayouts)
    /\ UNCHANGED <<file, outcome, payouts, edits>>

FileNext == ImportFile \/ EditFile \/ AuditFile

FileSpec == FileInit /\ [][FileNext]_fileVars

------------------------------------------------------------------------------
(* What the operator means by the file, record by record. *)
Content(records) == {i \in DOMAIN records : ~Skipped(records[i])}

WellFormed(records) ==
    \A i \in Content(records) :
        /\ records[i].width = 2
        /\ IF \E j \in Content(records) : j < i
           THEN Payment(records[i])
           ELSE Header(records[i])

PaymentsAt(records, i) ==
    {RowOf(i, records[j]) : j \in {j \in Content(records) : j = i /\ Payment(records[j])}}

(* An import takes over every payment of the file, once, each in a payout  *)
(* group of its own, in the order of the file, or refuses the file: no     *)
(* missing header, stray field or bad amount ever costs a payee its        *)
(* payment silently.                                                       *)
EveryPaymentOnce ==
    [][outcome' # outcome =>
         IF WellFormed(file)
         THEN /\ outcome' = "imported"
              /\ UNION {payouts'[id] : id \in DOMAIN payouts'}
                   = UNION {PaymentsAt(file, i) : i \in DOMAIN file}
              /\ \A id \in DOMAIN payouts' : Cardinality(payouts'[id]) = 1
              /\ \A id, other \in DOMAIN payouts' : \A r \in payouts'[id], s \in payouts'[other] :
                    id < other => r.line < s.line
         ELSE outcome' = "refused" /\ payouts' = <<>>]_fileVars

(* An audit reports exactly the lines on which the file now asks for       *)
(* another payment than the one imported from it, added and removed lines  *)
(* included.                                                               *)
AuditSeesEdits ==
    audited =>
        mismatched = {i \in 1 .. MaxRecords + MaxEdits :
            {r \in DBPayouts : r.line = i}
              # IF i \in DOMAIN file THEN PaymentsAt(file, i) ELSE {}}

FileTypeOK ==
    /\ file \in Seq(Records)
    /\ outcome \in {"none", "imported", "refused"}
    /\ \A id \in DOMAIN payouts :
          payouts[id] \subseteq [line : Nat, payee : Payees, usd : Amounts]
    /\ audited \in BOOLEAN
    /\ mismatched \subseteq Nat
    /\ edits \in 0 .. MaxEdits
==============================================================================
