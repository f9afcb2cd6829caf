----------------------------- MODULE SaftExport -----------------------------
(***************************************************************************)
(* SAF-T (AO) export (internal/saftao, internal/persistence/saft_*.go): a  *)
(* ledger source lists the records of a period, Map<group>LedgerToExport   *)
(* turns each into a document or reports what it lacks as omissions, and   *)
(* BuildIncrementalExport checks the documents again, one by one and       *)
(* against the master files, and adds up the group's totals.               *)
(*                                                                         *)
(* A record is a good one with a set of faults: the names the omissions    *)
(* give to what is missing or malformed, and the defects that only the     *)
(* builder looks at.  Days are numbers (0: no instant); a time of day is   *)
(* midnight, the rest of the first second, some instant in between or the  *)
(* last microsecond.  General ledger entries are all of one journal.       *)
(***************************************************************************)
EXTENDS Integers, Sequences, FiniteSets, Functions

CONSTANTS
  SaftDialect,      \* "sqlite" or "postgres": the store of sealed sales
  Days,             \* the days of the calendar, 1..n
  PlainLines,       \* the lines of a plain record
  OtherLines,       \* what else the lines of a record may be
  MaxTableEntries,  \* cap on the documents of a file, and on what callers leave open
  Limits,           \* what callers set: <<MaxOmissions, MaxDocuments>>, 0 for unset
  MaxRecords,       \* bound on the ledger
  MaxDeviations     \* bound on what deviates from a plain record, over the ledger

\* Amounts in cents, quantities in ten-thousandths.
Line == [qty : Nat, price : Nat, debit : Nat, credit : Nat]

ASSUME SaftAssumption ==
  /\ SaftDialect \in {"sqlite", "postgres"}
  /\ Days \subseteq Nat \ {0} /\ MaxRecords \in Nat /\ MaxDeviations \in Nat
  /\ PlainLines \in Seq(Line) /\ OtherLines \subseteq Seq(Line)
  /\ MaxTableEntries \in Nat /\ Limits \subseteq Nat \X Nat

SaftGroups ==
  {"SalesInvoices", "Payments", "PurchaseInvoices", "MovementOfGoods", "WorkingDocuments",
   "GeneralLedgerEntries"}
Slots == {"midnight", "first", "mid", "last"}

------------------------------------------------------------------------------
(* Loops over lists, as functions of the number of elements gone through.  *)

SumSeq(a) ==
  LET sum[i \in 0..Len(a)] == IF i = 0 THEN 0 ELSE sum[i - 1] + a[i]
  IN sum[Len(a)]

(* The elements at the indexes in keep, in their order.                    *)
Picked(s, keep) ==
  LET picked[i \in 0..Len(s)] ==
        IF i = 0 THEN <<>> ELSE IF i \in keep THEN Append(picked[i - 1], s[i]) ELSE picked[i - 1]
  IN picked[Len(s)]

(* The same elements in any order.                                         *)
Rearranged(s) == {[i \in DOMAIN s |-> s[p[i]]] : p \in Bijection(DOMAIN s, DOMAIN s)}

------------------------------------------------------------------------------
(* What mapOne<group>Record reports of a record with faults f: all of one  *)
(* set of checks, or else the first of the checks that follow.             *)

FirstOf(checks, f) ==
  LET hit == {i \in DOMAIN checks : checks[i] \in f}
  IN IF hit = {} THEN {} ELSE {checks[CHOOSE i \in hit : \A j \in hit : i <= j]}

AllOrFirst(all, checks, f) == IF f \cap all # {} THEN f \cap all ELSE FirstOf(checks, f)

SalesLineChecks ==
  <<"sealed_at", "line_no", "product_code", "quantity", "tax_percentage", "document_totals">>

(* The source of the entry not looked at.                                  *)
OmitSales_Mutant(f) ==
  IF FirstOf(<<"document_type", "invoice_no">>, f) # {} THEN FirstOf(<<"document_type", "invoice_no">>, f)
  ELSE AllOrFirst({"hash", "hash_control", "customer_id", "unit_of_measure", "lines"}, SalesLineChecks, f)

OmitSales(f) ==
  IF FirstOf(<<"document_type", "invoice_no">>, f) # {} THEN FirstOf(<<"document_type", "invoice_no">>, f)
  ELSE AllOrFirst({"hash", "hash_control", "source_id", "customer_id", "unit_of_measure", "lines"},
                  SalesLineChecks, f)

PaymentLineChecks ==
  <<"payment_date", "line_no", "originating_on", "invoice_date", "line_amount", "document_totals">>
OmitPayment(f) ==
  AllOrFirst({"payment_ref_no", "payment_type", "source_id", "customer_id", "payment_status",
              "source_payment", "lines"}, PaymentLineChecks, f)

OmitPurchase(f) ==
  f \cap {"invoice_no", "hash", "source_id", "purchase_type", "supplier_id", "document_totals"}

MovementLineChecks ==
  <<"line_no", "product_code", "unit_of_measure", "quantity", "line_amount", "tax", "document_totals">>
OmitMovement(f) ==
  AllOrFirst({"document_number", "hash", "hash_control", "movement_type", "source_id", "party",
              "movement_status", "source_billing", "lines"}, MovementLineChecks, f)

WorkingLineChecks ==
  <<"line_no", "product_code", "unit_of_measure", "quantity", "line_amount", "tax", "document_totals">>
OmitWorking(f) ==
  AllOrFirst({"document_number", "hash", "hash_control", "work_type", "source_id", "customer_id",
              "work_status", "source_billing", "lines"}, WorkingLineChecks, f)

OmitGLLines(f) ==
  FirstOf(<<"debit_record_id", "debit_account", "debit_amount", "debit_desc">>, f)
  \cup FirstOf(<<"credit_record_id", "credit_account", "credit_amount", "credit_desc">>, f)
OmitGLEntries(f) ==
  (f \cap {"journal_id", "journal_desc", "transaction_id", "period", "source_id", "description",
           "doc_archival", "transaction_type", "gl_posting_date", "party", "lines"})
  \cup OmitGLLines(f)

------------------------------------------------------------------------------
(* What ValidateStructural of a document and of its lines refuses.         *)

RefusedTax == {"tax_code", "tax_percentage"}
RefusedInvoiceLine == {"product_code", "description", "unit_of_measure"} \cup RefusedTax
RefusedInvoice ==
  {"document_type", "invoice_no", "hash", "hash_long", "hash_control", "hash_control_long", "source_id",
   "customer_id", "sealed_at", "lines"} \cup RefusedInvoiceLine

RefusedPaymentLine == {"originating_on", "invoice_date", "line_amount"}
RefusedPayment ==
  {"payment_ref_no", "payment_type", "payment_status", "source_payment", "source_id", "customer_id",
   "lines", "too_many_lines", "payment_date"} \cup RefusedPaymentLine

RefusedPurchase == {"invoice_no", "hash", "hash_long", "source_id", "purchase_type", "supplier_id"}

RefusedMovementLine == {"product_code", "unit_of_measure", "line_amount", "tax", "tax_enum"}
RefusedMovement ==
  {"document_number", "movement_status", "source_billing", "source_id", "hash", "hash_long",
   "hash_control", "hash_control_long", "movement_type", "party", "lines"} \cup RefusedMovementLine

RefusedWorkLine == {"product_code", "unit_of_measure", "line_amount", "tax"}
RefusedWork ==
  {"document_number", "work_status", "source_billing", "source_id", "hash", "hash_long", "hash_control",
   "hash_control_long", "work_type", "customer_id", "lines"} \cup RefusedWorkLine

RefusedJournal == {"journal_id", "journal_desc"}
RefusedTransactionLine ==
  {"debit_record_id", "debit_account", "debit_desc", "credit_record_id", "credit_account",
   "credit_desc", "source_document_long"}
RefusedTransaction ==
  {"transaction_id", "period", "source_id", "description", "doc_archival", "transaction_type",
   "gl_posting_date", "party", "party_long", "lines", "too_many_lines"} \cup RefusedTransactionLine

(* Defects that the mapping lets through, and the configured types and     *)
(* tables: a record with one of them stops the export of its period.       *)
Poison(g) ==
  {"type_not_allowed"} \cup
  CASE g = "SalesInvoices" ->
         {"hash_long", "hash_control_long", "description", "tax_code", "not_in_table", "too_many_lines"}
    [] g = "Payments" -> {"too_many_lines"}
    [] g = "PurchaseInvoices" -> {"hash_long"}
    [] g = "MovementOfGoods" -> {"hash_long", "hash_control_long", "tax_enum", "not_in_table"}
    [] g = "WorkingDocuments" -> {"hash_long", "hash_control_long", "not_in_table"}
    [] g = "GeneralLedgerEntries" ->
         {"party_long", "party_unknown", "source_document_long", "not_in_table", "shared_transaction_id",
          "too_many_lines"}

(* Every fault of a group's records: each omission's and the builder's.    *)
AllFaults(g) ==
  Poison(g) \cup {"party_unknown"} \cup
  CASE g = "SalesInvoices" -> RefusedInvoice \cup {"line_no", "quantity", "document_totals"}
    [] g = "Payments" -> RefusedPayment \cup {"line_no", "document_totals"}
    [] g = "PurchaseInvoices" -> RefusedPurchase \cup {"document_totals"}
    [] g = "MovementOfGoods" -> RefusedMovement \cup {"line_no", "quantity", "document_totals"}
    [] g = "WorkingDocuments" -> RefusedWork \cup {"line_no", "quantity", "document_totals"}
    [] g = "GeneralLedgerEntries" -> RefusedTransaction \cup RefusedJournal \cup {"debit_amount", "credit_amount"}

------------------------------------------------------------------------------
(* Decimal text.  An amount of cents is written with two places and read   *)
(* back; a quantity of ten-thousandths is written with up to four places   *)
(* and read back only when three are enough.                               *)

formatCents(n) == IF n < 0 THEN [whole |-> 0, frac |-> 0] ELSE [whole |-> n \div 100, frac |-> n % 100]
parseMoneyCents(m) == m.whole * 100 + m.frac
(* Units and cents added up apart, without the carry.                      *)
addMoney2AsDecimal_Mutant(acc, m) == [whole |-> acc.whole + m.whole, frac |-> (acc.frac + m.frac) % 100]
addMoney2AsDecimal(acc, m) == formatCents(parseMoneyCents(acc) + parseMoneyCents(m))

formatQuantity(q) == [whole |-> q \div 10000, frac |-> q % 10000]
MilliReadable(d) == d.frac % 10 = 0
parseDecimalMilli(d) == d.whole * 1000 + d.frac \div 10

lineTotal(ln) == (ln.qty * ln.price) \div 10000

(* Sales credit the total of every line, those of a credit note too; the   *)
(* other groups carry the amounts of the record.                           *)
LineTotals(r) == [j \in DOMAIN r.lines |-> lineTotal(r.lines[j])]
Debits(r) == [j \in DOMAIN r.lines |-> r.lines[j].debit]
Credits(r) == [j \in DOMAIN r.lines |-> r.lines[j].credit]
Quantities(r) == [j \in DOMAIN r.lines |-> parseDecimalMilli(formatQuantity(r.lines[j].qty))]

(* A total goes on from document to document, line by line.                *)
AddedTo(acc, amounts) ==
  LET total[i \in 0..Len(amounts)] ==
        IF i = 0 THEN acc ELSE addMoney2AsDecimal(total[i - 1], formatCents(amounts[i]))
  IN total[Len(amounts)]

TotalOf(rows) ==
  LET total[i \in 0..Len(rows)] == IF i = 0 THEN formatCents(0) ELSE AddedTo(total[i - 1], rows[i])
  IN total[Len(rows)]

addDecimalNonNeg(rows) == SumSeq([i \in DOMAIN rows |-> SumSeq(rows[i])])

------------------------------------------------------------------------------
(* Ledger sources.  The limit of MaxDocuments is part of each.             *)

Undated == 0

(* The bounds are the texts <from>T00:00:00Z and <to>T23:59:59.999999999Z. *)
(* issued_at is a TIMESTAMPTZ in PostgreSQL, which keeps microseconds: the *)
(* second bound is rounded to the midnight after it.  In SQLite it is text *)
(* with six decimals, compared as text: "." sorts before "Z", "Z" after    *)
(* "9".                                                                    *)
IssuedWithin(r, from, to) ==
  IF SaftDialect = "postgres"
  THEN from <= r.day /\ (r.day <= to \/ (r.day = to + 1 /\ r.slot = "midnight"))
  ELSE /\ from < r.day \/ (from = r.day /\ r.slot \notin {"midnight", "first"})
       /\ r.day < to \/ (r.day = to /\ r.slot # "last")

ListSealedSalesForSAFT(ledger, cfg) ==
  Picked(ledger, {i \in DOMAIN ledger : /\ ledger[i].scope = cfg.scope
                                        /\ IssuedWithin(ledger[i], cfg.from, cfg.to)})

(* The other groups' sources leave out records without an instant.         *)
InRange(r, cfg) == r.scope = cfg.scope /\ r.day # Undated /\ cfg.from <= r.day /\ r.day <= cfg.to
ListInRange(ledger, cfg) == Picked(ledger, {i \in DOMAIN ledger : InRange(ledger[i], cfg)})
ListPaymentsForSAFT_Mutant(ledger, cfg) == ListInRange(ledger, [cfg EXCEPT !.to = @ - 1])
ListPaymentsForSAFT(ledger, cfg) == ListInRange(ledger, cfg)
ListPurchasesForSAFT(ledger, cfg) == ListInRange(ledger, cfg)
ListMovementsForSAFT(ledger, cfg) == ListInRange(ledger, cfg)
ListWorkingForSAFT(ledger, cfg) == ListInRange(ledger, cfg)
ListGLEntriesForSAFT(ledger, cfg) == ListInRange(ledger, cfg)

------------------------------------------------------------------------------
(* BuildIncrementalExport, group by group: the documents and the totals,   *)
(* or Failed.  Master files hold the parties and the products the mapping  *)
(* has collected; the general ledger takes those of the configuration.     *)

Failed == [status |-> "failed"]
Pending == [status |-> "pending"]

Built(docs, debit, credit, entries, quantity) ==
  [status |-> "ok", docs |-> [i \in DOMAIN docs |-> docs[i].doc], debit |-> debit, credit |-> credit,
   entries |-> entries, quantity |-> quantity, omitted |-> {}]

(* The amounts of each document.                                           *)
AllLineTotals(docs) == [i \in DOMAIN docs |-> LineTotals(docs[i])]
AllDebits(docs) == [i \in DOMAIN docs |-> Debits(docs[i])]
AllCredits(docs) == [i \in DOMAIN docs |-> Credits(docs[i])]
AllQuantities(docs) == [i \in DOMAIN docs |-> Quantities(docs[i])]

(* The type allowed by the configuration, then ValidateStructural.         *)
Accepted(docs, refused) ==
  \A i \in DOMAIN docs : docs[i].faults \cap (refused \cup {"type_not_allowed"}) = {}

PartyOf(r) == IF "party_unknown" \in r.faults THEN "stranger" ELSE "client"

Collected(docs) == {PartyOf(docs[i]) : i \in DOMAIN docs}

Known(docs, masters) == \A i \in DOMAIN docs : PartyOf(docs[i]) \in masters
validateMasterRefs(docs, masters) == Known(docs, masters)
validatePaymentCustomerRefs(docs, masters) == Known(docs, masters)
validatePurchaseSupplierRefs(docs, masters) == Known(docs, masters)
validateStockMovementRefs(docs, masters) == Known(docs, masters)
validateWorkDocumentRefs(docs, masters) == Known(docs, masters)
validateGLEPartyRefs(docs, masters) == Known(docs, masters)

(* Looked at only when the configuration has a table.                      *)
InTable(docs, cfg) == cfg.table => \A i \in DOMAIN docs : "not_in_table" \notin docs[i].faults
validateInvoiceTaxAgainstTable(docs, cfg) == InTable(docs, cfg)
validateMovementTaxAgainstTable(docs, cfg) == InTable(docs, cfg)
validateWorkTaxAgainstTable(docs, cfg) == InTable(docs, cfg)
validateGLEAccountRefs(docs, cfg) == InTable(docs, cfg)

BuildSales(docs, cfg) ==
  IF /\ Accepted(docs, RefusedInvoice)
     /\ validateMasterRefs(docs, Collected(docs)) /\ validateInvoiceTaxAgainstTable(docs, cfg)
  THEN Built(docs, formatCents(0), TotalOf(AllLineTotals(docs)), Len(docs), 0)
  ELSE Failed

BuildPayments(docs, cfg) ==
  IF Accepted(docs, RefusedPayment) /\ validatePaymentCustomerRefs(docs, Collected(docs))
  THEN Built(docs, TotalOf(AllDebits(docs)), TotalOf(AllCredits(docs)), Len(docs), 0)
  ELSE Failed

BuildPurchases(docs, cfg) ==
  IF Accepted(docs, RefusedPurchase) /\ validatePurchaseSupplierRefs(docs, Collected(docs))
  THEN Built(docs, formatCents(0), formatCents(0), Len(docs), 0)
  ELSE Failed

(* A movement counts lines and adds up quantities.                         *)
ReadableQuantities(r) == \A j \in DOMAIN r.lines : MilliReadable(formatQuantity(r.lines[j].qty))
BuildMovements(docs, cfg) ==
  IF /\ Accepted(docs, RefusedMovement)
     /\ \A i \in DOMAIN docs : ReadableQuantities(docs[i])
     /\ validateStockMovementRefs(docs, Collected(docs)) /\ validateMovementTaxAgainstTable(docs, cfg)
  THEN Built(docs, formatCents(0), formatCents(0), SumSeq([i \in DOMAIN docs |-> Len(docs[i].lines)]),
             addDecimalNonNeg(AllQuantities(docs)))
  ELSE Failed

BuildWorking(docs, cfg) ==
  IF /\ Accepted(docs, RefusedWork)
     /\ validateWorkDocumentRefs(docs, Collected(docs)) /\ validateWorkTaxAgainstTable(docs, cfg)
  THEN Built(docs, TotalOf(AllDebits(docs)), TotalOf(AllCredits(docs)), Len(docs), 0)
  ELSE Failed

(* A TransactionID is unique within a journal.                             *)
filterGeneralLedgerEntries(docs) ==
  /\ Accepted(docs, RefusedTransaction \cup RefusedJournal)
  /\ Cardinality({i \in DOMAIN docs : "shared_transaction_id" \in docs[i].faults}) <= 1

BuildGLEntries(docs, cfg) ==
  IF /\ filterGeneralLedgerEntries(docs)
     /\ validateGLEAccountRefs(docs, cfg) /\ validateGLEPartyRefs(docs, {"client"})
  THEN Built(docs, TotalOf(AllDebits(docs)), TotalOf(AllCredits(docs)), Len(docs), 0)
  ELSE Failed

BuildIncrementalExport(g, docs, cfg) ==
  CASE g = "SalesInvoices" -> BuildSales(docs, cfg)
    [] g = "Payments" -> BuildPayments(docs, cfg)
    [] g = "PurchaseInvoices" -> BuildPurchases(docs, cfg)
    [] g = "MovementOfGoods" -> BuildMovements(docs, cfg)
    [] g = "WorkingDocuments" -> BuildWorking(docs, cfg)
    [] g = "GeneralLedgerEntries" -> BuildGLEntries(docs, cfg)

------------------------------------------------------------------------------
(* Map<group>LedgerToExport.  Every mapping sorts the records first and    *)
(* gives up when the omissions exceed MaxOmissions or the documents exceed *)
(* MaxTableEntries; only that of sales reports records of another scope or *)
(* period, the others pass over them.                                      *)

Cap(limit) == IF limit = 0 THEN MaxTableEntries ELSE limit

SortByDoc_Mutant(recs) == recs
SortByDoc(recs) ==
  CHOOSE s \in Rearranged(recs) : \A i, j \in DOMAIN s : i < j => s[i].doc <= s[j].doc

ElsewhereOf(r, cfg) ==
  CASE r.scope # cfg.scope -> {"scope_id"}
    [] r.scope = cfg.scope /\ ~ InRange(r, cfg) -> {"issued_at"}
    [] OTHER -> {}

(* What a source refuses: too many records, or too many lines of a sale.   *)
SourceFails(g, recs, cfg) ==
  \/ Len(recs) > Cap(cfg.maxDocuments)
  \/ g = "SalesInvoices" /\ \E i \in DOMAIN recs : "too_many_lines" \in recs[i].faults

(* The common course, over the records a source lists or, without one,     *)
(* over all that the caller hands in; oms is what each record lacks.       *)
MapSorted(g, sorted, cfg, oms) ==
  LET omissions == SumSeq([i \in DOMAIN sorted |-> Cardinality(oms[sorted[i]])])
      mapped == Picked(sorted, {i \in DOMAIN sorted : InRange(sorted[i], cfg) /\ oms[sorted[i]] = {}})
      built == BuildIncrementalExport(g, mapped, cfg)
  IN IF \/ omissions > Cap(cfg.maxOmissions)
        \/ Len(mapped) > MaxTableEntries
        \/ built.status = "failed"
     THEN Failed
     ELSE [built EXCEPT !.omitted = {r.doc : r \in {x \in Range(sorted) : oms[x] # {}}}]

MapRecords(g, listed, ledger, cfg, oms) ==
  LET recs == IF cfg.source THEN listed ELSE ledger
  IN IF cfg.source /\ SourceFails(g, recs, cfg) THEN Failed
     ELSE MapSorted(g, SortByDoc(recs), cfg, oms)

MapSalesLedgerToExport(ledger, cfg) ==
  MapRecords("SalesInvoices", ListSealedSalesForSAFT(ledger, cfg), ledger, cfg,
    [r \in Range(ledger) |-> IF ElsewhereOf(r, cfg) # {} THEN ElsewhereOf(r, cfg) ELSE OmitSales(r.faults)])

Undatable(r, cfg) == IF r.scope = cfg.scope /\ r.day = Undated THEN {"instant"} ELSE {}

MapPaymentsLedgerToExport(ledger, cfg) ==
  MapRecords("Payments", ListPaymentsForSAFT(ledger, cfg), ledger, cfg,
    [r \in Range(ledger) |-> IF InRange(r, cfg) THEN OmitPayment(r.faults) ELSE Undatable(r, cfg)])

MapPurchaseLedgerToExport(ledger, cfg) ==
  MapRecords("PurchaseInvoices", ListPurchasesForSAFT(ledger, cfg), ledger, cfg,
    [r \in Range(ledger) |-> IF InRange(r, cfg) THEN OmitPurchase(r.faults) ELSE Undatable(r, cfg)])

MapMovementLedgerToExport(ledger, cfg) ==
  MapRecords("MovementOfGoods", ListMovementsForSAFT(ledger, cfg), ledger, cfg,
    [r \in Range(ledger) |-> IF InRange(r, cfg) THEN OmitMovement(r.faults) ELSE Undatable(r, cfg)])

MapWorkingLedgerToExport(ledger, cfg) ==
  MapRecords("WorkingDocuments", ListWorkingForSAFT(ledger, cfg), ledger, cfg,
    [r \in Range(ledger) |-> IF InRange(r, cfg) THEN OmitWorking(r.faults) ELSE Undatable(r, cfg)])

MapGLEntriesLedgerToExport(ledger, cfg) ==
  MapRecords("GeneralLedgerEntries", ListGLEntriesForSAFT(ledger, cfg), ledger, cfg,
    [r \in Range(ledger) |-> IF InRange(r, cfg) THEN OmitGLEntries(r.faults) ELSE Undatable(r, cfg)])

ExportOf(g, ledger, cfg) ==
  CASE g = "SalesInvoices" -> MapSalesLedgerToExport(ledger, cfg)
    [] g = "Payments" -> MapPaymentsLedgerToExport(ledger, cfg)
    [] g = "PurchaseInvoices" -> MapPurchaseLedgerToExport(ledger, cfg)
    [] g = "MovementOfGoods" -> MapMovementLedgerToExport(ledger, cfg)
    [] g = "WorkingDocuments" -> MapWorkingLedgerToExport(ledger, cfg)
    [] g = "GeneralLedgerEntries" -> MapGLEntriesLedgerToExport(ledger, cfg)

------------------------------------------------------------------------------
(* One group's ledger grows record by record and is exported once, for a   *)
(* scope and a period, with the limits of the caller.                      *)

VARIABLES saftGroup, saftLedger, saftCfg, saftResult
saftVars == <<saftGroup, saftLedger, saftCfg, saftResult>>

None == "none"

(* Some days, with limits or without.                                      *)
ExportConfigs ==
  {c \in {[scope |-> "s1", from |-> from, to |-> to, table |-> table, source |-> source,
           maxOmissions |-> limits[1], maxDocuments |-> limits[2]] :
             from \in Days, to \in Days, table \in BOOLEAN, source \in BOOLEAN, limits \in Limits} :
     c.from <= c.to}

(* A ledger deviates from plain records MaxDeviations times at most, and   *)
(* once at most in another way than these.                                 *)
CommonFaults == {"hash", "hash_long", "lines", "party_unknown", "shared_transaction_id"}

Count(b) == IF b THEN 1 ELSE 0
Rare(r) ==
  Cardinality(r.faults \ CommonFaults) + Count(r.day = Undated) + Count(r.slot # "mid")
    + Count(r.scope # "s1") + Count(r.lines # PlainLines)
Deviations(r) == Rare(r) + Cardinality(r.faults \cap CommonFaults)
TotalRare(ledger) == SumSeq([i \in DOMAIN ledger |-> Rare(ledger[i])])
TotalDeviations(ledger) == SumSeq([i \in DOMAIN ledger |-> Deviations(ledger[i])])

SaftInit ==
  /\ saftGroup \in SaftGroups /\ saftLedger = <<>>
  /\ saftCfg = None /\ saftResult = Pending

(* A sealed sale has an instant; an adapter fills in what the store of     *)
(* sealed documents does not keep, but for the faults.                     *)
RecordDocument(doc) ==
  /\ saftResult.status = "pending" /\ Len(saftLedger) < MaxRecords
  /\ \A i \in DOMAIN saftLedger : saftLedger[i].doc # doc
  /\ \E day \in Days \cup (IF saftGroup = "SalesInvoices" THEN {} ELSE {Undated}),
        slot \in IF saftGroup = "SalesInvoices" THEN Slots ELSE {"mid"}, scope \in {"s1", "s2"},
        lines \in {PlainLines} \cup OtherLines,
        a, b \in AllFaults(saftGroup) \cup {None} :
       LET r == [doc |-> doc, day |-> day, slot |-> slot, scope |-> scope, lines |-> lines,
                 faults |-> {a, b} \ {None}]
       IN /\ Deviations(r) + TotalDeviations(saftLedger) <= MaxDeviations
          /\ Rare(r) + TotalRare(saftLedger) <= 1
          /\ saftLedger' = Append(saftLedger, r)
  /\ UNCHANGED <<saftGroup, saftCfg, saftResult>>

Export ==
  /\ saftResult.status = "pending" /\ saftLedger # <<>>
  /\ saftCfg' \in ExportConfigs
  /\ saftResult' = ExportOf(saftGroup, saftLedger, saftCfg')
  /\ UNCHANGED <<saftGroup, saftLedger>>

SaftNext == (\E doc \in 1..MaxRecords : RecordDocument(doc)) \/ Export

SaftSpec == SaftInit /\ [][SaftNext]_saftVars

------------------------------------------------------------------------------
(* Properties.                                                             *)

Exported == saftResult.status = "ok"
Given == Range(saftLedger)
Due == {r \in Given : InRange(r, saftCfg)}

(* A sale of the first instant after the period, which PostgreSQL lists    *)
(* with those of the period.                                               *)
AtNextMidnight(r) ==
  /\ SaftDialect = "postgres" /\ saftGroup = "SalesInvoices"
  /\ r.scope = saftCfg.scope /\ r.day = saftCfg.to + 1 /\ r.slot = "midnight"
Reached == {r \in Given : InRange(r, saftCfg) \/ AtNextMidnight(r)}

(* No record of the period is lost or told twice: an export that succeeds  *)
(* has each of them as a document, once, or among the omitted, never both, *)
(* and documents of no other record.  Records handed in without an instant *)
(* are among the omitted; of those a source lists only a sale of the next  *)
(* midnight is omitted without being of the period                         *)
(* (Map<group>LedgerToExport and the sources).                             *)
EveryRecordAccounted ==
  Exported =>
    LET docs == Range(saftResult.docs)
    IN /\ {r.doc : r \in Due} \subseteq docs \cup saftResult.omitted
       /\ docs \cap saftResult.omitted = {}
       /\ docs \subseteq {r.doc : r \in Due}
       /\ Len(saftResult.docs) = Cardinality(docs)
       /\ saftCfg.source => saftResult.omitted \subseteq {r.doc : r \in Reached}
       /\ ~ saftCfg.source =>
            {r.doc : r \in {x \in Given : x.scope = "s1" /\ x.day = Undated}} \subseteq saftResult.omitted

(* What the lines of the exported records come to, in the order in which   *)
(* the records were kept.                                                  *)
SumOf(amounts) ==
  SumSeq([i \in DOMAIN saftLedger |->
            IF saftLedger[i].doc \in Range(saftResult.docs) THEN SumSeq(amounts[i]) ELSE 0])

(* The totals of the file are those of its documents to the last cent and  *)
(* the last thousandth, whatever is written and read back on the way       *)
(* (addMoney2AsDecimal, addDecimalNonNeg, formatQuantity).                 *)
TotalsExact ==
  Exported =>
    CASE saftGroup = "SalesInvoices" ->
           parseMoneyCents(saftResult.credit) = SumOf(AllLineTotals(saftLedger))
      [] saftGroup = "MovementOfGoods" ->
           saftResult.quantity * 10 =
             SumOf([i \in DOMAIN saftLedger |->
                      [j \in DOMAIN saftLedger[i].lines |-> saftLedger[i].lines[j].qty]])
      [] saftGroup = "PurchaseInvoices" -> saftResult.entries = Len(saftResult.docs)
      [] OTHER -> /\ parseMoneyCents(saftResult.debit) = SumOf(AllDebits(saftLedger))
                  /\ parseMoneyCents(saftResult.credit) = SumOf(AllCredits(saftLedger))

(* A period's export fails for a limit, because more records are due or    *)
(* listed than a file or the caller allows or the records have more        *)
(* defects than may be omitted, or for a record with one of the defects of *)
(* Poison (or a quantity of four places, in movements); everything else    *)
(* that a document may lack is reported, not fatal: each mapping looks at  *)
(* all that BuildIncrementalExport refuses.  A record that the source does *)
(* not list has no part in it.                                             *)
Defects(r) ==
  IF saftCfg.source /\ r \notin Reached THEN 0
  ELSE Cardinality(r.faults) + Count(~ InRange(r, saftCfg))
FailsOnlyForPoison ==
  saftResult.status = "failed" =>
    \/ Cardinality(Due) > MaxTableEntries
    \/ saftCfg.source /\ Cardinality(Reached) > Cap(saftCfg.maxDocuments)
    \/ SumSeq([i \in DOMAIN saftLedger |-> Defects(saftLedger[i])]) > Cap(saftCfg.maxOmissions)
    \/ \E r \in Due : \/ r.faults \cap Poison(saftGroup) # {}
                      \/ saftGroup = "MovementOfGoods" /\ \E j \in DOMAIN r.lines : r.lines[j].qty % 10 # 0
    \/ \E r \in Reached \ Due : saftCfg.source /\ "too_many_lines" \in r.faults

(* The order in which a source returns the records changes nothing (the    *)
(* sort at the head of every mapping).                                     *)
OrderIrrelevant ==
  saftResult.status # "pending" =>
    \A ledger \in Rearranged(saftLedger) : ExportOf(saftGroup, ledger, saftCfg) = saftResult

(* Lists of successive days neither miss nor repeat a sealed sale          *)
(* (ListSealedSalesForSAFT: its bounds are inclusive calendar dates).      *)
PeriodsPartition ==
  saftGroup = "SalesInvoices" =>
    \A r \in Given : r.scope = "s1" =>
      Cardinality({d \in Days : r \in Range(ListSealedSalesForSAFT(saftLedger,
                                              [scope |-> "s1", from |-> d, to |-> d]))}) = 1
==============================================================================
