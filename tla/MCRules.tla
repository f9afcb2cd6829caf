------------------------------- MODULE MCRules -------------------------------
(***************************************************************************)
(* The catalogue of document types and the SAF-T export side by side: they *)
(* share no state, so a behaviour moves one of the two, and the table is   *)
(* left out where the export moves.                                        *)
(***************************************************************************)
EXTENDS DocumentCatalog, SaftExport

\* The odd lines round down, and their first quantity needs four places.
MCPlainLines ==
  <<[qty |-> 10000, price |-> 250, debit |-> 0, credit |-> 250],
    [qty |-> 5000, price |-> 33, debit |-> 40, credit |-> 0]>>
MCOddLines ==
  {<<[qty |-> 10001, price |-> 9999, debit |-> 0, credit |-> 75],
     [qty |-> 15000, price |-> 1, debit |-> 1234, credit |-> 0]>>}
\* No limits, and limits as small as they can be.
MCLimits == {<<0, 0>>, <<1, 1>>}

VARIABLE part

RulesInit ==
  \/ part = "catalogue" /\ CatInit /\ SaftInit /\ saftGroup = "SalesInvoices"
  \/ part = "export" /\ SaftInit /\ catTable = <<>> /\ catEdits = 0 /\ catState = "edited"

RulesNext ==
  \/ part = "catalogue" /\ CatNext /\ UNCHANGED <<saftVars, part>>
  \/ part = "export" /\ SaftNext /\ UNCHANGED <<catVars, part>>

RulesSpec == RulesInit /\ [][RulesNext]_<<catVars, saftVars, part>>
==============================================================================
