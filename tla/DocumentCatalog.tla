--------------------------- MODULE DocumentCatalog ---------------------------
(***************************************************************************)
(* The catalogue of document types is a table kept by hand, read once when *)
(* a process starts (ParseCatalog) and checked by the Check*Invariants     *)
(* functions before it is released.  Maintenance is the edit of one cell,  *)
(* the loss of a row or one more row, at most MaxEdits times.              *)
(***************************************************************************)
EXTENDS DocTypes

CONSTANT MaxEdits     \* bound on the edits between two releases

ASSUME MaxEditsAssumption == MaxEdits \in Nat

(* Codes that an edit may write: one or two of each family the checks name. *)
EditCodes == {"FT", "FR", "AR", "RC", "RG", "GR", "RP", "CM", "FA", "ND"}

VARIABLES
  catTable,    \* document_catalog.md
  catEdits,    \* how many edits since the last release
  catState     \* "edited", "loaded", "refused" (ParseCatalog), "rejected" (checks), "accepted"

catVars == <<catTable, catEdits, catState>>

------------------------------------------------------------------------------
(* Maintenance and release.                                                *)

CatInit == catTable = Seed /\ catEdits = 0 /\ catState = "edited"

Edit(t) ==
  /\ catState = "edited" /\ catEdits < MaxEdits
  /\ catTable' = t /\ catEdits' = catEdits + 1
  /\ UNCHANGED catState

EditCell(i) ==
  \/ \E c \in EditCodes \cup {Empty} : Edit([catTable EXCEPT ![i].fe = c])
  \/ \E p \in Layers \cup {"TaxType"}, c \in EditCodes : Edit([catTable EXCEPT ![i].adapter = Adapter(p, c)])
  \/ Edit([catTable EXCEPT ![i].adapter = NoAdapter])
  \/ \E l \in Structures \cup {Empty} : Edit([catTable EXCEPT ![i].l3 = l])
  \/ \E g \in Groups : Edit([catTable EXCEPT ![i].grupo = g])
  \/ \E a \in {"on", "off", "pending_dec_reg_003", "?"} : Edit([catTable EXCEPT ![i].activo = a])
  \/ \E e \in {"FE", "SAF-T", "ambos"} : Edit([catTable EXCEPT ![i].elig = e])
  \/ \E e \in {"hipotese", "confirmado", "conflito"} : Edit([catTable EXCEPT ![i].estado = e])

LoseRow(i) == Edit(SubSeq(catTable, 1, i - 1) \o SubSeq(catTable, i + 1, Len(catTable)))

(* A row copied from row i under another canonical code.                   *)
CopyRow(i) ==
  \E g \in Groups, c \in {"FT", "AR", "RP", "GR", "XX"} :
    Edit(Append(catTable, [catTable[i] EXCEPT !.id = <<g, c>>, !.grupo = g]))

Load ==
  /\ catState = "edited"
  /\ catState' = IF Parses(catTable) THEN "loaded" ELSE "refused"
  /\ UNCHANGED <<catTable, catEdits>>

RunChecks ==
  /\ catState = "loaded"
  /\ catState' = IF ChecksPass(Entries(catTable)) THEN "accepted" ELSE "rejected"
  /\ UNCHANGED <<catTable, catEdits>>

CatNext ==
  \/ \E i \in DOMAIN catTable : EditCell(i) \/ LoseRow(i) \/ CopyRow(i)
  \/ Load
  \/ RunChecks

CatSpec == CatInit /\ [][CatNext]_catVars

------------------------------------------------------------------------------
(* Properties.                                                             *)

(* Rows that no check names: their cells are held by C-DOC-003 alone, or   *)
(* by nothing.                                                             *)
Unguarded ==
  {<<"vendas", "ND">>, <<"vendas", "FA">>, <<"pagamentos", "RG">>, <<"movimentacao", "GT">>,
   <<"movimentacao", "GA">>, <<"movimentacao", "GD">>, <<"compras", "NL">>}

Binding(r) == <<r.grupo, r.fe, Layer(r), Code(r), r.l3, r.activo>>

(* The nine checks together leave no gap but the seven rows above: in a    *)
(* table that loads and passes them, every other released row is present   *)
(* with its channel codes, structure, group and activation, and ResolveAPI *)
(* finds the row of FT and of NC (ParseCatalog, Check*Invariants).         *)
GuardedRowsPinned ==
  catState = "accepted" =>
    /\ \A s \in {x \in SeedRows : x.id \notin Unguarded} :
         {Binding(r) : r \in Lookup(Entries(catTable), s.id)} = {Binding(s)}
    /\ \A api \in {"invoice", "credit_note"} :
         Cardinality(ResolveAPI(Entries(catTable), api)) = 1

(* Whatever an operator switches on, a purchase, a stock or a working      *)
(* document is never offered to an establishment enrolled in electronic    *)
(* invoicing (evaluateType), in any table the checks accept.               *)
SaftOnlyNeverElectronic ==
  catState = "accepted" =>
    \A r \in Entries(catTable), switch \in Switches, override \in Switches :
      r.id \in Ids(Seed) \ Unguarded /\ r.id[1] \in {"movimentacao", "conferencia", "compras"} =>
        ~ Available(r, switch, override, "active")
==============================================================================
