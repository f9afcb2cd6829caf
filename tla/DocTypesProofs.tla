---------------------------- MODULE DocTypesProofs ----------------------------
(***************************************************************************)
(* What the released table of document types holds, what the checks of a   *)
(* table pin down, for any table, and what holds of the catalogue however  *)
(* many edits its table has had.                                           *)
(***************************************************************************)
EXTENDS DocumentCatalog, FiniteSetTheorems, TLAPS

SalesCodes == {"FT", "FR", "FG", "GF", "AC", "AR", "TV", "NC", "ND", "AF", "RP", "RE", "CS", "LD", "RA"}
PurchaseCodes == {"FT", "FR", "FG", "GF", "AC", "AF", "TV", "NC", "AR", "NL", "RC"}
MovementCodes == {"GR", "GT", "GA", "GD"}
SaftOnlyRow(g, layer, l3, c) ==
  Row(g, c, Empty, Adapter(layer, c), l3, "SAF-T", "pending_validation", "off")

\* The rows, without the order they are listed in.
VendasRows ==
  {Row("vendas", c, c, Adapter("InvoiceType", c), "SalesInvoices", "ambos",
       IF c = "GF" THEN "conflito" ELSE "hipotese", IF c \in {"FT", "NC"} THEN "on" ELSE "off") :
     c \in SalesCodes}
  \cup {Row("vendas", "FA", "FA", NoAdapter, Empty, "FE", "conflito", "off")}
PagamentosRows ==
  {Row("pagamentos", c, c, Adapter("PaymentType", c), "Payments", "ambos",
       IF c = "AR" THEN "hipotese" ELSE "conflito", "off") : c \in {"RC", "RG", "AR"}}
MovimentacaoRows ==
  {SaftOnlyRow("movimentacao", "MovementType", "MovementOfGoods", c) : c \in MovementCodes}
ConferenciaRows ==
  {SaftOnlyRow("conferencia", "WorkType", "WorkingDocuments", c) : c \in WorkTypeCodes \cup {"GR"}}
ComprasRows ==
  {SaftOnlyRow("compras", "PurchaseType", "PurchaseInvoices", c) : c \in PurchaseCodes}

\* Each group of the table lists rows of its set.
LEMMA VendasListed == Vendas \in Seq(VendasRows)
<1> DEFINE codes == <<"FT", "FR", "FG", "GF", "AC", "AR", "TV", "NC", "ND", "AF", "RP", "RE", "CS", "LD", "RA">>
           plain(c) == Row("vendas", c, c, Adapter("InvoiceType", c), "SalesInvoices", "ambos",
                           IF c = "GF" THEN "conflito" ELSE "hipotese",
                           IF c \in {"FT", "NC"} THEN "on" ELSE "off")
           rows == [i \in 1..Len(codes) |-> plain(codes[i])]
           fa == Row("vendas", "FA", "FA", NoAdapter, Empty, "FE", "conflito", "off")
<1>1. Vendas = rows \o <<fa>>
  BY DEF Vendas, Each
<1>2. codes \in Seq(SalesCodes)
  BY DEF SalesCodes
<1>3. fa \in VendasRows /\ \A c \in SalesCodes : plain(c) \in VendasRows
  BY DEF VendasRows
<1>4. rows \in Seq(VendasRows)
  <2> HIDE DEF codes, plain
  <2> QED BY <1>2, <1>3
<1> HIDE DEF rows, fa, codes, plain
<1> QED BY <1>1, <1>3, <1>4

LEMMA PagamentosListed == Pagamentos \in Seq(PagamentosRows)
<1> DEFINE codes == <<"RC", "RG", "AR">>
           plain(c) == Row("pagamentos", c, c, Adapter("PaymentType", c), "Payments", "ambos",
                           IF c = "AR" THEN "hipotese" ELSE "conflito", "off")
<1>1. Pagamentos = [i \in 1..Len(codes) |-> plain(codes[i])]
  BY DEF Pagamentos, Each
<1>2. codes \in Seq({"RC", "RG", "AR"})
  OBVIOUS
<1>3. \A c \in {"RC", "RG", "AR"} : plain(c) \in PagamentosRows
  BY DEF PagamentosRows
<1> HIDE DEF codes, plain
<1> QED BY <1>1, <1>2, <1>3

LEMMA SaftOnlyListed ==
  ASSUME NEW g, NEW layer, NEW l3, NEW C, NEW codes \in Seq(C)
  PROVE  SaftOnly(g, layer, l3, codes) \in Seq({SaftOnlyRow(g, layer, l3, c) : c \in C})
<1>1. SaftOnly(g, layer, l3, codes) = [i \in 1..Len(codes) |-> SaftOnlyRow(g, layer, l3, codes[i])]
  BY DEF SaftOnly, Each, SaftOnlyRow
<1> QED BY <1>1

\* Every row of the released table is in one of the five sets.
LEMMA SeedRowsListed ==
  SeedRows \subseteq VendasRows \cup PagamentosRows \cup MovimentacaoRows \cup ConferenciaRows \cup ComprasRows
<1> DEFINE All == VendasRows \cup PagamentosRows \cup MovimentacaoRows \cup ConferenciaRows \cup ComprasRows
<1>1. Vendas \in Seq(All) /\ Pagamentos \in Seq(All)
  BY VendasListed, PagamentosListed
<1>2. Movimentacao \in Seq(MovimentacaoRows)
  <2> DEFINE codes == <<"GR", "GT", "GA", "GD">>
  <2>1. codes \in Seq(MovementCodes)
    BY DEF MovementCodes
  <2>2. Movimentacao = SaftOnly("movimentacao", "MovementType", "MovementOfGoods", codes)
    BY Zenon DEF Movimentacao
  <2> HIDE DEF codes
  <2> QED BY <2>1, <2>2, SaftOnlyListed DEF MovimentacaoRows
<1>3. Conferencia \in Seq(ConferenciaRows)
  <2> DEFINE codes == <<"GR", "CM", "CC", "NR", "FO", "NE", "OU", "OR", "PF", "DC", "PP", "GC">>
  <2>1. codes \in Seq(WorkTypeCodes \cup {"GR"})
    BY DEF WorkTypeCodes
  <2>2. Conferencia = SaftOnly("conferencia", "WorkType", "WorkingDocuments", codes)
    BY Zenon DEF Conferencia
  <2> HIDE DEF codes
  <2> QED BY <2>1, <2>2, SaftOnlyListed DEF ConferenciaRows
<1>4. Compras \in Seq(ComprasRows)
  <2> DEFINE codes == <<"FT", "FR", "FG", "GF", "AC", "AF", "TV", "NC", "AR", "NL", "RC">>
  <2>1. codes \in Seq(PurchaseCodes)
    BY DEF PurchaseCodes
  <2>2. Compras = SaftOnly("compras", "PurchaseType", "PurchaseInvoices", codes)
    BY Zenon DEF Compras
  <2> HIDE DEF codes
  <2> QED BY <2>1, <2>2, SaftOnlyListed DEF ComprasRows
<1>5. Movimentacao \in Seq(All) /\ Conferencia \in Seq(All) /\ Compras \in Seq(All)
  BY <1>2, <1>3, <1>4
<1> HIDE DEF All
<1>6. \A a, b \in Seq(All) : a \o b \in Seq(All)
  OBVIOUS
<1>7. Seed \in Seq(All)
  BY <1>1, <1>5, <1>6 DEF Seed
<1>8. SeedRows \subseteq All
  BY <1>7 DEF SeedRows
<1> QED BY <1>8 DEF All

------------------------------------------------------------------------------
(* Availability.                                                           *)

\* A released row the authority's validation does not hold back has both
\* channels, electronic invoicing and SAF-T.
LEMMA ValidatedRowsHaveBothChannels ==
  ASSUME NEW r \in SeedRows, ~IsAGTPending(r.estado)
  PROVE  r.fe # Empty /\ HasSAFT(r) /\ r.elig # "FE"
<1>1. CASE r \in VendasRows
  BY <1>1 DEF VendasRows, SalesCodes, IsAGTPending, HasSAFT, Row, Adapter, NoAdapter, Empty
<1>2. CASE r \in PagamentosRows
  BY <1>2 DEF PagamentosRows, IsAGTPending, HasSAFT, Row, Adapter, Empty
<1>3. CASE r \in MovimentacaoRows \cup ConferenciaRows \cup ComprasRows
  BY <1>3 DEF MovimentacaoRows, ConferenciaRows, ComprasRows, SaftOnlyRow, Row, IsAGTPending
<1> QED BY <1>1, <1>2, <1>3, SeedRowsListed

\* So which types of the released table a report offers does not depend on
\* the enrolment it goes by, whatever groups and types are switched on or
\* off: a report that could not read the enrolments offers no type it should
\* not, although the status, fe_aderiu and the reasons it gives are those of
\* another enrolment (ComputeAvailability, evaluateType).
Offered(report) == {t.id : t \in {x \in report.types : x.reasons = {}}}

THEOREM OfferWhateverEnrolment ==
  ASSUME NEW switches, NEW overrides, NEW s1, NEW s2
  PROVE  Offered(ComputeAvailability(SeedRows, switches, overrides, s1)) =
         Offered(ComputeAvailability(SeedRows, switches, overrides, s2))
<1>1. ASSUME NEW r \in SeedRows, NEW switch, NEW override
      PROVE  Available(r, switch, override, s1) = Available(r, switch, override, s2)
  <2>1. CASE IsAGTPending(r.estado)
    BY <2>1 DEF Available, Reasons, ReasonCodes
  <2>2. CASE ~ IsAGTPending(r.estado)
    <3>1. ~ ChannelRefuses(r, s1) /\ ~ ChannelRefuses(r, s2)
      BY <1>1, <2>2, ValidatedRowsHaveBothChannels DEF ChannelRefuses
    <3>2. Reasons(r, switch, override, s1) = Reasons(r, switch, override, s2)
      BY <3>1 DEF Reasons
    <3> QED BY <3>2 DEF Available
  <2> QED BY <2>1, <2>2
<1>2. ASSUME NEW s
      PROVE  Offered(ComputeAvailability(SeedRows, switches, overrides, s)) =
             {r.id : r \in {x \in SeedRows : Available(x, switches[x.grupo], overrides[x.id], s)}}
  <2> DEFINE entry(r) == [id |-> r.id, reasons |-> Reasons(r, switches[r.grupo], overrides[r.id], s)]
             types == {entry(r) : r \in SeedRows}
  <2>1. ComputeAvailability(SeedRows, switches, overrides, s).types = types
    BY DEF ComputeAvailability
  <2>2. \A r \in SeedRows : entry(r).id = r.id
          /\ (entry(r).reasons = {} <=> Available(r, switches[r.grupo], overrides[r.id], s))
    BY DEF Available
  <2>3. \A id : (\E t \in types : t.reasons = {} /\ t.id = id) <=>
                (\E r \in SeedRows : Available(r, switches[r.grupo], overrides[r.id], s) /\ r.id = id)
    <3> HIDE DEF entry
    <3> QED BY <2>2
  <2> HIDE DEF types
  <2>4. Offered(ComputeAvailability(SeedRows, switches, overrides, s)) =
          {t.id : t \in {x \in types : x.reasons = {}}}
    BY <2>1 DEF Offered
  <2> QED BY <2>3, <2>4
<1>3. {x \in SeedRows : Available(x, switches[x.grupo], overrides[x.id], s1)} =
      {x \in SeedRows : Available(x, switches[x.grupo], overrides[x.id], s2)}
  BY <1>1
<1> QED BY <1>2, <1>3

------------------------------------------------------------------------------
(* The catalogue of document types.                                        *)

\* In a table that loads, an id has one row.
IdsUnique(es) == \A q, r \in es : q.id = r.id => q = r

LEMMA ParsedIdsUnique == ASSUME NEW t, Parses(t) PROVE IdsUnique(Entries(t))
  BY DEF Parses, IdsUnique, Entries

\* The one row with an id has the binding.
Pinned(es, g, c, fe, layer, l3, activo) ==
  {Binding(r) : r \in Lookup(es, <<g, c>>)} = {<<g, fe, layer, c, l3, activo>>}

\* A row that is bound and off, or bound and on, is pinned.
LEMMA BoundRowPinned ==
  ASSUME NEW es, IdsUnique(es), NEW g, NEW c, NEW fe, NEW layer, NEW l3, NEW activo,
         Bound(es, g, c, fe, layer, l3),
         \A r \in Lookup(es, <<g, c>>) : r.activo = activo
  PROVE  Pinned(es, g, c, fe, layer, l3, activo)
<1>1. PICK r \in Lookup(es, <<g, c>>) :
        r.fe = fe /\ Layer(r) = layer /\ Code(r) = c /\ r.l3 = l3 /\ r.grupo = g
  BY DEF Bound
<1>2. Lookup(es, <<g, c>>) = {r}
  <2>1. \A q \in Lookup(es, <<g, c>>) : q = r
    BY DEF Lookup, IdsUnique
  <2> QED BY <2>1
<1>3. Binding(r) = <<g, fe, layer, c, l3, activo>>
  BY <1>1 DEF Binding
<1> QED BY <1>2, <1>3 DEF Pinned

LEMMA OffRowPinned ==
  ASSUME NEW es, IdsUnique(es), NEW g, NEW c, NEW fe, NEW layer, NEW l3,
         Bound(es, g, c, fe, layer, l3), IsOff(es, g, c)
  PROVE  Pinned(es, g, c, fe, layer, l3, "off")
  BY BoundRowPinned DEF IsOff

\* What the nine checks and the loader pin down of a table, code by code.
LEMMA ChecksPin ==
  ASSUME NEW t, Parses(t), ChecksPass(Entries(t))
  PROVE  /\ \A c \in SalesCodes \ {"ND"} :
              Pinned(Entries(t), "vendas", c, c, "InvoiceType", "SalesInvoices",
                     IF c \in {"FT", "NC"} THEN "on" ELSE "off")
         /\ \A c \in {"RC", "AR"} :
              Pinned(Entries(t), "pagamentos", c, c, "PaymentType", "Payments", "off")
         /\ Pinned(Entries(t), "movimentacao", "GR", Empty, "MovementType", "MovementOfGoods", "off")
         /\ \A c \in WorkTypeCodes \cup {"GR"} :
              Pinned(Entries(t), "conferencia", c, Empty, "WorkType", "WorkingDocuments", "off")
         /\ \A c \in PurchaseCodes \ {"NL"} :
              Pinned(Entries(t), "compras", c, Empty, "PurchaseType", "PurchaseInvoices", "off")
<1> DEFINE es == Entries(t)
<1>1. IdsUnique(es)
  BY ParsedIdsUnique
<1>2. \A c \in {"FT", "NC"} : \E r \in es : r.id = <<"vendas", c>> /\ r.activo = "on"
  BY DEF Parses
<1> HIDE DEF es
<1>3. /\ CheckCDOC004(es) /\ CheckCDOC005(es) /\ CheckCDOC006(es) /\ CheckCDOC007(es)
      /\ CheckCDOC008(es) /\ CheckCDOC009(es) /\ CheckCDOC010(es) /\ CheckWorkTypeInventory(es)
  BY DEF ChecksPass, es
<1>4. ASSUME NEW c \in SalesCodes \ {"ND"}
      PROVE  Pinned(es, "vendas", c, c, "InvoiceType", "SalesInvoices",
                    IF c \in {"FT", "NC"} THEN "on" ELSE "off")
  <2>1. CASE c \in {"FT", "NC"}
    <3>1. Bound(es, "vendas", c, c, "InvoiceType", "SalesInvoices")
      BY <1>3, <2>1 DEF CheckCDOC008, Dual, SalesSide
    <3>2. \A r \in Lookup(es, <<"vendas", c>>) : r.activo = "on"
      BY <1>1, <1>2, <2>1 DEF Lookup, IdsUnique
    <3> QED BY <1>1, <2>1, <3>1, <3>2, BoundRowPinned
  <2>2. CASE c \notin {"FT", "NC"}
    <3>1. c = "AR" \/ c \in Insurers \/ c \in CDOC010Codes
      BY <1>4, <2>2 DEF SalesCodes, Insurers, CDOC010Codes
    <3>2. Bound(es, "vendas", c, c, "InvoiceType", "SalesInvoices") /\ IsOff(es, "vendas", c)
      <4>1. CASE c = "AR"
        BY <1>3, <4>1 DEF CheckCDOC004, ARHomonym
      <4>2. CASE c \in Insurers
        BY <1>3, <4>2 DEF CheckCDOC005, SalesSide
      <4>3. CASE c \in CDOC010Codes
        BY <1>3, <4>3 DEF CheckCDOC010, Dual, SalesSide
      <4> QED BY <3>1, <4>1, <4>2, <4>3
    <3> QED BY <1>1, <2>2, <3>2, OffRowPinned
  <2> QED BY <2>1, <2>2
<1>5. ASSUME NEW c \in {"RC", "AR"}
      PROVE  Pinned(es, "pagamentos", c, c, "PaymentType", "Payments", "off")
  <2>1. Bound(es, "pagamentos", c, c, "PaymentType", "Payments") /\ IsOff(es, "pagamentos", c)
    BY <1>3, <1>5 DEF CheckCDOC004, ARHomonym, CheckCDOC006
  <2> QED BY <1>1, <2>1, OffRowPinned
<1>6. Pinned(es, "movimentacao", "GR", Empty, "MovementType", "MovementOfGoods", "off")
  BY <1>1, <1>3, OffRowPinned DEF CheckCDOC007, GRHomonym
<1>7. ASSUME NEW c \in WorkTypeCodes \cup {"GR"}
      PROVE  Pinned(es, "conferencia", c, Empty, "WorkType", "WorkingDocuments", "off")
  <2>1. Bound(es, "conferencia", c, Empty, "WorkType", "WorkingDocuments") /\ IsOff(es, "conferencia", c)
    BY <1>3, <1>7 DEF CheckCDOC007, GRHomonym, CheckWorkTypeInventory
  <2> QED BY <1>1, <2>1, OffRowPinned
<1>8. ASSUME NEW c \in PurchaseCodes \ {"NL"}
      PROVE  Pinned(es, "compras", c, Empty, "PurchaseType", "PurchaseInvoices", "off")
  <2>1. c \in {"FT", "NC"} \/ c \in CDOC010Codes \/ c \in {"AR", "RC"}
    BY <1>8 DEF PurchaseCodes, CDOC010Codes
  <2>2. PurchaseSide(es, c)
    <3>1. CASE c \in {"FT", "NC"}
      BY <1>3, <3>1 DEF CheckCDOC008, Dual
    <3>2. CASE c \in CDOC010Codes
      BY <1>3, <3>2 DEF CheckCDOC010, Dual
    <3>3. CASE c \in {"AR", "RC"}
      BY <1>3, <3>3 DEF CheckCDOC006, CheckCDOC009
    <3> QED BY <2>1, <3>1, <3>2, <3>3
  <2> QED BY <1>1, <2>2, OffRowPinned DEF PurchaseSide
<1> QED BY <1>4, <1>5, <1>6, <1>7, <1>8 DEF es

\* The binding of a released row, group by group.
LEMMA SeedPinned ==
  ASSUME NEW t, Parses(t), ChecksPass(Entries(t)), NEW s \in SeedRows, s.id \notin Unguarded
  PROVE  {Binding(r) : r \in Lookup(Entries(t), s.id)} = {Binding(s)}
<1> DEFINE es == Entries(t)
<1>1. /\ \A c \in SalesCodes \ {"ND"} :
           Pinned(es, "vendas", c, c, "InvoiceType", "SalesInvoices", IF c \in {"FT", "NC"} THEN "on" ELSE "off")
      /\ \A c \in {"RC", "AR"} : Pinned(es, "pagamentos", c, c, "PaymentType", "Payments", "off")
      /\ Pinned(es, "movimentacao", "GR", Empty, "MovementType", "MovementOfGoods", "off")
      /\ \A c \in WorkTypeCodes \cup {"GR"} :
           Pinned(es, "conferencia", c, Empty, "WorkType", "WorkingDocuments", "off")
      /\ \A c \in PurchaseCodes \ {"NL"} :
           Pinned(es, "compras", c, Empty, "PurchaseType", "PurchaseInvoices", "off")
  BY ChecksPin
<1> HIDE DEF es
<1> SUFFICES \E g, c, fe, layer, l3, activo :
      /\ Pinned(es, g, c, fe, layer, l3, activo)
      /\ s.id = <<g, c>> /\ Binding(s) = <<g, fe, layer, c, l3, activo>>
  BY DEF Pinned, es
<1>2. CASE s \in VendasRows
  <2>1. PICK c \in SalesCodes :
          s = Row("vendas", c, c, Adapter("InvoiceType", c), "SalesInvoices", "ambos",
                  IF c = "GF" THEN "conflito" ELSE "hipotese", IF c \in {"FT", "NC"} THEN "on" ELSE "off")
    BY <1>2 DEF VendasRows, Unguarded, Row
  <2>2. s.id = <<"vendas", c>> /\ c # "ND"
    BY <2>1 DEF Row, Unguarded
  <2>3. Binding(s) = <<"vendas", c, "InvoiceType", c, "SalesInvoices", IF c \in {"FT", "NC"} THEN "on" ELSE "off">>
    BY <2>1 DEF Binding, Row, Layer, Code, Adapter, Layers, Empty
  <2> QED BY <1>1, <2>2, <2>3
<1>3. CASE s \in PagamentosRows
  <2>1. PICK c \in {"RC", "RG", "AR"} :
          s = Row("pagamentos", c, c, Adapter("PaymentType", c), "Payments", "ambos",
                  IF c = "AR" THEN "hipotese" ELSE "conflito", "off")
    BY <1>3 DEF PagamentosRows
  <2>2. s.id = <<"pagamentos", c>> /\ c # "RG"
    BY <2>1 DEF Row, Unguarded
  <2>3. Binding(s) = <<"pagamentos", c, "PaymentType", c, "Payments", "off">>
    BY <2>1 DEF Binding, Row, Layer, Code, Adapter, Layers, Empty
  <2> QED BY <1>1, <2>2, <2>3
<1>4. ASSUME NEW g, NEW layer \in Layers, NEW l3, NEW c, s = SaftOnlyRow(g, layer, l3, c)
      PROVE  s.id = <<g, c>> /\ Binding(s) = <<g, Empty, layer, c, l3, "off">>
  BY <1>4 DEF Binding, SaftOnlyRow, Row, Layer, Code, Adapter, Layers, Empty
<1>5. CASE s \in MovimentacaoRows
  <2>1. PICK c \in MovementCodes : s = SaftOnlyRow("movimentacao", "MovementType", "MovementOfGoods", c)
    BY <1>5 DEF MovimentacaoRows
  <2>2. s.id = <<"movimentacao", c>> /\ Binding(s) = <<"movimentacao", Empty, "MovementType", c, "MovementOfGoods", "off">>
    BY <1>4, <2>1 DEF Layers
  <2>3. c = "GR"
    BY <2>1, <2>2 DEF Unguarded, MovementCodes
  <2> QED BY <1>1, <2>2, <2>3
<1>6. CASE s \in ConferenciaRows
  <2>1. PICK c \in WorkTypeCodes \cup {"GR"} : s = SaftOnlyRow("conferencia", "WorkType", "WorkingDocuments", c)
    BY <1>6 DEF ConferenciaRows
  <2>2. s.id = <<"conferencia", c>> /\ Binding(s) = <<"conferencia", Empty, "WorkType", c, "WorkingDocuments", "off">>
    BY <1>4, <2>1 DEF Layers
  <2> QED BY <1>1, <2>2
<1>7. CASE s \in ComprasRows
  <2>1. PICK c \in PurchaseCodes : s = SaftOnlyRow("compras", "PurchaseType", "PurchaseInvoices", c)
    BY <1>7 DEF ComprasRows
  <2>2. s.id = <<"compras", c>> /\ Binding(s) = <<"compras", Empty, "PurchaseType", c, "PurchaseInvoices", "off">>
    BY <1>4, <2>1 DEF Layers
  <2>3. c # "NL"
    BY <2>2 DEF Unguarded
  <2> QED BY <1>1, <2>2, <2>3
<1> QED BY <1>2, <1>3, <1>5, <1>6, <1>7, SeedRowsListed

\* ResolveAPI finds one row for each type of the interface.
LEMMA ResolvesOne ==
  ASSUME NEW t, Parses(t), NEW api \in {"invoice", "credit_note"}
  PROVE  Cardinality(ResolveAPI(Entries(t), api)) = 1
<1> DEFINE c == IF api = "invoice" THEN "FT" ELSE "NC"
<1>1. PICK r \in Entries(t) : r.id = <<"vendas", c>> /\ r.activo = "on"
  BY DEF Parses
<1>2. \A q \in ResolveAPI(Entries(t), api) : q = r
  BY <1>1, ParsedIdsUnique DEF ResolveAPI, IdsUnique
<1>3. ResolveAPI(Entries(t), api) = {r}
  BY <1>1, <1>2 DEF ResolveAPI
<1> QED BY <1>3, FS_Singleton

\* A table reaches the checks only if it loads, and is accepted only if it
\* passes them.
CatInv ==
  /\ catState \in {"loaded", "accepted"} => Parses(catTable)
  /\ catState = "accepted" => ChecksPass(Entries(catTable))

LEMMA CatInvHolds == CatSpec => []CatInv
<1>1. CatInit => CatInv
  BY DEF CatInit, CatInv
<1>2. ASSUME CatInv, [CatNext]_catVars PROVE CatInv'
  <2>1. ASSUME NEW t, Edit(t) PROVE CatInv'
    <3>1. catState' = "edited"
      BY <2>1 DEF Edit
    <3> QED BY <3>1 DEF CatInv
  <2>2. CASE \E i \in DOMAIN catTable : EditCell(i) \/ LoseRow(i) \/ CopyRow(i)
    <3>1. ASSUME NEW i \in DOMAIN catTable, EditCell(i) PROVE CatInv'
      BY <2>1, <3>1, Zenon DEF EditCell
    <3>2. ASSUME NEW i \in DOMAIN catTable, LoseRow(i) \/ CopyRow(i) PROVE CatInv'
      BY <2>1, <3>2, Zenon DEF LoseRow, CopyRow
    <3> QED BY <2>2, <3>1, <3>2
  <2>3. CASE Load
    BY <2>3 DEF Load, CatInv
  <2>4. CASE RunChecks
    BY <1>2, <2>4 DEF RunChecks, CatInv
  <2>5. CASE UNCHANGED catVars
    BY <1>2, <2>5 DEF catVars, CatInv
  <2> QED BY <1>2, <2>2, <2>3, <2>4, <2>5 DEF CatNext
<1> QED BY <1>1, <1>2, PTL DEF CatSpec

\* However many edits a table has had, one that ParseCatalog loads and the
\* Check*Invariants functions accept has every released row but the seven
\* unguarded ones with its binding, and resolves FT and NC.
THEOREM RowsPinned == CatSpec => []GuardedRowsPinned
<1>1. ASSUME CatInv, catState = "accepted" PROVE GuardedRowsPinned
  <2>1. Parses(catTable) /\ ChecksPass(Entries(catTable))
    BY <1>1 DEF CatInv
  <2>2. \A s \in {x \in SeedRows : x.id \notin Unguarded} :
          {Binding(r) : r \in Lookup(Entries(catTable), s.id)} = {Binding(s)}
    <3> TAKE s \in {x \in SeedRows : x.id \notin Unguarded}
    <3>1. s \in SeedRows /\ s.id \notin Unguarded
      OBVIOUS
    <3> QED BY <2>1, <3>1, SeedPinned
  <2>3. \A api \in {"invoice", "credit_note"} : Cardinality(ResolveAPI(Entries(catTable), api)) = 1
    BY <2>1, ResolvesOne
  <2> QED BY <2>2, <2>3 DEF GuardedRowsPinned
<1>2. CatInv => GuardedRowsPinned
  BY <1>1 DEF GuardedRowsPinned
<1> QED BY <1>2, CatInvHolds, PTL

\* However many edits a table has had and whatever is switched on, a
\* released type of the SAF-T groups is never available to an establishment
\* enrolled in electronic invoicing (evaluateType).
THEOREM NeverElectronic == CatSpec => []SaftOnlyNeverElectronic
<1>1. ASSUME CatInv, catState = "accepted", NEW r \in Entries(catTable), NEW switch, NEW override,
             r.id \in Ids(Seed) \ Unguarded, r.id[1] \in {"movimentacao", "conferencia", "compras"}
      PROVE  ~ Available(r, switch, override, "active")
  <2>1. PICK s \in SeedRows : s.id = r.id
    BY <1>1 DEF Ids, SeedRows
  <2>2. Binding(r) = Binding(s)
    BY <1>1, <2>1, SeedPinned DEF CatInv, Lookup
  <2>3. r.fe = s.fe
    BY <2>2 DEF Binding
  <2>4. s.fe = Empty
    BY <1>1, <2>1, SeedRowsListed
    DEF VendasRows, PagamentosRows, MovimentacaoRows, ConferenciaRows, ComprasRows, SaftOnlyRow, Row
  <2>5. ChannelRefuses(r, "active")
    BY <2>3, <2>4 DEF ChannelRefuses
  <2>6. "fe_matrix_unsupported" \in Reasons(r, switch, override, "active")
    BY <2>5 DEF Reasons, ReasonCodes
  <2> QED BY <2>6 DEF Available
<1>2. CatInv => SaftOnlyNeverElectronic
  BY <1>1 DEF SaftOnlyNeverElectronic
<1> QED BY <1>2, CatInvHolds, PTL
==============================================================================
