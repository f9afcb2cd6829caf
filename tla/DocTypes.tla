------------------------------ MODULE DocTypes ------------------------------
(***************************************************************************)
(* Document types (internal/doctype): the released table, what             *)
(* ParseCatalog accepts, the Check*Invariants functions that guard it, and *)
(* the two uses made of it: to resolve the type of a document (ResolveAPI) *)
(* and to tell which types an establishment may use (ComputeAvailability). *)
(*                                                                         *)
(* The table is a sequence of rows; a row's canonical code                 *)
(* bwb.ao.<group>.<code> is the pair <<group, code>>, a SAF-T adapter      *)
(* "InvoiceType=FT" is a record, and Empty is the cell the table writes    *)
(* with the empty-set sign.                                                *)
(***************************************************************************)
EXTENDS Integers, Sequences, FiniteSets

Empty == "empty"
Groups == {"vendas", "movimentacao", "conferencia", "pagamentos", "compras"}
Layers == {"InvoiceType", "PaymentType", "WorkType", "PurchaseType", "MovementType"}
Structures == {"SalesInvoices", "Payments", "WorkingDocuments", "PurchaseInvoices", "MovementOfGoods"}
EnrolmentStates == {"not_enrolled", "pending", "active", "suspended"}

NoAdapter == [prefix |-> Empty, code |-> Empty]
Adapter(p, c) == [prefix |-> p, code |-> c]

------------------------------------------------------------------------------
(* The released table, group by group.                                     *)

Row(g, c, fe, adapter, l3, elig, estado, activo) ==
  [id |-> <<g, c>>, grupo |-> g, fe |-> fe, adapter |-> adapter, l3 |-> l3,
   elig |-> elig, estado |-> estado, activo |-> activo]

Each(codes, RowOf(_)) == [i \in 1..Len(codes) |-> RowOf(codes[i])]

SaftOnly(g, layer, l3, codes) ==
  Each(codes, LAMBDA c : Row(g, c, Empty, Adapter(layer, c), l3, "SAF-T", "pending_validation", "off"))

Vendas ==
  Each(<<"FT", "FR", "FG", "GF", "AC", "AR", "TV", "NC", "ND", "AF", "RP", "RE", "CS", "LD", "RA">>,
       LAMBDA c : Row("vendas", c, c, Adapter("InvoiceType", c), "SalesInvoices", "ambos",
                      IF c = "GF" THEN "conflito" ELSE "hipotese",
                      IF c \in {"FT", "NC"} THEN "on" ELSE "off"))
  \o <<Row("vendas", "FA", "FA", NoAdapter, Empty, "FE", "conflito", "off")>>

Pagamentos ==
  Each(<<"RC", "RG", "AR">>,
       LAMBDA c : Row("pagamentos", c, c, Adapter("PaymentType", c), "Payments", "ambos",
                      IF c = "AR" THEN "hipotese" ELSE "conflito", "off"))

Movimentacao == SaftOnly("movimentacao", "MovementType", "MovementOfGoods", <<"GR", "GT", "GA", "GD">>)

Conferencia ==
  SaftOnly("conferencia", "WorkType", "WorkingDocuments",
           <<"GR", "CM", "CC", "NR", "FO", "NE", "OU", "OR", "PF", "DC", "PP", "GC">>)

Compras ==
  SaftOnly("compras", "PurchaseType", "PurchaseInvoices",
           <<"FT", "FR", "FG", "GF", "AC", "AF", "TV", "NC", "AR", "NL", "RC">>)

Seed == Vendas \o Pagamentos \o Movimentacao \o Conferencia \o Compras
SeedRows == {Seed[i] : i \in DOMAIN Seed}

------------------------------------------------------------------------------
(* ParseCatalog.  A line that is no row of the namespace is skipped, not   *)
(* refused: to the program it is a lost row (LoseRow).                     *)

Ids(t) == {t[i].id : i \in DOMAIN t}
Entries(t) == {t[i] : i \in DOMAIN t}

EntryValid(r) == r.activo \in {"on", "off", "pending_dec_reg_003"}

Parses(t) ==
  /\ t # <<>>
  /\ \A i \in DOMAIN t : EntryValid(t[i])
  /\ \A i, j \in DOMAIN t : t[i].id = t[j].id => i = j
  /\ \A c \in {"FT", "NC"} : \E r \in Entries(t) : r.id = <<"vendas", c>> /\ r.activo = "on"

Lookup(es, id) == {r \in es : r.id = id}

(* ParseSAFTTypeAdapter: an unknown prefix is the layer "other".           *)
Layer(r) == IF r.adapter.prefix \in Layers \cup {Empty} THEN r.adapter.prefix ELSE "other"
Code(r) == IF Layer(r) = Empty THEN Empty ELSE r.adapter.code

------------------------------------------------------------------------------
(* Check*Invariants.  Bound is the part they share: the seed row is there  *)
(* and keeps its codes, its structure and its group.                       *)

Bound(es, g, c, fe, layer, l3) ==
  \E r \in Lookup(es, <<g, c>>) :
    r.fe = fe /\ Layer(r) = layer /\ Code(r) = c /\ r.l3 = l3 /\ r.grupo = g

IsOff(es, g, c) == \A r \in Lookup(es, <<g, c>>) : r.activo = "off"

(* A literal of a layer sits under the structure of that layer.            *)
LiteralUnder(es, codes, layer, l3) ==
  \A r \in es : Layer(r) = layer /\ Code(r) \in codes => r.l3 = l3

SalesSide(es, c) == Bound(es, "vendas", c, c, "InvoiceType", "SalesInvoices")
PurchaseSide(es, c) ==
  Bound(es, "compras", c, Empty, "PurchaseType", "PurchaseInvoices") /\ IsOff(es, "compras", c)
Dual(es, codes) ==
  /\ \A c \in codes : SalesSide(es, c) /\ PurchaseSide(es, c)
  /\ LiteralUnder(es, codes, "InvoiceType", "SalesInvoices")
  /\ LiteralUnder(es, codes, "PurchaseType", "PurchaseInvoices")

CheckCDOC003(es) ==
  \A r \in es :
    /\ r.fe = "FA" => Layer(r) = Empty /\ r.elig \in {Empty, "FE"}
    /\ r.fe \in {"RC", "RG"} =>
         Layer(r) # "InvoiceType" /\ (Layer(r) = "PaymentType" => Code(r) = r.fe)
    /\ Layer(r) = "InvoiceType" => Code(r) \notin {"FA", "RC", "RG"}

ARHomonym(es, g, layer, l3) == Bound(es, g, "AR", "AR", layer, l3) /\ IsOff(es, g, "AR")

CheckCDOC004(es) ==
  /\ ARHomonym(es, "vendas", "InvoiceType", "SalesInvoices")
  /\ ARHomonym(es, "pagamentos", "PaymentType", "Payments")
  /\ \A r \in es : r.fe = "AR" /\ r.id \notin {<<"vendas", "AR">>, <<"pagamentos", "AR">>} =>
       /\ Layer(r) \in {"InvoiceType", "PaymentType"}
       /\ LiteralUnder({r}, {"AR"}, "InvoiceType", "SalesInvoices")
       /\ LiteralUnder({r}, {"AR"}, "PaymentType", "Payments")

Insurers == {"RP", "RE", "CS", "LD", "RA"}

CheckCDOC005(es) ==
  /\ \A c \in Insurers : SalesSide(es, c) /\ IsOff(es, "vendas", c)
  /\ \A r \in es : r.fe \in Insurers => Layer(r) # "WorkType"
  /\ \A r \in es : Layer(r) = "WorkType" /\ Code(r) \in Insurers => r.fe = Empty
  /\ LiteralUnder(es, Insurers, "WorkType", "WorkingDocuments")
  /\ LiteralUnder(es, Insurers, "InvoiceType", "SalesInvoices")

CheckCDOC006(es) ==
  /\ Bound(es, "pagamentos", "RC", "RC", "PaymentType", "Payments") /\ IsOff(es, "pagamentos", "RC")
  /\ PurchaseSide(es, "RC")
  /\ LiteralUnder(es, {"RC"}, "PaymentType", "Payments")
  /\ LiteralUnder(es, {"RC"}, "PurchaseType", "PurchaseInvoices")
  /\ \A r \in es : ~ (Layer(r) = "InvoiceType" /\ Code(r) = "RC")

GRHomonym(es, g, layer, l3) == Bound(es, g, "GR", Empty, layer, l3) /\ IsOff(es, g, "GR")

CheckCDOC007(es) ==
  /\ GRHomonym(es, "movimentacao", "MovementType", "MovementOfGoods")
  /\ GRHomonym(es, "conferencia", "WorkType", "WorkingDocuments")
  /\ LiteralUnder(es, {"GR"}, "MovementType", "MovementOfGoods")
  /\ LiteralUnder(es, {"GR"}, "WorkType", "WorkingDocuments")
  /\ \A r \in es : Code(r) = "GR" => r.fe = Empty

(* A sales row left out of the loop.                                       *)
CheckCDOC008_Mutant(es) == Dual(es, {"FT"})
CheckCDOC008(es) == Dual(es, {"FT", "NC"})

CheckCDOC009(es) ==
  /\ PurchaseSide(es, "AR")
  /\ Lookup(es, <<"vendas", "AR">>) # {} /\ Lookup(es, <<"pagamentos", "AR">>) # {}
  /\ LiteralUnder(es, {"AR"}, "PurchaseType", "PurchaseInvoices")

CDOC010Codes == {"FR", "GF", "FG", "AC", "AF", "TV"}
CheckCDOC010(es) == Dual(es, CDOC010Codes) /\ \A c \in CDOC010Codes : IsOff(es, "vendas", c)

WorkTypeCodes == {"CM", "CC", "NR", "FO", "NE", "OU", "OR", "PF", "DC", "PP", "GC"}

CheckWorkTypeInventory(es) ==
  /\ \A c \in WorkTypeCodes :
       Bound(es, "conferencia", c, Empty, "WorkType", "WorkingDocuments") /\ IsOff(es, "conferencia", c)
  /\ \A c \in Insurers : Lookup(es, <<"conferencia", c>>) = {}

ChecksPass(es) ==
  /\ CheckCDOC003(es) /\ CheckCDOC004(es) /\ CheckCDOC005(es) /\ CheckCDOC006(es)
  /\ CheckCDOC007(es) /\ CheckCDOC008(es) /\ CheckCDOC009(es) /\ CheckCDOC010(es)
  /\ CheckWorkTypeInventory(es)

------------------------------------------------------------------------------
(* Availability.  A configuration gives a group's switch and a type's      *)
(* override, each of them absent (Empty), TRUE or FALSE.                   *)

Switches == {Empty, "T", "F"}

IsAGTPending(estado) == estado \in {"pending_validation", "conflito"}

groupIsActive(switch) == switch # "F"
typeIsActive(r, override) == IF override = Empty THEN r.activo = "on" ELSE override = "T"

HasSAFT(r) == r.adapter.prefix # Empty \/ r.l3 # Empty

(* With FE active only types of the FE matrix, without it only SAF-T's.    *)
ChannelRefuses_Mutant(r, enrolment) ==
  IF enrolment = "active" THEN r.fe = Empty /\ ~ HasSAFT(r) ELSE ~ HasSAFT(r) \/ r.elig = "FE"
ChannelRefuses(r, enrolment) ==
  IF enrolment = "active" THEN r.fe = Empty ELSE ~ HasSAFT(r) \/ r.elig = "FE"

(* evaluateType: the reasons that speak against a type, and no others.     *)
ReasonCodes ==
  {"group_inactive", "type_inactive", "agt_pending", "fe_matrix_unsupported", "saft_incompatible"}

Reasons(r, switch, override, enrolment) ==
  {x \in ReasonCodes :
    \/ x = "group_inactive" /\ ~ groupIsActive(switch)
    \/ x = "type_inactive" /\ ~ typeIsActive(r, override)
    \/ x = "agt_pending" /\ IsAGTPending(r.estado)
    \/ /\ ChannelRefuses(r, enrolment)
       /\ x = IF enrolment = "active" THEN "fe_matrix_unsupported" ELSE "saft_incompatible"}

Available(r, switch, override, enrolment) == Reasons(r, switch, override, enrolment) = {}

(* ComputeAvailability for an establishment: the enrolment it went by, the *)
(* groups switched on, and every type with the reasons against it.         *)
ComputeAvailability(es, switches, overrides, enrolment) ==
  [status |-> enrolment,
   aderiu |-> enrolment = "active",
   groups |-> {g \in Groups : groupIsActive(switches[g])},
   types |-> {[id |-> r.id, reasons |-> Reasons(r, switches[r.grupo], overrides[r.id], enrolment)] : r \in es}]

(* ResolveAPI of "invoice" and "credit_note": the row, or none.            *)
ResolveAPI(es, api) ==
  {r \in es : r.id = <<"vendas", IF api = "invoice" THEN "FT" ELSE "NC">> /\ r.activo = "on"}
==============================================================================
