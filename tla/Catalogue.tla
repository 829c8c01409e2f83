----------------------------- MODULE Catalogue -----------------------------
(***************************************************************************)
(* The products and their barcodes (products/products.service.ts) and the  *)
(* import of products (planProducts of imports/imports.service.ts).  A     *)
(* product has a main barcode in its own row and extra ones in another     *)
(* table; each table has a unique index, and nothing in the database       *)
(* relates the two.  A request checks first and writes later.              *)
(*                                                                         *)
(* A product is known by its code, which does not change.  Abstracted: the *)
(* other columns, custom fields and stock; LotStock has the lot tracking.  *)
(***************************************************************************)
EXTENDS Naturals, FiniteSets, SequencesExt

CONSTANTS Product,
          Barcode, NoBarcode,
          MaxRows,            \* bound: rows of an imported file
          MaxRequests         \* bound: requests under way at a time

\* What an instance has to give its constants.
CatalogueAssumption ==
  NoBarcode \notin Barcode /\ MaxRows \in Nat /\ MaxRequests \in Nat

VARIABLES main,      \* main barcode of each product that exists
          active,    \* the products that are not deactivated
          extra,     \* product_barcodes: the product of each extra barcode
          requests   \* requests between their checks and their write

vars == <<main, active, extra, requests>>

Existing == DOMAIN main

Init == main = <<>> /\ active = {} /\ extra = <<>> /\ requests = {}

With(f, x, v) == [y \in DOMAIN f \union {x} |-> IF y = x THEN v ELSE f[y]]

IsMain(c) == \E p \in Existing : main[p] = c

\* assertBarcodeFree
BarcodeFree(c) == ~IsMain(c) /\ c \notin DOMAIN extra

Asked(request) ==
  /\ Cardinality(requests) < MaxRequests /\ request \notin requests
  /\ requests' = requests \union {request}
  /\ UNCHANGED <<main, active, extra>>

Done(r) == requests' = requests \ {r}

\* Mutated form: the products table has no unique index on the barcode.
NoIndex(table, p, c) == TRUE

\* @@unique([tenantId, barcode]) of Product; NULLs are all different.
UniqueMain(table, p, c) ==
  c = NoBarcode \/ \A q \in DOMAIN table \ {p} : table[q] # c

-----------------------------------------------------------------------------
(* One product *)

\* create (check)
CheckCreate(p, c) ==
  /\ p \notin Existing /\ (c = NoBarcode \/ BarcodeFree(c))
  /\ Asked([kind |-> "create", product |-> p, code |-> c])

\* create (write): an error when the code or the barcode is taken by now.
WriteCreate(r) ==
  /\ r.kind = "create" /\ Done(r)
  /\ IF r.product \notin Existing /\ UniqueMain(main, r.product, r.code)
     THEN /\ main' = With(main, r.product, r.code)
          /\ active' = active \union {r.product}
     ELSE UNCHANGED <<main, active>>
  /\ UNCHANGED extra

\* update (check): only a barcode that changes is checked, and none is free.
CheckUpdate(p, c, a) ==
  /\ p \in Existing /\ (c \in {NoBarcode, main[p]} \/ BarcodeFree(c))
  /\ Asked([kind |-> "update", product |-> p, code |-> c, active |-> a])

\* update (write)
WriteUpdate(r) ==
  /\ r.kind = "update" /\ Done(r)
  /\ IF UniqueMain(main, r.product, r.code)
     THEN /\ main' = [main EXCEPT ![r.product] = r.code]
          /\ active' = IF r.active THEN active \union {r.product} ELSE active \ {r.product}
     ELSE UNCHANGED <<main, active>>
  /\ UNCHANGED extra

\* addBarcode (check)
CheckAddBarcode(p, c) ==
  /\ p \in active /\ BarcodeFree(c)
  /\ Asked([kind |-> "extra", product |-> p, code |-> c])

\* addBarcode (write): refused by the unique index of product_barcodes.
WriteAddBarcode(r) ==
  /\ r.kind = "extra" /\ Done(r)
  /\ extra' = IF r.code \in DOMAIN extra THEN extra ELSE With(extra, r.code, r.product)
  /\ UNCHANGED <<main, active>>

\* removeBarcode: of this product only.
RemoveBarcode(p, c) ==
  /\ c \in DOMAIN extra /\ extra[c] = p
  /\ extra' = [d \in DOMAIN extra \ {c} |-> extra[d]]
  /\ UNCHANGED <<main, active, requests>>

\* softDelete: the product keeps its barcodes.
SoftDelete(p) ==
  /\ p \in active
  /\ active' = active \ {p}
  /\ UNCHANGED <<main, extra, requests>>

-----------------------------------------------------------------------------
(* The import *)

Row == [product : Product, code : Barcode \union {NoBarcode}]

\* Mutated form: the extra barcodes are not looked up.
RowMainFree(row) ==
  row.code = NoBarcode \/ \A p \in Existing \ {row.product} : main[p] # row.code

\* planProducts (barcode): no other product's, and no extra one, of whoever.
RowFree(row) ==
  \/ row.code = NoBarcode
  \/ /\ \A p \in Existing \ {row.product} : main[p] # row.code
     /\ row.code \notin DOMAIN extra

\* Mutated form: a file may repeat products.
NoRepeatedBarcode(file) ==
  \A i, j \in DOMAIN file : i # j => file[i].code # file[j].code \/ file[i].code = NoBarcode

\* planProducts (repeated in the file)
NothingRepeated(file) ==
  \A i, j \in DOMAIN file : i # j =>
    /\ file[i].product # file[j].product
    /\ file[i].code # file[j].code \/ file[i].code = NoBarcode

\* planProducts
PlanImport(file) ==
  /\ NothingRepeated(file) /\ \A i \in DOMAIN file : RowFree(file[i])
  /\ Asked([kind |-> "import", file |-> file])

\* upsert of a row: without a barcode a product keeps the one it has.
Upserted(table, row) ==
  IF row.code = NoBarcode /\ row.product \in DOMAIN table
  THEN table ELSE With(table, row.product, row.code)

\* apply of planProducts, in one transaction: the unique index refuses a row,
\* and with it the file.
ApplyImport(r) ==
  LET after[n \in 0..Len(r.file)] ==
        IF n = 0 THEN main ELSE Upserted(after[n - 1], r.file[n])
      ok == \A n \in DOMAIN r.file :
              UniqueMain(after[n - 1], r.file[n].product, r.file[n].code)
  IN  /\ r.kind = "import" /\ Done(r)
      /\ main' = IF ok THEN after[Len(r.file)] ELSE main
      /\ active' = active \union (DOMAIN main' \ Existing)
      /\ UNCHANGED extra

-----------------------------------------------------------------------------

Ask ==
  \/ \E p \in Product, c \in Barcode \union {NoBarcode} :
       CheckCreate(p, c) \/ \E a \in BOOLEAN : CheckUpdate(p, c, a)
  \/ \E p \in Product, c \in Barcode : CheckAddBarcode(p, c) \/ RemoveBarcode(p, c)
  \/ \E p \in Product : SoftDelete(p)
  \/ \E n \in 1..MaxRows : \E file \in [1..n -> Row] : PlanImport(file)

Write ==
  \E r \in requests :
    WriteCreate(r) \/ WriteUpdate(r) \/ WriteAddBarcode(r) \/ ApplyImport(r)

Next == Ask \/ Write

Spec == Init /\ [][Next]_vars

\* Nothing happens between the checks of a request and its write.
UndisturbedNext == Write \/ (requests = {} /\ Ask)

\* findByBarcode: the extra barcodes first; deactivated products are not found.
Scan(c) ==
  IF c \in DOMAIN extra THEN {extra[c]} \intersect active
  ELSE {p \in active : main[p] = c}

-----------------------------------------------------------------------------
(* Correctness *)

\* Type invariant, with what the foreign key and the unique index keep.
CatalogueTypeOK ==
  /\ active \subseteq Existing /\ Existing \subseteq Product
  /\ \A p \in Existing : main[p] \in Barcode \union {NoBarcode}
  /\ \A p, q \in Existing : p # q => main[p] # main[q] \/ main[p] = NoBarcode
  /\ \A c \in DOMAIN extra : c \in Barcode /\ extra[c] \in Existing

\* "Main and extra barcodes share one namespace so a scan always resolves to a
\* single product": nobody else has the barcode of a product.  The code does not
\* keep it beside other requests, and no run checks it: two of them can check
\* the same barcode before either writes it.
OneProductPerBarcode == \A p \in Existing : main[p] \notin DOMAIN extra

\* What it is for: whoever scans a barcode of an active product finds it.
ScanFindsOwner ==
  /\ \A p \in active : main[p] # NoBarcode => Scan(main[p]) = {p}
  /\ \A c \in DOMAIN extra : extra[c] \in active => Scan(c) = {extra[c]}

\* However late the file is applied, an import takes a main barcode from no
\* product outside of it, and leaves every product of it the barcode asked for.
TakesNothing ==
  \A r \in requests \ requests' : r.kind = "import" =>
    \/ main' = main
    \/ /\ \A p \in Existing : main'[p] # main[p] =>
            \E i \in DOMAIN r.file : r.file[i] = [product |-> p, code |-> main'[p]]
       /\ \A i \in DOMAIN r.file :
            r.file[i].code # NoBarcode => main'[r.file[i].product] = r.file[i].code

ImportTakesNothing == [][TakesNothing]_vars

=============================================================================
