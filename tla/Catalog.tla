------------------------------- MODULE Catalog -------------------------------
(***************************************************************************)
(* The product catalog: products, their SKUs, and one table of external    *)
(* identities that both share.  Product and SKU rows carry a version that  *)
(* a change must name; the descriptive fields are left out.  A product is  *)
(* named after the key of the command that created it, a SKU after the key *)
(* and its product.                                                        *)
(***************************************************************************)
EXTENDS Idempotency

CONSTANTS
    Listed,   \* a product of the catalog from the beginning
    Codes,    \* external identifiers of one source namespace
    MaxCatalogCommands   \* bound: commands sent

VARIABLES
    products, skus,
    identities    \* [Codes -> the product or SKU that has the identifier]

catalogVars == <<products, skus, identities>>
-----------------------------------------------------------------------------
Products == Keys \cup {Listed}

SKUs == Keys \X Products

ListedCode == CHOOSE x \in Codes : TRUE

(* Product.create, SKU.create *)
NewProduct(code) == [code |-> code, version |-> 1]
NewSKU(code) == [code |-> code, version |-> 1]

(* assert_version *)
AtVersion(row, version) == row # None /\ row.version = version

(* Product.update, SKU.update *)
UpdatedProduct(p) == [p EXCEPT !.version = @ + 1]
UpdatedSKU(s) == [s EXCEPT !.version = @ + 1]

CatalogInit ==
    /\ products = [p \in Products |-> IF p = Listed THEN NewProduct(ListedCode) ELSE None]
    /\ skus = [s \in SKUs |-> None]
    /\ identities = [x \in Codes |-> IF x = ListedCode THEN <<"PRODUCT", Listed>> ELSE None]

ProductRow(p) == <<"product", p>>
SKURow(s) == <<"sku", s>>
IdentityRow(x) == <<"identity", x>>

SKUsOf(p) == {s \in SKUs : skus[s] # None /\ s[2] = p}

(* The commands a client that reads the catalog now may send. *)
CatalogRequests ==
    LET known == {p \in Products : products[p] # None}
        kept == {s \in SKUs : skus[s] # None}
    IN {Request("create_product", "product-create", None, x, 0) : x \in Codes}
       \cup {Request("update_product", "product-update", p, None, products[p].version) : p \in known}
       \cup {Request("delete_product", "product-delete", p, None, products[p].version) : p \in known}
       \cup {Request("create_sku", "sku-create", p, x, 0) : p \in known, x \in Codes}
       \cup {Request("update_sku", "sku-update", s, None, skus[s].version) : s \in kept}
       \cup {Request("delete_sku", "sku-delete", s, None, skus[s].version) : s \in kept}

(* A deletion goes on with the identifier of the row it has read. *)
DeletionRows(t, row) ==
    IF row \notin DOMAIN t.view \/ t.view[row] = None THEN <<KeyRow(t), row>>
    ELSE <<KeyRow(t), row, IdentityRow(t.view[row].code)>>

(* The rows each command locks, in order.  An insert waits for the         *)
(* transaction that has inserted or deleted the same identifier.           *)
CatalogRows(t) ==
    LET r == t.request
    IN CASE r.op = "create_product" -> <<KeyRow(t), IdentityRow(r.arg)>>
         [] r.op = "update_product" -> <<KeyRow(t), ProductRow(r.target)>>
         [] r.op = "delete_product" -> DeletionRows(t, ProductRow(r.target))
         [] r.op = "create_sku" -> <<KeyRow(t), ProductRow(r.target), IdentityRow(r.arg)>>
         [] r.op = "update_sku" -> <<KeyRow(t), SKURow(r.target)>>
         [] OTHER -> DeletionRows(t, SKURow(r.target))

(* ProductRepository.get, SKURepository.get *)
ReadProduct(c, row) == LockRow(c, row, products[row[2]])
ReadSKU(c, row) == LockRow(c, row, skus[row[2]])

CatalogRead(c) ==
    /\ Open(c) /\ ~Answered(tx[c])
    /\ \E row \in Owing(tx[c], CatalogRows(tx[c])) :
          CASE row[1] = "key" -> Claim(c)
            [] row[1] = "product" -> ReadProduct(c, row)
            [] row[1] = "sku" -> ReadSKU(c, row)
            [] OTHER -> Lock(c, row, identities[row[2]])
    /\ UNCHANGED catalogVars

(* CatalogIdentityRepository.reserve, with the unique constraint *)
Reserve(c, code, type, owner) ==
    /\ tx[c].view[IdentityRow(code)] = None
    /\ identities' = [identities EXCEPT ![code] = <<type, owner>>]

Release(c, code, type, owner) ==
    /\ tx[c].view[IdentityRow(code)] = <<type, owner>>
    /\ identities' = [identities EXCEPT ![code] = None]

(* ProductRepository.save, SKURepository.save: UPDATE ... WHERE version = expected *)
SaveProduct(p, row, expected) ==
    AtVersion(products[p], expected) /\ products' = [products EXCEPT ![p] = row]

SaveSKU(s, row, expected) ==
    AtVersion(skus[s], expected) /\ skus' = [skus EXCEPT ![s] = row]

(* ProductRepository.delete, SKURepository.delete *)
RemoveProduct(p, expected) == SaveProduct(p, None, expected)

RemoveSKU(s, expected) == SaveSKU(s, None, expected)

CreateProduct(c) ==
    LET t == tx[c] IN
    /\ Granted(c, "create_product", CatalogRows(t))
    /\ Reserve(c, t.request.arg, "PRODUCT", t.key)
    /\ products' = [products EXCEPT ![t.key] = NewProduct(t.request.arg)]
    /\ Commit(c)
    /\ UNCHANGED skus

UpdateProduct(c) ==
    LET r == tx[c].request  p == tx[c].view[ProductRow(r.target)] IN
    /\ Granted(c, "update_product", CatalogRows(tx[c]))
    /\ AtVersion(p, r.version)
    /\ SaveProduct(r.target, UpdatedProduct(p), p.version)
    /\ Commit(c)
    /\ UNCHANGED <<skus, identities>>

(* The foreign key of SKUs restricts the deletion as well. *)
DeleteProduct(c) ==
    LET r == tx[c].request  p == tx[c].view[ProductRow(r.target)] IN
    /\ Granted(c, "delete_product", CatalogRows(tx[c]))
    /\ AtVersion(p, r.version) /\ SKUsOf(r.target) = {}
    /\ RemoveProduct(r.target, r.version)
    /\ Release(c, p.code, "PRODUCT", r.target)
    /\ Commit(c)
    /\ UNCHANGED skus

CreateSKU(c) ==
    LET t == tx[c]  s == <<t.key, t.request.target>> IN
    /\ Granted(c, "create_sku", CatalogRows(t))
    /\ t.view[ProductRow(t.request.target)] # None /\ products[t.request.target] # None
    /\ Reserve(c, t.request.arg, "SKU", s)
    /\ skus' = [skus EXCEPT ![s] = NewSKU(t.request.arg)]
    /\ Commit(c)
    /\ UNCHANGED products

UpdateSKU(c) ==
    LET r == tx[c].request  s == tx[c].view[SKURow(r.target)] IN
    /\ Granted(c, "update_sku", CatalogRows(tx[c]))
    /\ AtVersion(s, r.version)
    /\ SaveSKU(r.target, UpdatedSKU(s), s.version)
    /\ Commit(c)
    /\ UNCHANGED <<products, identities>>

DeleteSKU(c) ==
    LET r == tx[c].request  s == tx[c].view[SKURow(r.target)] IN
    /\ Granted(c, "delete_sku", CatalogRows(tx[c]))
    /\ AtVersion(s, r.version)
    /\ RemoveSKU(r.target, r.version)
    /\ Release(c, s.code, "SKU", r.target)
    /\ Commit(c)
    /\ UNCHANGED products

CatalogNext(c) ==
    \/ starts < MaxCatalogCommands /\ \E k \in Keys, r \in CatalogRequests : Begin(c, k, r) /\ UNCHANGED catalogVars
    \/ CatalogRead(c)
    \/ CreateProduct(c) \/ UpdateProduct(c) \/ DeleteProduct(c)
    \/ CreateSKU(c) \/ UpdateSKU(c) \/ DeleteSKU(c)
    \/ Leave(c) /\ UNCHANGED catalogVars
=============================================================================
