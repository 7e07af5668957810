----------------------------- MODULE MCErpSync -----------------------------
(***************************************************************************)
(* One source with an invoice, a payment of it, and three customers: two   *)
(* of them share the phone number of the invoice.                          *)
(***************************************************************************)
EXTENDS ErpSync, TLC
CONSTANTS s1, i1, p1, c1, c2, c3, f1, f2, j1, j2
MCSource == {s1}
MCInvoice == {i1}
MCPayment == {p1}
MCCustomer == {c1, c2, c3}
MCPhone == {f1, f2}
MCJob == {j1, j2}
MCSourceOf == [x \in Row \cup Customer |-> s1]
MCInvoiceOf == [p \in Payment |-> i1]
MCPhoneOf == [x \in Invoice \cup Customer |-> IF x = c3 THEN f2 ELSE f1]
Symmetry == Permutations(MCJob)
=============================================================================
