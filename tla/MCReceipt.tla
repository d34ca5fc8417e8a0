------------------------------ MODULE MCReceipt ------------------------------
(* A small alphabet of receipt lines for TLC. *)
EXTENDS ReceiptText

LineOf(s, p, t, n, q, a) ==
  [sort |-> s, pay |-> p, total |-> t, name |-> n, qty |-> q, amounts |-> a]

MCNames == {"CNPJ", "FORMA DE PAGAMENTO", "Dinheiro", "TOTAL", "Total", "Total pago", "Arroz", "Cafe", "json"}

MCLines ==
  {LineOf("blank", FALSE, FALSE, Nothing, 0, <<>>),
   LineOf("rule", FALSE, FALSE, Nothing, 0, <<>>),
   LineOf("fence", FALSE, FALSE, Nothing, 0, <<>>),
   LineOf("fence", FALSE, FALSE, "json", 0, <<>>),
   LineOf("meta", FALSE, FALSE, "CNPJ", 0, <<12>>),
   LineOf("text", TRUE, FALSE, "FORMA DE PAGAMENTO", 0, <<>>),
   LineOf("text", TRUE, FALSE, "Dinheiro", 0, <<700>>),
   LineOf("text", FALSE, TRUE, "TOTAL", 0, <<>>),
   LineOf("text", FALSE, TRUE, "Total", 0, <<600>>),
   LineOf("text", TRUE, TRUE, "Total pago", 0, <<>>),
   LineOf("text", FALSE, FALSE, "Arroz", 0, <<>>),
   LineOf("text", FALSE, FALSE, Nothing, 2, <<300>>),
   LineOf("text", FALSE, FALSE, "Cafe", 2, <<250, 500>>)}
=============================================================================
