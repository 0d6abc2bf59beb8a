------------------------------- MODULE MCInvoices -------------------------------
(* Invoices on a small instance. *)
EXTENDS Invoices

=============================================================================
