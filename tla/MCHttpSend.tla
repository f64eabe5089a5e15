----------------------------- MODULE MCHttpSend -----------------------------
(* HttpSend with three header strings, of three, one and two units. *)
EXTENDS HttpSend

MCHdrAt == <<1, 4, 5, 7>>
=============================================================================
