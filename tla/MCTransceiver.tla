--------------------------- MODULE MCTransceiver ----------------------------
(* Messages without payload, with one of two bytes, of a class the receiver  *)
(* does not know, and with a payload that does not decode.                   *)
EXTENDS Transceiver

Msg(known, decodes, size) == [known |-> known, decodes |-> decodes, size |-> size]
MCMessages == {Msg(TRUE, TRUE, 0), Msg(TRUE, TRUE, 2), Msg(FALSE, TRUE, 1), Msg(TRUE, FALSE, 1)}
=============================================================================
