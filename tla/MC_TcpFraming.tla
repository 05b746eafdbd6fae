--------------------------- MODULE MC_TcpFraming ---------------------------
(* Frames for model checking TcpFraming.  CoAP-over-TCP messages are given *)
(* by their first byte (Len << 4 | TKL), the code byte and Len bytes of    *)
(* options and payload; TLS records by the 5-byte header and the payload.  *)
EXTENDS TcpFraming

(* 7.02 Ping with no token and no options: 2 bytes. *)
CoapPing == <<0, 226>>
(* 2.05 Content with Len = 4, 5, 6: frames of 6, 7 and 8 bytes. *)
Coap6 == <<64, 69, 1, 2, 3, 4>>
Coap7 == <<80, 69, 1, 2, 3, 4, 5>>
Coap8 == <<96, 69, 1, 2, 3, 4, 5, 6>>
(* TLS application-data records with 1 and 2 bytes of payload. *)
Tls6 == <<23, 3, 3, 0, 1, 9>>
Tls7 == <<23, 3, 3, 0, 2, 9, 9>>

MCCoapLong == {Coap6, Coap7, Coap8}
MCCoapShort == {CoapPing, Coap6}
MCCoapFit == {Coap6, Coap7}
MCTls == {Tls6, Tls7}
=============================================================================
