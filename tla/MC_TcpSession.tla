--------------------------- MODULE MC_TcpSession ---------------------------
(* Model-checking instance of TcpSession: one dialled endpoint, one       *)
(* accepted endpoint, two messages, pools of two.                         *)
EXTENDS TcpSession, TLC

CONSTANTS e1, e2, a1, m1, m2

MCDialled  == {e1}
MCAccepted == {a1}
MCMsgs     == {m1, m2}
MCOneMsg   == {m1}
MCNoAccepted == {}

=============================================================================
