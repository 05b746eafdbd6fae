---------------------------- MODULE MC_CertStore ----------------------------
EXTENDS CertStore

CONSTANTS ca1, ca2, i1, i2, i3, A1, A2, L1, L2, I1

(* Two devices, one trust anchor each; device 1 has a leaf i1 that the    *)
(* intermediate i2 can be linked behind, device 2 a leaf i3.              *)
MCCaCreds == {ca1, ca2}
MCIdCreds == {i1, i2, i3}
MCDevOf == (ca1 :> 1) @@ (ca2 :> 2) @@ (i1 :> 1) @@ (i2 :> 1) @@ (i3 :> 2)
MCData == (ca1 :> <<A1>>) @@ (ca2 :> <<A2>>) @@ (i1 :> <<L1>>) @@ (i2 :> <<I1>>)
          @@ (i3 :> <<L2>>)
=============================================================================
