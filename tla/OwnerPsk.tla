------------------------------- MODULE OwnerPsk -------------------------------
(***************************************************************************)
(* Owner PSK derivation of src/security/oc_tls.c: oc_sec_derive_owner_psk *)
(* and the TLS PRF oc_tls_prf it calls twice.                              *)
(*                                                                         *)
(* The PRF's loop is a state machine, one HMAC round per step, and is      *)
(* checked against P_SHA256 of RFC 5246, section 5, written recursively.  *)
(* HMAC-SHA256 is a free constructor: Hmac(k, msg) is a term, and the      *)
(* bytes of a digest are <<digest, index>>.  A message is the sequence of  *)
(* the fragments hashed, in order; the fragments of the callers are        *)
(* symbols.  Byte lengths are kept exact.                                  *)
(***************************************************************************)
EXTENDS Integers, Sequences

CONSTANTS
    Suites,   \* ciphersuites the peer's session may have negotiated
    KeyLen    \* key_len asked for by the caller

ASSUME KeyLen \in Nat \ {0}

(* mbedtls_md_get_size(SHA256) *)
HashLen == 32

VARIABLES
    ctx,      \* the peer record of the endpoint, as the function finds it
    pc,       \* "checks", "prf" (in the loop), "exit" (md failure), "done"
    call,     \* which oc_tls_prf call of the function is running (1 or 2)
    kbl,      \* key_block_len
    secret,   \* the secret argument of the running oc_tls_prf
    seed,     \* its message fragments
    len,      \* its output_len
    A,        \* its A
    gen,      \* its gen_output
    out,      \* the bytes it has written to its output buffer
    keyBlock, \* key_block, as the first call left it
    key,      \* the caller's key buffer, as the second call left it
    result    \* the function's return value (once pc = "done")

vars == <<ctx, pc, call, kbl, secret, seed, len, A, gen, out, keyBlock, key,
          result>>

Hmac(k, msg) == <<"hmac", k, msg>>
Digest(h, n) == [i \in 1 .. n |-> <<h, i>>]

(* The fragments of the two calls: the "key expansion" label, then the     *)
(* server random (client_server_random + 32) and the client random; then  *)
(* oxm, obt_uuid and server_uuid.                                          *)
MasterSecret == <<"master_secret">>
KeySeed == <<"key expansion", "server_random", "client_random">>
PskSeed == <<"oxm", "obt_uuid", "server_uuid">>

Valid(c) == c.peer /\ c.session /\ c.master /\ c.randoms

(* The (mac key, key, iv) sizes of each suite the function knows, from     *)
(* the length macros of oc_tls.c (CBC_IV_LENGTH is 0, CCM_IV_LENGTH 4).    *)
KeyMaterial ==
    [ECDH_ANON_WITH_AES_128_CBC_SHA256     |-> <<32, 16, 0>>,
     ECDHE_PSK_WITH_AES_128_CBC_SHA256     |-> <<32, 16, 0>>,
     ECDHE_ECDSA_WITH_AES_128_CBC_SHA256   |-> <<32, 16, 0>>,
     ECDHE_ECDSA_WITH_AES_128_CCM          |-> <<0, 16, 4>>,
     ECDHE_ECDSA_WITH_AES_128_CCM_8        |-> <<0, 16, 4>>,
     ECDHE_ECDSA_WITH_AES_256_CCM          |-> <<0, 32, 4>>,
     ECDHE_ECDSA_WITH_AES_256_CCM_8        |-> <<0, 32, 4>>,
     ECDHE_ECDSA_WITH_AES_128_GCM_SHA256   |-> <<32, 16, 12>>]

(* The ciphersuites of the key_block_len chain *)
Cbc128 == {"ECDH_ANON_WITH_AES_128_CBC_SHA256",
           "ECDHE_PSK_WITH_AES_128_CBC_SHA256",
           "ECDHE_ECDSA_WITH_AES_128_CBC_SHA256"}
Ccm128 == {"ECDHE_ECDSA_WITH_AES_128_CCM", "ECDHE_ECDSA_WITH_AES_128_CCM_8"}

\* Variant of KeyBlockLen whose 128-bit CCM test omits the CCM_8 suite.
KeyBlockLenNoCcm8(s) ==
    IF s \in Cbc128 THEN 2 * (32 + 16 + 0)
    ELSE IF s = "ECDHE_ECDSA_WITH_AES_128_CCM" THEN 2 * (0 + 16 + 4)
    ELSE IF s \in {"ECDHE_ECDSA_WITH_AES_256_CCM",
                   "ECDHE_ECDSA_WITH_AES_256_CCM_8"} THEN 2 * (0 + 32 + 4)
    ELSE IF s = "ECDHE_ECDSA_WITH_AES_128_GCM_SHA256" THEN 2 * (32 + 16 + 12)
    ELSE 0

(* key_block_len = 2 * (mac_key_len + key_size + iv_size), the sizes set   *)
(* by the chain of ciphersuite tests; 0 for any other suite.               *)
KeyBlockLen(s) ==
    IF s \in Cbc128 THEN 2 * (32 + 16 + 0)
    ELSE IF s \in Ccm128 THEN 2 * (0 + 16 + 4)
    ELSE IF s \in {"ECDHE_ECDSA_WITH_AES_256_CCM",
                   "ECDHE_ECDSA_WITH_AES_256_CCM_8"} THEN 2 * (0 + 32 + 4)
    ELSE IF s = "ECDHE_ECDSA_WITH_AES_128_GCM_SHA256" THEN 2 * (32 + 16 + 12)
    ELSE 0

-----------------------------------------------------------------------------
(* Reference: P_SHA256(secret, seed) of RFC 5246, cut to n bytes.          *)
(* A(1) = HMAC(secret, seed), A(i) = HMAC(secret, A(i-1)); output block i *)
(* is HMAC(secret, A(i) + seed).                                           *)
RECURSIVE PrfA(_, _, _)
PrfA(k, sd, i) == IF i = 1 THEN Hmac(k, sd) ELSE Hmac(k, <<PrfA(k, sd, i - 1)>>)

PHash(k, sd, n) ==
    [j \in 1 .. n |-> <<Hmac(k, <<PrfA(k, sd, (j - 1) \div HashLen + 1)>> \o sd),
                        ((j - 1) % HashLen) + 1>>]

(* The owner PSK the spec describes: the key block of the suite's sizes,   *)
(* expanded from the master secret, then the PRF of it over the OTM        *)
(* fragments.                                                              *)
OwnerPskRef(s) ==
    LET m == KeyMaterial[s]
    IN  PHash(PHash(MasterSecret, KeySeed, 2 * (m[1] + m[2] + m[3])),
              PskSeed, KeyLen)

-----------------------------------------------------------------------------
(* oc_tls_prf up to its loop: both HMAC contexts are set up and            *)
(* A = HMAC(secret, seed); a failing mbedtls_md call goes to the exit      *)
(* with gen_output = -1.                                                   *)
PrfStart(k, sd, n) ==
    /\ secret' = k /\ seed' = sd /\ len' = n /\ out' = <<>>
    /\ \/ A' = Hmac(k, sd) /\ gen' = 0 /\ pc' = "prf"
       \/ A' = A /\ gen' = -1 /\ pc' = "exit"

Init ==
    /\ ctx \in [peer : BOOLEAN, session : BOOLEAN, master : BOOLEAN,
                randoms : BOOLEAN, suite : Suites]
    /\ pc = "checks" /\ call = 1 /\ kbl = 0
    /\ secret = <<>> /\ seed = <<>> /\ len = 0 /\ A = <<>> /\ gen = 0
    /\ out = <<>> /\ keyBlock = <<>> /\ key = <<>> /\ result = FALSE

(* oc_sec_derive_owner_psk up to its first oc_tls_prf call: no peer for    *)
(* the endpoint, no session, an all-zero master secret or all-zero         *)
(* randoms return false; otherwise key_block_len is set from the session's *)
(* ciphersuite and the key block is expanded from the master secret.       *)
DeriveOwnerPsk ==
    /\ pc = "checks"
    /\ \/ /\ ~Valid(ctx)
          /\ pc' = "done"                  \* return false
          /\ UNCHANGED <<kbl, secret, seed, len, A, gen, out>>
       \/ /\ Valid(ctx)
          /\ kbl' = KeyBlockLen(ctx.suite)
          /\ PrfStart(MasterSecret, KeySeed, KeyBlockLen(ctx.suite))
    /\ UNCHANGED <<ctx, call, keyBlock, key, result>>

\* Variant of PrfRound that never updates A.
PrfRoundSameA ==
    /\ pc = "prf" /\ gen < len
    /\ LET copy == IF len - gen < HashLen THEN len - gen ELSE HashLen
       IN  /\ out' = out \o Digest(Hmac(secret, <<A>> \o seed), copy)
           /\ gen' = gen + copy
    /\ UNCHANGED <<pc, A, ctx, call, kbl, secret, seed, len, keyBlock, key,
                   result>>

\* Variant of PrfRound that copies whole blocks whatever remains to be
\* written.
PrfRoundWholeBlocks ==
    /\ pc = "prf" /\ gen < len
    /\ out' = out \o Digest(Hmac(secret, <<A>> \o seed), HashLen)
    /\ gen' = gen + HashLen
    /\ A' = Hmac(secret, <<A>>)
    /\ UNCHANGED <<pc, ctx, call, kbl, secret, seed, len, keyBlock, key,
                   result>>

(* One round of oc_tls_prf's loop, while gen_output < output_len: a block  *)
(* HMAC(secret, A + seed), of which min(rest, hash_len) bytes are copied   *)
(* to output + gen_output; after a whole block, A = HMAC(secret, A).  A    *)
(* failing mbedtls_md call goes to the exit with gen_output = -1.          *)
PrfRound ==
    /\ pc = "prf" /\ gen < len
    /\ LET buf == Hmac(secret, <<A>> \o seed)
           copy == IF len - gen < HashLen THEN len - gen ELSE HashLen
       IN  \/ /\ out' = out \o Digest(buf, copy)
              /\ gen' = gen + copy
              /\ A' = IF copy = HashLen THEN Hmac(secret, <<A>>) ELSE A
              /\ UNCHANGED pc
           \/ /\ gen' = -1 /\ pc' = "exit"
              /\ UNCHANGED <<out, A>>
    /\ UNCHANGED <<ctx, call, kbl, secret, seed, len, keyBlock, key, result>>

(* oc_tls_prf returns gen_output, and oc_sec_derive_owner_psk compares it  *)
(* with the length it asked for: false on a mismatch; after the first      *)
(* call the PSK is expanded from the key_block_len bytes of key_block,     *)
(* after the second it returns true.                                       *)
PrfReturn ==
    /\ IF pc = "prf" THEN gen >= len ELSE pc = "exit"
    /\ \/ /\ gen # len
          /\ pc' = "done"                  \* return false
          /\ UNCHANGED <<result, call, secret, seed, len, A, gen, out,
                         keyBlock, key>>
       \/ /\ gen = len /\ call = 1
          /\ call' = 2 /\ keyBlock' = out
          /\ PrfStart(out, PskSeed, KeyLen)
          /\ UNCHANGED <<key, result>>
       \/ /\ gen = len /\ call = 2
          /\ key' = out /\ result' = TRUE /\ pc' = "done"
          /\ UNCHANGED <<call, secret, seed, len, A, gen, out, keyBlock>>
    /\ UNCHANGED <<ctx, kbl>>

(* The function has returned. *)
Returned == pc = "done" /\ UNCHANGED vars

Next == DeriveOwnerPsk \/ PrfRound \/ PrfReturn \/ Returned

Spec == Init /\ [][Next]_vars

-----------------------------------------------------------------------------
TypeOK ==
    /\ pc \in {"checks", "prf", "exit", "done"}
    /\ call \in {1, 2} /\ kbl \in 0 .. 184
    /\ len \in Nat /\ gen \in -1 .. len
    /\ result \in BOOLEAN

(* oc_tls_prf computes P_SHA256 of RFC 5246: whenever its loop ends, it    *)
(* has written exactly output_len bytes, and they are the reference's,     *)
(* whatever the length is against the 32-byte block (none, one partial,   *)
(* whole and partial blocks).                                              *)
PrfMatchesReference ==
    pc = "prf" /\ gen >= len => gen = len /\ out = PHash(secret, seed, len)

(* oc_sec_derive_owner_psk returns true only for a peer with a session,    *)
(* a master secret and randoms, and then the key is the owner PSK of the  *)
(* spec: the suite's key block expanded from the master secret with the   *)
(* server random before the client random, then the PRF of it over oxm,   *)
(* obt_uuid and server_uuid.                                               *)
OwnerPskAsSpecified ==
    pc = "done" /\ result => Valid(ctx) /\ key = OwnerPskRef(ctx.suite)
=============================================================================
