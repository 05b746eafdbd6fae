----------------------------- MODULE MC_OwnerPsk -----------------------------
EXTENDS OwnerPsk

\* Every ciphersuite the key_block_len chain knows: the OTM suites
\* (anon-ECDH and ECDHE-PSK CBC, the four ECDSA CCM suites) and the
\* ECDSA CBC and GCM suites of the default and cloud lists.  Their key
\* blocks are 40, 72, 96 and 120 bytes: one to four PRF rounds, the last
\* one partial or whole.
MCSuites == DOMAIN KeyMaterial
=============================================================================
