-------------------------- MODULE MC_CloudManager --------------------------
EXTENDS CloudManager

(* A device that registered before: the store holds SIGNED_UP or PUBLISHED. *)
MCRegistered == {"SIGNED_UP", "PUBLISHED"}
=============================================================================
