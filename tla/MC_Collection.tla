---------------------------- MODULE MC_Collection ----------------------------
(***************************************************************************)
(* Two application resources, "/b" and one without a URI, two collection *)
(* slots "/c" and "/ab", and two link slots.  The hrefs are ordered     *)
(* differently by strcmp alone ("/ab" < "/b" < "/c") and by length first  *)
(* ("/b" < "/c" < "/ab").  Collection c1 answers the batch interface by  *)
(* default and c2 the baseline interface, so a batch request nests one   *)
(* level into c1 from c2 and back into c2's baseline.                    *)
(***************************************************************************)
EXTENDS Collection, TLC

CONSTANTS r1, r2, c1, c2, l1, l2

MCAppRes == {r1, r2}
MCCollSlots == {c1, c2}
MCLinkSlots == {l1, l2}
MCHref == (r1 :> [len |-> 2, rank |-> 2]) @@ (r2 :> [len |-> 0, rank |-> 0])
          @@ (c1 :> [len |-> 2, rank |-> 3]) @@ (c2 :> [len |-> 3, rank |-> 1])
MCDefaultIf == (c1 :> "b") @@ (c2 :> "baseline")
MCSymmetry == Permutations(MCLinkSlots)
=============================================================================
