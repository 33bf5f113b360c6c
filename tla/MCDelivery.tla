---------------------------- MODULE MCDelivery -----------------------------
(* Small instances of Delivery.                                             *)
EXTENDS Delivery, TLC

CONSTANTS l1, l2, f1, f2, d1, d2, s1, s2, t1, a, b, r1, r2, p1, p2

NoLink == << >>
OneLink == l1 :> f1
OneFile == (l1 :> f1) @@ (l2 :> f1)
TwoFiles == (l1 :> f1) @@ (l2 :> f2)

Interchangeable ==
    Permutations({a, b}) \union Permutations({r1, r2}) \union Permutations({p1, p2})
        \union Permutations({d1, d2}) \union Permutations({s1, s2})
===========================================================================
