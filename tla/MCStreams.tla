------------------------------ MODULE MCStreams ------------------------------
(* Two channels, the slug of one of which has a slash and ends in the other;  *)
(* three keys (so that a channel can be rotated twice, or revoked and         *)
(* provisioned again, beside the other one) and two sessions, which overlap   *)
(* on one channel or run on both.  Paths are the two slugs and one per key.   *)
EXTENDS StreamsService, TLC

CONSTANTS a, b, k1, k2, k3, x1, x2, h1, h2, h3, h4, h5, noChannel, noSlug, nothing,
          pa, pb, p1, p2, p3

MCSlugs == {a, b}
MCKeys == {k1, k2, k3}
MCHashes == {h1, h2, h3, h4, h5}
MCHashOf == (k1 :> h1) @@ (k2 :> h2) @@ (k3 :> h3) @@ (a :> h4) @@ (b :> h5)
MCSessions == {x1, x2}
MCPaths == {pa, pb, p1, p2, p3}
MCPathOf == (a :> pa) @@ (b :> pb)

KeySegments == (p1 :> k1) @@ (p2 :> k2) @@ (p3 :> k3)

\* The slug b is written with a slash: lastPathSegment(b) = a.
SlashedSegments == KeySegments @@ (pa :> a) @@ (pb :> a)

\* No slug has a slash.
PlainSegments == KeySegments @@ (pa :> a) @@ (pb :> b)

AnyConvention == {"any"}
PathConvention == {"path"}

\* Keys are drawn at random and sessions are alike: a permutation of the keys
\* takes their hashes and paths along.
KeyPermutations ==
    LET Hash == (k1 :> h1) @@ (k2 :> h2) @@ (k3 :> h3)
        Path == (k1 :> p1) @@ (k2 :> p2) @@ (k3 :> p3)
    IN  {f @@ [h \in {h1, h2, h3} |-> Hash[f[CHOOSE k \in MCKeys : Hash[k] = h]]]
           @@ [p \in {p1, p2, p3} |-> Path[f[CHOOSE k \in MCKeys : Path[k] = p]]] :
             f \in Permutations(MCKeys)}

Symmetry == {f @@ g : f \in KeyPermutations, g \in Permutations(MCSessions)}
=============================================================================
