---------------------------- MODULE MCWorkQueue ----------------------------
EXTENDS WorkQueue

CONSTANTS r, a, b, p, x   \* the root, a in it, b and the file x in a, a package in r

Chain == {r, a, b}
Tree == {r, a, b, p}
OneFile == {x}
OnePackage == {p}
NoPackage == {}
UpTree == (a :> r) @@ (b :> a) @@ (x :> a) @@ (p :> r)
UpChain == (a :> r) @@ (b :> a) @@ (x :> a)
Pair == {r, a}
UpPair == (a :> r) @@ (x :> a)
=============================================================================
