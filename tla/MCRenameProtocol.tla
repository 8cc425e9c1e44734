-------------------------- MODULE MCRenameProtocol --------------------------
EXTENDS RenameProtocol

Exclusive(kind) == [alias |-> kind # "sensitive", keeps |-> kind # "decomposing",
                    excl |-> TRUE, guarded |-> FALSE, stable |-> TRUE]
Fallback(kind, stable) ==
  [Exclusive(kind) EXCEPT !.excl = FALSE, !.guarded = TRUE, !.stable = stable]
\* A network volume whose server answers differently from call to call.
Mixed(kind) == [Fallback(kind, FALSE) EXCEPT !.excl = TRUE]

\* APFS and HFS+ against a normalization-sensitive volume.
ExclusiveVolumes == {Exclusive(k) : k \in {"sensitive", "aliased", "decomposing"}}
\* exFAT and network volumes without exclusive rename.
FallbackVolumes == {Fallback(k, FALSE) : k \in {"sensitive", "aliased", "decomposing"}}
                   \cup {Fallback("sensitive", TRUE), Mixed("sensitive")}
OneVolume == {Exclusive("sensitive")}
OneFallback == {Fallback("sensitive", FALSE)}
=============================================================================
