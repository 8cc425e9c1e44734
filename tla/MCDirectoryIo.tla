---------------------------- MODULE MCDirectoryIo ----------------------------
EXTENDS DirectoryIo, TLC

CONSTANTS deep, flat   \* a thread that nests guards, one that may forget its only one

Nesting == (deep :> 2) @@ (flat :> 1)
Masking == (deep :> {TRUE}) @@ (flat :> {FALSE})
=============================================================================
