---- MODULE MC_BlobCache ----
\* Two documents of BlobCache and what may become of their files.
EXTENDS BlobCache
CONSTANTS d1, d2
Lengths == d1 :> 4 @@ d2 :> 3
====
