----------------------------- MODULE PdfCacheMC -----------------------------
(* Instances of PdfCache.  Pages differ in nothing but their name.         *)
EXTENDS PdfCache

CONSTANTS p1, p2

PageSymmetry == Permutations(Page)
=============================================================================
