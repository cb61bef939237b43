--------------------------- MODULE MCBuildSystem ---------------------------
(* A deps file r, an asset a and a leaf b, with the texts of r, a and b    *)
(* that make them depend on each other in every order.                     *)
EXTENDS BuildSystem

CONSTANTS r, a, b, t1, t2

MCDepsNodes == {r}
MCAssets == {a}
MCLeaves == {b}
MCListing == <<b, a>>
MCTexts == (r :> {<<b, a>>, Wildcard})
           @@ (a :> {<<Product(b)>>, <<Source(b), Optional(a)>>, <<<<"deps", r>>>>})
           @@ (b :> {t1, t2})
MCFirstTexts == (r :> {Wildcard})
                @@ (a :> {<<Product(b)>>, <<Source(b), Optional(a)>>})
                @@ (b :> {t1})
MCOptionalTexts == {t1}
=============================================================================
