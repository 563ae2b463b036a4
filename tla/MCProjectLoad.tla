--------------------------- MODULE MCProjectLoad ---------------------------
(* Project files for the model checker.                                    *)
EXTENDS ProjectLoad

CONSTANTS a, b, f

OneProject  == {{<<a, Whole>>, <<b, f>>}}
TwoProjects == {{<<a, Whole>>}, {<<b, f>>}}

(* A text of b without the field f.                                        *)
NoField == {<<<<b, f>>, 2>>}
=============================================================================
