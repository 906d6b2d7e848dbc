------------------------------ MODULE MCShapes ------------------------------
(* Instances of Shapes for TLC.                                            *)
EXTENDS ShapesInv

CONSTANTS a, b

TheKeys == {"__index", "__newindex", "__metatable"}
TheMetamethods == {"__index", "__newindex"}

\* b is a class: a metatable that may be its own `__index`, be locked, and
\* outgrow its shape; a is an object whose fields come and go.
TheStores == {<<a, "__newindex", "nil">>, <<a, "__newindex", "f">>, <<a, "__metatable", "f">>,
              <<b, "__index", "nil">>, <<b, "__index", b>>, <<b, "__newindex", "f">>,
              <<b, "__metatable", "f">>}

TheSites == [site |-> "__newindex"]
=============================================================================
