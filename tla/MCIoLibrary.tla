---------------------------- MODULE MCIoLibrary ----------------------------
(* Two handles over one file of up to two bytes.                           *)
EXTENDS IoLibrary
ModesValue == {[base |-> "r", plus |-> TRUE], [base |-> "w", plus |-> TRUE], [base |-> "a", plus |-> TRUE]}
FormatsValue == {<<<<"l">>>>, <<<<"a">>>>, <<<<"n">>>>, <<<<"bytes", 0>>>>, <<<<"L">>, <<"bytes", 1>>>>}
SeeksValue == {<<"set", 1>>, <<"cur", -1>>, <<"cur", 1>>, <<"end", 0>>}
LineFormatsValue == {<<<<"l">>>>}
DataValue == {<<"1", NL>>}
ContentsValue == {Missing, <<NL, "1">>}
NumeralBytesValue == {"0", "1", "e", "x", "p", ".", "+", NL}
Symmetry == Permutations(Handles)
=============================================================================
