-------------------------- MODULE MCServerProtocol --------------------------
(* A small instance of ServerProtocol for TLC: one text, one range.        *)
EXTENDS ServerProtocol, TLC

MCShortTexts == {1}
MCAllRows == {<<0, LAST_EVENT_NUMBER>>}

MCSymmetry == Permutations(Connection)
==============================================================================
