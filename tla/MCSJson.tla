------------------------------- MODULE MCSJson -------------------------------
(* Keys of which one begins with another, and values that look like syntax.  *)
EXTENDS SJson

MCKey == {<<>>, <<97>>, <<97, 98>>}
MCVal == {<<>>, <<RBRACE, COMMA>>}
=============================================================================
