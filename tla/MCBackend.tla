----------------------------- MODULE MCBackend -----------------------------
(* Texts for the relay: a tag without and a tag with a slash, and a payload *)
(* with one, as JSON may have.                                              *)
EXTENDS Backend

MCTag == {<<"d">>, <<"d", "x">>}
MCBody == {<<"p", "q">>}
==============================================================================
