----------------------------- MODULE MCConsole -----------------------------
(* What is written at once.  To the first console every character, and a   *)
(* text that goes over the end of a line; to the second what scrolls it    *)
(* both ways.                                                              *)
EXTENDS Console

TextOf == [c \in {0, 1} |->
    IF c = 0 THEN {<<"S">>, <<"NL">>, <<"BS">>, <<"TAB">>, <<"ESC">>, <<"CR", "ESC", "M">>,
                   <<"CR", "S", "S", "S">>, <<"NL", "ESC", "[">>}
    ELSE {<<"NL">>, <<"ESC", "M">>}]

ScrollNotice == <<"S", "NL">>
=============================================================================
