------------------------------- MODULE MCLine -------------------------------
(***************************************************************************)
(* Strings longer than the queue of the tty, so that they go out in parts. *)
(***************************************************************************)
EXTENDS Line

MCStrings == {<<"esc">>, <<"[", "a", " ">>}
MCEffect == [t \in Turn |-> [c \in Cube |-> 1 - c]]
MCBytes == Said
=============================================================================
