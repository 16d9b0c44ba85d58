---------------------------- MODULE MCQuestions ----------------------------
(* TLC instances of Questions: the texts a teacher may type. *)
EXTENDS Questions

CONSTANTS one, two, ok, no

\* Nothing, one block of one or two lines, two blocks, a blank line first.
TypedInputs == {EmptyText, <<one>>, <<two, one>>, <<one, Blank, two>>, <<Blank, one>>}

TypedOutputs == {EmptyText, <<ok>>, <<ok, Blank, no>>}
=============================================================================
