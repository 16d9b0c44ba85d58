\* Two cards of every shape, on a question that is new or was created through the API;
\* one of more cases than that is not opened again.
CONSTANTS
    Blank = Blank
    one = one
    two = two
    ok = ok
    no = no
    Inputs <- TypedInputs
    Outputs <- TypedOutputs
    MaxCards = 2
    MaxLines = 5
SPECIFICATION Spec
INVARIANT TypeOK
PROPERTIES
    PlainCardsAreJudged
    ResaveKeepsCases
CHECK_DEADLOCK FALSE
