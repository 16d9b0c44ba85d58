----------------------------- MODULE Questions -----------------------------
(***************************************************************************)
(* How the testcase cards of the teacher's question dialog                  *)
(* (templates/teacher-dashboard.html) become the judge cases of a question: *)
(* the dialog joins the cards into two texts with blank lines between them, *)
(* the API trims and stores the texts, and whoever needs cases splits the   *)
(* texts again (build_testcases of shared/judging.py): the create request,  *)
(* the student's page, and the dialog when it is opened to edit.            *)
(*                                                                          *)
(* A text is a sequence of lines.  A line is Blank or has content without   *)
(* white space at its ends, so trimming drops blank lines.  The dialog has  *)
(* a second list of cards, for Run Test, which goes the same way.           *)
(***************************************************************************)
EXTENDS Naturals, Sequences, SequencesExt

CONSTANTS
    Blank,      \* a line of white space
    Inputs,     \* texts that may be typed as an input
    Outputs,    \* texts that may be typed as an expected output
    MaxCards,   \* bound: cards in the dialog
    MaxLines    \* bound: lines of a stored text

EmptyText == <<Blank>>
Lines == UNION {Range(t) : t \in Inputs \cup Outputs}

ASSUME QuestionsAssumption ==
    /\ EmptyText \in Inputs \cap Outputs
    /\ \A t \in Inputs \cup Outputs : t \in Seq(Lines) /\ t # <<>>
    /\ MaxCards \in Nat \ {0}
    /\ MaxLines \in Nat

VARIABLES
    question,   \* testcase_input and expected_output of the ExamQuestion row, or NoQuestion
    dialog,     \* is the dialog open
    cards       \* the cards it shows

vars == <<question, dialog, cards>>

-----------------------------------------------------------------------------
(* Texts. *)

IsBlank(t) == \A i \in DOMAIN t : t[i] = Blank

Trim(t) ==
    LET lines == {i \in DOMAIN t : t[i] # Blank}
    IN  IF lines = {} THEN EmptyText ELSE SubSeq(t, Min(lines), Max(lines))

\* 'a\n\nb': a blank line between two texts.
Join(texts) ==
    LET joined[n \in DOMAIN texts] ==
            IF n = 1 THEN texts[1] ELSE joined[n - 1] \o EmptyText \o texts[n]
    IN  joined[Len(texts)]

\* The numbers of a set in increasing order.
Ordered(S) ==
    [k \in 1..Cardinality(S) |-> CHOOSE i \in S : Cardinality({j \in S : j < i}) = k - 1]

\* Mutant: at every line break.
BlocksOfLines(t) ==
    LET lines == Ordered({i \in DOMAIN t : t[i] # Blank})
    IN  [k \in DOMAIN lines |-> <<t[lines[k]]>>]

\* split_case_blocks: the runs of lines between blank ones.
Blocks(t) ==
    LET starts == Ordered({i \in DOMAIN t : t[i] # Blank /\ (i = 1 \/ t[i - 1] = Blank)})
        ends == Ordered({i \in DOMAIN t : t[i] # Blank /\ (i = Len(t) \/ t[i + 1] = Blank)})
    IN  [k \in DOMAIN starts |-> SubSeq(t, starts[k], ends[k])]

\* build_testcases: block by block, if input and output have as many and more than one.
Testcases(input, expected) ==
    LET ins == Blocks(input)
        outs == Blocks(expected)
    IN  IF Len(outs) > 1 /\ Len(ins) = Len(outs)
        THEN [i \in DOMAIN outs |-> [input |-> ins[i], expected |-> outs[i]]]
        ELSE <<[input |-> input, expected |-> Trim(expected)]>>

NoQuestion == [input |-> <<>>, expected |-> <<>>]
Cases(q) == Testcases(q.input, q.expected)

\* Mutant: the fields of the serializer do not trim.
StoredUntrimmed(input, expected) == [input |-> input, expected |-> Trim(expected)]

\* What the serializer makes of the texts of a request.
Stored(input, expected) == [input |-> Trim(input), expected |-> Trim(expected)]

-----------------------------------------------------------------------------

TypeOK ==
    /\ dialog \in BOOLEAN
    /\ dialog => Len(cards) \in 1..MaxCards
    /\ question # NoQuestion =>
          /\ ~IsBlank(question.expected)
          /\ question = [input |-> Trim(question.input), expected |-> Trim(question.expected)]

\* A question is new or was created through the API, from any texts.
Init ==
    /\ question \in {NoQuestion}
          \cup {Stored(i, o) : i \in Inputs, o \in {t \in Outputs : ~IsBlank(t)}}
    /\ dialog = FALSE
    /\ cards = <<>>

-----------------------------------------------------------------------------
(* The dialog. *)

EmptyCard == [input |-> EmptyText, expected |-> EmptyText]

\* Bound: a question of more cases is not opened.
OpenDialog ==
    /\ ~dialog
    /\ dialog' = TRUE
    /\ cards' = IF question = NoQuestion THEN <<EmptyCard>> ELSE Cases(question)
    /\ Len(cards') <= MaxCards
    /\ UNCHANGED question

Type(i, input, expected) ==
    /\ dialog
    /\ cards' = [cards EXCEPT ![i] = [input |-> input, expected |-> expected]]
    /\ UNCHANGED <<question, dialog>>

\* collectQuestionTestcases.
Collected ==
    [i \in DOMAIN cards |-> [input |-> cards[i].input, expected |-> Trim(cards[i].expected)]]

\* A textarea that is rendered again loses a line break at its beginning.
Rendered(card) ==
    IF Len(card.input) > 1 /\ Head(card.input) = Blank
    THEN [card EXCEPT !.input = Tail(@)] ELSE card

RenderAgain(list) == cards' = [i \in DOMAIN list |-> Rendered(list[i])]

AddCard ==
    /\ dialog
    /\ Len(cards) < MaxCards
    /\ RenderAgain(Append(Collected, EmptyCard))
    /\ UNCHANGED <<question, dialog>>

RemoveCard(i) ==
    /\ dialog
    /\ Len(cards) > 1
    /\ RenderAgain(RemoveAt(Collected, i))
    /\ UNCHANGED <<question, dialog>>

CloseDialog ==
    /\ dialog
    /\ dialog' = FALSE
    /\ cards' = <<>>
    /\ UNCHANGED question

\* Cards with nothing in them are left out.
Filled ==
    LET filled == Ordered({i \in DOMAIN Collected :
                              ~IsBlank(Collected[i].input) \/ ~IsBlank(Collected[i].expected)})
    IN  [k \in DOMAIN filled |-> Collected[filled[k]]]

Column(list, field) == [i \in DOMAIN list |-> list[i][field]]

\* Mutant: one line break between two cards.
SerializedTight(list) ==
    Stored(FlattenSeq(Column(list, "input")), FlattenSeq(Column(list, "expected")))

\* serializeQuestionTestcases, and the request that stores it.
Serialized(list) == Stored(Join(Column(list, "input")), Join(Column(list, "expected")))

SaveDialog ==
    /\ dialog
    /\ Filled # <<>>
    /\ \A i \in DOMAIN Filled : ~IsBlank(Filled[i].expected)
    /\ question' = Serialized(Filled)
    /\ Len(question'.input) <= MaxLines /\ Len(question'.expected) <= MaxLines
    /\ dialog' = FALSE
    /\ cards' = <<>>

Next ==
    \/ OpenDialog \/ AddCard \/ CloseDialog \/ SaveDialog
    \/ \E i \in DOMAIN cards :
          \/ RemoveCard(i)
          \/ \E input \in Inputs, expected \in Outputs : Type(i, input, expected)

Spec == Init /\ [][Next]_vars

-----------------------------------------------------------------------------

\* How many paragraphs a reader sees.
Paragraphs(t) ==
    Cardinality({i \in DOMAIN t : t[i] # Blank /\ (i = Len(t) \/ t[i + 1] = Blank)})

\* The cards that survive: several, each with one paragraph of input and one of output,
\* or a single one that does not look like several.
Plain(list) ==
    IF Len(list) > 1
    THEN \A i \in DOMAIN list : Paragraphs(list[i].input) = 1 /\ Paragraphs(list[i].expected) = 1
    ELSE LET outs == Paragraphs(list[1].expected)
         IN  outs = 1 \/ Paragraphs(list[1].input) # outs

\* The cards a teacher saves are the cases that are judged ("Add one testcase card per
\* judge case", teacher-dashboard.html:205) if they are plain, and only then: a blank
\* line inside a card or a card without input merges or splits cards, or gives the
\* output of one to the input of another.
PlainCardsAreJudged ==
    [][SaveDialog =>
          (Plain(Filled) <=>
           Cases(question') = [i \in DOMAIN Filled |-> [Filled[i] EXCEPT !.input = Trim(@)]])]_vars

\* To open a question and save it as it is does not change what is judged, whatever
\* texts it was created from.
ResaveKeepsCases ==
    [][SaveDialog /\ question # NoQuestion /\ cards = Cases(question) =>
          Cases(question') = Cases(question)]_vars
=============================================================================
