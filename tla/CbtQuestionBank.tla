-------------------------- MODULE CbtQuestionBank ---------------------------
(***************************************************************************)
(* Which option of a question is the right one: in a row of an imported    *)
(* file (modules/cbt/cbt-import.ts, importCsv of cbt-questions.service.ts) *)
(* and after a question is edited (update of that service), as functions.  *)
(* Texts are compared without regard to capitals, so a text stands for     *)
(* all its spellings; "" is an empty cell, and "a" .. "c" are also the     *)
(* letters of options.                                                     *)
(***************************************************************************)
EXTENDS Integers, FiniteSets, Sequences

Letters == <<"a", "b", "c">>
FirstOf(indices) == CHOOSE i \in indices : \A j \in indices : i <= j

\* The option columns a file has, in the order of their letters whatever the order
\* in the file, give a row its options; a letter then counts those columns.
LetterOption(options, correct) ==
    LET i == {k \in 1 .. Len(Letters) : Letters[k] = correct /\ k <= Len(options)}
    IN  IF i = {} THEN 0 ELSE CHOOSE k \in i : TRUE
TextOption(options, correct) ==
    LET same == {k \in DOMAIN options : options[k] # "" /\ options[k] = correct}
    IN  IF same = {} THEN 0 ELSE FirstOf(same)

\* parseQuestionCsv on the options and the answer of a row.
RowAccepted(options, correct) ==
    /\ Cardinality({k \in DOMAIN options : options[k] # ""}) >= 2
    /\ correct # ""
    /\ IF LetterOption(options, correct) > 0 THEN options[LetterOption(options, correct)] # ""
       ELSE TextOption(options, correct) > 0

\* resolveCorrectIndex.
ResolvedOption(options, correct) ==
    IF LetterOption(options, correct) > 0 THEN LetterOption(options, correct) ELSE TextOption(options, correct)

\* importCsv stores the cells that are filled, under the letters of their places;
\* the preview numbers the right one before the empty cells are left out.
Filled(options) == {k \in DOMAIN options : options[k] # ""}
OptionsStored(options, correct) ==
    {[label |-> Letters[k], text |-> options[k], isCorrect |-> k = ResolvedOption(options, correct)] :
        k \in Filled(options)}
OptionsPreviewed(options) == SelectSeq(options, LAMBDA text : text # "")

\* update: as many options as there were are written over the rows there are, in
\* their order; another number takes new rows, unless there are recorded answers.
\* A row is [id, text, isCorrect].
OptionsUpdated(rows, given, answered, newId) ==
    IF Len(given) = Len(rows)
    THEN [k \in DOMAIN rows |-> [id |-> rows[k].id, text |-> given[k].text, isCorrect |-> given[k].isCorrect]]
    ELSE IF answered THEN rows
    ELSE [k \in DOMAIN given |-> [id |-> newId + k, text |-> given[k].text, isCorrect |-> given[k].isCorrect]]

-----------------------------------------------------------------------------
\* Rows of two or three cells, and files with two or three of the columns.

Texts == {"", "x", "y", "b"}
Cells == [1 .. 2 -> Texts] \cup [1 .. 3 -> Texts]
Answers == {"", "a", "b", "c", "x", "y"}
Columns == {<<"a", "b">>, <<"a", "c">>, <<"a", "b", "c">>}

\* What the row check lets through, the import can place: one of at least two
\* options is right, and it is one that is stored.
ASSUME AcceptedRowHasOneAnswer ==
    \A options \in Cells, correct \in Answers : RowAccepted(options, correct) =>
        LET stored == OptionsStored(options, correct) IN
        /\ Cardinality(stored) >= 2
        /\ Cardinality({o \in stored : o.isCorrect}) = 1
        /\ \A o \in stored : o.isCorrect => o.text = correct \/ o.label = correct

\* "A letter like B or the full option text": a text that is a letter is taken for
\* the letter, and a letter counts the columns there are: without the second one
\* "b" is the third and "c" nothing.
ASSUME LetterGoesBeforeText ==
    \E options \in Cells : /\ RowAccepted(options, "b")
                           /\ \E o \in OptionsStored(options, "b") : o.text = "b" /\ ~o.isCorrect
ASSUME LettersCountColumns ==
    \A columns \in Columns : \A k \in DOMAIN columns :
        LET cells == [i \in DOMAIN columns |-> <<"x", "y", "z">>[i]] IN
        (RowAccepted(cells, columns[k]) /\ ResolvedOption(cells, columns[k]) = k) <=> columns[k] = Letters[k]

\* The preview points at the right option when no cell before it is empty, and may
\* point at another when one is.
ASSUME PreviewPointsElsewhere ==
    LET Accepted == {row \in Cells \X Answers : RowAccepted(row[1], row[2])}
        Right(row) == ResolvedOption(row[1], row[2])
        Shown(row) == OptionsPreviewed(row[1])
    IN  /\ \A row \in Accepted : (\A k \in 1 .. Right(row) : row[1][k] # "") =>
              Shown(row)[Right(row)] = row[1][Right(row)]
        /\ \E row \in Accepted : Right(row) \in DOMAIN Shown(row) /\ Shown(row)[Right(row)] # row[1][Right(row)]

\* "Update in place so recorded answers keep their meaning": an answered question
\* keeps the rows its answers point at, whatever is given; but not what they say,
\* nor which of them is right.
Given == UNION {[1 .. n -> {[text |-> t, isCorrect |-> c] : t \in {"x", "y"}, c \in BOOLEAN}] : n \in 2 .. 3}
Asked == <<[id |-> 1, text |-> "x", isCorrect |-> TRUE], [id |-> 2, text |-> "y", isCorrect |-> FALSE]>>
ASSUME AnsweredRowsAreKept ==
    \A given \in Given : [k \in 1 .. 2 |-> OptionsUpdated(Asked, given, TRUE, 2)[k].id] = <<1, 2>>
ASSUME AnsweredOptionsAreTurnedRound ==
    \E given \in Given :
        LET after == OptionsUpdated(Asked, given, TRUE, 2) IN
        /\ Cardinality({k \in DOMAIN given : given[k].isCorrect}) = 1
        /\ \A k \in 1 .. 2 : after[k].text # Asked[k].text /\ after[k].isCorrect = Asked[k].isCorrect
ASSUME UnansweredRowsAreReplaced ==
    \A given \in Given : Len(given) = 3 =>
        {OptionsUpdated(Asked, given, FALSE, 2)[k].id : k \in 1 .. 3} \cap {1, 2} = {}
=============================================================================
