----------------------------- MODULE WordCloud ------------------------------
(***************************************************************************)
(* The page word_cloud.php: for each row of the database it starts mecab,  *)
(* writes the whole text to it, closes that pipe, and only then reads the  *)
(* answer line by line.  From the lines of all rows it puts together       *)
(* compound nouns and counts them.  A line of an answer is of one of the   *)
(* kinds below; what a compound is made of are the kinds of its lines.     *)
(***************************************************************************)
EXTENDS MecabProcess

CONSTANTS
  Rows,         \* the texts of the rows
  Options,      \* how mecab is started: with -p or, by the page, without
  Negative      \* kinds of morphemes whose compounds are not counted

(* Rows are a sequence of texts, and texts are sequences of characters. *)
ASSUME PageAssumption ==
  /\ Options \subseteq BOOLEAN
  /\ \A texts \in Rows :
       /\ texts \in Seq(ToSet(texts))
       /\ \A k \in 1..Len(texts) : texts[k] \in Seq(ToSet(texts[k]))

Noun == "noun"
Verb == "verb"
Skipped == "skipped"    \* three kinds of nouns the page leaves out
Comma == "comma"        \* what the page makes of the end of an answer

VARIABLES
  pagePc,       \* where the page is
  rows, row,    \* the rows, and the number of the current one
  text,         \* $text of this row, what is left to be written
  result,       \* $result: the lines of all answers
  integrated,   \* $integrated_word, << >> for NULL
  words         \* $word_list: words with their numbers, in order

pageVars == <<pagePc, rows, row, text, result, integrated, words>>
vars == <<processVars, pageVars>>

Init ==
  /\ rows \in Rows /\ row = 1
  /\ partial \in Options
  /\ inPipe = << >> /\ inOpen = FALSE /\ outPipe = << >>
  /\ pc = "exited" /\ line = << >> /\ sentence = << >>
  /\ pending = << >> /\ parsed = << >>
  /\ pagePc = "row" /\ text = << >> /\ result = << >>
  /\ integrated = << >> /\ words = << >>

-----------------------------------------------------------------------------
(* Pipes *)

ProcOpen ==
  /\ pagePc = "row" /\ row <= Len(rows)
  /\ StartProcess(partial)
  /\ text' = rows[row] /\ pagePc' = "write"
  /\ UNCHANGED <<rows, row, result, integrated, words>>

FWrite ==
  /\ pagePc = "write" /\ text # << >> /\ Running /\ Len(inPipe) < InCapacity
  /\ inPipe' = Append(inPipe, Head(text)) /\ text' = Tail(text)
  /\ UNCHANGED <<inOpen, outPipe, partial, pc, line, sentence, pending, parsed,
                 pagePc, rows, row, result, integrated, words>>

(* mecab has ended: nobody reads, and fwrite() fails. *)
FWriteFails ==
  /\ pagePc = "write" /\ text # << >> /\ ~Running
  /\ text' = << >>
  /\ UNCHANGED <<processVars, pagePc, rows, row, result, integrated, words>>

FCloseNot ==    \* mutant: the pipe stays open
  /\ pagePc = "write" /\ text = << >>
  /\ pagePc' = "read"
  /\ UNCHANGED <<processVars, rows, row, text, result, integrated, words>>

FClose ==
  /\ pagePc = "write" /\ text = << >>
  /\ inOpen' = FALSE /\ pagePc' = "read"
  /\ UNCHANGED <<inPipe, outPipe, partial, pc, line, sentence, pending, parsed,
                 rows, row, text, result, integrated, words>>

FGets ==
  /\ pagePc = "read" /\ outPipe # << >>
  /\ result' = Append(result, Head(outPipe)) /\ outPipe' = Tail(outPipe)
  /\ UNCHANGED <<inPipe, inOpen, partial, pc, line, sentence, pending, parsed,
                 pagePc, rows, row, text, integrated, words>>

(* feof() knows of the end only after fgets() has come to it: $result gets *)
(* the value false, which is no line.                                      *)
FGetsAtEof ==
  /\ pagePc = "read" /\ outPipe = << >> /\ ~Running
  /\ result' = Append(result, Comma)
  /\ row' = row + 1 /\ pagePc' = "row"
  /\ UNCHANGED <<processVars, rows, text, integrated, words>>

(* exec() calls mecab with the text as file names; it reports an error. *)
Exec ==
  /\ pagePc = "row" /\ row > Len(rows)
  /\ result' = Append(result, "error") /\ pagePc' = "count"
  /\ UNCHANGED <<processVars, rows, row, text, integrated, words>>

-----------------------------------------------------------------------------
(* Counting: one round of the loop over $result *)

Count(word) ==
  LET k == SelectInSeq(words, LAMBDA w : w.word = word)
  IN IF k = 0 THEN Append(words, [num |-> 1, word |-> word])
     ELSE [words EXCEPT ![k].num = @ + 1]

KeptAll(word) == word    \* mutant: no compound is left out
Kept(word) == IF \E i \in 1..Len(word) : word[i] \in Negative \cup {Comma} THEN << >> ELSE word

CountLine ==
  /\ pagePc = "count" /\ result # << >>
  /\ LET kind == Head(result) IN
     /\ integrated' = IF kind = Skipped THEN integrated
                      ELSE IF kind \in {Noun, Comma} \cup Negative
                           THEN Append(integrated, kind)
                      ELSE << >>
     /\ words' = IF kind \in {Skipped, Noun, Comma, Verb} \cup Negative THEN words
                 ELSE Count(Kept(integrated))
  /\ result' = Tail(result)
  /\ UNCHANGED <<processVars, pagePc, rows, row, text>>

WriteTable ==
  /\ pagePc = "count" /\ result = << >>
  /\ pagePc' = "done"
  /\ UNCHANGED <<processVars, rows, row, text, result, integrated, words>>

PageStep == ProcOpen \/ FWrite \/ FWriteFails \/ FClose \/ FGets \/ FGetsAtEof
            \/ Exec \/ CountLine \/ WriteTable
Mecab == ProcessStep /\ UNCHANGED pageVars

Next == PageStep \/ Mecab

Spec == Init /\ [][Next]_vars

(* The scheduler runs both processes as long as they are not blocked. *)
FairSpec == Spec /\ WF_vars(PageStep) /\ WF_vars(Mecab)
=============================================================================
