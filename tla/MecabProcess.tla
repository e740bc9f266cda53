---------------------------- MODULE MecabProcess ----------------------------
(***************************************************************************)
(* The program mecab (mecab_do in mecab-0.996/src/tagger.cpp) between two  *)
(* pipes: it reads a line, or in partial mode the lines of a sentence,     *)
(* analyses it and writes the answer, until its first input file ends; it  *)
(* never comes to a second one.  A text is a sequence of characters; the   *)
(* answer to a sentence is one line for each character and the line EOS.   *)
(***************************************************************************)
EXTENDS Integers, Sequences, SequencesExt

CONSTANTS
  InCapacity, OutCapacity,    \* of the pipes, in characters and in lines
  IBufSize,                   \* ibufsize: the input buffer with its zero byte
  LineBufSize,                \* BUF_SIZE: the line buffer in partial mode
  NL, EOS,                    \* end of line; a line that consists of "EOS"
  Unparsable,                 \* a sentence with this character is refused
  Answer(_)                   \* the line that answers a character

ASSUME ProcessAssumption ==
  /\ InCapacity \in Nat \ {0} /\ OutCapacity \in Nat \ {0}
  /\ IBufSize \in Nat \ {0, 1} /\ LineBufSize \in Nat \ {0, 1}

VARIABLES
  inPipe, inOpen,      \* standard input, and whether somebody can write to it
  outPipe,             \* standard output
  partial,             \* option -p
  pc,                  \* where mecab_do is
  line,                \* what getline() has stored so far
  sentence,            \* in partial mode, the lines before it
  pending,             \* output that is not written yet
  parsed               \* history: what was analysed

processVars == <<inPipe, inOpen, outPipe, partial, pc, line, sentence, pending, parsed>>

Running == pc \in {"getline", "parse", "write"}

StartProcess(option) ==
  /\ pc' = "getline" /\ partial' = option
  /\ inPipe' = << >> /\ inOpen' = TRUE /\ outPipe' = << >>
  /\ line' = << >> /\ sentence' = << >> /\ pending' = << >> /\ parsed' = << >>

-----------------------------------------------------------------------------
(* Reading *)

BufSize == IF partial THEN LineBufSize ELSE IBufSize

(* getline() stores one character more. *)
ReadChar ==
  /\ pc = "getline" /\ inPipe # << >> /\ Head(inPipe) # NL
  /\ Len(line) < BufSize - 1
  /\ line' = Append(line, Head(inPipe)) /\ inPipe' = Tail(inPipe)
  /\ UNCHANGED <<inOpen, outPipe, partial, pc, sentence, pending, parsed>>

(* What the loop for partial mode does with a line that was read: it goes  *)
(* on to the next until a line is empty or EOS.                            *)
AfterLine ==
  LET ends == line \in {<< >>, <<EOS>>} IN
  IF ~partial
  THEN sentence' = line /\ pc' = "parse"
  ELSE sentence' = sentence \o Append(line, NL) /\ pc' = IF ends THEN "parse" ELSE "getline"

(* getline() comes to the end of a line, also where the buffer is full. *)
ReadNewline ==
  /\ pc = "getline" /\ inPipe # << >> /\ Head(inPipe) = NL
  /\ inPipe' = Tail(inPipe) /\ line' = << >>
  /\ AfterLine
  /\ UNCHANGED <<inOpen, outPipe, partial, pending, parsed>>

(* The buffer is full within a line.  The line is split; in partial mode   *)
(* the failed line is dropped and the stream taken to be at its end.       *)
BufferFullAnyway ==    \* mutant: a full buffer is given up, not split
  /\ pc = "getline" /\ inPipe # << >> /\ Head(inPipe) # NL
  /\ Len(line) = BufSize - 1
  /\ pc' = IF sentence = << >> THEN "exited" ELSE "parse"
  /\ line' = << >>
  /\ UNCHANGED <<inPipe, inOpen, outPipe, partial, sentence, pending, parsed>>
BufferFull ==
  /\ pc = "getline" /\ inPipe # << >> /\ Head(inPipe) # NL
  /\ Len(line) = BufSize - 1
  /\ pc' = IF partial /\ sentence = << >> THEN "exited" ELSE "parse"
  /\ sentence' = IF partial THEN sentence ELSE line
  /\ line' = << >>
  /\ UNCHANGED <<inPipe, inOpen, outPipe, partial, pending, parsed>>

(* The input ends: behind a last line without a newline, or there is       *)
(* nothing left to analyse and mecab_do returns.                           *)
ReadEof ==
  /\ pc = "getline" /\ inPipe = << >> /\ ~inOpen
  /\ LET rest == IF line = << >> THEN sentence
                 ELSE IF partial THEN sentence \o Append(line, NL) ELSE line
     IN /\ sentence' = rest
        /\ pc' = IF rest = << >> THEN "exited" ELSE "parse"
  /\ line' = << >>
  /\ UNCHANGED <<inPipe, inOpen, outPipe, partial, pending, parsed>>

-----------------------------------------------------------------------------
(* Analysing and writing *)

AnswerOf(text) ==
  LET chars == SelectSeq(text, LAMBDA c : c \notin {NL, EOS}) IN
  Append([i \in 1..Len(chars) |-> Answer(chars[i])], EOS)

(* parse(): a refused sentence is reported and ends the process. *)
Parse ==
  /\ pc = "parse"
  /\ parsed' = Append(parsed, sentence)
  /\ pending' = IF Contains(sentence, Unparsable) THEN <<"error">> ELSE AnswerOf(sentence)
  /\ pc' = "write"
  /\ UNCHANGED <<inPipe, inOpen, outPipe, partial, line, sentence>>

Write ==
  /\ pc = "write" /\ pending # << >> /\ Len(outPipe) < OutCapacity
  /\ outPipe' = Append(outPipe, Head(pending)) /\ pending' = Tail(pending)
  /\ UNCHANGED <<inPipe, inOpen, partial, pc, line, sentence, parsed>>

Written ==
  /\ pc = "write" /\ pending = << >>
  /\ pc' = IF Contains(sentence, Unparsable) THEN "failed" ELSE "getline"
  /\ sentence' = << >>
  /\ UNCHANGED <<inPipe, inOpen, outPipe, partial, line, pending, parsed>>

ProcessStep == ReadChar \/ ReadNewline \/ BufferFull \/ ReadEof \/ Parse \/ Write \/ Written
=============================================================================
