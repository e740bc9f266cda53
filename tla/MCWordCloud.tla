---------------------------- MODULE MCWordCloud -----------------------------
(***************************************************************************)
(* WordCloud with short texts and small pipes, against the compounds of    *)
(* the texts.                                                              *)
(***************************************************************************)
EXTENDS WordCloud, Ordering, FiniteSetsExt

CONSTANTS n, v, s, g, o, bad, nl, eos

MCAnswer(c) == CASE c = n -> Noun [] c = v -> Verb [] c = s -> Skipped
                 [] c = g -> "negative" [] OTHER -> "mark"
MCNegative == {"negative"}

Texts(chars, m) == UNION {[1..k -> chars] : k \in 0..m}
MCRows ==
  {<<t>> : t \in Texts({n, nl}, 6) \cup Texts({n, bad, nl, eos}, 4)}
  \cup {<<t, u>> : t \in Texts({n, s, nl}, 2), u \in Texts({n, v, s, g, o}, 3)}

-----------------------------------------------------------------------------
(* The lines of a text, without their ends. *)
LinesOf(t) ==
  LET ends == {0} \cup {i \in 1..Len(t) : t[i] = NL} \cup {Len(t) + 1}
      at == Ascending(ends)
      lines == [k \in 1..(Len(at) - 1) |-> SubSeq(t, at[k] + 1, at[k + 1] - 1)]
  IN IF Last(lines) = << >> THEN Front(lines) ELSE lines
WithoutNL(t) == Select(t, {i \in 1..Len(t) : t[i] # NL})

(***************************************************************************)
(* When mecab has ended normally, it has analysed the whole text in order, *)
(* whether lines fit its buffer or not; in partial mode if they fit.       *)
(***************************************************************************)
NothingLost ==
  pc = "exited" /\ pagePc = "read"
  /\ (partial => \A k \in DOMAIN LinesOf(rows[row]) :
                   Len(LinesOf(rows[row])[k]) < LineBufSize)
  => WithoutNL(FlattenSeq(parsed)) = WithoutNL(rows[row])

(***************************************************************************)
(* The page and mecab wait for each other for ever only if both pipes are  *)
(* full: the page does not read before it has written everything.          *)
(***************************************************************************)
HangsOnlyWhenFull ==
  ~ENABLED Next /\ pagePc # "done" =>
    /\ pagePc = "write" /\ Len(inPipe) = InCapacity
    /\ pc = "write" /\ Len(outPipe) = OutCapacity

(***************************************************************************)
(* The page finishes if each text fits the one pipe or its answer fits the *)
(* other.                                                                  *)
(***************************************************************************)
AnswerSize(t) ==
  Len(WithoutNL(t)) + Cardinality({i \in 1..Len(t) : t[i] = NL})
  + Len(t) \div (IBufSize - 1) + 1
PageFinishes ==
  (\A k \in DOMAIN rows : Len(rows[k]) <= InCapacity \/ AnswerSize(rows[k]) <= OutCapacity)
  => <>(pagePc = "done")

(***************************************************************************)
(* What the page shows: between two lines that end a compound, the nouns   *)
(* behind the last verb, those of the three left-out kinds not among them, *)
(* counted as often as they come.  A compound with a negative word counts  *)
(* as no word, and so does one with a comma: the first of every row but    *)
(* the first, since the end of an answer has been made a comma.            *)
(***************************************************************************)
Pieces(l) ==
  [k \in 1..Max({1, (Len(l) + IBufSize - 2) \div (IBufSize - 1)}) |->
     SubSeq(l, (k - 1) * (IBufSize - 1) + 1, Min({Len(l), k * (IBufSize - 1)}))]
RowAnswer(t) ==
  LET lines == LinesOf(t) IN
  FlattenSeq([k \in DOMAIN lines |->
    FlattenSeq([j \in DOMAIN Pieces(lines[k]) |-> AnswerOf(Pieces(lines[k])[j])])])
PageLines(rs) ==
  Append(FlattenSeq([k \in DOMAIN rs |-> Append(RowAnswer(rs[k]), Comma)]), "error")

Compounds(lines) ==
  LET nouns == {Noun, Comma, "negative"}
      breaks == {i \in 1..Len(lines) : lines[i] \notin nouns \cup {Skipped, Verb}}
      from(i) == Max({0} \cup {j \in 1..(i - 1) : j \in breaks \/ lines[j] = Verb})
      compound(i) == SelectSeq(SubSeq(lines, from(i) + 1, i - 1), LAMBDA x : x \in nouns)
      shown(c) == IF \E k \in DOMAIN c : c[k] # Noun THEN << >> ELSE c
  IN [i \in breaks |-> shown(compound(i))]

CountsAreCompounds ==
  pagePc = "done" /\ ~partial /\ (\A k \in DOMAIN rows : ~Contains(rows[k], Unparsable)) =>
    LET compounds == Compounds(PageLines(rows))
        shown == {compounds[i] : i \in DOMAIN compounds}
    IN /\ {words[k].word : k \in DOMAIN words} = shown
       /\ Len(words) = Cardinality(shown)
       /\ \A k \in DOMAIN words :
            words[k].num = Cardinality({i \in DOMAIN compounds : compounds[i] = words[k].word})
=============================================================================
