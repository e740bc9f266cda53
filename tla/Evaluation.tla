---- MODULE Evaluation ----
(* mecab-system-eval (eval.cpp): two files of segmented sentences are read    *)
(* side by side and two cursors walk over each pair, the one that is behind   *)
(* moving on. A morpheme is [surface, fields]; a field of its feature is one  *)
(* byte long. A level is the number of fields compared, -1 for all of them.   *)
EXTENDS Integers, Sequences

\* read(): a column is the surface and its fields, a tab behind each field.
Column(morpheme, level) ==
  [surface |-> morpheme.surface,
   fields  |-> IF level < 0 THEN morpheme.fields ELSE SubSeq(morpheme.fields, 1, level)]
Bytes(column) == Len(column.surface) + 2 * Len(column.fields)

AdvanceByLastColumn(morpheme, levels) ==   \* mutant
  Bytes(Column(morpheme, levels[Len(levels)]))

\* r[i][0].size(): positions are counted in bytes of the first level's column.
Advance(morpheme, levels) == Bytes(Column(morpheme, levels[1]))

\* A round of the loop over a pair of sentences; prec and recall count the
\* morphemes the cursors have passed.
Walk(r1, r2, levels, c) ==
  LET first  == c.p1 <= c.p2
      second == c.p2 <= c.p1
      Same(i) == Column(r1[c.i1], levels[i]) = Column(r2[c.i2], levels[i])
  IN  [i1     |-> IF first THEN c.i1 + 1 ELSE c.i1,
       i2     |-> IF second THEN c.i2 + 1 ELSE c.i2,
       p1     |-> IF first THEN c.p1 + Advance(r1[c.i1], levels) ELSE c.p1,
       p2     |-> IF second THEN c.p2 + Advance(r2[c.i2], levels) ELSE c.p2,
       table  |-> [i \in DOMAIN levels |->
                     IF first /\ second /\ Same(i) THEN c.table[i] + 1 ELSE c.table[i]],
       prec   |-> IF first THEN c.prec + 1 ELSE c.prec,
       recall |-> IF second THEN c.recall + 1 ELSE c.recall]

\* A pair of sentences: the walk, then what is left of the longer one.
WalkOn(r1, r2, levels, c) ==
  IF c.i1 <= Len(r1) /\ c.i2 <= Len(r2) THEN Walk(r1, r2, levels, c) ELSE c

ComparePair(r1, r2, levels, total) ==
  LET c[n \in 0..Len(r1) + Len(r2)] ==
        IF n = 0
        THEN [i1 |-> 1, i2 |-> 1, p1 |-> 0, p2 |-> 0, table |-> total.table,
              prec |-> total.prec, recall |-> total.recall]
        ELSE WalkOn(r1, r2, levels, c[n - 1])
      end == c[Len(r1) + Len(r2)]
  IN  [table  |-> end.table,
       prec   |-> end.prec + (Len(r1) + 1 - end.i1),
       recall |-> end.recall + (Len(r2) + 1 - end.i2)]

\* read() fails only when an earlier read met the end of the file: the round in
\* which it does gets no sentence from it.
SentenceAt(file, n) == IF n <= Len(file) THEN file[n] ELSE <<>>
Readable(file, n) == n <= Len(file) + 1

EvaluateRound(system, answer, levels, total, n) ==
  IF Readable(system, n) /\ Readable(answer, n)
  THEN ComparePair(SentenceAt(system, n), SentenceAt(answer, n), levels, total)
  ELSE total

EvaluateFiles(system, answer, levels) ==
  LET total[n \in 0..Len(system) + 1] ==
        IF n = 0 THEN [table |-> [i \in DOMAIN levels |-> 0], prec |-> 0, recall |-> 0]
        ELSE EvaluateRound(system, answer, levels, total[n - 1], n)
  IN  total[Len(system) + 1]
====
