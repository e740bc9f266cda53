---- MODULE FeatureIndex ----
(* The features of CRF training (EncoderFeatureIndex, feature_index.cpp): how *)
(* a lattice path gets its feature vectors, how features get their numbers,   *)
(* and how the cut-off by frequency renumbers everything that holds one.      *)
(* A vector is shared through the cache and renumbered in place: whoever      *)
(* holds a pointer to it is modelled as holding its key.                      *)
EXTENDS Naturals, FiniteSets, Sequences, SequencesExt, Ordering

CONSTANTS
  Templates   \* key -> the features the templates expand it to, in order

VARIABLES
  dic,        \* dic_: feature -> number
  maxid,      \* maxid_: the next number
  cache,      \* feature_cache_: key -> the vector and how often it was asked for
  observed    \* how often each number is on an answer path

indexVars == <<dic, maxid, cache, observed>>

Index == [dic |-> dic, maxid |-> maxid, cache |-> cache]

\* A map with one more key.
With(map, key, value) == [d \in DOMAIN map \cup {key} |-> IF d = key THEN value ELSE map[d]]

\* EncoderFeatureIndex::id() and the push_back() of ADDB, for one feature.
Number(acc, feature) ==
  IF feature \in DOMAIN acc.dic
  THEN [acc EXCEPT !.vec = Append(@, acc.dic[feature])]
  ELSE [dic   |-> With(acc.dic, feature, acc.maxid),
        maxid |-> acc.maxid + 1,
        vec   |-> Append(acc.vec, acc.maxid)]

\* buildUnigramFeature(), buildBigramFeature() and the cache in front of them.
Numbered(index, features) ==
  LET built[n \in 0..Len(features)] ==
        IF n = 0 THEN [dic |-> index.dic, maxid |-> index.maxid, vec |-> <<>>]
        ELSE Number(built[n - 1], features[n])
  IN  built[Len(features)]

BuildVector(index, key) ==
  IF key \in DOMAIN index.cache
  THEN [index EXCEPT !.cache[key].count = @ + 1]
  ELSE LET built == Numbered(index, Templates[key])
       IN  [dic   |-> built.dic,
            maxid |-> built.maxid,
            cache |-> With(index.cache, key, [vec |-> built.vec, count |-> 1])]

\* buildFeature(): the unigram vector of the right node, then the path's.
BuildFeature(index, path) == BuildVector(BuildVector(index, path.uni), path.bi)

\* The vectors a path adds to a count: EOS has no unigram there.
VectorsOf(vectors, path) ==
  vectors[path.bi].vec \o (IF path.eos THEN <<>> ELSE vectors[path.uni].vec)

\* ++v[*f] for every f of the vectors, once for every path.
AddVectors(v, vectors, paths) ==
  LET held == FlattenSeq([i \in DOMAIN paths |-> VectorsOf(vectors, paths[i])])
  IN  [id \in DOMAIN v |-> v[id] + Times(held, id)]

\* A vector of doubles is as long as there are numbers; resize() adds zeros.
Resized(v, size) == [id \in 0..size - 1 |-> IF id \in DOMAIN v THEN v[id] ELSE 0]

\* read() of one sentence: every path of its lattice, then the answer's counts.
Built(paths) ==
  LET index[n \in 0..Len(paths)] ==
        IF n = 0 THEN Index ELSE BuildFeature(index[n - 1], paths[n])
  IN  index[Len(paths)]

ReadPaths(paths, answer) ==
  LET index == Built(paths)
  IN  /\ dic' = index.dic
      /\ maxid' = index.maxid
      /\ cache' = index.cache
      /\ observed' = AddVectors(Resized(observed, index.maxid), index.cache, answer)

\* freqv[id]: how often the vectors that hold id were asked for.
Uses(id) ==
  SumFunction([key \in DOMAIN cache |-> cache[key].count * Times(cache[key].vec, id)])

\* shrink() from the counts: the numbers that stay, and what they become.
KeptAbove(freq) == {id \in 0..maxid - 1 : Uses(id) > freq}
Kept(freq) == {id \in 0..maxid - 1 : Uses(id) >= freq}
NewIdFromLast(kept, id) == Cardinality({other \in kept : other > id})
NewId(kept, id) == Cardinality({other \in kept : other < id})

Keep(kept) ==
  /\ maxid' = Cardinality(kept)
  /\ dic' = [feature \in {f \in DOMAIN dic : dic[f] \in kept} |-> NewId(kept, dic[feature])]
  /\ cache' = [key \in DOMAIN cache |->
       LET vec == cache[key].vec
           staying == Select(vec, {n \in DOMAIN vec : vec[n] \in kept}) IN
       [cache[key] EXCEPT !.vec = [n \in DOMAIN staying |-> NewId(kept, staying[n])]]]
  /\ observed' = [new \in 0..Cardinality(kept) - 1 |->
       observed[CHOOSE id \in kept : NewId(kept, id) = new]]

Shrink(freq) == IF freq <= 1 THEN UNCHANGED indexVars ELSE Keep(Kept(freq))
====
