# MeCab in Local_Politics_DB: a TLA+ verification project

The repository is a small PHP site (`word_cloud.php`, `search.php`) that shows
word clouds of the minutes of a town council, together with the complete source
of MeCab 0.996 (`mecab-0.996/src`), the morphological analyser the site pipes
every text through. The site's own logic is a few queries and string
substitutions; what can go wrong in interesting ways is MeCab's, and this
project is about MeCab and about the one page that talks to it.

Paths below such as `viterbi.cpp:346` are relative to `src/mecab-0.996/src`.

- [Inventory](#inventory)
- [Modules](#modules)
- [Runs, bounds and what they show](#runs-bounds-and-what-they-show)
- [Fairness](#fairness)
- [What is proved](#what-is-proved)
- [Where the code and its documentation disagree](#where-the-code-and-its-documentation-disagree)
- [What is not modelled](#what-is-not-modelled)
- [Plan](#plan)

## Inventory

| Component | State | Operations | Hard behaviour | What makes it correct |
|---|---|---|---|---|
| Reader-writer lock, `thread.h` | lock word `l_`, count of announced writers `write_pending_` | `read_lock`, `read_unlock`, `write_lock`, `write_unlock` | interleaving of single atomic operations, starvation | exclusion, no drift of the two counters, writers are preferred, everyone gets in |
| Shared model, `ModelImpl` in `tagger.cpp` | `viterbi_` (owns the dictionary), `request_type_`, `theta_` | `swap`, `createTagger`, `parse(Lattice*)` through a tagger, accessors | a swap under running parses, two swaps, taggers created without the lock | an analysis keeps its dictionary, each replaced one is deleted once, a new tagger's settings are one model's |
| Viterbi search, `viterbi.cpp` | the lattice: node lists, path objects, costs, links, alpha, beta | `analyze`: lookup and `connect` at each position, `forwardbackward`, `buildBestLattice`, `buildAllLattice`, `initNBest`, `initPartial` | order of phases that share `next`/`prev`, trailing white space, cost limit | the linked path is a cheapest cut, probabilities are shares, all morphemes are listed |
| N-best generator, `nbest_generator.cpp` | priority queue of partial paths, the nodes' links | `set`, `next` | a best-first search suspended between calls | every cut once, in the order of costs |
| Tagger, `TaggerImpl` in `tagger.cpp` | own lattice, request type, theta, pointer to a model | setters, `parse`, `parseToNode`, `parseNBestInit`, `parseNBest`, `next`, `nextNode` | order of calls, failed parses, partial mode | what is returned belongs to the call's text |
| Lattice, `LatticeImpl` in `tagger.cpp` | sentence (owned or borrowed), size, constraints, node lists, allocator, agenda | setters, `clear`, `set_result`, `next`, `enumNBestAsString` | lifetime of sentence, nodes and constraints over any sequence of calls | the parts belong to one sentence |
| Tokenizer, `tokenizer.cpp` | dictionaries, character properties | `lookup` with and without constraints | fallback to unknown words, white space | every position in reach gets a node |
| Character properties, `char_property.cpp` | table of 65535 packed entries | lookup, `seekToOtherType`, `compile` | bit packing | the packed table means what `char.def` says |
| Dictionary, `dictionary.cpp`, `darts.h` | double array, token array | `compile`, `exactMatchSearch`, `commonPrefixSearch` | packing of counts and indices into one integer | what is looked up is what was inserted |
| Connector, `connector.cpp` | matrix of costs | `cost`, `compile` | - | - |
| Memory, `freelist.h`, `string_buffer.cpp`, `tokenizer.h` | chunks and positions | `alloc`, `free`, `write` | reuse of memory after `free`, a full buffer | nothing live is handed out again |
| Writer, `writer.cpp` | format strings | `write` | - | - |
| Training, `learner.cpp`, `lbfgs.cpp`, `feature_index.cpp` | weights, features, iteration state | iterate, threads, shrink | partition over threads, convergence | the sum over threads is the sum over sentences |
| Dictionary tools | files | compile, generate, rewrite | - | - |
| Evaluation, `eval.cpp` | counters | compare two segmentations | two cursors that must stay aligned, files of different lengths | counts equal those of the sets of morphemes |
| Command line, `mecab_do` in `tagger.cpp` | input buffer | read, parse, write | partial mode, last line, buffer limit | every line is answered |
| Web pages | pipes to `mecab`, database rows | page request | two pipes, both bounded | the page finishes |

How they interact. A `Model` owns a `Viterbi`, which owns tokenizer, dictionary
and connector. Any number of `Tagger`s refer to one `Model`; a tagger parses a
`Lattice`, its own or the caller's, under the reader lock of the model, and
`Model::swap` replaces the `Viterbi` under the writer lock; a new tagger copies
the model's settings without any lock. The `Lattice` owns
nodes, paths and copied strings through its allocator, and the N-best generator
sits in that allocator; the nodes also point into the dictionary. There are no
callbacks and no messages: the interactions are calls, shared memory and, for
the web page, two pipes.

The hard behaviours of this code are therefore of four kinds: the lock and the
swap (true concurrency), the algorithms on the lattice that share the same node
fields, the protocols of the stateful interfaces `Tagger` and `Lattice`, and
limits (of costs, buffers, packed integers). `PROJECT.json` lists each of them
at its line under `hazards`, with the property that covers it or the reason
that none does.

## Modules

| Module | Models | Variables and actions |
|---|---|---|
| `AbstractRWLock` | what a reader-writer lock promises | sets of readers and writers |
| `RWLock` | `thread.h:76-104` | `l`, `writePending` are the two words; `pc[t]` is the line thread `t` is at; one action per atomic operation or load |
| `MCRWLock` | - | history variable: who called `read_lock` while which writer waited |
| `AtomicModel` | what `swap` promises parsing threads | the current model, who uses which, which exist |
| `ModelSwap` | `ModelImpl` with parsing and swapping threads | extends `RWLock`: the lock of the model is the modelled one, not an assumed one; `job[t]` is the call, `ptr[t]` the `Viterbi*` it has loaded, `tagger[t]` the settings a new tagger got; `seen[t]` is history: the models in place while it was created |
| `ModelSwapProofs` | - | proofs about `RWLock`, about the history variable of `MCRWLock`, and, over those, about `ModelSwap` |
| `NBestGenerator` | `nbest_generator.cpp` | `agenda`, the nodes' `next` and `prev`; `Expand` and `ReturnPath` are the rounds of the loop |
| `Viterbi` | `viterbi.cpp` (`analyze` and the phases it calls), `Lattice::next` | extends `NBestGenerator`: the generator runs on the lattices the search builds; `phase`, `pos` are where `analyze` is |
| `MCViterbi` | - | the words and the reference definition, the set of all cuts |
| `ViterbiProofs` | - | proofs about `NBestGenerator`, about `Viterbi`, and about both against the set of all cuts of `MCViterbi` |
| `Lattice` | `LatticeImpl`, `analyze` and `initPartial` as seen from outside | operators on a record |
| `ChunkFreeList` | `ChunkFreeList` of `freelist.h` | operators on a list: its place and the sizes of its chunks |
| `LatticeMemory` | the strings a lattice copies, `LatticeImpl::set_result` | extends `LatticeSession` and `ChunkFreeList`: `memory` is the list and where the strings in use lie |
| `TaggerSession` | `TaggerImpl` with its own lattice | one action per call |
| `LatticeSession` | a lattice of the caller | one action per call |
| `MCTaggerSession`, `MCLatticeSession`, `MCLatticeMemory` | - | the texts, and results for them |
| `TaggerProofs` | - | proofs about `TaggerSession` |
| `LatticeMemoryProofs` | - | proofs about `LatticeMemory`: its sessions, and the chunk list |
| `DoubleArray` | `darts.h` | `base`, `check`, `used`, `nextCheckPos` as in the code; `todo` is the stack of the recursive `insert()`; `Leaf` and `Insert` are one sibling each |
| `Dictionary` | `Dictionary::compile`, `token`, `token_size` | extends `DoubleArray`: `entries` is the lexicon as it was read, `tokens` the token array |
| `CharProperty` | `char_property.*` | `ranges` is what `char.def` says of characters; the rest are operators |
| `Tokenizer` | `Tokenizer::lookup` and the helpers it calls | extends both: `Lookup(begin)` gives the nodes in the order of the stages of the code |
| `LookupSession` | compiling, `initPartial` and the constraint setters, the loop of `viterbi()` | extends `Tokenizer`: `phase` is the step of the life of a dictionary and a sentence |
| `WordLattice` | what the lookups owe to the search | one operator, used by `MCLookup` (as a property) and by `MCViterbi` (as the initial condition) |
| `MCLookup` | - | lexicons, `char.def`s, sentences, constraints, and the properties |
| `LookupProofs` | - | proofs about `LookupSession`: compiling, building and searching the array, the stages of a lookup, constraints |
| `MecabProcess` | `mecab_do` | `inPipe`, `outPipe`, `pc`, `line` (the buffer of `getline`), `sentence` (the lines of partial mode) |
| `WordCloud` | `word_cloud.php` | extends `MecabProcess`: `pagePc`, `text`, `result`, `integrated`, `words` are the page's variables |
| `MCWordCloud` | - | the texts, and the compounds they have |
| `WordCloudProofs` | - | proofs about `WordCloud` with `MecabProcess`: the text of a row on its way from the page to the analyses |
| `FeatureIndex` | `EncoderFeatureIndex` | `dic`, `maxid`, `cache`, `observed` |
| `LBFGS` | `lbfgs.h`, `lbfgs_optimize` | the fields of the optimizer; `s`, `y`, `rho`, `w` are the parts of the array `w_` |
| `TrainingLattice` | `EncoderLearnerTagger` | operators on a sentence of the corpus |
| `Training` | `CRFLearner::run`, `learner_thread::run` | extends the three: `thread` holds the thread objects, `total` the sums of the main thread |
| `Evaluation` | the comparison of `eval.cpp` | operators on two files |
| `MCTraining` | - | sentences, old models, the analyses and answers as files for `Evaluation`, and the properties |
| `TrainingProofs` | - | proofs about `Training`: the numbering of the features, the sum over the threads, the old weights, the scores, the counts of `mecab-system-eval`, the optimizer's ring |
| `Ordering` | - | a set of numbers as a sequence, some places of a sequence |
| `InductionLemmas` | - | induction over numbers and intervals, that a recursive function exists, minima and maxima, numbers in order, what is selected from a sequence, sequences of sequences, for the proofs |

Correspondence and abstractions, module by module:

- **RWLock.** A failed test of a spin loop is a stuttering step. Loads and
  atomic operations are sequentially consistent. The words are `int` in the
  code; each thread adds at most 2, so they cannot overflow for any possible
  number of threads, and the model uses integers. `CasReturnsTrue` has both
  meanings of `compare_and_swap` (see the disagreements); all runs use the gcc
  and Windows one.
- **ModelSwap.** A value of a field is named by the model it was loaded with.
  `Swap` is the entry of the call: the checks that refuse a model change
  nothing, and `current_viterbi` is read there, before the lock, as in
  `tagger.cpp:407`. The three assignments under the lock are three steps. A
  model is passed to `swap` once, since `swap` deletes it. The time from the end
  of a parse until its caller is done with the nodes is the job `parsed`.
  `createTagger` reads the two settings in `open` and again for the setters
  (`tagger.cpp:479-488`, `421-435`), each reading a step of its own and none
  under the lock; they race with the assignments of `swap`, so for the second
  reading of a field a build may keep the first value. `Creators` are the
  threads that create taggers.
- **Viterbi.** Dictionary and sentence are inputs: `lexicon` is the set of words
  the lookups find, each with its place, and `pathCost` is what
  `Connector::cost` plus the word's cost gives for a pair of nodes. Which of
  several equally cheap left nodes `connect` keeps depends on the order of a
  linked list; the model lets any be chosen. Costs are compared with `MaxCost`
  in the place of `2147483647` (`viterbi.cpp:346`); the wrap-around of a sum
  that is larger still is not modelled. Probabilities use products of
  `Weight(cost)` in the place of sums of logarithms, so they are exact.
- **NBestGenerator.** An element and those it links to are one sequence of
  nodes; the queue orders equal elements in any way.
- **Lattice, TaggerSession, LatticeSession.** A text is an abstract value with a
  size, with what partial parsing makes of it, and with whether it sets
  features. What matters is which text each part of a lattice belongs to and
  whose memory the sentence is in: the caller's, a buffer of a function that has
  returned, the lattice's free list, or memory of that list that was taken
  before it was started over. `layers` counts analyses whose nodes are in the
  lists. Output strings and error messages are left out. Between calls the
  caller may overwrite its text buffer; with a lattice of its own it does so
  only when the lattice does not point to it.
- **ChunkFreeList, LatticeMemory.** A string is a range of bytes of a chunk;
  `strdup` takes two more bytes than the string has, its zero byte among them.
  `set_result` copies the result, cuts it up there and joins the surfaces behind
  it; then `set_sentence` starts the list over, and the features are copied.
  So unless the request type asks for a copy, sentence and features share memory
  that is handed out twice, and `StringsApart` is what keeps them apart. A
  result is the lengths of its lines. Every action is one of `LatticeSession`
  together with what it does to `memory`. `MaxChunks` bounds the chunks.
- **DoubleArray, Dictionary.** Every step of the search for free cells is in
  `Fits` and `NextCheckPos`; growing of the arrays is left out. `MaxInt` is the
  width of a value (2^31 - 1 in the code): `Pack` wraps round as the `int` does
  and the check for negative values in `build()` is part of `Leaf`. Bytes are
  numbers; reading of csv files, ids, costs and features is left out.
  `DictionaryAssumption` asks for at least 16 bits of magnitude (`MaxInt >= 65535`):
  with less a packed value could wrap round twice between two surfaces, past the
  negative numbers that `build()` looks for.
- **CharProperty, Tokenizer.** Characters are one byte long, so `mblen` is 1;
  the memory behind a text is taken to hold the zero byte. One dictionary stands
  for the loop over system and user dictionaries. `Dies` is the `CHECK_DIE` at
  `tokenizer.cpp:368`. A node is named by its token, place and feature.
- **LookupSession.** The two constraint vectors have their contents here, where
  the session modules only have their lengths. `SetConstraints` is a caller that
  sets any boundaries and one feature, followed by the start of a parse.
- **MecabProcess, WordCloud.** The buffers of the C++ and PHP streams are
  counted into the pipes; one unit of the answer's pipe is a line. A sentence in
  partial mode is shorter than `ibufsize`. An answer line is of one of the kinds
  the page tells apart; the three kinds of nouns it leaves out are one. The
  `exec()` behind the loop gets the text as file names and contributes one line,
  its error. `array_search` compares loosely in PHP, the model compares exactly.
  Sorting and layout of the table are left out.
- **FeatureIndex.** A vector is shared through the cache and renumbered in
  place, so whoever holds a pointer to it holds its key here. Templates are a
  parameter: what a key expands to.
- **LBFGS.** No arithmetic: a vector is named by the evaluation it was taken
  at, and the model follows which vectors each slot of the ring holds and which
  ones the two loops read. A line search may end, fail or go on at every
  evaluation, at most `MaxFev` times.
- **TrainingLattice, Training.** The share of a path depends on the weights
  alone; each path that has one counts 1 here, so a sum over lattices is exact
  and shows whether every sentence is in it once. Any way through the lattice
  may be the best path. The penalty counts 0, and `eta` is below 1, as the
  default is: the first evaluation never counts as a small change.
- **Evaluation.** The fields of a feature are one byte long, so a column is as
  long as its surface and two bytes for each field; no level is beyond the fields
  of a morpheme. The files are the first sentences of the corpus as the last
  round of training analysed them, and of the corpus itself, in any two numbers.

## Runs, bounds and what they show

| Run | Instance | Shows |
|---|---|---|
| `rwlock` | two readers, a writer, a thread that does both | `LockWord`: after any interleaving the two words count exactly the threads inside; `WriterPreference`; the lock implements `AbstractRWLock`, so it excludes; `WritersProgress`, `ReadersProgress` |
| `model_swap` | three parsing threads, one that swaps twice | `ParseKeepsModel`: a running analysis has the dictionary that is installed and not deleted; `TaggersOfModelsInPlace`: request type and theta of a new tagger are those of models in place during the call, so of one model unless a swap assigned meanwhile; `DeletedOnce` and `NoLeak`; it implements `AtomicModel`; `SwapCompletes` |
| `swap_outlives` | two parsing threads, one that swaps | finding: the accessors and the nodes of a finished parse use a deleted dictionary |
| `swap_twice` | two threads that swap | finding: two concurrent swaps delete one dictionary twice and leak the other |
| `viterbi` | sentence of 3 characters, 6 words, two costs | `BestIsCheapest`, `RefusedOnOverflow`, `MarginalsAreShares`, `AllMorphsListed`, `FoundInOrder`, `EnumeratesEveryCut`, `LinksFollowFound` against the set of all cuts; `NextReturns` |
| `viterbi_space` | the same with another set of words | finding: the node that begins in trailing white space has a `prob` that is not a probability |
| `tagger_session` | four texts | `SentenceOutlivesCall`, `ResultsOfLastParse`, `ParsesArgument` for any sequence of calls |
| `lattice_session` | four texts, results of one and two lines, chunks of 14 bytes | `ConstraintsFit`, `ParsedIsSentence`, `StringsApart`: no string in use is written over, for any sequence of calls on a caller's lattice |
| `lookup` | 5 lexicons, 4 `char.def`s, 49 texts of up to 4 characters, texts in partial format | `WordsFound`: what is compiled is found, and nothing else; `KindsAsDefined`: the packed categories mean what `char.def` says; `ConstraintsKept`; `DeliversLexicon`: the lookups deliver what `Viterbi` starts from, if a word that ends behind the text counts as ending one place behind it; a word does so only where nothing but white space was left, and more than one place behind only a known word in the string in memory, or under constraints; `DiesOnlyBeforeToken`: the one case in which the process is ended |
| `word_cloud` | one row of up to 6 characters or two shorter ones, pipes of 1 and 4, buffers of 3, with and without partial mode | `NothingLost`: lines are split, not lost; `HangsOnlyWhenFull`, `PageFinishes`: the page waits for ever only if both pipes are full; `CountsAreCompounds` |
| `training` | up to 3 sentences, 1 or 2 threads, cut-off 1 or 2, with and without an old model, 4 evaluations | `FeaturesNumbered`, `GradientComplete`, `ScoresExact`, `OldWeightsInPlace`, `RecentPairs`; `EvaluationExact`: `mecab-system-eval` counts what two files share, sentence by sentence |
| `lattice_next` | four texts | finding: `next()` after `clear()` or `set_sentence()` reads freed nodes |

Why the bounds are enough:

- *rwlock.* Exclusion can be broken by two threads; writer preference needs two
  readers (one inside, one that comes late) and a writer; two writers exchange
  the low bit. The thread that does both stands for a parsing thread that
  swaps. Exclusion and the refinement are also proved for any number.
- *model_swap.* Two swaps are needed to delete something that a swap installed;
  three parsing threads are enough for the lock never to be free of readers for
  a while; one of them also creates taggers. `Models` bounds the number of swaps.
- *viterbi.* Three characters with words of one and two characters have
  several cuts, words that overlap, nodes no cheapest path uses, positions
  where nothing ends and trailing white space at two places. Costs -1 and 2 give
  ties, negative sums and, with `MaxCost` 3, sentences that are refused. All
  lexica that lookups can produce, all cost assignments and all request types
  are initial states. All properties but `NextReturns` are also
  proved for any sentence. `CHECK_DEADLOCK FALSE`: the analysis ends.
- *sessions.* A plain text, a text that is too long, and two texts in partial
  format, one with features that stands for the first and one without that
  stands for the second; the counts for `parseNBest` include one that is
  refused. Sizes differ between all texts, so that vectors made for another
  text do not fit. `MaxLayers` bounds how often a lattice is parsed without a
  new sentence. The properties of `tagger_session` are also proved for any texts,
  and so are those of `lattice_session`.
  The results of `lattice_session` fit the first chunk (8192 bytes in the code,
  14 here), or fill it so that the sentence goes to the next one, or get a chunk
  of their own; with three chunks there is one behind the longest string.

- *lookup.* The lexicons have surfaces that are prefixes of each other, surfaces
  with several tokens, one that begins and one that ends with white space, an
  empty one, far apart bytes so that nodes of the array interleave, 257 entries (the
  packed value of the last exceeds `MaxInt` and the dictionary is refused) and 256
  entries of one surface (the count is 0). The
  `char.def`s have characters of one and of two categories, ranges that
  overwrite others, a category named twice, and categories with each setting of
  invoke, group and length. Sentences also end before their memory does, one of
  them in white space behind which the memory goes on with a word of the
  dictionary that ends two places behind the text.
  `MaxInt` is 65535, so that overflow takes 256 tokens, not 2^23.
  All properties are also proved for any lexicons, `char.def`s and texts.
- *word_cloud.* The input buffer holds two characters, so texts of six are split
  into three; with an input pipe of 1 and an answer pipe of 4 there are texts of
  which both pipes get full and texts of which they do not. In partial mode the
  line buffer is as short. `NothingLost` is also proved for any rows and sizes.
- *training.* One sentence has a reading that is one character out of step with
  the answer and a reading nothing follows, the other's answer is not in the
  dictionary and becomes a virtual node. Two threads and three sentences give
  one thread two sentences. `MSize` is 2 and four evaluations make three pairs,
  so the ring (5 in the code) wraps round; `MaxFev` 2 (20 in the code) lets a
  line search last. `MaxEvals` bounds the training. `FeaturesNumbered`,
  `GradientComplete`, `OldWeightsInPlace` and `RecentPairs` are also proved for
  any corpus and any numbers of threads and evaluations.
  `CHECK_DEADLOCK FALSE`: it ends.

For every property of a passing run `PROJECT.json` has a mutant: a definition
of the module (marked `mutant` in its comment, used nowhere else) that changes
one mapped definition as a plausible bug would, and under which TLC finds the
property violated.

## Fairness

- `HistorySpec`, `FairLockSpec`: weak fairness of the steps of a thread that is
  inside a lock operation or holds the lock. The loops of `thread.h` yield the
  processor and the critical sections are finite, so the scheduler runs such a
  thread again. Nobody has to take the lock. No strong fairness is needed: while
  a writer waits, `write_pending_` keeps new readers out, so its
  compare-and-swap becomes and stays possible.
- `ModelSwap!FairSpec`: weak fairness of each thread's steps inside a call; the
  calls themselves and `DropResult` (the caller's own time) are not fair.
- `Viterbi!FairSpec`: a thread in `analyze` or in the loop of `next()` runs on;
  nobody has to call `next()`.
- `WordCloud!FairSpec`: weak fairness of the page's steps and of the process's:
  the operating system runs both as long as they are not blocked on a pipe.
  `PageFinishes` has the condition under which it holds; without it the page
  hangs (`HangsOnlyWhenFull` says in which states, and TLC reaches them).
- The sessions, the lookups and the training state safety only. Training need
  not end: the loop of `learner.cpp:181` has no limit, and that the objective
  settles is numerics.

## What is proved

`tlapm` checks these for every value of the constants; each rests only on the
named assumptions in the module that declares the constants.

- **RWLock** (`RWLockAssumption`: the sets of threads are finite).
  `LockInvariant`: types, `LockWord` and `MutualExclusion` are together
  inductive. Exclusion alone is not: that a writer enters alone follows only
  because the word it compares with 0 counts exactly the readers that have
  added themselves, so the invariant has to say what the word is. The proof
  follows how each action moves one thread between the classes `Counted`,
  `Announced` and `Writing` and what that does to their cardinalities.
  `Refinement`: every step is a step of `AbstractRWLock` or a stutter, for both
  readers and writers, by the same invariant. `WritersFirst` adds the history
  variable: a reader that came while a writer waits is still in the first loop
  of `read_lock`, since by `LockWord` the writer is among those
  `write_pending_` counts, and that loop ends only when the count is 0. It
  assumes `~OsxAtomics`, like the invariant it rests on.
- **NBestGenerator** (`NodeAssumption`, `NoNodeAssumption`). `InOrder`, `Bound`,
  `FromBosToEos`, for any lattice whose node costs are lower bounds consistent
  with the path costs (`CostsAreBest`, the generator's own initial condition):
  the priority of an element is the node cost of its head plus what it has
  walked; extending a path never makes it smaller than its parent's, the top is
  minimal, and so nothing on the agenda is below what has been returned. The
  element that `set()` pushes has priority 0 and is the exception, which is why
  `AgendaBound` has two cases. That the lattices `analyze()` builds satisfy
  `CostsAreBest` is part of the next theorem, not an assumption.
- **Viterbi** (`ViterbiAssumption`, `NodeAssumption`, `NoNodeAssumption`), for
  every sentence length, lexicon the lookups can deliver, cost table, limit
  `MaxCost` and request type. The properties compare the search with `Cuts`, the
  set of all ways to cut the sentence, defined without the lattice; a cut is
  never enumerated by the code, so each proof goes through the Path objects:
  - `ViterbiInvariance`: `LatticeInv` says, position by position, which nodes
    are in the two lists and which Path objects exist, and that a node's cost is
    that of the cheapest of its Path objects (`NodeCosts`); `LinkInv` says which
    links `prev` and `next` the phases have set. Phases share the links, so
    what a link means depends on `phase`.
  - `BestPathIsCheapest` (`BestIsCheapest`): a cut is a route along Path objects
    and a route is a cut; by induction over the positions no route to a node is
    cheaper than its cost, and the links of the best path are a route that costs
    exactly that. `RefusalIsExact` (`RefusedOnOverflow`): unless a word overshoots
    the text, the analysis is given up exactly if some node cannot be reached for
    less than `MaxCost`.
  - `EnumerationInOrder` carries the invariant of the generator over to the
    lattice that was built. `EveryCutIsEnumerated` (`EnumeratesEveryCut`): what
    is found are cuts, each once and the cheapest first, and when the agenda is
    empty it is all of them. The invariant `SearchInv`: every route to `EOS` is
    found or ends in a path of the agenda (`Covering`); no path of the agenda is
    the end of another one, or of one that was found (`Apart`); each has the cost
    of its nodes (`Costed`).
  - `LinksAreThePath` (`LinksFollowFound`): after `next()` the nodes' links are
    those of the path it found, so that the caller walks that one.
    `AllMorphsAreListed` (`AllMorphsListed`): `buildAllLattice()` links every
    node once, in the order of their positions, also after `next()`.
  - `MarginalsAreExact` (`MarginalsAreShares`): after `forwardbackward()`, if no
    word overshoots the text, `Z` is the weight of all cuts, `alpha * beta` of a
    word that of the cuts through it, and with the weight of a Path object in
    between that of the cuts along it. By induction over the rank of a node
    alpha is the weight of the routes that lead to it (`AlphaIsSum`: they are
    sorted by the last Path object, and each part is the routes to its left node
    times one factor); downwards, the routes to `EOS` that go on from a route
    weigh as much as that route times beta of its last node (`BetaIsSum`). The
    cuts through a node fall into parts by what they begin with, one for each
    route to it, and the sum over the parts is the product (`ShareOfNode`,
    `ShareOfPath`). Without the exception for words that overshoot it is false:
    such a word is in no list of ends, `forwardbackward()` does not visit it on its
    way back, and its beta stays what it was made with, that of `EOS`, though no
    way leads on from it. The invariant is `MarginalInv`.
- **InductionLemmas** is what makes these possible: `tlapm` cannot instantiate
  the library's induction theorems, which take a predicate, so induction is done
  on the *set* of the numbers that have the property (`NatSetInduction`,
  `IntervalInduction`), and a recursive function is shown to exist from
  well-foundedness (`RecursiveFunctionExists`, `IterationExists`) before its
  equation is used. It also has what a sum over a finite set, a count of an
  element in a sequence and a selection from a sequence are, from the folds and
  recursive functions that define them (`SumOfOneMore`, `SumOfParts`,
  `SumSame`, `SelectMapped`), sums of products and over parts (`SumTimes`,
  `SumOfUnion`, `SumOfMultiples`), and the functions that are defined by sums along
  the links of a graph without cycles (`SumRecursion`).
- **TaggerSession** (`LatticeAssumption`, `CallerAssumption`).
  `ConstraintsAlwaysFit`, `SentenceAlwaysOutlives`, `ResultsAreOfLastParse`,
  `ParsesItsArgument`: the properties of the run `tagger_session`, for any
  set of texts, and that its constraints fit. The invariant `TaggerInvariant` is their conjunction over the
  lattice with its types; the argument is that a parse begins by clearing the
  lattice, so that what it leaves behind is a function of its text and the
  tagger's settings (`ParseFacts`), and that no other call but `next()` touches
  the lattice. `SentenceOutlivesCall` is the subtle one: `set_sentence()`
  decides whether to copy from the request type of the parse *before*, but
  inside `initPartial()` the request type is already the new one, and it
  contains `PARTIAL`.

- **ModelSwap** (`SwapAssumption` and `RWLockAssumption`), for any number of
  threads. `AnalysisKeepsItsModel`, `TaggersAreOfModelsInPlace` and
  `SwapIsAtomic` (the refinement of `AtomicModel`) hold for any number of swapping threads;
  `OneSwapperDeletesOnce` and `OneSwapperLeaksNothing` for one, which is what the
  run `swap_twice` shows to be needed. The invariant `SwapInv` contains the
  lock's: each step of the model is a step of the lock or leaves it alone, so
  exclusion carries over. Beside it, it says where in the lock a thread is by
  its job (`Stages`); that a model passes through `swap` once, so that what was
  replaced never becomes current again (`Fresh`, `Retired`); between which
  assignments the fields may differ (`Settings`); and that whatever a reader of
  the fields may find, and what `createTagger` has copied so far, belongs to
  models that were in place since it was called (`Copies`). For a single swapping thread
  `OneByOne` adds that every model is to come, current, held by the swap, or
  deleted exactly once.
- **LatticeMemory** (`LatticeAssumption`, `SettableAssumption`,
  `ChunkAssumption`, `ResultsAssumption`). `ConstraintsStayFitting` and
  `AnalysisIsOfSentence`, for any texts, results, sizes of chunks and sequences of
  calls. `ParsedIsSentence` alone is not inductive: a lattice may point to the
  caller's buffer, so `SessionInvariant` says of which text the sentence *reads*
  and that the size is that text's, across `set_sentence()`, which may copy or
  not. The strings are additional state: every step of `MemorySpec` is one of
  `LatticeSession`.
  `AllocatedOnce`, of `alloc()` by itself: a string that is allocated lies in
  its chunk and shares no byte with any allocated since the list was started
  over. `StringsStayApart` (`StringsApart`) is about more than that: after
  `set_result()` without a copy the sentence is in memory that the list hands out
  again, so allocation alone does not keep it. The argument (`Below`,
  `RoomBefore`): the result was allocated before the sentence, the features of
  its lines need less than the result has, so the chunk the result was in has
  room for each of them, the list never goes beyond that chunk or grows, and what
  it hands out ends before the sentence begins. `ResultsAssumption` is that the
  lengths are those of lines: a result without lines ends in a newline or `EOS`,
  or is empty.
- **Training** (`CorpusAssumption`, `SentenceAssumption`, `OldModelAssumption`,
  `TrainingAssumption`), for any corpus, templates, cut-off frequency, old model, number of threads and
  number of evaluations. What is assumed of the inputs: a sentence is a sequence
  of characters with a list of words at each of them, each key of a path expands
  to a list of features, and a file with an old model names each feature once,
  as `save()` writes it from a `std::map`. The words at a position are pieces of
  the text that begin there and are not empty; the answer is one or more such
  pieces that follow each other and cover the text, since `read()` joins the text
  from the surfaces of the lines and dies of a sentence without lines.
  `TrainingIsConsistent` is the
  invariant, `TrainingInv`; the properties but the scores and the counts follow
  from it.
  - `FeaturesAreNumbered` (`FeaturesNumbered`). While the corpus is read
    (`ReadSoFar`), the table numbers its features without a gap, each key in the
    cache has the vector of its features, asked for as often as the paths of the
    sentences ask, and `observed` is the sum of the answers. `Uses` is then the
    number of times a feature was asked for (`UsesAre`), whichever of its keys
    asked; and `CutOffSettles` shows that the new numbers are dense and in the
    old order, so that the table, the vectors and `observed`, which `shrink()`
    changes one after the other, still agree (`Settled`). Nothing changes them
    afterwards.
  - `GradientIsComplete` (`GradientComplete`). A thread takes every
    `threadNum`-th sentence, beginning with its own number, so what it has added
    is a sum over the sentences below its cursor of one remainder (`ThreadIs`,
    `HasCounts`). The sum of the main thread is one over the remainders of the
    threads joined so far (`SumIs`, `OfFirst`), which is the corpus in the end.
    Phases matter (`MayBe`): a thread object keeps the sum of the round
    before until it starts, so only what is `done` in this round may be added.
    The answers are subtracted when the objective is computed, by
    number, hence the need for `Settled`.
  - `OldWeightsAreInPlace` (`OldWeightsInPlace`): the old features are numbered
    before the corpus is read, in the order of the file, and their weights never
    move. `InPlaceWhen` and `Closed` show for which cut-offs that is right: a
    number that stays is its own new number if and only if all below it stay.
  - `ScoresAreExact` (`ScoresExact`): what the driver holds after a round counts
    each sentence once, whichever way through its lattice `viterbi()` left
    (`best`). The nodes of a lattice are pieces of the text between its two
    boundaries, the answer among them as far as `node_cmp_eq` compares
    (`LatticeIs`, `AnswerIs`); only as far as that, because a dictionary may have
    several entries that compare equal, and `eval()` cannot tell them apart.
    Pieces that compare equal are equally long (`EqualLengths`), so two chains
    that agree as far as the shorter goes have the same number of nodes
    (`NotShorter`): the first difference lies where both have a node, and up to
    there the cursors are together and at the right places although each moves by
    the length of the next node (`Reached`, `Together`). `EvalOfChains`: a
    comparison counts all nodes of both chains and reports an error if and only if
    they differ; of the common ones, `crr`, only a bound is shown. `ScoreInv` says whose scores each thread and the sum hold. A
    thread that is still `done` from the round before does not count until
    it is its turn to be started. `ScoresAreSums` is its invariance.
  - `EvaluationIsExact` (`EvaluationExact`): what `mecab-system-eval` counts when
    the analyses and the answers of any of the first sentences are its two files.
    The walk over a pair of sentences is shown for any segmentations into surfaces
    that are not empty and any list of levels that begins with 0. Each
    cursor is at the place where its morpheme begins, and whatever it has passed
    begins before the other's place (`Walked`, with `WalkStep`): two morphemes at
    one place are met together, and none that a cursor has passed can still be
    matched. A cursor at its end has passed everything the two have in common
    (`AllInCommon`); the rest of the longer one is only counted. The rounds are
    sums over as many sentences as both files have, and one more
    (`Counted`, `SumTo`, `EvaluateFilesIs`).
- **LBFGS**, as part of `Training` (`LBFGSAssumption`).
  `DirectionFromRecentPairs`: the two loops read the newest pairs, newest first
  and then back, each with its own factor, for any `MSize`. The invariant `Ring`
  says what the slots behind `point` hold while a search lasts: one pair less
  than there are slots, since the search keeps its direction in the slot at
  `point`. A search that succeeds fills that slot and moves on; the oldest pair,
  which is now at `point`, is still read once (`NewRing` has `i = MSize`) before
  the next search takes the slot. `Behind` and its lemmas are the wrap-around.
- **LookupSession** (`LookupAssumption`, `TokenizerAssumption`,
  `CategoryAssumption`, `DictionaryAssumption`), for any lexicons, `char.def`s,
  texts and constraints: `ConstraintsAreKept` (`ConstraintsKept`),
  `DeathOnlyBeforeToken` (`DiesOnlyBeforeToken`), `LexiconIsDelivered`
  (`DeliversLexicon`), `WordsAreFound` (`WordsFound`) and `EveryTextIsSearched`,
  which says of every text what `WordsFound` says of the short ones a run can
  list. `LexiconIsDelivered` closes the gap between the two halves of an
  analysis: what the lookups deliver for a text is `PossibleLexicon`, which is
  all that the theorems about `Viterbi` take for granted, if a word that ends
  further behind the text counts as ending one place behind it. It also says
  which words do: known ones in trailing white space, up to the end of the string
  in memory, and words under constraints (see the disagreements). What is assumed of the
  inputs: a lexicon has a word, `unk.def` has a token for each category (else
  `open()` fails), a range of `char.def` names categories, all of them defined
  (else `encode()` ends the tool, `char_property.cpp:56`, `:65`). The inductive invariant `LookupInv` is built from
  - `ArrayInv`, of the array while it is built and after: the root's children
    never come to lie on the root's own base. A search takes a cell for the end
    of a word if it holds its own number, and at the root that would be the empty
    word; `viterbi()` would then have a node that ends where it begins. It holds
    since every base is in use once, and the root's is taken by the first
    `insert()`;
  - `SentenceInv`, of a text and its constraints: both ends are boundaries, and
    where a feature is asked for, a token begins that no boundary cuts and that
    ends at one. `CallerFacts` shows it for the setters, `PartialFacts` for a text
    in partial format, by induction over its lines. It is why the search for the
    shortest unknown word (`ShortestEnd`) comes to the end of the token and why
    the made-up node has the feature asked for;
  - `GoodFound` and `Covered`, of the words found so far. `LookupFacts` is the
    lemma behind them: each stage of `lookup()` (known words, the group, the
    lengths, one character, the last resort) returns only words that are as they
    should be, and if all return none, the text is one on which `CHECK_DIE` fails.

  That what is compiled is found rests on a second invariant, `WordsInv`, which leans on the first:
  - `Described`: keys and values are the lexicon. `SortedOrder` and
    `LexiconOrder` show that sorting leaves exactly the lines of the lexicon, those of
    a surface side by side and in the order of the lexicon; `BlockFacts` that
    the values stand for consecutive blocks of tokens. A value that is too large
    must be noticed: `ValuesFit` shows that the first one is less than `MaxInt` too large,
    if no surface has 256 entries or more, and so comes out negative, where
    `build()` sees it. If none is negative, none has wrapped round.
  - `IsTrie`: there are a map from the nodes (the ways to them, as sequences of
    codes) to cells, and a set of nodes that have children, such that no two of these
    share a begin, whatever cell `check` names a begin for is a child's, and every
    other node with a cell is pending, exactly once, or holds the value of its key
    (`Trie`). `StartTrie`, `LeafTrie` and `InsertTrie` are
    its three steps. The hard one is `insert()`: it takes cells only where
    `check` is 0 and a begin that is not in use, so what other nodes own stays;
    and as the keys are sorted and without doubles, the codes below a node ascend
    and each child has its keys in one interval (`MeetsOrder`), so the search for a
    gap in the order of the codes does what the code takes for granted.
  - `SearchFinds`, by induction over the text: the walk of a search stands at the
    node of the prefix as long as some key begins with it, and off the trie
    from then on: a cell that names a begin as its owner is a child of the one
    node that has that begin.

  `KindsAreDefined` (`KindsAsDefined`): a character's information is made of the
  categories of its last range (`TableEncodes`), and what `encode()` adds up has
  the bits of exactly those categories (`EncodeBits`), by induction over them: a
  bit that is not set is set by adding it, and no other changes (`BitAdded`),
  since nothing is carried; there are at most 17 categories, so the sum fits
  the 18 bits. The categories of a range must differ, else a bit is added to
  itself.

- **WordCloud** and **MecabProcess** (`PageAssumption`, `ProcessAssumption`), for
  any rows, sizes of pipes and sizes of buffers: `NothingIsLost` (`NothingLost`).
  What is assumed is that rows are texts and that pipes and buffers have a size.
  The invariant is `TextIsAccounted`: the text of the row is what mecab has read,
  the line it is reading, the pipe and what the page has still to write, in this
  order; and what was read, ends of lines apart, is what was analysed and what is
  held for the next analysis (`Held`: after `parse` the sentence counts once, as
  analysed, though it is kept until its answer is written). An end of input may
  be seen only after the page has closed the pipe, so nothing is left then. In
  partial mode a line that does not fit is dropped and the stream taken to be
  at its end; `NeverFull` shows that this does not happen if the lines fit: the
  characters in the buffer and the next one are a piece of the text without an end
  of line, and such a piece lies in one of its lines (`LineHolds`).

Only model-checked:

- all liveness, and `HangsOnlyWhenFull`, which is about `ENABLED`: out of the
  prover's reach;
- `CountsAreCompounds`, which compares the texts of all rows with what is left of
  them after they were cut up twice, in the process and in the page.

## Where the code and its documentation disagree

Shown by a run each:

1. `swap_twice`: `swap` reads `viterbi_` before it takes the lock
   (`tagger.cpp:407`), `mecab.h:1109` calls it thread safe.
2. `swap_outlives`: `dictionary_info`, `transition_cost` and `lookup` read
   `viterbi_` without the lock (`tagger.cpp:103-118`), and nodes of a finished
   parse still point into the dictionary that a swap deletes, although parsing
   threads need not be stopped (`mecab.h:1111`).
3. `viterbi_space`: in trailing white space the lookup adds an unknown word
   that ends behind the sentence (`tokenizer.cpp:307`); `calc_beta` never sees
   it (`viterbi.cpp:148`), and its `prob` is not a probability.
4. `lattice_next`: `clear()` and `set_sentence()` do not empty the N-best
   agenda; `next()` before the next parse goes on over freed nodes.

Met while reading, without a run of their own:

- With `HAVE_OSX_ATOMIC_OPS`, `compare_and_swap` returns whether the swap was
  done, not the old value (`thread.h:44-72`), and the loop of `write_lock`
  (`thread.h:83`) ends when the swap failed. `RWLock` models it
  (`OsxAtomics = TRUE`); `MutualExclusion`, and with it the refinement, then fails.
- Taggers copy request type and theta when they are created
  (`tagger.cpp:432`); those that exist do not follow a swap.
- `createTagger` reads both without the lock, twice (`tagger.cpp:421-435`,
  `479-488`), while `swap`, which `mecab.h:1109` calls thread safe, assigns one
  after the other (`tagger.cpp:410-412`). A tagger made in that moment can have
  the request type of one model and the theta of another, and two threads use
  the fields at once without synchronization. `TaggersOfModelsInPlace` allows the
  mixture then, and only then; that both settings are always of one model is
  something TLC finds violated.
- In trailing white space of a text that is given by its length the search for
  known words also gets the length 0 (`tokenizer.cpp:276-279`), so it goes on in
  the memory behind the text up to the next zero byte (`darts.h:432`). A word
  of the dictionary found there can end several places behind the text;
  `viterbi.cpp:362` then links it into `end_nodes_`, which has the length of the
  text and four entries (`tagger.cpp:766`), and with constraints
  `is_valid_node` reads that far in a vector of the same length. The model of
  `Viterbi` is of a word that stays within the lists, where it makes no
  difference how far behind the text it ends: `DeliversLexicon` counts each as
  ending one place behind.
- `next()` and `nextNode()` do not set what `what()` returns
  (`tagger.cpp:632`, against `mecab.h:1407`).
- Whether a parse copies its sentence depends on the request type of the parse
  before (`set_sentence` comes before `initRequestType`): the first parse after
  `ALLOCATE_SENTENCE` is set does not (`mecab.h:301`).
- In partial mode `initPartial` clears the lattice and so resets theta to the
  default (`mecab.h:1389`); `ParsesArgument` states what happens.
- `set_lattice_level` only ever adds request types (`tagger.cpp:518`).
- `toString(node)` starts over the buffer that an earlier result of `toString()`
  is in (`tagger.cpp:904`).
- A lattice that is parsed twice without a new sentence keeps the nodes of both
  analyses (`viterbi.cpp:372`, `layers` in the model).
- A text in partial mode from which nothing is stripped, not even a final line
  `EOS`, does not fit the buffer of `initPartial` (`viterbi.cpp:264-286`,
  `string_buffer.cpp:16`) and the process ends; the guard `Survives` keeps the
  session modules to texts for which that does not happen.
- A chunk that was made for one long string has no room for the same string
  again, since `freelist.h:61` compares with `<`: each time a lattice starts over
  and copies a string that is no shorter than the largest chunk, it gets another
  chunk, and none is given back before the lattice is deleted.
- `set_result` leaves `begin_nodes_[size]` empty, so `eos_node()` is null.
- `mecab_do` returns after its first input file (`tagger.cpp:1258`).
- White space that a token boundary cuts off from the word behind it: the length
  given to `commonPrefixSearch` is 0 there, which means up to the end of the
  string (`darts.h:432`), and the unknown word starts at the boundary
  (`tokenizer.cpp:308`), so a word crosses what `mecab.h:316-319` calls a token
  boundary. `ConstraintsKept` excepts exactly these positions. In the same place
  the `CHECK_DIE` at `tokenizer.cpp:368` can fail; `DiesOnlyBeforeToken` states
  when.
- A surface with 256 entries or a multiple of that is never found, and one with
  257 has one token (`dictionary.cpp:451`, 8 bits); `WordsFound` is about
  lexicons with fewer.
- A range of `char.def` that names a category twice belongs to the next category
  instead: `encode` adds the bits up (`char_property.cpp:67`).
- `commonPrefixSearch` returns how many results there were, also when it stored
  only 512 of them (`darts.h:444`); `lookup` would read beyond.
- In partial mode a line of `BUF_SIZE` or more is dropped, and if it is the first
  of its sentence the program ends as if its input had (`tagger.cpp:1245`).
- The page calls `feof()` before `fgets()`; the end of every answer becomes a
  line whose word is a comma (`word_cloud.php:80`), and since compounds with a
  comma are not counted (`word_cloud.php:98`), the first compound of every row
  but the first is dropped. `CountsAreCompounds` states the counts as they are.
  The page hangs when both pipes are full (`word_cloud.php:46`).
- `shrink()` renumbers the features but not the weights of an old model
  (`feature_index.cpp:461`, `learner.cpp:143`): with `-M` and a frequency above 1
  a feature may get the weight of another. `OldWeightsInPlace` states exactly
  when all stay in place.
- `eval()` moves each cursor on by the length of the node it moves *to*
  (`learner_tagger.cpp:221`), so after morphemes of different lengths common
  ones are missed, and F is too low; the counts `prec` and `recall` have each
  other's names, which the F value does not show. `ScoresExact` states what is
  right about the counts.
- The cut-off `-f` counts how often a feature is in a path of a lattice
  (`feature_index.cpp:466`); the training manual (`doc/learn.html`) speaks of
  occurrences in the training data.
- Unigram and bigram vectors share one cache whose keys do not say which they
  are (`feature_index.cpp:288`, `309`).
- `mecab-system-eval` counts positions in bytes of the *first* level's column
  (`eval.cpp:161`), so it compares morphemes of different places when the first
  level is not 0; the manual offers `-l 4` and `-l -1` (`learn.html:601`).
  `EvaluationExact` is about lists of levels that begin with 0, as the default
  does; with `-1` first TLC finds it violated. Of files with different numbers of
  sentences one sentence too many is counted, the rest is ignored
  (`eval.cpp:146`); the property says so.
- An empty corpus makes the trainer take the address of the first element of an
  empty vector (`learner.cpp:146`). `CutOff` has a sentence.

## What is not modelled

`PROJECT.json` lists every component with its status. Left out on purpose:

- formatting of results (`writer.cpp`, `string_buffer.cpp`), the C wrappers
  (`libmecab.cpp`), memory-mapped files, parameters and resource files;
- the pools of equal elements (`FreeList`: nodes, paths, elements of the
  agenda), which hand out one element after the other and are started over with
  the chunks; `layers` and `NextReadsLiveNodes` are about what lives in them;
- the batch tools for dictionaries: one pass over their files each, with no
  state that outlives a run; the generator of test sentences in `eval.cpp`;
- the arithmetic of L-BFGS and of the weights, and with it convergence;
- the database pages, and vendored JavaScript.

`ucstable.h`, a table of characters that a script generated, has 155511 of the
168765 lines of implementation: no model has anything to say of it, and the
share of lines that the modules stand for has to be seen against the other
13254.

## Plan

Done: lock, model and swap; Viterbi and N-best; the tagger and lattice
interfaces; dictionary, character properties and lookup with constraints;
the command line loop and the page's pipes; training and evaluation; the memory of a lattice's
strings; proofs about the lock, the swap, the whole Viterbi and N-best search, the
tagger, a caller's lattice and its memory, the lookups, the numbering, the
gradient, the old weights and the scores of training, the counts of
`mecab-system-eval`, the optimizer's ring, and the text on its way from the page
to the analyses.
What is left:

1. Proofs: that the counts of the page are those of the compounds.
2. `StringBuffer`: the refusal of writes that do not fit a caller's buffer.
3. The context identifiers and rewriting rules of the dictionary tools.
