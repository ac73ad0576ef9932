# SwiftQL in TLA+

SwiftQL is a single-process, single-threaded SQL engine over CSV files. A query is parsed, bound, validated and
planned, then executed by one of two engines: *Volcano*, which pulls one row at a time, and the *vectorized* engine,
which pulls chunks of 1024 rows with selection vectors over a compressed column store. The engine has no locks,
transactions or network, so its difficulties are of another kind:

- state that outlives a call: buffers shared by operators, scratch columns reused from chunk to chunk, hash tables,
  cursors, the result cache;
- boundaries that do not line up: zone-map chunks, batches, lanes of a SIMD register, slices of an output buffer,
  LIMIT;
- two engines and an optimizer that are meant to answer alike, including NULL, NaN, overflow and errors;
- names: a reference is bound, re-stamped and looked up again in four different schemas, and a computed column is
  found again by the text of its expression.

The modules below model those parts. Paths are relative to `src/src/` of the repository.

## Inventory

| component | state it keeps | operations | what makes it correct |
|---|---|---|---|
| streaming pipeline (`execution/vec_scan,filter,project,limit`) | row cursor, one buffer per scan and project, rows emitted | pull, prune, decode, stamp, gather, truncate, deliver | exactly the qualifying rows, first ones under LIMIT, no useless pull, no error from a row that does not matter |
| zone maps (`storage/chunk_pruner.h`) | min and max per chunk and column | may a chunk be skipped | a skipped chunk holds no qualifying row |
| column store (`storage/csv_to_columnar, rle_column, dictionary_encoder`) | runs, dictionary, codes, zone maps | encode, read a row, decode a range | what is read back is what was loaded |
| vectorized joins (`execution/vec_hash_join, vec_simd_loop_join`) | hash table or flat keys, output buffer and cursor | build, probe, compare, emit | exactly the pairs that ON calls equal, FROM side first |
| blocking operators (`vec_hash_aggregate, vec_distinct, vec_sort`, `planner/plan_nodes.cc`) | groups, rows seen, buffer and cursor | consume, materialize, sort, emit | exact groups and aggregates, first rows kept, stable order |
| scalar evaluation (`execution/evaluator.cc, checked_arith.h`) | none | evaluate, match LIKE, cut SUBSTRING | SQL's NULL, overflow raises |
| expression kernels (`execution/expression_executor.cc`) | a scratch column per node | compile, one kernel per node | same values and same errors as the scalar evaluator |
| chunk predicates (`execution/columnar_eval.cc, vec_filter_node.cc`) | the compiled leaves | AND cascade, OR merge, leaf scan, fallback | same rows as the scalar evaluator, no new errors |
| binder, pushdown, planner (`planner/`) | range table, slots on references, schemas | bind, classify, re-stamp, narrow, look up | a reference reads the column it names; invalid statements are rejected |
| session (`cli/main.cc`, `catalog/`, `storage/csv_loader.cc`) | statistics, result cache, exit code | load, plan, look up, execute, print | the cache is invisible; the exit code tells how far it came |
| Volcano streaming nodes (`planner/plan_nodes.cc`) | cursors, hash table, probe row, bucket index, count | open, next, close | the same stream of rows, one at a time; an error only from a row that is needed |
| hand-over of tables (`planner/planner.cc, vectorized_plan_builder.cc`) | uses left of each table | move or copy to a scan | every scan gets the whole table, a self join too |
| parser (`parser/parser.cc`) | position in the tokens | recursive descent | the tree is the one written down, with or without its parentheses |
| constant folding (`planner/constant_folding.cc`) | none | fold literals, date intervals | the value is that of the expression; errors stay for run time |
| validator and types (`planner/validator.cc, logical_plan.cc`) | none | infer types, check clauses | a value has the type its column was given |
| logical plan above aggregation (`planner/logical_plan.cc`) | accumulators and computed keys by name | name, merge, substitute | a reference reads the column computed for it |
| calendar (`common/date_util.h`) | none | add days, months, years | the Gregorian calendar, clamped to the end of a month |
| lexer, cost model, benchmarks | none or local | pure functions | see *Not modelled* |

How they interact: `main` parses a query, loads the CSV files of its tables into rows, converts them to columns,
builds a tree of operators and calls `nextChunk` (or `next`) on the root until it answers null. Each operator calls
its child in the same way. The filter and the limit own no buffer: they write into the buffer of the operator below
(`execution/vec_filter_node.cc:25`, `execution/vec_limit_node.cc:25`). The planner hands WHERE down to the scan as a
pruning hint. The predicate of a filter is evaluated by `evalPredicate`, which falls back on compiled expression
kernels and these on the scalar evaluator.

## Modules

| module | models | state and actions |
|---|---|---|
| `ZoneMap` | comparison with NaN, zone maps, pruning | operators only; used by `VecPipeline` and `ColumnStore` |
| `QueryStream` | abstract: what a streaming query promises | `Emit` the next rows, `Finish` when nothing is left, `Fail` on a row that cannot be projected |
| `VecPipeline` | scan, filter, project, limit, driver | `pc` names the node that acts; one action per path through its `nextChunk` |
| `ColumnStore` | encoding, zone-map loop, random and range reads of one column | one action per turn of the encoder, min/max and decode loops |
| `VecJoin` | hash join and SIMD loop join | build, pull, probe, compare by lanes (take the bits of each mask) and tail, emit a slice; both algorithms, both build sides |
| `Blocking` | aggregate, DISTINCT, sort in both engines | consume a row, materialize or sort, emit a row or slice |
| `BlockingProofs` | | theorems about `Blocking`, and lemmas about folds and insertion sort |
| `Evaluator` | `evaluate` on INT expressions | operators only; an expression is a post-order list of nodes, evaluated by a recursive function |
| `VecFilter` | `evalPredicate` over the chunks of a filter, the compiled leaves and their kernels | `leaf` says which leaf a node is in, `node` is the next node in post-order; one action per kernel, for the column scan, the row-wise fallback, the cascade, the merge, the end of a chunk |
| `PipelineProofs` | | theorems about `VecPipeline` and `VecFilter`, lemmas about trees in post-order, ascending selections and recursive functions |
| `JoinQuery` | binder, pushdown, narrowing, lookup, pruning hints of a join query | one action per binder step, per conjunct pushed, ordering, run |
| `JoinProofs` | | theorems about `VecJoin` and `JoinQuery` |
| `Volcano` | scan, filter, project, limit and hash join one row at a time; how both planners hand tables to scans | one action per path through `next` of the node that acts |
| `VolcanoProofs` | | theorems about `Volcano` |
| `TreeFold` | the recursion of every walk over a tree, and of every loop over a list | `Fold` and `Sweep` of a `Step` that the module using them gives, with lemmas about both |
| `Syntax` | the tree and its printed forms (`exprToString`, `exprKey`), and what trees there are (`IsExpr`, `IsStatement`) | operators only |
| `Parser` | the recursive descent | one operator per grammar function, from a position to a tree and the next position |
| `Grammar` | how a tree is written as tokens, with few or all parentheses | operators only; the reference for `Parser` |
| `Calendar` | civil dates and intervals | operators only, with the day numbers of `daysFromCivil` |
| `Evaluation` | `evaluate` on every type, LIKE and SUBSTRING, lookup of a column by slot and name | operators only |
| `Meaning` | what SQL means by an expression | operators only; the reference for `Evaluation`, `Calendar` and folding: dates count one by one, a LIKE is a split of the text |
| `Planning` | binding, folding, validation, types, aggregate names, computed keys, schemas above the aggregation | passes over trees |
| `Statement` | a statement from its tokens to its rows | `ParseText`, `BindTree`, `Build`, `NextRow` |
| `ParserProofs` | | theorems about `Parser` and `Grammar`: the descent ends, and what it accepts is a tree |
| `StatementProofs` | | theorems about `Evaluation`, `Planning` and `Statement`: types are kept, and what is named is what is read |
| `Session` | the loop of `main` | parse, load, convert, plan, look up, execute, print, exit; `Rewrite` is another program changing a file |
| `EdgeProofs` | | theorems about the edges of the engine: `ColumnStore`, where files come in, and `Session`, where answers go out |
| `MC*` | small instances | values for the constants |

Variables carry the names of the members they stand for (`row_cursor_` is `row_cursor`). Formatting, logging and
layout are left out. A row is named by its position, a payload is dropped, a text is a model value or a member of a
small set. `Failings`, `Raises` and `Illegal` are sets that say where an operation raises: what it raises is not
modelled. Definitions marked *Wrong variant* are deliberate errors that stand before the definition they would
replace; each one breaks the property it was written for.

`VecPipeline` is composed with `ZoneMap` (EXTENDS) and implements `QueryStream` under the mapping
`qualifying <- Qualifying, result <- rows, status <- pc`. `VecJoin` implements the same abstract module, with a pair
of rows ranked by its place in the order of probe rows and build rows. `ColumnStore` establishes, as `ZonesExact`,
the assumption that `VecPipeline!Init` makes of its zone maps (`IsZone`), and as `ReadsBack` and `DecodeExact` that
a batch may be named by the rows of the table. `VecFilter` extends `Evaluator`, its reference. `Volcano` implements
`QueryStream` too, with a pair of rows ranked by its place in the probe order: one abstract module, three engines.
`Statement` composes `Parser`, `Planning` and `Evaluation` and holds them to `Grammar` and `Meaning`.

## Runs

| run | instance | question |
|---|---|---|
| `pipeline` | a WHERE family (2 columns, 0, 1 and NaN, 5 rows) and a LIMIT family (1 column, up to 5 rows, limits none and 0 to 3, with and without projection, failing rows); batches of 2, chunks of 4 | does pruning lose a row, does a limit keep the first rows, does it stop the scan, which errors may it show (`Complete`, `NoGap`, `NoDuplicate`, `ErrorBound`, `LimitStopsScan`), the refinement `Implements`, `Ends` |
| `column_store` | every column of up to 9 values of each type, chunks of 4 | `ReadsBack`, `ZonesExact`, `DecodeExact` |
| `vec_join` | 2 keys and NULL, up to 2 by 3 rows, batches and lanes of 2, both algorithms and sides | `JoinExact`, `InOrder`, `Implements`, `Ends` |
| `blocking` | up to 3 rows of two columns; GROUP BY of none, one or both; NULL and the string NULL; keys that print 1 and 11 beside arguments that print 10 and 110 | `GroupsExact`, `FirstSeenOrder`, `DistinctExact`, `SortedStable`, `Ends` |
| `blocking_null` | NULL and the string NULL reach Volcano's DISTINCT | violation of `DistinctExact` |
| `filter` | twelve predicates of one leaf or several, two chunks of 2 rows, INTs of 3 bits, the smallest INT as a value and under a NULL | `SameRows`, `SameErrors` |
| `join_query` | 4 relations, tables of up to 2 rows, qualified select list, every WHERE and ON of the instance, optimizer on and off | `RejectsInvalid`, `PlanExact`, `OrderExact`, `PushedDown` |
| `join_query_alias` | an unqualified select list | violation of `RejectsInvalid` |
| `session` | 2 queries of 5 texts, all flags, 2 changes of files | `Fresh`, `ExecutedOnce`, `ExitCode`, `Ends` |
| `volcano` | tables of up to 3 and 2 rows, a self join or two tables, row and columnar storage, either build side, limits, failing select lists | `ScansWhole`, `ErrorExact`, `Implements`, `Ends` |
| `statement` | 33,000 statements: trees of the expression grammar written with few and with all parentheses, token sequences made without a tree, dates at the ends of months, LIKE patterns, grouped statements over a table and a join; rows with NULL, 0 and the largest INT | `ParsedAsWritten`, `ComputesMeaning`, `WellTyped`, `ReadsWhatItNames` |
| `statement_names` | two aggregates whose arguments print alike | violation of `ReadsWhatItNamesAlways` |

### Bounds

The interesting events are meetings of boundaries, so each bound is the smallest that makes every pair of
boundaries meet and miss.

- Pipeline: chunks of two batches of two rows and tables of up to five rows give tables that end with a chunk, with
  a batch and inside one, and chunks pruned at the start and at the end. Limits of 0 to 3 fall before, inside, at the
  end of and beyond a batch. In the WHERE family the second column is constant throughout a chunk, so that the pruner
  may exclude a chunk by either column. The proofs lift all of these bounds.
- Column store: a run takes 16 bytes and a value 8, so 9 rows are the fewest for which a column of two runs is worth
  encoding; 9 rows are two full chunks of 4 and one short one.
- Joins: three build keys are one full group of lanes and a tail of one; three matches of one probe row are one full
  slice and a short one.
- Filter: three bits give every overflow there is at 64 bits: -4 has no negation and no quotient by -1, and is met by
  `Opposite` and `OverMinusOne` as a value, by every predicate as the data under a NULL. Two chunks, a long one
  before a short one and the reverse, are what a stale scratch column needs; rows outside the selection hold the cell
  that would do most harm.
- Volcano: three rows in chunks of two are a full chunk and a short one; two build rows with one key are a bucket
  that takes two calls to drain.
- Statement: expressions two operators deep are what precedence and associativity need, three deep for the bounds of
  BETWEEN. `Width` 16 and `LimitWidth` 8 make overflow reachable with literals that can be written. Rows hold NULLs,
  zeros, a fraction and the largest INT. The recursion of the parser has no bound of its own.
- Blocking operators: three rows are two groups with one repetition; batches of 2 make two slices. Written without
  their lengths, the rows (1, 110) and (11, 10) would both be `1110`, which two GROUP BY columns are needed to see.
- Join query: tables of up to two rows distinguish every pair of columns that share a name.
- Session: two queries are enough for a hit; `MaxRewrites` bounds the changes of another program.

### Fairness

The engine is one thread and no operation waits: the driver loop asks for the next chunk until it gets null. Weak
fairness of the next-state relation says only that the program keeps running. In `Session` the fairness is on `Main`
alone: nobody promises that a file changes. The properties of `VecFilter`, `JoinQuery` and `Statement` are invariants
and need none.

### Contracts between modules

- A column in a scan holds no NULL: the CSV loader either parses a field or rejects the file. `ColumnStore` and
  `VecPipeline` rely on that. `VecJoin` and `Blocking` admit NULL all the same, because the operators have code for
  it; in `VecJoin` it is the operator's own contract and no query of today reaches it.
- NULL does reach Volcano's DISTINCT, through a CASE or a division in the select list. The passing run `blocking`
  keeps NULL and the text `NULL` from meeting there (`StreamedKeys`), the run `blocking_null` lets them meet.
- `join_query` selects a qualified column, because an unqualified one meets the defect that `join_query_alias` shows.
- Estimates of selectivity and cost may be anything: `OrderByWork` takes any permutation and `VecJoin` any algorithm
  and build side.

## Findings

- `blocking_null`: Volcano's DISTINCT writes NULL as `NULL` into its key, so a row is lost beside one that holds the
  string. The vectorized DISTINCT has a marker and a comment that warns of the collision.
- `join_query_alias`: ORDER BY an alias binds a clone of an expression that is already bound. For an unqualified
  column of a table with an alias the binder has by then written the *table's* name into the reference, which the
  second binding rejects.
- `statement_names`: `extractAggregates` keeps one accumulator per printed name, and the DOUBLE 2.0 prints as `2`, so
  `MIN(x / 2)` and `MIN(x / 2.0)` are computed once, and the second column shows the first.

Divergences without a run of their own, met while modelling and reproduced with the program:

- The hash join compares keys by their printed text, `"%.15g"` (`common/value.cc:111`). Two DOUBLEs that differ only
  beyond the 15th digit, 0.3 and 0.1 + 0.2, are joined although `=` tells them apart. `JoinExactTheorem` therefore
  assumes `Faithful`, `vec_join` runs on INT keys, and the hazard is listed without a property.
- `SELECT x - 1, (x - 1.0) / 2 FROM t GROUP BY x - 1, x - 1.0`: both group keys print `(x - 1)`, and the second
  expression reads the INT column of the first. `Distinguishable` excludes it from `ReadsWhatItNames`.
- `SELECT s FROM t GROUP BY 's', s` answers the literal `s` for every group, and `GROUP BY s, 's'` answers the column:
  the key that is a text prints like the column, and computed columns have slot 0 by default (`common/schema.h:20`), so
  the lookup by slot and name cannot tell them apart. The proof of `ReadsWhatItNames` found it; `Distinguishable`
  excludes it.
- `SELECT d - (0.1 + 0.2) FROM t GROUP BY d - 0.3` is accepted and shows the key: the folded literal is not 0.3, but
  `literalKey` prints both alike (`"%.15g"`), against `parser/expr_utils.h:72`, which is about keys that must differ
  where values do. `KeysTellApart` below excludes it.
- `GROUP BY a.x ... HAVING b.x > 0` over a join is accepted: no check asks that HAVING and ORDER BY mention only what
  is grouped. The lookup by slot misses and falls back on the bare name, so `a.x` is read. `Grouped` excludes it.
- `ORDER BY 1 + 1` is folded to 2 and then taken for an ordinal (rejected when there is no such item), although
  `planner/binder.cc:111` says that folding cannot change results.
- `(s + 1) IS NULL` on a STRING column passes planning and raises on the first row; `execution/evaluator.cc:135` says
  that this error only guards trees built by hand in tests. `INTERVAL '1' DAY IS NULL` does the same, though
  `parser/ast.h:109` says that no interval survives planning. `LenientStatement` lists the shapes that do.
- `SUM(*)`, `MIN(*)` and `AVG(*)` are accepted and give NULL; the grammar at `README.md:232` has only `COUNT(*)`.
- `README.md:388` says that a cache hit touches no storage, but the
  lookup (`cli/main.cc:351`) comes after loading, conversion and planning; in `Session` the `Hit` action follows
  `LoadFrom`, `Convert` and `Plan`.
- Under a LIMIT the vectorized engine evaluates whole batches, so it may raise
  where Volcano answers; `README.md:106` documents this, `ErrorBound` says how far it goes, and `ErrorExact` that
  Volcano never does.

## Proofs

What TLC shows for the instances above, TLAPS proves for every value of the constants: tables, chunk, batch and lane
sizes, clauses, limits, queries, statements. Eight modules hold proofs. Each component has one inductive invariant,
`IInv` or a name of its own (`FilterInv`, `QueryInv`, `SessionInv`, `StatementInv`), a conjunction of named parts, with
a theorem `Invariance` (`FilterInvariance` and so on) from which the properties follow. Each of them was checked by
TLC on the instance of its run before it was proved.

| property | theorem | beyond the assumptions of the module |
|---|---|---|
| `Complete`, `NoGap`, `NoDuplicate`, `ErrorBound`, `LimitStopsScan`, `Implements` (pipeline) | `PipelineProofs` | nothing |
| `ReadsBack`, `ZonesExact`, `DecodeExact` | `EdgeProofs` | nothing |
| `InOrder` | `JoinProofs` | nothing |
| `JoinExact`, `Implements` (vectorized join) | `JoinProofs` | `Faithful` keys |
| `GroupsExact` | `BlockingProofs` | `TextsDiffer`: values of one column that differ print differently |
| `DistinctExact` | `BlockingProofs` | `TextExact`: values that meet and differ print differently |
| `FirstSeenOrder`, `SortedStable` | `BlockingProofs` | nothing |
| `SameRows`, `SameErrors` | `PipelineProofs` | nothing |
| `Fresh`, `ExecutedOnce`, `ExitCode` | `EdgeProofs` | nothing |
| `PlanExact`, `OrderExact`, `PushedDown` | `JoinProofs` | nothing |
| `RejectsInvalid` | `JoinProofs` | qualified select lists; without it, `RejectionTheorem` |
| `WellTyped` | `StatementProofs` | nothing |
| `ReadsWhatItNames` | `StatementProofs` | `KeysTellApart`: a part that prints like a computed group key is that key; nothing for statements without GROUP BY |
| `ScansWhole` | `VolcanoProofs` | nothing |
| `ErrorExact`, `Implements` (Volcano) | `VolcanoProofs` | `TextExact`: numbers that differ print differently |

The hypotheses in the third column are not there for convenience. Each one is a divergence seen from the other
side: the joins, the hash aggregate and DISTINCT compare printed texts, and the binder binds an alias twice. The runs
`blocking_null` and `join_query_alias` break the conclusion where the hypothesis fails.

`VecPipeline`, in `PipelineProofs` (assumptions: those of `ZoneMap` and `VecPipeline`, that values are integers or one NaN that is
none, sizes are positive naturals, limits naturals):

- `TypeCorrect`, `CompleteTheorem`, `NoGapTheorem`, `NoDuplicateTheorem`, `ErrorBoundTheorem`: the properties of the
  same name are invariants of `Spec`. `LimitStopsTheorem` is the action property, `Refinement` that every behaviour of
  `Spec` is one of `QueryStream`.
- The heart is that a chunk which `ShouldSkip` excludes holds no row that satisfies WHERE (`SkipSound`), by cases
  over the six comparisons and NaN. None of the properties is inductive: the invariant behind them (`Invariance`)
  says for every `pc` what stands in the buffers. Rows delivered, rows live in the buffer and rows still
  to be scanned split the qualifying rows at the cursor; `rows_emitted` is the number delivered, or delivered and
  live; and once the limit is met `pc` is only ever "deliver", "pull" or "done".

`ColumnStore`, in `EdgeProofs` (assumptions of `ZoneMap` and `ColumnStore`):

- `TypeCorrect`, `ReadsBackTheorem`, `ZonesExactTheorem`, `DecodeExactTheorem`. The invariant says that run starts are
  strictly ascending and contiguous, that the runs so far spell out the raw values so far, that the dictionary and its
  index are inverse, that `mn` and `mx` are a zone of the rows seen, and that `run_idx` is the run of the next row to
  decode. That a row is found by the *last* run which starts at or before it is the key lemma.

`VecJoin`, in `JoinProofs` (assumptions of `VecJoin`):

- `TypeCorrect`, `InOrderTheorem`, and `DeliversAlikeTheorem`: whatever the keys are, at the end the pairs are those
  of rows whose keys have one text (hash join) or are one value (loop join), neither NULL.
- `JoinExactTheorem` adds the assumption `Faithful`, that texts (for the hash join) and bits (for the loop join) tell
  apart exactly the keys that SQL's `=` tells apart, and concludes `JoinExact`. INTs, the keys of the run `vec_join`,
  are faithful; DOUBLEs in the hash join are not: the assumption is the first divergence above, seen from the other
  side.
- The invariant has four parts beside the types. `Built`: the rows already taken from the build child, and no others,
  stand in the bucket of their key's text, or in the arrays, in table order. `Probed`: the probe rows visited all come
  before the ones left in the chunk. `Compared`: a lane is in the mask or among the matches just when it has been
  compared and holds the key. `Output`: the pairs handed up, followed by those behind the cursor, are in order, and
  are the pairs of the visited rows. `JoinExact` speaks only of the end and `InOrder` only of what is already handed
  up, so neither is inductive without it.

- `Refinement`: for faithful keys a join implements `QueryStream`. A pair is ranked by its probe row, then its build
  row; the step lemma is that a slice of the buffer holds exactly the next ranks, and that the join answers null only
  when all have gone.

`BlockingProofs` (assumptions of `Blocking`; columns hold machine numbers, so there is a least one):

- `Invariance`. `Table`: the hash table has the text of every row read, each once, in the order of first rows.
  `Grouped`: the accumulator of a text sums up exactly the rows with that text. `Kept`: DISTINCT has kept the first
  rows. `Sorted`: a sort's buffer has the rows as they came, and then all of them in order, ties ascending. `Placed`: what
  materialization has put into the buffer. `Handed`: what was handed up is the buffer up to the cursor.
- Sums, minima and maxima are folds over the set of rows of a group, sorting is insertion by recursion. The lemmas
  about both are inductions on the size of a set, or on the length of a sequence, written as an argument about a least
  counterexample. The induction theorems of the library would do the same, but take an operator as parameter.
- `GroupsExactTheorem` speaks of GROUP BY lists of any length. Rows are told apart by one text for all columns, so it
  needs more than `TextsDiffer`: that the pieces of two different rows cannot add up to one text. A piece starts with
  its length, or the marker of a NULL, so of two different pieces neither is the front of the other (`EncodeApart`,
  from `PlainApart` and `MarkedApart`), and then lists of as many pieces that run together into one text are the same
  lists (`FlattenTells`, by cancelling the first pieces). `TextsTell` draws the conclusion for rows.
- That a NULL argument counts for `COUNT(*)` only, and that an empty group has NULL sums, is `SummaryExpected`;
  that the comparison of a sort is a strict weak order for any list of columns, with NULL smallest and DESC reversed,
  is what `SortedStable` needs besides stability.

`VecFilter`, in `PipelineProofs` (assumptions of `Evaluator` and `VecFilter`: an INT has two bits or more, NULL and an error are not
integers, a predicate is a list of nodes in post-order, `PredicateAssumption`, and a selection is ascending,
`ChunkAssumption`):

- `SameRowsTheorem`, `SameErrorsTheorem`. The invariant has these parts beside the types. `Answered`: every node at the
  top that lies behind the next node has selected the rows of its input on which the short-circuited predicate is true,
  and raises on none of them. `Columns`: every node of the leaf in hand that has run holds its value on each selected
  row, NULL where its mask says so, whatever the last chunk left there. `Failed` and `FinishedAt`: a failure has a row to
  blame, and a finished chunk is exact.
- `AnswerPreserves` and `KeepPreserves` carry the invariant over an answered node and over a kernel, so that what is
  left for each kernel is one row: it computes `NodeValue` (`ColumnStep` to `InSetStep`).
- The input of a node is fixed by the innermost AND over it. `InputOfSides` says that the operands of AND and OR at the
  top are given what the code gives them, `InputStable` that no later answer changes it. An error of a node is an error
  of its leaf (`ErrorInLeaf`), and one of a leaf, on a row it was given, is one of the predicate (`ErrorRises`): every
  AND between them has found its left operand true on that row.
- What a predicate means, where its nodes begin and how two selections merge are recursive functions. `Recursion` shows
  that a function exists whose values are determined by values of a smaller measure, by the choice of a least
  counterexample; `EvaluateFacts`, `ShapeFacts`, `ShortFacts` and `UnionFacts` are its instances.

`Session`, in `EdgeProofs` (assumptions of `Session`; "nothing yet" is neither an answer nor an exit code):

- `FreshTheorem`, `ExecutedOnceTheorem`, `ExitCodeTheorem`. `Loaded` says which tables have been read and that they
  hold what their files held unless rewritten since, `Position` ties `pc` to the index of the query, `Named` and
  `Cached` that an entry of the cache is the answer of the query it is filed under and the first output of its text,
  `Turned` what holds on each path after planning.

`JoinQuery`, in `JoinProofs` (assumptions of `JoinQuery`: `RelationAssumption` and `StatementAssumption` say that relations,
references and conjuncts are what a catalog and a parser make):

- `PlanExactTheorem`, `OrderExactTheorem`, `PushedDownTheorem`. `BoundSoFar` says that what has been bound is the
  resolution of what was typed, `Pushed` that the conjuncts visited stand where `Classify` puts them, re-stamped or
  not, in some order. `PlanExact` then rests on four lemmas: a re-stamped conjunct reads in its scan what it means
  (`HoldsBelow`), a conjunct about both sides reads it in the merged schema (`HoldsAbove`), the narrowed scans keep
  every column that is looked up above (`NothingMissing`), and a hint that names the other side prunes nothing
  (`SkipsSoundly`).
- `RejectionTheorem` has no hypothesis: only valid statements are planned, and a valid one is rejected in one case
  only, an ORDER BY of an alias whose column is unqualified. `RejectsInvalidTheorem` is its corollary.

`VolcanoProofs` (assumptions of `Volcano`; every conjunct of WHERE is a finite set of disjuncts):

- `ScansWholeTheorem`, `ErrorExactTheorem`, `Refinement`. `Handed` says which scan has the table and which may still
  take it, `Hashed` that the buckets have the build rows read so far, in order, but for some that cannot pass WHERE,
  `Current` what the probe row and the place in its bucket stand for, and `Flow` that the rows handed up, the row in hand and the rows to come are, in order, the answer.
  Pruning rests on `SkipSound` again, stated there as a lemma.

`ParserProofs` and `StatementProofs`, over the lemmas of `TreeFold` (assumptions of `Statement`: `TablesAssumption`, `TextsAssumption` and
`StatementsAssumption` say that rows have the types of their columns, that tokens are tokens and statements trees):

- Walks over trees are no recursive operators but a choice: `Fold` is the function that solves the equation of its
  `Step` on the subtrees of a tree. `FoldStep` proves that there is one, so that every walk of the code, instantiated,
  satisfies its own recursive definition; `TreeInduction` is induction over trees, `SweepRounds` the same for loops
  over lists. These are facts about the modelling and say nothing of the program: they are lemmas. All three take the
  well-ordering of the naturals (`WellOrdered`) as a hypothesis, which `LeastNat` of `ParserProofs` proves: every
  instance of `TreeFold` repeats its lemmas, and would repeat the library's theory of well-founded relations with
  them, which makes the prover several times slower. The recursion of the parser is a function on rules and
  positions. `ParserAdvances` shows that it is well-founded: a rule calls rules further on in the text, or lower ones
  (`CellRank`), and each either ends in an error or has read a token. `ParserTrees` says that whatever is accepted is
  a statement in the sense of `IsStatement`.
- `SoundExpr`: on any tree, evaluation and typing agree (`EvaluateGood` is the step, one case per kind of node). If
  `InferExprType` gave a type, then on every row the value has it, or is NULL, or is an INT where a CASE promotes, or is
  an error that arithmetic or SUBSTRING may raise, or one of `Lenient`. A tree that planning rejects may still be
  evaluated (under IS NULL); of that `Anything` says that it is a value or an error all the same.
- `StatementInvariance`, by the stages. A parsed statement has only nodes of the parser (`ParserTrees`). Binding puts
  into each reference a slot whose table has the column, or leaves it for `BindFails` to find (`BindClauses`); folding
  keeps that, and never turns a node into one that is not well-formed (`FoldClauses`). So a planned statement is
  `Resolved`: its columns are in the narrowed schema of the scan, because `BuildScanSchema` keeps what any
  clause mentions. `OutcomeTyped` adds the checks of `WellTypedPlan`, and `WellTypedInvariance` concludes `WellTyped`.
- `NamesInvariance` is `ReadsWhatItNames`. `AggregateColumns` describes the schema above an aggregation: each column
  holds a column of a table, with its name and slot, or what is computed under its name (`Distinguishable` says that
  there is only one such thing), and every key and every aggregate that the rewritten statement mentions has a column.
  `GroupedReads` is the induction over a tree in SELECT, HAVING or ORDER BY. Its premise
  is `CheckGroupedRefs`, which the code asks of SELECT only; hence the hypothesis `Grouped` of the property. A grouped
  column has the slot of its key, because both are settled (`GroupedColumn`); an aggregate is found by its name
  (`LookUp`); a part equal to a key has become a reference to the key's column; any other part is rebuilt from its
  children.
- The hypothesis `KeysTellApart(bound)` says that a part of an expression with the `exprKey` of a computed group key is
  the same expression. It holds in every state of the run `statement`. It cannot be proved: for the provers, as for
  TLA+, a string has no characters, and with the `%.15g` of the code it is false (see Divergences). Without computed
  keys it says nothing, and `UngroupedInvariance` needs neither it nor `Distinguishable`: without groups, every
  reference reads the column of the table it was bound to, on either side of a join.
- `WellTyped` alone is not inductive: it speaks of the rows so far and says nothing of the plan that the next row is
  evaluated by.

Only model-checked:

- termination (`Ends` in five runs), because liveness needs ENABLED and is out of the prover's reach;
- `ParsedAsWritten` and `ComputesMeaning`: that the parser inverts the writing of trees, and that LIKE, SUBSTRING and
  the calendar compute what SQL means, are inductions over texts, patterns and dates at once, with arithmetic (division
  by 400 years) that the SMT solver does not decide;
- `KeysTellApart`, the hypothesis under which `ReadsWhatItNames` is proved: that two keys differ when two expressions
  do is a fact about strings of characters, which the provers treat as opaque.

The run `statement` checks `ParsedAsWritten`, `ComputesMeaning` and the conclusion of `NamesInvariance`, without the
hypothesis, over families of statements instead.

## Not modelled

- The lexer: characters to tokens. A token is a record of its type and what it carries.
- Cardinality estimation and cost model: arithmetic on doubles whose results only order conjuncts and choose
  algorithms, both left free. Statistics are taken once per process, though rows are read again for each query; that
  too only moves estimates.
- Rounding, infinities and the printing of DOUBLEs beyond what the names of columns show: in `Statement` a DOUBLE is
  an exact fraction, in `ZoneMap` a number or NaN. SUM and AVG are exact in `Blocking`.
- NaN as a sort key: the comparison is no weak order then, and what the library's sort does is undefined.
- A conjunct that raises on rows which the join would have dropped (`planner/predicate_pushdown.cc:192`): `JoinQuery`
  evaluates no arithmetic.
- Kernels for DOUBLE, string lists, LIKE, SUBSTRING and casts.
- Printing: EXPLAIN, timing, storage statistics, the table of results.
- Benchmarks, Python tools.

## Plan

Done, in this order: `ZoneMap`, `QueryStream`, `VecPipeline` with proofs, `ColumnStore` with proofs, `VecJoin`
with proofs, `Session`, `Evaluator`, `VecFilter`, `Blocking`, `JoinQuery`, `Volcano`, and the front end: `Syntax`,
`Parser`, `Grammar`, `Calendar`, `Evaluation`, `Meaning`, `Planning`, `Statement`; then the proofs of `Session`,
`Volcano`, `JoinQuery`, `Blocking` and `VecFilter`, the refinement of `QueryStream` by all three engines, and the
proofs of `Parser` and `Statement`, last that of `ReadsWhatItNames`.

To extend the model: a join query whose conjuncts may raise, and the choice of the join's algorithm and build side.

To prove more: `ParsedAsWritten` by induction over trees and their precedence.
