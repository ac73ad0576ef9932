------------------------------- MODULE Session -------------------------------
(***************************************************************************)
(* One run of the swiftql program: main answers the --query arguments one  *)
(* after the other.  Every query is parsed, its tables are read from their *)
(* files, statistics are taken the first time a table is seen, a plan is   *)
(* made, and only then the result cache is asked; a miss executes, stores  *)
(* and prints.  Any error ends the process.                                *)
(*                                                                         *)
(* The CSV files belong to somebody else, who may rewrite or remove them   *)
(* while the program runs.  A table is its content, a query is its text,   *)
(* and an answer is named by the text and the contents it was computed     *)
(* from.                                                                   *)
(***************************************************************************)
EXTENDS Naturals, Sequences

CONSTANTS
    Query,      \* query texts
    Table,
    Content,    \* what a file may hold
    Missing,    \* no such file, or one that CSVLoader rejects
    None,       \* nothing yet
    TablesOf,   \* TablesOf[q] is <<FROM table>> or <<FROM table, JOIN table>>
    Illegal,    \* the texts that the parser or the binder rejects
    Unplannable, \* the texts that the validator or the planner rejects
    Raises,     \* Raises[q]: contents of FROM on which executing q raises
    MaxQueries, \* bound on the number of --query arguments
    MaxRewrites \* bound on the changes to the files

ASSUME TablesAssumption ==
    \A q \in Query : TablesOf[q] \in Seq(Table) /\ Len(TablesOf[q]) \in {1, 2}
ASSUME ContentAssumption == {Missing, None} \cap Content = {} /\ Missing # None
ASSUME IllegalAssumption ==
    Illegal \subseteq Query /\ Unplannable \subseteq Query /\ \A q \in Query : Raises[q] \subseteq Content
ASSUME BoundAssumption == MaxQueries \in Nat /\ MaxRewrites \in Nat

(* A text and the contents of its tables.                                  *)
Answers == [query : Query, rows : UNION {[1 .. n -> Content] : n \in {1, 2}}]

(* "Nothing yet" is neither an answer nor an exit code.                    *)
ASSUME NoneAssumption == None \notin Answers /\ None \notin Nat

VARIABLES
    files, rewritten, rewrites,  \* the files; the tables ever changed; how often
    queries, args,               \* the command line
    current,                     \* index of the query in hand
    pc,
    table_rows,                  \* the contents read for this query
    stats,                       \* Catalog: the content each table's statistics saw
    result_cache,                \* answers by query text
    printed,                     \* what has been printed, in order
    exit                         \* the exit code, or None

environment == <<files, rewritten, rewrites>>
command == <<queries, args>>
sessionVars ==
    <<environment, command, current, pc, table_rows, stats, result_cache, printed, exit>>

-----------------------------------------------------------------------------
Args == [columnar : BOOLEAN, vectorized : BOOLEAN, explain : BOOLEAN,
         explain_analyze : BOOLEAN, no_cache : BOOLEAN, storage_stats : BOOLEAN]

text == queries[current]

Tables(q) == {TablesOf[q][n] : n \in 1 .. Len(TablesOf[q])}

(* The answer to a query over the contents at hand.                        *)
Answer(q, rows) == [query |-> q, rows |-> [n \in 1 .. Len(TablesOf[q]) |-> rows[TablesOf[q][n]]]]

(* The cache is consulted and filled unless the flags forbid it.  Storage, *)
(* execution and no_optimize are part of the key but cannot change between *)
(* the queries of one process, so the text alone tells entries apart.      *)
CacheOn == ~ args.no_cache /\ ~ args.explain_analyze

SessionInit ==
           /\ files \in [Table -> Content] /\ rewritten = {} /\ rewrites = 0
           /\ \E n \in 1 .. MaxQueries : queries \in [1 .. n -> Query]
           /\ args \in Args
           /\ current = 1 /\ pc = "parse"
           /\ table_rows = [t \in Table |-> None]
           /\ stats = [t \in Table |-> None]
           /\ result_cache = [q \in Query |-> None]
           /\ printed = << >> /\ exit = None

(* Somebody replaces or removes a file.                                    *)
Rewrite ==
    /\ rewrites < MaxRewrites /\ exit = None
    /\ \E t \in Table, c \in Content \cup {Missing} :
        /\ files[t] # c
        /\ files' = [files EXCEPT ![t] = c]
        /\ rewritten' = rewritten \cup {t}
    /\ rewrites' = rewrites + 1
    /\ UNCHANGED <<command, current, pc, table_rows, stats, result_cache, printed, exit>>

-----------------------------------------------------------------------------
(* The loop body of main.                                                  *)

(* The exception handler: report, exit code 1.                             *)
Raise == exit' = 1 /\ pc' = "exited"

(* `continue`: the next query, with the tables of this one out of scope.   *)
NextQuery ==
    /\ IF current < Len(queries)
       THEN current' = current + 1 /\ pc' = "parse" /\ exit' = exit
       ELSE current' = current /\ pc' = "exited" /\ exit' = 0
    /\ table_rows' = [t \in Table |-> None]

Parse ==
    /\ pc = "parse" /\ text \notin Illegal
    /\ pc' = "load_from"
    /\ UNCHANGED <<environment, command, current, table_rows, stats, result_cache, printed, exit>>

ParseError ==
    /\ pc = "parse" /\ text \in Illegal
    /\ Raise
    /\ UNCHANGED <<environment, command, current, table_rows, stats, result_cache, printed>>

(* Read one table; take its statistics unless an earlier query has.        *)
Load(t) ==
    /\ files[t] # Missing
    /\ table_rows' = [table_rows EXCEPT ![t] = files[t]]
    /\ stats' = IF stats[t] = None THEN [stats EXCEPT ![t] = files[t]] ELSE stats

LoadFrom ==
    /\ pc = "load_from"
    /\ Load(TablesOf[text][1])
    /\ pc' = IF Len(TablesOf[text]) = 2 THEN "load_join" ELSE "convert"
    /\ UNCHANGED <<environment, command, current, result_cache, printed, exit>>

LoadJoin ==
    /\ pc = "load_join"
    /\ Load(TablesOf[text][2])
    /\ pc' = "convert"
    /\ UNCHANGED <<environment, command, current, result_cache, printed, exit>>

LoadError ==
    /\ pc \in {"load_from", "load_join"}
    /\ files[TablesOf[text][IF pc = "load_from" THEN 1 ELSE 2]] = Missing
    /\ Raise
    /\ UNCHANGED <<environment, command, current, table_rows, stats, result_cache, printed>>

(* Columnar conversion; --storage-stats prints the sizes and exits here.   *)
Convert ==
    /\ pc = "convert" /\ ~ (args.columnar /\ args.storage_stats)
    /\ pc' = "plan"
    /\ UNCHANGED <<environment, command, current, table_rows, stats, result_cache, printed, exit>>

PrintSizes ==
    /\ pc = "convert" /\ args.columnar /\ args.storage_stats
    /\ printed' = Append(printed, [kind |-> "sizes", answer |-> Answer(text, table_rows)])
    /\ exit' = 0 /\ pc' = "exited"
    /\ UNCHANGED <<environment, command, current, table_rows, stats, result_cache>>

(* Vectorized execution is refused over row storage.                       *)
Refuse ==
    /\ pc = "plan" /\ args.vectorized /\ ~ args.columnar
    /\ exit' = 1 /\ pc' = "exited"
    /\ UNCHANGED <<environment, command, current, table_rows, stats, result_cache, printed>>

(* Wrong variant: the cache is filled but never asked.                     *)
PlanMiss ==
    /\ pc = "plan" /\ (args.vectorized => args.columnar) /\ text \notin Unplannable
    /\ pc' = IF args.explain THEN "explain" ELSE "execute"
    /\ UNCHANGED <<environment, command, current, table_rows, stats, result_cache, printed, exit>>

(* Logical plan, optimizer and lowering, or the Volcano planner.           *)
Plan ==
    /\ pc = "plan" /\ (args.vectorized => args.columnar) /\ text \notin Unplannable
    /\ pc' = IF args.explain THEN "explain"
             ELSE IF CacheOn /\ result_cache[text] # None THEN "hit" ELSE "execute"
    /\ UNCHANGED <<environment, command, current, table_rows, stats, result_cache, printed, exit>>

(* Wrong variant: the bad query is passed over.                            *)
PlanErrorSkips ==
    /\ pc = "plan" /\ (args.vectorized => args.columnar) /\ text \in Unplannable
    /\ NextQuery
    /\ UNCHANGED <<environment, command, stats, result_cache, printed>>

PlanError ==
    /\ pc = "plan" /\ (args.vectorized => args.columnar) /\ text \in Unplannable
    /\ Raise
    /\ UNCHANGED <<environment, command, current, table_rows, stats, result_cache, printed>>

(* --explain prints the plan and goes on to the next query.                *)
Explain ==
    /\ pc = "explain"
    /\ printed' = Append(printed, [kind |-> "plan", answer |-> Answer(text, table_rows)])
    /\ NextQuery
    /\ UNCHANGED <<environment, command, stats, result_cache>>

(* Wrong variant: a hit prints nothing new and the loop does not move on.  *)
HitStays ==
    /\ pc = "hit"
    /\ pc' = "parse"
    /\ table_rows' = [t \in Table |-> None]
    /\ UNCHANGED <<environment, command, current, stats, result_cache, printed, exit>>

Hit ==
    /\ pc = "hit"
    /\ printed' = Append(printed, [kind |-> "hit", answer |-> result_cache[text]])
    /\ NextQuery
    /\ UNCHANGED <<environment, command, stats, result_cache>>

ExecuteError ==
    /\ pc = "execute"
    /\ table_rows[TablesOf[text][1]] \in Raises[text]
    /\ Raise
    /\ UNCHANGED <<environment, command, current, table_rows, stats, result_cache, printed>>

(* Wrong variant: the answer is stored for every text that reads the same  *)
(* tables.                                                                 *)
ExecuteByTables ==
    /\ pc = "execute" /\ ~ args.explain_analyze
    /\ table_rows[TablesOf[text][1]] \notin Raises[text]
    /\ LET answer == Answer(text, table_rows)
       IN  /\ result_cache' = IF args.no_cache THEN result_cache
                              ELSE [q \in Query |-> IF TablesOf[q] = TablesOf[text] THEN answer
                                                    ELSE result_cache[q]]
           /\ printed' = Append(printed, [kind |-> "rows", answer |-> answer])
    /\ NextQuery
    /\ UNCHANGED <<environment, command, stats>>

(* Drain the plan, store the rows unless --no-cache, print them.           *)
Execute ==
    /\ pc = "execute" /\ ~ args.explain_analyze
    /\ table_rows[TablesOf[text][1]] \notin Raises[text]
    /\ LET answer == Answer(text, table_rows)
       IN  /\ result_cache' = IF args.no_cache THEN result_cache
                              ELSE [result_cache EXCEPT ![text] = answer]
           /\ printed' = Append(printed, [kind |-> "rows", answer |-> answer])
    /\ NextQuery
    /\ UNCHANGED <<environment, command, stats>>

(* --explain-analyze executes, prints the counters and stores nothing.     *)
Analyze ==
    /\ pc = "execute" /\ args.explain_analyze
    /\ table_rows[TablesOf[text][1]] \notin Raises[text]
    /\ printed' = Append(printed, [kind |-> "analyze", answer |-> Answer(text, table_rows)])
    /\ NextQuery
    /\ UNCHANGED <<environment, command, stats, result_cache>>

Exited == pc = "exited" /\ UNCHANGED sessionVars

Main ==
    \/ Parse \/ ParseError
    \/ LoadFrom \/ LoadJoin \/ LoadError
    \/ Convert \/ PrintSizes
    \/ Plan \/ PlanError \/ Refuse
    \/ Explain \/ Hit
    \/ Execute \/ ExecuteError \/ Analyze
    \/ Exited

SessionNext == Main \/ Rewrite

(* The program is one thread that is never blocked; nobody promises that   *)
(* the files change.                                                       *)
SessionSpec == SessionInit /\ [][SessionNext]_sessionVars /\ WF_sessionVars(Main)

-----------------------------------------------------------------------------
(* Properties.                                                             *)

Rows(n) == printed[n].kind \in {"rows", "hit", "analyze"}

(* The cache is invisible as long as nobody changes a file: the nth output *)
(* is the nth query's own answer over the tables as they are, whether it   *)
(* was executed or found in the cache.                                     *)
Fresh ==
    \A n \in 1 .. Len(printed) :
        Rows(n) /\ Tables(queries[n]) \cap rewritten = {} => printed[n].answer = Answer(queries[n], files)

(* The same text is executed once: every later occurrence repeats the      *)
(* first output, even if the files have changed since (nothing invalidates *)
(* the cache), and without the cache none is a hit.                        *)
ExecutedOnce ==
    \A m, n \in 1 .. Len(printed) :
        /\ m < n /\ queries[m] = queries[n] /\ printed[m].kind = "rows" /\ ~ args.no_cache
           => printed[n].kind = "hit" /\ printed[n].answer = printed[m].answer
        /\ printed[n].kind = "hit"
           => CacheOn /\ \E k \in 1 .. n - 1 : printed[k] = [printed[n] EXCEPT !.kind = "rows"]

(* Exit code 0 means every query has had its output, in order, except      *)
(* under --storage-stats, which stops after the first; exit code 1 means   *)
(* that exactly the queries before the failing one have.                   *)
ExitCode ==
    /\ exit = 0 => Len(printed) = Len(queries) \/ (args.storage_stats /\ Len(printed) = 1)
    /\ exit = 1 => Len(printed) = current - 1
    /\ \A n \in 1 .. Len(printed) : printed[n].answer.query = queries[n]

(* Every command line is answered to its end or to its first error.        *)
Ends == <>(exit # None)
=============================================================================
