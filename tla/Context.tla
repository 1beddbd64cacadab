------------------------------- MODULE Context -------------------------------
(***************************************************************************)
(* The context of a run: the aggregator hashes and ranks the files of the  *)
(* repository and writes summary.json and file_hashes.json; the command    *)
(* context summarize has every file of summary.json summarised, chunk by   *)
(* chunk, keeps the summary of each chunk in a file of its own, and writes *)
(* summary.json back.  Nothing but the last section of each takes the      *)
(* lock, and the content of the repository may change at any time.         *)
(*                                                                         *)
(* The content of a file is its version, which is its hash too; version 0  *)
(* is a file that is not there.                                            *)
(***************************************************************************)
EXTENDS RunDirectory

LOCAL INSTANCE SequencesExt
LOCAL INSTANCE FiniteSetsExt

CONSTANTS
    MaxContent      \* bound on the versions of each file

ASSUME ContextAssumption ==
    /\ MaxContent \in Nat \ {0}
    /\ \A e \in Environment :
        /\ IsFiniteSet(DOMAIN e.chunks) /\ \A f \in DOMAIN e.chunks : e.chunks[f] \in Nat
        /\ e.limits \subseteq Nat \ {0}

VARIABLES
    disk,           \* the version of each file of the repository
    summary,        \* context/summary.json
    hashes,         \* context/file_hashes.json
    cache,          \* context/docs: one entry per path, hash and index of the chunk
    worker          \* what each process is doing

contextVars == <<disk, summary, hashes, cache, worker>>

File == DOMAIN env.chunks
Content == 0..MaxContent
Absent == [f \in File |-> 0]
TornEntry == 0  \* the content of a summary that does not parse
NoSummary == [state |-> "none", files |-> Absent, summaries |-> {}]
Standing == [at |-> "idle", first |-> Absent, files |-> Absent, todo |-> <<>>, limit |-> 0,
             content |-> 0, index |-> 0, summaries |-> {}]
-----------------------------------------------------------------------------
(***************************************************************************)
(* rankAndBudgetFiles: a file is [id, depth, kinds, age, size], the age in *)
(* days since its last commit.  Scores are in units of 1/9000.             *)
(***************************************************************************)
\* scoreByFileType: the first of these that its path and name show, in tenths.
TypeScore(kinds) ==
    CASE "readme" \in kinds -> 10
      [] "readme" \notin kinds /\ "built" \in kinds -> 2
      [] kinds \cap {"readme", "built"} = {} /\ "doc" \in kinds -> 8
      [] kinds \cap {"readme", "built", "doc"} = {} /\ "code" \in kinds -> IF "test" \in kinds THEN 4 ELSE 6
      [] kinds = {"test"} -> 4
      [] OTHER -> 5

\* scoreBySize, in units of 1/900.
SizeScore(size) ==
    CASE size < 1024 -> (900 * size) \div 1024
      [] size \in 1024..(100 * 1024) -> 900
      [] OTHER -> Max({0, 900 - (size - 100 * 1024) \div 1024})

\* calculateCompositeScore: a commit in the future may add more than its share.
Score(c) ==
    LET sum == 540 * Max({0, 5 - c.depth}) + 15 * Max({0, 180 - c.age})
                + 270 * TypeScore(c.kinds) + SizeScore(c.size)
    IN  Min({9000, sum})

\* estimateTokens
TokensOf(c) == (c.size + 3) \div 4

Ranked(candidates, maxFiles) ==
    LET sorted == SortSeq(candidates, LAMBDA a, b : Score(a) > Score(b))
    IN  IF maxFiles = 0 THEN sorted ELSE SubSeq(sorted, 1, Min({maxFiles, Len(sorted)}))

Tokens(list) == FoldLeft(LAMBDA n, c : n + TokensOf(c), 0, list)

\* Mutant: the first file that does not fit ends the list.
IncludedUntilFull(candidates, budget, maxFiles) ==
    LET ranked == Ranked(candidates, maxFiles)
    IN  SubSeq(ranked, 1, Max({k \in 0..Len(ranked) : Tokens(SubSeq(ranked, 1, k)) <= budget}))

\* A file that does not fit is left out, and smaller ones after it may still come in.
Included(candidates, budget, maxFiles) ==
    FoldLeft(LAMBDA list, c : IF Tokens(list) + TokensOf(c) <= budget THEN Append(list, c) ELSE list,
             <<>>, Ranked(candidates, maxFiles))

(***************************************************************************)
(* chunkFile: the lines, as [size, blank], cut into chunks of at most max  *)
(* characters; a new chunk repeats the last lines, back of them, and takes *)
(* the line that did not fit.  Lines that repeat nothing lose their end.   *)
(***************************************************************************)
LinesSize(lines, from, to) == FoldLeft(LAMBDA n, l : n + l.size, 0, SubSeq(lines, from, to))

Opened(lines, i, back) ==
    LET from == Max({1, i - back})
    IN  [from |-> from, to |-> i,
         size |-> IF from < i THEN LinesSize(lines, from, i)
                  ELSE lines[i].size - (IF i < Len(lines) THEN 1 ELSE 0)]

LineChunks(lines, max, back) ==
    LET cut[i \in 0..Len(lines)] ==
            IF i = 0 THEN [done |-> <<>>, open |-> [from |-> 1, to |-> 0, size |-> 0]]
            ELSE LET c == cut[i - 1]
                 IN  IF c.open.size > 0 /\ c.open.size + lines[i].size > max
                     THEN [done |-> Append(c.done, c.open), open |-> Opened(lines, i, back)]
                     ELSE [c EXCEPT !.open.to = i, !.open.size = @ + lines[i].size]
        last == cut[Len(lines)]
        blank == \A i \in last.open.from..last.open.to : lines[i].blank
    IN  IF blank THEN last.done ELSE Append(last.done, last.open)

\* chunkByFixedWidth, for a text of one line.
FixedChunks(size, max) ==
    [k \in 1..((size + max - 1) \div max) |->
        [from |-> 1, to |-> 1, size |-> Min({max, size - (k - 1) * max})]]

ChunksOf(lines, max, back) ==
    IF \A i \in DOMAIN lines : lines[i].blank THEN <<>>
    ELSE IF Len(lines) = 1 /\ lines[1].size > max THEN FixedChunks(lines[1].size, max)
    ELSE LineChunks(lines, max, back)
-----------------------------------------------------------------------------
ContextInit ==
    /\ disk = IF env.part = "context" THEN [f \in File |-> 1] ELSE Absent
    /\ summary = NoSummary
    /\ hashes = [state |-> "none", files |-> Absent]
    /\ cache = {}
    /\ worker = [p \in Process |-> Standing]

MayWork(p) ==
    /\ worker[p].at = "idle"
    /\ "overlap" \in env.events \/ \A q \in Process : worker[q].at = "idle"

Stands(p) == worker' = [worker EXCEPT ![p] = Standing]
-----------------------------------------------------------------------------
(***************************************************************************)
(* aggregateContext.  The files are hashed twice: for file_hashes.json and *)
(* for summary.json.                                                       *)
(***************************************************************************)
BeginAggregation(p) ==
    /\ MayWork(p)
    /\ worker' = [worker EXCEPT ![p].at = "hash"]
    /\ UNCHANGED <<disk, summary, hashes, cache, lock>>

\* Mutant: a file that file_hashes.json knows is not hashed again.
HashOnce(p) ==
    /\ worker[p].at = "hash"
    /\ worker' = [worker EXCEPT ![p].at = "collect",
            ![p].first = [f \in File |-> IF hashes.state = "ok" /\ hashes.files[f] > 0
                                         THEN hashes.files[f] ELSE disk[f]]]
    /\ UNCHANGED <<disk, summary, hashes, cache, lock>>

\* hashDiscoveredFiles: every file, whatever loadPreviousHashes found.
HashFiles(p) ==
    /\ worker[p].at = "hash"
    /\ worker' = [worker EXCEPT ![p].at = "collect", ![p].first = disk]
    /\ UNCHANGED <<disk, summary, hashes, cache, lock>>

\* rankAndBudgetFiles, of the files that are there.
Budgeted ==
    LET found == SetToSeq({f \in File : disk[f] > 0})
        candidates == [i \in DOMAIN found |->
                        [id |-> found[i], depth |-> 0, kinds |-> {"code"}, age |-> 0, size |-> 4 * env.chunks[found[i]]]]
        included == Included(candidates, env.budget, 0)
    IN  {included[i].id : i \in DOMAIN included}

\* collectFileMetadata, buildContextDocument
CollectMetadata(p) ==
    /\ worker[p].at = "collect"
    /\ worker' = [worker EXCEPT ![p].at = "store",
                                ![p].files = [f \in File |-> IF f \in Budgeted THEN disk[f] ELSE 0]]
    /\ UNCHANGED <<disk, summary, hashes, cache, lock>>

\* persistContextArtifacts: summary.json without summaries, then file_hashes.json.
WriteContext(p) ==
    /\ worker[p].at = "store"
    /\ Acquire(p)
    /\ summary' = [state |-> "ok", files |-> worker[p].files, summaries |-> {}]
    /\ worker' = [worker EXCEPT ![p].at = "hashes"]
    /\ UNCHANGED <<disk, hashes, cache>>

WriteHashes(p) ==
    /\ worker[p].at = "hashes"
    /\ Release(p)
    /\ hashes' = [state |-> "ok", files |-> worker[p].first]
    /\ Stands(p)
    /\ UNCHANGED <<disk, summary, cache>>
-----------------------------------------------------------------------------
(***************************************************************************)
(* context summarize.  With patterns, the files that match are summarised  *)
(* anew first, and then all of them from what is kept, in any order.       *)
(***************************************************************************)
Orders(files) == {order \in [1..Cardinality(files) -> files] : \A f \in files : \E i \in DOMAIN order : order[i] = f}
Pass(order, force, keep) == [i \in DOMAIN order |-> [file |-> order[i], force |-> force, keep |-> keep]]

BeginSummarize(p, limit, force, patterns) ==
    LET documented == {f \in File : summary.files[f] > 0}
    IN  /\ MayWork(p)
        /\ summary.state = "ok"
        /\ "anytime" \in env.events \/ \A f \in File : summary.files[f] \in {0, disk[f]}
        /\ \E chosen \in Orders(documented \cap patterns), all \in Orders(documented) :
            worker' = [worker EXCEPT ![p] =
                [Standing EXCEPT !.at = "file", !.files = summary.files, !.limit = limit,
                    !.todo = IF patterns # {} /\ ~force THEN Pass(chosen, TRUE, FALSE) \o Pass(all, FALSE, TRUE)
                             ELSE Pass(all, force, TRUE)]]
        /\ UNCHANGED <<disk, summary, hashes, cache, lock>>

\* readFile; one that is gone is skipped with a warning.
ReadFile(p) ==
    LET w == worker[p]
    IN  /\ w.at = "file"
        /\ worker' = [worker EXCEPT ![p] =
                CASE w.todo = <<>> -> [w EXCEPT !.at = "persist"]
                  [] w.todo # <<>> /\ disk[Head(w.todo).file] = 0 -> [w EXCEPT !.todo = Tail(@)]
                  [] OTHER -> [w EXCEPT !.at = "chunk", !.content = disk[Head(w.todo).file],
                                        !.index = 1]]
        /\ UNCHANGED <<disk, summary, hashes, cache, lock>>

\* A file of at most limit parts is one chunk.
ChunkCount(file, limit) == (env.chunks[file] + limit - 1) \div limit

Summary(w, of) == [file |-> Head(w.todo).file, index |-> w.index, of |-> of, limit |-> w.limit]
Kept(w, summaries, s) == IF Head(w.todo).keep THEN summaries \cup {s} ELSE summaries

Next1(w) ==
    IF w.index < ChunkCount(Head(w.todo).file, w.limit)
    THEN [w EXCEPT !.at = "chunk", !.index = @ + 1]
    ELSE [w EXCEPT !.at = "file", !.todo = Tail(@), !.content = 0, !.index = 0]

\* generateChunkId: the size of the chunks is no part of it.
CachedAt(w) == {e \in cache : /\ e.file = Head(w.todo).file /\ e.index = w.index
                           /\ e.hash = w.files[Head(w.todo).file]}

\* loadCachedChunk, then the client is called unless there is a summary.
LookUp(p) ==
    LET w == worker[p]
        hits == {e \in CachedAt(w) : e.of # TornEntry}
    IN  /\ w.at = "chunk"
        /\ IF ~Head(w.todo).force /\ hits # {}
           THEN LET e == CHOOSE e \in hits : TRUE
                    s == [Summary(w, e.of) EXCEPT !.limit = e.limit]
                IN  worker' = [worker EXCEPT ![p] = [Next1(w) EXCEPT !.summaries = Kept(w, @, s)]]
           ELSE worker' = [worker EXCEPT ![p].at = "call"]
        /\ UNCHANGED <<disk, summary, hashes, cache, lock>>

Written(w, of) == [file |-> Head(w.todo).file, hash |-> w.files[Head(w.todo).file],
                   index |-> w.index, of |-> of, limit |-> w.limit]

\* The client answers, and the summary is kept, without the lock.
Answer(p) ==
    LET w == worker[p]
    IN  /\ w.at = "call"
        /\ cache' = (cache \ CachedAt(w)) \cup {Written(w, w.content)}
        /\ worker' = [worker EXCEPT ![p] =
                        [Next1(w) EXCEPT !.summaries = Kept(w, @, Summary(w, w.content))]]
        /\ UNCHANGED <<disk, summary, hashes, lock>>

\* The client throws: a warning, and the chunk has no summary.
Fail(p) ==
    /\ "failure" \in env.events
    /\ worker[p].at = "call"
    /\ worker' = [worker EXCEPT ![p] = Next1(worker[p])]
    /\ UNCHANGED <<disk, summary, hashes, cache, lock>>

\* persistSummaries writes back the document that was read at the start.
PersistSummaries(p) ==
    /\ worker[p].at = "persist"
    /\ Free
    /\ summary' = [state |-> "ok", files |-> worker[p].files, summaries |-> worker[p].summaries]
    /\ Stands(p)
    /\ UNCHANGED <<disk, hashes, cache>>
-----------------------------------------------------------------------------
\* The repository changes; a file may also disappear.
Change(f) ==
    /\ "change" \in env.events
    /\ "anytime" \in env.events \/ \A p \in Process : worker[p].at = "idle"
    /\ disk[f] > 0
    /\ \/ disk[f] < MaxContent /\ disk' = [disk EXCEPT ![f] = @ + 1]
       \/ disk' = [disk EXCEPT ![f] = 0]
    /\ UNCHANGED <<summary, hashes, cache, worker, lock>>

\* A process dies, and the file it was writing may be left torn.
CrashWorker(p) ==
    LET w == worker[p]
    IN  /\ "crash" \in env.events
        /\ w.at # "idle"
        /\ Stands(p) /\ Abandon(p)
        /\ \/ UNCHANGED <<summary, hashes, cache>>
           \/ /\ w.at \in {"store", "persist"} /\ MayWrite(p)
              /\ summary' = [NoSummary EXCEPT !.state = "torn"]
              /\ UNCHANGED <<hashes, cache>>
           \/ /\ w.at = "hashes"
              /\ hashes' = [hashes EXCEPT !.state = "torn"]
              /\ UNCHANGED <<summary, cache>>
           \/ /\ w.at = "call"
              /\ cache' = (cache \ CachedAt(w)) \cup {Written(w, TornEntry)}
              /\ UNCHANGED <<summary, hashes>>
        /\ UNCHANGED disk

ContextNext ==
    \/ \E p \in Process :
        \/ BeginAggregation(p) \/ HashFiles(p) \/ CollectMetadata(p) \/ WriteContext(p) \/ WriteHashes(p)
        \/ \E limit \in env.limits, force \in BOOLEAN, patterns \in env.patterns :
                BeginSummarize(p, limit, force, patterns)
        \/ ReadFile(p) \/ LookUp(p) \/ Answer(p) \/ Fail(p) \/ PersistSummaries(p)
        \/ CrashWorker(p)
    \/ \E f \in File : Change(f)
-----------------------------------------------------------------------------
(***************************************************************************)
(* As long as the context is aggregated anew after every change of the     *)
(* repository and one size of chunks is used, every summary in             *)
(* summary.json is of the very content whose hash the document states and  *)
(* of a chunk of that size, over all crashes, torn files, failing clients  *)
(* and summarisers side by side; and if the client always answers and any  *)
(* file is summarised, no chunk of any file of the document is missing.    *)
(* (summarizeDocument, processMultipleChunks, generateChunkId)             *)
(***************************************************************************)
SummariesTrue ==
    "anytime" \notin env.events /\ (\A m, n \in env.limits : m = n) =>
        /\ \A s \in summary.summaries : s.of = summary.files[s.file] /\ s.limit \in env.limits
        /\ "failure" \notin env.events /\ summary.summaries # {} =>
            \A f \in File, n \in env.limits : summary.files[f] > 0 =>
                \A i \in 1..ChunkCount(f, n) : \E s \in summary.summaries : s.file = f /\ s.index = i

(***************************************************************************)
(* When no one is at work, no process died, and the repository changed     *)
(* only between commands, side by side or not, the hashes that             *)
(* file_hashes.json and summary.json state of a file are the same.         *)
(* (hashDiscoveredFiles, collectFileMetadata, persistContextArtifacts)     *)
(***************************************************************************)
HashesAgree ==
    env.events \cap {"crash", "anytime"} = {} /\ (\A p \in Process : worker[p].at = "idle") =>
        \A f \in File : summary.files[f] \in {0, hashes.files[f]}

ContextAgrees == SummariesTrue /\ HashesAgree

(***************************************************************************)
(* The files that go into the context fit into the budget and into the     *)
(* limit of files, and one is left out only if it does not fit beside the  *)
(* better ones that are in.  (rankAndBudgetFiles)                          *)
(***************************************************************************)
BudgetKept(candidates, budget, maxFiles) ==
    LET included == Included(candidates, budget, maxFiles)
        ranked == Ranked(candidates, maxFiles)
    IN  /\ Tokens(included) <= budget
        /\ maxFiles > 0 => Len(included) <= maxFiles
        /\ \A i \in DOMAIN ranked :
            \/ \E k \in DOMAIN included : included[k] = ranked[i]
            \/ Tokens(SelectSeq(included, LAMBDA c : \E j \in 1..(i - 1) : ranked[j] = c))
                    + TokensOf(ranked[i]) > budget

(***************************************************************************)
(* Every line with text is in a chunk, the chunks follow one another       *)
(* without a gap, and a chunk is larger than the limit only if, blank      *)
(* lines apart, it repeats no more than back lines and adds one.           *)
(* (chunkFile)                                                             *)
(***************************************************************************)
ChunksCover(lines, max, back) ==
    LET chunks == ChunksOf(lines, max, back)
    IN  /\ \A i \in DOMAIN lines : lines[i].blank \/
                \E k \in DOMAIN chunks : i \in chunks[k].from..chunks[k].to
        /\ \A k \in 2..Len(chunks) : chunks[k].from <= chunks[k - 1].to + 1
        /\ \A k \in DOMAIN chunks : chunks[k].size > max =>
            Cardinality({i \in chunks[k].from..chunks[k].to : ~lines[i].blank}) <= back + 1

WithinBudget ==
    env.part = "budget" =>
        BudgetKept(env.candidates, env.budget, env.maxFiles) /\ ChunksCover(env.lines, env.max, env.back)
=============================================================================
