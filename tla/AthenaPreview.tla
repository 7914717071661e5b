---------------------------- MODULE AthenaPreview ----------------------------
(***************************************************************************)
(* The Athena query session of the bundle inspector: the closure that      *)
(* renderAthenaPreview (components/athena-preview.js) keeps for one        *)
(* component panel, with the server calls behind it (core.js,              *)
(* _endpoints.py, s3.py).                                                  *)
(*                                                                         *)
(* A run of the query passes through runQuery: start the query, poll it    *)
(* every second until a deadline of five minutes, fetch the first chunk of *)
(* the CSV and draw a table.  loadMore fetches one further chunk.  Both    *)
(* await requests, and nothing stops the user from starting another run    *)
(* (Ctrl+Enter ignores the disabled button) while one is in flight.  The   *)
(* state below is shared by all of them.                                   *)
(*                                                                         *)
(* The CSV of a query is a sequence of "x" (a character), "q" (a quote)    *)
(* and "n" (a newline, legal between quotes).  Text is a sequence of units *)
(* that know the query and the place they come from, so that a row put     *)
(* together wrongly shows.  Every unit is one byte.  A quote escaped by    *)
(* doubling toggles twice, hence counts as two.  The map drawn beside the  *)
(* table is left out.                                                      *)
(***************************************************************************)
EXTENDS Naturals, FiniteSets, Sequences, SequencesExt, FiniteSetsExt

CONSTANTS Runs,      \* the runs the user may start: 1 .. n (a bound)
          Loads,     \* the presses of "Load more": 1 .. n (a bound)
          Csvs,      \* the result files a query may have
          ChunkSize, \* CHUNK_SIZE: bytes per Range request
          MaxPolls   \* status polls that fit in the five minutes

NoQuery == 0

VARIABLES run,        \* run[r] = [pc, polls]: where runQuery is
          query,      \* query[r] = [state, csv]: the query at Athena
          load,       \* load[l] = [pc, csv, start]: a loadMore in flight
          page,       \* [runBtn, results, tables, statusBar]: what is drawn
          data,       \* the mutable query state of the closure
          table,      \* table[r]: the rows in the <tbody> drawn by run r
          overlapped  \* history: a run or a load began during another

previewVars == <<run, query, load, page, data, table, overlapped>>

-----------------------------------------------------------------------------
(* Text and its rows *)

Marks == {"x", "q", "n"}
Text(r, csv) == [i \in DOMAIN csv |-> [q |-> r, at |-> i, mark |-> csv[i]]]

(* Newlines outside quotes. *)
LineEnds(text) ==
  {i \in DOMAIN text :
     /\ text[i].mark = "n"
     /\ Cardinality({j \in 1 .. i : text[j].mark = "q"}) % 2 = 0}

(* A fault: the last newline, quoted or not. *)
FaultyBreak(text) ==
  LET ends == {i \in DOMAIN text : text[i].mark = "n"}
  IN IF ends = {} THEN 0 ELSE Max(ends)

(* The last of them, 0 when there is none. *)
findSafeBreak(text) == IF LineEnds(text) = {} THEN 0 ELSE Max(LineEnds(text))

(* The k-th smallest of a set of numbers. *)
Nth(S, k) == CHOOSE x \in S : Cardinality({y \in S : y <= x}) = k

(* A line starts where none has ended, after an end or at the beginning,   *)
(* and goes up to the next end; blank lines are skipped.                   *)
splitCsvLines(text) ==
  LET ends == LineEnds(text) \cup {Len(text) + 1}
      starts == {a \in DOMAIN text : a \notin ends /\ (a = 1 \/ a - 1 \in ends)}
      line(a) == SubSeq(text, a, Min({e \in ends : a < e}) - 1)
  IN [k \in 1 .. Cardinality(starts) |-> line(Nth(starts, k))]

(* A result is empty or ends with the end of a row.  The header row is     *)
(* shorter than a chunk (1 MB), and no row is blank.                       *)
ASSUME PreviewAssumption ==
  /\ Runs \subseteq Nat \ {NoQuery} /\ Loads \subseteq Nat
  /\ ChunkSize \in Nat \ {0} /\ MaxPolls \in Nat
  /\ Csvs \subseteq Seq(Marks)
  /\ \A f \in Csvs \ {<<>>}, r \in Runs :
       LET ends == LineEnds(Text(r, f))
       IN /\ Len(f) \in ends
          /\ \E e \in ends : e <= ChunkSize
          /\ \A e \in ends : e # 1 /\ e - 1 \notin ends

Body(r) == Text(r, query[r].csv)

(* Row i of the result: what lies between two ends of rows. *)
RowEnd(r, i) == IF i = 0 THEN 0 ELSE Nth(LineEnds(Body(r)), i)
Row(r, i) == SubSeq(Body(r), RowEnd(r, i - 1) + 1, RowEnd(r, i) - 1)

(* What a Range request for ChunkSize bytes from offset start returns. *)
Chunk(r, start) ==
  SubSeq(Body(r), start + 1, Min({start + ChunkSize, Len(Body(r))}))

-----------------------------------------------------------------------------
(* State *)

InPhase1(r) == run[r].pc \in {"starting", "polling", "sleeping"}
Active(r) == InPhase1(r) \/ run[r].pc = "fetching"
Loading(l) == load[l].pc = "fetching"
Busy == (\E r \in Runs : Active(r)) \/ (\E l \in Loads : Loading(l))

Cleared == [columns |-> <<>>, allRows |-> <<>>, remainder |-> <<>>,
            bytesLoaded |-> 0, totalSize |-> 0, csv |-> NoQuery,
            tbody |-> NoQuery]

PreviewInit ==
  /\ run = [r \in Runs |-> [pc |-> "idle", polls |-> 0]]
  /\ query = [r \in Runs |-> [state |-> "none", csv |-> <<>>]]
  /\ load = [l \in Loads |-> [pc |-> "idle", csv |-> NoQuery, start |-> 0]]
  /\ page = [runBtn |-> TRUE, results |-> "empty", tables |-> {},
             statusBar |-> "empty"]
  /\ data = Cleared
  /\ table = [r \in Runs |-> <<>>]
  /\ overlapped = FALSE

ShowMessage == [page EXCEPT !.results = "message", !.tables = {}]

(* updateStatusBar: the row count, with a button while bytes are missing. *)
BarFor(d) == IF d.bytesLoaded < d.totalSize THEN "more" ELSE "full"

-----------------------------------------------------------------------------
(* runQuery *)

(* A click on Run or Ctrl+Enter; the handler of the key does not look at   *)
(* runBtn.disabled.                                                        *)
RunQuery(r) ==
  /\ run[r].pc = "idle" /\ \A s \in Runs : s < r => run[s].pc # "idle"
  /\ overlapped' = (overlapped \/ Busy)
  /\ run' = [run EXCEPT ![r].pc = "starting"]
  /\ page' = [runBtn |-> FALSE, results |-> "empty", tables |-> {},
              statusBar |-> "empty"]
  /\ data' = Cleared
  /\ UNCHANGED <<query, load, table>>

(* /athena-query answers with the id of a query that Athena queued. *)
QueryStarts(r) ==
  /\ run[r].pc = "starting"
  /\ \E f \in Csvs : query' = [query EXCEPT ![r] = [state |-> "QUEUED", csv |-> f]]
  /\ run' = [run EXCEPT ![r].pc = "polling"]
  /\ UNCHANGED <<load, page, data, table, overlapped>>

(* A fault: the button is freed only by a query that succeeds. *)
FaultyEnd(r) ==
  /\ run' = [run EXCEPT ![r].pc = "done"]
  /\ page' = ShowMessage
  /\ UNCHANGED <<query, load, data, table, overlapped>>

(* Phase 1 ends without a result: the request fails, the answer carries an *)
(* error (ApiError 400: a query that failed, was cancelled or cannot be    *)
(* looked up), or the deadline passed when the loop looked at the clock.   *)
EndsInError(r) ==
  /\ run' = [run EXCEPT ![r].pc = "done"]
  /\ page' = [ShowMessage EXCEPT !.runBtn = TRUE]
  /\ UNCHANGED <<query, load, data, table, overlapped>>

RequestFails(r) == run[r].pc \in {"starting", "polling"} /\ EndsInError(r)

PollSaysFailed(r) ==
  /\ run[r].pc = "polling" /\ query[r].state \in {"FAILED", "CANCELLED"}
  /\ EndsInError(r)

TimesOut(r) == run[r].pc = "sleeping" /\ EndsInError(r)

PollAgain(r) ==
  /\ run[r].pc = "polling" /\ query[r].state \in {"QUEUED", "RUNNING"}
  /\ run' = [run EXCEPT ![r] = [pc |-> "sleeping", polls |-> @.polls + 1]]
  /\ UNCHANGED <<query, load, page, data, table, overlapped>>

(* A fault: the loop does not look at the clock. *)
FaultyWake(r) ==
  /\ run[r].pc = "sleeping"
  /\ run' = [run EXCEPT ![r].pc = "polling"]
  /\ UNCHANGED <<query, load, page, data, table, overlapped>>

Wake(r) ==
  /\ run[r].pc = "sleeping" /\ run[r].polls < MaxPolls
  /\ run' = [run EXCEPT ![r].pc = "polling"]
  /\ UNCHANGED <<query, load, page, data, table, overlapped>>

(* Phase 2 begins: the button is free again before the first chunk is here. *)
PollSaysSucceeded(r) ==
  /\ run[r].pc = "polling" /\ query[r].state = "SUCCEEDED"
  /\ run' = [run EXCEPT ![r].pc = "fetching"]
  /\ page' = [page EXCEPT !.runBtn = TRUE]
  /\ data' = [data EXCEPT !.csv = r]
  /\ UNCHANGED <<query, load, table, overlapped>>

(* The split of the first chunk: everything when the file is complete or   *)
(* when no line ends in it.                                                *)
FirstSplit(text, all) ==
  LET break == findSafeBreak(text)
  IN IF all \/ break = 0 THEN [complete |-> text, remainder |-> <<>>]
     ELSE [complete |-> SubSeq(text, 1, break),
           remainder |-> SubSeq(text, break + 1, Len(text))]

(* Quantifiers over one value bind it, so that ENABLED is evaluated fast. *)
FirstChunk(r) ==
  /\ run[r].pc = "fetching" /\ Body(r) # <<>>
  /\ \E text \in {Chunk(r, 0)}, size \in {Len(Body(r))} :
     \E split \in {FirstSplit(text, Len(text) >= size)} :
     \E rows \in {splitCsvLines(split.complete)} :
        /\ data' = [data EXCEPT !.totalSize = size, !.bytesLoaded = Len(text),
                      !.remainder = split.remainder, !.columns = Head(rows),
                      !.allRows = Tail(rows), !.tbody = r]
        /\ table' = [table EXCEPT ![r] = Tail(rows)]
        /\ page' = [page EXCEPT !.results = "tables", !.tables = @ \cup {r},
                                !.statusBar = BarFor(data')]
  /\ run' = [run EXCEPT ![r].pc = "done"]
  /\ UNCHANGED <<query, load, overlapped>>

(* 404 and 502 of the proxy, a Range of an empty object, a lost request. *)
FirstChunkFails(r) ==
  /\ run[r].pc = "fetching"
  /\ run' = [run EXCEPT ![r].pc = "done"]
  /\ page' = ShowMessage
  /\ UNCHANGED <<query, load, data, table, overlapped>>

-----------------------------------------------------------------------------
(* loadMore *)

LoadMore(l) ==
  /\ load[l].pc = "idle" /\ \A k \in Loads : k < l => load[k].pc # "idle"
  /\ page.statusBar = "more" /\ data.bytesLoaded < data.totalSize
  /\ overlapped' = (overlapped \/ Busy)
  /\ load' = [load EXCEPT ![l] = [pc |-> "fetching", csv |-> data.csv,
                                  start |-> data.bytesLoaded]]
  /\ page' = [page EXCEPT !.statusBar = "loading"]
  /\ UNCHANGED <<run, query, data, table>>

LoadDone(l) == load' = [load EXCEPT ![l].pc = "done"]

(* What the chunk does to the closure: the offset was read before the      *)
(* await, the remainder and everything else after it.                      *)
Absorb(text, size) ==
  LET break == findSafeBreak(text)
      loaded == data.bytesLoaded + size
  IN IF break = 0
     THEN [data EXCEPT !.remainder = text, !.bytesLoaded = loaded]
     ELSE [data EXCEPT !.remainder = SubSeq(text, break + 1, Len(text)),
             !.bytesLoaded = Min({loaded, data.totalSize}),
             !.allRows = @ \o splitCsvLines(SubSeq(text, 1, break))]

NewRows(text) == splitCsvLines(SubSeq(text, 1, findSafeBreak(text)))

(* appendRows fails on a tbody that a new run has set to null. *)
LoadAnswers(l) ==
  /\ Loading(l) /\ load[l].csv # NoQuery
  /\ LET chunk == Chunk(load[l].csv, load[l].start)
         text == data.remainder \o chunk
         broken == findSafeBreak(text) # 0 /\ data.tbody = NoQuery
     IN /\ chunk # <<>>
        /\ data' = Absorb(text, Len(chunk))
        /\ table' = IF data.tbody = NoQuery THEN table
                    ELSE [table EXCEPT ![data.tbody] = @ \o NewRows(text)]
        /\ page' = [page EXCEPT !.statusBar = IF broken THEN "error"
                                              ELSE BarFor(data')]
  /\ LoadDone(l)
  /\ UNCHANGED <<run, query, overlapped>>

LoadFails(l) ==
  /\ Loading(l)
  /\ page' = [page EXCEPT !.statusBar = "error"]
  /\ LoadDone(l)
  /\ UNCHANGED <<run, query, data, table, overlapped>>

-----------------------------------------------------------------------------
(* Athena *)

AthenaMoves(r) ==
  /\ \/ /\ query[r].state = "QUEUED"
        /\ \E s \in {"RUNNING", "FAILED", "CANCELLED"} :
             query' = [query EXCEPT ![r].state = s]
     \/ /\ query[r].state = "RUNNING"
        /\ \E s \in {"SUCCEEDED", "FAILED", "CANCELLED"} :
             query' = [query EXCEPT ![r].state = s]
  /\ UNCHANGED <<run, load, page, data, table, overlapped>>

-----------------------------------------------------------------------------
(* The steps a run takes once its request is answered or its timer rings. *)
RunSteps(r) ==
  \/ QueryStarts(r) \/ RequestFails(r) \/ PollSaysFailed(r) \/ TimesOut(r)
  \/ PollAgain(r) \/ Wake(r) \/ PollSaysSucceeded(r)
  \/ FirstChunk(r) \/ FirstChunkFails(r)

PreviewNext ==
  \/ \E r \in Runs : RunQuery(r) \/ RunSteps(r) \/ AthenaMoves(r)
  \/ \E l \in Loads : LoadMore(l) \/ LoadAnswers(l) \/ LoadFails(l)

-----------------------------------------------------------------------------
(* Properties *)

PreviewTypeOK ==
  /\ \A r \in Runs :
       /\ run[r].pc \in {"idle", "starting", "polling", "sleeping", "fetching", "done"}
       /\ run[r].polls \in 0 .. MaxPolls + 1
       /\ query[r].state \in {"none", "QUEUED", "RUNNING", "SUCCEEDED", "FAILED",
                              "CANCELLED"}
  /\ \A l \in Loads : load[l].pc \in {"idle", "fetching", "done"}
  /\ page.runBtn \in BOOLEAN /\ page.tables \subseteq Runs
  /\ page.results \in {"empty", "message", "tables"}
  /\ page.statusBar \in {"empty", "more", "loading", "full", "error"}
  /\ data.csv \in Runs \cup {NoQuery} /\ data.tbody \in Runs \cup {NoQuery}
  /\ overlapped \in BOOLEAN

(* Rows are put together from chunks without loss: as long as no run and   *)
(* no load began during another, the table on the page holds the first     *)
(* rows of its own query's result, each of them whole, newlines between    *)
(* quotes included, and all of them once the status bar offers no more.    *)
RowsAreWhole ==
  (~overlapped /\ data.tbody # NoQuery) =>
    LET r == data.tbody
        shown == <<data.columns>> \o table[r]
    IN /\ data.csv = r
       /\ shown = [i \in 1 .. Len(shown) |-> Row(r, i)]
       /\ page.statusBar = "full" => Len(shown) = Cardinality(LineEnds(Body(r)))

(* The inductive invariant behind the types: a run that may poll again has *)
(* a poll left.                                                            *)
RunsInv ==
  /\ run \in [Runs -> [pc : {"idle", "starting", "polling", "sleeping", "fetching",
                            "done"}, polls : 0 .. MaxPolls + 1]]
  /\ \A r \in Runs :
       /\ run[r].pc \in {"idle", "starting"} => run[r].polls = 0
       /\ run[r].pc = "polling" => run[r].polls <= MaxPolls

QueriesInv ==
  query \in [Runs -> [state : {"none", "QUEUED", "RUNNING", "SUCCEEDED", "FAILED",
                             "CANCELLED"}, csv : Csvs \cup {<<>>}]]

LoadsInv ==
  /\ DOMAIN load = Loads
  /\ \A l \in Loads :
       "pc" \in DOMAIN load[l] /\ load[l].pc \in {"idle", "fetching", "done"}

PageInv ==
  page \in [runBtn : BOOLEAN, results : {"empty", "message", "tables"},
            tables : SUBSET Runs,
            statusBar : {"empty", "more", "loading", "full", "error"}]

DataInv ==
  /\ DOMAIN data = {"columns", "allRows", "remainder", "bytesLoaded", "totalSize",
                    "csv", "tbody"}
  /\ DOMAIN table = Runs
  /\ data.csv \in Runs \cup {NoQuery} /\ data.tbody \in Runs \cup {NoQuery}

(* And behind RowsAreWhole.  As long as nothing overlapped, one request is *)
(* in flight at most; until a run draws its table there is nothing to show *)
(* and nothing to load more of.                                            *)
InFlightOnce ==
  /\ \A r, s \in Runs : Active(r) /\ Active(s) => r = s
  /\ \A k, l \in Loads : Loading(k) /\ Loading(l) => k = l
  /\ \A r \in Runs, l \in Loads : ~ (Active(r) /\ Loading(l))

WaitingInv ==
  /\ \A r \in Runs : InPhase1(r) => data = Cleared
  /\ \A r \in Runs : run[r].pc = "fetching" => data = [Cleared EXCEPT !.csv = r]
  /\ \A l \in Loads : Loading(l) =>
       load[l].csv = data.csv /\ load[l].start = data.bytesLoaded /\ data.tbody # NoQuery
  /\ data.tbody = NoQuery => page.statusBar = "empty"

(* The table of run r holds the rows up to cut, the last end of a row that *)
(* was loaded, and the remainder is what was loaded after it.              *)
ShowsUpTo(r, cut) ==
  LET ends == LineEnds(Body(r))
  IN /\ cut \in ends /\ cut <= data.bytesLoaded
     /\ \A e \in ends : e <= data.bytesLoaded => e <= cut
     /\ data.remainder = SubSeq(Body(r), cut + 1, data.bytesLoaded)
     /\ data.columns = Row(r, 1)
     /\ table[r] = [i \in 1 .. Cardinality({e \in ends : e <= cut}) - 1 |-> Row(r, i + 1)]

TableDrawn(r) ==
  /\ data.csv = r /\ query[r].csv # <<>>
  /\ data.totalSize = Len(Body(r)) /\ data.bytesLoaded \in 0 .. Len(Body(r))
  /\ page.statusBar = "full" => data.bytesLoaded = data.totalSize
  /\ \E cut \in DOMAIN Body(r) : ShowsUpTo(r, cut)

DrawnInv == data.tbody # NoQuery => TableDrawn(data.tbody)

SessionInv == InFlightOnce /\ WaitingInv /\ DrawnInv

PreviewInv ==
  /\ RunsInv /\ QueriesInv /\ LoadsInv /\ PageInv /\ DataInv /\ overlapped \in BOOLEAN
  /\ ~overlapped => SessionInv

=============================================================================
