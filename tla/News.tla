-------------------------------- MODULE News --------------------------------
(***************************************************************************)
(* From the news to a bet of the sentiment strategy.  Five tasks of        *)
(* main.py share the tables news_articles, news_signals and markets:       *)
(*   - GdeltNewsSource polls and queues articles it has not seen, and      *)
(*     _news_ingest_loop stores them (ingestion/news_provider.py);         *)
(*   - _gamma_sync_loop stores the markets and embeds their questions      *)
(*     (sentiment/inmem_matcher.py);                                       *)
(*   - _news_process_loop matches unprocessed articles to markets and      *)
(*     scores each pair (sentiment/news_processor.py);                     *)
(*   - the pipeline loop gives the strategy the recent rows of each        *)
(*     sampled market, then evaluates it (strategies/sentiment.py).        *)
(* Tables outlive a restart; everything else does not.                     *)
(***************************************************************************)
EXTENDS Naturals, Integers, Sequences, SequencesExt, FiniteSetsExt

CONSTANTS
    Articles, Markets,
    About,               \* the markets an article is about
    Modes,               \* ways of matching that the keys may configure
    Scores,              \* results of a language model: direction, impact, sentiment
    Words,               \* good and bad keywords of an article
    MinImpact,           \* min_impact_for_signal
    Threshold,           \* impact_threshold of the strategy
    Batch, TopK,         \* articles of a pass, markets of an article
    ArticleQueueSize,    \* slots of the queue of the source
    SeenMax, SeenKeep,   \* _seen_ids is cut to SeenKeep past SeenMax
    MaxFaults            \* bound on failed calls, full queues and restarts

Sides == {"YES", "NO"}
Score == [direction : Sides \cup {"NEUTRAL"}, impact : Nat, sentiment : Int]

ASSUME NewsAssumption ==
    /\ About \in [Articles -> SUBSET Markets]
    /\ Modes \subseteq {"inmem", "keyword"} /\ Scores \subseteq Score
    /\ Words \in [Articles -> [good : Nat, bad : Nat]]
    /\ MinImpact \in Nat \ {0} /\ Threshold \in Nat
    /\ Batch \in Nat \ {0} /\ TopK \in Nat \ {0} /\ ArticleQueueSize \in Nat \ {0}
    /\ SeenMax \in Nat /\ SeenKeep \in 0 .. SeenMax /\ MaxFaults \in Nat

VARIABLES
    mode,       \* whether there is an embeddings backend: fixed by the keys
    seenIds,    \* _seen_ids of the source
    articleQueue,  \* its queue
    articles,   \* table news_articles, in the order of its ts
    done,       \* those with processed = TRUE
    signals,    \* table news_signals, in the order of its ts
    aged,       \* how many of them have left the window of the strategy
    markets,    \* table markets: rows with active = TRUE AND closed = FALSE
    embedded,   \* _cache of the InMemoryMatcher
    sampled,    \* market_cache["markets"]
    proc,       \* the processor: where it is, articles to go, matches to score
    loop,       \* the pipeline loop: where it is, markets picked and to go
    recentSignals, \* _recent_signals of the strategy, as places in signals
    bet,        \* what the strategy last answered for each market
    reruns,     \* observation: unfinished rounds over each article
    faults      \* observation: failures so far

sourceVars == <<seenIds, articleQueue>>
newsTables == <<articles, done, signals, aged>>
marketVars == <<markets, embedded, sampled>>
loopVars == <<loop, recentSignals, bet>>
newsVars == <<mode, sourceVars, newsTables, marketVars, proc, loopVars, reruns, faults>>

Resting == [pc |-> "idle", todo |-> <<>>, hits |-> {}]
Paused == [pc |-> "idle", picked |-> {}, todo |-> {}]
NoBet == "none"

NewsInit ==
    /\ mode \in Modes
    /\ seenIds = {} /\ articleQueue = <<>>
    /\ articles = <<>> /\ done = {} /\ signals = <<>> /\ aged = 0
    /\ markets = {} /\ embedded = {} /\ sampled = {}
    /\ proc = Resting /\ loop = Paused
    /\ recentSignals = [m \in Markets |-> {}] /\ bet = [m \in Markets |-> NoBet]
    /\ reruns = [a \in Articles |-> 0] /\ faults = 0

Fault == faults < MaxFaults /\ faults' = faults + 1

-----------------------------------------------------------------------------
(* The source and the ingest loop.                                          *)

(* A set has no order: what is kept past the cap is any part of it.         *)
Remembered(ids) ==
    IF Cardinality(ids) <= SeenMax THEN {ids} ELSE kSubset(SeenKeep, ids)

(* _enqueue() of an article of a poll; which ones a poll returns is free.   *)
EnqueueArticle(a) ==
    /\ a \notin seenIds
    /\ seenIds' \in Remembered(seenIds \cup {a})
    /\ \/ /\ Len(articleQueue) < ArticleQueueSize
          /\ articleQueue' = Append(articleQueue, a)
          /\ UNCHANGED faults
       \/ Len(articleQueue) = ArticleQueueSize /\ Fault /\ UNCHANGED articleQueue
    /\ UNCHANGED <<mode, newsTables, marketVars, proc, loopVars, reruns>>

(* insert_news_article(): the row of a known article stays as it is.        *)
Inserted(a) == IF Contains(articles, a) THEN articles ELSE Append(articles, a)

(* A bug: an article that comes again is processed again.                   *)
IngestAgain ==
    /\ articleQueue # <<>>
    /\ articleQueue' = Tail(articleQueue)
    /\ \/ /\ articles' = Inserted(Head(articleQueue))
          /\ done' = done \ {Head(articleQueue)}
          /\ UNCHANGED faults
       \/ Fault /\ UNCHANGED <<articles, done>>
    /\ UNCHANGED <<mode, seenIds, signals, aged, marketVars, proc, loopVars, reruns>>

(* An article whose insert fails is not queued again while its id is in     *)
(* seen.                                                                    *)
Ingest ==
    /\ articleQueue # <<>>
    /\ articleQueue' = Tail(articleQueue)
    /\ \/ articles' = Inserted(Head(articleQueue)) /\ UNCHANGED faults
       \/ Fault /\ UNCHANGED articles
    /\ UNCHANGED <<mode, seenIds, done, signals, aged, marketVars, proc, loopVars, reruns>>

-----------------------------------------------------------------------------
(* Markets.                                                                 *)

(* upsert_markets() only writes the rows it is given: that of a market that *)
(* is closed, and not listed any more, keeps active = TRUE.                 *)
Upserted(active) == markets \cup active

(* refresh_markets(): the matcher never forgets a market.                   *)
Embedded(active) == IF mode = "inmem" THEN embedded \cup active ELSE embedded

(* A cycle of _gamma_sync_loop; Gamma lists what it likes.  No upsert, no   *)
(* embedding; the sample is renewed in either case.                         *)
GammaSync(active) ==
    /\ \/ /\ markets' = Upserted(active)
          /\ \/ embedded' = Embedded(active) /\ UNCHANGED faults
             \/ mode = "inmem" /\ Fault /\ UNCHANGED embedded
       \/ Fault /\ UNCHANGED <<markets, embedded>>
    /\ sampled' = active
    /\ UNCHANGED <<mode, sourceVars, newsTables, proc, loopVars, reruns>>

-----------------------------------------------------------------------------
(* NewsProcessor.process_unprocessed().                                     *)

(* fetch_unprocessed_articles(): the newest first, Batch at most.           *)
AddUnprocessed(batch, a) ==
    IF a \notin done /\ Len(batch) < Batch THEN Append(batch, a) ELSE batch
Unprocessed == FoldLeft(AddUnprocessed, <<>>, Reverse(articles))

ProcessBegins ==
    /\ proc.pc = "idle" /\ Unprocessed # <<>>
    /\ proc' = [Resting EXCEPT !.todo = Unprocessed,
                               !.pc = IF mode = "inmem" THEN "embed" ELSE "match"]
    /\ UNCHANGED <<mode, sourceVars, newsTables, marketVars, loopVars, reruns, faults>>

(* The titles are embedded at once; a failure ends the pass.                *)
EmbedTitles ==
    /\ proc.pc = "embed"
    /\ \/ proc' = [proc EXCEPT !.pc = "match"] /\ UNCHANGED faults
       \/ proc' = Resting /\ Fault
    /\ UNCHANGED <<mode, sourceVars, newsTables, marketVars, loopVars, reruns>>

Onward == IF Len(proc.todo) = 1 THEN Resting
          ELSE [pc |-> "match", todo |-> Tail(proc.todo), hits |-> {}]

Candidates(a) == About[a] \cap (IF mode = "inmem" THEN embedded ELSE markets)
BestMatches(a) == IF Cardinality(Candidates(a)) <= TopK THEN {Candidates(a)}
                  ELSE kSubset(TopK, Candidates(a))

(* A bug: an article that matches no market is left for the next pass.      *)
MatchOrLeave ==
    /\ proc.pc = "match"
    /\ \/ \E hits \in BestMatches(Head(proc.todo)) :
            /\ UNCHANGED faults
            /\ proc' = IF hits = {} THEN Onward ELSE [proc EXCEPT !.pc = "score", !.hits = hits]
       \/ mode = "inmem" /\ Fault /\ proc' = [proc EXCEPT !.pc = "score"]
       \/ mode = "keyword" /\ Fault /\ proc' = Onward
    /\ UNCHANGED <<mode, sourceVars, newsTables, marketVars, loopVars, reruns>>

(* _match_markets().  The in-memory matcher answers a failed embedding with *)
(* no match, and the article is marked; a failed query leaves it unmarked.  *)
Match ==
    /\ proc.pc = "match"
    /\ \/ \E hits \in BestMatches(Head(proc.todo)) :
            proc' = [proc EXCEPT !.pc = "score", !.hits = hits]
          /\ UNCHANGED faults
       \/ mode = "inmem" /\ Fault /\ proc' = [proc EXCEPT !.pc = "score"]
       \/ mode = "keyword" /\ Fault /\ proc' = Onward
    /\ UNCHANGED <<mode, sourceVars, newsTables, marketVars, loopVars, reruns>>

Tells(s) == s.impact >= MinImpact /\ s.direction # "NEUTRAL"
SignalRow(a, m, s) == [article |-> a, market |-> m, direction |-> s.direction,
                 impact |-> s.impact, sentiment |-> s.sentiment]

(* HeuristicSentimentScorer.score(), in tenths: it counts keywords and does *)
(* not look at the market's question.                                       *)
Heuristic(a) ==
    LET good == Words[a].good
        bad == Words[a].bad
        sum == good + bad
    IN  [direction |-> IF 5 * (good - bad) > sum THEN "YES"
                       ELSE IF 5 * (bad - good) > sum THEN "NO" ELSE "NEUTRAL",
         impact    |-> IF sum = 0 THEN 1 ELSE Min({sum, 10}),
         sentiment |-> IF good > bad THEN 1 ELSE IF good < bad THEN -1 ELSE 0]

(* score(): a model that fails three times is replaced by the heuristic, so *)
(* a score always comes.                                                    *)
Answers(a) == Scores \cup {Heuristic(a)}

(* A score is stored if it tells something, or lost.                        *)
ScorePair(m) ==
    /\ proc.pc = "score" /\ m \in proc.hits
    /\ proc' = [proc EXCEPT !.hits = @ \ {m}]
    /\ \E s \in Answers(Head(proc.todo)) :
         \/ ~Tells(s) /\ UNCHANGED <<signals, faults>>
         \/ /\ Tells(s) /\ signals' = Append(signals, SignalRow(Head(proc.todo), m, s))
            /\ UNCHANGED faults
         \/ Tells(s) /\ Fault /\ UNCHANGED signals
    /\ UNCHANGED <<mode, sourceVars, articles, done, aged, marketVars, loopVars, reruns>>

MarkProcessed ==
    /\ proc.pc = "score" /\ proc.hits = {}
    /\ proc' = Onward
    /\ \/ done' = done \cup {Head(proc.todo)} /\ UNCHANGED <<reruns, faults>>
       \/ Fault /\ reruns' = [reruns EXCEPT ![Head(proc.todo)] = @ + 1] /\ UNCHANGED done
    /\ UNCHANGED <<mode, sourceVars, articles, signals, aged, marketVars, loopVars>>

-----------------------------------------------------------------------------
(* The pipeline loop and the strategy.                                      *)

(* A row leaves the window of the strategy.                                 *)
Age ==
    /\ aged < Len(signals)
    /\ aged' = aged + 1
    /\ UNCHANGED <<mode, sourceVars, articles, done, signals, marketVars, proc, loopVars,
                   reruns, faults>>

PassBegins ==
    /\ loop.pc = "idle" /\ sampled # {}
    /\ loop' = [pc |-> "hydrate", picked |-> sampled, todo |-> sampled]
    /\ UNCHANGED <<mode, sourceVars, newsTables, marketVars, proc, recentSignals, bet, reruns,
                   faults>>

InWindow(m) == {i \in (aged + 1) .. Len(signals) : signals[i].market = m}

(* A bug: an answer with no rows leaves the rows there were.                *)
HydrateIfAny(m) ==
    /\ loop.pc = "hydrate" /\ m \in loop.todo
    /\ recentSignals' = [recentSignals EXCEPT ![m] = IF InWindow(m) = {} THEN @ ELSE InWindow(m)]
    /\ loop' = IF loop.todo = {m} THEN [loop EXCEPT !.pc = "tick", !.todo = loop.picked]
               ELSE [loop EXCEPT !.todo = @ \ {m}]
    /\ UNCHANGED <<mode, sourceVars, newsTables, marketVars, proc, bet, reruns, faults>>

(* fetch_recent_news_signals() and attach_recent_signals() of one market.   *)
Hydrate(m) ==
    /\ loop.pc = "hydrate" /\ m \in loop.todo
    /\ recentSignals' = [recentSignals EXCEPT ![m] = InWindow(m)]
    /\ loop' = IF loop.todo = {m} THEN [loop EXCEPT !.pc = "tick", !.todo = loop.picked]
               ELSE [loop EXCEPT !.todo = @ \ {m}]
    /\ UNCHANGED <<mode, sourceVars, newsTables, marketVars, proc, bet, reruns, faults>>

(* One failed query ends the hydration: the others keep their old rows.     *)
HydrateFails ==
    /\ loop.pc = "hydrate" /\ Fault
    /\ loop' = [loop EXCEPT !.pc = "tick", !.todo = loop.picked]
    /\ UNCHANGED <<mode, sourceVars, newsTables, marketVars, proc, recentSignals, bet, reruns>>

(* aggregate_signals() and winning_direction: summed impact, ties to the    *)
(* direction of the newest row, which comes first in the dictionary.        *)
Impact(rows, d) == MapThenSumSet(LAMBDA i : signals[i].impact,
                                 {i \in rows : signals[i].direction = d})
Winner(rows) ==
    IF Impact(rows, "YES") = Impact(rows, "NO") THEN signals[Max(rows)].direction
    ELSE IF Impact(rows, "YES") > Impact(rows, "NO") THEN "YES" ELSE "NO"
Leaning(rows) == MapThenSumSet(LAMBDA i : signals[i].impact * signals[i].sentiment, rows)

(* SentimentStrategy.evaluate(): the impact of any row, either way, passes  *)
(* the threshold, and only the size of the average sentiment counts.        *)
Convinced(rows) ==
    /\ rows # {}
    /\ \E i \in rows : signals[i].impact >= Threshold
    /\ Leaning(rows) # 0

(* Whether the side has an ask that leaves an edge is free.                 *)
Evaluate(m) ==
    /\ loop.pc = "tick" /\ m \in loop.todo
    /\ \E quoted \in BOOLEAN :
         bet' = [bet EXCEPT ![m] = IF quoted /\ Convinced(recentSignals[m])
                                   THEN Winner(recentSignals[m]) ELSE NoBet]
    /\ loop' = IF loop.todo = {m} THEN Paused ELSE [loop EXCEPT !.todo = @ \ {m}]
    /\ UNCHANGED <<mode, sourceVars, newsTables, marketVars, proc, recentSignals, reruns, faults>>

-----------------------------------------------------------------------------
NewsRestart ==
    /\ Fault
    /\ seenIds' = {} /\ articleQueue' = <<>>
    /\ embedded' = {} /\ sampled' = {}
    /\ proc' = Resting /\ loop' = Paused
    /\ recentSignals' = [m \in Markets |-> {}] /\ bet' = [m \in Markets |-> NoBet]
    /\ reruns' = IF proc.pc = "score" THEN [reruns EXCEPT ![Head(proc.todo)] = @ + 1]
                 ELSE reruns
    /\ UNCHANGED <<mode, newsTables, markets>>

Process == ProcessBegins \/ EmbedTitles \/ Match \/ (\E m \in Markets : ScorePair(m))
           \/ MarkProcessed
Loop == PassBegins \/ HydrateFails \/ \E m \in Markets : Hydrate(m) \/ Evaluate(m)

NewsNext ==
    \/ \E a \in Articles : EnqueueArticle(a)
    \/ Ingest
    \/ \E active \in SUBSET Markets \ {{}} : GammaSync(active)
    \/ Process
    \/ Age
    \/ Loop
    \/ NewsRestart

NewsSpec == NewsInit /\ [][NewsNext]_newsVars

(* The processor and the pipeline loop keep running; nothing is promised of *)
(* what polls and Gamma return.                                             *)
FairNewsSpec == NewsSpec /\ WF_newsVars(Process) /\ WF_newsVars(Loop)

-----------------------------------------------------------------------------
NewsTypeOK ==
    /\ mode \in Modes /\ seenIds \subseteq Articles /\ articleQueue \in Seq(Articles)
    /\ articles \in Seq(Articles) /\ done \subseteq Articles
    /\ signals \in Seq([article : Articles, market : Markets, direction : Sides,
                        impact : Nat, sentiment : Int])
    /\ aged \in 0 .. Len(signals)
    /\ markets \subseteq Markets
    /\ embedded \subseteq Markets /\ sampled \subseteq Markets
    /\ proc \in [pc : {"idle", "embed", "match", "score"}, todo : Seq(Articles),
                 hits : SUBSET Markets]
    /\ loop \in [pc : {"idle", "hydrate", "tick"}, picked : SUBSET Markets,
                 todo : SUBSET Markets]
    /\ recentSignals \in [Markets -> SUBSET Nat] /\ bet \in [Markets -> Sides \cup {NoBet}]
    /\ reruns \in [Articles -> Nat] /\ faults \in 0 .. MaxFaults

RowsOf(a, m) == {i \in DOMAIN signals : signals[i].article = a /\ signals[i].market = m}

(* An article has one voice per market: a second row for the same pair is   *)
(* there only if an earlier round over the article wrote its rows and was   *)
(* cut short before the article was marked (news_processor.py:160-199).     *)
(* Polling it again, after seen was cut or a restart, adds none.            *)
OneVoicePerRound ==
    \A a \in Articles, m \in Markets : Cardinality(RowsOf(a, m)) <= 1 + reruns[a]

(* Every stored article is processed in the end: neither the newer ones,    *)
(* which go first, nor an article nothing matches holds the others back     *)
(* (news_processor.py:133-203, fetch_unprocessed_articles).                 *)
StoredIsProcessed ==
    \A a \in Articles : Contains(articles, a) ~> a \in done

(* The strategy stops betting on news that has left its window, although    *)
(* it bets on a copy of the rows (main.py:1208-1219, sentiment.py:57).      *)
BetEnds ==
    \A m \in Markets :
        bet[m] # NoBet /\ InWindow(m) = {}
            ~> bet[m] = NoBet \/ InWindow(m) # {} \/ m \notin sampled
=============================================================================
