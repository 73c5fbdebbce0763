----------------------------- MODULE MarketFeed -----------------------------
(***************************************************************************)
(* The local order books of one market: the market channel of the venue    *)
(* (ingestion/clob_ws.py) sends changes of a level and whole books, in     *)
(* order, over a connection that can break; after each new subscription    *)
(* the pipeline loop replaces the books and fetches a snapshot of each     *)
(* over REST (main.py, _bootstrap_books).  Of a book the ask levels are    *)
(* kept, and of a level whether it is there: bids are alike, and sizes     *)
(* tell no more.                                                           *)
(***************************************************************************)
EXTENDS Naturals, Sequences, SequencesExt, FiniteSetsExt

CONSTANTS
    Tokens,        \* the two outcome tokens
    Levels,        \* the prices of the venue
    Listed,        \* the asks the venue shows at first
    None,
    MaxMoves,      \* bound on changes of the venue's books
    MaxBreaks      \* bound on broken connections and new subscriptions

ASSUME FeedAssumption ==
    /\ Levels \subseteq Nat \ {0} /\ Listed \in [Tokens -> SUBSET Levels]
    /\ MaxMoves \in Nat /\ MaxBreaks \in Nat

VARIABLES
    venue,      \* asks at the venue
    local,      \* asks of the LocalBook
    up,         \* whether the connection stands
    wire,       \* messages on their way
    boot,       \* tokens whose snapshot is to be fetched
    rest,       \* the snapshot on its way
    lost,       \* observation: the book has missed a change
    moves, breaks

feedVars == <<venue, local, up, wire, boot, rest, lost, moves, breaks>>

FeedInit ==
    /\ venue = Listed
    /\ local = [t \in Tokens |-> {}]
    /\ up = FALSE /\ wire = <<>>
    /\ boot = Tokens /\ rest = None
    /\ lost = [t \in Tokens |-> TRUE]
    /\ moves = 0 /\ breaks = 0

(* A bug: a level of size 0 is not removed.                                 *)
ApplyKeepingEmpty(book, msg) ==
    CASE msg.kind = "book"  -> msg.asks
      [] msg.kind = "set"   -> book \cup {msg.level}
      [] msg.kind = "clear" -> book

(* apply_snapshot() and apply_price_change() of LocalBook.                  *)
Apply(book, msg) ==
    CASE msg.kind = "book"  -> msg.asks
      [] msg.kind = "set"   -> book \cup {msg.level}
      [] msg.kind = "clear" -> book \ {msg.level}

Set(t, l)   == [token |-> t, kind |-> "set", level |-> l]
Clear(t, l) == [token |-> t, kind |-> "clear", level |-> l]
Book(t)     == [token |-> t, kind |-> "book", asks |-> venue[t]]

(* The snapshot on its way no longer follows all that reached the book.     *)
Overtaken(t) == IF rest # None /\ rest.token = t THEN [rest EXCEPT !.stale = TRUE] ELSE rest

(* The venue changes a level; nobody hears of it while the connection is    *)
(* down.                                                                    *)
VenueMoves(t, l) ==
    /\ moves < MaxMoves /\ moves' = moves + 1
    /\ venue' = [venue EXCEPT ![t] = IF l \in @ THEN @ \ {l} ELSE @ \cup {l}]
    /\ IF up
       THEN /\ wire' = Append(wire, IF l \in venue[t] THEN Clear(t, l) ELSE Set(t, l))
            /\ UNCHANGED <<lost, rest>>
       ELSE lost' = [lost EXCEPT ![t] = TRUE] /\ rest' = Overtaken(t) /\ UNCHANGED wire
    /\ UNCHANGED <<local, up, boot, breaks>>

(* The venue sends a whole book.                                            *)
VenueSendsBook(t) ==
    /\ up /\ moves < MaxMoves /\ moves' = moves + 1
    /\ wire' = Append(wire, Book(t))
    /\ UNCHANGED <<venue, local, up, boot, rest, lost, breaks>>

(* _dispatch() of the next message.                                         *)
Deliver ==
    /\ wire # <<>>
    /\ LET msg == Head(wire) IN
         /\ local' = [local EXCEPT ![msg.token] = Apply(@, msg)]
         /\ lost' = [lost EXCEPT ![msg.token] = @ /\ msg.kind # "book"]
         /\ rest' = Overtaken(msg.token)
    /\ wire' = Tail(wire)
    /\ UNCHANGED <<venue, up, boot, moves, breaks>>

(* The connection breaks; _run_forever() keeps the books and tries again.   *)
Break ==
    /\ up /\ breaks < MaxBreaks /\ breaks' = breaks + 1
    /\ up' = FALSE /\ wire' = <<>>
    /\ lost' = [t \in Tokens |-> lost[t] \/ \E i \in DOMAIN wire : wire[i].token = t]
    /\ rest' = IF rest # None /\ \E i \in DOMAIN wire : wire[i].token = rest.token
               THEN Overtaken(rest.token) ELSE rest
    /\ UNCHANGED <<venue, local, boot, moves>>

Connect ==
    /\ ~up /\ up' = TRUE
    /\ UNCHANGED <<venue, local, wire, boot, rest, lost, moves, breaks>>

(* The sample has changed: a new source with empty books takes over.        *)
Resubscribe ==
    /\ boot = {} /\ rest = None /\ breaks < MaxBreaks /\ breaks' = breaks + 1
    /\ local' = [t \in Tokens |-> {}] /\ up' = FALSE /\ wire' = <<>>
    /\ boot' = Tokens /\ lost' = [t \in Tokens |-> TRUE]
    /\ UNCHANGED <<venue, rest, moves>>

(* A request of _bootstrap_books(): the venue answers with its book.        *)
FetchBook(t) ==
    /\ t \in boot /\ rest = None
    /\ boot' = boot \ {t}
    /\ rest' = [token |-> t, asks |-> venue[t], stale |-> FALSE]
    /\ UNCHANGED <<venue, local, up, wire, lost, moves, breaks>>

(* The answer replaces the book, whatever the stream has brought since.     *)
BootBook ==
    /\ rest # None /\ rest' = None
    /\ local' = [local EXCEPT ![rest.token] = rest.asks]
    /\ lost' = [lost EXCEPT ![rest.token] = rest.stale]
    /\ UNCHANGED <<venue, up, wire, boot, moves, breaks>>

(* A failed request is skipped.                                             *)
FetchFails ==
    /\ rest # None /\ rest' = None
    /\ UNCHANGED <<venue, local, up, wire, boot, lost, moves, breaks>>

(* What runs while the pipeline loop is elsewhere: the venue and the socket.*)
Stream ==
    \/ \E t \in Tokens, l \in Levels : VenueMoves(t, l)
    \/ \E t \in Tokens : VenueSendsBook(t)
    \/ Deliver
    \/ Break
    \/ Connect

(* What the pipeline loop does before it ticks.                             *)
Subscribe ==
    \/ Resubscribe
    \/ \E t \in Tokens : FetchBook(t)
    \/ BootBook
    \/ FetchFails

FeedTypeOK ==
    /\ venue \in [Tokens -> SUBSET Levels] /\ local \in [Tokens -> SUBSET Levels]
    /\ up \in BOOLEAN /\ boot \subseteq Tokens /\ lost \in [Tokens -> BOOLEAN]
    /\ rest \in [token : Tokens, asks : SUBSET Levels, stale : BOOLEAN] \cup {None}
    /\ moves \in 0 .. MaxMoves /\ breaks \in 0 .. MaxBreaks

-----------------------------------------------------------------------------
(* Message m has a word about level l of the book of t.                     *)
About(m, t, l) == m.token = t /\ (m.kind = "book" \/ m.level = l)

(* The last message on its way about that level.                            *)
LastWord(i, t, l) ==
    /\ i \in DOMAIN wire /\ About(wire[i], t, l)
    /\ \A j \in DOMAIN wire : j > i => ~About(wire[j], t, l)

Spoken(t, l) == \E i \in DOMAIN wire : About(wire[i], t, l)

(* The book of t once all that is on its way has come.                      *)
Replayed(t) ==
    {l \in Levels : \/ ~Spoken(t, l) /\ l \in local[t]
                   \/ \E i \in DOMAIN wire : LastWord(i, t, l) /\ l \in Apply({}, wire[i])}

(* A book that has missed nothing since its last whole book or snapshot     *)
(* becomes the book of the venue, although the snapshot was fetched on      *)
(* another connection and changes older than it are applied after it        *)
(* (clob_ws.py:159, main.py:217).  It misses changes only while the         *)
(* connection is down, when it breaks, and when a snapshot overwrites a     *)
(* change that came before it; nothing repairs it then but a whole book.    *)
BookIsReplayed == \A t \in Tokens : ~lost[t] => Replayed(t) = venue[t]
=============================================================================
