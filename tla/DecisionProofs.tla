--------------------------- MODULE DecisionProofs ---------------------------
(***************************************************************************)
(* Proofs about Decision and the feed it reads: a book that missed nothing *)
(* becomes the book of the venue, an order pays an ask, a pair locks a     *)
(* profit, and the signals of an order agree on its token, from the        *)
(* aggregator to the stamp on the position.                                *)
(***************************************************************************)
EXTENDS Decision, FiniteSetTheorems, WellFoundedInduction, TLAPS

-----------------------------------------------------------------------------
(* The feed.  No induction over the messages on their way is needed: what   *)
(* decides about a level is the last message about it.                      *)

(* A message: a whole book, or one level set or cleared.                    *)
WholeBook == [token : Tokens, kind : {"book"}, asks : SUBSET Levels]
OneLevel  == [token : Tokens, kind : {"set", "clear"}, level : Levels]
Message   == WholeBook \cup OneLevel

FeedInv ==
    /\ venue \in [Tokens -> SUBSET Levels] /\ local \in [Tokens -> SUBSET Levels]
    /\ rest \in [token : Tokens, asks : SUBSET Levels, stale : BOOLEAN] \cup {None}
    /\ wire \in Seq(Message)
    /\ lost \in [Tokens -> BOOLEAN]

(* The venue has the last word: where a message about a level is on its     *)
(* way, the last one says what the venue shows.                             *)
Settled(t, l) == \E i \in DOMAIN wire : LastWord(i, t, l) /\ (l \in Apply({}, wire[i]) <=> l \in venue[t])
WordInv == \A t \in Tokens, l \in Levels : Spoken(t, l) => Settled(t, l)

(* Where none is, a book that missed nothing has it right already, and so   *)
(* has a snapshot nothing came before.                                      *)
SilentInv ==
    \A t \in Tokens, l \in Levels : ~Spoken(t, l) =>
        /\ ~lost[t] => (l \in local[t] <=> l \in venue[t])
        /\ rest # None /\ rest.token = t /\ ~rest.stale => (l \in rest.asks <=> l \in venue[t])

ReplayInv == FeedInv /\ (~up => wire = <<>>) /\ WordInv /\ SilentInv

(* There is at most one last word, so the books are as the venue's.         *)
LEMMA ReplayInvImplies == ReplayInv => BookIsReplayed
<1> SUFFICES ASSUME ReplayInv, NEW t \in Tokens, ~lost[t]
             PROVE  Replayed(t) = venue[t]
  BY DEF BookIsReplayed
<1>1. venue[t] \subseteq Levels /\ wire \in Seq(Message)
  BY DEF ReplayInv, FeedInv
<1>2. ASSUME NEW l \in Levels PROVE l \in Replayed(t) <=> l \in venue[t]
  <2>1. CASE Spoken(t, l)
    <3>1. PICK i \in DOMAIN wire :
                 LastWord(i, t, l) /\ (l \in Apply({}, wire[i]) <=> l \in venue[t])
      BY <2>1 DEF ReplayInv, WordInv, Settled
    <3>2. ASSUME NEW j \in DOMAIN wire, LastWord(j, t, l) PROVE j = i
      <4>1. i \in Nat /\ j \in Nat
        BY <1>1
      <4>2. ~(j > i) /\ ~(i > j)
        BY <3>1, <3>2 DEF LastWord
      <4>. QED BY <4>1, <4>2
    <3>. QED BY <2>1, <3>1, <3>2 DEF Replayed
  <2>2. CASE ~Spoken(t, l)
    <3>1. \A i \in DOMAIN wire : ~LastWord(i, t, l)
      BY <2>2 DEF Spoken, LastWord
    <3>. QED BY <2>2, <3>1 DEF Replayed, ReplayInv, SilentInv
  <2>. QED BY <2>1, <2>2
<1>3. Replayed(t) \subseteq Levels
  BY DEF Replayed
<1>. QED BY <1>1, <1>2, <1>3

(* A message sent has the last word about its levels and leaves the others  *)
(* as they were.                                                            *)
LEMMA SentWord ==
    ASSUME NEW m \in Message, wire \in Seq(Message), wire' = Append(wire, m),
           NEW t \in Tokens, NEW l \in Levels
    PROVE  /\ About(m, t, l) =>
                \E i \in DOMAIN wire' : LastWord(i, t, l)' /\ wire'[i] = m
           /\ ~About(m, t, l) =>
                /\ Spoken(t, l)' <=> Spoken(t, l)
                /\ \A i \in DOMAIN wire : LastWord(i, t, l) =>
                      i \in DOMAIN wire' /\ LastWord(i, t, l)' /\ wire'[i] = wire[i]
<1>0. PICK n \in Nat : n = Len(wire) + 1
  OBVIOUS
<1>1. /\ Len(wire) \in Nat /\ DOMAIN wire = 1..Len(wire) /\ DOMAIN wire' = 1..n
      /\ wire'[n] = m /\ n \in DOMAIN wire'
      /\ \A i \in DOMAIN wire : i \in DOMAIN wire' /\ wire'[i] = wire[i] /\ i < n
      /\ \A i \in DOMAIN wire' : i \in DOMAIN wire \/ i = n
  BY <1>0
<1>2. \A i \in DOMAIN wire' : ~(i > n)
  BY <1>1
<1>3. ASSUME About(m, t, l) PROVE LastWord(n, t, l)'
  <2>1. n \in DOMAIN wire' /\ About(wire'[n], t, l)
    BY <1>1, <1>3
  <2>. QED BY <1>2, <2>1 DEF LastWord, About
<1>4. ASSUME ~About(m, t, l) PROVE Spoken(t, l)' <=> Spoken(t, l)
  BY <1>1, <1>4 DEF Spoken, About
<1>5. ASSUME ~About(m, t, l), NEW i \in DOMAIN wire, LastWord(i, t, l) PROVE LastWord(i, t, l)'
  BY <1>1, <1>5 DEF LastWord, About
<1>6. About(m, t, l) => \E i \in DOMAIN wire' : LastWord(i, t, l)' /\ wire'[i] = m
  BY <1>1, <1>3
<1>7. ~About(m, t, l) =>
        \A i \in DOMAIN wire : LastWord(i, t, l) =>
           i \in DOMAIN wire' /\ LastWord(i, t, l)' /\ wire'[i] = wire[i]
  BY <1>1, <1>5
<1>. QED BY <1>4, <1>6, <1>7

(* When the first message is taken off, the last word about a level stays,  *)
(* or it was that message's.                                                *)
LEMMA TakenWord ==
    ASSUME wire \in Seq(Message), wire # <<>>, wire' = Tail(wire), venue' = venue,
           NEW t \in Tokens, NEW l \in Levels
    PROVE  /\ Spoken(t, l)' => Spoken(t, l)
           /\ Spoken(t, l)' /\ Settled(t, l) => Settled(t, l)'
           /\ ~Spoken(t, l)' /\ Spoken(t, l) => About(Head(wire), t, l)
           /\ ~Spoken(t, l)' /\ Settled(t, l) =>
                (l \in Apply({}, Head(wire)) <=> l \in venue[t])
<1>1. /\ Len(wire) \in Nat \ {0} /\ DOMAIN wire = 1..Len(wire)
      /\ DOMAIN wire' = 1..(Len(wire) - 1) /\ Head(wire) = wire[1]
      /\ \A i \in DOMAIN wire' : i + 1 \in DOMAIN wire /\ wire'[i] = wire[i + 1]
      /\ \A i \in DOMAIN wire : i = 1 \/ i - 1 \in DOMAIN wire'
  OBVIOUS
<1>2. \A i \in DOMAIN wire : i # 1 => wire'[i - 1] = wire[i]
  BY <1>1
<1>3. Spoken(t, l)' => Spoken(t, l)
  BY <1>1 DEF Spoken, About
<1>4. ASSUME NEW i \in DOMAIN wire, LastWord(i, t, l), i # 1
      PROVE  i - 1 \in DOMAIN wire' /\ LastWord(i - 1, t, l)' /\ wire'[i - 1] = wire[i]
  <2>1. i - 1 \in DOMAIN wire' /\ wire'[i - 1] = wire[i] /\ About(wire[i], t, l)
    BY <1>1, <1>2, <1>4 DEF LastWord
  <2>2. ASSUME NEW j \in DOMAIN wire', j > i - 1 PROVE ~About(wire'[j], t, l)
    BY <1>1, <1>4, <2>2 DEF LastWord
  <2>. QED BY <2>1, <2>2 DEF LastWord, About
<1>5. ASSUME LastWord(1, t, l) PROVE ~Spoken(t, l)'
  BY <1>1, <1>5 DEF LastWord, Spoken, About
<1>6. Spoken(t, l)' /\ Settled(t, l) => Settled(t, l)'
  BY <1>4, <1>5 DEF Settled, Apply
<1>7. ~Spoken(t, l)' /\ Spoken(t, l) => About(Head(wire), t, l)
  BY <1>1, <1>2 DEF Spoken, About
<1>8. ASSUME ~Spoken(t, l)', NEW i \in DOMAIN wire, LastWord(i, t, l) PROVE i = 1
  BY <1>4, <1>8 DEF Spoken, LastWord, About
<1>9. ~Spoken(t, l)' /\ Settled(t, l) => (l \in Apply({}, Head(wire)) <=> l \in venue[t])
  BY <1>1, <1>8 DEF Settled
<1>. QED BY <1>3, <1>6, <1>7, <1>9

(* A message about a level leaves it the same in every book.                *)
LEMMA ApplyOverrides ==
    ASSUME NEW m \in Message, NEW book \in SUBSET Levels, NEW t \in Tokens, NEW l \in Levels
    PROVE  /\ m.token \in Tokens /\ Apply(book, m) \in SUBSET Levels
           /\ About(m, t, l) => (l \in Apply(book, m) <=> l \in Apply({}, m))
           /\ m.token = t /\ ~About(m, t, l) => (l \in Apply(book, m) <=> l \in book)
           /\ m.token = t /\ m.kind = "book" => About(m, t, l)
<1>1. CASE m \in WholeBook
  BY <1>1 DEF WholeBook, Apply, About
<1>2. CASE m \in OneLevel
  BY <1>2 DEF OneLevel, Apply, About
<1>. QED BY <1>1, <1>2 DEF Message

(* Nothing is on its way, or it is as it was: no word changes.              *)
LEMMA SameWords ==
    ASSUME wire' = wire, venue' = venue
    PROVE  \A t \in Tokens, l \in Levels :
              /\ Spoken(t, l)' <=> Spoken(t, l)
              /\ Settled(t, l)' <=> Settled(t, l)
  BY DEF Spoken, Settled, LastWord, About, Apply

(* At the start nothing has moved and no message is on its way.             *)
LEMMA ReplayInvInit == Init => ReplayInv
<1> SUFFICES ASSUME Init PROVE ReplayInv
  OBVIOUS
<1> USE DEF Init, FeedInit
<1>1. FeedInv
  BY FeedAssumption DEF FeedInv
<1>2. WordInv /\ SilentInv
  BY DEF WordInv, SilentInv, Spoken
<1>. QED BY <1>1, <1>2 DEF ReplayInv

(* The venue changes a level, and says so if it can.                        *)
LEMMA ReplayVenueMoves ==
    ASSUME ReplayInv, NEW t \in Tokens, NEW l \in Levels, VenueMoves(t, l)
    PROVE  ReplayInv'
<1> USE DEF VenueMoves
<1>0. FeedInv /\ WordInv /\ SilentInv /\ wire \in Seq(Message)
  BY DEF ReplayInv, FeedInv
<1>v. /\ venue' \in [Tokens -> SUBSET Levels]
      /\ \A u \in Tokens, k \in Levels : u # t \/ k # l => (k \in venue'[u] <=> k \in venue[u])
      /\ l \in venue'[t] <=> l \notin venue[t]
  BY <1>0 DEF FeedInv
<1>1. CASE up
  <2> DEFINE m == IF l \in venue[t] THEN Clear(t, l) ELSE Set(t, l)
  <2>1. m \in Message /\ wire' = Append(wire, m) /\ UNCHANGED <<lost, rest, local, up>>
    BY <1>1 DEF Message, OneLevel, Set, Clear
  <2>2. \A u \in Tokens, k \in Levels : About(m, u, k) <=> (u = t /\ k = l)
    BY DEF About, Set, Clear
  <2>3. l \in Apply({}, m) <=> l \in venue'[t]
    BY <1>v DEF Apply, Set, Clear
  <2>4. PICK mm \in Message : mm = m
    BY <2>1
  <2> HIDE DEF m, VenueMoves
  <2>5. FeedInv'
    BY <1>0, <1>v, <2>1 DEF FeedInv
  <2>6. ASSUME NEW u \in Tokens, NEW k \in Levels
        PROVE  /\ Spoken(u, k)' => Settled(u, k)'
               /\ ~Spoken(u, k)' => ~Spoken(u, k) /\ (u # t \/ k # l)
    <3>1. CASE u = t /\ k = l
      <4>1. PICK i \in DOMAIN wire' : LastWord(i, u, k)' /\ wire'[i] = mm
        BY <1>0, <2>1, <2>2, <2>4, <3>1, SentWord
      <4>2. Settled(u, k)'
        BY <4>1, <2>3, <2>4, <3>1 DEF Settled, Apply
      <4>3. Spoken(u, k)'
        BY <4>1 DEF Spoken, LastWord
      <4>. QED BY <4>2, <4>3
    <3>2. CASE ~(u = t /\ k = l)
      <4>1. /\ Spoken(u, k)' <=> Spoken(u, k)
            /\ \A i \in DOMAIN wire : LastWord(i, u, k) =>
                  i \in DOMAIN wire' /\ LastWord(i, u, k)' /\ wire'[i] = wire[i]
        BY <1>0, <2>1, <2>2, <2>4, <3>2, SentWord
      <4>2. Settled(u, k) => Settled(u, k)'
        BY <4>1, <1>v, <3>2 DEF Settled, Apply
      <4>. QED BY <4>1, <4>2, <1>0, <3>2 DEF WordInv
    <3>. QED BY <3>1, <3>2
  <2>7. WordInv'
    BY <2>6 DEF WordInv
  <2>8. SilentInv'
    BY <2>6, <2>1, <1>0, <1>v DEF SilentInv
  <2>. QED BY <1>1, <2>1, <2>5, <2>7, <2>8 DEF ReplayInv
<1>2. CASE ~up
  <2>1. /\ wire = <<>> /\ wire' = <<>> /\ local' = local
        /\ lost' = [lost EXCEPT ![t] = TRUE] /\ rest' = Overtaken(t)
    BY <1>2 DEF ReplayInv
  <2>2. FeedInv'
    BY <1>0, <1>v, <2>1 DEF FeedInv, Overtaken
  <2>3. \A u \in Tokens, k \in Levels : ~Spoken(u, k) /\ ~Spoken(u, k)'
    BY <2>1 DEF Spoken
  <2>4. WordInv'
    BY <2>3 DEF WordInv
  <2>5. SilentInv'
    BY <2>1, <2>3, <1>0, <1>v DEF SilentInv, FeedInv, Overtaken
  <2>. QED BY <2>1, <2>2, <2>4, <2>5 DEF ReplayInv
<1>. QED BY <1>1, <1>2

(* The venue sends a whole book: from now on it is the last word.           *)
LEMMA ReplayVenueSendsBook ==
    ASSUME ReplayInv, NEW t \in Tokens, VenueSendsBook(t)
    PROVE  ReplayInv'
<1> USE DEF VenueSendsBook
<1>0. FeedInv /\ WordInv /\ SilentInv /\ wire \in Seq(Message) /\ UNCHANGED <<venue, local, up, rest, lost>>
  BY DEF ReplayInv, FeedInv
<1>1. PICK m \in Message : m = Book(t)
  BY <1>0 DEF Message, WholeBook, Book, FeedInv
<1>2. /\ wire' = Append(wire, m)
      /\ \A u \in Tokens, k \in Levels : About(m, u, k) <=> u = t
      /\ Apply({}, m) = venue[t]
  BY <1>1 DEF About, Book, Apply
<1>3. FeedInv'
  BY <1>0, <1>2 DEF FeedInv
<1>4. ASSUME NEW u \in Tokens, NEW k \in Levels
      PROVE  (Spoken(u, k)' => Settled(u, k)') /\ (~Spoken(u, k)' => ~Spoken(u, k))
  <2>1. CASE u = t
    <3>1. PICK i \in DOMAIN wire' : LastWord(i, u, k)' /\ wire'[i] = m
      BY <1>0, <1>2, <2>1, SentWord
    <3>. QED BY <3>1, <1>0, <1>2, <2>1 DEF Settled, Spoken, LastWord, Apply
  <2>2. CASE u # t
    <3>1. /\ Spoken(u, k)' <=> Spoken(u, k)
          /\ \A i \in DOMAIN wire : LastWord(i, u, k) =>
                i \in DOMAIN wire' /\ LastWord(i, u, k)' /\ wire'[i] = wire[i]
      BY <1>0, <1>2, <2>2, SentWord
    <3>2. Settled(u, k) => Settled(u, k)'
      BY <3>1, <1>0 DEF Settled, Apply
    <3>. QED BY <3>1, <3>2, <1>0 DEF WordInv
  <2>. QED BY <2>1, <2>2
<1>5. WordInv' /\ SilentInv'
  BY <1>0, <1>4 DEF WordInv, SilentInv
<1>. QED BY <1>3, <1>5 DEF ReplayInv

(* The agent applies the next message: the book then has what the message   *)
(* said, and that was the venue's last word or another one is to come.      *)
LEMMA ReplayDeliver == ReplayInv /\ Deliver => ReplayInv'
<1> SUFFICES ASSUME ReplayInv, Deliver PROVE ReplayInv'
  OBVIOUS
<1>0. FeedInv /\ WordInv /\ SilentInv /\ wire \in Seq(Message) /\ wire # <<>>
  BY DEF ReplayInv, FeedInv, Deliver
<1>1. PICK m \in Message : m = Head(wire)
  BY <1>0
<1>2. /\ local' = [local EXCEPT ![m.token] = Apply(@, m)]
      /\ lost' = [lost EXCEPT ![m.token] = @ /\ m.kind # "book"]
      /\ rest' = Overtaken(m.token) /\ wire' = Tail(wire) /\ UNCHANGED <<venue, up>>
  BY <1>1 DEF Deliver
<1>3. m.token \in Tokens
  BY ApplyOverrides DEF Message, WholeBook, OneLevel
<1>4. FeedInv'
  <2>1. local' \in [Tokens -> SUBSET Levels]
    <3>1. Apply(local[m.token], m) \in SUBSET Levels
      BY <1>0, <1>3, ApplyOverrides DEF FeedInv, Message, WholeBook, OneLevel, Apply
    <3>. QED BY <3>1, <1>0, <1>2 DEF FeedInv
  <2>2. wire' \in Seq(Message)
    BY <1>0, <1>2
  <2>4. lost' \in [Tokens -> BOOLEAN]
    <3>1. (lost[m.token] /\ m.kind # "book") \in BOOLEAN
      OBVIOUS
    <3>. QED BY <3>1, <1>0, <1>2 DEF FeedInv
  <2>3. rest' \in [token : Tokens, asks : SUBSET Levels, stale : BOOLEAN] \cup {None}
    BY <1>0, <1>2 DEF FeedInv, Overtaken
  <2>. QED BY <2>1, <2>2, <2>3, <2>4, <1>0, <1>2 DEF FeedInv
<1>5. ASSUME NEW t \in Tokens, NEW l \in Levels
      PROVE  /\ Spoken(t, l)' => Settled(t, l)'
             /\ ~Spoken(t, l)' =>
                  /\ ~lost'[t] => (l \in local'[t] <=> l \in venue'[t])
                  /\ rest' # None /\ rest'.token = t /\ ~rest'.stale
                        => (l \in rest'.asks <=> l \in venue'[t])
  <2>1. /\ Spoken(t, l)' => Spoken(t, l)
        /\ Spoken(t, l)' /\ Settled(t, l) => Settled(t, l)'
        /\ ~Spoken(t, l)' /\ Spoken(t, l) => About(m, t, l)
        /\ ~Spoken(t, l)' /\ Settled(t, l) => (l \in Apply({}, m) <=> l \in venue[t])
    BY <1>0, <1>1, <1>2, TakenWord
  <2>2. Spoken(t, l) => Settled(t, l)
    BY <1>0 DEF WordInv
  <2>3. ASSUME ~Spoken(t, l)', ~lost'[t] PROVE l \in local'[t] <=> l \in venue[t]
    <3>1. CASE m.token # t
      <4>1. ~About(m, t, l) /\ local'[t] = local[t] /\ ~lost[t]
        BY <1>0, <1>2, <2>3, <3>1 DEF About, FeedInv
      <4>. QED BY <4>1, <2>1, <2>3, <1>0 DEF SilentInv
    <3>2. CASE m.token = t /\ About(m, t, l)
      <4>1. local'[t] = Apply(local[t], m) /\ local[t] \in SUBSET Levels
        BY <1>0, <1>2, <3>2 DEF FeedInv
      <4>2. l \in Apply(local[t], m) <=> l \in Apply({}, m)
        BY <4>1, <3>2, ApplyOverrides
      <4>3. Spoken(t, l)
        <5>1. 1 \in DOMAIN wire /\ wire[1] = m
          BY <1>0, <1>1
        <5>. QED BY <5>1, <3>2 DEF Spoken
      <4>. QED BY <4>1, <4>2, <4>3, <2>1, <2>2, <2>3
    <3>3. CASE m.token = t /\ ~About(m, t, l)
      <4>1. local'[t] = Apply(local[t], m) /\ local[t] \in SUBSET Levels
        BY <1>0, <1>2, <3>3 DEF FeedInv
      <4>2. m.kind # "book" /\ (l \in Apply(local[t], m) <=> l \in local[t])
        BY <4>1, <3>3, ApplyOverrides
      <4>3. ~lost[t]
        BY <1>0, <1>2, <2>3, <3>3, <4>2 DEF FeedInv
      <4>. QED BY <4>1, <4>2, <4>3, <3>3, <2>1, <2>3, <1>0 DEF SilentInv
    <3>. QED BY <3>1, <3>2, <3>3
  <2>4. ASSUME ~Spoken(t, l)', rest' # None, rest'.token = t, ~rest'.stale
        PROVE  l \in rest'.asks <=> l \in venue[t]
    <3>1. rest' = rest /\ m.token # t
      BY <1>0, <1>2, <2>4 DEF Overtaken, FeedInv
    <3>2. ~About(m, t, l)
      BY <3>1 DEF About
    <3>. QED BY <3>1, <3>2, <2>1, <2>4, <1>0 DEF SilentInv
  <2>. QED BY <2>1, <2>2, <2>3, <2>4, <1>2
<1>6. WordInv' /\ SilentInv'
  BY <1>5 DEF WordInv, SilentInv
<1>7. (~up => wire = <<>>)'
  BY <1>0, <1>2 DEF ReplayInv
<1>. QED BY <1>4, <1>6, <1>7 DEF ReplayInv

(* The connection breaks: a book about which something was on its way has   *)
(* missed it.                                                               *)
LEMMA ReplayBreak == ReplayInv /\ Break => ReplayInv'
<1> SUFFICES ASSUME ReplayInv, Break PROVE ReplayInv'
  OBVIOUS
<1>0. FeedInv /\ WordInv /\ SilentInv
  BY DEF ReplayInv
<1>1. /\ wire' = <<>> /\ UNCHANGED <<venue, local>>
      /\ lost' = [t \in Tokens |-> lost[t] \/ \E i \in DOMAIN wire : wire[i].token = t]
      /\ rest' = IF rest # None /\ \E i \in DOMAIN wire : wire[i].token = rest.token
                 THEN Overtaken(rest.token) ELSE rest
  BY DEF Break
<1>2. FeedInv'
  <2>1. lost' \in [Tokens -> BOOLEAN] /\ wire' \in Seq(Message)
    BY <1>0, <1>1 DEF FeedInv
  <2>2. rest' \in [token : Tokens, asks : SUBSET Levels, stale : BOOLEAN] \cup {None}
    BY <1>0, <1>1 DEF FeedInv, Overtaken
  <2>. QED BY <1>0, <1>1, <2>1, <2>2 DEF FeedInv
<1>3. \A t \in Tokens, l \in Levels : ~Spoken(t, l)'
  BY <1>1 DEF Spoken
<1>4. WordInv'
  BY <1>3 DEF WordInv
<1>5. ASSUME NEW t \in Tokens, NEW l \in Levels, ~lost'[t]
      PROVE  l \in local[t] <=> l \in venue[t]
  BY <1>0, <1>1, <1>5 DEF SilentInv, Spoken, About
<1>6. ASSUME NEW l \in Levels, rest' # None, ~rest'.stale
      PROVE  rest' = rest /\ (rest.token \in Tokens => (l \in rest.asks <=> l \in venue[rest.token]))
  <2>1. rest' = rest /\ ~ \E i \in DOMAIN wire : wire[i].token = rest.token
    BY <1>0, <1>1, <1>6 DEF Overtaken, FeedInv
  <2>2. ~Spoken(rest.token, l)
    BY <2>1 DEF Spoken, About
  <2>. QED BY <2>1, <2>2, <1>0, <1>6 DEF SilentInv
<1>7. SilentInv'
  BY <1>1, <1>5, <1>6 DEF SilentInv
<1>. QED BY <1>1, <1>2, <1>4, <1>7 DEF ReplayInv

(* What the pipeline loop does: it drops the books, asks for a snapshot,    *)
(* which is the venue's book then, and lets it replace its own.             *)
LEMMA ReplaySubscribe == ReplayInv /\ (Connect \/ Subscribe) => ReplayInv'
<1> SUFFICES ASSUME ReplayInv, Connect \/ Subscribe PROVE ReplayInv'
  OBVIOUS
<1>0. FeedInv /\ WordInv /\ SilentInv /\ (~up => wire = <<>>)
  BY DEF ReplayInv
<1>1. CASE Connect
  <2>1. up' = TRUE /\ UNCHANGED <<venue, local, wire, rest, lost>>
    BY <1>1 DEF Connect
  <2>. QED BY <1>0, <2>1, SameWords DEF ReplayInv, FeedInv, WordInv, SilentInv
<1>2. CASE Resubscribe
  <2>1. /\ wire' = <<>> /\ local' = [t \in Tokens |-> {}] /\ lost' = [t \in Tokens |-> TRUE]
        /\ rest = None /\ UNCHANGED <<venue, rest>>
    BY <1>2 DEF Resubscribe
  <2>2. \A t \in Tokens, l \in Levels : ~Spoken(t, l)'
    BY <2>1 DEF Spoken
  <2>. QED BY <1>0, <2>1, <2>2 DEF ReplayInv, FeedInv, WordInv, SilentInv
<1>3. ASSUME NEW t \in Tokens, FetchBook(t) PROVE ReplayInv'
  <2>1. /\ rest' = [token |-> t, asks |-> venue[t], stale |-> FALSE]
        /\ UNCHANGED <<venue, local, up, wire, lost>>
    BY <1>3 DEF FetchBook
  <2>2. FeedInv'
    BY <1>0, <2>1 DEF FeedInv
  <2>3. WordInv' /\ SilentInv'
    BY <1>0, <2>1, SameWords DEF WordInv, SilentInv
  <2>. QED BY <1>0, <2>1, <2>2, <2>3 DEF ReplayInv
<1>4. CASE BootBook
  <2>1. /\ rest # None /\ rest' = None /\ local' = [local EXCEPT ![rest.token] = rest.asks]
        /\ lost' = [lost EXCEPT ![rest.token] = rest.stale] /\ UNCHANGED <<venue, up, wire>>
    BY <1>4 DEF BootBook
  <2>2. rest \in [token : Tokens, asks : SUBSET Levels, stale : BOOLEAN]
    BY <1>0, <2>1 DEF FeedInv
  <2>3. FeedInv'
    BY <1>0, <2>1, <2>2 DEF FeedInv
  <2>4. WordInv' /\ SilentInv'
    BY <1>0, <2>1, <2>2, SameWords DEF WordInv, SilentInv, FeedInv
  <2>. QED BY <1>0, <2>1, <2>3, <2>4 DEF ReplayInv
<1>5. CASE FetchFails
  <2>1. rest' = None /\ UNCHANGED <<venue, local, up, wire, lost>>
    BY <1>5 DEF FetchFails
  <2>. QED BY <1>0, <2>1, SameWords DEF ReplayInv, FeedInv, WordInv, SilentInv
<1>. QED BY <1>1, <1>2, <1>3, <1>4, <1>5 DEF Subscribe

(* Every message, break, reconnection and snapshot keeps the replay         *)
(* invariant; what a tick does leaves the feed alone.                       *)
LEMMA ReplayInvNext == ReplayInv /\ [Next]_vars => ReplayInv'
<1> SUFFICES ASSUME ReplayInv, [Next]_vars PROVE ReplayInv'
  OBVIOUS
<1>1. CASE UNCHANGED feedVars
  <2>1. UNCHANGED <<venue, local, up, wire, rest, lost>>
    BY <1>1 DEF feedVars
  <2>. QED BY <2>1, SameWords DEF ReplayInv, FeedInv, WordInv, SilentInv
<1>2. CASE Stream
  BY <1>2, ReplayVenueMoves, ReplayVenueSendsBook, ReplayDeliver, ReplayBreak, ReplaySubscribe
  DEF Stream
<1>3. CASE Subscribe
  BY <1>3, ReplaySubscribe
<1>4. Tick => UNCHANGED feedVars
  BY DEF Tick, TickBegins, TickDecides, TickEnds
<1>. QED BY <1>1, <1>2, <1>3, <1>4 DEF Next, vars

(* So it holds in every state.                                              *)
LEMMA ReplayInvariant == Spec => []ReplayInv
  BY ReplayInvInit, ReplayInvNext, PTL DEF Spec

(* A book that has missed nothing since its last whole book or snapshot     *)
(* becomes the book of the venue, for any prices, any number of changes and *)
(* messages on their way, and any breaks and snapshots in between           *)
(* (clob_ws.py:159, main.py:217).                                           *)
THEOREM BooksAreReplayed == Spec => []BookIsReplayed
  BY ReplayInvariant, ReplayInvImplies, PTL

-----------------------------------------------------------------------------
(* The price of an order.                                                   *)

(* A set of numbers has a least one: of the intervals 0..k that end in it   *)
(* one contains no other.                                                   *)
LEMMA LeastNumber ==
    ASSUME NEW S \in SUBSET Nat, S # {}
    PROVE  \E m \in S : \A x \in S : m <= x
<1> DEFINE T == {0..k : k \in S}
           R == StrictSubsetOrdering(Nat)
<1>1. IsWellFoundedOn(R, FiniteSubsetsOf(Nat))
  BY FS_StrictSubsetOrderingWellFounded
<1>2. T \subseteq FiniteSubsetsOf(Nat) /\ T # {}
  <2>1. ASSUME NEW k \in S PROVE 0..k \in FiniteSubsetsOf(Nat)
    <3>1. k \in Int /\ 0 \in Int /\ 0..k \subseteq Nat
      OBVIOUS
    <3>2. IsFiniteSet(0..k)
      BY <3>1, FS_Interval
    <3>. QED BY <3>1, <3>2 DEF FiniteSubsetsOf
  <2>. QED BY <2>1
<1>3. PICK x \in T : \A y \in T : ~ (<<y, x>> \in R)
  <2> HIDE DEF T, R
  <2>. QED BY <1>1, <1>2, WFMin
<1>4. PICK m \in S : x = 0..m
  BY <1>3
<1>5. ASSUME NEW k \in S, k < m PROVE FALSE
  <2>1. 0..k \in T /\ 0..k \subseteq 0..m /\ 0..k # 0..m /\ 0..k \subseteq Nat /\ 0..m \subseteq Nat
    BY <1>5
  <2>. QED BY <1>3, <1>4, <2>1 DEF StrictSubsetOrdering
<1>. QED BY <1>5

(* Min of a set of prices is its least member.                              *)
LEMMA MinIsLeast ==
    ASSUME NEW S \in SUBSET Nat, S # {}
    PROVE  Min(S) \in S /\ \A x \in S : Min(S) <= x
  BY LeastNumber DEF Min

(* Max of a bounded set of prices is its greatest member: the least         *)
(* distance from the bound.                                                 *)
LEMMA MaxIsGreatest ==
    ASSUME NEW n \in Nat, NEW S \in SUBSET (0..n), S # {}
    PROVE  Max(S) \in S /\ \A x \in S : x <= Max(S)
<1> DEFINE T == {n - x : x \in S}
<1>1. T \in SUBSET Nat /\ T # {}
  <2>1. ASSUME NEW x \in S PROVE n - x \in Nat
    OBVIOUS
  <2>. QED BY <2>1
<1>2. PICK m \in T : \A x \in T : m <= x
  BY <1>1, LeastNumber
<1>3. PICK a \in S : m = n - a
  BY <1>2
<1>4. ASSUME NEW x \in S PROVE a >= x
  BY <1>2, <1>3
<1>. QED BY <1>3, <1>4 DEF Max

(* An ask is a level of the book.                                           *)
LEMMA AskIsLevel ==
    ASSUME FeedInv, NEW t \in Tokens, Asked(t)
    PROVE  Ask(t) \in Levels /\ Ask(t) \in Nat /\ Ask(t) < One /\ One \in Nat
<1>1. local[t] \in SUBSET Nat /\ local[t] \subseteq Levels /\ local[t] # {}
  BY FeedAssumption DEF FeedInv, Asked
<1>. QED BY <1>1, MinIsLeast, FeedAssumption, DecisionAssumption DEF Ask

(* Signal s saw the books at the start of the tick; a pair among them       *)
(* costs less than a dollar.                                                *)
SawStart(s, start) ==
    /\ s.side \in Tokens /\ start[s.side] # {} /\ s.price = Min(start[s.side])
    /\ s.price \in 0..One
    /\ s.partner # None => s.side = "YES" /\ s.partner \in Nat /\ s.price + s.partner < One

(* The language model saw the books when it had answered.                   *)
SawLater(s) == s.strategy = "fundamentals" /\ s.partner = None /\ s.price \in 0..One

OrderInv ==
    /\ tick = [pc |-> tick.pc, signals |-> tick.signals, start |-> tick.start]
    /\ tick.pc = "asking" => \A s \in tick.signals : SawStart(s, tick.start)
    /\ tick.pc # "routing" => order = None
    /\ PaysAnAsk /\ PairLocksProfit

(* The strategies that do not wait look at the asks of the moment.          *)
LEMMA SignalsSawAsks ==
    ASSUME FeedInv, NEW who, NEW t \in Tokens
    PROVE  /\ \A s \in Arbitrage(who) : SawStart(s, local)
           /\ \A s \in Likes(who, t) : SawStart(s, local)
<1>1. ASSUME NEW s \in Arbitrage(who) PROVE SawStart(s, local)
  <2>1. "YES" \in Tokens /\ "NO" \in Tokens /\ MinGap \in Nat \ {0}
    BY DecisionAssumption
  <2>2. /\ Asked("YES") /\ Asked("NO") /\ Ask("YES") + Ask("NO") + MinGap <= One
        /\ s = Signal(who, "YES", One, Ask("YES"), Ask("NO"))
    BY <1>1 DEF Arbitrage
  <2>3. /\ s.side = "YES" /\ s.price = Ask("YES") /\ s.partner = Ask("NO")
    BY <2>2 DEF Signal
  <2>4. Ask("YES") \in Nat /\ Ask("NO") \in Nat /\ One \in Nat
    BY <2>1, <2>2, AskIsLevel
  <2>5. s.price + s.partner < One /\ s.price \in 0..One
    BY <2>1, <2>2, <2>3, <2>4
  <2>. QED BY <2>1, <2>2, <2>3, <2>4, <2>5 DEF SawStart, Asked, Ask
<1>2. ASSUME NEW s \in Likes(who, t) PROVE SawStart(s, local)
  <2>1. /\ Asked(t) /\ s.side = t /\ s.price = Ask(t) /\ s.partner = None
    BY <1>2 DEF Likes, Signal
  <2>2. Ask(t) \in 0..One
    BY <2>1, AskIsLevel
  <2>. QED BY <2>1, <2>2 DEF SawStart, Asked, Ask
<1>. QED BY <1>1, <1>2

(* The price of a fundamentals signal is the ask at the moment it looks.    *)
LEMMA FundamentalsSawLater ==
    ASSUME FeedInv, NEW yes \in Nat
    PROVE  \A s \in Fundamentals(yes) : SawLater(s)
<1> SUFFICES ASSUME NEW s \in Fundamentals(yes) PROVE SawLater(s)
  OBVIOUS
<1>1. \E t \in Tokens : Asked(t) /\ \E p, q : s = Signal("fundamentals", t, p, q, None)
  BY DecisionAssumption DEF Fundamentals
<1>2. PICK t \in Tokens : Asked(t) /\ \E p, q : s = Signal("fundamentals", t, p, q, None)
  BY <1>1
<1>3. s.strategy = "fundamentals" /\ s.partner = None /\ s.price = Ask(t)
  BY <1>2 DEF Signal
<1>4. Ask(t) \in 0..One
  BY <1>2, AskIsLevel
<1>. QED BY <1>3, <1>4 DEF SawLater

(* The order made of unopposed signals pays one of their prices, and no     *)
(* less than that of a pair among them.                                     *)
LEMMA AggregatePays ==
    ASSUME NEW signals, NEW start, Unopposed(signals),
           \A s \in signals : SawStart(s, start) \/ SawLater(s)
    PROVE  LET o == Aggregate(signals) IN
           /\ o.signals = signals
           /\ \E s \in signals : s.price = o.price /\ s.side = o.token
           /\ o.pair # None => \/ o.price + o.pair < One
                              \/ o.price > Min(start["YES"])
<1> DEFINE o == Aggregate(signals)
           prices == {s.price : s \in signals}
           arbs == {s \in signals : s.partner # None}
<1>1. PICK t \in Tokens : signals # {} /\ \A s \in signals : s.side = t
  BY DEF Unopposed
<1>2. (CHOOSE s \in signals : TRUE) \in signals
  BY <1>1
<1>3. o.token = t /\ o.signals = signals /\ o.price = Max(prices)
  BY <1>1, <1>2 DEF Aggregate
<1>4. One \in Nat /\ prices \in SUBSET (0..One) /\ prices # {}
  BY <1>1, DecisionAssumption DEF SawStart, SawLater
<1>5. Max(prices) \in prices /\ \A x \in prices : x <= Max(prices)
  <2> HIDE DEF prices
  <2>. QED BY <1>4, MaxIsGreatest
<1>6. PICK s \in signals : s.price = Max(prices)
  BY <1>5
<1>7. ASSUME o.pair # None PROVE o.price + o.pair < One \/ o.price > Min(start["YES"])
  <2>1. arbs # {} /\ o.pair = (CHOOSE a \in arbs : TRUE).partner
    BY <1>7 DEF Aggregate
  <2>2. PICK a \in arbs : o.pair = a.partner
    BY <2>1
  <2>3. a \in signals /\ a.partner # None /\ SawStart(a, start)
    BY <2>2 DEF SawLater
  <2>4. /\ a.price = Min(start["YES"]) /\ a.price \in 0..One /\ a.partner \in Nat
        /\ a.price + a.partner < One
    BY <2>3 DEF SawStart
  <2>5. a.price <= o.price /\ o.price \in 0..One
    BY <1>3, <1>4, <1>5, <2>3
  <2>. QED BY <2>2, <2>4, <2>5
<1> HIDE DEF o, prices, arbs
<1>. QED BY <1>1, <1>3, <1>6, <1>7 DEF o

(* No tick has begun, so there is no order to speak of.                     *)
LEMMA OrderInvInit == Init => OrderInv
  BY DEF Init, OrderInv, Quiet, PaysAnAsk, PairLocksProfit

(* A tick begins with what the books say, and ends in an order made of it   *)
(* and of what the model added; the feed goes on meanwhile and changes      *)
(* neither.                                                                 *)
LEMMA OrderInvNext == FeedInv /\ OrderInv /\ [Next]_vars => OrderInv'
<1> SUFFICES ASSUME FeedInv, OrderInv, [Next]_vars PROVE OrderInv'
  OBVIOUS
<1>1. CASE UNCHANGED tickVars
  BY <1>1 DEF OrderInv, PaysAnAsk, PairLocksProfit, tickVars
<1>2. CASE TickBegins
  <2>2. PICK arbitrage \in {Arbitrage("arbitrage"), {}},
             sentiment \in Sentiment, smart \in SmartMoney, stat \in StatQuant :
          tick' = [pc |-> "asking", signals |-> arbitrage \cup sentiment \cup smart \cup stat,
                   start |-> local]
    BY <1>2 DEF TickBegins
  <2>3. \A s \in arbitrage : SawStart(s, local)
    BY SignalsSawAsks, DecisionAssumption
  <2>4. \A s \in sentiment : SawStart(s, local)
    BY SignalsSawAsks DEF Sentiment, Nobody
  <2>5. \A s \in smart : SawStart(s, local)
    BY SignalsSawAsks DEF SmartMoney, Nobody
  <2>6. \A s \in stat : SawStart(s, local)
    BY SignalsSawAsks DEF StatQuant, Nobody
  <2>7. /\ tick' = [pc |-> tick'.pc, signals |-> tick'.signals, start |-> tick'.start]
        /\ tick'.pc = "asking" /\ \A s \in tick'.signals : SawStart(s, tick'.start)
    BY <2>2, <2>3, <2>4, <2>5, <2>6
  <2>8. order' = None
    BY <1>2 DEF TickBegins, OrderInv
  <2>. QED BY <2>7, <2>8 DEF OrderInv, PaysAnAsk, PairLocksProfit, SawStart
<1>3. CASE TickDecides
  <2>1. PICK estimate \in {Fundamentals(p) : p \in 0..One} \cup Nobody :
             \/ /\ Unopposed(tick.signals \cup estimate)
                /\ order' = Aggregate(tick.signals \cup estimate)
                /\ tick' = [tick EXCEPT !.pc = "routing", !.signals = {}]
             \/ tick' = Quiet /\ UNCHANGED order
    BY <1>3 DEF TickDecides
  <2>2. CASE tick' = Quiet /\ UNCHANGED order
    <3>1. order' = None
      BY <1>3, <2>2 DEF TickDecides, OrderInv
    <3>. QED BY <2>2, <3>1 DEF OrderInv, Quiet, PaysAnAsk, PairLocksProfit
  <2>3. CASE /\ Unopposed(tick.signals \cup estimate)
             /\ order' = Aggregate(tick.signals \cup estimate)
             /\ tick' = [tick EXCEPT !.pc = "routing", !.signals = {}]
    <3>1. \A s \in tick.signals : SawStart(s, tick.start)
      BY <1>3 DEF TickDecides, OrderInv
    <3>2. \A s \in estimate : SawLater(s)
      <4>1. \A p \in 0..One : p \in Nat
        BY DecisionAssumption
      <4>. QED BY <4>1, FundamentalsSawLater DEF Nobody
    <3>3. \A s \in tick.signals \cup estimate : SawStart(s, tick.start) \/ SawLater(s)
      BY <3>1, <3>2
    <3>4. /\ order'.signals = tick.signals \cup estimate
          /\ \E s \in tick.signals \cup estimate :
                s.price = order'.price /\ s.side = order'.token
          /\ order'.pair # None => \/ order'.price + order'.pair < One
                                  \/ order'.price > Min(tick.start["YES"])
      BY <2>3, <3>3, AggregatePays
    <3>5. tick' = [pc |-> "routing", signals |-> {}, start |-> tick.start]
      BY <2>3 DEF OrderInv
    <3>6. PairLocksProfit'
      BY <3>4, <3>5 DEF PairLocksProfit
    <3>7. PaysAnAsk'
      <4>1. PICK s \in tick.signals \cup estimate :
                   s.price = order'.price /\ s.side = order'.token
        BY <3>4
      <4>2. CASE SawStart(s, tick.start)
        BY <3>5, <4>1, <4>2 DEF PaysAnAsk, SawStart
      <4>3. CASE SawLater(s)
        BY <3>4, <4>1, <4>3 DEF PaysAnAsk, SawLater
      <4>. QED BY <3>3, <4>1, <4>2, <4>3
    <3>. QED BY <3>5, <3>6, <3>7 DEF OrderInv
  <2>. QED BY <2>1, <2>2, <2>3
<1>4. CASE TickEnds
  <2>1. tick' = Quiet /\ order' = None
    BY <1>4 DEF TickEnds
  <2>. QED BY <2>1 DEF OrderInv, Quiet, PaysAnAsk, PairLocksProfit
<1>. QED BY <1>1, <1>2, <1>3, <1>4 DEF Next, Tick, vars

(* So what an order pays comes from an ask in every state.                  *)
LEMMA OrderInvariant == Spec => []OrderInv
<1>1. ReplayInv => FeedInv
  BY DEF ReplayInv
<1>. QED BY <1>1, ReplayInvariant, OrderInvInit, OrderInvNext, PTL DEF Spec

(* The limit price of an order is an ask its own token had when the tick    *)
(* began, or the one the fundamentals saw later, whatever the strategies    *)
(* say and however the books move while the model is asked                  *)
(* (aggregator.py:191).                                                     *)
THEOREM OrdersPayAnAsk == Spec => []PaysAnAsk
  BY OrderInvariant, PTL DEF OrderInv

(* Both legs of a pair cost less than a dollar, unless the model wanted YES *)
(* as well and its ask rose while the model was asked                       *)
(* (aggregator.py:191-224).                                                 *)
THEOREM PairsLockProfit == Spec => []PairLocksProfit
  BY OrderInvariant, PTL DEF OrderInv

-----------------------------------------------------------------------------
(* The claim stamped on a position.                                         *)


(* The signals behind an order all want its token.                          *)
Agreed(o) == o.token \in Tokens /\ \A s \in o.signals : s.side = o.token

(* What is inductive: the order a tick carries to the router is agreed on,  *)
(* and every position has a slot for a claim.                               *)
ClaimInv ==
    /\ tick.pc = "routing" => Agreed(order)
    /\ claim \in [Tokens -> Tokens \cup {None}]
    /\ ClaimIsOfToken

(* What aggregate() makes of unopposed signals is agreed on, whichever of   *)
(* them its token is taken from.                                            *)
LEMMA AggregateAgrees ==
    ASSUME NEW signals, Unopposed(signals)
    PROVE  Agreed(Aggregate(signals))
<1>1. PICK t \in Tokens : signals # {} /\ \A s \in signals : s.side = t
  BY DEF Unopposed
<1>2. (CHOOSE s \in signals : TRUE) \in signals
  BY <1>1
<1>3. Aggregate(signals).token = t
  BY <1>1, <1>2 DEF Aggregate
<1>4. Aggregate(signals).signals = signals
  BY DEF Aggregate
<1> QED
  BY <1>1, <1>3, <1>4 DEF Agreed

(* The first state has no order and no claim.                               *)
LEMMA ClaimInvInit == Init => ClaimInv
  BY DEF Init, ClaimInv, ClaimIsOfToken, Quiet

(* Every step keeps it: the feed does not touch the tick, a decision makes  *)
(* an order the signals agree on, and a stamp is the side of one of them.   *)
LEMMA ClaimInvNext == ClaimInv /\ [Next]_vars => ClaimInv'
<1> SUFFICES ASSUME ClaimInv, [Next]_vars PROVE ClaimInv'
  OBVIOUS
<1>1. CASE UNCHANGED tickVars
  BY <1>1 DEF ClaimInv, ClaimIsOfToken, Agreed, tickVars
<1>2. CASE TickBegins
  <2>1. tick'.pc = "asking" /\ claim' = claim
    BY <1>2 DEF TickBegins
  <2> QED
    BY <2>1 DEF ClaimInv, ClaimIsOfToken
<1>3. CASE TickDecides
  <2>1. claim' = claim
    BY <1>3 DEF TickDecides
  <2>2. CASE tick' = Quiet
    BY <2>1, <2>2 DEF ClaimInv, ClaimIsOfToken, Quiet
  <2>3. CASE \E signals : Unopposed(signals) /\ order' = Aggregate(signals)
    <3>1. Agreed(order')
      BY <2>3, AggregateAgrees
    <3> QED
      BY <2>1, <3>1 DEF ClaimInv, ClaimIsOfToken, Agreed
  <2> QED
    BY <1>3, <2>2, <2>3 DEF TickDecides
<1>4. CASE TickEnds
  <2> DEFINE Named(s) == s.strategy = "fundamentals"
             Sure == CHOOSE s \in order.signals : Named(s)
  <2>1. Agreed(order)
    BY <1>4 DEF TickEnds, ClaimInv
  <2>2. tick'.pc = "idle"
    BY <1>4 DEF TickEnds, Quiet
  <2>3. ASSUME \E s \in order.signals : Named(s) PROVE Sure.side = order.token
    <3>1. Sure \in order.signals
      BY <2>3
    <3> QED
      BY <2>1, <3>1 DEF Agreed
  <2>4. \/ claim' = claim
        \/ claim' = [claim EXCEPT ![order.token] = order.token]
    <3>1. \/ claim' = claim
          \/ claim' = [claim EXCEPT ![order.token] =
                         IF \E s \in order.signals : Named(s) THEN Sure.side ELSE @]
      BY <1>4 DEF TickEnds
    <3>2. CASE \E s \in order.signals : Named(s)
      BY <3>1, <3>2, <2>3
    <3>3. CASE ~ \E s \in order.signals : Named(s)
      <4>1. claim = [claim EXCEPT ![order.token] = claim[order.token]]
        BY DEF ClaimInv
      <4> QED
        BY <3>1, <3>3, <4>1
    <3> QED
      BY <3>2, <3>3
  <2>5. order.token \in Tokens /\ claim \in [Tokens -> Tokens \cup {None}]
    BY <2>1 DEF Agreed, ClaimInv
  <2>6. claim' \in [Tokens -> Tokens \cup {None}]
    BY <2>4, <2>5
  <2>7. ClaimIsOfToken'
    BY <2>4, <2>5 DEF ClaimInv, ClaimIsOfToken
  <2> QED
    BY <2>2, <2>6, <2>7 DEF ClaimInv
<1> QED
  BY <1>1, <1>2, <1>3, <1>4 DEF Next, Tick, vars

(* The probability a position claims is one of its own outcome, so that     *)
(* settlement scores it against the outcome it is about: whatever the       *)
(* strategies say, whenever the model answers (pipeline.py:301-320).        *)
THEOREM ClaimsAreOfTheirToken == Spec => []ClaimIsOfToken
<1>1. ClaimInv => ClaimIsOfToken
  BY DEF ClaimInv
<1> QED
  BY <1>1, ClaimInvInit, ClaimInvNext, PTL DEF Spec

-----------------------------------------------------------------------------
(* The types.                                                               *)

RestOfTypeOK ==
    /\ up \in BOOLEAN /\ boot \subseteq Tokens
    /\ moves \in 0 .. MaxMoves /\ breaks \in 0 .. MaxBreaks
    /\ tick.pc \in {"idle", "asking", "routing"} /\ held \subseteq Tokens

(* A step of the feed or of a tick keeps the types of what the feed and the *)
(* order invariants do not speak of.                                        *)
LEMMA RestOfTypeStep ==
    FeedInv /\ OrderInv /\ ClaimInv /\ RestOfTypeOK /\ [Next]_vars => RestOfTypeOK'
<1> SUFFICES ASSUME FeedInv, OrderInv, ClaimInv, RestOfTypeOK, [Next]_vars
             PROVE  RestOfTypeOK'
  OBVIOUS
<1>0. MaxMoves \in Nat /\ MaxBreaks \in Nat
  BY FeedAssumption
<1>1. CASE UNCHANGED vars
  BY <1>1 DEF RestOfTypeOK, vars, feedVars, tickVars
<1>2. CASE (Stream \/ Subscribe) /\ UNCHANGED tickVars
  <2>1. UNCHANGED <<tick, held>>
    BY <1>2 DEF tickVars
  <2>2. \/ \E t \in Tokens, l \in Levels : VenueMoves(t, l)
        \/ \E t \in Tokens : VenueSendsBook(t)
        \/ Deliver \/ Break \/ Connect
        \/ Resubscribe
        \/ \E t \in Tokens : FetchBook(t)
        \/ BootBook \/ FetchFails
    BY <1>2 DEF Stream, Subscribe
  <2> DEFINE Up    == up' = up \/ up' \in {TRUE, FALSE}
             Boot  == boot' = boot \/ boot' = Tokens \/ \E t \in Tokens : boot' = boot \ {t}
             Moves == moves' = moves \/ (moves < MaxMoves /\ moves' = moves + 1)
             Broke == breaks' = breaks \/ (breaks < MaxBreaks /\ breaks' = breaks + 1)
             Done  == Up /\ Boot /\ Moves /\ Broke
  <2>3. ASSUME NEW t \in Tokens, NEW l \in Levels, VenueMoves(t, l) PROVE Done
    BY <2>3 DEF VenueMoves
  <2>4. ASSUME NEW t \in Tokens, VenueSendsBook(t) \/ FetchBook(t) PROVE Done
    BY <2>4 DEF VenueSendsBook, FetchBook
  <2>5. ASSUME Deliver \/ Break \/ Connect \/ Resubscribe \/ BootBook \/ FetchFails PROVE Done
    BY <2>5 DEF Deliver, Break, Connect, Resubscribe, BootBook, FetchFails
  <2>7. Up /\ Boot /\ Moves /\ Broke
    <3>1. Done
      <4> HIDE DEF Done
      <4>. QED BY <2>2, <2>3, <2>4, <2>5
    <3>. QED BY <3>1
  <2>6. moves' \in 0 .. MaxMoves /\ breaks' \in 0 .. MaxBreaks
    BY <1>0, <2>7 DEF RestOfTypeOK
  <2>. QED BY <2>1, <2>6, <2>7 DEF RestOfTypeOK
<1>3. CASE TickBegins
  <2>1. UNCHANGED feedVars /\ held' = held /\ tick'.pc = "asking"
    BY <1>3 DEF TickBegins
  <2>. QED BY <2>1 DEF RestOfTypeOK, feedVars
<1>4. CASE TickDecides
  <2>1. UNCHANGED feedVars /\ UNCHANGED held
    BY <1>4 DEF TickDecides
  <2>2. tick' = Quiet \/ tick' = [tick EXCEPT !.pc = "routing", !.signals = {}]
    BY <1>4 DEF TickDecides
  <2>3. tick'.pc \in {"idle", "asking", "routing"}
    <3>1. CASE tick' = Quiet
      BY <3>1 DEF Quiet
    <3>2. CASE tick' = [tick EXCEPT !.pc = "routing", !.signals = {}]
      BY <3>2 DEF OrderInv
    <3>. QED BY <2>2, <3>1, <3>2
  <2>. QED BY <2>1, <2>3 DEF RestOfTypeOK, feedVars
<1>5. CASE TickEnds
  <2>1. order.token \in Tokens
    BY <1>5 DEF TickEnds, ClaimInv, Agreed
  <2>2. /\ UNCHANGED feedVars /\ tick'.pc = "idle"
        /\ held' = held \/ held' = held \cup {order.token}
    BY <1>5 DEF TickEnds, Quiet
  <2>. QED BY <2>1, <2>2 DEF RestOfTypeOK, feedVars
<1>. QED BY <1>1, <1>2, <1>3, <1>4, <1>5 DEF Next, Tick

(* In every reachable state the variables have their types: the local books *)
(* hold levels of the venue, a claim is of a token or missing.              *)
THEOREM TypeCorrect == Spec => []TypeOK
<1>1. Init => RestOfTypeOK
  <2> SUFFICES ASSUME Init PROVE RestOfTypeOK
    OBVIOUS
  <2>1. up \in BOOLEAN /\ boot \subseteq Tokens /\ held \subseteq Tokens
    BY DEF Init, FeedInit
  <2>2. moves \in 0 .. MaxMoves /\ breaks \in 0 .. MaxBreaks
    BY FeedAssumption DEF Init, FeedInit
  <2>3. tick.pc = "idle"
    BY DEF Init, Quiet
  <2>. QED BY <2>1, <2>2, <2>3 DEF RestOfTypeOK
<1>2. ReplayInv /\ ClaimInv /\ RestOfTypeOK => TypeOK
  <2> SUFFICES ASSUME ReplayInv, ClaimInv, RestOfTypeOK PROVE TypeOK
    OBVIOUS
  <2>1. FeedTypeOK
    BY DEF ReplayInv, FeedInv, RestOfTypeOK, FeedTypeOK
  <2>. QED BY <2>1 DEF TypeOK, RestOfTypeOK, ClaimInv
<1>3. ReplayInv => FeedInv
  BY DEF ReplayInv
<1>. QED
  BY <1>1, <1>2, <1>3, ReplayInvariant, OrderInvariant, ClaimInvInit, ClaimInvNext, RestOfTypeStep, PTL DEF Spec
=============================================================================
