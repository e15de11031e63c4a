---------------------------- MODULE SystemProofs ----------------------------
(***************************************************************************)
(* TypeOK of System is an invariant of the whole program, for all values   *)
(* of the constants (TypeCorrect), and nothing leaves the database that    *)
(* was not marked deleted before (MarksKept, at the end).                  *)
(*                                                                         *)
(* TypeOK is inductive as it stands.  The proof goes upwards: sequences,   *)
(* Clean and the order of rows; every operation of the store, of the       *)
(* markdown client and of the Google Tasks client, none of which leaves    *)
(* its part of the world inconsistent whatever it is asked and wherever it *)
(* fails; every step of a session, which relies on what the operations     *)
(* return; the user at the editor and at the phone; the driver, and a      *)
(* crash.  A step of a session keeps two things: WorldOK, what is true of  *)
(* the world, and GoodSession, that what the session still has to look up  *)
(* is in its maps.                                                         *)
(*                                                                         *)
(* MarksKept rests on TypeCorrect and on MarkInv, what a session knows of  *)
(* the rows that its source had marked when it listed them: they are still *)
(* marked, or gone, however much is written before it purges them.  For    *)
(* that, every operation of the store is shown to take no unmarked row and *)
(* to change the status of no row but the one it is given (Keeps...), and  *)
(* every step of a session to name no marked row to those that write one   *)
(* (...Marks).                                                             *)
(***************************************************************************)
EXTENDS System, TasksProofs

\* A sequence, by its length, its places and its elements.
LEMMA SeqOf ==
    ASSUME NEW s, IsSeq(s)
    PROVE  /\ Len(s) \in Nat /\ DOMAIN s = 1 .. Len(s)
           /\ s \in Seq({s[k] : k \in DOMAIN s})
  BY DEF IsSeq

\* A function on 1 .. n is a sequence of length n.
LEMMA IsSeqOf ==
    ASSUME NEW n \in Nat, NEW s, s = [k \in 1 .. n |-> s[k]]
    PROVE  IsSeq(s) /\ Len(s) = n /\ DOMAIN s = 1 .. n
  BY DEF IsSeq

\* The elements of a sequence over T are in T.
LEMMA SeqIn ==
    ASSUME NEW T, NEW s \in Seq(T)
    PROVE  IsSeq(s) /\ \A k \in DOMAIN s : s[k] \in T
  BY LenProperties DEF IsSeq

\* A sequence that is rewritten place by place remains one of the same length.
LEMMA Mapped ==
    ASSUME NEW s, IsSeq(s), NEW t, t = [k \in DOMAIN s |-> t[k]]
    PROVE  IsSeq(t) /\ Len(t) = Len(s) /\ DOMAIN t = DOMAIN s
  BY DEF IsSeq

\* The front of a sequence: the lines that a write got to, a page of MaxTaskResults
\* tasks.
LEMMA Fronts ==
    ASSUME NEW s, IsSeq(s), NEW n \in 0 .. Len(s)
    PROVE  /\ IsSeq(SubSeq(s, 1, n))
           /\ \A j \in DOMAIN SubSeq(s, 1, n) : \E k \in DOMAIN s : SubSeq(s, 1, n)[j] = s[k]
<1> DEFINE T == {s[k] : k \in DOMAIN s}
<1>1. s \in Seq(T) /\ Len(s) \in Nat /\ DOMAIN s = 1 .. Len(s)
  BY SeqOf
<1> HIDE DEF T
<1>2. \A k \in 1 .. n : s[k] \in T
  BY <1>1, ElementOfSeq
<1>3. SubSeq(s, 1, n) \in Seq(T)
  BY <1>1, <1>2, SubSeqProperties
<1>4. IsSeq(SubSeq(s, 1, n)) /\ \A j \in DOMAIN SubSeq(s, 1, n) : SubSeq(s, 1, n)[j] \in T
  BY <1>3, SeqIn
<1> QED
  BY <1>4 DEF T

\* <<>> is a sequence without places.
LEMMA Empty == IsSeq(<<>>) /\ Len(<<>>) = 0 /\ DOMAIN <<>> = {}
  BY DEF IsSeq

\* An insertion adds one element, and what is in the result was there or is the new
\* one.
LEMMA Inserting ==
    ASSUME NEW s, IsSeq(s), NEW at \in 0 .. Len(s), NEW e
    PROVE  /\ IsSeq(InsertedAt(s, at, e)) /\ Len(InsertedAt(s, at, e)) = Len(s) + 1
           /\ \A k \in DOMAIN InsertedAt(s, at, e) :
                 InsertedAt(s, at, e)[k] = e \/ \E j \in DOMAIN s : InsertedAt(s, at, e)[k] = s[j]
<1> DEFINE T == {s[k] : k \in DOMAIN s} \cup {e}
<1>1. s \in Seq(T)
  BY DEF IsSeq
<1>2. InsertedAt(s, at, e) \in Seq(T) /\ Len(InsertedAt(s, at, e)) = Len(s) + 1
  BY <1>1, InsertedAtProperties
<1> QED
  BY <1>2, SeqIn

\* A removal takes one element, and what is in the result was there.
LEMMA Removing ==
    ASSUME NEW s, IsSeq(s), NEW at \in DOMAIN s
    PROVE  /\ IsSeq(Without(s, at)) /\ Len(Without(s, at)) = Len(s) - 1
           /\ \A k \in DOMAIN Without(s, at) : \E j \in DOMAIN s : Without(s, at)[k] = s[j]
<1> DEFINE T == {s[k] : k \in DOMAIN s}
<1>1. s \in Seq(T) /\ at \in 1 .. Len(s)
  BY DEF IsSeq
<1>2. Without(s, at) \in Seq(T) /\ Len(Without(s, at)) = Len(s) - 1
  BY <1>1, WithoutProperties
<1> QED
  BY <1>2, SeqIn

\* The three instances of the providers have the Cardinality of FiniteSets.
LEMMA Card == \A S : /\ Store!Cardinality(S) = Cardinality(S)
                     /\ Markdown!Cardinality(S) = Cardinality(S)
                     /\ GoogleTasks!Cardinality(S) = Cardinality(S)
  BY DEF Store!Cardinality, Markdown!Cardinality, GoogleTasks!Cardinality, Cardinality

\* The places that Ascending gives are places of S.
LEMMA StoreAscending ==
    ASSUME NEW S \in SUBSET Nat, IsFiniteSet(S)
    PROVE  /\ IsSeq(Store!Ascending(S)) /\ \A n \in DOMAIN Store!Ascending(S) : Store!Ascending(S)[n] \in S
<1> DEFINE a == Store!Ascending(S)
<1>1. a = [n \in 1 .. Cardinality(S) |-> CHOOSE k \in S : Store!Cardinality({j \in S : j < k}) = n - 1]
  BY Card DEF Store!Ascending
<1>2. Cardinality(S) \in Nat /\ \A n \in 1 .. Cardinality(S) : \E k \in S : Cardinality({j \in S : j < k}) = n - 1
  BY RankProperties DEF Rank
<1>3. ASSUME NEW n \in 1 .. Cardinality(S) PROVE a[n] \in S
  <2>1. \E k \in S : Store!Cardinality({j \in S : j < k}) = n - 1
    BY <1>2, Card
  <2> QED
    BY <1>1, <2>1
<1>4. a = [n \in 1 .. Cardinality(S) |-> a[n]]
  BY <1>1
<1> HIDE DEF a
<1>5. IsSeq(a) /\ DOMAIN a = 1 .. Cardinality(S)
  BY <1>2, <1>4, IsSeqOf
<1> QED
  BY <1>3, <1>5 DEF a

\* The same of the instance of Markdown.
LEMMA MarkdownAscending ==
    ASSUME NEW S \in SUBSET Nat, IsFiniteSet(S)
    PROVE  /\ IsSeq(Markdown!Ascending(S)) /\ \A n \in DOMAIN Markdown!Ascending(S) : Markdown!Ascending(S)[n] \in S
<1> DEFINE a == Markdown!Ascending(S)
<1>1. a = [n \in 1 .. Cardinality(S) |-> CHOOSE k \in S : Markdown!Cardinality({j \in S : j < k}) = n - 1]
  BY Card DEF Markdown!Ascending
<1>2. Cardinality(S) \in Nat /\ \A n \in 1 .. Cardinality(S) : \E k \in S : Cardinality({j \in S : j < k}) = n - 1
  BY RankProperties DEF Rank
<1>3. ASSUME NEW n \in 1 .. Cardinality(S) PROVE a[n] \in S
  <2>1. \E k \in S : Markdown!Cardinality({j \in S : j < k}) = n - 1
    BY <1>2, Card
  <2> QED
    BY <1>1, <2>1
<1>4. a = [n \in 1 .. Cardinality(S) |-> a[n]]
  BY <1>1
<1> HIDE DEF a
<1>5. IsSeq(a) /\ DOMAIN a = 1 .. Cardinality(S)
  BY <1>2, <1>4, IsSeqOf
<1> QED
  BY <1>3, <1>5 DEF a

\* The same of the instance of Google Tasks.
LEMMA GoogleTasksAscending ==
    ASSUME NEW S \in SUBSET Nat, IsFiniteSet(S)
    PROVE  /\ IsSeq(GoogleTasks!Ascending(S)) /\ \A n \in DOMAIN GoogleTasks!Ascending(S) : GoogleTasks!Ascending(S)[n] \in S
<1> DEFINE a == GoogleTasks!Ascending(S)
<1>1. a = [n \in 1 .. Cardinality(S) |-> CHOOSE k \in S : GoogleTasks!Cardinality({j \in S : j < k}) = n - 1]
  BY Card DEF GoogleTasks!Ascending
<1>2. Cardinality(S) \in Nat /\ \A n \in 1 .. Cardinality(S) : \E k \in S : Cardinality({j \in S : j < k}) = n - 1
  BY RankProperties DEF Rank
<1>3. ASSUME NEW n \in 1 .. Cardinality(S) PROVE a[n] \in S
  <2>1. \E k \in S : GoogleTasks!Cardinality({j \in S : j < k}) = n - 1
    BY <1>2, Card
  <2> QED
    BY <1>1, <2>1
<1>4. a = [n \in 1 .. Cardinality(S) |-> a[n]]
  BY <1>1
<1> HIDE DEF a
<1>5. IsSeq(a) /\ DOMAIN a = 1 .. Cardinality(S)
  BY <1>2, <1>4, IsSeqOf
<1> QED
  BY <1>3, <1>5 DEF a

\* Two sequences over T in a row are one: both halves of Clean.
LEMMA Joining ==
    ASSUME NEW T, NEW s, IsSeq(s), NEW t, IsSeq(t),
           \A n \in DOMAIN s : s[n] \in T, \A n \in DOMAIN t : t[n] \in T
    PROVE  IsSeq(s \o t) /\ \A k \in DOMAIN (s \o t) : (s \o t)[k] \in T
<1>1. /\ Len(s) \in Nat /\ DOMAIN s = 1 .. Len(s) /\ s = [k \in 1 .. Len(s) |-> s[k]]
      /\ Len(t) \in Nat /\ DOMAIN t = 1 .. Len(t) /\ t = [k \in 1 .. Len(t) |-> t[k]]
  BY DEF IsSeq
<1>2. s \in Seq(T) /\ t \in Seq(T)
  BY <1>1
<1>3. s \o t \in Seq(T)
  BY <1>2, ConcatProperties
<1> QED
  BY <1>3, SeqIn

\* Items of a list, renumbered.
LEMMA Renumbered ==
    ASSUME NEW items, ItemsOK(items),
           NEW sorted, IsSeq(sorted), \A k \in DOMAIN sorted : \E j \in DOMAIN items : sorted[k] = items[j],
           NEW c, c = [k \in DOMAIN sorted |-> [sorted[k] EXCEPT !.pos = k - 1]]
    PROVE  /\ ItemsOK(c)
           /\ \A k \in DOMAIN c : \E j \in DOMAIN items : c[k] = [items[j] EXCEPT !.pos = k - 1]
<1>5. c = [k \in DOMAIN sorted |-> c[k]]
  OBVIOUS
<1>6. IsSeq(c) /\ DOMAIN c = DOMAIN sorted /\ Len(c) = Len(sorted)
  BY <1>5, Mapped
<1>7. ASSUME NEW k \in DOMAIN c
      PROVE  ItemOK(c[k]) /\ \E j \in DOMAIN items : c[k] = [items[j] EXCEPT !.pos = k - 1]
  <2>1. PICK j \in DOMAIN items : sorted[k] = items[j]
    BY <1>6
  <2>2. c[k] = [items[j] EXCEPT !.pos = k - 1]
    BY <2>1, <1>6
  <2>3. k - 1 \in Nat
    BY <1>6, SeqOf
  <2>4. ItemOK(items[j])
    BY DEF ItemsOK
  <2> QED
    BY <2>2, <2>3, <2>4 DEF ItemOK, ItemFields
<1> QED
  BY <1>6, <1>7 DEF ItemsOK

\* Clean (model/list.go) moves the items that are done below the others and numbers
\* them: it returns the items it got, with other positions.  Here for the store.
LEMMA StoreCleans ==
    ASSUME NEW items, ItemsOK(items)
    PROVE  /\ ItemsOK(Store!CleanItems(items))
           /\ \A k \in DOMAIN Store!CleanItems(items) : \E j \in DOMAIN items :
                 Store!CleanItems(items)[k] = [items[j] EXCEPT !.pos = k - 1]
<1> DEFINE below == {k \in DOMAIN items : items[k].status = "done"}
           a == Store!Ascending(DOMAIN items \ below)
           b == Store!Ascending(below)
           open == [n \in DOMAIN a |-> items[a[n]]]
           done == [n \in DOMAIN b |-> items[b[n]]]
           sorted == open \o done
           c == [k \in DOMAIN sorted |-> [sorted[k] EXCEPT !.pos = k - 1]]
<1>1. /\ DOMAIN items \ below \in SUBSET Nat /\ IsFiniteSet(DOMAIN items \ below)
      /\ below \in SUBSET Nat /\ IsFiniteSet(below)
  <2>1. DOMAIN items = 1 .. Len(items) /\ Len(items) \in Nat
    BY SeqOf DEF ItemsOK
  <2>2. IsFiniteSet(DOMAIN items)
    BY <2>1, FS_Interval
  <2> QED
    BY <2>1, <2>2, FS_Subset
<1>2. /\ IsSeq(a) /\ \A n \in DOMAIN a : a[n] \in DOMAIN items
      /\ IsSeq(b) /\ \A n \in DOMAIN b : b[n] \in DOMAIN items
  BY <1>1, StoreAscending
<1>3. Store!CleanItems(items) = c
  BY DEF Store!CleanItems, Store!Selected
<1>4. IsSeq(sorted) /\ \A k \in DOMAIN sorted : \E j \in DOMAIN items : sorted[k] = items[j]
  <2> DEFINE T == {items[j] : j \in DOMAIN items}
  <2>1. open = [n \in DOMAIN a |-> open[n]] /\ done = [n \in DOMAIN b |-> done[n]]
    OBVIOUS
  <2>2. \A n \in DOMAIN a : open[n] \in T
    BY <1>2
  <2>3. \A n \in DOMAIN b : done[n] \in T
    BY <1>2
  <2> HIDE DEF a, b, open, done
  <2>4. IsSeq(open) /\ DOMAIN open = DOMAIN a /\ IsSeq(done) /\ DOMAIN done = DOMAIN b
    BY <1>2, <2>1, Mapped
  <2>5. IsSeq(sorted) /\ \A k \in DOMAIN sorted : sorted[k] \in T
    BY <2>2, <2>3, <2>4, Joining
  <2> QED
    BY <2>5
<1>5. c = [k \in DOMAIN sorted |-> [sorted[k] EXCEPT !.pos = k - 1]]
  OBVIOUS
<1> HIDE DEF a, b, open, done, sorted, c
<1>6. /\ ItemsOK(c)
      /\ \A k \in DOMAIN c : \E j \in DOMAIN items : c[k] = [items[j] EXCEPT !.pos = k - 1]
  BY <1>4, <1>5, Renumbered
<1> QED
  BY <1>3, <1>6

\* Clean, for the markdown client.
LEMMA MarkdownCleans ==
    ASSUME NEW items, ItemsOK(items)
    PROVE  /\ ItemsOK(Markdown!CleanItems(items))
           /\ \A k \in DOMAIN Markdown!CleanItems(items) : \E j \in DOMAIN items :
                 Markdown!CleanItems(items)[k] = [items[j] EXCEPT !.pos = k - 1]
<1> DEFINE below == {k \in DOMAIN items : items[k].status = "done"}
           a == Markdown!Ascending(DOMAIN items \ below)
           b == Markdown!Ascending(below)
           open == [n \in DOMAIN a |-> items[a[n]]]
           done == [n \in DOMAIN b |-> items[b[n]]]
           sorted == open \o done
           c == [k \in DOMAIN sorted |-> [sorted[k] EXCEPT !.pos = k - 1]]
<1>1. /\ DOMAIN items \ below \in SUBSET Nat /\ IsFiniteSet(DOMAIN items \ below)
      /\ below \in SUBSET Nat /\ IsFiniteSet(below)
  <2>1. DOMAIN items = 1 .. Len(items) /\ Len(items) \in Nat
    BY SeqOf DEF ItemsOK
  <2>2. IsFiniteSet(DOMAIN items)
    BY <2>1, FS_Interval
  <2> QED
    BY <2>1, <2>2, FS_Subset
<1>2. /\ IsSeq(a) /\ \A n \in DOMAIN a : a[n] \in DOMAIN items
      /\ IsSeq(b) /\ \A n \in DOMAIN b : b[n] \in DOMAIN items
  BY <1>1, MarkdownAscending
<1>3. Markdown!CleanItems(items) = c
  BY DEF Markdown!CleanItems, Markdown!Selected
<1>4. IsSeq(sorted) /\ \A k \in DOMAIN sorted : \E j \in DOMAIN items : sorted[k] = items[j]
  <2> DEFINE T == {items[j] : j \in DOMAIN items}
  <2>1. open = [n \in DOMAIN a |-> open[n]] /\ done = [n \in DOMAIN b |-> done[n]]
    OBVIOUS
  <2>2. \A n \in DOMAIN a : open[n] \in T
    BY <1>2
  <2>3. \A n \in DOMAIN b : done[n] \in T
    BY <1>2
  <2> HIDE DEF a, b, open, done
  <2>4. IsSeq(open) /\ DOMAIN open = DOMAIN a /\ IsSeq(done) /\ DOMAIN done = DOMAIN b
    BY <1>2, <2>1, Mapped
  <2>5. IsSeq(sorted) /\ \A k \in DOMAIN sorted : sorted[k] \in T
    BY <2>2, <2>3, <2>4, Joining
  <2> QED
    BY <2>5
<1>5. c = [k \in DOMAIN sorted |-> [sorted[k] EXCEPT !.pos = k - 1]]
  OBVIOUS
<1> HIDE DEF a, b, open, done, sorted, c
<1>6. /\ ItemsOK(c)
      /\ \A k \in DOMAIN c : \E j \in DOMAIN items : c[k] = [items[j] EXCEPT !.pos = k - 1]
  BY <1>4, <1>5, Renumbered
<1> QED
  BY <1>3, <1>6

\* Clean, for the Google Tasks client.
LEMMA GoogleTasksCleans ==
    ASSUME NEW items, ItemsOK(items)
    PROVE  /\ ItemsOK(GoogleTasks!CleanItems(items))
           /\ \A k \in DOMAIN GoogleTasks!CleanItems(items) : \E j \in DOMAIN items :
                 GoogleTasks!CleanItems(items)[k] = [items[j] EXCEPT !.pos = k - 1]
<1> DEFINE below == {k \in DOMAIN items : items[k].status = "done"}
           a == GoogleTasks!Ascending(DOMAIN items \ below)
           b == GoogleTasks!Ascending(below)
           open == [n \in DOMAIN a |-> items[a[n]]]
           done == [n \in DOMAIN b |-> items[b[n]]]
           sorted == open \o done
           c == [k \in DOMAIN sorted |-> [sorted[k] EXCEPT !.pos = k - 1]]
<1>1. /\ DOMAIN items \ below \in SUBSET Nat /\ IsFiniteSet(DOMAIN items \ below)
      /\ below \in SUBSET Nat /\ IsFiniteSet(below)
  <2>1. DOMAIN items = 1 .. Len(items) /\ Len(items) \in Nat
    BY SeqOf DEF ItemsOK
  <2>2. IsFiniteSet(DOMAIN items)
    BY <2>1, FS_Interval
  <2> QED
    BY <2>1, <2>2, FS_Subset
<1>2. /\ IsSeq(a) /\ \A n \in DOMAIN a : a[n] \in DOMAIN items
      /\ IsSeq(b) /\ \A n \in DOMAIN b : b[n] \in DOMAIN items
  BY <1>1, GoogleTasksAscending
<1>3. GoogleTasks!CleanItems(items) = c
  BY DEF GoogleTasks!CleanItems, GoogleTasks!Selected
<1>4. IsSeq(sorted) /\ \A k \in DOMAIN sorted : \E j \in DOMAIN items : sorted[k] = items[j]
  <2> DEFINE T == {items[j] : j \in DOMAIN items}
  <2>1. open = [n \in DOMAIN a |-> open[n]] /\ done = [n \in DOMAIN b |-> done[n]]
    OBVIOUS
  <2>2. \A n \in DOMAIN a : open[n] \in T
    BY <1>2
  <2>3. \A n \in DOMAIN b : done[n] \in T
    BY <1>2
  <2> HIDE DEF a, b, open, done
  <2>4. IsSeq(open) /\ DOMAIN open = DOMAIN a /\ IsSeq(done) /\ DOMAIN done = DOMAIN b
    BY <1>2, <2>1, Mapped
  <2>5. IsSeq(sorted) /\ \A k \in DOMAIN sorted : sorted[k] \in T
    BY <2>2, <2>3, <2>4, Joining
  <2> QED
    BY <2>5
<1>5. c = [k \in DOMAIN sorted |-> [sorted[k] EXCEPT !.pos = k - 1]]
  OBVIOUS
<1> HIDE DEF a, b, open, done, sorted, c
<1>6. /\ ItemsOK(c)
      /\ \A k \in DOMAIN c : \E j \in DOMAIN items : c[k] = [items[j] EXCEPT !.pos = k - 1]
  BY <1>4, <1>5, Renumbered
<1> QED
  BY <1>3, <1>6

-----------------------------------------------------------------------------
\* Places in a strict total order of a finite set: every rank is taken once.
Below(S, R, x) == {y \in S : <<y, x>> \in R}

\* The number of elements below x tells the elements of a finite strict total order
\* apart, and is less than their number.
LEMMA Ranks ==
    ASSUME NEW S, IsFiniteSet(S), NEW R,
           \A x \in S : <<x, x>> \notin R,
           \A x, y \in S : <<x, y>> \in R \/ <<y, x>> \in R \/ x = y,
           \A x, y, z \in S : <<x, y>> \in R /\ <<y, z>> \in R => <<x, z>> \in R
    PROVE  /\ Cardinality(S) \in Nat
           /\ \A x \in S : Cardinality(Below(S, R, x)) \in 0 .. Cardinality(S) - 1
           /\ \A x, y \in S : Cardinality(Below(S, R, x)) = Cardinality(Below(S, R, y)) => x = y
           /\ \A n \in 1 .. Cardinality(S) : \E x \in S : Cardinality(Below(S, R, x)) = n - 1
<1> DEFINE N == Cardinality(S)
<1>1. N \in Nat
  BY FS_CardinalityType
<1>2. ASSUME NEW x \in S PROVE IsFiniteSet(Below(S, R, x)) /\ Cardinality(Below(S, R, x)) \in 0 .. N - 1
  <2>1. Below(S, R, x) \in SUBSET (S \ {x})
    BY DEF Below
  <2>2. IsFiniteSet(S \ {x}) /\ Cardinality(S \ {x}) = N - 1
    BY FS_RemoveElement
  <2>3. IsFiniteSet(Below(S, R, x)) /\ Cardinality(Below(S, R, x)) \in Nat /\ Cardinality(Below(S, R, x)) <= Cardinality(S \ {x})
    BY <2>1, <2>2, FS_Subset, FS_CardinalityType
  <2> QED
    BY <2>2, <2>3, <1>1
<1>3. ASSUME NEW x \in S, NEW y \in S, <<x, y>> \in R
      PROVE  Cardinality(Below(S, R, x)) < Cardinality(Below(S, R, y))
  <2>1. Below(S, R, x) \cup {x} \in SUBSET Below(S, R, y) /\ x \notin Below(S, R, x)
    BY <1>3 DEF Below
  <2>2. IsFiniteSet(Below(S, R, x)) /\ IsFiniteSet(Below(S, R, y))
    BY <1>2
  <2>3. Cardinality(Below(S, R, x) \cup {x}) = Cardinality(Below(S, R, x)) + 1
    BY <2>1, <2>2, FS_AddElement
  <2>4. Cardinality(Below(S, R, x) \cup {x}) <= Cardinality(Below(S, R, y))
    BY <2>1, <2>2, FS_Subset
  <2>5. Cardinality(Below(S, R, x)) \in Nat /\ Cardinality(Below(S, R, y)) \in Nat
    BY <1>1, <1>2
  <2> QED
    BY <2>3, <2>4, <2>5
<1>4. ASSUME NEW x \in S, NEW y \in S, Cardinality(Below(S, R, x)) = Cardinality(Below(S, R, y)) PROVE x = y
  <2>1. Cardinality(Below(S, R, x)) \in Nat
    BY <1>1, <1>2
  <2>2. ~(Cardinality(Below(S, R, x)) < Cardinality(Below(S, R, y))) /\ ~(Cardinality(Below(S, R, y)) < Cardinality(Below(S, R, x)))
    BY <2>1, <1>4
  <2> QED
    BY <2>2, <1>3
<1>5. ASSUME NEW n \in 1 .. N PROVE \E x \in S : Cardinality(Below(S, R, x)) = n - 1
  <2> DEFINE T == 0 .. N - 1
             rank == [x \in S |-> Cardinality(Below(S, R, x))]
  <2>0. N \in Nat /\ 0 \in Int /\ N - 1 \in Int
    BY <1>1
  <2>1. IsFiniteSet(T) /\ Cardinality(T) = N
    BY <2>0, FS_Interval
  <2>2. rank \in [S -> T] /\ \A x, y \in S : rank[x] = rank[y] => x = y
    BY <1>2, <1>4
  <2> HIDE DEF rank, T
  <2>3. rank \in Injection(S, T)
    BY <2>2 DEF Injection, IsInjective
  <2>4. rank \in Surjection(S, T)
    BY <2>1, <2>3, FS_Injection
  <2>5. \A t \in T : \E x \in S : rank[x] = t
    BY <2>4 DEF Surjection
  <2>6. n - 1 \in T
    BY <1>1 DEF T
  <2> QED
    BY <2>5, <2>6 DEF rank
<1> QED
  BY <1>1, <1>2, <1>4, <1>5

\* ORDER BY position, rowid (store.go) lists every row that was selected, once,
\* whatever positions two rows share: no two rows have the same rowid.
LEMMA InOrderOf ==
    ASSUME NEW rows, NEW next \in Nat, RowsOK(rows, next), NEW ids \in SUBSET DOMAIN rows
    PROVE  /\ IsSeq(Store!InOrder(rows, ids))
           /\ \A k \in DOMAIN Store!InOrder(rows, ids) : Store!InOrder(rows, ids)[k] \in ids
           /\ \A x \in ids : \E k \in DOMAIN Store!InOrder(rows, ids) : Store!InOrder(rows, ids)[k] = x
           /\ \A k, m \in DOMAIN Store!InOrder(rows, ids) :
                 Store!InOrder(rows, ids)[k] = Store!InOrder(rows, ids)[m] => k = m
<1> DEFINE Before(y, x) == \/ rows[y].pos < rows[x].pos
                           \/ rows[y].pos = rows[x].pos /\ rows[y].row < rows[x].row
           R == {p \in ids \X ids : Before(p[1], p[2])}
           N == Cardinality(ids)
           s == Store!InOrder(rows, ids)
           Rank1(x) == Cardinality(Below(ids, R, x))
<1>1. IsFiniteSet(ids)
  BY FS_Subset DEF RowsOK
<1>2. \A x, y \in ids : <<x, y>> \in R <=> Before(x, y)
  OBVIOUS
<1>3. \A x \in ids : rows[x].pos \in Int /\ rows[x].row \in Int
  BY DEF RowsOK
<1>4. \A x, y \in ids : rows[x].row = rows[y].row => x = y
  BY DEF RowsOK
<1>5. /\ \A x \in ids : ~Before(x, x)
      /\ \A x, y \in ids : Before(x, y) \/ Before(y, x) \/ x = y
      /\ \A x, y, z \in ids : Before(x, y) /\ Before(y, z) => Before(x, z)
  BY <1>3, <1>4
<1>6. s = [k \in 1 .. N |-> CHOOSE x \in ids : Store!Cardinality({y \in ids : Before(y, x)}) = k - 1]
  BY Card DEF Store!InOrder
<1>7. \A x \in ids : Store!Cardinality({y \in ids : Before(y, x)}) = Rank1(x)
  <2> TAKE x \in ids
  <2>1. {y \in ids : Before(y, x)} = Below(ids, R, x)
    BY <1>2 DEF Below
  <2> QED
    BY <2>1, Card
<1> HIDE DEF R, Before
<1>8. /\ N \in Nat
      /\ \A x \in ids : Rank1(x) \in 0 .. N - 1
      /\ \A x, y \in ids : Rank1(x) = Rank1(y) => x = y
      /\ \A n \in 1 .. N : \E x \in ids : Rank1(x) = n - 1
  <2>1. /\ \A x \in ids : <<x, x>> \notin R
        /\ \A x, y \in ids : <<x, y>> \in R \/ <<y, x>> \in R \/ x = y
        /\ \A x, y, z \in ids : <<x, y>> \in R /\ <<y, z>> \in R => <<x, z>> \in R
    BY <1>2, <1>5
  <2> QED
    BY <1>1, <2>1, Ranks
<1> HIDE DEF Rank1
<1>9. ASSUME NEW k \in 1 .. N PROVE s[k] \in ids /\ Rank1(s[k]) = k - 1
  <2>1. \E x \in ids : Store!Cardinality({y \in ids : Before(y, x)}) = k - 1
    BY <1>7, <1>8
  <2>2. s[k] \in ids /\ Store!Cardinality({y \in ids : Before(y, s[k])}) = k - 1
    BY <1>6, <2>1
  <2> QED
    BY <2>2, <1>7
<1>10. s = [k \in 1 .. N |-> s[k]]
  BY <1>6
<1> HIDE DEF s, N
<1>11. IsSeq(s) /\ DOMAIN s = 1 .. N
  BY <1>8, <1>10, IsSeqOf
<1>12. ASSUME NEW x \in ids PROVE \E k \in DOMAIN s : s[k] = x
  <2>1. Rank1(x) + 1 \in 1 .. N /\ (Rank1(x) + 1) - 1 = Rank1(x)
    BY <1>8
  <2> QED
    BY <2>1, <1>8, <1>9, <1>11
<1>13. ASSUME NEW k \in DOMAIN s, NEW m \in DOMAIN s, s[k] = s[m] PROVE k = m
  <2>1. k - 1 = m - 1 /\ k \in Int /\ m \in Int
    BY <1>8, <1>9, <1>11, <1>13
  <2> QED
    BY <2>1
<1> QED
  BY <1>9, <1>11, <1>12, <1>13 DEF s

-----------------------------------------------------------------------------
(* What the store lists. *)

\* GetList returns a list of items with their positions.
LEMMA StoreGetList ==
    ASSUME NEW d, StoreOK(d), NEW l \in DOMAIN d.lists
    PROVE  ListOK(Store!GetList(d, l))
<1> DEFINE ids == Store!InOrder(d.items, Store!ItemsOf(d, l))
           items == Store!GetItems(d, l)
           list == Store!GetList(d, l)
<1>1. Store!ItemsOf(d, l) \in SUBSET DOMAIN d.items
  BY DEF Store!ItemsOf
<1>2. IsSeq(ids) /\ \A k \in DOMAIN ids : ids[k] \in DOMAIN d.items
  BY <1>1, InOrderOf DEF StoreOK
<1>3. ASSUME NEW k \in DOMAIN ids PROVE ItemOK(items[k])
  <2>1. d.items[ids[k]].status \in Statuses /\ d.items[ids[k]].pos \in Nat
    BY <1>2 DEF StoreOK, ItemRowsOK, RowsOK
  <2> HIDE DEF ids
  <2> QED
    BY <2>1 DEF Store!GetItems, ids, ItemOK, ItemFields
<1>4. items = [k \in DOMAIN ids |-> items[k]]
  BY DEF Store!GetItems
<1> HIDE DEF ids, items
<1>5. ItemsOK(items)
  BY <1>2, <1>3, <1>4, Mapped DEF ItemsOK
<1>6. d.lists[l].pos \in Nat /\ d.lists[l].status \in {"open", "deleted"}
  BY DEF StoreOK, RowsOK, ListRowsOK
<1>7. /\ DOMAIN list = ListFields /\ list.items = items
      /\ list.pos = d.lists[l].pos /\ list.status = d.lists[l].status
  BY DEF Store!GetList, items, ListFields
<1> QED
  BY <1>5, <1>6, <1>7 DEF ListOK

\* ListLists returns such lists.
LEMMA StoreListLists ==
    ASSUME NEW d, StoreOK(d)
    PROVE  ListsOK(Store!ListLists(d))
<1> DEFINE ids == Store!InOrder(d.lists, DOMAIN d.lists)
           lists == Store!ListLists(d)
<1>1. IsSeq(ids) /\ \A k \in DOMAIN ids : ids[k] \in DOMAIN d.lists
  BY InOrderOf DEF StoreOK
<1>2. lists = [k \in DOMAIN ids |-> [Store!GetList(d, ids[k]) EXCEPT !.pos = k - 1]]
  BY DEF Store!ListLists
<1> HIDE DEF ids, lists
<1>3. Len(ids) \in Nat /\ DOMAIN ids = 1 .. Len(ids)
  BY <1>1, SeqOf
<1>4. ASSUME NEW k \in DOMAIN ids PROVE ListOK(lists[k])
  <2>1. ListOK(Store!GetList(d, ids[k])) /\ k - 1 \in Nat
    BY <1>1, <1>3, StoreGetList
  <2> QED
    BY <1>2, <2>1 DEF ListOK, ListFields
<1>5. lists = [k \in DOMAIN ids |-> lists[k]]
  BY <1>2
<1> QED
  BY <1>1, <1>4, <1>5, Mapped DEF ListsOK, lists

-----------------------------------------------------------------------------
(* Rows of the store that come, change and go. *)

\* Rows that are left, with their keys.
LEMMA RowsKept ==
    ASSUME NEW old, NEW next \in Nat, RowsOK(old, next), NEW new, DOMAIN new \in SUBSET DOMAIN old,
           \A x \in DOMAIN new : /\ new[x].row = old[x].row /\ new[x].ext = old[x].ext
                                 /\ new[x].pos \in Nat
    PROVE  RowsOK(new, next)
<1>1. IsFiniteSet(DOMAIN new)
  BY FS_Subset DEF RowsOK
<1> QED
  BY <1>1 DEF RowsOK

\* A row that is new, and one that is changed.
LEMMA RowsWith ==
    ASSUME NEW rows, NEW next \in Nat \ {0}, RowsOK(rows, next), NEW id, id \notin DOMAIN rows,
           NEW row, row.row = next, row.pos \in Nat, ~Store!ExternalTaken(rows, row.ext, id)
    PROVE  RowsOK(Store!With(rows, id, row), next + 1)
<1> DEFINE new == Store!With(rows, id, row)
<1>1. /\ DOMAIN new = DOMAIN rows \cup {id} /\ new[id] = row
      /\ \A x \in DOMAIN rows : new[x] = rows[x]
  BY DEF Store!With
<1> HIDE DEF new
<1>2. IsFiniteSet(DOMAIN new)
  BY <1>1, FS_AddElement DEF RowsOK
<1>3. \A x \in DOMAIN rows : rows[x].ext = row.ext => row.ext = Nil
  BY DEF Store!ExternalTaken, Store!Nil, Nil
<1>4. \A x \in DOMAIN new : new[x].pos \in Nat /\ new[x].row \in 1 .. (next + 1) - 1
  BY <1>1 DEF RowsOK
<1>5. ASSUME NEW x \in DOMAIN new, NEW y \in DOMAIN new,
             new[x].row = new[y].row \/ (new[x].ext = new[y].ext /\ new[x].ext # Nil)
      PROVE  x = y
  <2>1. \A z \in DOMAIN rows : rows[z].row # next
    BY DEF RowsOK
  <2>2. CASE x = id
    BY <1>1, <1>3, <1>5, <2>1, <2>2
  <2>3. CASE y = id
    BY <1>1, <1>3, <1>5, <2>1, <2>3
  <2>4. CASE x # id /\ y # id
    BY <1>1, <1>5, <2>4 DEF RowsOK
  <2> QED
    BY <2>2, <2>3, <2>4
<1> QED
  BY <1>2, <1>4, <1>5 DEF RowsOK, new

\* An UPDATE of one row that keeps its external id, or gives it one that no other row
\* has, leaves the keys of a table unique.
LEMMA RowsChanged ==
    ASSUME NEW rows, NEW next \in Nat, RowsOK(rows, next), NEW id \in DOMAIN rows,
           NEW row, row.row = rows[id].row, row.pos \in Nat,
           row.ext = rows[id].ext \/ ~Store!ExternalTaken(rows, row.ext, id)
    PROVE  RowsOK(Store!With(rows, id, row), next)
<1> DEFINE new == Store!With(rows, id, row)
<1>1. /\ DOMAIN new = DOMAIN rows /\ new[id] = row
      /\ \A x \in DOMAIN rows \ {id} : new[x] = rows[x]
  BY DEF Store!With
<1> HIDE DEF new
<1>3. \A x \in DOMAIN rows \ {id} : rows[x].ext = row.ext => row.ext = Nil
  BY DEF Store!ExternalTaken, Store!Nil, Nil, RowsOK
<1>4. \A x \in DOMAIN new : new[x].pos \in Nat /\ new[x].row \in 1 .. next - 1
  BY <1>1 DEF RowsOK
<1>5. ASSUME NEW x \in DOMAIN new, NEW y \in DOMAIN new,
             new[x].row = new[y].row \/ (new[x].ext = new[y].ext /\ new[x].ext # Nil)
      PROVE  x = y
  <2>2. CASE x = id
    BY <1>1, <1>3, <1>5, <2>2 DEF RowsOK
  <2>3. CASE y = id
    BY <1>1, <1>3, <1>5, <2>3 DEF RowsOK
  <2>4. CASE x # id /\ y # id
    BY <1>1, <1>5, <2>4 DEF RowsOK
  <2> QED
    BY <2>2, <2>3, <2>4
<1> QED
  BY <1>1, <1>4, <1>5 DEF RowsOK, new

\* The keys that are free stay free when one more is taken.
LEMMA RowsLater ==
    ASSUME NEW rows, NEW next \in Nat, RowsOK(rows, next)
    PROVE  RowsOK(rows, next + 1)
  BY DEF RowsOK

\* UPDATE ... SET position = position + 1 of some rows changes no key and no
\* reference.
LEMMA RowsShifted ==
    ASSUME NEW rows, NEW next \in Nat, RowsOK(rows, next), NEW ids, NEW pos
    PROVE  /\ RowsOK(Store!Shifted(rows, ids, pos), next)
           /\ ListRowsOK(rows) => ListRowsOK(Store!Shifted(rows, ids, pos))
           /\ \A lists : ItemRowsOK(rows, lists) => ItemRowsOK(Store!Shifted(rows, ids, pos), lists)
           /\ DOMAIN Store!Shifted(rows, ids, pos) = DOMAIN rows
           /\ \A ext, id : Store!ExternalTaken(Store!Shifted(rows, ids, pos), ext, id)
                            <=> Store!ExternalTaken(rows, ext, id)
<1> DEFINE new == Store!Shifted(rows, ids, pos)
<1>1. /\ DOMAIN new = DOMAIN rows
      /\ \A x \in DOMAIN new : new[x] = rows[x] \/ new[x] = [rows[x] EXCEPT !.pos = @ + 1]
  BY DEF Store!Shifted
<1> HIDE DEF new
<1>2. \A x \in DOMAIN new : rows[x].pos \in Nat
  BY <1>1 DEF RowsOK
<1>3. ASSUME NEW x \in DOMAIN new
      PROVE  /\ new[x].row = rows[x].row /\ new[x].ext = rows[x].ext /\ new[x].pos \in Nat
             /\ DOMAIN new[x] = DOMAIN rows[x] /\ new[x].status = rows[x].status
             /\ new[x].list = rows[x].list /\ new[x].project = rows[x].project
  <2>1. CASE new[x] = rows[x]
    BY <2>1, <1>2
  <2>2. CASE new[x] = [rows[x] EXCEPT !.pos = @ + 1]
    <3>1. \A v \in Nat : v + 1 \in Nat
      OBVIOUS
    <3> QED
      BY <2>2, <1>2, <3>1
  <2> QED
    BY <1>1, <2>1, <2>2
<1>4. RowsOK(new, next)
  BY <1>1, <1>3, RowsKept
<1>5. ListRowsOK(rows) => ListRowsOK(new)
  BY <1>1, <1>3 DEF ListRowsOK
<1>6. \A lists : ItemRowsOK(rows, lists) => ItemRowsOK(new, lists)
  BY <1>1, <1>3 DEF ItemRowsOK
<1>7. \A ext, id : Store!ExternalTaken(new, ext, id) <=> Store!ExternalTaken(rows, ext, id)
  BY <1>1, <1>3 DEF Store!ExternalTaken
<1> QED
  BY <1>1, <1>4, <1>5, <1>6, <1>7 DEF new

\* Clean of a list returns the list with its items rearranged.
LEMMA StoreCleanList ==
    ASSUME NEW list, ListOK(list)
    PROVE  /\ ListOK(Store!CleanList(list))
           /\ Store!CleanList(list) = [list EXCEPT !.items = Store!CleanItems(list.items)]
<1>1. Store!CleanList(list) = [list EXCEPT !.items = Store!CleanItems(list.items)]
  BY DEF Store!CleanList
<1>2. ItemsOK(Store!CleanItems(list.items))
  BY StoreCleans DEF ListOK
<1> QED
  BY <1>1, <1>2 DEF ListOK, ListFields

\* What an operation of the store leaves, and what it commits on the way there.
StoreAnswer(r) ==
    StoreOK(r.db) /\ ("partial" \in DOMAIN r => \A d \in r.partial : StoreOK(d))

\* CreateList, the INSERT and the shift of the lists below it, leaves the database
\* consistent and returns a list with the id that it was given.
LEMMA StoreCreateList ==
    ASSUME NEW d, StoreOK(d), NEW list, ListOK(list), NEW t
    PROVE  StoreAnswer(Store!CreateList(d, list, t)) /\ ListOK(Store!CreateList(d, list, t).list)
<1> DEFINE r == Store!CreateList(d, list, t)
           c == Store!CleanList(list)
           l == [c EXCEPT !.id = IF @ = Store!Nil THEN d.next ELSE @, !.modified = t]
           row == [name |-> l.name, pos |-> l.pos, status |-> l.status, modified |-> t,
                   ext |-> l.ext, row |-> d.next]
           shifted == Store!Shifted(d.lists, DOMAIN d.lists, l.pos)
           lists == Store!With(shifted, l.id, row)
           Error == \/ list.status = "deleted"
                    \/ l.id \in DOMAIN d.lists
                    \/ Store!ExternalTaken(d.lists, l.ext, l.id)
           new == [d EXCEPT !.lists = lists, !.next = @ + 1]
<1>1. ListOK(c)
  BY StoreCleanList
<1>2. r = IF Error THEN [result |-> "error", db |-> d, list |-> l]
                   ELSE [result |-> "ok", list |-> l, db |-> new]
  BY DEF Store!CreateList
<1> HIDE DEF c
<1>3. ListOK(l)
  BY <1>1 DEF ListOK, ListFields
<1>4. row.row = d.next /\ row.ext = l.ext /\ row.pos = l.pos /\ row.status = l.status
      /\ DOMAIN row = {"name", "pos", "status", "modified", "ext", "row"}
  OBVIOUS
<1> HIDE DEF l, row
<1>5. CASE Error
  BY <1>2, <1>3, <1>5 DEF StoreAnswer, r
<1>6. CASE ~Error
  <2>1. r.db = new /\ r.list = l /\ "partial" \notin DOMAIN r
    BY <1>2, <1>6
  <2>2. d.next \in Nat \ {0} /\ RowsOK(d.lists, d.next) /\ RowsOK(d.items, d.next)
    BY DEF StoreOK
  <2>3. /\ RowsOK(shifted, d.next) /\ ListRowsOK(shifted) /\ DOMAIN shifted = DOMAIN d.lists
        /\ ~Store!ExternalTaken(shifted, row.ext, l.id)
    BY <2>2, <1>4, <1>6, RowsShifted DEF StoreOK
  <2> HIDE DEF shifted
  <2>4. RowsOK(lists, d.next + 1)
    BY <2>2, <2>3, <1>3, <1>4, <1>6, RowsWith DEF ListOK
  <2>5. DOMAIN lists = DOMAIN d.lists \cup {l.id} /\ ListRowsOK(lists)
    BY <2>3, <1>3, <1>4 DEF Store!With, ListRowsOK, ListOK
  <2>6. new.lists = lists /\ new.items = d.items /\ new.next = d.next + 1 /\ DOMAIN new = DOMAIN d
    BY DEF StoreOK
  <2> HIDE DEF lists, new
  <2>7. RowsOK(new.items, new.next)
    BY <2>2, <2>6, RowsLater
  <2>8. ItemRowsOK(new.items, DOMAIN new.lists)
    BY <2>5, <2>6 DEF ItemRowsOK, StoreOK
  <2>9. StoreOK(new)
    BY <2>2, <2>4, <2>5, <2>6, <2>7, <2>8 DEF StoreOK
  <2> QED
    BY <2>1, <2>9, <1>3 DEF StoreAnswer
<1> QED
  BY <1>5, <1>6

\* ON DELETE SET NULL: the items that were linked to an item that goes are linked to
\* nothing, and every link that is left leads to a row.
LEMMA RowsUnlinked ==
    ASSUME NEW rows, NEW next \in Nat, RowsOK(rows, next), NEW lists, ItemRowsOK(rows, lists), NEW gone
    PROVE  LET new == Store!Unlinked(rows, gone)
           IN  /\ RowsOK(new, next) /\ ItemRowsOK(new, lists) /\ DOMAIN new = DOMAIN rows \ gone
               /\ \A x \in DOMAIN new : new[x].list = rows[x].list
<1> DEFINE new == Store!Unlinked(rows, gone)
<1>1. /\ DOMAIN new = DOMAIN rows \ gone
      /\ \A x \in DOMAIN new : new[x] = IF rows[x].project \in gone THEN [rows[x] EXCEPT !.project = Nil]
                                                                  ELSE rows[x]
  BY DEF Store!Unlinked, Store!Nil, Nil
<1> HIDE DEF new
<1>2. \A x \in DOMAIN new : /\ DOMAIN rows[x] = ItemColumns /\ rows[x].pos \in Nat
                            /\ rows[x].project \in DOMAIN rows \cup {Nil}
  BY <1>1 DEF ItemRowsOK, RowsOK
<1>3. ASSUME NEW x \in DOMAIN new
      PROVE  /\ new[x].row = rows[x].row /\ new[x].ext = rows[x].ext /\ new[x].pos \in Nat
             /\ DOMAIN new[x] = ItemColumns /\ new[x].status = rows[x].status
             /\ new[x].list = rows[x].list /\ new[x].project \in DOMAIN new \cup {Nil}
  <2>1. CASE rows[x].project \in gone
    BY <2>1, <1>1, <1>2 DEF ItemColumns
  <2>2. CASE rows[x].project \notin gone
    BY <2>2, <1>1, <1>2
  <2> QED
    BY <2>1, <2>2
<1>4. RowsOK(new, next)
  BY <1>1, <1>3, RowsKept
<1>5. ItemRowsOK(new, lists)
  BY <1>1, <1>3 DEF ItemRowsOK
<1> QED
  BY <1>1, <1>3, <1>4, <1>5 DEF new

\* UpdateList of the store gives each item of a list its place in it; keys and links
\* stay.
LEMMA RowsMoved ==
    ASSUME NEW rows, NEW next \in Nat, RowsOK(rows, next), NEW lists, ItemRowsOK(rows, lists),
           NEW list, ListOK(list), list.id \in lists, NEW todo \in SUBSET DOMAIN list.items
    PROVE  LET new == Store!Moved(rows, list, todo)
           IN  RowsOK(new, next) /\ ItemRowsOK(new, lists) /\ DOMAIN new = DOMAIN rows
<1> DEFINE new == Store!Moved(rows, list, todo)
           Id(k) == Store!Resolved(rows, list.items[k].id, list.items[k].ext)
           Last(x) == CHOOSE k \in todo : Id(k) = x /\ \A j \in todo : Id(j) = x => j <= k
<1>1. /\ DOMAIN new = DOMAIN rows
      /\ \A x \in DOMAIN new :
            new[x] = IF \E k \in todo : Id(k) = x
                       THEN [rows[x] EXCEPT !.list = list.id, !.pos = list.items[Last(x)].pos]
                       ELSE rows[x]
  BY DEF Store!Moved
<1>2. /\ Len(list.items) \in Nat /\ todo \in SUBSET (0 .. Len(list.items))
      /\ \A k \in todo : list.items[k].pos \in Nat
  <2>1. IsSeq(list.items) /\ \A k \in DOMAIN list.items : ItemOK(list.items[k])
    BY DEF ListOK, ItemsOK
  <2>2. Len(list.items) \in Nat /\ DOMAIN list.items = 1 .. Len(list.items)
    BY <2>1, SeqOf
  <2> QED
    BY <2>1, <2>2 DEF ItemOK
<1> HIDE DEF new, Id
<1>3. ASSUME NEW x, \E k \in todo : Id(k) = x PROVE list.items[Last(x)].pos \in Nat
  <2> DEFINE S == {k \in todo : Id(k) = x}
  <2>1. S # {} /\ S \in SUBSET (0 .. Len(list.items))
    BY <1>2, <1>3
  <2>2. \E k \in S : \A j \in S : j <= k
    BY <1>2, <2>1, Greatest
  <2>3. \E k \in todo : Id(k) = x /\ \A j \in todo : Id(j) = x => j <= k
    BY <2>2
  <2>4. Last(x) \in todo
    BY <2>3
  <2> QED
    BY <2>4, <1>2
<1>4. \A x \in DOMAIN new : /\ DOMAIN rows[x] = ItemColumns /\ rows[x].pos \in Nat /\ rows[x].list \in lists
                            /\ rows[x].project \in DOMAIN rows \cup {Nil}
  BY <1>1 DEF ItemRowsOK, RowsOK
<1> HIDE DEF Last
<1>5. ASSUME NEW x \in DOMAIN new
      PROVE  /\ new[x].row = rows[x].row /\ new[x].ext = rows[x].ext /\ new[x].pos \in Nat
             /\ DOMAIN new[x] = ItemColumns /\ new[x].status = rows[x].status
             /\ new[x].list \in lists /\ new[x].project \in DOMAIN new \cup {Nil}
  <2>1. CASE \E k \in todo : Id(k) = x
    <3>1. new[x] = [rows[x] EXCEPT !.list = list.id, !.pos = list.items[Last(x)].pos]
      BY <2>1, <1>1
    <3>2. list.items[Last(x)].pos \in Nat
      BY <2>1, <1>3
    <3> QED
      BY <3>1, <3>2, <1>1, <1>4 DEF ItemColumns
  <2>2. CASE ~\E k \in todo : Id(k) = x
    BY <2>2, <1>1, <1>4
  <2> QED
    BY <2>1, <2>2
<1>6. RowsOK(new, next)
  <2>1. DOMAIN new \in SUBSET DOMAIN rows
    BY <1>1
  <2>2. \A x \in DOMAIN new : /\ new[x].row = rows[x].row /\ new[x].ext = rows[x].ext
                              /\ new[x].pos \in Nat
    BY <1>5
  <2> HIDE DEF new
  <2> QED
    BY ONLY next \in Nat, RowsOK(rows, next), <2>1, <2>2, RowsKept
<1>7. ItemRowsOK(new, lists)
  BY <1>1, <1>5 DEF ItemRowsOK
<1> QED
  BY <1>1, <1>6, <1>7 DEF new

\* UpdateList of the store, with the items that it moves and those that it drops with
\* a deleted list, leaves the database consistent and returns the list.
LEMMA StoreUpdateList ==
    ASSUME NEW d, StoreOK(d), NEW list, ListOK(list), NEW current, NEW t
    PROVE  LET r == Store!UpdateList(d, list, current, t)
           IN  StoreAnswer(r) /\ ListOK(r.list) /\ DOMAIN r = {"result", "db", "list"}
<1> DEFINE r == Store!UpdateList(d, list, current, t)
           c == Store!CleanList(list)
           l == [c EXCEPT !.id = Store!Resolved(d.lists, @, list.ext), !.modified = t]
           row == [d.lists[l.id] EXCEPT !.name = l.name, !.pos = l.pos, !.status = l.status,
                                        !.modified = t, !.ext = Store!Coalesce(l.ext, @)]
           kept == IF l.status = "deleted"
                     THEN Store!Unlinked(d.items, Store!ItemsOf(d, l.id)) ELSE d.items
           todo == Store!ToMove(l, current)
           Error == \/ l.id \notin DOMAIN d.lists
                    \/ Store!ExternalTaken(d.lists, l.ext, l.id)
                    \/ \E k \in todo : Store!Resolved(kept, l.items[k].id, l.items[k].ext) \notin DOMAIN kept
           lists == Store!With(d.lists, l.id, row)
           items == Store!Moved(kept, l, todo)
           new == [d EXCEPT !.lists = lists, !.items = items]
<1>1. ListOK(c)
  BY StoreCleanList
<1>2. r = IF Error THEN [result |-> "error", db |-> d, list |-> l]
                   ELSE [result |-> "ok", list |-> l, db |-> new]
  BY DEF Store!UpdateList
<1> HIDE DEF c
<1>3. ListOK(l)
  BY <1>1 DEF ListOK, ListFields
<1> HIDE DEF l
<1>5. CASE Error
  BY <1>2, <1>3, <1>5 DEF StoreAnswer, r
<1>6. CASE ~Error
  <2>1. r.db = new /\ r.list = l /\ DOMAIN r = {"result", "db", "list"}
    BY <1>2, <1>6
  <2>2. /\ d.next \in Nat /\ RowsOK(d.lists, d.next) /\ RowsOK(d.items, d.next)
        /\ ListRowsOK(d.lists) /\ ItemRowsOK(d.items, DOMAIN d.lists)
    BY DEF StoreOK
  <2>3. l.id \in DOMAIN d.lists /\ ~Store!ExternalTaken(d.lists, l.ext, l.id)
    BY <1>6
  <2>4. RowsOK(kept, d.next) /\ ItemRowsOK(kept, DOMAIN d.lists)
    BY <2>2, RowsUnlinked
  <2>5. todo \in SUBSET DOMAIN l.items
    BY DEF Store!ToMove
  <2> HIDE DEF kept, todo
  <2>6. RowsOK(items, d.next) /\ ItemRowsOK(items, DOMAIN d.lists)
    BY <2>2, <2>3, <2>4, <2>5, <1>3, RowsMoved
  <2>7. DOMAIN d.lists[l.id] = {"name", "pos", "status", "modified", "ext", "row"}
    BY <2>2, <2>3 DEF ListRowsOK
  <2>8. /\ row.row = d.lists[l.id].row /\ row.pos = l.pos /\ row.status = l.status
        /\ row.ext = Store!Coalesce(l.ext, d.lists[l.id].ext) /\ DOMAIN row = DOMAIN d.lists[l.id]
    BY <2>7
  <2> HIDE DEF row, items
  <2>9. row.ext = d.lists[l.id].ext \/ ~Store!ExternalTaken(d.lists, row.ext, l.id)
    BY <2>3, <2>8 DEF Store!Coalesce
  <2>10. RowsOK(lists, d.next)
    BY <2>2, <2>3, <2>8, <2>9, <1>3, RowsChanged DEF ListOK
  <2>11. DOMAIN lists = DOMAIN d.lists /\ ListRowsOK(lists)
    BY <2>2, <2>3, <2>7, <2>8, <1>3 DEF Store!With, ListRowsOK, ListOK
  <2>12. new.lists = lists /\ new.items = items /\ new.next = d.next /\ DOMAIN new = DOMAIN d
    BY DEF StoreOK
  <2> HIDE DEF lists, new
  <2>13. StoreOK(new)
    BY <2>6, <2>10, <2>11, <2>12 DEF StoreOK
  <2> QED
    BY <2>1, <2>13, <1>3 DEF StoreAnswer
<1> QED
  BY <1>5, <1>6

\* DeleteList cascades: the items of the list go, the links to them are cut, and
\* every item that is left is in a list that is left.
LEMMA StoreDeleteList ==
    ASSUME NEW d, StoreOK(d), NEW list
    PROVE  StoreAnswer(Store!DeleteList(d, list))
<1> DEFINE r == Store!DeleteList(d, list)
           l == Store!Resolved(d.lists, list.id, list.ext)
           lists == Store!Only(d.lists, DOMAIN d.lists \ {l})
           items == Store!Unlinked(d.items, Store!ItemsOf(d, l))
           new == [d EXCEPT !.lists = lists, !.items = items]
<1>1. r = IF l \notin DOMAIN d.lists THEN [result |-> "error", db |-> d] ELSE [result |-> "ok", db |-> new]
  BY DEF Store!DeleteList
<1>2. /\ d.next \in Nat /\ RowsOK(d.lists, d.next) /\ RowsOK(d.items, d.next)
      /\ ListRowsOK(d.lists) /\ ItemRowsOK(d.items, DOMAIN d.lists)
  BY DEF StoreOK
<1> HIDE DEF l
<1>3. /\ RowsOK(items, d.next) /\ ItemRowsOK(items, DOMAIN d.lists)
      /\ DOMAIN items = DOMAIN d.items \ Store!ItemsOf(d, l)
      /\ \A x \in DOMAIN items : items[x].list = d.items[x].list
  <2> DEFINE gone == Store!ItemsOf(d, l)
             I == d.items
             n == d.next
             L == DOMAIN d.lists
  <2>1. n \in Nat /\ RowsOK(I, n) /\ ItemRowsOK(I, L)
    BY <1>2
  <2> HIDE DEF gone, I, n, L
  <2>2. LET u == Store!Unlinked(I, gone)
        IN  /\ RowsOK(u, n) /\ ItemRowsOK(u, L) /\ DOMAIN u = DOMAIN I \ gone
            /\ \A x \in DOMAIN u : u[x].list = I[x].list
    BY <2>1, RowsUnlinked
  <2> QED
    BY <2>2 DEF gone, I, n, L, items
<1>4. \A x \in DOMAIN items : items[x].list # l
  BY <1>3 DEF Store!ItemsOf
<1>5. DOMAIN lists = DOMAIN d.lists \ {l} /\ \A x \in DOMAIN lists : lists[x] = d.lists[x]
  BY DEF Store!Only
<1> HIDE DEF l, lists, items
<1>6. new.lists = lists /\ new.items = items /\ new.next = d.next /\ DOMAIN new = DOMAIN d
  BY DEF StoreOK
<1> HIDE DEF new
<1>7. RowsOK(lists, d.next)
  <2>1. \A x \in DOMAIN lists : lists[x].pos \in Nat
    BY <1>2, <1>5 DEF RowsOK
  <2> QED
    BY <1>2, <1>5, <2>1, RowsKept
<1>8. ListRowsOK(lists) /\ ItemRowsOK(items, DOMAIN lists)
  BY <1>2, <1>3, <1>4, <1>5 DEF ListRowsOK, ItemRowsOK
<1>9. StoreOK(new)
  BY <1>3, <1>6, <1>7, <1>8 DEF StoreOK
<1> QED
  BY <1>1, <1>9 DEF StoreAnswer

\* New times for some rows.
LEMMA RowsTouched ==
    ASSUME NEW rows, NEW next \in Nat, RowsOK(rows, next), NEW lists, ItemRowsOK(rows, lists),
           NEW ids, NEW t
    PROVE  LET new == Store!Touched(rows, ids, t)
           IN  /\ RowsOK(new, next) /\ ItemRowsOK(new, lists) /\ DOMAIN new = DOMAIN rows
               /\ \A x \in DOMAIN new : new[x].ext = rows[x].ext /\ new[x].row = rows[x].row
<1> DEFINE new == Store!Touched(rows, ids, t)
<1>1. /\ DOMAIN new = DOMAIN rows
      /\ \A x \in DOMAIN new : new[x] = rows[x] \/ new[x] = [rows[x] EXCEPT !.modified = t]
  BY DEF Store!Touched
<1> HIDE DEF new
<1>2. \A x \in DOMAIN new : /\ DOMAIN rows[x] = ItemColumns /\ rows[x].pos \in Nat /\ rows[x].list \in lists
                            /\ rows[x].project \in DOMAIN rows \cup {Nil}
  BY <1>1 DEF ItemRowsOK, RowsOK
<1>3. ASSUME NEW x \in DOMAIN new
      PROVE  /\ new[x].row = rows[x].row /\ new[x].ext = rows[x].ext /\ new[x].pos \in Nat
             /\ DOMAIN new[x] = ItemColumns /\ new[x].status = rows[x].status
             /\ new[x].list \in lists /\ new[x].project \in DOMAIN new \cup {Nil}
  BY <1>1, <1>2 DEF ItemColumns
<1>4. RowsOK(new, next)
  BY <1>1, <1>3, RowsKept
<1>5. ItemRowsOK(new, lists)
  BY <1>1, <1>3 DEF ItemRowsOK
<1> QED
  BY <1>1, <1>3, <1>4, <1>5 DEF new

\* CreateItem looks up the list and the project, shifts the items below and inserts:
\* each reference that it stores leads to a row, or the call fails and changes
\* nothing.
LEMMA StoreCreateItem ==
    ASSUME NEW d, StoreOK(d), NEW item, ItemOK(item), NEW t
    PROVE  LET r == Store!CreateItem(d, item, t)
           IN  /\ StoreAnswer(r) /\ ItemOK(r.item)
               /\ r.result = "ok" => /\ r.item.ext = item.ext /\ r.item.id # Nil
                                     /\ item.id # Nil => r.item.id = item.id
<1> DEFINE r == Store!CreateItem(d, item, t)
           l == Store!Resolved(d.lists, item.list, item.xlist)
           Named == item.xproject # Store!Nil \/ item.tag # Store!NoTag
           project == Store!ProjectFor(d, item, l, Named)
           i == [item EXCEPT !.id = IF @ = Store!Nil THEN d.next ELSE @, !.list = l, !.modified = t,
                             !.project = project]
           row == [list |-> l, pos |-> i.pos, status |-> i.status, text |-> i.text,
                   tag |-> Store!TagFor(d, item, l), project |-> i.project,
                   modified |-> t, ext |-> i.ext, row |-> d.next]
           shifted == Store!Shifted(d.items, Store!ItemsOf(d, l), i.pos)
           items == Store!With(shifted, i.id, row)
           inserted == [d EXCEPT !.items = items, !.next = @ + 1]
           sorted == Store!UpdateList(inserted, Store!GetList(d, l), Store!GetList(d, l).items, t)
           Error == \/ item.status \in {"open", "deleted"}
                    \/ l \notin DOMAIN d.lists
                    \/ i.id \in DOMAIN d.items
                    \/ Store!ExternalTaken(d.items, i.ext, i.id)
                    \/ i.project \notin DOMAIN d.items \cup {Nil}
<1>1. r = IF Error THEN [result |-> "error", db |-> d, item |-> item]
                   ELSE Store!@@(sorted, [item |-> i, partial |-> {inserted}])
  BY DEF Store!CreateItem, Store!Resort, Store!Nil, Nil
<1> HIDE DEF l, Named, project
<1>2. /\ d.next \in Nat \ {0} /\ RowsOK(d.lists, d.next) /\ RowsOK(d.items, d.next)
      /\ ListRowsOK(d.lists) /\ ItemRowsOK(d.items, DOMAIN d.lists)
  BY DEF StoreOK
<1>3. /\ ItemOK(i) /\ i.ext = item.ext /\ i.status = item.status /\ i.id # Nil
      /\ item.id # Nil => i.id = item.id
  BY <1>2 DEF ItemOK, ItemFields, Store!Nil, Nil
<1>4. /\ row.row = d.next /\ row.ext = i.ext /\ row.pos = i.pos /\ row.status = i.status
      /\ row.list = l /\ row.project = i.project /\ DOMAIN row = ItemColumns
  BY DEF ItemColumns
<1> HIDE DEF i, row
<1>5. CASE Error
  <2>1. r = [result |-> "error", db |-> d, item |-> item]
    BY <1>1, <1>5
  <2> HIDE DEF r
  <2>2. r.db = d /\ r.item = item /\ r.result = "error" /\ "partial" \notin DOMAIN r
    BY <2>1
  <2> QED
    BY <2>2 DEF StoreAnswer, r
<1>6. CASE ~Error
  <2>1. /\ RowsOK(shifted, d.next) /\ ItemRowsOK(shifted, DOMAIN d.lists)
        /\ DOMAIN shifted = DOMAIN d.items /\ ~Store!ExternalTaken(shifted, row.ext, i.id)
    BY <1>2, <1>4, <1>6, RowsShifted
  <2> HIDE DEF shifted
  <2>2. RowsOK(items, d.next + 1)
    BY <1>2, <1>3, <1>4, <1>6, <2>1, RowsWith DEF ItemOK
  <2>3. DOMAIN items = DOMAIN d.items \cup {i.id}
    BY <2>1 DEF Store!With
  <2>4. ItemRowsOK(items, DOMAIN d.lists)
    <3>1. \A x \in DOMAIN items : items[x] = IF x = i.id THEN row ELSE shifted[x]
      BY <2>1, <2>3 DEF Store!With
    <3> QED
      BY <1>3, <1>4, <1>6, <2>1, <2>3, <3>1 DEF ItemRowsOK, ItemOK
  <2>5. /\ inserted.lists = d.lists /\ inserted.items = items /\ inserted.next = d.next + 1
        /\ DOMAIN inserted = DOMAIN d
    BY DEF StoreOK
  <2>6. RowsOK(d.lists, d.next + 1)
    BY <1>2, RowsLater
  <2> HIDE DEF items, inserted
  <2>7. StoreOK(inserted)
    BY <1>2, <2>2, <2>4, <2>5, <2>6 DEF StoreOK
  <2>8. ListOK(Store!GetList(d, l))
    BY <1>6, StoreGetList
  <2>9. StoreAnswer(sorted) /\ DOMAIN sorted = {"result", "db", "list"}
    BY <2>7, <2>8, StoreUpdateList
  <2> HIDE DEF sorted
  <2>10. r = Store!@@(sorted, [item |-> i, partial |-> {inserted}])
    BY <1>1, <1>6
  <2>11. r.db = sorted.db /\ r.item = i /\ r.partial = {inserted}
    BY <2>9, <2>10 DEF Store!@@
  <2> QED
    BY <1>3, <2>7, <2>9, <2>11 DEF StoreAnswer
<1> QED
  BY <1>5, <1>6

\* UpdateItem and the project columns that it copies to the children leave the
\* database consistent; the item that it returns is one with an id.
LEMMA StoreUpdateItem ==
    ASSUME NEW d, StoreOK(d), NEW item, ItemOK(item), NEW t
    PROVE  LET r == Store!UpdateItem(d, item, t)
           IN  /\ StoreAnswer(r) /\ ItemOK(r.item)
               /\ r.result = "ok" => /\ r.item.ext = item.ext /\ r.item.id # Nil
                                     /\ item.id # Nil => r.item.id = item.id
<1> DEFINE r == Store!UpdateItem(d, item, t)
           l == Store!Resolved(d.lists, item.list, item.xlist)
           i == [item EXCEPT !.id = Store!Resolved(d.items, @, item.ext), !.list = l, !.modified = t]
           Named == item.xproject # Store!Nil \/ item.tag # Store!NoTag \/ item.ext = Store!Nil
           project == Store!ProjectFor(d, [item EXCEPT !.id = i.id], l, Named)
           tag == Store!TagFor(d, item, l)
           row == [d.items[i.id] EXCEPT !.status = i.status, !.text = i.text, !.modified = t,
                                        !.project = project,
                                        !.tag = IF tag = Store!NoTag THEN @ ELSE tag,
                                        !.ext = Store!Coalesce(i.ext, @)]
           renamed == Store!Renamed(d, [item EXCEPT !.id = i.id], l)
           items == Store!With(renamed, i.id, row)
           updated == [d EXCEPT !.items = items]
           sorted == Store!UpdateList(updated, Store!GetList(d, l), Store!GetList(d, l).items, t)
           found == [i EXCEPT !.project = project]
           Error == \/ item.status = "open"
                    \/ l \notin DOMAIN d.lists
                    \/ i.id \notin DOMAIN d.items
                    \/ Store!ExternalTaken(d.items, i.ext, i.id)
                    \/ project \notin DOMAIN d.items \cup {Nil}
<1>1. r = IF Error THEN [result |-> "error", db |-> d, item |-> item]
                   ELSE Store!@@(sorted, [item |-> found, partial |-> {updated}])
  BY DEF Store!UpdateItem, Store!Resort, Store!Nil, Nil
<1> HIDE DEF l, Named, tag
<1>2. /\ d.next \in Nat \ {0} /\ RowsOK(d.lists, d.next) /\ RowsOK(d.items, d.next)
      /\ ListRowsOK(d.lists) /\ ItemRowsOK(d.items, DOMAIN d.lists)
  BY DEF StoreOK
<1>3. /\ ItemOK(i) /\ i.ext = item.ext /\ i.status = item.status
      /\ item.id # Nil => i.id = item.id
  BY DEF ItemOK, ItemFields, Store!Resolved, Store!Nil, Nil
<1> HIDE DEF i
<1>4. ItemOK(found) /\ found.id = i.id /\ found.ext = i.ext
  BY <1>3 DEF ItemOK, ItemFields
<1> HIDE DEF project, found
<1>5. CASE Error
  <2>1. r = [result |-> "error", db |-> d, item |-> item]
    BY <1>1, <1>5
  <2> HIDE DEF r
  <2>2. r.db = d /\ r.item = item /\ r.result = "error" /\ "partial" \notin DOMAIN r
    BY <2>1
  <2> QED
    BY <2>2 DEF StoreAnswer, r
<1>6. CASE ~Error
  <2>1. /\ RowsOK(renamed, d.next) /\ ItemRowsOK(renamed, DOMAIN d.lists) /\ DOMAIN renamed = DOMAIN d.items
        /\ \A x \in DOMAIN renamed : renamed[x].ext = d.items[x].ext /\ renamed[x].row = d.items[x].row
    <3> DEFINE e == [item EXCEPT !.id = i.id]
               touched == Store!Touched(d.items, Store!NextActions(d.items, e.id), e.modified)
    <3>1. renamed = touched \/ renamed = d.items
      BY DEF Store!Renamed
    <3> HIDE DEF e
    <3>2. /\ RowsOK(touched, d.next) /\ ItemRowsOK(touched, DOMAIN d.lists) /\ DOMAIN touched = DOMAIN d.items
          /\ \A x \in DOMAIN touched : touched[x].ext = d.items[x].ext /\ touched[x].row = d.items[x].row
      BY <1>2, RowsTouched
    <3> HIDE DEF touched, renamed
    <3> QED
      BY <1>2, <3>1, <3>2
  <2> HIDE DEF renamed
  <2>2. /\ i.id \in DOMAIN d.items /\ DOMAIN d.items[i.id] = ItemColumns /\ d.items[i.id].pos \in Nat
        /\ d.items[i.id].list \in DOMAIN d.lists /\ i.id # Nil
    BY <1>2, <1>6 DEF ItemRowsOK, RowsOK
  <2>3. /\ row.row = d.items[i.id].row /\ row.pos = d.items[i.id].pos /\ row.status = i.status
        /\ row.list = d.items[i.id].list /\ row.project = project /\ DOMAIN row = ItemColumns
        /\ row.ext = Store!Coalesce(i.ext, d.items[i.id].ext)
    BY <2>2 DEF ItemColumns
  <2> HIDE DEF row
  <2>4. \A ext, id : Store!ExternalTaken(renamed, ext, id) <=> Store!ExternalTaken(d.items, ext, id)
    BY <2>1 DEF Store!ExternalTaken
  <2>5. row.ext = renamed[i.id].ext \/ ~Store!ExternalTaken(renamed, row.ext, i.id)
    BY <1>6, <2>1, <2>2, <2>3, <2>4 DEF Store!Coalesce
  <2>6. RowsOK(items, d.next)
    BY <1>2, <2>1, <2>2, <2>3, <2>5, RowsChanged
  <2>7. ItemRowsOK(items, DOMAIN d.lists)
    <3>1. /\ DOMAIN items = DOMAIN d.items
          /\ \A x \in DOMAIN items : items[x] = IF x = i.id THEN row ELSE renamed[x]
      BY <2>1, <2>2 DEF Store!With
    <3> QED
      BY <1>3, <1>6, <2>1, <2>2, <2>3, <3>1 DEF ItemRowsOK, ItemOK
  <2>8. updated.lists = d.lists /\ updated.items = items /\ updated.next = d.next /\ DOMAIN updated = DOMAIN d
    BY DEF StoreOK
  <2> HIDE DEF items, updated
  <2>9. StoreOK(updated)
    BY <1>2, <2>6, <2>7, <2>8 DEF StoreOK
  <2>10. ListOK(Store!GetList(d, l))
    BY <1>6, StoreGetList
  <2>11. StoreAnswer(sorted) /\ DOMAIN sorted = {"result", "db", "list"}
    BY <2>9, <2>10, StoreUpdateList
  <2> HIDE DEF sorted
  <2>12. r = Store!@@(sorted, [item |-> found, partial |-> {updated}])
    BY <1>1, <1>6
  <2>13. r.db = sorted.db /\ r.item = found /\ r.partial = {updated}
    BY <2>11, <2>12 DEF Store!@@
  <2> QED
    BY <1>3, <1>4, <2>2, <2>9, <2>11, <2>13 DEF StoreAnswer
<1> QED
  BY <1>5, <1>6

\* DeleteItem removes the row and cuts the links that lead to it.
LEMMA StoreDeleteItem ==
    ASSUME NEW d, StoreOK(d), NEW item, NEW t
    PROVE  StoreAnswer(Store!DeleteItem(d, item, t))
<1> DEFINE r == Store!DeleteItem(d, item, t)
           i == Store!Resolved(d.items, item.id, item.ext)
           touched == Store!Touched(d.items, Store!NextActions(d.items, i), t)
           items == Store!Unlinked(touched, {i})
           new == [d EXCEPT !.items = items]
<1>1. r = IF i \notin DOMAIN d.items THEN [result |-> "error", db |-> d] ELSE [result |-> "ok", db |-> new]
  BY DEF Store!DeleteItem
<1>2. /\ d.next \in Nat /\ RowsOK(d.items, d.next) /\ ItemRowsOK(d.items, DOMAIN d.lists)
  BY DEF StoreOK
<1>3. RowsOK(touched, d.next) /\ ItemRowsOK(touched, DOMAIN d.lists)
  BY <1>2, RowsTouched
<1> HIDE DEF touched
<1>4. RowsOK(items, d.next) /\ ItemRowsOK(items, DOMAIN d.lists)
  BY <1>2, <1>3, RowsUnlinked
<1>5. new.lists = d.lists /\ new.items = items /\ new.next = d.next /\ DOMAIN new = DOMAIN d
  BY DEF StoreOK
<1> HIDE DEF items, new
<1>6. StoreOK(new)
  BY <1>4, <1>5 DEF StoreOK
<1> QED
  BY <1>1, <1>6 DEF StoreAnswer

-----------------------------------------------------------------------------
(* Lists of lists and of items. *)

\* A place of a sequence, also as the number of elements up to it.
LEMMA Place ==
    ASSUME NEW s, IsSeq(s), NEW k \in DOMAIN s
    PROVE  k # 0 /\ k \in Nat /\ k \in 1 .. Len(s) /\ k \in 0 .. Len(s) /\ k - 1 \in 0 .. Len(s)
<1>1. Len(s) \in Nat /\ DOMAIN s = 1 .. Len(s)
  BY SeqOf
<1> QED
  BY <1>1

\* What First returns, of the places it finds.
FirstPlace(S) == IF S = {} THEN 0 ELSE CHOOSE k \in S : \A j \in S : k <= j

\* The first place that is found is one of those looked for, and 0 when there is
\* none.
LEMMA FirstIn ==
    ASSUME NEW s, IsSeq(s), NEW S \in SUBSET DOMAIN s
    PROVE  /\ FirstPlace(S) # 0 => FirstPlace(S) \in S /\ FirstPlace(S) \in DOMAIN s
           /\ FirstPlace(S) = 0 <=> S = {}
           /\ FirstPlace(S) \in 0 .. Len(s)
<1>1. Len(s) \in Nat /\ DOMAIN s = 1 .. Len(s)
  BY SeqOf
<1>2. S \in SUBSET Nat
  BY <1>1
<1>3. S # {} => FirstPlace(S) \in S
  BY <1>2, Least DEF FirstPlace
<1>4. CASE S = {}
  BY <1>1, <1>4 DEF FirstPlace
<1>5. CASE S # {}
  <2>1. FirstPlace(S) \in S /\ FirstPlace(S) \in DOMAIN s
    BY <1>3, <1>5
  <2>2. FirstPlace(S) # 0 /\ FirstPlace(S) \in 0 .. Len(s)
    BY <2>1, Place
  <2> QED
    BY <1>5, <2>1, <2>2
<1> QED
  BY <1>4, <1>5

\* A sequence with one element replaced.
LEMMA Replacing ==
    ASSUME NEW s, IsSeq(s), NEW k \in DOMAIN s, NEW e
    PROVE  LET t == [s EXCEPT ![k] = e]
           IN  /\ IsSeq(t) /\ Len(t) = Len(s) /\ DOMAIN t = DOMAIN s
               /\ t[k] = e /\ \A j \in DOMAIN s : j # k => t[j] = s[j]
<1> DEFINE t == [s EXCEPT ![k] = e]
<1>1. t = [j \in DOMAIN s |-> t[j]] /\ t[k] = e /\ \A j \in DOMAIN s : j # k => t[j] = s[j]
  OBVIOUS
<1> HIDE DEF t
<1>2. IsSeq(t) /\ Len(t) = Len(s) /\ DOMAIN t = DOMAIN s
  BY <1>1, Mapped
<1> QED
  BY <1>1, <1>2 DEF t

\* An item is inserted among items.
LEMMA ItemsInserted ==
    ASSUME NEW items, ItemsOK(items), NEW at \in 0 .. Len(items), NEW item, ItemOK(item)
    PROVE  ItemsOK(InsertedAt(items, at, item)) /\ Len(InsertedAt(items, at, item)) = Len(items) + 1
<1>1. IsSeq(items)
  BY DEF ItemsOK
<1> QED
  BY <1>1, Inserting DEF ItemsOK

\* An item is removed from items.
LEMMA ItemsRemoved ==
    ASSUME NEW items, ItemsOK(items), NEW at \in DOMAIN items
    PROVE  ItemsOK(Without(items, at)) /\ Len(Without(items, at)) = Len(items) - 1
<1>1. IsSeq(items)
  BY DEF ItemsOK
<1> QED
  BY <1>1, Removing DEF ItemsOK

\* An item takes the place of another.
LEMMA ItemReplaced ==
    ASSUME NEW items, ItemsOK(items), NEW k \in DOMAIN items, NEW item, ItemOK(item)
    PROVE  ItemsOK([items EXCEPT ![k] = item]) /\ Len([items EXCEPT ![k] = item]) = Len(items)
<1> DEFINE t == [items EXCEPT ![k] = item]
<1>1. /\ IsSeq(t) /\ Len(t) = Len(items) /\ DOMAIN t = DOMAIN items
      /\ t[k] = item /\ \A j \in DOMAIN items : j # k => t[j] = items[j]
  BY Replacing DEF ItemsOK
<1> HIDE DEF t
<1>2. ItemsOK(t)
  BY <1>1 DEF ItemsOK
<1> QED
  BY <1>1, <1>2 DEF t

\* A list is inserted among lists.
LEMMA ListsInserted ==
    ASSUME NEW lists, ListsOK(lists), NEW at \in 0 .. Len(lists), NEW list, ListOK(list)
    PROVE  ListsOK(InsertedAt(lists, at, list)) /\ Len(InsertedAt(lists, at, list)) = Len(lists) + 1
<1>1. IsSeq(lists)
  BY DEF ListsOK
<1> QED
  BY <1>1, Inserting DEF ListsOK

\* A list is removed from lists.
LEMMA ListsRemoved ==
    ASSUME NEW lists, ListsOK(lists), NEW at \in DOMAIN lists
    PROVE  ListsOK(Without(lists, at)) /\ Len(Without(lists, at)) = Len(lists) - 1
<1>1. IsSeq(lists)
  BY DEF ListsOK
<1> QED
  BY <1>1, Removing DEF ListsOK

\* A list takes the place of another.
LEMMA ListReplaced ==
    ASSUME NEW lists, ListsOK(lists), NEW k \in DOMAIN lists, NEW list, ListOK(list)
    PROVE  LET t == [lists EXCEPT ![k] = list]
           IN  /\ ListsOK(t) /\ Len(t) = Len(lists) /\ DOMAIN t = DOMAIN lists
               /\ t[k] = list /\ \A j \in DOMAIN lists : j # k => t[j] = lists[j]
<1> DEFINE t == [lists EXCEPT ![k] = list]
<1>1. /\ IsSeq(t) /\ Len(t) = Len(lists) /\ DOMAIN t = DOMAIN lists
      /\ t[k] = list /\ \A j \in DOMAIN lists : j # k => t[j] = lists[j]
  BY Replacing DEF ListsOK
<1> HIDE DEF t
<1>2. ListsOK(t)
  BY <1>1 DEF ListsOK
<1> QED
  BY <1>1, <1>2 DEF t

\* A list with other items.
LEMMA WithItems ==
    ASSUME NEW list, ListOK(list), NEW items, ItemsOK(items)
    PROVE  ListOK([list EXCEPT !.items = items]) /\ [list EXCEPT !.items = items].items = items
  BY DEF ListOK, ListFields

\* No items and no lists are items and lists.
LEMMA NoItems == ItemsOK(<<>>) /\ ListsOK(<<>>)
  BY Empty DEF ItemsOK, ListsOK

-----------------------------------------------------------------------------
(* The markdown file. *)

\* Clean of a list of the file.
LEMMA MarkdownCleanList ==
    ASSUME NEW list, ListOK(list)
    PROVE  /\ ListOK(Markdown!CleanList(list))
           /\ Markdown!CleanList(list) = [list EXCEPT !.items = Markdown!CleanItems(list.items)]
<1>1. Markdown!CleanList(list) = [list EXCEPT !.items = Markdown!CleanItems(list.items)]
  BY DEF Markdown!CleanList
<1>2. ItemsOK(Markdown!CleanItems(list.items))
  BY MarkdownCleans DEF ListOK
<1> QED
  BY <1>1, <1>2 DEF ListOK, ListFields

\* The parser (markdown/parser.go) makes of any file of the right shape lists that
\* the renderer accepts.
LEMMA MarkdownParsed ==
    ASSUME NEW f, FileOK(f)
    PROVE  /\ ListsOK(Markdown!Parsed(f)) /\ DOMAIN Markdown!Parsed(f) = DOMAIN f.lists
           /\ Markdown!CanRender(Markdown!Parsed(f))
<1> DEFINE items(k) == [j \in DOMAIN f.lists[k].items |->
                          Markdown!ParsedItem(f.lists[k].items[j], f.lists[k].id, j - 1, f.mtime)]
           list(k) == [id |-> f.lists[k].id, ext |-> Nil, name |-> f.lists[k].name, pos |-> k - 1,
                       status |-> "open", modified |-> f.mtime, items |-> items(k)]
           lists == Markdown!Parsed(f)
<1>1. lists = [k \in DOMAIN f.lists |-> Markdown!CleanList(list(k))]
  BY DEF Markdown!Parsed, Markdown!Nil, Nil
<1>2. IsSeq(f.lists) /\ Len(f.lists) \in Nat /\ DOMAIN f.lists = 1 .. Len(f.lists)
  BY SeqOf DEF FileOK, LinesOK
<1>3. ASSUME NEW k \in DOMAIN f.lists
      PROVE  /\ ListOK(lists[k])
             /\ \A j \in DOMAIN lists[k].items : lists[k].items[j].status \in {"not_started", "in_progress", "done"}
  <2>1. /\ IsSeq(f.lists[k].items)
        /\ \A j \in DOMAIN f.lists[k].items :
              f.lists[k].items[j].status \in Statuses \ {"open", "deleted"}
    BY DEF FileOK, LinesOK
  <2>2. items(k) = [j \in DOMAIN f.lists[k].items |-> items(k)[j]]
    OBVIOUS
  <2>3. IsSeq(items(k)) /\ DOMAIN items(k) = DOMAIN f.lists[k].items
    <3> HIDE DEF items
    <3> QED
      BY <2>1, <2>2, Mapped
  <2>4. ASSUME NEW j \in DOMAIN items(k)
        PROVE  ItemOK(items(k)[j]) /\ items(k)[j].status \in {"not_started", "in_progress", "done"}
    <3>1. j \in DOMAIN f.lists[k].items /\ j - 1 \in Nat
      <4>1. j \in DOMAIN f.lists[k].items
        BY <2>3
      <4> QED
        BY <2>1, <4>1, SeqOf
    <3>2. items(k)[j] = Markdown!ParsedItem(f.lists[k].items[j], f.lists[k].id, j - 1, f.mtime)
      BY <3>1
    <3> HIDE DEF items
    <3> QED
      BY <2>1, <3>1, <3>2 DEF Markdown!ParsedItem, ItemOK, ItemFields, Statuses
  <2> HIDE DEF items
  <2>5. ItemsOK(items(k))
    BY <2>3, <2>4 DEF ItemsOK
  <2>6. ListOK(list(k)) /\ list(k).items = items(k)
    BY <1>2, <2>5 DEF ListOK, ListFields
  <2>7. lists[k] = Markdown!CleanList(list(k))
    BY <1>1
  <2> HIDE DEF list, lists
  <2>8. ListOK(lists[k]) /\ lists[k] = [list(k) EXCEPT !.items = Markdown!CleanItems(list(k).items)]
    BY <2>6, <2>7, MarkdownCleanList
  <2>9. lists[k].items = Markdown!CleanItems(items(k))
    BY <2>6, <2>8 DEF ListOK, ListFields
  <2>10. ASSUME NEW j \in DOMAIN lists[k].items
         PROVE  lists[k].items[j].status \in {"not_started", "in_progress", "done"}
    <3>1. PICK m \in DOMAIN items(k) : lists[k].items[j] = [items(k)[m] EXCEPT !.pos = j - 1]
      BY <2>5, <2>9, MarkdownCleans
    <3> QED
      BY <2>4, <3>1 DEF ItemOK, ItemFields
  <2> QED
    BY <2>8, <2>10
<1>4. lists = [k \in DOMAIN f.lists |-> lists[k]]
  BY <1>1
<1> HIDE DEF lists
<1>5. IsSeq(lists) /\ DOMAIN lists = DOMAIN f.lists
  BY <1>2, <1>4, Mapped
<1> QED
  BY <1>3, <1>5 DEF ListsOK, Markdown!CanRender, lists

\* The renderer (markdown/renderer.go) writes lines of the right shape, and no other
\* than what the parser knows.
LEMMA MarkdownRendered ==
    ASSUME NEW lists, ListsOK(lists), Markdown!CanRender(lists)
    PROVE  LinesOK(Markdown!Rendered(lists))
<1> DEFINE Line(i) == [id |-> i.id, status |-> i.status, text |-> i.text, tag |-> i.tag]
           clean(k) == Markdown!CleanItems(lists[k].items)
           lines(k) == [j \in DOMAIN clean(k) |-> Line(clean(k)[j])]
           file1 == Markdown!Rendered(lists)
<1>1. file1 = [k \in DOMAIN lists |-> [id |-> lists[k].id, name |-> lists[k].name, items |-> lines(k)]]
  BY DEF Markdown!Rendered
<1>2. IsSeq(lists) /\ \A k \in DOMAIN lists : ListOK(lists[k])
  BY DEF ListsOK
<1>3. ASSUME NEW k \in DOMAIN lists
      PROVE  /\ IsSeq(lines(k))
             /\ \A j \in DOMAIN lines(k) :
                   DOMAIN lines(k)[j] = LineFields /\ lines(k)[j].status \in Statuses \ {"open", "deleted"}
  <2>1. ItemsOK(lists[k].items)
    BY <1>2 DEF ListOK
  <2>2. /\ ItemsOK(clean(k))
        /\ \A j \in DOMAIN clean(k) : \E m \in DOMAIN lists[k].items :
              clean(k)[j] = [lists[k].items[m] EXCEPT !.pos = j - 1]
    BY <2>1, MarkdownCleans
  <2>3. lines(k) = [j \in DOMAIN clean(k) |-> lines(k)[j]]
    OBVIOUS
  <2>4. ASSUME NEW j \in DOMAIN clean(k)
        PROVE  lines(k)[j] = Line(clean(k)[j]) /\ clean(k)[j].status \in Statuses \ {"open", "deleted"}
    <3>1. lines(k)[j] = Line(clean(k)[j])
      OBVIOUS
    <3> HIDE DEF clean
    <3>2. PICK m \in DOMAIN lists[k].items : clean(k)[j] = [lists[k].items[m] EXCEPT !.pos = j - 1]
      BY <2>2, <2>4
    <3>3. clean(k)[j].status = lists[k].items[m].status
      BY <2>1, <3>2 DEF ItemsOK, ItemOK, ItemFields
    <3> QED
      BY <3>1, <3>3 DEF Markdown!CanRender, Statuses
  <2> HIDE DEF clean, lines
  <2>5. IsSeq(lines(k)) /\ DOMAIN lines(k) = DOMAIN clean(k)
    BY <2>2, <2>3, Mapped DEF ItemsOK
  <2> QED
    BY <2>4, <2>5 DEF LineFields
<1>4. file1 = [k \in DOMAIN lists |-> file1[k]]
  BY <1>1
<1> HIDE DEF lines
<1>5. \A k \in DOMAIN lists : DOMAIN file1[k] = {"id", "name", "items"} /\ file1[k].items = lines(k)
  BY <1>1
<1> HIDE DEF file1
<1>6. IsSeq(file1) /\ DOMAIN file1 = DOMAIN lists
  BY <1>2, <1>4, Mapped
<1>7. LinesOK(file1)
  BY <1>3, <1>5, <1>6 DEF LinesOK
<1> QED
  BY <1>7 DEF file1

\* What an operation on the file leaves.
FileAnswer(r) == "partial" \notin DOMAIN r /\ FileOK(r.file)

\* A file that was read and written again is one.
LEMMA MarkdownNormalised ==
    ASSUME NEW f, FileOK(f)
    PROVE  FileOK(Markdown!Normalised(f))
<1>1. LinesOK(Markdown!Rendered(Markdown!Parsed(f)))
  BY MarkdownParsed, MarkdownRendered
<1> QED
  BY <1>1 DEF Markdown!Normalised, FileOK

\* What a write that is cut off leaves is a file, too: any number of its lines.
LEMMA MarkdownCutOff ==
    ASSUME NEW f, FileOK(f), NEW t
    PROVE  \A x \in Markdown!CutOff(f.lists, t) : FileOK(x)
<1> DEFINE lists == f.lists
           Lines(k, j) == [m \in 1 .. k |-> IF m = k THEN [lists[k] EXCEPT !.items = SubSeq(@, 1, j)]
                                                     ELSE lists[m]]
           After(k, j) == [exists |-> k > 0, lists |-> Lines(k, j), mtime |-> t]
<1>1. Markdown!CutOff(lists, t) =
        {After(0, 0)} \cup UNION {{After(k, j) : j \in 0 .. Len(lists[k].items)} : k \in DOMAIN lists}
  BY DEF Markdown!CutOff
<1>2. LinesOK(lists)
  BY DEF FileOK
<1> HIDE DEF lists
<1>3. FileOK(After(0, 0))
  <2>1. DOMAIN Lines(0, 0) = {} /\ IsSeq(Lines(0, 0))
    BY DEF IsSeq
  <2> QED
    BY <2>1 DEF FileOK, LinesOK
<1>4. ASSUME NEW k \in DOMAIN lists, NEW j \in 0 .. Len(lists[k].items)
      PROVE  FileOK(After(k, j))
  <2> DEFINE items == lists[k].items
             short == SubSeq(items, 1, j)
             new == Lines(k, j)
  <2>1. IsSeq(items) /\ DOMAIN lists[k] = {"id", "name", "items"} /\ k \in Nat
    BY <1>2 DEF LinesOK, IsSeq
  <2>2. IsSeq(short) /\ \A m \in DOMAIN short : \E n \in DOMAIN items : short[m] = items[n]
    BY <2>1, Fronts
  <2> HIDE DEF items, short
  <2>3. \A m \in DOMAIN short : DOMAIN short[m] = LineFields
                                 /\ short[m].status \in Statuses \ {"open", "deleted"}
    BY <1>2, <2>2 DEF LinesOK, items
  <2>4. DOMAIN new = 1 .. k /\ IsSeq(new)
    BY <2>1 DEF IsSeq
  <2>5. 1 .. k \in SUBSET DOMAIN lists
    BY <1>2, <2>1 DEF LinesOK, IsSeq
  <2>6. \A m \in 1 .. k : new[m] = IF m = k THEN [lists[k] EXCEPT !.items = short] ELSE lists[m]
    BY DEF short, items
  <2> HIDE DEF new
  <2>7. LinesOK(new)
    BY <1>2, <2>1, <2>2, <2>3, <2>4, <2>5, <2>6 DEF LinesOK
  <2> QED
    BY <2>7 DEF FileOK, new
<1> QED
  BY <1>1, <1>3, <1>4 DEF lists

\* So does a call whose write, or whose rewrite of what it read, is cut off.
LEMMA MarkdownHalfWritten ==
    ASSUME NEW f, FileOK(f), NEW new, FileOK(new), NEW t
    PROVE  \A x \in Markdown!HalfWritten(f, new, t) : FileOK(x)
<1>1. FileOK(Markdown!Normalised(f))
  BY MarkdownNormalised
<1> QED
  BY <1>1, MarkdownCutOff DEF Markdown!HalfWritten

\* What the client writes is a file.
LEMMA MarkdownWritten ==
    ASSUME NEW lists, ListsOK(lists), Markdown!CanRender(lists), NEW t
    PROVE  FileOK(Markdown!Written(lists, t))
<1>1. LinesOK(Markdown!Rendered(lists))
  BY MarkdownRendered
<1> QED
  BY <1>1 DEF Markdown!Written, FileOK

\* An operation that fails after it read the file leaves a file.
LEMMA MarkdownFailed ==
    ASSUME NEW f, FileOK(f), NEW result
    PROVE  FileAnswer(Markdown!Failed(result, f)) /\ DOMAIN Markdown!Failed(result, f) = {"result", "file"}
           /\ Markdown!Failed(result, f).result = result
<1>1. FileOK(Markdown!Normalised(f))
  BY MarkdownNormalised
<1> QED
  BY <1>1 DEF Markdown!Failed, FileAnswer

\* writeFile at the end of an operation: the file is written, or the operation fails
\* and the file is as it was read.
LEMMA MarkdownSave ==
    ASSUME NEW f, FileOK(f), NEW found, NEW lists, found => ListsOK(lists), NEW t
    PROVE  LET r == Markdown!Save(found, f, lists, t)
           IN  FileAnswer(r) /\ DOMAIN r = {"result", "file"}
<1> DEFINE r == Markdown!Save(found, f, lists, t)
           written == [result |-> "ok", file |-> Markdown!Written(lists, t)]
<1>1. \/ r = Markdown!Failed("missing", f) \/ r = Markdown!Failed("error", f)
      \/ found /\ Markdown!CanRender(lists) /\ r = written
  BY DEF Markdown!Save
<1>2. CASE found /\ Markdown!CanRender(lists) /\ r = written
  <2>1. FileOK(written.file)
    BY <1>2, MarkdownWritten
  <2> QED
    BY <1>2, <2>1 DEF FileAnswer
<1> QED
  BY <1>1, <1>2, MarkdownFailed

\* moveItem (markdown/client.go) takes an item out of the list where it finds it and
\* puts it into another; there are as many lists as before.
LEMMA MarkdownMoveItem ==
    ASSUME NEW lists, ListsOK(lists), NEW item, ItemOK(item), NEW idx \in DOMAIN lists
    PROVE  LET r == Markdown!MoveItem(lists, item, idx)
           IN  ListsOK(r.lists) /\ DOMAIN r.lists = DOMAIN lists
<1> DEFINE r == Markdown!MoveItem(lists, item, idx)
           sources == {k \in DOMAIN lists : lists[k].id = item.list}
           source == FirstPlace(sources)
           places == {k \in DOMAIN lists[source].items : lists[source].items[k].id = item.id}
           at == FirstPlace(places)
           left == [lists[source] EXCEPT !.items = Without(lists[source].items, at)]
           taken == [lists EXCEPT ![source] = left]
           joined == [taken[idx] EXCEPT !.items = InsertedAt(taken[idx].items, item.pos, item)]
           moved == [taken EXCEPT ![idx] = joined]
<1>1. r = IF source = 0 THEN [result |-> "error", lists |-> lists]
          ELSE IF at = 0 THEN [result |-> "error", lists |-> lists]
          ELSE IF item.pos > Len(taken[idx].items) THEN [result |-> "panic", lists |-> lists]
          ELSE [result |-> "ok", lists |-> moved]
  BY DEF Markdown!MoveItem, Markdown!First, Markdown!Without, Markdown!InsertedAt, Without, InsertedAt, FirstPlace
<1>2. CASE source = 0 \/ at = 0 \/ item.pos > Len(taken[idx].items)
  <2> HIDE DEF source, at, taken, moved
  <2>1. r.lists = lists
    BY <1>1, <1>2
  <2> QED
    BY <2>1
<1>3. CASE ~(source = 0 \/ at = 0 \/ item.pos > Len(taken[idx].items))
  <2>1. r.lists = moved
    <3> HIDE DEF source, at, taken, moved
    <3> QED
      BY <1>1, <1>3
  <2>2. source \in DOMAIN lists
    <3>1. IsSeq(lists) /\ sources \in SUBSET DOMAIN lists
      BY DEF ListsOK
    <3> HIDE DEF sources
    <3> QED
      BY <1>3, <3>1, FirstIn
  <2> HIDE DEF source
  <2>3. ListOK(lists[source]) /\ ItemsOK(lists[source].items)
    BY <2>2 DEF ListsOK, ListOK
  <2>4. at \in DOMAIN lists[source].items
    <3>1. IsSeq(lists[source].items) /\ places \in SUBSET DOMAIN lists[source].items
      BY <2>3 DEF ItemsOK
    <3> HIDE DEF places
    <3> QED
      BY <1>3, <3>1, FirstIn
  <2> HIDE DEF at
  <2>5. ListOK(left)
    BY <2>3, <2>4, ItemsRemoved, WithItems
  <2> HIDE DEF left
  <2>6. ListsOK(taken) /\ DOMAIN taken = DOMAIN lists
    BY <2>2, <2>5, ListReplaced
  <2> HIDE DEF taken
  <2>7. ListOK(taken[idx]) /\ ItemsOK(taken[idx].items)
    BY <2>6 DEF ListsOK, ListOK
  <2>8. item.pos \in 0 .. Len(taken[idx].items)
    <3>1. Len(taken[idx].items) \in Nat /\ item.pos \in Nat
      BY <2>7, SeqOf DEF ItemsOK, ItemOK
    <3> QED
      BY <1>3, <3>1
  <2>9. ListOK(joined)
    BY <2>7, <2>8, ItemsInserted, WithItems
  <2> HIDE DEF joined
  <2>10. ListsOK(moved) /\ DOMAIN moved = DOMAIN lists
    BY <2>6, <2>9, ListReplaced
  <2> QED
    BY <2>1, <2>10
<1> QED
  BY <1>2, <1>3

\* The loop of UpdateList over the items to move: the lists remain lists after each
\* of them.  MoveItems is a recursive function over the items, so that its values
\* come from a function that solves the recursion up to the last one.
LEMMA MarkdownMoveItems ==
    ASSUME NEW lists, ListsOK(lists), NEW list, ListOK(list), NEW todo, NEW idx \in DOMAIN lists
    PROVE  LET r == Markdown!MoveItems(lists, list, todo, idx)
           IN  ListsOK(r.lists) /\ DOMAIN r.lists = DOMAIN lists
<1> DEFINE N == Len(list.items)
           Step(b, k) == IF k \in todo /\ b.result = "ok"
                                THEN Markdown!MoveItem(b.lists, list.items[k], idx) ELSE b
           Begun == [result |-> "ok", lists |-> lists]
           Solves(f, n) == f = [k \in 0 .. n |-> IF k = 0 THEN Begun ELSE Step(f[k - 1], k)]
           Unsolved == {n \in 0 .. N : ~\E f : Solves(f, n)}
           moved == CHOOSE f : Solves(f, N)
           Good(b) == ListsOK(b.lists) /\ DOMAIN b.lists = DOMAIN lists
           Bad == {k \in 0 .. N : ~Good(moved[k])}
<1>0. N \in Nat /\ DOMAIN list.items = 1 .. N
  BY SeqOf DEF ListOK, ItemsOK
<1>1. Markdown!MoveItems(lists, list, todo, idx) = moved[N]
  BY DEF Markdown!MoveItems
<1>2. ASSUME NEW b, Good(b), NEW k \in DOMAIN list.items PROVE Good(Step(b, k))
  <2>1. ItemOK(list.items[k]) /\ idx \in DOMAIN b.lists
    BY <1>2 DEF ListOK, ItemsOK
  <2> QED
    BY <1>2, <2>1, MarkdownMoveItem
<1>3. Good(Begun)
  OBVIOUS
<1> HIDE DEF Good, Step, Begun
<1>4. Unsolved = {}
  <2> SUFFICES ASSUME Unsolved # {} PROVE FALSE
    OBVIOUS
  <2>1. PICK n \in Unsolved : \A m \in Unsolved : n <= m
    <3>1. Unsolved \in SUBSET Nat
      BY <1>0
    <3> QED
      BY <3>1, Least
  <2>2. n \in 0 .. N /\ ~\E f : Solves(f, n)
    OBVIOUS
  <2>3. CASE n = 0
    <3>1. Solves([k \in 0 .. 0 |-> Begun], 0)
      OBVIOUS
    <3> QED
      BY <3>1, <2>2, <2>3
  <2>4. CASE n # 0
    <3>1. n - 1 \in 0 .. N /\ n - 1 \notin Unsolved
      <4>1. n \in Nat /\ n - 1 \in 0 .. N /\ ~(n <= n - 1)
        BY <1>0, <2>2, <2>4
      <4> HIDE DEF Unsolved
      <4> QED
        BY <2>1, <4>1
    <3>2. PICK f : Solves(f, n - 1)
      BY <3>1
    <3> DEFINE g == [k \in 0 .. n |-> IF k = n THEN Step(f[n - 1], n) ELSE f[k]]
    <3>3. n \in Nat /\ n - 1 \in 0 .. n - 1 /\ \A k \in 0 .. n : k # n => k \in 0 .. n - 1
      BY <1>0, <2>2, <2>4
    <3>4. \A k \in 0 .. n - 1 : f[k] = IF k = 0 THEN Begun ELSE Step(f[k - 1], k)
      BY <3>2
    <3>5. ASSUME NEW k \in 0 .. n PROVE g[k] = IF k = 0 THEN Begun ELSE Step(g[k - 1], k)
      <4>1. CASE k = n
        <5>1. g[k - 1] = f[n - 1] /\ k # 0
          BY <2>4, <3>3, <4>1
        <5> QED
          BY <4>1, <5>1
      <4>2. CASE k # n
        <5>1. k \in 0 .. n - 1 /\ g[k] = f[k]
          BY <3>3, <4>2
        <5>2. k # 0 => k - 1 \in 0 .. n /\ k - 1 # n
          BY <3>3, <5>1
        <5>3. k # 0 => g[k - 1] = f[k - 1]
          BY <5>2
        <5> QED
          BY <3>4, <5>1, <5>3
      <4> QED
        BY <4>1, <4>2
    <3>6. Solves(g, n)
      <4>1. g = [k \in 0 .. n |-> g[k]]
        OBVIOUS
      <4> HIDE DEF g
      <4> QED
        BY <3>5, <4>1
    <3> QED
      BY <3>6, <2>2
  <2> QED
    BY <2>3, <2>4
<1>5. \A k \in 0 .. N : moved[k] = IF k = 0 THEN Begun ELSE Step(moved[k - 1], k)
  <2>1. \E f : Solves(f, N)
    BY <1>0, <1>4
  <2> HIDE DEF Solves
  <2>2. Solves(moved, N)
    BY <2>1
  <2> QED
    BY <2>2 DEF Solves
<1> HIDE DEF Solves, moved
<1>6. Bad = {}
  <2> SUFFICES ASSUME Bad # {} PROVE FALSE
    OBVIOUS
  <2>1. PICK n \in Bad : \A m \in Bad : n <= m
    <3>1. Bad \in SUBSET Nat
      BY <1>0
    <3> QED
      BY <3>1, Least
  <2>2. n \in 0 .. N /\ ~Good(moved[n])
    OBVIOUS
  <2>3. n # 0
    BY <1>3, <1>5, <2>2
  <2>4. n \in 1 .. N /\ n - 1 \in 0 .. N /\ ~(n <= n - 1)
    BY <1>0, <2>2, <2>3
  <2>5. Good(moved[n - 1])
    BY <2>1, <2>4
  <2> QED
    BY <1>0, <1>2, <1>5, <2>2, <2>3, <2>4, <2>5
<1>7. Good(moved[N])
  BY <1>0, <1>6
<1> QED
  BY <1>1, <1>7 DEF Good

\* CreateList of the markdown client.
LEMMA MarkdownCreateList ==
    ASSUME NEW f, FileOK(f), NEW list, ListOK(list), NEW t
    PROVE  LET r == Markdown!CreateList(f, list, t)
           IN  FileAnswer(r) /\ ListOK(r.list)
<1> DEFINE r == Markdown!CreateList(f, list, t)
           lists == Markdown!Parsed(f)
           c == Markdown!CleanList(list)
           l == [c EXCEPT !.pos = IF @ <= Len(lists) THEN @ ELSE Len(lists)]
           new == [l EXCEPT !.items = <<>>]
           all == InsertedAt(lists, l.pos, new)
           failed == Markdown!Failed("error", f)
<1>1. r = IF list.status = "deleted" THEN Markdown!@@(failed, [list |-> list])
          ELSE [result |-> "ok", list |-> l, file |-> Markdown!Written(all, t)]
  BY DEF Markdown!CreateList, Markdown!InsertedAt, InsertedAt
<1>2. ListsOK(lists) /\ Markdown!CanRender(lists) /\ IsSeq(lists) /\ Len(lists) \in Nat
  BY MarkdownParsed, SeqOf DEF ListsOK
<1>3. ListOK(c)
  BY MarkdownCleanList
<1> HIDE DEF lists, c
<1>4. ListOK(l) /\ l.pos \in 0 .. Len(lists)
  BY <1>2, <1>3 DEF ListOK, ListFields
<1> HIDE DEF l
<1>5. ListOK(new) /\ new.items = <<>>
  BY <1>4, NoItems, WithItems
<1> HIDE DEF new
<1>6. /\ ListsOK(all)
      /\ \A k \in DOMAIN all : all[k] = new \/ \E j \in DOMAIN lists : all[k] = lists[j]
  BY <1>2, <1>4, <1>5, ListsInserted, Inserting
<1>7. Markdown!CanRender(all)
  <2> SUFFICES ASSUME NEW k \in DOMAIN all, NEW j \in DOMAIN all[k].items
               PROVE  all[k].items[j].status \in {"not_started", "in_progress", "done"}
    BY DEF Markdown!CanRender
  <2> HIDE DEF all
  <2>1. all[k] # new
    BY <1>5, Empty
  <2> QED
    BY <2>1, <1>2, <1>6 DEF Markdown!CanRender
<1> HIDE DEF all
<1>8. FileOK(Markdown!Written(all, t))
  BY <1>6, <1>7, MarkdownWritten
<1>9. FileAnswer(failed) /\ DOMAIN failed = {"result", "file"}
  BY MarkdownFailed
<1> HIDE DEF failed
<1>10. CASE list.status = "deleted"
  <2>1. r.file = failed.file /\ r.list = list /\ "partial" \notin DOMAIN r
    BY <1>1, <1>9, <1>10 DEF Markdown!@@
  <2> QED
    BY <2>1, <1>9 DEF FileAnswer
<1>11. CASE list.status # "deleted"
  BY <1>1, <1>4, <1>8, <1>11 DEF FileAnswer
<1> QED
  BY <1>10, <1>11

\* UpdateList of the markdown client, with the items that it moves and the list that
\* it moves itself.
LEMMA MarkdownUpdateList ==
    ASSUME NEW f, FileOK(f), NEW list, ListOK(list), NEW current, NEW t
    PROVE  LET r == Markdown!UpdateList(f, list, current, t)
           IN  FileAnswer(r) /\ ListOK(r.list) /\ (r.result = "ok" => list.id # Nil)
<1> DEFINE r == Markdown!UpdateList(f, list, current, t)
           lists == Markdown!Parsed(f)
           l == Markdown!CleanList(list)
           found == {k \in DOMAIN lists : lists[k].id = l.id \/ Markdown!EquivalentLists(lists[k], l)}
           idx == FirstPlace(found)
           named == [lists[idx] EXCEPT !.id = l.id, !.name = l.name]
           pos == IF l.pos < Len(lists) THEN l.pos ELSE Len(lists) - 1
           placed == InsertedAt(Without(lists, idx), pos, named)
           moved == Markdown!MoveItems(placed, l, Markdown!ToMove(l, current), pos + 1)
           there == [l EXCEPT !.pos = pos]
           saved == Markdown!Save(TRUE, f, moved.lists, t)
           missing == Markdown!Failed("missing", f)
           error == Markdown!Failed("error", f)
           stuck == Markdown!Failed(moved.result, f)
<1>1. r = IF ~f.exists THEN Markdown!@@(missing, [list |-> l])
          ELSE IF l.id = Nil \/ idx = 0 THEN Markdown!@@(error, [list |-> l])
          ELSE IF moved.result # "ok" THEN Markdown!@@(stuck, [list |-> l])
          ELSE Markdown!@@(saved, [list |-> there])
  BY DEF Markdown!UpdateList, Markdown!InsertedAt, InsertedAt, Markdown!Without, Without,
         Markdown!First, FirstPlace, Markdown!Nil, Nil
<1>2. ListsOK(lists) /\ IsSeq(lists) /\ Len(lists) \in Nat
  BY MarkdownParsed, SeqOf DEF ListsOK
<1>3. ListOK(l) /\ l.id = list.id
  BY MarkdownCleanList DEF ListOK, ListFields
<1>4. idx # 0 => idx \in DOMAIN lists
  <2>1. found \in SUBSET DOMAIN lists
    OBVIOUS
  <2> HIDE DEF found, lists
  <2> QED
    BY <1>2, <2>1, FirstIn
<1> HIDE DEF lists, l, idx
<1>6. FileAnswer(stuck) /\ DOMAIN stuck = {"result", "file"} /\ stuck.result = moved.result
  BY MarkdownFailed
<1>7. ASSUME NEW x, FileAnswer(x), DOMAIN x = {"result", "file"}, NEW y, ListOK(y),
             r = Markdown!@@(x, [list |-> y])
      PROVE  FileAnswer(r) /\ ListOK(r.list) /\ r.result = x.result
  <2> HIDE DEF r
  <2> QED
    BY <1>7 DEF Markdown!@@, FileAnswer
<1> HIDE DEF moved
<1>8. CASE ~f.exists
  <2>1. FileAnswer(missing) /\ DOMAIN missing = {"result", "file"} /\ missing.result = "missing"
    BY MarkdownFailed
  <2> HIDE DEF missing, error, stuck, saved, there
  <2>2. r = Markdown!@@(missing, [list |-> l])
    BY <1>1, <1>8
  <2> HIDE DEF r
  <2> QED
    BY <1>3, <1>7, <2>1, <2>2 DEF r
<1>9. CASE f.exists /\ (l.id = Nil \/ idx = 0)
  <2>1. FileAnswer(error) /\ DOMAIN error = {"result", "file"} /\ error.result = "error"
    BY MarkdownFailed
  <2> HIDE DEF missing, error, stuck, saved, there
  <2>2. r = Markdown!@@(error, [list |-> l])
    BY <1>1, <1>9
  <2> HIDE DEF r
  <2> QED
    BY <1>3, <1>7, <2>1, <2>2 DEF r
<1>10. CASE f.exists /\ ~(l.id = Nil \/ idx = 0) /\ moved.result # "ok"
  <2> HIDE DEF missing, error, stuck, saved, there
  <2>2. r = Markdown!@@(stuck, [list |-> l])
    BY <1>1, <1>10
  <2> HIDE DEF r
  <2> QED
    BY <1>3, <1>6, <1>7, <1>10, <2>2 DEF r
<1>11. CASE f.exists /\ ~(l.id = Nil \/ idx = 0) /\ moved.result = "ok"
  <2>0. r = Markdown!@@(saved, [list |-> there])
    <3> HIDE DEF missing, error, stuck, saved, there
    <3> QED
      BY <1>1, <1>11
  <2>1. idx \in DOMAIN lists /\ idx \in 1 .. Len(lists)
    BY <1>2, <1>4, <1>11, SeqOf
  <2>2. l.pos \in Nat
    BY <1>3 DEF ListOK
  <2>3. pos \in 0 .. Len(lists) - 1 /\ pos \in Nat
    BY <1>2, <2>1, <2>2
  <2> HIDE DEF pos
  <2>4. ListOK(there)
    BY <1>3, <2>3 DEF ListOK, ListFields
  <2>5. ListOK(named)
    BY <1>2, <2>1 DEF ListsOK, ListOK, ListFields
  <2> HIDE DEF named
  <2>6. ListsOK(Without(lists, idx)) /\ Len(Without(lists, idx)) = Len(lists) - 1
    BY <1>2, <2>1, ListsRemoved
  <2>7. ListsOK(placed) /\ Len(placed) = (Len(lists) - 1) + 1
    BY <2>3, <2>5, <2>6, ListsInserted
  <2> HIDE DEF placed
  <2>8. pos + 1 \in DOMAIN placed
    BY <1>2, <2>3, <2>7, SeqOf DEF ListsOK
  <2>9. ListsOK(moved.lists)
    BY <1>3, <2>7, <2>8, MarkdownMoveItems DEF moved
  <2> HIDE DEF there
  <2>10. FileAnswer(saved) /\ DOMAIN saved = {"result", "file"}
    BY <2>9, MarkdownSave
  <2> HIDE DEF r, saved
  <2> QED
    BY <1>3, <1>7, <1>11, <2>0, <2>4, <2>10 DEF r
<1> QED
  BY <1>8, <1>9, <1>10, <1>11

\* DeleteList of the markdown client.
LEMMA MarkdownDeleteList ==
    ASSUME NEW f, FileOK(f), NEW list, NEW t
    PROVE  FileAnswer(Markdown!DeleteList(f, list, t))
<1> DEFINE lists == Markdown!Parsed(f)
           found == {k \in DOMAIN lists : lists[k].id = list.id}
           idx == FirstPlace(found)
<1>1. Markdown!DeleteList(f, list, t) = Markdown!Save(idx # 0, f, Without(lists, idx), t)
  BY DEF Markdown!DeleteList, Markdown!First, FirstPlace, Markdown!Without, Without
<1>2. ListsOK(lists) /\ IsSeq(lists) /\ found \in SUBSET DOMAIN lists
  BY MarkdownParsed DEF ListsOK
<1> HIDE DEF lists, found
<1>3. idx # 0 => ListsOK(Without(lists, idx))
  BY <1>2, FirstIn, ListsRemoved
<1> HIDE DEF idx
<1> QED
  BY <1>1, <1>3, MarkdownSave

\* CreateItem of the markdown client.
LEMMA MarkdownCreateItem ==
    ASSUME NEW f, FileOK(f), NEW item, ItemOK(item), NEW previous, NEW t
    PROVE  LET r == Markdown!CreateItem(f, item, previous, t)
           IN  FileAnswer(r) /\ DOMAIN r = {"result", "file"}
<1> DEFINE r == Markdown!CreateItem(f, item, previous, t)
           lists == Markdown!Parsed(f)
           found == {k \in DOMAIN lists : lists[k].id = item.list}
           idx == FirstPlace(found)
           places == {k \in DOMAIN lists[idx].items : lists[idx].items[k].id = previous}
           after == IF previous = Nil THEN 0 ELSE FirstPlace(places)
           list == [lists[idx] EXCEPT !.items = InsertedAt(lists[idx].items, after, item)]
           new == [lists EXCEPT ![idx] = list]
           error == Markdown!Failed("error", f)
           saved == Markdown!Save(TRUE, f, new, t)
<1>1. r = IF idx = 0 \/ item.status = "deleted" THEN error
          ELSE IF previous # Nil /\ after = 0 THEN error
          ELSE saved
  BY DEF Markdown!CreateItem, Markdown!First, FirstPlace, Markdown!InsertedAt, InsertedAt, Markdown!Nil, Nil
<1>2. ListsOK(lists) /\ IsSeq(lists) /\ found \in SUBSET DOMAIN lists
  BY MarkdownParsed DEF ListsOK
<1>3. FileAnswer(error) /\ DOMAIN error = {"result", "file"}
  BY MarkdownFailed
<1> HIDE DEF lists, found
<1>4. idx # 0 => idx \in DOMAIN lists
  BY <1>2, FirstIn
<1> HIDE DEF idx
<1>5. CASE idx = 0
  <2> HIDE DEF error, after, saved
  <2> QED
    BY <1>1, <1>3, <1>5
<1>6. CASE idx # 0
  <2>1. ListOK(lists[idx]) /\ ItemsOK(lists[idx].items) /\ IsSeq(lists[idx].items)
    BY <1>2, <1>4, <1>6 DEF ListsOK, ListOK, ItemsOK
  <2>2. places \in SUBSET DOMAIN lists[idx].items
    OBVIOUS
  <2> HIDE DEF places
  <2>3. after \in 0 .. Len(lists[idx].items)
    BY <2>1, <2>2, FirstIn, SeqOf
  <2> HIDE DEF after
  <2>4. ListOK(list)
    BY <2>1, <2>3, ItemsInserted, WithItems
  <2> HIDE DEF list
  <2>5. ListsOK(new)
    BY <1>2, <1>4, <1>6, <2>4, ListReplaced
  <2> HIDE DEF new
  <2>6. FileAnswer(saved) /\ DOMAIN saved = {"result", "file"}
    BY <2>5, MarkdownSave
  <2>7. r = error \/ r = saved
    <3> HIDE DEF error, saved
    <3> QED
      BY <1>1
  <2> HIDE DEF r, error, saved
  <2> QED
    BY <1>3, <2>6, <2>7 DEF r
<1> QED
  BY <1>5, <1>6

\* UpdateItem of the markdown client.
LEMMA MarkdownUpdateItem ==
    ASSUME NEW f, FileOK(f), NEW item, ItemOK(item), NEW t
    PROVE  LET r == Markdown!UpdateItem(f, item, t)
           IN  /\ FileAnswer(r) /\ DOMAIN r = {"result", "file"}
               /\ r.result = "ok" => item.id # Nil
<1> DEFINE r == Markdown!UpdateItem(f, item, t)
           lists == Markdown!Parsed(f)
           found == {k \in DOMAIN lists : lists[k].id = item.list}
           idx == FirstPlace(found)
           places == {k \in DOMAIN lists[idx].items :
                         lists[idx].items[k].id = item.id \/ Markdown!EquivalentItems(lists[idx].items[k], item)}
           at == FirstPlace(places)
           list == [lists[idx] EXCEPT !.items = [lists[idx].items EXCEPT ![at] = item]]
           new == [lists EXCEPT ![idx] = list]
           Known == item.id # Nil /\ item.list # Nil
           unsaved == Markdown!Save(FALSE, f, lists, t)
           saved == Markdown!Save(Known, f, new, t)
<1>1. r = IF idx = 0 THEN unsaved ELSE IF at = 0 THEN unsaved ELSE saved
  BY DEF Markdown!UpdateItem, Markdown!First, FirstPlace, Markdown!Nil, Nil
<1>2. ListsOK(lists) /\ IsSeq(lists) /\ found \in SUBSET DOMAIN lists
  BY MarkdownParsed DEF ListsOK
<1> HIDE DEF lists, found
<1>3. FileAnswer(unsaved) /\ DOMAIN unsaved = {"result", "file"}
  BY <1>2, MarkdownSave
<1>4. unsaved.result # "ok" /\ (saved.result = "ok" => Known)
  BY DEF Markdown!Save, Markdown!Failed
<1>5. idx # 0 => idx \in DOMAIN lists
  BY <1>2, FirstIn
<1> HIDE DEF idx
<1>6. CASE idx = 0 \/ at = 0
  <2> HIDE DEF unsaved, saved, at
  <2> QED
    BY <1>1, <1>3, <1>4, <1>6
<1>7. CASE idx # 0 /\ at # 0
  <2>1. ListOK(lists[idx]) /\ ItemsOK(lists[idx].items) /\ IsSeq(lists[idx].items)
    BY <1>2, <1>5, <1>7 DEF ListsOK, ListOK, ItemsOK
  <2>2. places \in SUBSET DOMAIN lists[idx].items
    OBVIOUS
  <2> HIDE DEF places
  <2>3. at \in DOMAIN lists[idx].items
    BY <1>7, <2>1, <2>2, FirstIn
  <2> HIDE DEF at
  <2>4. ListOK(list)
    BY <2>1, <2>3, ItemReplaced, WithItems
  <2> HIDE DEF list
  <2>5. ListsOK(new)
    BY <1>2, <1>5, <1>7, <2>4, ListReplaced
  <2> HIDE DEF new, Known
  <2>6. FileAnswer(saved) /\ DOMAIN saved = {"result", "file"}
    BY <2>5, MarkdownSave
  <2>7. r = saved
    <3> HIDE DEF unsaved, saved
    <3> QED
      BY <1>1, <1>7
  <2> HIDE DEF r, saved
  <2> QED
    BY <1>4, <2>6, <2>7 DEF Known, r
<1> QED
  BY <1>6, <1>7

\* DeleteItem of the markdown client.
LEMMA MarkdownDeleteItem ==
    ASSUME NEW f, FileOK(f), NEW item, NEW t
    PROVE  FileAnswer(Markdown!DeleteItem(f, item, t))
<1> DEFINE r == Markdown!DeleteItem(f, item, t)
           lists == Markdown!Parsed(f)
           found == {k \in DOMAIN lists : lists[k].id = item.list}
           idx == FirstPlace(found)
           places == {k \in DOMAIN lists[idx].items : lists[idx].items[k].id = item.id}
           at == FirstPlace(places)
           list == [lists[idx] EXCEPT !.items = Without(lists[idx].items, at)]
           new == [lists EXCEPT ![idx] = list]
           unsaved == Markdown!Save(FALSE, f, lists, t)
           saved == Markdown!Save(TRUE, f, new, t)
<1>1. r = IF idx = 0 THEN unsaved ELSE IF at = 0 THEN unsaved ELSE saved
  BY DEF Markdown!DeleteItem, Markdown!First, FirstPlace, Markdown!Without, Without
<1>2. ListsOK(lists) /\ IsSeq(lists) /\ found \in SUBSET DOMAIN lists
  BY MarkdownParsed DEF ListsOK
<1> HIDE DEF lists, found
<1>3. FileAnswer(unsaved)
  BY <1>2, MarkdownSave
<1>4. idx # 0 => idx \in DOMAIN lists
  BY <1>2, FirstIn
<1> HIDE DEF idx
<1>5. CASE idx = 0 \/ at = 0
  <2> HIDE DEF unsaved, saved, at
  <2> QED
    BY <1>1, <1>3, <1>5
<1>6. CASE idx # 0 /\ at # 0
  <2>1. ListOK(lists[idx]) /\ ItemsOK(lists[idx].items) /\ IsSeq(lists[idx].items)
    BY <1>2, <1>4, <1>6 DEF ListsOK, ListOK, ItemsOK
  <2>2. places \in SUBSET DOMAIN lists[idx].items
    OBVIOUS
  <2> HIDE DEF places
  <2>3. at \in DOMAIN lists[idx].items
    BY <1>6, <2>1, <2>2, FirstIn
  <2> HIDE DEF at
  <2>4. ListOK(list)
    BY <2>1, <2>3, ItemsRemoved, WithItems
  <2> HIDE DEF list
  <2>5. ListsOK(new)
    BY <1>2, <1>4, <1>6, <2>4, ListReplaced
  <2> HIDE DEF new
  <2>6. FileAnswer(saved)
    BY <2>5, MarkdownSave
  <2>7. r = saved
    <3> HIDE DEF unsaved, saved
    <3> QED
      BY <1>1, <1>6
  <2> HIDE DEF r, saved
  <2> QED
    BY <2>6, <2>7 DEF r
<1> QED
  BY <1>5, <1>6

-----------------------------------------------------------------------------
(* Google Tasks. *)

TaskListOK(l) == DOMAIN l = {"id", "name", "updated", "tasks"} /\ IsSeq(l.tasks)
TaskListsOK(lists) == IsSeq(lists) /\ \A k \in DOMAIN lists : TaskListOK(lists[k])

\* ServiceOK by its task lists.
LEMMA ServiceIs ==
    ASSUME NEW g
    PROVE  ServiceOK(g) <=> DOMAIN g = {"lists", "next"} /\ g.next \in Nat \ {0} /\ TaskListsOK(g.lists)
  BY DEF ServiceOK, TaskListsOK, TaskListOK

\* A task list takes the place of another.
LEMMA TaskListReplaced ==
    ASSUME NEW lists, TaskListsOK(lists), NEW k \in DOMAIN lists, NEW list, TaskListOK(list)
    PROVE  LET t == [lists EXCEPT ![k] = list]
           IN  TaskListsOK(t) /\ DOMAIN t = DOMAIN lists
<1> DEFINE t == [lists EXCEPT ![k] = list]
<1>1. /\ IsSeq(t) /\ Len(t) = Len(lists) /\ DOMAIN t = DOMAIN lists
      /\ t[k] = list /\ \A j \in DOMAIN lists : j # k => t[j] = lists[j]
  BY Replacing DEF TaskListsOK
<1> HIDE DEF t
<1>2. TaskListsOK(t)
  BY <1>1 DEF TaskListsOK
<1> QED
  BY <1>1, <1>2 DEF t

\* A task list with other tasks.
LEMMA WithTasks ==
    ASSUME NEW list, TaskListOK(list), NEW tasks, IsSeq(tasks)
    PROVE  TaskListOK([list EXCEPT !.tasks = tasks])
  BY DEF TaskListOK

\* A service with other task lists.
LEMMA WithLists ==
    ASSUME NEW g, ServiceOK(g), NEW lists, TaskListsOK(lists)
    PROVE  ServiceOK([g EXCEPT !.lists = lists])
<1> DEFINE new == [g EXCEPT !.lists = lists]
<1>1. DOMAIN new = {"lists", "next"} /\ new.next \in Nat \ {0} /\ new.lists = lists
  BY ServiceIs
<1> HIDE DEF new
<1>2. ServiceOK(new)
  BY <1>1, ServiceIs
<1> QED
  BY <1>2 DEF new

\* What a request leaves.
RequestAnswer(r) == ServiceOK(r.google) /\ r.result \in {"ok", "error"}

\* A request that is refused leaves the service as it is.
LEMMA Refusing ==
    ASSUME NEW g, ServiceOK(g)
    PROVE  /\ RequestAnswer(GoogleTasks!Refused(g)) /\ RequestAnswer(GoogleTasks!Accepted(g))
           /\ DOMAIN GoogleTasks!Refused(g) = {"result", "google"}
           /\ DOMAIN GoogleTasks!Accepted(g) = {"result", "google"}
           /\ GoogleTasks!Refused(g).result = "error"
  BY DEF GoogleTasks!Refused, GoogleTasks!Accepted, RequestAnswer

\* The task list that a request names is one of the service, if there is one.
LEMMA ServiceAt ==
    ASSUME NEW g, ServiceOK(g), NEW id
    PROVE  /\ GoogleTasks!At(g, id) # 0 =>
                  GoogleTasks!At(g, id) \in DOMAIN g.lists /\ TaskListOK(g.lists[GoogleTasks!At(g, id)])
<1> DEFINE found == {k \in DOMAIN g.lists : g.lists[k].id = id}
<1>1. GoogleTasks!At(g, id) = FirstPlace(found)
  BY DEF GoogleTasks!At, GoogleTasks!First, FirstPlace
<1>2. IsSeq(g.lists) /\ found \in SUBSET DOMAIN g.lists
  BY DEF ServiceOK
<1> HIDE DEF found
<1>3. FirstPlace(found) # 0 => FirstPlace(found) \in DOMAIN g.lists
  BY <1>2, FirstIn
<1> QED
  BY <1>1, <1>3 DEF ServiceOK, TaskListOK

\* The task that a request names is one of the list, if there is one.
LEMMA ServiceAmong ==
    ASSUME NEW tasks, IsSeq(tasks), NEW id
    PROVE  /\ GoogleTasks!Among(tasks, id) # 0 => GoogleTasks!Among(tasks, id) \in DOMAIN tasks
           /\ GoogleTasks!Among(tasks, id) \in 0 .. Len(tasks)
<1> DEFINE found == {k \in DOMAIN tasks : tasks[k].id = id}
<1>1. GoogleTasks!Among(tasks, id) = FirstPlace(found)
  BY DEF GoogleTasks!Among, GoogleTasks!First, FirstPlace
<1>2. found \in SUBSET DOMAIN tasks
  OBVIOUS
<1> HIDE DEF found
<1> QED
  BY <1>1, <1>2, FirstIn

\* tasklists.insert adds an empty list with the next id.
LEMMA ServiceInsertTaskList ==
    ASSUME NEW g, ServiceOK(g), NEW name, NEW t
    PROVE  LET r == GoogleTasks!InsertTaskList(g, name, t)
           IN  RequestAnswer(r) /\ DOMAIN r = {"result", "google", "id"} /\ r.id = g.next
<1> DEFINE r == GoogleTasks!InsertTaskList(g, name, t)
           list == [id |-> g.next, name |-> name, updated |-> t, tasks |-> <<>>]
           lists == Append(g.lists, list)
           new == [lists |-> lists, next |-> g.next + 1]
<1>1. TaskListOK(list)
  BY Empty DEF TaskListOK
<1> HIDE DEF list
<1>2. TaskListsOK(g.lists) /\ g.next \in Nat \ {0}
  BY ServiceIs
<1>3. TaskListsOK(lists)
  <2>1. IsSeq(g.lists) /\ Len(g.lists) \in Nat /\ DOMAIN g.lists = 1 .. Len(g.lists)
    BY <1>2, SeqOf DEF TaskListsOK
  <2> DEFINE T == {g.lists[k] : k \in DOMAIN g.lists} \cup {list}
  <2>2. g.lists \in Seq(T) /\ list \in T
    BY <2>1 DEF IsSeq
  <2>3. \A e \in T : TaskListOK(e)
    BY <1>1, <1>2 DEF TaskListsOK
  <2> HIDE DEF T
  <2>4. lists \in Seq(T)
    BY <2>2, AppendProperties
  <2> QED
    BY <2>3, <2>4, SeqIn DEF TaskListsOK
<1> HIDE DEF lists
<1>4. ServiceOK(new)
  BY <1>2, <1>3, ServiceIs
<1>5. r = GoogleTasks!@@(GoogleTasks!Accepted(new), [id |-> g.next])
  BY DEF GoogleTasks!InsertTaskList, lists, list
<1> HIDE DEF new, r
<1>6. RequestAnswer(r) /\ DOMAIN r = {"result", "google", "id"} /\ r.id = g.next
  BY <1>4, <1>5 DEF GoogleTasks!Accepted, GoogleTasks!@@, RequestAnswer
<1> QED
  BY <1>6 DEF r

\* tasklists.patch renames one list.
LEMMA ServicePatchTaskList ==
    ASSUME NEW g, ServiceOK(g), NEW id, NEW name, NEW t
    PROVE  LET r == GoogleTasks!PatchTaskList(g, id, name, t)
           IN  RequestAnswer(r) /\ DOMAIN r = {"result", "google"}
<1> DEFINE r == GoogleTasks!PatchTaskList(g, id, name, t)
           l == GoogleTasks!At(g, id)
           list == [g.lists[l] EXCEPT !.name = name, !.updated = t]
           lists == [g.lists EXCEPT ![l] = list]
           new == [g EXCEPT !.lists = lists]
           raw == [g EXCEPT !.lists[l].name = name, !.lists[l].updated = t]
<1>1. r = IF l = 0 THEN GoogleTasks!Refused(g) ELSE GoogleTasks!Accepted(raw)
  BY DEF GoogleTasks!PatchTaskList
<1>2. CASE l = 0
  BY <1>1, <1>2, Refusing
<1>3. CASE l # 0
  <2>1. l \in DOMAIN g.lists /\ TaskListOK(g.lists[l]) /\ TaskListsOK(g.lists)
    BY <1>3, ServiceAt, ServiceIs
  <2> HIDE DEF l
  <2>2. raw = new
    BY <2>1, ServiceIs DEF TaskListOK
  <2>3. TaskListOK(list)
    BY <2>1 DEF TaskListOK
  <2> HIDE DEF list
  <2>4. TaskListsOK(lists)
    BY <2>1, <2>3, TaskListReplaced
  <2> HIDE DEF lists
  <2>5. ServiceOK(new)
    BY <2>4, WithLists
  <2> HIDE DEF new, raw
  <2> QED
    BY <1>1, <1>3, <2>2, <2>5, Refusing
<1> QED
  BY <1>2, <1>3

\* tasklists.delete removes one list with its tasks.
LEMMA ServiceDeleteTaskList ==
    ASSUME NEW g, ServiceOK(g), NEW id
    PROVE  LET r == GoogleTasks!DeleteTaskList(g, id)
           IN  RequestAnswer(r) /\ DOMAIN r = {"result", "google"}
<1> DEFINE r == GoogleTasks!DeleteTaskList(g, id)
           l == GoogleTasks!At(g, id)
           lists == Without(g.lists, l)
           new == [g EXCEPT !.lists = lists]
<1>1. r = IF l = 0 THEN GoogleTasks!Refused(g) ELSE GoogleTasks!Accepted(new)
  BY DEF GoogleTasks!DeleteTaskList, GoogleTasks!Without, Without
<1>2. CASE l = 0
  BY <1>1, <1>2, Refusing
<1>3. CASE l # 0
  <2>1. l \in DOMAIN g.lists /\ TaskListsOK(g.lists)
    BY <1>3, ServiceAt, ServiceIs
  <2> HIDE DEF l
  <2>2. TaskListsOK(lists)
    BY <2>1, Removing DEF TaskListsOK
  <2> HIDE DEF lists
  <2>3. ServiceOK(new)
    BY <2>2, WithLists
  <2> HIDE DEF new
  <2> QED
    BY <1>1, <1>3, <2>3, Refusing
<1> QED
  BY <1>2, <1>3

\* tasks.insert puts a task with the next id after the one that the request names.
LEMMA ServiceInsertTask ==
    ASSUME NEW g, ServiceOK(g), NEW id, NEW task, NEW previous, NEW t
    PROVE  LET r == GoogleTasks!InsertTask(g, id, task, previous, t)
           IN  /\ RequestAnswer(r) /\ DOMAIN r \in {{"result", "google"}, {"result", "google", "id"}}
               /\ r.result = "ok" => "id" \in DOMAIN r /\ r.id # Nil
<1> DEFINE r == GoogleTasks!InsertTask(g, id, task, previous, t)
           l == GoogleTasks!At(g, id)
           task1 == [id |-> g.next, text |-> task.text, tag |-> task.tag, done |-> task.done, updated |-> t]
           at == IF previous = Nil THEN 0 ELSE GoogleTasks!Among(g.lists[l].tasks, previous)
           list == [g.lists[l] EXCEPT !.tasks = InsertedAt(g.lists[l].tasks, at, task1)]
           lists == [g.lists EXCEPT ![l] = list]
           grown == [g EXCEPT !.lists = lists]
           new == [grown EXCEPT !.next = g.next + 1]
           raw == [g EXCEPT !.lists[l].tasks = InsertedAt(@, at, task1), !.next = @ + 1]
           done == GoogleTasks!@@(GoogleTasks!Accepted(raw), [id |-> g.next])
<1>1. r = IF l = 0 THEN GoogleTasks!Refused(g)
          ELSE IF previous # Nil /\ at = 0 THEN GoogleTasks!Refused(g)
          ELSE done
  BY DEF GoogleTasks!InsertTask, GoogleTasks!InsertedAt, InsertedAt, GoogleTasks!Nil, Nil
<1>2. CASE r = GoogleTasks!Refused(g)
  <2> HIDE DEF r
  <2>1. RequestAnswer(r) /\ DOMAIN r = {"result", "google"} /\ r.result = "error"
    BY <1>2, Refusing
  <2> QED
    BY <2>1 DEF r
<1>3. CASE l # 0
  <2>1. l \in DOMAIN g.lists /\ TaskListOK(g.lists[l]) /\ TaskListsOK(g.lists)
        /\ g.next \in Nat \ {0} /\ DOMAIN g = {"lists", "next"}
    BY <1>3, ServiceAt, ServiceIs
  <2> HIDE DEF l
  <2>2. IsSeq(g.lists[l].tasks) /\ Len(g.lists[l].tasks) \in Nat
    BY <2>1, SeqOf DEF TaskListOK
  <2>3. at \in 0 .. Len(g.lists[l].tasks)
    BY <2>2, ServiceAmong
  <2> HIDE DEF at, task1
  <2>4. TaskListOK(list)
    BY <2>1, <2>2, <2>3, Inserting, WithTasks
  <2>5. raw = new
    BY <2>1
  <2> HIDE DEF list
  <2>6. TaskListsOK(lists)
    BY <2>1, <2>4, TaskListReplaced
  <2> HIDE DEF lists
  <2>7. new.next = g.next + 1 /\ new.lists = lists /\ DOMAIN new = {"lists", "next"}
    BY <2>1
  <2> HIDE DEF new
  <2>8. ServiceOK(new)
    BY <2>1, <2>6, <2>7, ServiceIs
  <2> HIDE DEF raw
  <2>9. RequestAnswer(done) /\ DOMAIN done = {"result", "google", "id"} /\ done.id = g.next
    BY <2>5, <2>8 DEF GoogleTasks!Accepted, GoogleTasks!@@, RequestAnswer
  <2>10. CASE r = done
    <3> HIDE DEF r, done
    <3>1. RequestAnswer(r) /\ DOMAIN r = {"result", "google", "id"} /\ r.id # Nil
      BY <2>1, <2>9, <2>10 DEF Nil
    <3> QED
      BY <3>1 DEF r
  <2>11. r = done \/ r = GoogleTasks!Refused(g)
    <3> HIDE DEF r, done
    <3> QED
      BY <1>1
  <2> QED
    BY <1>2, <2>10, <2>11
<1>4. CASE l = 0
  <2>1. r = GoogleTasks!Refused(g)
    <3> HIDE DEF l, done, at
    <3> QED
      BY <1>1, <1>4
  <2> QED
    BY <1>2, <2>1
<1> QED
  BY <1>3, <1>4

\* tasks.patch changes one task in its place.
LEMMA ServicePatchTask ==
    ASSUME NEW g, ServiceOK(g), NEW id, NEW task, NEW with, NEW t
    PROVE  LET r == GoogleTasks!PatchTask(g, id, task, with, t)
           IN  RequestAnswer(r) /\ DOMAIN r = {"result", "google"}
<1> DEFINE r == GoogleTasks!PatchTask(g, id, task, with, t)
           l == GoogleTasks!At(g, id)
           k == GoogleTasks!Among(g.lists[l].tasks, task)
           patched == [id |-> task, text |-> with.text, tag |-> with.tag, done |-> with.done, updated |-> t]
           tasks == [g.lists[l].tasks EXCEPT ![k] = patched]
           list == [g.lists[l] EXCEPT !.tasks = tasks]
           lists == [g.lists EXCEPT ![l] = list]
           new == [g EXCEPT !.lists = lists]
<1>1. r = IF l = 0 THEN GoogleTasks!Refused(g)
          ELSE IF k = 0 THEN GoogleTasks!Refused(g)
          ELSE GoogleTasks!Accepted(new)
  BY DEF GoogleTasks!PatchTask
<1>2. CASE l = 0 \/ k = 0
  <2> HIDE DEF l, k, new
  <2> QED
    BY <1>1, <1>2, Refusing
<1>3. CASE l # 0 /\ k # 0
  <2>1. l \in DOMAIN g.lists /\ TaskListOK(g.lists[l]) /\ TaskListsOK(g.lists)
    BY <1>3, ServiceAt, ServiceIs
  <2> HIDE DEF l
  <2>2. IsSeq(g.lists[l].tasks) /\ k \in DOMAIN g.lists[l].tasks
    BY <1>3, <2>1, ServiceAmong DEF TaskListOK
  <2> HIDE DEF k, patched
  <2>3. IsSeq(tasks)
    BY <2>2, Replacing
  <2> HIDE DEF tasks
  <2>4. TaskListOK(list)
    BY <2>1, <2>3, WithTasks
  <2> HIDE DEF list
  <2>5. TaskListsOK(lists)
    BY <2>1, <2>4, TaskListReplaced
  <2> HIDE DEF lists
  <2>6. ServiceOK(new)
    BY <2>5, WithLists
  <2> HIDE DEF new
  <2> QED
    BY <1>1, <1>3, <2>6, Refusing
<1> QED
  BY <1>2, <1>3

\* tasks.move takes a task from its list and puts it after another, of this or of
\* another list.
LEMMA ServiceMoveTask ==
    ASSUME NEW g, ServiceOK(g), NEW move
    PROVE  LET r == GoogleTasks!MoveTask(g, move)
           IN  RequestAnswer(r) /\ DOMAIN r = {"result", "google"}
<1> DEFINE r == GoogleTasks!MoveTask(g, move)
           from == GoogleTasks!At(g, move.from)
           to == GoogleTasks!At(g, move.to)
           k == GoogleTasks!Among(g.lists[from].tasks, move.item)
           left == [g.lists[from] EXCEPT !.tasks = Without(g.lists[from].tasks, k)]
           taken == [g.lists EXCEPT ![from] = left]
           at == IF move.previous = Nil THEN 0 ELSE GoogleTasks!Among(taken[to].tasks, move.previous)
           joined == [taken[to] EXCEPT !.tasks = InsertedAt(taken[to].tasks, at, g.lists[from].tasks[k])]
           lists == [taken EXCEPT ![to] = joined]
           new == [g EXCEPT !.lists = lists]
<1>1. r = IF from = 0 \/ to = 0 THEN GoogleTasks!Refused(g)
          ELSE IF k = 0 THEN GoogleTasks!Refused(g)
          ELSE IF move.previous # Nil /\ at = 0 THEN GoogleTasks!Refused(g)
          ELSE GoogleTasks!Accepted(new)
  BY DEF GoogleTasks!MoveTask, GoogleTasks!InsertedAt, InsertedAt, GoogleTasks!Without, Without,
         GoogleTasks!Nil, Nil
<1>2. CASE r = GoogleTasks!Refused(g)
  BY <1>2, Refusing
<1>3. CASE from # 0 /\ to # 0 /\ k # 0
  <2>1. /\ from \in DOMAIN g.lists /\ TaskListOK(g.lists[from]) /\ TaskListsOK(g.lists)
        /\ to \in DOMAIN g.lists
    BY <1>3, ServiceAt, ServiceIs
  <2> HIDE DEF from, to
  <2>2. IsSeq(g.lists[from].tasks) /\ k \in DOMAIN g.lists[from].tasks
    BY <1>3, <2>1, ServiceAmong DEF TaskListOK
  <2> HIDE DEF k
  <2>3. TaskListOK(left)
    BY <2>1, <2>2, Removing, WithTasks
  <2> HIDE DEF left
  <2>4. TaskListsOK(taken) /\ to \in DOMAIN taken
    BY <2>1, <2>3, TaskListReplaced
  <2> HIDE DEF taken
  <2>5. TaskListOK(taken[to]) /\ IsSeq(taken[to].tasks) /\ Len(taken[to].tasks) \in Nat
    BY <2>4, SeqOf DEF TaskListsOK, TaskListOK
  <2>6. at \in 0 .. Len(taken[to].tasks)
    BY <2>5, ServiceAmong
  <2> HIDE DEF at
  <2>7. TaskListOK(joined)
    BY <2>5, <2>6, Inserting, WithTasks
  <2> HIDE DEF joined
  <2>8. TaskListsOK(lists)
    BY <2>4, <2>7, TaskListReplaced
  <2> HIDE DEF lists
  <2>9. ServiceOK(new)
    BY <2>8, WithLists
  <2> HIDE DEF new
  <2>10. r = GoogleTasks!Refused(g) \/ r = GoogleTasks!Accepted(new)
    BY <1>1
  <2> QED
    BY <1>2, <2>9, <2>10, Refusing
<1>4. CASE ~(from # 0 /\ to # 0 /\ k # 0)
  <2>1. r = GoogleTasks!Refused(g)
    <3> HIDE DEF r, from, to, k, at, new
    <3> QED
      BY <1>1, <1>4
  <2> QED
    BY <1>2, <2>1
<1> QED
  BY <1>3, <1>4

\* tasks.delete removes one task.
LEMMA ServiceDeleteTask ==
    ASSUME NEW g, ServiceOK(g), NEW id, NEW task
    PROVE  LET r == GoogleTasks!DeleteTask(g, id, task)
           IN  RequestAnswer(r) /\ DOMAIN r = {"result", "google"}
<1> DEFINE r == GoogleTasks!DeleteTask(g, id, task)
           l == GoogleTasks!At(g, id)
           k == GoogleTasks!Among(g.lists[l].tasks, task)
           list == [g.lists[l] EXCEPT !.tasks = Without(g.lists[l].tasks, k)]
           lists == [g.lists EXCEPT ![l] = list]
           new == [g EXCEPT !.lists = lists]
<1>1. r = IF l = 0 THEN GoogleTasks!Refused(g)
          ELSE IF k = 0 THEN GoogleTasks!Refused(g)
          ELSE GoogleTasks!Accepted(new)
  BY DEF GoogleTasks!DeleteTask, GoogleTasks!Without, Without
<1>2. CASE l = 0 \/ k = 0
  <2> HIDE DEF l, k, new
  <2> QED
    BY <1>1, <1>2, Refusing
<1>3. CASE l # 0 /\ k # 0
  <2>1. l \in DOMAIN g.lists /\ TaskListOK(g.lists[l]) /\ TaskListsOK(g.lists)
    BY <1>3, ServiceAt, ServiceIs
  <2> HIDE DEF l
  <2>2. IsSeq(g.lists[l].tasks) /\ k \in DOMAIN g.lists[l].tasks
    BY <1>3, <2>1, ServiceAmong DEF TaskListOK
  <2> HIDE DEF k
  <2>4. TaskListOK(list)
    BY <2>1, <2>2, Removing, WithTasks
  <2> HIDE DEF list
  <2>5. TaskListsOK(lists)
    BY <2>1, <2>4, TaskListReplaced
  <2> HIDE DEF lists
  <2>6. ServiceOK(new)
    BY <2>5, WithLists
  <2> HIDE DEF new
  <2> QED
    BY <1>1, <1>3, <2>6, Refusing
<1> QED
  BY <1>2, <1>3

\* The task lists that the client reads are lists without items.
LEMMA ServiceListTaskLists ==
    ASSUME NEW g, ServiceOK(g)
    PROVE  ListsOK(GoogleTasks!ListTaskLists(g)) /\ DOMAIN GoogleTasks!ListTaskLists(g) = DOMAIN g.lists
<1> DEFINE lists == GoogleTasks!ListTaskLists(g)
<1>1. lists = [k \in DOMAIN g.lists |->
                 [id |-> Nil, ext |-> g.lists[k].id, name |-> g.lists[k].name, pos |-> k - 1,
                  status |-> "open", modified |-> g.lists[k].updated, items |-> <<>>]]
  BY DEF GoogleTasks!ListTaskLists, GoogleTasks!Nil, Nil
<1>2. IsSeq(g.lists) /\ Len(g.lists) \in Nat /\ DOMAIN g.lists = 1 .. Len(g.lists)
  BY SeqOf DEF ServiceOK
<1>3. ASSUME NEW k \in DOMAIN g.lists PROVE ListOK(lists[k])
  <2>1. k - 1 \in Nat
    BY <1>2
  <2> QED
    BY <1>1, <2>1, NoItems DEF ListOK, ListFields
<1>4. lists = [k \in DOMAIN g.lists |-> lists[k]]
  BY <1>1
<1> HIDE DEF lists
<1>5. IsSeq(lists) /\ DOMAIN lists = DOMAIN g.lists
  BY <1>2, <1>4, Mapped
<1> QED
  BY <1>3, <1>5 DEF ListsOK, lists

\* The tasks of a list that the client reads are items, and reading changes nothing.
LEMMA ServiceListItems ==
    ASSUME NEW g, ServiceOK(g), NEW list
    PROVE  LET r == GoogleTasks!ListItems(g, list)
           IN  /\ r.google = g /\ r.result \in {"ok", "error"} /\ "partial" \notin DOMAIN r
               /\ r.result = "ok" => ItemsOK(r.items)
<1> DEFINE l == GoogleTasks!At(g, list.ext)
           n == IF Len(g.lists[l].tasks) < MaxTaskResults THEN Len(g.lists[l].tasks) ELSE MaxTaskResults
           tasks == SubSeq(g.lists[l].tasks, 1, n)
           asked == GoogleTasks!ListTasks(g, list.ext, MaxTaskResults)
           Item(k, t) == [id |-> Nil, ext |-> t.id, list |-> Nil, xlist |-> list.ext, pos |-> k - 1,
                          status |-> IF t.done THEN "done" ELSE "open",
                          text |-> t.text, tag |-> t.tag, project |-> Nil, xproject |-> Nil,
                          modified |-> t.updated]
           items == [k \in DOMAIN tasks |-> Item(k, tasks[k])]
           r == GoogleTasks!ListItems(g, list)
<1>1. asked = IF l = 0 THEN GoogleTasks!Refused(g) ELSE [result |-> "ok", google |-> g, tasks |-> tasks]
  BY DEF GoogleTasks!ListTasks
<1>2. r = IF asked.result = "error" THEN asked
          ELSE [result |-> "ok", google |-> g, items |-> [k \in DOMAIN asked.tasks |-> Item(k, asked.tasks[k])]]
  BY DEF GoogleTasks!ListItems, GoogleTasks!Nil, Nil
<1>3. CASE l = 0
  <2>1. asked = GoogleTasks!Refused(g)
    <3> HIDE DEF l, tasks, asked
    <3> QED
      BY <1>1, <1>3
  <2> HIDE DEF asked
  <2>2. asked = [result |-> "error", google |-> g]
    BY <2>1 DEF GoogleTasks!Refused
  <2>3. r = asked
    <3> HIDE DEF r, Item
    <3> QED
      BY <1>2, <2>2
  <2> HIDE DEF r
  <2>4. r.google = g /\ r.result = "error" /\ "partial" \notin DOMAIN r
    BY <2>2, <2>3
  <2> QED
    BY <2>4 DEF r
<1>4. CASE l # 0
  <2>1. asked = [result |-> "ok", google |-> g, tasks |-> tasks]
    <3> HIDE DEF l, tasks, asked
    <3> QED
      BY <1>1, <1>4
  <2>2. l \in DOMAIN g.lists /\ TaskListOK(g.lists[l])
    BY <1>4, ServiceAt
  <2> HIDE DEF l
  <2>3. IsSeq(g.lists[l].tasks) /\ Len(g.lists[l].tasks) \in Nat
    BY <2>2, SeqOf DEF TaskListOK
  <2>4. n \in 0 .. Len(g.lists[l].tasks)
    BY <2>3, SyncerAssumption DEF SyncerAssumption
  <2> HIDE DEF n
  <2>5. IsSeq(tasks)
    BY <2>3, <2>4, Fronts
  <2> HIDE DEF tasks, asked
  <2>6. r = [result |-> "ok", google |-> g, items |-> items]
    <3> HIDE DEF r, Item
    <3> QED
      BY <1>2, <2>1
  <2>7. ASSUME NEW k \in DOMAIN tasks PROVE ItemOK(items[k])
    <3>1. k - 1 \in Nat
      BY <2>5, SeqOf
    <3>2. items[k] = Item(k, tasks[k])
      OBVIOUS
    <3> HIDE DEF items
    <3> QED
      BY <3>1, <3>2 DEF ItemOK, ItemFields, Statuses
  <2>8. items = [k \in DOMAIN tasks |-> items[k]]
    OBVIOUS
  <2> HIDE DEF items
  <2>9. ItemsOK(items)
    BY <2>5, <2>7, <2>8, Mapped DEF ItemsOK
  <2> HIDE DEF r
  <2>10. r.google = g /\ r.result = "ok" /\ "partial" \notin DOMAIN r /\ ItemsOK(r.items)
    BY <2>6, <2>9
  <2> QED
    BY <2>10 DEF r
<1> QED
  BY <1>3, <1>4

\* Clean of a list of the service.
LEMMA ServiceCleanList ==
    ASSUME NEW list, ListOK(list)
    PROVE  /\ ListOK(GoogleTasks!CleanList(list))
           /\ GoogleTasks!CleanList(list) = [list EXCEPT !.items = GoogleTasks!CleanItems(list.items)]
<1>1. GoogleTasks!CleanList(list) = [list EXCEPT !.items = GoogleTasks!CleanItems(list.items)]
  BY DEF GoogleTasks!CleanList
<1>2. ItemsOK(GoogleTasks!CleanItems(list.items))
  BY GoogleTasksCleans DEF ListOK
<1> QED
  BY <1>1, <1>2 DEF ListOK, ListFields

\* What an operation of the client leaves, and what it went through.
ServiceAnswer(r) ==
    /\ ServiceOK(r.google)
    /\ "partial" \in DOMAIN r => \A g \in r.partial : ServiceOK(g)

\* CreateList of the Google Tasks client.
LEMMA ServiceCreateList ==
    ASSUME NEW g, ServiceOK(g), NEW list, ListOK(list), NEW t
    PROVE  LET r == GoogleTasks!CreateList(g, list, t)
           IN  ServiceAnswer(r) /\ ListOK(r.list)
<1> DEFINE r == GoogleTasks!CreateList(g, list, t)
           asked == GoogleTasks!InsertTaskList(g, list.name, t)
           l == GoogleTasks!CleanList(list)
           named == [l EXCEPT !.ext = asked.id]
<1>1. r = IF list.status = "deleted" THEN GoogleTasks!@@(GoogleTasks!Refused(g), [list |-> list])
          ELSE GoogleTasks!@@(asked, [list |-> named])
  BY DEF GoogleTasks!CreateList
<1>2. RequestAnswer(asked) /\ DOMAIN asked = {"result", "google", "id"}
  BY ServiceInsertTaskList
<1> HIDE DEF asked
<1>3. ListOK(named)
  BY ServiceCleanList DEF ListOK, ListFields
<1> HIDE DEF named, r
<1>4. RequestAnswer(GoogleTasks!Refused(g)) /\ DOMAIN GoogleTasks!Refused(g) = {"result", "google"}
  BY Refusing
<1>5. ServiceAnswer(r) /\ ListOK(r.list)
  BY <1>1, <1>2, <1>3, <1>4 DEF GoogleTasks!@@, RequestAnswer, ServiceAnswer
<1> QED
  BY <1>5 DEF r

\* The moves that UpdateList calculates are a sequence, of whatever the algorithm
\* finds.
LEMMA MovesAreSeq ==
    ASSUME NEW list, ListOK(list), NEW current
    PROVE  IsSeq(GoogleTasks!CalculateMoves(GoogleTasks!Movable(list), current))
<1> DEFINE free == {k \in DOMAIN list.items :
                      \/ list.items[k].status # "done"
                      \/ list.items[k].xlist # Nil /\ list.items[k].xlist # list.ext}
           at == GoogleTasks!Ascending(free)
           items == [n \in DOMAIN at |-> list.items[at[n]]]
           movable == GoogleTasks!Movable(list)
           target == GoogleTasks!Externals(movable.items)
           stable == GoogleTasks!StableItems(target, GoogleTasks!Externals(current))
           todo == {k \in DOMAIN target : target[k] \notin stable}
           ks == GoogleTasks!Ascending(todo)
           moves == GoogleTasks!CalculateMoves(movable, current)
<1>1. movable.items = items
  BY DEF GoogleTasks!Movable, GoogleTasks!Selected, GoogleTasks!Nil, Nil, ListOK, ListFields
<1>2. DOMAIN list.items = 1 .. Len(list.items) /\ Len(list.items) \in Nat
  BY SeqOf DEF ListOK, ItemsOK
<1>3. free \in SUBSET Nat /\ IsFiniteSet(free)
  <2>1. IsFiniteSet(DOMAIN list.items)
    BY <1>2, FS_Interval
  <2> QED
    BY <1>2, <2>1, FS_Subset
<1> HIDE DEF free
<1>4. IsSeq(at)
  BY <1>3, StoreAscending, GoogleTasksAscending
<1>5. items = [n \in DOMAIN at |-> items[n]]
  OBVIOUS
<1> HIDE DEF at, items, movable
<1>6. IsSeq(items)
  BY <1>4, <1>5, Mapped
<1>7. DOMAIN target = DOMAIN items
  BY <1>1 DEF GoogleTasks!Externals
<1>8. DOMAIN items = 1 .. Len(items) /\ Len(items) \in Nat
  BY <1>6, SeqOf
<1> HIDE DEF stable, target
<1>9. todo \in SUBSET Nat /\ IsFiniteSet(todo)
  <2>1. IsFiniteSet(DOMAIN items)
    BY <1>8, FS_Interval
  <2>2. todo \in SUBSET DOMAIN items
    BY <1>7
  <2> QED
    BY <1>8, <2>1, <2>2, FS_Subset
<1>10. GoogleTasks!Moving(movable, current) = ks
  BY DEF GoogleTasks!Moving, target, stable
<1> HIDE DEF todo
<1>11. IsSeq(ks)
  BY <1>9, GoogleTasksAscending
<1>12. moves = [m \in DOMAIN ks |-> GoogleTasks!MoveOf(movable, ks[m], ks[m] - 1)]
  BY <1>10 DEF GoogleTasks!CalculateMoves, GoogleTasks!MovesOf
<1> HIDE DEF ks
<1>13. moves = [m \in DOMAIN ks |-> moves[m]]
  BY <1>12
<1> HIDE DEF moves
<1>14. IsSeq(moves)
  BY <1>11, <1>13, Mapped
<1> QED
  BY <1>14 DEF moves, movable

\* The state of a client that is through with some moves.
Halfway(r) ==
    /\ DOMAIN r = {"result", "google", "partial"} /\ ServiceOK(r.google)
    /\ \A g \in r.partial : ServiceOK(g)

\* The loop of UpdateList over the moves: after each one, or after the first that
\* fails, the service is one.  MoveAll is a recursive function over the moves.
LEMMA ServiceMoveAll ==
    ASSUME NEW r, Halfway(r), NEW moves, IsSeq(moves)
    PROVE  Halfway(GoogleTasks!MoveAll(r, moves))
<1> DEFINE N == Len(moves)
           Step(b, k) == GoogleTasks!MoveNext(b, moves[k])
           Solves(f, n) == f = [k \in 0 .. n |-> IF k = 0 THEN r ELSE Step(f[k - 1], k)]
           Unsolved == {n \in 0 .. N : ~\E f : Solves(f, n)}
           after == CHOOSE f : Solves(f, N)
           Bad == {k \in 0 .. N : ~Halfway(after[k])}
<1>0. N \in Nat /\ DOMAIN moves = 1 .. N
  BY SeqOf
<1>1. GoogleTasks!MoveAll(r, moves) = after[N]
  BY DEF GoogleTasks!MoveAll
<1>2. ASSUME NEW b, Halfway(b), NEW k PROVE Halfway(Step(b, k))
  <2> DEFINE a == GoogleTasks!MoveTask(b.google, moves[k])
             new == [partial |-> b.partial \cup {b.google}]
  <2>1. RequestAnswer(a) /\ DOMAIN a = {"result", "google"}
    BY <1>2, ServiceMoveTask DEF Halfway
  <2>2. Step(b, k) = IF b.result = "ok" THEN GoogleTasks!@@(a, new) ELSE b
    BY DEF GoogleTasks!MoveNext
  <2> HIDE DEF a, Step
  <2>3. Halfway(GoogleTasks!@@(a, new))
    BY <1>2, <2>1 DEF GoogleTasks!@@, Halfway, RequestAnswer
  <2> QED
    BY <1>2, <2>2, <2>3
<1> HIDE DEF Step
<1>4. Unsolved = {}
  <2> SUFFICES ASSUME Unsolved # {} PROVE FALSE
    OBVIOUS
  <2>1. PICK n \in Unsolved : \A m \in Unsolved : n <= m
    <3>1. Unsolved \in SUBSET Nat
      BY <1>0
    <3> QED
      BY <3>1, Least
  <2>2. n \in 0 .. N /\ ~\E f : Solves(f, n)
    OBVIOUS
  <2>3. CASE n = 0
    <3>1. Solves([k \in 0 .. 0 |-> r], 0)
      OBVIOUS
    <3> QED
      BY <3>1, <2>2, <2>3
  <2>4. CASE n # 0
    <3>1. n - 1 \in 0 .. N /\ n - 1 \notin Unsolved
      <4>1. n \in Nat /\ n - 1 \in 0 .. N /\ ~(n <= n - 1)
        BY <1>0, <2>2, <2>4
      <4> HIDE DEF Unsolved
      <4> QED
        BY <2>1, <4>1
    <3>2. PICK f : Solves(f, n - 1)
      BY <3>1
    <3> DEFINE g == [k \in 0 .. n |-> IF k = n THEN Step(f[n - 1], n) ELSE f[k]]
    <3>3. n \in Nat /\ n - 1 \in 0 .. n - 1 /\ \A k \in 0 .. n : k # n => k \in 0 .. n - 1
      BY <1>0, <2>2, <2>4
    <3>4. \A k \in 0 .. n - 1 : f[k] = IF k = 0 THEN r ELSE Step(f[k - 1], k)
      BY <3>2
    <3>5. ASSUME NEW k \in 0 .. n PROVE g[k] = IF k = 0 THEN r ELSE Step(g[k - 1], k)
      <4>1. CASE k = n
        <5>1. g[k - 1] = f[n - 1] /\ k # 0
          BY <2>4, <3>3, <4>1
        <5> QED
          BY <4>1, <5>1
      <4>2. CASE k # n
        <5>1. k \in 0 .. n - 1 /\ g[k] = f[k]
          BY <3>3, <4>2
        <5>2. k # 0 => k - 1 \in 0 .. n /\ k - 1 # n
          BY <3>3, <5>1
        <5>3. k # 0 => g[k - 1] = f[k - 1]
          BY <5>2
        <5> QED
          BY <3>4, <5>1, <5>3
      <4> QED
        BY <4>1, <4>2
    <3>6. Solves(g, n)
      <4>1. g = [k \in 0 .. n |-> g[k]]
        OBVIOUS
      <4> HIDE DEF g
      <4> QED
        BY <3>5, <4>1
    <3> QED
      BY <3>6, <2>2
  <2> QED
    BY <2>3, <2>4
<1>5. \A k \in 0 .. N : after[k] = IF k = 0 THEN r ELSE Step(after[k - 1], k)
  <2>1. \E f : Solves(f, N)
    BY <1>0, <1>4
  <2> HIDE DEF Solves
  <2>2. Solves(after, N)
    BY <2>1
  <2> QED
    BY <2>2 DEF Solves
<1> HIDE DEF Solves, after
<1>6. Bad = {}
  <2> SUFFICES ASSUME Bad # {} PROVE FALSE
    OBVIOUS
  <2>1. PICK n \in Bad : \A m \in Bad : n <= m
    <3>1. Bad \in SUBSET Nat
      BY <1>0
    <3> QED
      BY <3>1, Least
  <2>2. n \in 0 .. N /\ ~Halfway(after[n])
    OBVIOUS
  <2>3. n # 0
    BY <1>5, <2>2
  <2>4. n - 1 \in 0 .. N /\ ~(n <= n - 1)
    BY <1>0, <2>2, <2>3
  <2>5. Halfway(after[n - 1])
    BY <2>1, <2>4
  <2> QED
    BY <1>2, <1>5, <2>2, <2>3, <2>5
<1>7. Halfway(after[N])
  BY <1>0, <1>6
<1> QED
  BY <1>1, <1>7

\* UpdateList of the Google Tasks client: the name, then the moves, up to the first
\* request that fails.
LEMMA ServiceUpdateList ==
    ASSUME NEW g, ServiceOK(g), NEW list, ListOK(list), NEW current, NEW t
    PROVE  LET r == GoogleTasks!UpdateList(g, list, current, t)
           IN  ServiceAnswer(r) /\ ListOK(r.list)
<1> DEFINE r == GoogleTasks!UpdateList(g, list, current, t)
           l == GoogleTasks!CleanList(list)
           patch == GoogleTasks!PatchTaskList(g, l.ext, l.name, t)
           patched == GoogleTasks!Patched(g, l, current.name, t)
           moves == GoogleTasks!CalculateMoves(GoogleTasks!Movable(l), current.items)
           moved == GoogleTasks!MoveAll(patched, moves)
           refused == GoogleTasks!@@(GoogleTasks!Refused(g), [list |-> l, partial |-> {g}])
<1>1. r = IF l.ext = Nil THEN refused ELSE GoogleTasks!@@(moved, [list |-> l])
  BY DEF GoogleTasks!UpdateList, GoogleTasks!Nil, Nil
<1>2. ListOK(l)
  BY ServiceCleanList
<1> HIDE DEF l
<1>3. /\ RequestAnswer(patch) /\ DOMAIN patch = {"result", "google"}
      /\ RequestAnswer(GoogleTasks!Accepted(g)) /\ DOMAIN GoogleTasks!Accepted(g) = {"result", "google"}
      /\ RequestAnswer(GoogleTasks!Refused(g)) /\ DOMAIN GoogleTasks!Refused(g) = {"result", "google"}
  BY ServicePatchTaskList, Refusing
<1>4. Halfway(patched)
  <2>1. \/ patched = GoogleTasks!@@(GoogleTasks!Accepted(g), [partial |-> {g}])
        \/ patched = GoogleTasks!@@(patch, [partial |-> {g}])
    BY DEF GoogleTasks!Patched
  <2> HIDE DEF patch, patched
  <2> QED
    BY <1>3, <2>1 DEF GoogleTasks!@@, Halfway, RequestAnswer
<1>5. IsSeq(moves)
  BY <1>2, MovesAreSeq
<1> HIDE DEF patched, moves
<1>6. Halfway(moved)
  BY <1>4, <1>5, ServiceMoveAll
<1> HIDE DEF moved
<1>7. ServiceAnswer(refused) /\ refused.list = l
  BY <1>3 DEF GoogleTasks!@@, ServiceAnswer, RequestAnswer
<1> HIDE DEF refused, r
<1>8. ServiceAnswer(r) /\ ListOK(r.list)
  BY <1>1, <1>2, <1>6, <1>7 DEF GoogleTasks!@@, Halfway, ServiceAnswer
<1> QED
  BY <1>8 DEF r

\* DeleteList of the Google Tasks client.
LEMMA ServiceDeleteList ==
    ASSUME NEW g, ServiceOK(g), NEW list
    PROVE  ServiceAnswer(GoogleTasks!DeleteList(g, list))
<1> DEFINE r == GoogleTasks!DeleteList(g, list)
<1>1. r = GoogleTasks!Refused(g) \/ r = GoogleTasks!DeleteTaskList(g, list.ext)
  BY DEF GoogleTasks!DeleteList
<1> HIDE DEF r
<1>2. RequestAnswer(r) /\ DOMAIN r = {"result", "google"}
  BY <1>1, ServiceDeleteTaskList, Refusing
<1>3. ServiceAnswer(r)
  BY <1>2 DEF ServiceAnswer, RequestAnswer
<1> QED
  BY <1>3 DEF r

\* CreateItem of the Google Tasks client returns an item with the external id of its
\* task.
LEMMA ServiceCreateItem ==
    ASSUME NEW g, ServiceOK(g), NEW item, ItemOK(item), NEW previous, NEW t
    PROVE  LET r == GoogleTasks!CreateItem(g, item, previous, t)
           IN  /\ ServiceAnswer(r)
               /\ r.result = "ok" => ItemOK(r.item) /\ r.item.ext # Nil /\ r.item.id = item.id
<1> DEFINE r == GoogleTasks!CreateItem(g, item, previous, t)
           asked == GoogleTasks!InsertTask(g, item.xlist, GoogleTasks!Task(item), previous, t)
           named == [item EXCEPT !.ext = asked.id]
           refused == GoogleTasks!@@(GoogleTasks!Refused(g), [item |-> item])
<1>1. \/ r = refused
      \/ r = GoogleTasks!@@(asked, [item |-> item]) /\ asked.result = "error"
      \/ r = GoogleTasks!@@(asked, [item |-> named]) /\ asked.result # "error"
  BY DEF GoogleTasks!CreateItem
<1>2. /\ RequestAnswer(asked) /\ DOMAIN asked \in {{"result", "google"}, {"result", "google", "id"}}
      /\ asked.result = "ok" => "id" \in DOMAIN asked /\ asked.id # Nil
  BY ServiceInsertTask
<1> HIDE DEF asked
<1>3. ItemOK(named) /\ named.ext = asked.id /\ named.id = item.id
  BY DEF ItemOK, ItemFields
<1> HIDE DEF named
<1>4. /\ RequestAnswer(GoogleTasks!Refused(g)) /\ DOMAIN GoogleTasks!Refused(g) = {"result", "google"}
      /\ GoogleTasks!Refused(g).result = "error"
  BY Refusing
<1>5. ServiceAnswer(refused) /\ refused.result = "error"
  BY <1>4 DEF GoogleTasks!@@, RequestAnswer, ServiceAnswer
<1> HIDE DEF r, refused
<1>6. CASE r = refused
  BY <1>5, <1>6 DEF r
<1>7. ASSUME NEW i, r = GoogleTasks!@@(asked, [item |-> i])
      PROVE  ServiceAnswer(r) /\ r.result = asked.result /\ r.item = i
  BY <1>2, <1>7 DEF GoogleTasks!@@, RequestAnswer, ServiceAnswer
<1> QED
  BY <1>1, <1>2, <1>3, <1>6, <1>7 DEF RequestAnswer, r

\* UpdateItem of the Google Tasks client.
LEMMA ServiceUpdateItem ==
    ASSUME NEW g, ServiceOK(g), NEW item, NEW t
    PROVE  LET r == GoogleTasks!UpdateItem(g, item, t)
           IN  /\ ServiceAnswer(r) /\ DOMAIN r = {"result", "google"}
               /\ r.result = "ok" => item.ext # Nil
<1> DEFINE r == GoogleTasks!UpdateItem(g, item, t)
           asked == GoogleTasks!PatchTask(g, item.xlist, item.ext, GoogleTasks!Task(item), t)
<1>1. r = GoogleTasks!Refused(g) \/ (r = asked /\ item.ext # Nil)
  BY DEF GoogleTasks!UpdateItem, GoogleTasks!Nil, Nil
<1>2. RequestAnswer(asked) /\ DOMAIN asked = {"result", "google"}
  BY ServicePatchTask
<1>3. /\ RequestAnswer(GoogleTasks!Refused(g)) /\ DOMAIN GoogleTasks!Refused(g) = {"result", "google"}
      /\ GoogleTasks!Refused(g).result = "error"
  BY Refusing
<1> HIDE DEF r, asked
<1>4. /\ ServiceAnswer(r) /\ DOMAIN r = {"result", "google"}
      /\ r.result = "ok" => item.ext # Nil
  BY <1>1, <1>2, <1>3 DEF ServiceAnswer, RequestAnswer
<1> QED
  BY <1>4 DEF r

\* DeleteItem of the Google Tasks client.
LEMMA ServiceDeleteItem ==
    ASSUME NEW g, ServiceOK(g), NEW item
    PROVE  ServiceAnswer(GoogleTasks!DeleteItem(g, item))
<1> DEFINE r == GoogleTasks!DeleteItem(g, item)
<1>1. r = GoogleTasks!Refused(g) \/ r = GoogleTasks!DeleteTask(g, item.xlist, item.ext)
  BY DEF GoogleTasks!DeleteItem
<1> HIDE DEF r
<1>2. RequestAnswer(r) /\ DOMAIN r = {"result", "google"}
  BY <1>1, ServiceDeleteTask, Refusing
<1>3. ServiceAnswer(r)
  BY <1>2 DEF ServiceAnswer, RequestAnswer
<1> QED
  BY <1>3 DEF r

-----------------------------------------------------------------------------
(* The session and the world around it. *)

Adding(s) == s.at \in {"create item", "backfill item"}
Updating(s) == s.at \in {"update list", "update item"}
InList(s) == Adding(s) \/ Updating(s) \/ s.at \in {"create list", "backfill list"}
KeyIn(s, resource) == IF s.remote = "markdown" THEN resource.id ELSE resource.ext
Handled(s, k) == (Updating(s) \/ k < s.ii) /\ s.cur.items[k].status # "deleted"

\* SessionTyped and SessionOK of a session s: what holds wherever it is, and
\* what holds where it is.
Frame(s) ==
    /\ DOMAIN s = SessionFields
    /\ s.direction \in {"pull", "push"} /\ s.remote \in TargetNames
    /\ s.ii \in Nat \ {0} /\ s.dj \in Nat \ {0}
    /\ ListsOK(s.listing) /\ ListsOK(s.src) /\ ListsOK(s.dst)
    /\ \A k \in DOMAIN s.lists : ListOK(s.lists[k])
    /\ \A k \in DOMAIN s.view : ItemsOK(s.view[k])
    /\ s.li \in 1 .. Len(s.src) + 1 /\ s.di \in 1 .. Len(s.dst) + 1
    /\ Nil \notin DOMAIN s.items

Where(s) ==
    /\ s.at \in {"read source", "read destination", "read tasks"} => s.li = 1 /\ s.di = 1
    /\ InList(s) => ListOK(s.cur) /\ s.li # Len(s.src) + 1
    /\ s.at \in {"purge list", "purge item"} => s.di # Len(s.dst) + 1
    /\ s.at = "backfill item" =>
          /\ s.ii \in DOMAIN s.cur.items
          /\ s.direction = "push" /\ s.remote = "google_tasks" => s.cur.items[s.ii].ext # Nil
    /\ Adding(s) \/ Updating(s) =>
          /\ KeyIn(s, s.cur) \in DOMAIN s.lists
          /\ \A k \in DOMAIN s.cur.items : Handled(s, k) => KeyIn(s, s.cur.items[k]) \in DOMAIN s.items

GoodSession(s) == Frame(s) /\ Where(s)
PassOK == DOMAIN pass = PassFields /\ pass.phase \in {"pull", "push"} /\ pass.k \in Nat \ {0}

\* The session of the invariant TypeOK and the session of this module, while there is
\* one.
LEMMA SessionIsGood ==
    /\ ss.at # "idle" /\ SessionTyped /\ SessionOK => GoodSession(ss) /\ PassOK
    /\ GoodSession(ss) /\ PassOK => SessionTyped /\ SessionOK
<1>1. ASSUME ss.at # "idle", SessionTyped, SessionOK PROVE GoodSession(ss) /\ PassOK
  <2>1. Frame(ss) /\ PassOK
    BY <1>1 DEF SessionTyped, SessionOK, Frame, PassOK
  <2>2. Destination = "google_tasks" <=> ss.direction = "push" /\ ss.remote = "google_tasks"
    BY <2>1 DEF Destination, Frame
  <2>3. Where(ss)
    BY <1>1, <2>1, <2>2 DEF SessionTyped, SessionOK, Where, InList, Adding, Updating, Handled, KeyIn, Key
  <2> QED
    BY <2>1, <2>3 DEF GoodSession
<1>2. ASSUME GoodSession(ss), PassOK PROVE SessionTyped /\ SessionOK
  <2>1. Frame(ss) /\ Where(ss)
    BY <1>2 DEF GoodSession
  <2>2. Destination = "google_tasks" => ss.direction = "push" /\ ss.remote = "google_tasks"
    BY <2>1 DEF Destination, Frame
  <2>3. SessionTyped
    BY <1>2, <2>1 DEF SessionTyped, Frame, Where, PassOK, InList, Adding, Updating
  <2>4. SessionOK
    BY <2>1, <2>2 DEF SessionOK, Frame, Where, InList, Adding, Updating, Handled, KeyIn, Key
  <2> QED
    BY <2>3, <2>4
<1> QED
  BY <1>1, <1>2

WorldOK ==
    /\ StoreOK(db) /\ FileOK(file) /\ ServiceOK(google)
    /\ notified \in [TargetNames -> BOOLEAN] /\ now \in Nat /\ faults \in 0 .. MaxFaults

\* The targets are the markdown file and perhaps Google Tasks.
LEMMA TheTargets == TargetNames \in SUBSET {"markdown", "google_tasks"} /\ "markdown" \in TargetNames
  BY SystemAssumption DEF SystemAssumption, TargetNames

\* What a call of p leaves.
Answer(p, r) ==
    /\ p = "store" => StoreAnswer(r)
    /\ p = "markdown" => FileAnswer(r)
    /\ p = "google_tasks" => ServiceAnswer(r)

\* A session copies between the store and one target, in the direction that it has.
LEMMA Sides ==
    ASSUME Frame(ss)
    PROVE  /\ Source \in Providers /\ Destination \in Providers
           /\ ss.direction = "pull" => Source = ss.remote /\ Destination = "store"
           /\ ss.direction = "push" => Source = "store" /\ Destination = ss.remote
           /\ ss.remote \in {"markdown", "google_tasks"}
  BY TheTargets DEF Source, Destination, Providers, Frame

\* A provider that answers leaves its own part of the world, and the others theirs.
LEMMA Applying ==
    ASSUME WorldOK, NEW p \in Providers, NEW r, Answer(p, r), Apply(p, r)
    PROVE  /\ StoreOK(db') /\ FileOK(file') /\ ServiceOK(google')
           /\ notified' \in [TargetNames -> BOOLEAN] /\ now' \in Nat
<1>1. StoreOK(db') /\ FileOK(file') /\ ServiceOK(google') /\ now' \in Nat
  BY DEF WorldOK, Apply, Answer, StoreAnswer, FileAnswer, ServiceAnswer
<1>2. notified' \in [TargetNames -> BOOLEAN]
  BY DEF WorldOK, Apply
<1> QED
  BY <1>1, <1>2

\* A session that returns is one, wherever it was.
LEMMA Returning ==
    ASSUME Frame(ss), NEW result
    PROVE  GoodSession(Return(result))
<1> DEFINE s == Return(result)
<1>1. Frame(s) /\ s.at = "returned"
  BY DEF Return, Frame, SessionFields, Session
<1> HIDE DEF s
<1>2. Where(s)
  BY <1>1 DEF Where, InList, Adding, Updating
<1> QED
  BY <1>1, <1>2 DEF GoodSession, s

\* A call that fails has done a part of its work, or nothing; each is an answer.
LEMMA HalfDoneAnswers ==
    ASSUME WorldOK, NEW p \in Providers, NEW r, Answer(p, r), NEW half \in HalfDone(p, r)
    PROVE  Answer(p, half)
<1> DEFINE partial == IF "partial" \in DOMAIN r THEN r.partial ELSE {}
<1>1. CASE p = "store"
  <2>1. half \in {[db |-> d] : d \in {db} \cup partial}
    BY <1>1 DEF HalfDone
  <2>2. PICK d \in {db} \cup partial : half = [db |-> d]
    BY <2>1
  <2>3. StoreOK(d)
    BY <1>1, <2>2 DEF Answer, StoreAnswer, WorldOK
  <2> QED
    BY <1>1, <2>2, <2>3 DEF Answer, StoreAnswer
<1>2. CASE p = "google_tasks"
  <2>1. half \in {[google |-> g] : g \in {google} \cup partial}
    BY <1>2 DEF HalfDone
  <2>2. PICK g \in {google} \cup partial : half = [google |-> g]
    BY <2>1
  <2>3. ServiceOK(g)
    BY <1>2, <2>2 DEF Answer, ServiceAnswer, WorldOK
  <2> QED
    BY <1>2, <2>2, <2>3 DEF Answer, ServiceAnswer
<1>3. CASE p = "markdown"
  <2> DEFINE cut == IF "disk" \in Faulty THEN Markdown!HalfWritten(file, r.file, now) ELSE {}
  <2>1. half \in {[file |-> f] : f \in {file, Markdown!Normalised(file)} \cup cut}
    BY <1>3 DEF HalfDone
  <2>2. PICK f \in {file, Markdown!Normalised(file)} \cup cut : half = [file |-> f]
    BY <2>1
  <2>3. FileOK(file) /\ FileOK(r.file) /\ FileOK(Markdown!Normalised(file))
    BY <1>3, MarkdownNormalised DEF Answer, FileAnswer, WorldOK
  <2>4. \A x \in cut : FileOK(x)
    BY <2>3, MarkdownHalfWritten
  <2> HIDE DEF cut
  <2>5. FileOK(f)
    BY <2>2, <2>3, <2>4
  <2> QED
    BY <1>3, <2>2, <2>5 DEF Answer, FileAnswer
<1> QED
  BY <1>1, <1>2, <1>3 DEF Providers

\* A call that succeeds takes the session on; one that fails, or is made to fail
\* half-way, returns from it.  In each case what is left is consistent.
LEMMA Proceeding ==
    ASSUME WorldOK, Frame(ss), NEW p \in Providers, NEW r, Answer(p, r),
           NEW s, r.result = "ok" => GoodSession(s), Proceed(p, r, s)
    PROVE  WorldOK' /\ GoodSession(ss')
<1>1. CASE Apply(p, r) /\ UNCHANGED faults /\ ss' = IF r.result = "ok" THEN s ELSE Return(r.result)
  <2>1. WorldOK'
    BY <1>1, Applying DEF WorldOK
  <2>2. GoodSession(Return(r.result))
    BY Returning
  <2> QED
    BY <1>1, <2>1, <2>2
<1>2. CASE /\ p \in Faulty /\ faults < MaxFaults
           /\ faults' = faults + 1 /\ ss' = Return("error")
           /\ \E half \in HalfDone(p, r) : Apply(p, half)
  <2>1. faults' \in 0 .. MaxFaults
    BY <1>2, SyncerAssumption DEF WorldOK, SyncerAssumption
  <2>2. GoodSession(ss')
    BY <1>2, Returning
  <2>3. PICK half \in HalfDone(p, r) : Apply(p, half)
    BY <1>2
  <2>4. Answer(p, half)
    BY HalfDoneAnswers
  <2> QED
    BY <2>1, <2>2, <2>3, <2>4, Applying DEF WorldOK
<1> QED
  BY <1>1, <1>2 DEF Proceed

\* A step of the Syncer without a call leaves the world alone.
LEMMA Staying ==
    ASSUME WorldOK, NEW s, GoodSession(s), Silently(s)
    PROVE  WorldOK' /\ GoodSession(ss')
  BY DEF Silently, WorldOK, worldVars

-----------------------------------------------------------------------------
(* The calls of the Syncer. *)

\* ListLists of the store and of the markdown client, also when the answer is lost.
LEMMA CallsListLists ==
    ASSUME WorldOK, NEW p \in {"store", "markdown"}
    PROVE  LET r == CallListLists(p)
           IN  Answer(p, r) /\ Answer(p, [r EXCEPT !.result = "ok"]) /\ ListsOK(r.lists)
<1> DEFINE r == CallListLists(p)
<1>1. CASE p = "store"
  <2>1. r = [result |-> "ok", db |-> db, lists |-> Store!ListLists(db)]
    BY <1>1 DEF CallListLists
  <2>2. ListsOK(Store!ListLists(db)) /\ StoreOK(db)
    BY StoreListLists DEF WorldOK
  <2> HIDE DEF r
  <2>3. Answer(p, r) /\ Answer(p, [r EXCEPT !.result = "ok"]) /\ ListsOK(r.lists)
    BY <1>1, <2>1, <2>2 DEF Answer, StoreAnswer
  <2> QED
    BY <2>3 DEF r
<1>2. CASE p = "markdown"
  <2>1. r = [result |-> IF file.exists THEN "ok" ELSE "missing", file |-> Markdown!Normalised(file),
             lists |-> Markdown!Parsed(file)]
    BY <1>2 DEF CallListLists, Markdown!ListLists
  <2>2. ListsOK(Markdown!Parsed(file)) /\ FileOK(Markdown!Normalised(file))
    BY MarkdownParsed, MarkdownNormalised DEF WorldOK
  <2> HIDE DEF r
  <2>3. Answer(p, r) /\ Answer(p, [r EXCEPT !.result = "ok"]) /\ ListsOK(r.lists)
    BY <1>2, <2>1, <2>2 DEF Answer, FileAnswer
  <2> QED
    BY <2>3 DEF r
<1> QED
  BY <1>1, <1>2

\* CreateList of any provider returns a list.
LEMMA CallsCreateList ==
    ASSUME WorldOK, NEW p \in Providers, NEW list, ListOK(list)
    PROVE  Answer(p, CallCreateList(p, list)) /\ ListOK(CallCreateList(p, list).list)
<1>0. StoreOK(db) /\ FileOK(file) /\ ServiceOK(google)
  BY DEF WorldOK
<1>1. CASE p = "store"
  BY <1>0, <1>1, StoreCreateList DEF CallCreateList, Answer
<1>2. CASE p = "markdown"
  BY <1>0, <1>2, MarkdownCreateList DEF CallCreateList, Answer
<1>3. CASE p = "google_tasks"
  BY <1>0, <1>3, ServiceCreateList DEF CallCreateList, Answer
<1> QED
  BY <1>1, <1>2, <1>3 DEF Providers

\* UpdateList of any provider returns a list.
LEMMA CallsUpdateList ==
    ASSUME WorldOK, NEW p \in Providers, NEW list, ListOK(list), NEW current
    PROVE  Answer(p, CallUpdateList(p, list, current)) /\ ListOK(CallUpdateList(p, list, current).list)
<1>0. StoreOK(db) /\ FileOK(file) /\ ServiceOK(google)
  BY DEF WorldOK
<1>1. CASE p = "store"
  BY <1>0, <1>1, StoreUpdateList DEF CallUpdateList, Answer
<1>2. CASE p = "markdown"
  BY <1>0, <1>2, MarkdownUpdateList DEF CallUpdateList, Answer
<1>3. CASE p = "google_tasks"
  BY <1>0, <1>3, ServiceUpdateList DEF CallUpdateList, Answer
<1> QED
  BY <1>1, <1>2, <1>3 DEF Providers

\* DeleteList of any provider.
LEMMA CallsDeleteList ==
    ASSUME WorldOK, NEW p \in Providers, NEW list
    PROVE  Answer(p, CallDeleteList(p, list))
<1>0. StoreOK(db) /\ FileOK(file) /\ ServiceOK(google)
  BY DEF WorldOK
<1>1. CASE p = "store"
  BY <1>0, <1>1, StoreDeleteList DEF CallDeleteList, Answer
<1>2. CASE p = "markdown"
  BY <1>0, <1>2, MarkdownDeleteList DEF CallDeleteList, Answer
<1>3. CASE p = "google_tasks"
  BY <1>0, <1>3, ServiceDeleteList DEF CallDeleteList, Answer
<1> QED
  BY <1>1, <1>2, <1>3 DEF Providers

\* CreateItem of any provider returns an item, and that of Google Tasks one with an
\* external id: the key under which the Syncer records it.
LEMMA CallsCreateItem ==
    ASSUME WorldOK, NEW p \in Providers, NEW item, ItemOK(item), NEW prev
    PROVE  LET r == CallCreateItem(p, item, prev)
           IN  /\ Answer(p, r)
               /\ r.result = "ok" =>
                     /\ ItemOK(r.item)
                     /\ p # "google_tasks" => r.item.ext = item.ext
                     /\ p = "google_tasks" => r.item.ext # Nil
                     /\ item.id # Nil => r.item.id = item.id
<1>0. StoreOK(db) /\ FileOK(file) /\ ServiceOK(google)
  BY DEF WorldOK
<1> DEFINE r == CallCreateItem(p, item, prev)
<1>1. CASE p = "store"
  <2>1. r = Store!CreateItem(db, item, now)
    BY <1>1 DEF CallCreateItem
  <2> HIDE DEF r
  <2>2. /\ StoreAnswer(r) /\ ItemOK(r.item)
        /\ r.result = "ok" => /\ r.item.ext = item.ext
                              /\ item.id # Nil => r.item.id = item.id
    BY <1>0, <2>1, StoreCreateItem
  <2> QED
    BY <1>1, <2>2 DEF Answer, r
<1>2. CASE p = "markdown"
  <2> DEFINE a == Markdown!CreateItem(file, item, prev, now)
  <2>1. r = a @@ [item |-> item]
    BY <1>2 DEF CallCreateItem
  <2>2. FileAnswer(a) /\ DOMAIN a = {"result", "file"}
    BY <1>0, MarkdownCreateItem
  <2> HIDE DEF r, a
  <2>3. FileAnswer(r) /\ r.item = item
    BY <2>1, <2>2 DEF @@, FileAnswer
  <2> QED
    BY <1>2, <2>3 DEF Answer, r
<1>3. CASE p = "google_tasks"
  <2>1. r = GoogleTasks!CreateItem(google, item, prev, now)
    BY <1>3 DEF CallCreateItem
  <2> HIDE DEF r
  <2>2. ServiceAnswer(r) /\ (r.result = "ok" => ItemOK(r.item) /\ r.item.ext # Nil /\ r.item.id = item.id)
    BY <1>0, <2>1, ServiceCreateItem
  <2> QED
    BY <1>3, <2>2 DEF Answer, r
<1> QED
  BY <1>1, <1>2, <1>3 DEF Providers

\* UpdateItem of any provider returns an item, and that of the store keeps the
\* external id that the Syncer has just given it.
LEMMA CallsUpdateItem ==
    ASSUME WorldOK, NEW p \in Providers, NEW item, ItemOK(item)
    PROVE  LET r == CallUpdateItem(p, item)
           IN  /\ Answer(p, r)
               /\ r.result = "ok" =>
                     /\ ItemOK(r.item) /\ r.item.ext = item.ext
                     /\ item.id # Nil => r.item.id = item.id
                     /\ p = "google_tasks" => r.item.ext # Nil
                     /\ p # "google_tasks" => r.item.id # Nil
<1>0. StoreOK(db) /\ FileOK(file) /\ ServiceOK(google)
  BY DEF WorldOK
<1> DEFINE r == CallUpdateItem(p, item)
<1>1. CASE p = "store"
  <2>1. r = Store!UpdateItem(db, item, now)
    BY <1>1 DEF CallUpdateItem
  <2> HIDE DEF r
  <2>2. /\ StoreAnswer(r) /\ ItemOK(r.item)
        /\ r.result = "ok" => /\ r.item.ext = item.ext /\ r.item.id # Nil
                              /\ item.id # Nil => r.item.id = item.id
    BY <1>0, <2>1, StoreUpdateItem
  <2> QED
    BY <1>1, <2>2 DEF Answer, r
<1>2. CASE p = "markdown"
  <2> DEFINE a == Markdown!UpdateItem(file, item, now)
  <2>1. r = a @@ [item |-> item]
    BY <1>2 DEF CallUpdateItem
  <2>2. FileAnswer(a) /\ DOMAIN a = {"result", "file"} /\ (a.result = "ok" => item.id # Nil)
    BY <1>0, MarkdownUpdateItem
  <2> HIDE DEF r, a
  <2>3. FileAnswer(r) /\ r.item = item /\ r.result = a.result
    BY <2>1, <2>2 DEF @@, FileAnswer
  <2> QED
    BY <1>2, <2>2, <2>3 DEF Answer, r
<1>3. CASE p = "google_tasks"
  <2> DEFINE a == GoogleTasks!UpdateItem(google, item, now)
  <2>1. r = a @@ [item |-> item]
    BY <1>3 DEF CallUpdateItem
  <2>2. ServiceAnswer(a) /\ DOMAIN a = {"result", "google"} /\ (a.result = "ok" => item.ext # Nil)
    BY <1>0, ServiceUpdateItem
  <2> HIDE DEF r, a
  <2>3. ServiceAnswer(r) /\ r.item = item /\ r.result = a.result
    BY <2>1, <2>2 DEF @@, ServiceAnswer
  <2> QED
    BY <1>3, <2>2, <2>3 DEF Answer, r
<1> QED
  BY <1>1, <1>2, <1>3 DEF Providers

\* DeleteItem of any provider.
LEMMA CallsDeleteItem ==
    ASSUME WorldOK, NEW p \in Providers, NEW item
    PROVE  Answer(p, CallDeleteItem(p, item))
<1>0. StoreOK(db) /\ FileOK(file) /\ ServiceOK(google)
  BY DEF WorldOK
<1>1. CASE p = "store"
  BY <1>0, <1>1, StoreDeleteItem DEF CallDeleteItem, Answer
<1>2. CASE p = "markdown"
  BY <1>0, <1>2, MarkdownDeleteItem DEF CallDeleteItem, Answer
<1>3. CASE p = "google_tasks"
  BY <1>0, <1>3, ServiceDeleteItem DEF CallDeleteItem, Answer
<1> QED
  BY <1>1, <1>2, <1>3 DEF Providers

-----------------------------------------------------------------------------
(* The start of a session. *)

\* No item is recorded without a key (syncer.go, buildProviderState).
LEMMA ItemMapKeys ==
    ASSUME NEW lists
    PROVE  Nil \notin DOMAIN ItemMap(lists)
  BY DEF ItemMap

\* The map of the lists of a listing has lists of it as values.
LEMMA ListMapLists ==
    ASSUME NEW lists, ListsOK(lists)
    PROVE  \A k \in DOMAIN ListMap(lists) : ListOK(ListMap(lists)[k])
<1> DEFINE keys == {Key(lists[i]) : i \in DOMAIN lists} \ {Nil}
           Last(k) == CHOOSE i \in DOMAIN lists :
                         Key(lists[i]) = k /\ \A j \in DOMAIN lists : Key(lists[j]) = k => j <= i
<1>1. ListMap(lists) = [k \in keys |-> lists[Last(k)]]
  BY DEF ListMap
<1>2. DOMAIN lists = 1 .. Len(lists) /\ Len(lists) \in Nat
  BY SeqOf DEF ListsOK
<1>3. ASSUME NEW k \in keys PROVE ListOK(lists[Last(k)])
  <2> DEFINE S == {i \in DOMAIN lists : Key(lists[i]) = k}
  <2>1. S # {}
    OBVIOUS
  <2>2. S \in SUBSET (0 .. Len(lists))
    BY <1>2
  <2>3. \E i \in S : \A j \in S : j <= i
    BY <1>2, <2>1, <2>2, Greatest
  <2>4. \E i \in DOMAIN lists : Key(lists[i]) = k /\ \A j \in DOMAIN lists : Key(lists[j]) = k => j <= i
    BY <2>3
  <2>5. Last(k) \in DOMAIN lists
    BY <2>4
  <2> QED
    BY <2>5 DEF ListsOK
<1> HIDE DEF keys, Last
<1> QED
  BY <1>1, <1>3

\* The session after the source was listed.
LEMMA SourceIsListed ==
    ASSUME Frame(ss), ss.li = 1, ss.di = 1, NEW lists, ListsOK(lists)
    PROVE  LET s == SourceListed(lists)
           IN  Frame(s) /\ s.at = "read destination" /\ s.li = 1 /\ s.di = 1
<1>1. IsSeq(lists) /\ Len(lists) \in Nat /\ 1 \in 1 .. Len(lists) + 1
  BY SeqOf DEF ListsOK
<1> QED
  BY <1>1 DEF Frame, SourceListed, SessionFields, Session

\* The session after the destination was listed: maps and views are built from the
\* listing.
LEMMA DestinationIsListed ==
    ASSUME Frame(ss), ss.li = 1, ss.di = 1, NEW lists, ListsOK(lists)
    PROVE  LET s == DestinationListed(lists)
           IN  Frame(s) /\ s.at = "open list" /\ s.li = 1 /\ s.di = 1
<1> DEFINE s == DestinationListed(lists)
           maps == ListMap(lists)
           items == ItemMap(lists)
           view == [k \in DOMAIN maps |-> maps[k].items]
<1>1. IsSeq(lists) /\ Len(lists) \in Nat /\ 1 \in 1 .. Len(lists) + 1
  BY SeqOf DEF ListsOK
<1>2. \A k \in DOMAIN maps : ListOK(maps[k])
  BY ListMapLists
<1>3. Nil \notin DOMAIN items
  BY ItemMapKeys
<1>4. s = [ss EXCEPT !.at = "open list", !.dst = lists, !.lists = maps, !.items = items, !.view = view]
  BY DEF DestinationListed
<1> HIDE DEF maps, items
<1>5. \A k \in DOMAIN view : ItemsOK(view[k])
  BY <1>2 DEF ListOK
<1> HIDE DEF view, s
<1>6. /\ DOMAIN s = SessionFields /\ s.at = "open list" /\ s.dst = lists /\ s.lists = maps
      /\ s.items = items /\ s.view = view
      /\ \A f \in SessionFields \ {"at", "dst", "lists", "items", "view"} : s[f] = ss[f]
  BY <1>4 DEF Frame, SessionFields, Session
<1>7. Frame(s) /\ s.at = "open list" /\ s.li = 1 /\ s.di = 1
  BY <1>1, <1>2, <1>3, <1>5, <1>6 DEF Frame, SessionFields, Session
<1> QED
  BY <1>7 DEF s

\* The lists of a provider are there, before all else.
LEMMA IsListed ==
    ASSUME Frame(ss), ss.li = 1, ss.di = 1, NEW lists, ListsOK(lists)
    PROVE  LET s == Listed(lists)
           IN  /\ GoodSession(s) /\ Frame(s)
               /\ s.at \in {"open list", "read destination"} /\ s.li = 1 /\ s.di = 1
<1> DEFINE s == Listed(lists)
<1>1. s = SourceListed(lists) \/ s = DestinationListed(lists)
  BY DEF Listed
<1> HIDE DEF s
<1>2. Frame(s) /\ s.at \in {"open list", "read destination"} /\ s.li = 1 /\ s.di = 1
  BY <1>1, SourceIsListed, DestinationIsListed
<1>3. Where(s)
  BY <1>2 DEF Where, InList, Adding, Updating
<1> QED
  BY <1>2, <1>3 DEF GoodSession, s

\* The first request of a Google Tasks listing.
LEMMA ReadsLists ==
    ASSUME WorldOK, Frame(ss), ss.li = 1, ss.di = 1, ReadLists
    PROVE  WorldOK' /\ GoodSession(ss')
<1> DEFINE lists == GoogleTasks!ListTaskLists(google)
           r == [result |-> "ok", google |-> google]
           more == [ss EXCEPT !.at = "read tasks", !.listing = lists, !.unread = DOMAIN lists]
           s == IF lists = <<>> THEN Listed(<<>>) ELSE more
<1>1. Proceed("google_tasks", r, s)
  BY DEF ReadLists
<1>2. Answer("google_tasks", r)
  BY DEF WorldOK, Answer, ServiceAnswer
<1>3. ListsOK(lists)
  BY ServiceListTaskLists DEF WorldOK
<1> HIDE DEF lists
<1>4. GoodSession(more)
  <2>1. Frame(more) /\ more.at = "read tasks" /\ more.li = 1 /\ more.di = 1
    BY <1>3 DEF Frame, SessionFields, Session
  <2> HIDE DEF more
  <2> QED
    BY <2>1 DEF GoodSession, Where, InList, Adding, Updating
<1>5. GoodSession(Listed(<<>>))
  BY NoItems, IsListed
<1> HIDE DEF more
<1>6. GoodSession(s)
  BY <1>4, <1>5
<1> HIDE DEF s, r
<1> QED
  BY <1>1, <1>2, <1>6, Proceeding DEF Providers

\* oneWaySync lists the source.
LEMMA ReadsSource ==
    ASSUME WorldOK, GoodSession(ss), ReadSource
    PROVE  WorldOK' /\ GoodSession(ss')
<1>1. Frame(ss) /\ ss.li = 1 /\ ss.di = 1
  BY DEF GoodSession, Where, ReadSource
<1>2. Source \in Providers
  BY <1>1, Sides
<1>3. CASE Source = "google_tasks"
  BY <1>1, <1>3, ReadsLists DEF ReadSource
<1>4. CASE Source # "google_tasks"
  <2> DEFINE r == CallListLists(Source)
             s == SourceListed(r.lists)
  <2>1. Proceed(Source, r, s)
    BY <1>4 DEF ReadSource
  <2>2. Answer(Source, r) /\ ListsOK(r.lists)
    BY <1>2, <1>4, CallsListLists DEF Providers
  <2> HIDE DEF r
  <2>3. Frame(s) /\ s.at = "read destination" /\ s.li = 1 /\ s.di = 1
    BY <1>1, <2>2, SourceIsListed
  <2> HIDE DEF s
  <2>4. GoodSession(s)
    BY <2>3 DEF GoodSession, Where, InList, Adding, Updating
  <2> QED
    BY <1>1, <1>2, <2>1, <2>2, <2>4, Proceeding
<1> QED
  BY <1>3, <1>4

\* oneWaySync lists the destination.
LEMMA ReadsDestination ==
    ASSUME WorldOK, GoodSession(ss), ReadDestination
    PROVE  WorldOK' /\ GoodSession(ss')
<1>1. Frame(ss) /\ ss.li = 1 /\ ss.di = 1
  BY DEF GoodSession, Where, ReadDestination
<1>2. Destination \in Providers
  BY <1>1, Sides
<1>3. CASE Destination = "google_tasks"
  BY <1>1, <1>3, ReadsLists DEF ReadDestination
<1>4. CASE Destination # "google_tasks"
  <2> DEFINE r == CallListLists(Destination)
             a == [r EXCEPT !.result = "ok"]
             s == DestinationListed(r.lists)
  <2>1. Proceed(Destination, a, s)
    BY <1>4 DEF ReadDestination
  <2>2. Answer(Destination, a) /\ ListsOK(r.lists)
    BY <1>2, <1>4, CallsListLists DEF Providers
  <2> HIDE DEF r, a
  <2>3. Frame(s) /\ s.at = "open list" /\ s.li = 1 /\ s.di = 1
    BY <1>1, <2>2, DestinationIsListed
  <2> HIDE DEF s
  <2>4. GoodSession(s)
    BY <2>3 DEF GoodSession, Where, InList, Adding, Updating
  <2> QED
    BY <1>1, <1>2, <2>1, <2>2, <2>4, Proceeding
<1> QED
  BY <1>3, <1>4

\* One of the concurrent requests of a Google Tasks listing, and the end of the
\* listing after the last one.
LEMMA ReadsTasks ==
    ASSUME WorldOK, GoodSession(ss), ReadTasks
    PROVE  WorldOK' /\ GoodSession(ss')
<1>1. Frame(ss) /\ ss.li = 1 /\ ss.di = 1 /\ ss.at = "read tasks"
  BY DEF GoodSession, Where, ReadTasks
<1> DEFINE r(k) == GoogleTasks!ListItems(google, ss.listing[k])
           lists(k) == [ss.listing EXCEPT ![k].items = r(k).items]
           last(k) == [Listed(lists(k)) EXCEPT !.listing = <<>>, !.unread = {}]
           more(k) == [ss EXCEPT !.listing = lists(k), !.unread = @ \ {k}]
           s(k) == IF ss.unread = {k} THEN last(k) ELSE more(k)
<1>2. PICK k \in ss.unread : Proceed("google_tasks", r(k), s(k))
  BY DEF ReadTasks
<1>3. /\ r(k).google = google /\ "partial" \notin DOMAIN r(k)
      /\ r(k).result = "ok" => ItemsOK(r(k).items)
  BY ServiceListItems DEF WorldOK
<1> HIDE DEF r
<1>4. Answer("google_tasks", r(k))
  BY <1>3 DEF Answer, ServiceAnswer, WorldOK
<1>5. ASSUME r(k).result = "ok" PROVE GoodSession(s(k))
  <2>1. ListsOK(lists(k))
    <3>1. CASE k \in DOMAIN ss.listing
      <4>1. lists(k) = [ss.listing EXCEPT ![k] = [ss.listing[k] EXCEPT !.items = r(k).items]]
        OBVIOUS
      <4>2. ListsOK(ss.listing) /\ ListOK(ss.listing[k])
        BY <1>1, <3>1 DEF Frame, ListsOK
      <4>3. ListOK([ss.listing[k] EXCEPT !.items = r(k).items])
        BY <1>3, <1>5, <4>2, WithItems
      <4> QED
        BY <3>1, <4>1, <4>2, <4>3, ListReplaced
    <3>2. CASE k \notin DOMAIN ss.listing
      <4>1. lists(k) = ss.listing
        <5>1. ListsOK(ss.listing) /\ IsSeq(ss.listing)
          BY <1>1 DEF Frame, ListsOK
        <5>2. ss.listing = [j \in DOMAIN ss.listing |-> ss.listing[j]]
          BY <5>1 DEF IsSeq
        <5> QED
          BY <3>2, <5>2
      <4> QED
        BY <1>1, <4>1 DEF Frame
    <3> QED
      BY <3>1, <3>2
  <2> HIDE DEF lists
  <2>2. GoodSession(last(k))
    <3> DEFINE a == Listed(lists(k))
    <3>1. Frame(a) /\ a.at \in {"open list", "read destination"} /\ a.li = 1 /\ a.di = 1
      BY <1>1, <2>1, IsListed
    <3> HIDE DEF a
    <3>2. last(k) = [a EXCEPT !.listing = <<>>, !.unread = {}]
      BY DEF a
    <3> HIDE DEF last
    <3>3. Frame(last(k)) /\ last(k).at = a.at /\ last(k).li = 1 /\ last(k).di = 1
      BY <3>1, <3>2, NoItems DEF Frame, SessionFields, Session
    <3> QED
      BY <3>1, <3>3 DEF GoodSession, Where, InList, Adding, Updating
  <2>3. GoodSession(more(k))
    <3>1. Frame(more(k)) /\ more(k).at = "read tasks" /\ more(k).li = 1 /\ more(k).di = 1
      BY <1>1, <2>1 DEF Frame, SessionFields, Session
    <3> HIDE DEF more
    <3> QED
      BY <3>1 DEF GoodSession, Where, InList, Adding, Updating
  <2> HIDE DEF last, more
  <2> QED
    BY <2>2, <2>3
<1> HIDE DEF s
<1> QED
  BY <1>1, <1>2, <1>4, <1>5, Proceeding DEF Providers

-----------------------------------------------------------------------------
(* The creation phase. *)

\* syncListCreate starts on the items of a list that the destination has: from here
\* on the list is found in the map of the destination.
LEMMA Starting ==
    ASSUME NEW s, Frame(s), ListOK(s.cur), s.li # Len(s.src) + 1, KeyIn(s, s.cur) \in DOMAIN s.lists
    PROVE  GoodSession(StartItems(s))
<1> DEFINE items == [k \in DOMAIN s.cur.items |->
                       IF s.cur.items[k].status = "deleted" THEN s.cur.items[k]
                       ELSE [s.cur.items[k] EXCEPT !.list = s.cur.id, !.xlist = s.cur.ext]]
           c == [s.cur EXCEPT !.items = items]
           t == StartItems(s)
<1>1. t = [s EXCEPT !.at = "create item", !.ii = 1, !.cur = c]
  BY DEF StartItems
<1>2. ItemsOK(items)
  <2>1. IsSeq(s.cur.items) /\ \A k \in DOMAIN s.cur.items : ItemOK(s.cur.items[k])
    BY DEF ListOK, ItemsOK
  <2>2. \A k \in DOMAIN s.cur.items : ItemOK(items[k])
    BY <2>1 DEF ItemOK, ItemFields
  <2>3. items = [k \in DOMAIN s.cur.items |-> items[k]]
    OBVIOUS
  <2> HIDE DEF items
  <2> QED
    BY <2>1, <2>2, <2>3, Mapped DEF ItemsOK
<1> HIDE DEF items
<1>3. ListOK(c) /\ c.items = items /\ c.id = s.cur.id /\ c.ext = s.cur.ext
  BY <1>2, WithItems DEF ListOK, ListFields
<1> HIDE DEF c, t
<1>4. /\ DOMAIN t = SessionFields /\ t.at = "create item" /\ t.ii = 1 /\ t.cur = c
      /\ \A f \in SessionFields \ {"at", "ii", "cur"} : t[f] = s[f]
  BY <1>1 DEF Frame, SessionFields, Session
<1>5. Frame(t)
  BY <1>1 DEF Frame, SessionFields, Session
<1>6. /\ t.remote = s.remote /\ t.li = s.li /\ t.src = s.src /\ t.lists = s.lists
  BY <1>4 DEF SessionFields, Session
<1>7. DOMAIN items = 1 .. Len(items) /\ Len(items) \in Nat
  <2>1. IsSeq(items)
    BY <1>2 DEF ItemsOK
  <2> QED
    BY <2>1, SeqOf
<1>8. \A k \in DOMAIN items : ~Handled(t, k)
  <2>1. t.ii = 1 /\ ~Updating(t)
    BY <1>4 DEF Updating
  <2>2. \A k \in DOMAIN items : ~(k < 1)
    BY <1>7
  <2> QED
    BY <2>1, <2>2 DEF Handled
<1>9. KeyIn(t, t.cur) = KeyIn(s, s.cur)
  BY <1>3, <1>4, <1>6 DEF KeyIn
<1>10. Where(t)
  BY <1>3, <1>4, <1>6, <1>8, <1>9 DEF Where, InList, Adding, Updating
<1> QED
  BY <1>5, <1>10 DEF GoodSession, t

\* The session goes to the next list of the source.
LEMMA NextIsGood ==
    ASSUME NEW s, Frame(s), s.li # Len(s.src) + 1
    PROVE  GoodSession(NextList(s))
<1> DEFINE t == NextList(s)
<1>1. s.li + 1 \in 1 .. Len(s.src) + 1
  <2>1. Len(s.src) \in Nat
    BY SeqOf DEF Frame, ListsOK
  <2> QED
    BY <2>1 DEF Frame
<1>2. Frame(t) /\ t.at = "open list"
  BY <1>1 DEF NextList, Frame, SessionFields, Session
<1> HIDE DEF t
<1>3. Where(t)
  BY <1>2 DEF Where, InList, Adding, Updating
<1> QED
  BY <1>2, <1>3 DEF GoodSession, t

\* The creation phase takes up the next list, or is through.
LEMMA OpensList ==
    ASSUME WorldOK, GoodSession(ss), OpenList
    PROVE  WorldOK' /\ GoodSession(ss')
<1> DEFINE list == ss.src[ss.li]
           last == [ss EXCEPT !.at = "link", !.li = 1]
           found == [ss EXCEPT !.cur = list]
           unknown == [ss EXCEPT !.cur = list, !.at = "create list"]
           s == IF ss.li > Len(ss.src) THEN last
                ELSE IF list.status = "deleted" THEN NextList(ss)
                ELSE IF Key(list) \in DOMAIN ss.lists THEN StartItems(found)
                ELSE unknown
<1>1. Frame(ss) /\ ss.at = "open list" /\ Silently(s)
  BY DEF GoodSession, OpenList
<1>2. Len(ss.src) \in Nat /\ DOMAIN ss.src = 1 .. Len(ss.src)
  BY <1>1, SeqOf DEF Frame, ListsOK
<1>3. CASE ss.li > Len(ss.src)
  <2>0. 1 \in 1 .. Len(ss.src) + 1
    BY <1>2
  <2>1. Frame(last) /\ last.at = "link"
    BY <1>1, <2>0 DEF Frame, SessionFields, Session
  <2> HIDE DEF last
  <2>2. GoodSession(last)
    BY <2>1 DEF GoodSession, Where, InList, Adding, Updating
  <2>3. GoodSession(s)
    BY <1>3, <2>2
  <2> HIDE DEF s
  <2> QED
    BY <1>1, <2>3, Staying
<1>4. CASE ~(ss.li > Len(ss.src))
  <2>0. ss.li \in 1 .. Len(ss.src) + 1
    BY <1>1 DEF Frame
  <2>1. ss.li \in DOMAIN ss.src /\ ss.li # Len(ss.src) + 1
    BY <1>2, <1>4, <2>0
  <2>2. ListOK(list)
    BY <1>1, <2>1 DEF Frame, ListsOK
  <2>3. GoodSession(NextList(ss))
    BY <1>1, <2>1, NextIsGood
  <2>4. ASSUME Key(list) \in DOMAIN ss.lists PROVE GoodSession(StartItems(found))
    <3>1. /\ Frame(found) /\ found.cur = list /\ found.remote = ss.remote
          /\ found.li = ss.li /\ found.src = ss.src /\ found.lists = ss.lists
      BY <1>1 DEF Frame, SessionFields, Session
    <3>2. KeyIn(found, found.cur) \in DOMAIN found.lists
      BY <2>4, <3>1 DEF KeyIn, Key
    <3> HIDE DEF found
    <3> QED
      BY <2>1, <2>2, <3>1, <3>2, Starting
  <2>5. GoodSession(unknown)
    <3>1. Frame(unknown) /\ unknown.at = "create list" /\ unknown.cur = list
          /\ unknown.li = ss.li /\ unknown.src = ss.src
      BY <1>1 DEF Frame, SessionFields, Session
    <3> HIDE DEF unknown
    <3> QED
      BY <2>1, <2>2, <3>1 DEF GoodSession, Where, InList, Adding, Updating
  <2> HIDE DEF found, unknown, list, last
  <2>6. GoodSession(s)
    BY <1>4, <2>3, <2>4, <2>5
  <2> HIDE DEF s
  <2> QED
    BY <1>1, <2>6, Staying
<1> QED
  BY <1>3, <1>4

\* A list that was created is in the map of the destination before its items are
\* looked at, with no items.
LEMMA CreatedIsGood ==
    ASSUME NEW s, Frame(s), s.remote = ss.remote, ListOK(s.cur), s.li # Len(s.src) + 1
    PROVE  GoodSession(Created(s))
<1> DEFINE e == [s.cur EXCEPT !.items = <<>>]
           map == Put(s.lists, Key(s.cur), e)
           t == [s EXCEPT !.lists = map, !.changed = TRUE]
<1>1. Created(s) = StartItems(t)
  BY DEF Created
<1>2. ListOK(e)
  BY WithItems, NoItems
<1> HIDE DEF e
<1>3. Key(s.cur) \in DOMAIN map /\ \A k \in DOMAIN map : ListOK(map[k])
  BY <1>2 DEF Put, Frame
<1> HIDE DEF map
<1>4. /\ Frame(t) /\ t.cur = s.cur /\ t.remote = s.remote
      /\ t.li = s.li /\ t.src = s.src /\ t.lists = map
  BY <1>3 DEF Frame, SessionFields, Session
<1> HIDE DEF t
<1>5. KeyIn(t, t.cur) \in DOMAIN t.lists
  BY <1>3, <1>4 DEF KeyIn, Key
<1> QED
  BY <1>1, <1>4, <1>5, Starting

\* The destination creates a list.
LEMMA CreatesList ==
    ASSUME WorldOK, GoodSession(ss), CreateList
    PROVE  WorldOK' /\ GoodSession(ss')
<1> DEFINE r == CallCreateList(Destination, ss.cur)
           t == [ss EXCEPT !.cur = r.list]
           b == [t EXCEPT !.at = "backfill list"]
           s == IF Key(ss.cur) = Nil THEN b ELSE Created(t)
<1>1. Frame(ss) /\ ListOK(ss.cur) /\ ss.li # Len(ss.src) + 1
  BY DEF GoodSession, Where, InList, CreateList
<1>2. Destination \in Providers
  BY <1>1, Sides
<1>3. Proceed(Destination, r, s)
  BY DEF CreateList, ListCreated
<1>4. Answer(Destination, r) /\ ListOK(r.list)
  BY <1>1, <1>2, CallsCreateList
<1> HIDE DEF r
<1>5. Frame(t) /\ t.remote = ss.remote /\ t.cur = r.list /\ t.li = ss.li /\ t.src = ss.src
  BY <1>1 DEF Frame, SessionFields, Session
<1>6. /\ Frame(b) /\ b.cur = r.list /\ b.li = ss.li /\ b.src = ss.src /\ b.at = "backfill list"
  BY <1>5 DEF Frame, SessionFields, Session
<1> HIDE DEF t
<1>7. GoodSession(Created(t))
  BY <1>1, <1>4, <1>5, CreatedIsGood
<1> HIDE DEF b
<1>8. GoodSession(b)
  BY <1>1, <1>4, <1>6 DEF GoodSession, Where, InList, Adding, Updating
<1>9. GoodSession(s)
  BY <1>7, <1>8
<1> HIDE DEF s
<1> QED
  BY <1>1, <1>2, <1>3, <1>4, <1>9, Proceeding

\* The source is given the external id of the list that Google Tasks created.
LEMMA BackfillsList ==
    ASSUME WorldOK, GoodSession(ss), BackfillList
    PROVE  WorldOK' /\ GoodSession(ss')
<1> DEFINE r == CallUpdateList(Source, ss.cur, CleanList(ss.cur))
           t == [ss EXCEPT !.cur = r.list]
           s == Created(t)
<1>1. Frame(ss) /\ ListOK(ss.cur) /\ ss.li # Len(ss.src) + 1
  BY DEF GoodSession, Where, InList, BackfillList
<1>2. Source \in Providers
  BY <1>1, Sides
<1>3. Proceed(Source, r, s)
  BY DEF BackfillList, ListBackfilled
<1>4. Answer(Source, r) /\ ListOK(r.list)
  BY <1>1, <1>2, CallsUpdateList
<1> HIDE DEF r
<1>5. Frame(t) /\ t.remote = ss.remote /\ t.cur = r.list /\ t.li = ss.li /\ t.src = ss.src
  BY <1>1 DEF Frame, SessionFields, Session
<1> HIDE DEF t
<1>6. GoodSession(s)
  BY <1>1, <1>4, <1>5, CreatedIsGood
<1> HIDE DEF s
<1> QED
  BY <1>1, <1>2, <1>3, <1>4, <1>6, Proceeding

-----------------------------------------------------------------------------
(* Items are created. *)

\* insertItem of the Syncer puts an item into the list of the destination that it
\* keeps, and into the array that the listing shares with it; no other part of the
\* session changes.
LEMMA Inserts ==
    ASSUME NEW s, Frame(s), NEW key \in DOMAIN s.lists, NEW item, ItemOK(item), NEW prev
    PROVE  LET t == InsertItem(s, key, item, prev)
           IN  /\ Frame(t) /\ DOMAIN t.lists = DOMAIN s.lists
               /\ \A f \in SessionFields \ {"lists", "view"} : t[f] = s[f]
<1> DEFINE old == s.lists[key].items
           places == {i \in DOMAIN old : Key(old[i]) = prev}
           new == InsertedAt(old, FirstPlace(places), item)
           InPlace(k) == /\ k = key /\ Len(s.view[k]) <= Len(old)
                         /\ Len(new) <= Capacity(Len(s.view[k]))
           lists == [s.lists EXCEPT ![key] = [s.lists[key] EXCEPT !.items = new]]
           view == [k \in DOMAIN s.view |-> IF InPlace(k) THEN SubSeq(new, 1, Len(s.view[k])) ELSE s.view[k]]
           t == InsertItem(s, key, item, prev)
<1>1. t = [s EXCEPT !.lists = lists, !.view = view]
  BY DEF InsertItem, First, FirstPlace
<1>2. ListOK(s.lists[key]) /\ ItemsOK(old) /\ IsSeq(old)
  BY DEF Frame, ListOK, ItemsOK
<1> HIDE DEF old
<1>3. FirstPlace(places) \in 0 .. Len(old)
  BY <1>2, FirstIn
<1> HIDE DEF places
<1>4. ItemsOK(new) /\ Len(new) = Len(old) + 1
  BY <1>2, <1>3, ItemsInserted
<1> HIDE DEF new
<1>5. ListOK([s.lists[key] EXCEPT !.items = new])
  BY <1>2, <1>4, WithItems
<1>6. DOMAIN lists = DOMAIN s.lists /\ \A k \in DOMAIN lists : ListOK(lists[k])
  BY <1>5 DEF Frame
<1>7. ASSUME NEW k \in DOMAIN view PROVE ItemsOK(view[k])
  <2>1. ItemsOK(s.view[k]) /\ IsSeq(s.view[k]) /\ Len(s.view[k]) \in Nat
    BY SeqOf DEF Frame, ItemsOK
  <2>2. CASE InPlace(k)
    <3>1. view[k] = SubSeq(new, 1, Len(s.view[k]))
      BY <2>2
    <3>2. Len(s.view[k]) \in 0 .. Len(new) /\ IsSeq(new) /\ \A j \in DOMAIN new : ItemOK(new[j])
      <4>1. Len(old) \in Nat
        BY <1>2, SeqOf
      <4> QED
        BY <1>4, <2>1, <2>2, <4>1 DEF ItemsOK
    <3> HIDE DEF view
    <3>3. IsSeq(view[k]) /\ \A j \in DOMAIN view[k] : \E i \in DOMAIN new : view[k][j] = new[i]
      BY <3>1, <3>2, Fronts
    <3> QED
      BY <3>2, <3>3 DEF ItemsOK
  <2>3. CASE ~InPlace(k)
    BY <2>1, <2>3
  <2> QED
    BY <2>2, <2>3
<1> HIDE DEF lists, view, t
<1>8. /\ DOMAIN t = SessionFields /\ t.lists = lists /\ t.view = view
      /\ \A f \in SessionFields \ {"lists", "view"} : t[f] = s[f]
  BY <1>1 DEF Frame, SessionFields, Session
<1>9. Frame(t)
  BY <1>1, <1>6, <1>7 DEF Frame, SessionFields, Session
<1>10. /\ Frame(t) /\ DOMAIN t.lists = DOMAIN s.lists
       /\ \A f \in SessionFields \ {"lists", "view"} : t[f] = s[f]
  BY <1>6, <1>8, <1>9
<1> QED
  BY <1>10 DEF t

\* An item that was created is recorded under its key before the next one is looked
\* at, so that every item up to there is found.
LEMMA Adds ==
    ASSUME GoodSession(ss), Adding(ss), NEW k \in DOMAIN ss.cur.items,
           NEW item, ItemOK(item), Key(item) # Nil,
           \A j \in DOMAIN ss.cur.items :
              j < k /\ ss.cur.items[j].status # "deleted" => Key(ss.cur.items[j]) \in DOMAIN ss.items
    PROVE  GoodSession(Added(ss, k, item))
<1> DEFINE items == [ss.cur.items EXCEPT ![k] = item]
           c == [ss.cur EXCEPT !.items = items]
           map == Put(ss.items, Key(item), item)
           known == [ss EXCEPT !.cur = c, !.items = map]
           t == InsertItem(known, Key(ss.cur), item, Previous(k))
           s == Added(ss, k, item)
<1>1. s = [t EXCEPT !.at = "create item", !.ii = k + 1, !.changed = TRUE]
  BY DEF Added
<1>2. /\ Frame(ss) /\ ListOK(ss.cur) /\ ss.li # Len(ss.src) + 1
      /\ Key(ss.cur) \in DOMAIN ss.lists
  BY DEF GoodSession, Where, InList, KeyIn, Key
<1>3. ItemsOK(ss.cur.items)
  BY <1>2 DEF ListOK
<1>4. /\ DOMAIN ss.cur.items = 1 .. Len(ss.cur.items) /\ Len(ss.cur.items) \in Nat
      /\ k \in Nat /\ k + 1 \in Nat \ {0}
  <2>1. IsSeq(ss.cur.items)
    BY <1>3 DEF ItemsOK
  <2>2. DOMAIN ss.cur.items = 1 .. Len(ss.cur.items) /\ Len(ss.cur.items) \in Nat
    BY <2>1, SeqOf
  <2> QED
    BY <2>2
<1>5. /\ ItemsOK(items) /\ DOMAIN items = DOMAIN ss.cur.items
      /\ items[k] = item /\ \A j \in DOMAIN items : j # k => items[j] = ss.cur.items[j]
  <2>1. ItemsOK(items)
    BY <1>3, ItemReplaced
  <2> QED
    BY <2>1
<1> HIDE DEF items
<1>6. ListOK(c) /\ c.items = items /\ c.id = ss.cur.id /\ c.ext = ss.cur.ext
  BY <1>2, <1>5, WithItems DEF ListOK, ListFields
<1> HIDE DEF c
<1>7. DOMAIN map = DOMAIN ss.items \cup {Key(item)} /\ Nil \notin DOMAIN map
  BY <1>2 DEF Put, Frame
<1> HIDE DEF map
<1>8. Frame(known)
  BY <1>2, <1>7 DEF Frame, SessionFields, Session
<1>9. /\ known.cur = c /\ known.items = map /\ known.lists = ss.lists
      /\ known.remote = ss.remote /\ known.li = ss.li /\ known.src = ss.src
  BY <1>2 DEF Frame, SessionFields, Session
<1> HIDE DEF known
<1>10. /\ Frame(t) /\ DOMAIN t.lists = DOMAIN ss.lists
       /\ \A f \in SessionFields \ {"lists", "view"} : t[f] = known[f]
  BY <1>2, <1>8, <1>9, Inserts
<1> HIDE DEF t
<1>11. /\ t.cur = c /\ t.items = map /\ t.remote = ss.remote /\ t.li = ss.li /\ t.src = ss.src
  BY <1>9, <1>10 DEF SessionFields, Session
<1> HIDE DEF s
<1>12. Frame(s)
  BY <1>1, <1>4, <1>10 DEF Frame, SessionFields, Session
<1>13. /\ s.at = "create item" /\ s.ii = k + 1 /\ s.cur = c /\ s.items = map
       /\ s.lists = t.lists /\ s.remote = ss.remote /\ s.li = ss.li /\ s.src = ss.src
  BY <1>1, <1>10, <1>11 DEF Frame, SessionFields, Session
<1>14. KeyIn(s, s.cur) \in DOMAIN s.lists
  BY <1>2, <1>6, <1>10, <1>13 DEF KeyIn, Key
<1>15. ASSUME NEW j \in DOMAIN s.cur.items, Handled(s, j)
       PROVE  KeyIn(s, s.cur.items[j]) \in DOMAIN s.items
  <2>0. j \in DOMAIN items /\ s.cur.items[j] = items[j]
    BY <1>6, <1>13
  <2>1. j \in DOMAIN items /\ j \in Nat /\ s.cur.items[j] = items[j]
    BY <1>4, <1>5, <2>0
  <2>2. j < k + 1 /\ items[j].status # "deleted"
    BY <1>13, <1>15, <2>1 DEF Handled, Updating
  <2>3. KeyIn(s, s.cur.items[j]) = Key(items[j])
    BY <1>13, <2>1 DEF KeyIn, Key
  <2>4. CASE j = k
    BY <1>5, <1>7, <1>13, <2>3, <2>4
  <2>5. CASE j # k
    <3>1. j < k
      BY <1>4, <2>1, <2>2, <2>5
    <3> QED
      BY <1>5, <1>7, <1>13, <2>1, <2>2, <2>3, <2>5, <3>1
  <2> QED
    BY <2>4, <2>5
<1>16. Where(s)
  BY <1>2, <1>6, <1>13, <1>14, <1>15 DEF Where, InList, Adding, Updating
<1> QED
  BY <1>12, <1>16 DEF GoodSession, s

\* The destination creates the first item that it has not got, or all of the list are
\* there and the update follows.
LEMMA CreatesItem ==
    ASSUME WorldOK, GoodSession(ss), CreateItem
    PROVE  WorldOK' /\ GoodSession(ss')
<1> DEFINE todo == {j \in ss.ii .. Len(ss.cur.items) :
                      ss.cur.items[j].status # "deleted" /\ Missing(ss.cur.items[j])}
           k == IF todo = {} THEN Len(ss.cur.items) + 1 ELSE CHOOSE i \in todo : \A j \in todo : i <= j
           through == [ss EXCEPT !.at = "update list"]
           item == [ss.cur.items[k] EXCEPT !.status = IF @ = "open" THEN "not_started" ELSE @]
           r == CallCreateItem(Destination, item, Previous(k))
           items == [ss.cur.items EXCEPT ![k] = r.item]
           c == [ss.cur EXCEPT !.items = items]
           there == [ss EXCEPT !.at = "backfill item", !.ii = k, !.cur.items[k] = r.item]
           s == IF Key(ss.cur.items[k]) # Nil THEN Added(ss, k, r.item) ELSE there
<1>1. /\ ss.at = "create item"
      /\ IF k > Len(ss.cur.items) THEN Silently(through) ELSE Proceed(Destination, r, s)
  <2>1. k = NextItem(Missing)
    BY DEF NextItem
  <2> HIDE DEF k
  <2> QED
    BY <2>1 DEF CreateItem, ItemCreated
<1>2. /\ Frame(ss) /\ ListOK(ss.cur) /\ ss.li # Len(ss.src) + 1
      /\ KeyIn(ss, ss.cur) \in DOMAIN ss.lists
      /\ \A j \in DOMAIN ss.cur.items :
            j < ss.ii /\ ss.cur.items[j].status # "deleted" => KeyIn(ss, ss.cur.items[j]) \in DOMAIN ss.items
  BY <1>1 DEF GoodSession, Where, InList, Adding, Handled
<1>3. ItemsOK(ss.cur.items) /\ IsSeq(ss.cur.items)
  BY <1>2 DEF ListOK, ItemsOK
<1>4. /\ DOMAIN ss.cur.items = 1 .. Len(ss.cur.items) /\ Len(ss.cur.items) \in Nat
      /\ ss.ii \in Nat \ {0}
  BY <1>2, <1>3, SeqOf DEF Frame
<1>5. todo \in SUBSET DOMAIN ss.cur.items /\ todo \in SUBSET Nat
  BY <1>4
<1>6. todo # {} => k \in todo /\ \A j \in todo : k <= j
  BY <1>5, Least
<1>7. ASSUME NEW j \in DOMAIN ss.cur.items, ss.cur.items[j].status # "deleted", j \notin todo
      PROVE  KeyIn(ss, ss.cur.items[j]) \in DOMAIN ss.items
  <2>1. CASE j < ss.ii
    BY <1>2, <1>7, <2>1
  <2>2. CASE ~(j < ss.ii)
    <3>1. j \in ss.ii .. Len(ss.cur.items)
      BY <1>4, <2>2
    <3>2. Key(ss.cur.items[j]) \in DOMAIN ss.items
      BY <1>7, <3>1 DEF Missing
    <3> QED
      BY <3>2 DEF Key, KeyIn
  <2> QED
    BY <2>1, <2>2
<1>8. CASE todo = {}
  <2>0. k = Len(ss.cur.items) + 1
    BY <1>8
  <2> HIDE DEF k, todo, through
  <2>1. Silently(through)
    <3>1. k > Len(ss.cur.items)
      BY <1>4, <2>0
    <3> QED
      BY <1>1, <3>1
  <2> USE DEF through
  <2>2. /\ Frame(through) /\ through.at = "update list" /\ through.cur = ss.cur /\ through.items = ss.items
        /\ through.lists = ss.lists /\ through.remote = ss.remote /\ through.li = ss.li /\ through.src = ss.src
    BY <1>2 DEF Frame, SessionFields, Session
  <2> HIDE DEF through
  <2>3. KeyIn(through, through.cur) \in DOMAIN through.lists
    BY <1>2, <2>2 DEF KeyIn
  <2>4. ASSUME NEW j \in DOMAIN through.cur.items, Handled(through, j)
        PROVE  KeyIn(through, through.cur.items[j]) \in DOMAIN through.items
    <3>1. j \in DOMAIN ss.cur.items /\ ss.cur.items[j].status # "deleted"
      BY <2>2, <2>4 DEF Handled
    <3>2. KeyIn(ss, ss.cur.items[j]) \in DOMAIN ss.items
      BY <1>7, <1>8, <3>1
    <3> QED
      BY <2>2, <3>2 DEF KeyIn
  <2>5. GoodSession(through)
    BY <1>2, <2>2, <2>3, <2>4 DEF GoodSession, Where, InList, Adding, Updating
  <2> QED
    BY <2>1, <2>5, Staying
<1>9. CASE todo # {}
  <2>1. k \in todo /\ k \in DOMAIN ss.cur.items /\ \A j \in todo : k <= j
    BY <1>5, <1>6, <1>9
  <2> HIDE DEF k
  <2>2. k \in Nat \ {0} /\ ~(k > Len(ss.cur.items))
    BY <1>4, <2>1
  <2>3. Proceed(Destination, r, s)
    BY <1>1, <2>2 DEF k
  <2>4. ItemOK(ss.cur.items[k])
    BY <1>3, <2>1 DEF ItemsOK
  <2>5. ItemOK(item) /\ item.id = ss.cur.items[k].id /\ item.ext = ss.cur.items[k].ext
    BY <2>4 DEF ItemOK, ItemFields, Statuses
  <2> HIDE DEF item
  <2>6. Destination \in Providers
    BY <1>2, Sides
  <2>7. /\ Answer(Destination, r)
        /\ r.result = "ok" =>
              /\ ItemOK(r.item)
              /\ Destination # "google_tasks" => r.item.ext = item.ext
              /\ Destination = "google_tasks" => r.item.ext # Nil
              /\ item.id # Nil => r.item.id = item.id
    BY <2>5, <2>6, CallsCreateItem
  <2> HIDE DEF r
  <2>8. ASSUME NEW j \in DOMAIN ss.cur.items, j < k, ss.cur.items[j].status # "deleted"
        PROVE  KeyIn(ss, ss.cur.items[j]) \in DOMAIN ss.items
    <3>1. j \notin todo
      <4>1. j \in Nat
        BY <1>4
      <4> HIDE DEF todo
      <4> QED
        BY <2>1, <2>2, <2>8, <4>1
    <3> QED
      BY <1>7, <2>8, <3>1
  <2>9. ASSUME r.result = "ok", Key(ss.cur.items[k]) # Nil
        PROVE  GoodSession(Added(ss, k, r.item))
    <3>1. Key(r.item) # Nil
      BY <2>5, <2>7, <2>9 DEF Key
    <3>2. Adding(ss)
      BY <1>1 DEF Adding
    <3>3. \A j \in DOMAIN ss.cur.items :
             j < k /\ ss.cur.items[j].status # "deleted" => Key(ss.cur.items[j]) \in DOMAIN ss.items
      BY <2>8 DEF Key, KeyIn
    <3> QED
      BY <2>1, <2>7, <2>9, <3>1, <3>2, <3>3, Adds
  <2>10. ASSUME r.result = "ok" PROVE GoodSession(there)
    <3>1. /\ ItemsOK(items) /\ DOMAIN items = DOMAIN ss.cur.items
          /\ items[k] = r.item /\ \A j \in DOMAIN items : j # k => items[j] = ss.cur.items[j]
      <4>1. ItemsOK(items)
        BY <1>3, <2>1, <2>7, <2>10, ItemReplaced
      <4> QED
        BY <2>1, <4>1
    <3>0. there = [ss EXCEPT !.at = "backfill item", !.ii = k, !.cur = c]
      <4> HIDE DEF r
      <4> QED
        OBVIOUS
    <3> HIDE DEF items
    <3>2. ListOK(c) /\ c.items = items /\ c.id = ss.cur.id /\ c.ext = ss.cur.ext
      BY <1>2, <3>1, WithItems DEF ListOK, ListFields
    <3> HIDE DEF c
    <3> HIDE DEF there
    <3>3. Frame(there)
      BY <1>2, <2>2, <3>0 DEF Frame, SessionFields, Session
    <3>4. /\ there.at = "backfill item" /\ there.ii = k /\ there.cur = c /\ there.items = ss.items
          /\ there.lists = ss.lists /\ there.remote = ss.remote /\ there.li = ss.li /\ there.src = ss.src
          /\ there.direction = ss.direction
      BY <1>2, <3>0 DEF Frame, SessionFields, Session
    <3>5. KeyIn(there, there.cur) \in DOMAIN there.lists
      BY <1>2, <3>2, <3>4 DEF KeyIn
    <3>6. ASSUME NEW j \in DOMAIN there.cur.items, Handled(there, j)
          PROVE  KeyIn(there, there.cur.items[j]) \in DOMAIN there.items
      <4>0. j \in DOMAIN items /\ there.cur.items[j] = items[j]
        BY <3>2, <3>4
      <4>1. j \in DOMAIN items /\ j \in Nat /\ there.cur.items[j] = items[j]
        BY <1>4, <3>1, <4>0
      <4>2. j < k /\ items[j].status # "deleted"
        BY <3>4, <3>6, <4>1 DEF Handled, Updating
      <4>3. j # k
        BY <2>2, <4>1, <4>2
      <4>4. KeyIn(ss, ss.cur.items[j]) \in DOMAIN ss.items
        BY <2>8, <3>1, <4>1, <4>2, <4>3
      <4>5. KeyIn(there, there.cur.items[j]) = KeyIn(ss, ss.cur.items[j])
        BY <3>1, <3>4, <4>1, <4>3 DEF KeyIn
      <4> QED
        BY <3>4, <4>4, <4>5
    <3>7. there.direction = "push" /\ there.remote = "google_tasks" => there.cur.items[there.ii].ext # Nil
      BY <2>7, <2>10, <3>1, <3>2, <3>4 DEF Destination
    <3>8. there.ii \in DOMAIN there.cur.items
      BY <2>1, <3>1, <3>2, <3>4
    <3>10. Where(there)
      BY <1>2, <3>2, <3>4, <3>5, <3>6, <3>7, <3>8 DEF Where, InList, Adding, Updating
    <3> QED
      BY <3>3, <3>10 DEF GoodSession
  <2> HIDE DEF there
  <2>11. r.result = "ok" => GoodSession(s)
    BY <2>9, <2>10
  <2> HIDE DEF s
  <2> QED
    BY <1>2, <2>3, <2>6, <2>7, <2>11, Proceeding
<1> QED
  BY <1>8, <1>9

\* The source is given the external id of the item that Google Tasks created.
LEMMA BackfillsItem ==
    ASSUME WorldOK, GoodSession(ss), BackfillItem
    PROVE  WorldOK' /\ GoodSession(ss')
<1> DEFINE k == ss.ii
           item == ss.cur.items[k]
           r == CallUpdateItem(Source, item)
           s == Added(ss, k, r.item)
<1>1. ss.at = "backfill item" /\ Proceed(Source, r, s)
  BY DEF BackfillItem, ItemBackfilled
<1>2. /\ Frame(ss) /\ ListOK(ss.cur) /\ k \in DOMAIN ss.cur.items
      /\ ss.direction = "push" /\ ss.remote = "google_tasks" => item.ext # Nil
      /\ \A j \in DOMAIN ss.cur.items :
            j < k /\ ss.cur.items[j].status # "deleted" => KeyIn(ss, ss.cur.items[j]) \in DOMAIN ss.items
  BY <1>1 DEF GoodSession, Where, InList, Adding, Handled
<1>3. Source \in Providers
  BY <1>2, Sides
<1>4. ItemOK(item)
  BY <1>2 DEF ListOK, ItemsOK
<1>5. /\ Answer(Source, r)
      /\ r.result = "ok" =>
            /\ ItemOK(r.item) /\ r.item.ext = item.ext
            /\ Source = "google_tasks" => r.item.ext # Nil
            /\ Source # "google_tasks" => r.item.id # Nil
  BY <1>3, <1>4, CallsUpdateItem
<1> HIDE DEF r
<1>6. ASSUME r.result = "ok" PROVE GoodSession(s)
  <2>1. Key(r.item) # Nil
    <3>1. CASE ss.remote = "markdown"
      <4>1. Source # "google_tasks"
        BY <3>1 DEF Source
      <4> QED
        BY <1>5, <1>6, <3>1, <4>1 DEF Key
    <3>2. CASE ss.remote = "google_tasks"
      <4>1. ss.direction = "pull" => Source = "google_tasks"
        BY <3>2 DEF Source
      <4>2. ss.direction \in {"pull", "push"}
        BY <1>2 DEF Frame
      <4>3. r.item.ext # Nil
        BY <1>2, <1>5, <1>6, <3>2, <4>1, <4>2
      <4> QED
        BY <3>2, <4>3 DEF Key
    <3> QED
      BY <1>2, <3>1, <3>2, Sides
  <2>2. Adding(ss)
    BY <1>1 DEF Adding
  <2>3. \A j \in DOMAIN ss.cur.items :
           j < k /\ ss.cur.items[j].status # "deleted" => Key(ss.cur.items[j]) \in DOMAIN ss.items
    BY <1>2 DEF Key, KeyIn
  <2> QED
    BY <1>2, <1>5, <1>6, <2>1, <2>2, <2>3, Adds
<1> HIDE DEF s
<1> QED
  BY <1>1, <1>2, <1>3, <1>5, <1>6, Proceeding

-----------------------------------------------------------------------------
(* The update phase. *)

\* The items of a list that are not deleted.
LEMMA LiveItems ==
    ASSUME NEW items, ItemsOK(items)
    PROVE  ItemsOK(Live(items))
<1> DEFINE T == {items[k] : k \in DOMAIN items}
           S == {k \in DOMAIN items : items[k].status # "deleted"}
<1>1. items \in Seq(T) /\ \A x \in T : ItemOK(x)
  BY SeqOf DEF ItemsOK
<1>2. S \in SUBSET DOMAIN items
  OBVIOUS
<1>3. Live(items) = Selected(items, S)
  BY DEF Live
<1> HIDE DEF T, S
<1>4. Live(items) \in Seq(T)
  BY <1>1, <1>2, <1>3, SelectedProperties
<1>5. IsSeq(Live(items)) /\ \A k \in DOMAIN Live(items) : Live(items)[k] \in T
  BY <1>4, SeqIn
<1> QED
  BY <1>1, <1>5 DEF ItemsOK

\* syncListUpdate looks up every live item of the list in the map of the destination,
\* each of which is found, and updates the list if it differs.
LEMMA UpdatesList ==
    ASSUME WorldOK, GoodSession(ss), UpdateList
    PROVE  WorldOK' /\ GoodSession(ss')
<1> DEFINE current == ss.lists[Key(ss.cur)]
           There(i) == [i EXCEPT !.list = ss.items[Key(i)].list, !.xlist = ss.items[Key(i)].xlist]
           live == Live(ss.cur.items)
           items == [k \in DOMAIN live |-> There(live[k])]
           list == [ss.cur EXCEPT !.items = items]
           next == [ss EXCEPT !.at = "update item", !.ii = 1]
           changed == [next EXCEPT !.changed = TRUE]
           r == CallUpdateList(Destination, list, current)
<1>1. /\ ss.at = "update list"
      /\ IF ListDiffers THEN Proceed(Destination, r, changed) ELSE Silently(next)
  BY DEF UpdateList
<1>2. /\ Frame(ss) /\ ListOK(ss.cur) /\ ss.li # Len(ss.src) + 1
      /\ KeyIn(ss, ss.cur) \in DOMAIN ss.lists
      /\ \A j \in DOMAIN ss.cur.items : ss.cur.items[j].status # "deleted" =>
            KeyIn(ss, ss.cur.items[j]) \in DOMAIN ss.items
  BY <1>1 DEF GoodSession, Where, InList, Updating, Handled
<1>3. ItemsOK(live)
  BY <1>2, LiveItems DEF ListOK
<1> HIDE DEF live, current
<1>4. ItemsOK(items)
  <2>1. \A k \in DOMAIN live : ItemOK(There(live[k]))
    BY <1>3 DEF ItemsOK, ItemOK, ItemFields
  <2> HIDE DEF There
  <2>2. items = [k \in DOMAIN live |-> items[k]] /\ \A k \in DOMAIN live : ItemOK(items[k])
    BY <2>1
  <2> HIDE DEF items
  <2> QED
    BY <1>3, <2>2, Mapped DEF ItemsOK
<1> HIDE DEF items
<1>5. ListOK(list)
  BY <1>2, <1>4, WithItems
<1> HIDE DEF list
<1>6. Destination \in Providers
  BY <1>2, Sides
<1>7. Answer(Destination, r)
  BY <1>5, <1>6, CallsUpdateList
<1> HIDE DEF r
<1>8. ASSUME NEW s, s \in {next, changed} PROVE GoodSession(s)
  <2>1. /\ Frame(s) /\ s.at = "update item" /\ s.cur = ss.cur /\ s.items = ss.items
        /\ s.lists = ss.lists /\ s.remote = ss.remote /\ s.li = ss.li /\ s.src = ss.src
    <3>1. CASE s = next
      BY <1>2, <3>1 DEF Frame, SessionFields, Session
    <3>2. CASE s = changed
      BY <1>2, <3>2 DEF Frame, SessionFields, Session
    <3> QED
      BY <1>8, <3>1, <3>2
  <2> HIDE DEF next, changed
  <2>2. KeyIn(s, s.cur) \in DOMAIN s.lists
    BY <1>2, <2>1 DEF KeyIn
  <2>3. \A j \in DOMAIN s.cur.items : Handled(s, j) => KeyIn(s, s.cur.items[j]) \in DOMAIN s.items
    BY <1>2, <2>1 DEF Handled, KeyIn
  <2> QED
    BY <1>2, <2>1, <2>2, <2>3 DEF GoodSession, Where, InList, Adding, Updating
<1> HIDE DEF changed, next
<1> QED
  BY <1>1, <1>2, <1>6, <1>7, <1>8, Proceeding, Staying

\* updateItem of the Syncer gives an open item a status that it keeps, and changes
\* nothing else of it.
LEMMA Preserves ==
    ASSUME NEW item, ItemOK(item), NEW status
    PROVE  /\ ItemOK(Preserving(item, status))
           /\ Preserving(item, status).id = item.id /\ Preserving(item, status).ext = item.ext
  BY DEF Preserving, ItemOK, ItemFields, Statuses

\* syncListUpdate is through with the items of the list.
LEMMA ItemsAreDone ==
    ASSUME Frame(ss), ListOK(ss.cur), ss.li # Len(ss.src) + 1
    PROVE  GoodSession(ItemsDone)
<1> DEFINE items == [k \in DOMAIN ss.cur.items |-> Linked(ss.cur.items[k])]
           src == [ss.src EXCEPT ![ss.li] = [ss.src[ss.li] EXCEPT !.items = items]]
           t == [ss EXCEPT !.src = src]
<1>0. ItemsDone = NextList(t)
  BY DEF ItemsDone
<1>1. IsSeq(ss.cur.items) /\ \A k \in DOMAIN ss.cur.items : ItemOK(ss.cur.items[k])
  BY DEF ListOK, ItemsOK
<1>2. ItemsOK(items)
  <2>1. \A k \in DOMAIN ss.cur.items : ItemOK(items[k])
    BY <1>1 DEF Linked, ItemOK, ItemFields
  <2>2. items = [k \in DOMAIN ss.cur.items |-> items[k]]
    OBVIOUS
  <2> HIDE DEF items
  <2> QED
    BY <1>1, <2>1, <2>2, Mapped DEF ItemsOK
<1> HIDE DEF items
<1>3. Len(ss.src) \in Nat /\ DOMAIN ss.src = 1 .. Len(ss.src) /\ ListsOK(ss.src)
  BY SeqOf DEF Frame, ListsOK
<1>4. ss.li \in DOMAIN ss.src
  <2>1. ss.li \in 1 .. Len(ss.src) + 1
    BY DEF Frame
  <2> QED
    BY <1>3, <2>1
<1>5. ListOK([ss.src[ss.li] EXCEPT !.items = items])
  <2>1. ListOK(ss.src[ss.li])
    BY <1>3, <1>4 DEF ListsOK
  <2> QED
    BY <1>2, <2>1, WithItems
<1>6. ListsOK(src) /\ Len(src) = Len(ss.src)
  BY <1>3, <1>4, <1>5, ListReplaced
<1> HIDE DEF src
<1>7. Frame(t) /\ t.src = src /\ t.li = ss.li
  BY <1>6 DEF Frame, SessionFields, Session
<1> HIDE DEF t
<1> QED
  BY <1>0, <1>6, <1>7, NextIsGood

\* syncListUpdate updates the next item that differs: both lookups find it.
LEMMA UpdatesItem ==
    ASSUME WorldOK, GoodSession(ss), UpdateItem
    PROVE  WorldOK' /\ GoodSession(ss')
<1> DEFINE todo == {j \in ss.ii .. Len(ss.cur.items) :
                      ss.cur.items[j].status # "deleted" /\ ItemDiffers(ss.cur.items[j])}
           k == IF todo = {} THEN Len(ss.cur.items) + 1 ELSE CHOOSE i \in todo : \A j \in todo : i <= j
           item == ss.cur.items[k]
           sent == Preserving(item, ss.items[Key(item)].status)
           r == CallUpdateItem(Destination, sent)
           items == [ss.cur.items EXCEPT ![k] = r.item]
           c == [ss.cur EXCEPT !.items = items]
           s == [ss EXCEPT !.ii = k + 1, !.cur.items[k] = r.item, !.changed = TRUE]
<1>1. /\ ss.at = "update item"
      /\ IF k > Len(ss.cur.items) THEN Silently(ItemsDone) ELSE Proceed(Destination, r, s)
  <2>1. k = NextItem(ItemDiffers)
    BY DEF NextItem
  <2> HIDE DEF k
  <2> QED
    BY <2>1 DEF UpdateItem, ItemUpdated
<1>2. /\ Frame(ss) /\ ListOK(ss.cur) /\ ss.li # Len(ss.src) + 1
      /\ KeyIn(ss, ss.cur) \in DOMAIN ss.lists
      /\ \A j \in DOMAIN ss.cur.items : ss.cur.items[j].status # "deleted" =>
            KeyIn(ss, ss.cur.items[j]) \in DOMAIN ss.items
  BY <1>1 DEF GoodSession, Where, InList, Updating, Handled
<1>3. ItemsOK(ss.cur.items) /\ IsSeq(ss.cur.items)
  BY <1>2 DEF ListOK, ItemsOK
<1>4. /\ DOMAIN ss.cur.items = 1 .. Len(ss.cur.items) /\ Len(ss.cur.items) \in Nat
      /\ ss.ii \in Nat \ {0}
  BY <1>2, <1>3, SeqOf DEF Frame
<1>5. todo \in SUBSET DOMAIN ss.cur.items /\ todo \in SUBSET Nat
  BY <1>4
<1>6. todo # {} => k \in todo
  BY <1>5, Least
<1>7. CASE k > Len(ss.cur.items)
  <2>1. Silently(ItemsDone)
    BY <1>1, <1>7
  <2>2. GoodSession(ItemsDone)
    BY <1>2, ItemsAreDone
  <2> QED
    BY <2>1, <2>2, Staying
<1>8. CASE ~(k > Len(ss.cur.items))
  <2>1. k \in todo /\ k \in DOMAIN ss.cur.items
    <3>1. todo # {}
      <4>1. todo = {} => k = Len(ss.cur.items) + 1
        OBVIOUS
      <4> HIDE DEF k, todo
      <4> QED
        BY <1>4, <1>8, <4>1
    <3> QED
      BY <1>5, <1>6, <3>1
  <2>2. item.status # "deleted"
    BY <2>1
  <2> HIDE DEF k
  <2>3. k + 1 \in Nat \ {0}
    BY <1>4, <2>1
  <2>4. Proceed(Destination, r, s)
    BY <1>1, <1>8
  <2>5. ItemOK(item) /\ KeyIn(ss, item) \in DOMAIN ss.items
    BY <1>2, <1>3, <2>1, <2>2 DEF ItemsOK
  <2>6. ItemOK(sent) /\ sent.id = item.id /\ sent.ext = item.ext
    BY <2>5, Preserves
  <2> HIDE DEF sent
  <2>7. Destination \in Providers
    BY <1>2, Sides
  <2>8. /\ Answer(Destination, r)
        /\ r.result = "ok" =>
              /\ ItemOK(r.item) /\ r.item.ext = sent.ext
              /\ sent.id # Nil => r.item.id = sent.id
    BY <2>6, <2>7, CallsUpdateItem
  <2> HIDE DEF r
  <2>9. ASSUME r.result = "ok" PROVE GoodSession(s)
    <3>1. KeyIn(ss, r.item) \in DOMAIN ss.items
      <4>1. KeyIn(ss, item) # Nil
        BY <1>2, <2>5 DEF Frame
      <4>2. KeyIn(ss, r.item) = KeyIn(ss, item)
        BY <2>6, <2>8, <2>9, <4>1 DEF KeyIn
      <4> QED
        BY <2>5, <4>2
    <3>2. /\ ItemsOK(items) /\ DOMAIN items = DOMAIN ss.cur.items
          /\ items[k] = r.item /\ \A j \in DOMAIN items : j # k => items[j] = ss.cur.items[j]
      <4>1. ItemsOK(items)
        BY <1>3, <2>1, <2>8, <2>9, ItemReplaced
      <4> QED
        BY <2>1, <4>1
    <3>3. s = [ss EXCEPT !.ii = k + 1, !.cur = c, !.changed = TRUE]
      OBVIOUS
    <3> HIDE DEF items
    <3>4. ListOK(c) /\ c.items = items /\ c.id = ss.cur.id /\ c.ext = ss.cur.ext
      BY <1>2, <3>2, WithItems DEF ListOK, ListFields
    <3> HIDE DEF c, s
    <3>5. Frame(s)
      BY <1>2, <2>3, <3>3 DEF Frame, SessionFields, Session
    <3>6. /\ s.at = "update item" /\ s.cur = c /\ s.items = ss.items
          /\ s.lists = ss.lists /\ s.remote = ss.remote /\ s.li = ss.li /\ s.src = ss.src
      BY <1>1, <1>2, <3>3 DEF Frame, SessionFields, Session
    <3>7. KeyIn(s, s.cur) \in DOMAIN s.lists
      BY <1>2, <3>4, <3>6 DEF KeyIn
    <3>8. ASSUME NEW j \in DOMAIN s.cur.items, Handled(s, j)
          PROVE  KeyIn(s, s.cur.items[j]) \in DOMAIN s.items
      <4>1. j \in DOMAIN items /\ s.cur.items[j] = items[j] /\ items[j].status # "deleted"
        BY <3>4, <3>6, <3>8 DEF Handled
      <4>2. KeyIn(ss, items[j]) \in DOMAIN ss.items
        BY <1>2, <3>1, <3>2, <4>1
      <4> QED
        BY <3>6, <4>1, <4>2 DEF KeyIn
    <3> QED
      BY <1>2, <3>4, <3>5, <3>6, <3>7, <3>8 DEF GoodSession, Where, InList, Adding, Updating
  <2> HIDE DEF s
  <2> QED
    BY <1>2, <2>4, <2>7, <2>8, <2>9, Proceeding
<1> QED
  BY <1>7, <1>8

\* The project links of next actions.
LEMMA Links ==
    ASSUME WorldOK, GoodSession(ss), Link
    PROVE  WorldOK' /\ GoodSession(ss')
<1> DEFINE list == ss.src[ss.li]
           todo == {k \in Unlinked(list) : k >= ss.ii}
           k == CHOOSE x \in todo : \A y \in todo : x <= y
           item == list.items[k]
           there == IF Key(item) \in DOMAIN ss.items THEN ss.items[Key(item)].status ELSE "none"
           r == CallUpdateItem(Destination, Preserving(item, there))
           last == [ss EXCEPT !.at = "delete"]
           next == [ss EXCEPT !.li = @ + 1, !.ii = 1]
           more == [ss EXCEPT !.ii = k + 1]
<1>1. /\ ss.at = "link"
      /\ IF ss.li > Len(ss.src) THEN Silently(last)
         ELSE IF todo = {} THEN Silently(next) ELSE Proceed(Destination, r, more)
  BY DEF Link
<1>2. Frame(ss)
  BY DEF GoodSession
<1>3. Len(ss.src) \in Nat /\ DOMAIN ss.src = 1 .. Len(ss.src)
  BY <1>2, SeqOf DEF Frame, ListsOK
<1>4. CASE ss.li > Len(ss.src)
  <2>1. Frame(last) /\ last.at = "delete"
    BY <1>2 DEF Frame, SessionFields, Session
  <2>2. Silently(last)
    BY <1>1, <1>4
  <2> HIDE DEF last
  <2>3. GoodSession(last)
    BY <2>1 DEF GoodSession, Where, InList, Adding, Updating
  <2> QED
    BY <2>2, <2>3, Staying
<1>5. CASE ~(ss.li > Len(ss.src))
  <2>0. ss.li \in 1 .. Len(ss.src) + 1
    BY <1>2 DEF Frame
  <2>1. ss.li \in DOMAIN ss.src /\ ss.li + 1 \in 1 .. Len(ss.src) + 1
    BY <1>3, <1>5, <2>0
  <2>2. ListOK(list) /\ ItemsOK(list.items)
    BY <1>2, <2>1 DEF Frame, ListsOK, ListOK
  <2>3. CASE todo = {}
    <3>0. Silently(next)
      BY <1>1, <1>5, <2>3
    <3> HIDE DEF todo
    <3>1. Frame(next) /\ next.at = "link"
      <4>1. ss.li + 1 \in 1 .. Len(ss.src) + 1 /\ ss.at = "link"
        BY <1>1, <2>1
      <4>2. next = [ss EXCEPT !.li = ss.li + 1, !.ii = 1]
        OBVIOUS
      <4> HIDE DEF next
      <4>3. Frame(next)
        BY <1>2, <4>1, <4>2 DEF Frame, SessionFields, Session
      <4>4. next.at = "link"
        BY <1>2, <4>1, <4>2 DEF Frame, SessionFields, Session
      <4> QED
        BY <4>3, <4>4
    <3>2. Silently(next)
      BY <3>0
    <3> HIDE DEF next
    <3>3. GoodSession(next)
      BY <3>1 DEF GoodSession, Where, InList, Adding, Updating
    <3> QED
      BY <3>2, <3>3, Staying
  <2>4. CASE todo # {}
    <3>1. IsSeq(list.items) /\ DOMAIN list.items = 1 .. Len(list.items) /\ Len(list.items) \in Nat
      BY <2>2, SeqOf DEF ItemsOK
    <3>2. todo \in SUBSET DOMAIN list.items
      BY DEF Unlinked
    <3>3. Proceed(Destination, r, more)
      BY <1>1, <1>5, <2>4
    <3> HIDE DEF todo, list
    <3>4. todo \in SUBSET Nat
      BY <3>1, <3>2
    <3>5. k \in todo
      BY <2>4, <3>4, Least
    <3> HIDE DEF k
    <3>6. k \in DOMAIN list.items /\ k + 1 \in Nat \ {0}
      BY <3>2, <3>4, <3>5
    <3>7. ItemOK(item)
      BY <2>2, <3>6 DEF ItemsOK
    <3> HIDE DEF item, there
    <3>8. ItemOK(Preserving(item, there)) /\ Destination \in Providers
      BY <1>2, <3>7, Preserves, Sides
    <3>9. Answer(Destination, r)
      BY <3>8, CallsUpdateItem
    <3> HIDE DEF r
    <3>10. Frame(more) /\ more.at = "link"
      BY <1>1, <1>2, <3>6 DEF Frame, SessionFields, Session
    <3> HIDE DEF more
    <3>11. GoodSession(more)
      BY <3>10 DEF GoodSession, Where, InList, Adding, Updating
    <3> QED
      BY <1>2, <3>3, <3>8, <3>9, <3>11, Proceeding
  <2> QED
    BY <2>3, <2>4
<1> QED
  BY <1>4, <1>5

-----------------------------------------------------------------------------
(* The deletion phase. *)

\* The deletion phase goes to the next list of the destination.
LEMMA NextDeletionIsGood ==
    ASSUME Frame(ss), ss.di # Len(ss.dst) + 1
    PROVE  GoodSession(NextDeletion(ss)) /\ GoodSession([NextDeletion(ss) EXCEPT !.changed = TRUE])
<1> DEFINE t == NextDeletion(ss)
           u == [t EXCEPT !.changed = TRUE]
<1>1. ss.di + 1 \in 1 .. Len(ss.dst) + 1
  <2>1. Len(ss.dst) \in Nat
    BY SeqOf DEF Frame, ListsOK
  <2>2. ss.di \in 1 .. Len(ss.dst) + 1
    BY DEF Frame
  <2> QED
    BY <2>1, <2>2
<1>2. Frame(t) /\ t.at = "delete"
  BY <1>1 DEF NextDeletion, Frame, SessionFields, Session
<1> HIDE DEF t
<1>3. Frame(u) /\ u.at = "delete"
  BY <1>2 DEF Frame, SessionFields, Session
<1> HIDE DEF u
<1>4. Where(t) /\ Where(u)
  BY <1>2, <1>3 DEF Where, InList, Adding, Updating
<1> QED
  BY <1>2, <1>3, <1>4 DEF GoodSession, t, u

\* The pass stays with the list, at the item k.
LEMMA StaysAt ==
    ASSUME Frame(ss), ss.di # Len(ss.dst) + 1, NEW k \in Nat \ {0}
    PROVE  /\ GoodSession([ss EXCEPT !.at = "purge item", !.dj = k])
           /\ ss.at = "delete" => GoodSession([ss EXCEPT !.dj = k, !.changed = TRUE])
           /\ GoodSession([ss EXCEPT !.at = "delete", !.dj = k, !.changed = TRUE])
<1> DEFINE u == [ss EXCEPT !.at = "purge item", !.dj = k]
           v == [ss EXCEPT !.dj = k, !.changed = TRUE]
           w == [ss EXCEPT !.at = "delete", !.dj = k, !.changed = TRUE]
<1>2. Frame(u) /\ u.at = "purge item" /\ u.di = ss.di /\ u.dst = ss.dst
  BY DEF Frame, SessionFields, Session
<1>3. Frame(v) /\ v.at = ss.at
  BY DEF Frame, SessionFields, Session
<1>4. Frame(w) /\ w.at = "delete"
  BY DEF Frame, SessionFields, Session
<1> HIDE DEF u, v, w
<1>6. GoodSession(u)
  BY <1>2 DEF GoodSession, Where, InList, Adding, Updating
<1>7. ss.at = "delete" => GoodSession(v)
  BY <1>3 DEF GoodSession, Where, InList, Adding, Updating
<1>8. GoodSession(w)
  BY <1>4 DEF GoodSession, Where, InList, Adding, Updating
<1> QED
  BY <1>6, <1>7, <1>8 DEF u, v, w

\* The list of the destination that the deletion phase looks at, with its items as
\* insertItem has left them in the shared array.
LEMMA InView ==
    ASSUME Frame(ss), ss.di # Len(ss.dst) + 1
    PROVE  ListOK(ss.dst[ss.di]) /\ ItemsOK(ItemsInView(ss.dst[ss.di]))
<1>1. Len(ss.dst) \in Nat /\ DOMAIN ss.dst = 1 .. Len(ss.dst)
  BY SeqOf DEF Frame, ListsOK
<1>2. ss.di \in 1 .. Len(ss.dst) + 1
  BY DEF Frame
<1>3. ss.di \in DOMAIN ss.dst
  BY <1>1, <1>2
<1>4. ListOK(ss.dst[ss.di])
  BY <1>3 DEF Frame, ListsOK
<1>5. ItemsOK(ss.dst[ss.di].items)
  BY <1>4 DEF ListOK
<1> QED
  BY <1>4, <1>5 DEF ItemsInView, Frame

\* The destination marks or deletes a list that the source has not got.
LEMMA DeletesList ==
    ASSUME WorldOK, Frame(ss), ss.di # Len(ss.dst) + 1, NEW list, ListOK(list), DeleteList(list)
    PROVE  WorldOK' /\ GoodSession(ss')
<1> DEFINE marked == [list EXCEPT !.status = "deleted"]
           next == [NextDeletion(ss) EXCEPT !.changed = TRUE]
           purge == [ss EXCEPT !.at = "purge list"]
           updated == CallUpdateList(Destination, marked, CleanList(marked))
           deleted == CallDeleteList(Destination, list)
<1>1. Proceed(Destination, updated, next) \/ Proceed(Destination, deleted, purge)
  BY DEF DeleteList
<1>2. ListOK(marked)
  BY DEF ListOK, ListFields
<1> HIDE DEF marked
<1>3. Destination \in Providers
  BY Sides
<1>4. Answer(Destination, updated) /\ Answer(Destination, deleted)
  BY <1>2, <1>3, CallsUpdateList, CallsDeleteList
<1> HIDE DEF updated, deleted
<1>5. GoodSession(next) /\ GoodSession(purge)
  <2>1. GoodSession(next)
    BY NextDeletionIsGood
  <2>2. Frame(purge) /\ purge.at = "purge list" /\ purge.di = ss.di /\ purge.dst = ss.dst
    BY DEF Frame, SessionFields, Session
  <2> HIDE DEF next, purge
  <2>3. GoodSession(purge)
    BY <2>2 DEF GoodSession, Where, InList, Adding, Updating
  <2> QED
    BY <2>1, <2>3
<1> HIDE DEF next, purge
<1> QED
  BY <1>1, <1>3, <1>4, <1>5, Proceeding

\* The destination marks or deletes an item that the source has not got.
LEMMA DeletesItem ==
    ASSUME WorldOK, Frame(ss), ss.di # Len(ss.dst) + 1, ss.at = "delete",
           NEW item, ItemOK(item), NEW k \in Nat \ {0}, DeleteItem(item, k)
    PROVE  WorldOK' /\ GoodSession(ss')
<1> DEFINE marked == [item EXCEPT !.status = "deleted"]
           next == [ss EXCEPT !.dj = k + 1, !.changed = TRUE]
           purge == [ss EXCEPT !.at = "purge item", !.dj = k]
           updated == CallUpdateItem(Destination, marked)
           deleted == CallDeleteItem(Destination, item)
<1>1. Proceed(Destination, updated, next) \/ Proceed(Destination, deleted, purge)
  BY DEF DeleteItem
<1>2. ItemOK(marked)
  BY DEF ItemOK, ItemFields, Statuses
<1> HIDE DEF marked
<1>3. Destination \in Providers
  BY Sides
<1>4. Answer(Destination, updated) /\ Answer(Destination, deleted)
  BY <1>2, <1>3, CallsUpdateItem, CallsDeleteItem
<1> HIDE DEF updated, deleted
<1>5. k + 1 \in Nat \ {0}
  OBVIOUS
<1>6. GoodSession(next) /\ GoodSession(purge)
  BY <1>5, StaysAt
<1> HIDE DEF next, purge
<1> QED
  BY <1>1, <1>3, <1>4, <1>6, Proceeding

\* One step of the deletion phase.
LEMMA Deletes ==
    ASSUME WorldOK, GoodSession(ss), Delete
    PROVE  WorldOK' /\ GoodSession(ss')
<1> DEFINE items == ItemsInView(ss.dst[ss.di])
           list == [ss.dst[ss.di] EXCEPT !.items = items]
           gone == {k \in ss.dj .. Len(items) :
                       /\ items[k].status # "deleted" /\ Key(items[k]) # Nil
                       /\ Gone(ss.srcItems, items[k])}
           k == CHOOSE i \in gone : \A j \in gone : i <= j
<1>1. /\ ss.at = "delete"
      /\ IF ss.di > Len(ss.dst) THEN Silently(Return("ok"))
         ELSE IF list.status = "deleted" \/ Key(list) = Nil THEN Silently(NextDeletion(ss))
         ELSE IF Gone(ss.srcLists, list) THEN DeleteList(list)
         ELSE IF gone = {} THEN Silently(NextDeletion(ss))
         ELSE DeleteItem(items[k], k)
  BY DEF Delete
<1>2. Frame(ss)
  BY DEF GoodSession
<1>3. CASE ss.di > Len(ss.dst)
  <2>1. Silently(Return("ok")) /\ GoodSession(Return("ok"))
    BY <1>1, <1>2, <1>3, Returning
  <2> QED
    BY <2>1, Staying
<1>4. CASE ~(ss.di > Len(ss.dst))
  <2>1. ss.di # Len(ss.dst) + 1
    <3>1. Len(ss.dst) \in Nat
      BY <1>2, SeqOf DEF Frame, ListsOK
    <3> QED
      BY <1>4, <3>1
  <2>2. ListOK(ss.dst[ss.di]) /\ ItemsOK(items)
    BY <1>2, <2>1, InView
  <2> HIDE DEF items
  <2>3. ListOK(list)
    BY <2>2, WithItems
  <2> HIDE DEF list
  <2>4. GoodSession(NextDeletion(ss))
    BY <1>2, <2>1, NextDeletionIsGood
  <2>5. CASE Silently(NextDeletion(ss))
    BY <2>4, <2>5, Staying
  <2>6. CASE DeleteList(list)
    BY <1>2, <2>1, <2>3, <2>6, DeletesList
  <2>7. CASE gone # {} /\ DeleteItem(items[k], k)
    <3>1. IsSeq(items) /\ DOMAIN items = 1 .. Len(items) /\ Len(items) \in Nat
      BY <2>2, SeqOf DEF ItemsOK
    <3>2. ss.dj \in Nat \ {0}
      BY <1>2 DEF Frame
    <3>3. gone \in SUBSET (Nat \ {0}) /\ gone \in SUBSET DOMAIN items
      BY <3>1, <3>2
    <3>4. gone # {} /\ DeleteItem(items[k], k)
      BY <2>7
    <3> HIDE DEF gone
    <3>5. k \in gone
      <4>1. gone \in SUBSET Nat
        BY <3>3
      <4> QED
        BY <3>4, <4>1, Least
    <3> HIDE DEF k
    <3>6. ItemOK(items[k]) /\ k \in Nat \ {0}
      BY <2>2, <3>3, <3>5 DEF ItemsOK
    <3> QED
      BY <1>1, <1>2, <2>1, <3>4, <3>6, DeletesItem
  <2> HIDE DEF gone, k
  <2> QED
    BY <1>1, <1>4, <2>5, <2>6, <2>7
<1> QED
  BY <1>3, <1>4

\* The source removes the row of a list that both have deleted.
LEMMA PurgesList ==
    ASSUME WorldOK, GoodSession(ss), PurgeList
    PROVE  WorldOK' /\ GoodSession(ss')
<1> DEFINE r == CallDeleteList(Source, ss.srcLists[Key(ss.dst[ss.di])])
           s == [NextDeletion(ss) EXCEPT !.changed = TRUE]
<1>1. Frame(ss) /\ ss.di # Len(ss.dst) + 1
  BY DEF GoodSession, Where, PurgeList
<1>2. Source \in Providers
  BY <1>1, Sides
<1>3. Proceed(Source, r, s)
  BY DEF PurgeList
<1>4. Answer(Source, r)
  BY <1>2, CallsDeleteList
<1>5. GoodSession(s)
  BY <1>1, NextDeletionIsGood
<1> HIDE DEF r, s
<1> QED
  BY <1>1, <1>2, <1>3, <1>4, <1>5, Proceeding

\* The source removes the row of an item that both have deleted.
LEMMA PurgesItem ==
    ASSUME WorldOK, GoodSession(ss), PurgeItem
    PROVE  WorldOK' /\ GoodSession(ss')
<1> DEFINE item == ItemsInView(ss.dst[ss.di])[ss.dj]
           r == CallDeleteItem(Source, ss.srcItems[Key(item)])
           s == [ss EXCEPT !.at = "delete", !.dj = ss.dj + 1, !.changed = TRUE]
<1>1. Frame(ss) /\ ss.di # Len(ss.dst) + 1
  BY DEF GoodSession, Where, PurgeItem
<1>2. Source \in Providers
  BY <1>1, Sides
<1>3. Proceed(Source, r, s)
  BY <1>1 DEF PurgeItem, Frame, SessionFields, Session
<1>4. Answer(Source, r)
  BY <1>2, CallsDeleteItem
<1> HIDE DEF r
<1>5. ss.dj + 1 \in Nat \ {0}
  BY <1>1 DEF Frame
<1>6. GoodSession(s)
  BY <1>1, <1>5, StaysAt
<1> HIDE DEF s
<1> QED
  BY <1>1, <1>2, <1>3, <1>4, <1>6, Proceeding

-----------------------------------------------------------------------------
\* A step of the Syncer, with all its calls.
LEMMA SyncerSteps ==
    ASSUME TypeOK, SyncerStep, UNCHANGED <<driverVars, userVars>>
    PROVE  TypeOK'
<1>1. WorldOK
  BY DEF TypeOK, WorldOK
<1>2. ss.at # "idle"
  BY DEF SyncerStep, ReadSource, ReadDestination, ReadTasks, OpenList, CreateList, BackfillList,
         CreateItem, BackfillItem, UpdateList, UpdateItem, Link, Delete, PurgeList, PurgeItem
<1>3. GoodSession(ss) /\ PassOK
  BY <1>2, SessionIsGood DEF TypeOK
<1>4. WorldOK' /\ GoodSession(ss')
  BY <1>1, <1>3, ReadsSource, ReadsDestination, ReadsTasks, OpensList, CreatesList, BackfillsList,
     CreatesItem, BackfillsItem, UpdatesList, UpdatesItem, Links, Deletes, PurgesList, PurgesItem
     DEF SyncerStep
<1>5. PassOK'
  BY <1>3 DEF PassOK, driverVars
<1>6. (GoodSession(ss) /\ PassOK)' => SessionTyped' /\ SessionOK'
  BY SessionIsGood, PTL
<1>7. SessionTyped' /\ SessionOK'
  BY <1>4, <1>5, <1>6
<1> QED
  BY <1>4, <1>7 DEF TypeOK, WorldOK, driverVars, userVars

-----------------------------------------------------------------------------
(* The user at the editor. *)

LineOK(i) == DOMAIN i = LineFields /\ i.status \in Statuses \ {"open", "deleted"}
LineItemsOK(items) == IsSeq(items) /\ \A j \in DOMAIN items : LineOK(items[j])
LineListOK(l) == DOMAIN l = {"id", "name", "items"} /\ LineItemsOK(l.items)

\* LinesOK by its lists.
LEMMA LinesAre ==
    ASSUME NEW lists
    PROVE  LinesOK(lists) <=> IsSeq(lists) /\ \A k \in DOMAIN lists : LineListOK(lists[k])
  BY DEF LinesOK, LineListOK, LineItemsOK, LineOK

\* The lines of a list take the place of others.
LEMMA LineListReplaced ==
    ASSUME NEW lists, LinesOK(lists), NEW l \in DOMAIN lists, NEW list, LineListOK(list)
    PROVE  LET new == [lists EXCEPT ![l] = list]
           IN  LinesOK(new) /\ DOMAIN new = DOMAIN lists
<1> DEFINE new == [lists EXCEPT ![l] = list]
<1>1. IsSeq(lists) /\ \A k \in DOMAIN lists : LineListOK(lists[k])
  BY LinesAre
<1>2. /\ IsSeq(new) /\ DOMAIN new = DOMAIN lists
      /\ new[l] = list /\ \A j \in DOMAIN lists : j # l => new[j] = lists[j]
  BY <1>1, Replacing
<1> HIDE DEF new
<1>3. LinesOK(new)
  BY <1>1, <1>2, LinesAre
<1> QED
  BY <1>2, <1>3 DEF new

\* The lines of one list are others.
LEMMA Relined ==
    ASSUME NEW lists, LinesOK(lists), NEW l \in DOMAIN lists, NEW items, LineItemsOK(items)
    PROVE  LET new == [lists EXCEPT ![l] = [lists[l] EXCEPT !.items = items]]
           IN  LinesOK(new) /\ DOMAIN new = DOMAIN lists
<1>1. LineListOK(lists[l])
  BY LinesAre
<1>2. LineListOK([lists[l] EXCEPT !.items = items])
  BY <1>1 DEF LineListOK
<1> QED
  BY <1>2, LineListReplaced

\* The lines of one list.
LEMMA LinesOfList ==
    ASSUME NEW lists, LinesOK(lists), NEW l \in DOMAIN lists
    PROVE  LineListOK(lists[l]) /\ LineItemsOK(lists[l].items) /\ IsSeq(lists[l].items)
  BY LinesAre DEF LineListOK, LineItemsOK

\* A line is inserted.
LEMMA LineInserted ==
    ASSUME NEW items, LineItemsOK(items), NEW at \in 0 .. Len(items), NEW line, LineOK(line)
    PROVE  LineItemsOK(InsertedAt(items, at, line))
<1>1. IsSeq(items)
  BY DEF LineItemsOK
<1> QED
  BY <1>1, Inserting DEF LineItemsOK

\* A line is removed.
LEMMA LineRemoved ==
    ASSUME NEW items, LineItemsOK(items), NEW at \in DOMAIN items
    PROVE  LineItemsOK(Without(items, at))
<1>1. IsSeq(items)
  BY DEF LineItemsOK
<1> QED
  BY <1>1, Removing DEF LineItemsOK

\* What an edit of the file leaves.
FileEdited == FileOK(file') /\ LinesOK(before') /\ google' = google

\* The user saves other lines: the file keeps its shape.
LEMMA Saving ==
    ASSUME FileOK(file), NEW lists, LinesOK(lists), NEW outcome, SavedFor(lists, outcome)
    PROVE  FileEdited
  BY DEF SavedFor, FileEdited, FileOK

\* One line is another.
LEMMA LineSaved ==
    ASSUME FileOK(file), NEW l \in DOMAIN file.lists, NEW k \in DOMAIN file.lists[l].items,
           NEW line, LineOK(line), NEW outcome,
           SavedFor([file.lists EXCEPT ![l] =
                        [file.lists[l] EXCEPT !.items = [file.lists[l].items EXCEPT ![k] = line]]], outcome)
    PROVE  FileEdited
<1> DEFINE items == [file.lists[l].items EXCEPT ![k] = line]
           new == [file.lists EXCEPT ![l] = [file.lists[l] EXCEPT !.items = items]]
<1>1. LinesOK(file.lists)
  BY DEF FileOK
<1>2. LineItemsOK(file.lists[l].items) /\ IsSeq(file.lists[l].items)
  BY <1>1, LinesOfList
<1>3. /\ IsSeq(items) /\ DOMAIN items = DOMAIN file.lists[l].items
      /\ items[k] = line /\ \A j \in DOMAIN file.lists[l].items : j # k => items[j] = file.lists[l].items[j]
  BY <1>2, Replacing
<1> HIDE DEF items
<1>4. LineItemsOK(items)
  BY <1>2, <1>3 DEF LineItemsOK
<1>5. LinesOK(new)
  BY <1>1, <1>4, Relined
<1>6. SavedFor(new, outcome)
  BY DEF items
<1> HIDE DEF new
<1> QED
  BY <1>5, <1>6, Saving

\* The lines of one list are others, in the file.
LEMMA LinesSaved ==
    ASSUME FileOK(file), NEW l \in DOMAIN file.lists, NEW items, LineItemsOK(items), NEW outcome,
           SavedFor([file.lists EXCEPT ![l] = [file.lists[l] EXCEPT !.items = items]], outcome)
    PROVE  FileEdited
<1> DEFINE new == [file.lists EXCEPT ![l] = [file.lists[l] EXCEPT !.items = items]]
<1>1. LinesOK(new)
  BY Relined DEF FileOK
<1> HIDE DEF new
<1> QED
  BY <1>1, Saving DEF new

\* A line that the user types is one that the parser knows.
LEMMA NewItems ==
    ASSUME NEW t
    PROVE  LineOK(NewItem(t))
  BY DEF NewItem, LineOK, LineFields, Statuses

\* The user edits a line.
LEMMA EditsLine ==
    ASSUME FileOK(file), NEW l \in DOMAIN file.lists, NEW k \in DOMAIN file.lists[l].items,
           Retitle(l, k) \/ Retag(l, k) \/ Check(l, k) \/ Start(l, k) \/ Replace(l, k)
    PROVE  FileEdited
<1> DEFINE i == file.lists[l].items[k]
           New(line) == [file.lists EXCEPT ![l] =
                            [file.lists[l] EXCEPT !.items = [file.lists[l].items EXCEPT ![k] = line]]]
<1>1. LineOK(i)
  BY LinesOfList DEF FileOK, LineItemsOK
<1>2. CASE Retitle(l, k)
  <2>1. PICK t \in Texts : Saved(New([i EXCEPT !.text = t]))
    BY <1>2 DEF Retitle
  <2>2. LineOK([i EXCEPT !.text = t])
    BY <1>1 DEF LineOK, LineFields
  <2> QED
    BY <2>1, <2>2, LineSaved DEF Saved
<1>3. CASE Retag(l, k)
  <2>1. PICK t, outcome : SavedFor(New([i EXCEPT !.tag = t]), outcome)
    BY <1>3 DEF Retag, Saved
  <2>2. LineOK([i EXCEPT !.tag = t])
    BY <1>1 DEF LineOK, LineFields
  <2> QED
    BY <2>1, <2>2, LineSaved
<1>4. CASE Check(l, k)
  <2> DEFINE line == [i EXCEPT !.status = IF i.status = "done" THEN "not_started" ELSE "done"]
  <2>1. Saved(New(line))
    BY <1>4 DEF Check
  <2>2. LineOK(line)
    BY <1>1 DEF LineOK, LineFields, Statuses
  <2> HIDE DEF line
  <2> QED
    BY <2>1, <2>2, LineSaved DEF Saved
<1>5. CASE Start(l, k)
  <2> DEFINE line == [i EXCEPT !.status = "in_progress"]
  <2>1. Saved(New(line))
    BY <1>5 DEF Start
  <2>2. LineOK(line)
    BY <1>1 DEF LineOK, LineFields, Statuses
  <2> HIDE DEF line
  <2> QED
    BY <2>1, <2>2, LineSaved DEF Saved
<1>6. CASE Replace(l, k)
  <2>1. PICK t \in Texts : Saved(New(NewItem(t)))
    BY <1>6 DEF Replace
  <2> QED
    BY <2>1, NewItems, LineSaved DEF Saved
<1> QED
  BY <1>2, <1>3, <1>4, <1>5, <1>6

\* The user adds or removes a line.
LEMMA EditsLines ==
    ASSUME FileOK(file), NEW l \in DOMAIN file.lists,
           Add(l) \/ \E k \in DOMAIN file.lists[l].items : Remove(l, k)
    PROVE  FileEdited
<1> DEFINE items == file.lists[l].items
           New(new) == [file.lists EXCEPT ![l] = [file.lists[l] EXCEPT !.items = new]]
<1>1. LineItemsOK(items) /\ IsSeq(items) /\ Len(items) \in Nat
  BY LinesOfList, SeqOf DEF FileOK
<1>2. CASE Add(l)
  <2>1. PICK t \in Texts, at \in {0, Len(items)} : Saved(New(InsertedAt(items, at, NewItem(t))))
    BY <1>2 DEF Add
  <2>2. at \in 0 .. Len(items)
    BY <1>1
  <2>3. LineItemsOK(InsertedAt(items, at, NewItem(t)))
    BY <1>1, <2>2, NewItems, LineInserted
  <2> QED
    BY <2>1, <2>3, LinesSaved DEF Saved
<1>3. CASE \E k \in DOMAIN file.lists[l].items : Remove(l, k)
  <2>1. PICK k \in DOMAIN items : Saved(New(Without(items, k)))
    BY <1>3 DEF Remove
  <2>2. LineItemsOK(Without(items, k))
    BY <1>1, LineRemoved
  <2> QED
    BY <2>1, <2>2, LinesSaved DEF Saved
<1> QED
  BY <1>2, <1>3

\* The user cuts a line and pastes it elsewhere.
LEMMA MovesLine ==
    ASSUME FileOK(file), NEW l \in DOMAIN file.lists, NEW k \in DOMAIN file.lists[l].items, Move(l, k)
    PROVE  FileEdited
<1> DEFINE items == Without(file.lists[l].items, k)
           cut == [file.lists EXCEPT ![l] = [file.lists[l] EXCEPT !.items = items]]
           i == file.lists[l].items[k]
           Pasted(m, at) == [cut EXCEPT ![m] = [cut[m] EXCEPT !.items = InsertedAt(cut[m].items, at, i)]]
<1>1. PICK m \in DOMAIN cut : \E at \in 0 .. Len(cut[m].items) : Saved(Pasted(m, at))
  BY DEF Move
<1>2. PICK at \in 0 .. Len(cut[m].items) : Saved(Pasted(m, at))
  BY <1>1
<1>3. LinesOK(file.lists)
  BY DEF FileOK
<1>4. LineItemsOK(file.lists[l].items) /\ LineOK(i)
  BY <1>3, LinesOfList DEF LineItemsOK
<1>5. LineItemsOK(items)
  BY <1>4, LineRemoved
<1> HIDE DEF items, i
<1>6. LinesOK(cut)
  BY <1>3, <1>5, Relined
<1> HIDE DEF cut
<1>7. LineItemsOK(cut[m].items)
  BY <1>6, LinesOfList
<1>8. LineItemsOK(InsertedAt(cut[m].items, at, i))
  BY <1>2, <1>4, <1>7, LineInserted
<1>9. LinesOK(Pasted(m, at))
  BY <1>6, <1>8, Relined
<1> HIDE DEF Pasted
<1> QED
  BY <1>2, <1>9, Saving DEF Saved

\* The user edits the headings.
LEMMA EditsLists ==
    ASSUME FileOK(file),
           \/ \E l \in DOMAIN file.lists : Rename(l) \/ RemoveList(l) \/ MoveList(l)
           \/ AddList(Len(file.lists)) \/ AddList(0)
    PROVE  FileEdited
<1> DEFINE lists == file.lists
<1>1. /\ LinesOK(lists) /\ IsSeq(lists) /\ Len(lists) \in Nat /\ DOMAIN lists = 1 .. Len(lists)
      /\ \A l \in DOMAIN lists : LineListOK(lists[l])
  BY LinesAre, SeqOf DEF FileOK
<1>2. ASSUME NEW l \in DOMAIN lists, Rename(l) PROVE FileEdited
  <2>1. PICK n \in Names : Saved([lists EXCEPT ![l] = [lists[l] EXCEPT !.name = n]])
    BY <1>2 DEF Rename
  <2>2. LineListOK([lists[l] EXCEPT !.name = n])
    BY <1>1 DEF LineListOK
  <2>3. LinesOK([lists EXCEPT ![l] = [lists[l] EXCEPT !.name = n]])
    BY <1>1, <2>2, LineListReplaced
  <2> QED
    BY <2>1, <2>3, Saving DEF Saved
<1>3. ASSUME NEW l \in DOMAIN lists
      PROVE  LinesOK(Without(lists, l)) /\ IsSeq(Without(lists, l)) /\ Len(Without(lists, l)) = Len(lists) - 1
  <2>1. /\ IsSeq(Without(lists, l)) /\ Len(Without(lists, l)) = Len(lists) - 1
        /\ \A k \in DOMAIN Without(lists, l) : \E j \in DOMAIN lists : Without(lists, l)[k] = lists[j]
    BY <1>1, Removing
  <2> QED
    BY <1>1, <2>1, LinesAre
<1>4. ASSUME NEW some, LinesOK(some), NEW at \in 0 .. Len(some), NEW list, LineListOK(list)
      PROVE  LinesOK(InsertedAt(some, at, list))
  <2>1. IsSeq(some) /\ \A k \in DOMAIN some : LineListOK(some[k])
    BY <1>4, LinesAre
  <2>2. /\ IsSeq(InsertedAt(some, at, list))
        /\ \A k \in DOMAIN InsertedAt(some, at, list) :
              InsertedAt(some, at, list)[k] = list
              \/ \E j \in DOMAIN some : InsertedAt(some, at, list)[k] = some[j]
    BY <2>1, Inserting
  <2> QED
    BY <1>4, <2>1, <2>2, LinesAre
<1>5. ASSUME NEW l \in DOMAIN lists, RemoveList(l) PROVE FileEdited
  BY <1>3, <1>5, Saving DEF RemoveList, Saved
<1>6. ASSUME NEW l \in DOMAIN lists, MoveList(l) PROVE FileEdited
  <2>1. PICK at \in 0 .. Len(lists) - 1 : Saved(InsertedAt(Without(lists, l), at, lists[l]))
    BY <1>6 DEF MoveList
  <2>2. LinesOK(InsertedAt(Without(lists, l), at, lists[l]))
    BY <1>1, <1>3, <1>4
  <2> QED
    BY <2>1, <2>2, Saving DEF Saved
<1>7. ASSUME NEW at \in {0, Len(lists)}, AddList(at) PROVE FileEdited
  <2>1. PICK n \in Names : Saved(InsertedAt(lists, at, [id |-> Nil, name |-> n, items |-> <<>>]))
    BY <1>7 DEF AddList
  <2>2. LineListOK([id |-> Nil, name |-> n, items |-> <<>>])
    BY Empty DEF LineListOK, LineItemsOK
  <2>3. at \in 0 .. Len(lists)
    BY <1>1
  <2>4. LinesOK(InsertedAt(lists, at, [id |-> Nil, name |-> n, items |-> <<>>]))
    BY <1>1, <1>4, <2>2, <2>3
  <2> QED
    BY <2>1, <2>4, Saving DEF Saved
<1> QED
  BY <1>2, <1>5, <1>6, <1>7

\* The user at the editor, with undo: what that brings back was a file as well.
LEMMA EditsFile ==
    ASSUME FileOK(file), LinesOK(before), EditFile
    PROVE  FileEdited
<1>1. CASE Undo
  BY <1>1, Saving DEF Undo, Saved
<1> QED
  BY <1>1, EditsLine, EditsLines, MovesLine, EditsLists DEF EditFile

-----------------------------------------------------------------------------
(* The user at the phone. *)

\* What an edit on the phone leaves.
PhoneEdited == ServiceOK(google') /\ file' = file /\ before' = before

\* The app on the phone marks the lists that it changes as updated.
LEMMA Phoning ==
    ASSUME NEW g, ServiceOK(g), NEW l, Phoned(g, l)
    PROVE  PhoneEdited
<1> DEFINE lists == [k \in DOMAIN g.lists |->
                       IF k \in l THEN [g.lists[k] EXCEPT !.updated = now] ELSE g.lists[k]]
           new == [g EXCEPT !.lists = lists]
<1>1. google' = new /\ file' = file /\ before' = before
  BY DEF Phoned
<1>2. IsSeq(g.lists) /\ \A k \in DOMAIN g.lists : TaskListOK(g.lists[k])
  BY ServiceIs DEF TaskListsOK
<1>3. \A k \in DOMAIN g.lists : TaskListOK(lists[k])
  BY <1>2 DEF TaskListOK
<1>4. lists = [k \in DOMAIN g.lists |-> lists[k]]
  OBVIOUS
<1> HIDE DEF lists
<1>5. TaskListsOK(lists)
  BY <1>2, <1>3, <1>4, Mapped DEF TaskListsOK
<1>6. ServiceOK(new)
  BY <1>5, WithLists
<1> HIDE DEF new
<1> QED
  BY <1>1, <1>6 DEF PhoneEdited

\* A request of the phone leaves the service as the request does.
LEMMA Phones ==
    ASSUME NEW r, RequestAnswer(r), NEW l, Phone(r, l)
    PROVE  PhoneEdited
  BY Phoning DEF Phone, RequestAnswer

\* The user edits a task on the phone.
LEMMA PhonesTask ==
    ASSUME ServiceOK(google), NEW l \in DOMAIN google.lists, NEW k \in DOMAIN google.lists[l].tasks,
           PhoneTask(l, k)
    PROVE  PhoneEdited
<1> DEFINE list == google.lists[l]
           t == list.tasks[k]
           patched(new) == GoogleTasks!PatchTask(google, list.id, t.id, new, now)
           removed == GoogleTasks!DeleteTask(google, list.id, t.id)
           tasks == [list.tasks EXCEPT ![k] = [t EXCEPT !.updated = now]]
           lists == [google.lists EXCEPT ![l] = [list EXCEPT !.tasks = tasks]]
           stamped == [google EXCEPT !.lists = lists]
           moved(m, p) == GoogleTasks!MoveTask(stamped, [item |-> t.id, from |-> list.id,
                                                         to |-> google.lists[m].id, previous |-> p])
<1>1. \/ \E new : Phone(patched(new), {l})
      \/ Phone(removed, {l})
      \/ \E m, p : Phone(moved(m, p), {l, m})
  BY DEF PhoneTask
<1>2. \A new : RequestAnswer(patched(new))
  BY ServicePatchTask
<1>3. RequestAnswer(removed)
  BY ServiceDeleteTask
<1>4. TaskListsOK(google.lists) /\ TaskListOK(list) /\ IsSeq(list.tasks)
  BY ServiceIs DEF TaskListsOK, TaskListOK
<1>5. IsSeq(tasks)
  BY <1>4, Replacing
<1> HIDE DEF tasks
<1>6. TaskListOK([list EXCEPT !.tasks = tasks])
  BY <1>4, <1>5, WithTasks
<1>7. TaskListsOK(lists)
  BY <1>4, <1>6, TaskListReplaced
<1> HIDE DEF lists
<1>8. ServiceOK(stamped)
  BY <1>7, WithLists
<1> HIDE DEF stamped
<1>9. \A m, p : RequestAnswer(moved(m, p))
  BY <1>8, ServiceMoveTask
<1> HIDE DEF patched, removed, moved
<1> QED
  BY <1>1, <1>2, <1>3, <1>9, Phones

\* The user at the phone.
LEMMA EditsService ==
    ASSUME ServiceOK(google), EditService
    PROVE  PhoneEdited
<1> DEFINE added(l, x) == GoogleTasks!InsertTask(google, google.lists[l].id,
                                                 [text |-> x, tag |-> NoTag, done |-> FALSE], Nil, now)
           renamed(l, n) == GoogleTasks!PatchTaskList(google, google.lists[l].id, n, now)
           removed(l) == GoogleTasks!DeleteTaskList(google, google.lists[l].id)
           created(n) == GoogleTasks!InsertTaskList(google, n, now)
<1>1. \/ \E l, x : Phone(added(l, x), {l})
      \/ \E l, n : Phone(renamed(l, n), {l})
      \/ \E l : Phone(removed(l), {})
      \/ \E n : Phone(created(n), {})
      \/ \E l \in DOMAIN google.lists : \E k \in DOMAIN google.lists[l].tasks : PhoneTask(l, k)
  BY DEF EditService
<1>2. \A l, x : RequestAnswer(added(l, x))
  BY ServiceInsertTask
<1>3. \A l, n : RequestAnswer(renamed(l, n))
  BY ServicePatchTaskList
<1>4. \A l : RequestAnswer(removed(l))
  BY ServiceDeleteTaskList
<1>5. \A n : RequestAnswer(created(n))
  BY ServiceInsertTaskList
<1> HIDE DEF added, renamed, removed, created
<1> QED
  BY <1>1, <1>2, <1>3, <1>4, <1>5, Phones, PhonesTask

\* A step of the user, at the editor or at the phone, keeps TypeOK; so does the removal
\* of the file.
LEMMA UserSteps ==
    ASSUME TypeOK, User
    PROVE  TypeOK'
<1>1. FileOK(file) /\ LinesOK(before) /\ ServiceOK(google)
  BY DEF TypeOK
<1>2. FileOK(file') /\ LinesOK(before') /\ ServiceOK(google')
  <2>1. CASE EditFile
    BY <1>1, <2>1, EditsFile DEF FileEdited
  <2>2. CASE EditService
    BY <1>1, <2>2, EditsService DEF PhoneEdited
  <2>3. CASE RemoveFile
    BY <1>1, <2>3, LinesAre, Empty DEF RemoveFile, Markdown!NoFile, FileOK
  <2> QED
    BY <2>1, <2>2, <2>3 DEF User
<1>3. notified' \in [TargetNames -> BOOLEAN]
  BY DEF User, TypeOK
<1>4. now' \in Nat /\ edits' \in 0 .. MaxEdits /\ passes' \in 0 .. MaxPasses
  <2>1. edits < MaxEdits /\ now' = now + 1 /\ edits' = edits + 1 /\ passes' = 0
    BY DEF User
  <2>2. now \in Nat /\ edits \in 0 .. MaxEdits
    BY DEF TypeOK
  <2> QED
    BY <2>1, <2>2, SystemAssumption DEF SystemAssumption
<1>5. UNCHANGED <<db, ss, faults, needsPull, needsPush, pass>>
  BY DEF User
<1>6. SessionTyped' /\ SessionOK'
  BY <1>5 DEF TypeOK, SessionTyped, SessionOK, Key, Destination
<1> QED
  BY <1>2, <1>3, <1>4, <1>5, <1>6 DEF TypeOK

-----------------------------------------------------------------------------
(* The driver. *)

\* A session that the driver starts has all of its fields.
LEMMA Starts ==
    ASSUME NEW phase \in {"pull", "push"}, NEW remote \in TargetNames, NEW start
    PROVE  GoodSession(Session(phase, remote, start)) /\ Session(phase, remote, start).at # "idle"
<1> DEFINE s == Session(phase, remote, start)
<1>1. Frame(s) /\ s.at = "read source" /\ s.li = 1 /\ s.di = 1
  BY NoItems, Empty DEF Frame, SessionFields, Session
<1> HIDE DEF s
<1>2. Where(s)
  BY <1>1 DEF Where, InList, Adding, Updating
<1> QED
  BY <1>1, <1>2 DEF GoodSession, s

\* The driver goes to the next pull, to the next push or to rest (runner.go,
\* processEvent).
LEMMA GoesOn ==
    ASSUME NEW p, DOMAIN p = PassFields, p.k \in Nat \ {0}, GoOn(p)
    PROVE  SessionTyped' /\ SessionOK'
<1> DEFINE toPull == {k \in p.k .. Len(Targets) :
                        p.event \in {"all", Targets[k]} \/ needsPull'[Targets[k]]}
           from == IF p.phase = "pull" THEN 1 ELSE p.k
           toPush == {k \in from .. Len(Targets) :
                        (p.changed \/ needsPush'[Targets[k]]) /\ ~needsPull'[Targets[k]]}
           Call(phase, k) ==
              /\ pass' = [p EXCEPT !.phase = phase, !.k = k + 1]
              /\ ss' = Session(phase, Targets[k], p.start)
<1>1. \/ toPull # {} /\ Call("pull", Earliest(toPull))
      \/ toPush # {} /\ Call("push", Earliest(toPush))
      \/ pass' = Resting /\ ss' = Idle
  BY DEF GoOn
<1>2. Len(Targets) \in Nat /\ DOMAIN Targets = 1 .. Len(Targets)
  BY SystemAssumption DEF SystemAssumption
<1>3. from \in Nat \ {0}
  OBVIOUS
<1> HIDE DEF from
<1>4. toPull \in SUBSET DOMAIN Targets /\ toPush \in SUBSET DOMAIN Targets
  BY <1>2, <1>3
<1> HIDE DEF toPull, toPush
<1>5. \A S \in SUBSET DOMAIN Targets : S # {} => Earliest(S) \in DOMAIN Targets
  <2>1. \A S \in SUBSET DOMAIN Targets : S \in SUBSET Nat
    BY <1>2
  <2> QED
    BY <2>1, Least DEF Earliest
<1>6. ASSUME NEW phase \in {"pull", "push"}, NEW k \in DOMAIN Targets, Call(phase, k)
      PROVE  SessionTyped' /\ SessionOK'
  <2>1. Targets[k] \in TargetNames
    BY DEF TargetNames
  <2>2. GoodSession(ss') 
    BY <1>6, <2>1, Starts
  <2>3. PassOK'
    <3>1. k + 1 \in Nat \ {0}
      BY <1>2
    <3> QED
      BY <1>6, <3>1 DEF PassOK, PassFields
  <2>4. (GoodSession(ss) /\ PassOK)' => SessionTyped' /\ SessionOK'
    BY SessionIsGood, PTL
  <2> QED
    BY <2>2, <2>3, <2>4
<1>7. CASE ss' = Idle
  BY <1>7 DEF Idle, SessionTyped, SessionOK
<1> HIDE DEF Call
<1> QED
  BY <1>1, <1>4, <1>5, <1>6, <1>7

\* A pass begins.
LEMMA Begins ==
    ASSUME TypeOK, NEW event, Begin(event)
    PROVE  TypeOK'
<1> DEFINE p == [phase |-> "pull", event |-> event, k |-> 1, changed |-> FALSE, start |-> now]
<1>1. DOMAIN p = PassFields /\ p.k \in Nat \ {0} /\ GoOn(p)
  BY DEF Begin, PassFields
<1> HIDE DEF p
<1>2. SessionTyped' /\ SessionOK'
  BY <1>1, GoesOn
<1>3. notified' \in [TargetNames -> BOOLEAN]
  BY DEF Begin
<1>4. now' \in Nat /\ passes' \in 0 .. MaxPasses
  BY SystemAssumption DEF TypeOK, Begin, SystemAssumption
<1>5. UNCHANGED <<db, file, google, faults, needsPull, needsPush, userVars>>
  BY DEF Begin
<1> QED
  BY <1>2, <1>3, <1>4, <1>5 DEF TypeOK, userVars

\* A session returns to the driver.
LEMMA Returns ==
    ASSUME TypeOK, PullReturns \/ PushReturns
    PROVE  TypeOK'
<1>1. ss.at # "idle"
  BY DEF PullReturns, PushReturns, Returned
<1>2. Frame(ss) /\ PassOK
  BY <1>1, SessionIsGood DEF TypeOK, GoodSession
<1>3. ss.remote \in TargetNames
  BY <1>2 DEF Frame
<1>4. needsPull \in [TargetNames -> BOOLEAN] /\ needsPush \in [TargetNames -> BOOLEAN]
  BY DEF TypeOK
<1>5. CASE PullReturns
  <2> DEFINE p == [pass EXCEPT !.changed = @ \/ (ss.result = "ok" /\ ss.changed)]
  <2>1. /\ needsPull' = [needsPull EXCEPT ![ss.remote] = (ss.result = "error")]
        /\ needsPush' = [needsPush EXCEPT ![ss.remote] =
                            @ \/ ss.result = "missing" \/ (ss.result = "ok" /\ needsPull[ss.remote])]
        /\ UNCHANGED <<worldVars, faults, passes, userVars>> /\ GoOn(p)
    BY <1>5 DEF PullReturns
  <2>2. DOMAIN p = PassFields /\ p.k \in Nat \ {0}
    BY <1>2 DEF PassOK, PassFields
  <2> HIDE DEF p
  <2>3. SessionTyped' /\ SessionOK'
    BY <2>1, <2>2, GoesOn
  <2>4. needsPull' \in [TargetNames -> BOOLEAN] /\ needsPush' \in [TargetNames -> BOOLEAN]
    BY <1>4, <2>1
  <2> QED
    BY <2>1, <2>3, <2>4 DEF TypeOK, worldVars, userVars
<1>6. CASE PushReturns
  <2>1. /\ needsPush' = [needsPush EXCEPT ![ss.remote] = (ss.result # "ok")]
        /\ UNCHANGED <<needsPull, worldVars, faults, passes, userVars>> /\ GoOn(pass)
    BY <1>6 DEF PushReturns
  <2>2. SessionTyped' /\ SessionOK'
    BY <1>2, <2>1, GoesOn DEF PassOK
  <2>3. needsPush' \in [TargetNames -> BOOLEAN]
    BY <1>4, <2>1
  <2> QED
    BY <2>1, <2>2, <2>3 DEF TypeOK, worldVars, userVars
<1> QED
  BY <1>5, <1>6

\* The process is killed: session and flags are lost, the file, the database and the
\* service are as the last call left them.
LEMMA Crashes ==
    ASSUME TypeOK, Crash
    PROVE  TypeOK'
<1>1. SessionTyped' /\ SessionOK'
  BY DEF Crash, Idle, SessionTyped, SessionOK
<1>2. faults' \in 0 .. MaxFaults
  BY SyncerAssumption DEF Crash, TypeOK, SyncerAssumption
<1>3. passes' \in 0 .. MaxPasses
  BY SystemAssumption DEF Crash, SystemAssumption
<1>4. /\ notified' \in [TargetNames -> BOOLEAN]
      /\ needsPull' \in [TargetNames -> BOOLEAN] /\ needsPush' \in [TargetNames -> BOOLEAN]
  BY DEF Crash
<1> QED
  BY <1>1, <1>2, <1>3, <1>4 DEF TypeOK, Crash, userVars

-----------------------------------------------------------------------------

\* The database is empty, and the file and the service are as InitialAssumption says:
\* TypeOK holds.
LEMMA Initially ==
    ASSUME Init
    PROVE  TypeOK
<1>1. StoreOK(db)
  <2>1. IsFiniteSet({})
    BY FS_EmptySet
  <2> QED
    BY <2>1 DEF Init, Store!EmptyDB, StoreOK, RowsOK, ListRowsOK, ItemRowsOK
<1>2. FileOK(file) /\ LinesOK(before) /\ ServiceOK(google)
  BY InitialAssumption DEF Init, InitialAssumption, FileOK
<1>3. SessionTyped /\ SessionOK
  BY DEF Init, Idle, SessionTyped, SessionOK
<1>4. /\ notified \in [TargetNames -> BOOLEAN]
      /\ needsPull \in [TargetNames -> BOOLEAN] /\ needsPush \in [TargetNames -> BOOLEAN]
  BY DEF Init
<1>5. faults \in 0 .. MaxFaults /\ now \in Nat /\ edits \in 0 .. MaxEdits /\ passes \in 0 .. MaxPasses
  BY SyncerAssumption, SystemAssumption DEF Init, SyncerAssumption, SystemAssumption
<1> QED
  BY <1>1, <1>2, <1>3, <1>4, <1>5 DEF TypeOK

\* For every file and service to begin with, every set of targets and every number of
\* edits, passes and faults: TypeOK holds in all states. The database keeps its keys
\* and its references through every operation of the store that the Syncer can call,
\* in whatever order the user, the phone, the passes and a crash interleave; what the
\* clients read and write keeps its shape; and a session never looks up a list or an
\* item in its maps that is not there (syncer.go).
THEOREM TypeCorrect == Spec => []TypeOK
<1>1. Init => TypeOK
  BY Initially
<1>2. TypeOK /\ [Next]_vars => TypeOK'
  <2> SUFFICES ASSUME TypeOK, [Next]_vars
               PROVE  TypeOK'
    OBVIOUS
  <2>1. CASE SyncerStep /\ UNCHANGED <<driverVars, userVars>>
    BY <2>1, SyncerSteps
  <2>2. CASE User
    BY <2>2, UserSteps
  <2>3. CASE BeginPass
    BY <2>3, Begins DEF BeginPass
  <2>4. CASE PullReturns \/ PushReturns
    BY <2>4, Returns
  <2>5. CASE Crash
    BY <2>5, Crashes
  <2>6. CASE UNCHANGED vars
    BY <2>6 DEF vars, syncerVars, worldVars, driverVars, userVars, TypeOK, SessionTyped, SessionOK,
                Key, Destination
  <2> QED
    BY <2>1, <2>2, <2>3, <2>4, <2>5, <2>6 DEF Next, Driver
<1> QED
  BY <1>1, <1>2, PTL DEF Spec

-----------------------------------------------------------------------------
(* MarkedBeforePurged: what the operations of the store may drop. *)

\* What no call of the store may do from d to e.
Stays(d, e) ==
    /\ \A l \in DOMAIN d.lists \ DOMAIN e.lists : d.lists[l].status = "deleted"
    /\ \A i \in DOMAIN d.items \ DOMAIN e.items :
          \/ d.items[i].status = "deleted"
          \/ LET l == d.items[i].list IN l \notin DOMAIN e.lists \/ e.lists[l].status = "deleted"

\* Rows are new, keep their status, or are among those that are written.
Touches(d, e, items, lists) ==
    /\ \A i \in DOMAIN e.items :
          i \in items \/ (i \in DOMAIN d.items /\ e.items[i].status = d.items[i].status)
    /\ \A l \in DOMAIN e.lists :
          l \in lists \/ (l \in DOMAIN d.lists /\ e.lists[l].status = d.lists[l].status)

\* The row is marked, or gone.
Dead(rows, id) == id \in DOMAIN rows => rows[id].status = "deleted"

\* The columns of the tables.
Shaped(d) ==
    /\ DOMAIN d = {"lists", "items", "next"} /\ ListRowsOK(d.lists)
    /\ \A i \in DOMAIN d.items : DOMAIN d.items[i] = ItemColumns

\* From d to e the list id got this status, and its items went if it was marked.
Relisted(d, e, id, status) ==
    /\ DOMAIN e.lists = DOMAIN d.lists /\ DOMAIN e.items \in SUBSET DOMAIN d.items
    /\ \A l \in DOMAIN d.lists : e.lists[l].status =
          IF l = id /\ e # d THEN status ELSE d.lists[l].status
    /\ \A i \in DOMAIN e.items : e.items[i].status = d.items[i].status
    /\ \A i \in DOMAIN d.items \ DOMAIN e.items :
          d.items[i].list = id /\ e.lists[id].status = "deleted" /\ id \in DOMAIN d.lists

\* UpdateList leaves the lists there are, gives the one it writes its status, and drops
\* nothing but the items of a list that it marks.
LEMMA RelistedByUpdateList ==
    ASSUME NEW d, Shaped(d), NEW list, ListOK(list), NEW current, NEW t
    PROVE  Relisted(d, Store!UpdateList(d, list, current, t).db,
                    Store!Resolved(d.lists, list.id, list.ext), list.status)
<1> DEFINE id == Store!Resolved(d.lists, list.id, list.ext)
           r == Store!UpdateList(d, list, current, t)
           c == Store!CleanList(list)
           l == [c EXCEPT !.id = Store!Resolved(d.lists, @, list.ext), !.modified = t]
           row == [d.lists[l.id] EXCEPT !.name = l.name, !.pos = l.pos, !.status = l.status,
                                        !.modified = t, !.ext = Store!Coalesce(l.ext, @)]
           kept == IF l.status = "deleted"
                     THEN Store!Unlinked(d.items, Store!ItemsOf(d, l.id)) ELSE d.items
           todo == Store!ToMove(l, current)
           Error == \/ l.id \notin DOMAIN d.lists
                    \/ Store!ExternalTaken(d.lists, l.ext, l.id)
                    \/ \E k \in todo : Store!Resolved(kept, l.items[k].id, l.items[k].ext) \notin DOMAIN kept
           lists == Store!With(d.lists, l.id, row)
           items == Store!Moved(kept, l, todo)
           new == [d EXCEPT !.lists = lists, !.items = items]
<1>1. ListOK(c) /\ c = [list EXCEPT !.items = Store!CleanItems(list.items)]
  BY StoreCleanList
<1>2. r = IF Error THEN [result |-> "error", db |-> d, list |-> l]
                   ELSE [result |-> "ok", list |-> l, db |-> new]
  BY DEF Store!UpdateList
<1> HIDE DEF c, id
<1>3. l.status = list.status /\ l.id = id
  BY <1>1 DEF ListOK, ListFields, id
<1> HIDE DEF l
<1>5. CASE Error
  <2>1. r.db = d
    BY <1>2, <1>5
  <2> HIDE DEF r
  <2> QED
    BY <2>1 DEF Relisted, r, id
<1>6. CASE ~Error
  <2>1. r.db = new
    BY <1>2, <1>6
  <2>2. id \in DOMAIN d.lists /\ DOMAIN d.lists[id] = {"name", "pos", "status", "modified", "ext", "row"}
    BY <1>3, <1>6 DEF Shaped, ListRowsOK
  <2>3. /\ \A x \in DOMAIN kept : x \in DOMAIN d.items /\ kept[x].status = d.items[x].status
        /\ \A x \in DOMAIN d.items \ DOMAIN kept : d.items[x].list = id /\ list.status = "deleted"
    <3>1. CASE l.status = "deleted"
      <4>1. kept = Store!Unlinked(d.items, Store!ItemsOf(d, l.id))
        BY <3>1
      <4>2. /\ DOMAIN kept = DOMAIN d.items \ Store!ItemsOf(d, id)
            /\ \A x \in DOMAIN kept : \/ kept[x] = d.items[x]
                                      \/ kept[x] = [d.items[x] EXCEPT !.project = Store!Nil]
        BY <4>1, <1>3 DEF Store!Unlinked
      <4>3. \A x \in DOMAIN d.items : DOMAIN d.items[x] = ItemColumns
        BY DEF Shaped
      <4>4. \A x \in DOMAIN kept : kept[x].status = d.items[x].status
        BY <4>2, <4>3 DEF ItemColumns
      <4> HIDE DEF kept
      <4> QED
        BY <4>2, <4>4, <3>1, <1>3 DEF Store!ItemsOf
    <3>2. CASE l.status # "deleted"
      BY <3>2
    <3> QED
      BY <3>1, <3>2
  <2> HIDE DEF kept, todo
  <2>4. DOMAIN items = DOMAIN kept
    BY DEF Store!Moved
  <2>5. \A x \in DOMAIN items : items[x].status = kept[x].status
    BY <2>4 DEF Store!Moved
  <2>6. DOMAIN lists = DOMAIN d.lists /\ \A x \in DOMAIN lists : lists[x] = IF x = id THEN row ELSE d.lists[x]
    BY <1>3, <2>2 DEF Store!With
  <2>7. row.status = list.status
    BY <1>3, <2>2
  <2> HIDE DEF row, items, lists
  <2>8. new.lists = lists /\ new.items = items
    BY DEF Shaped
  <2>9. new = d => d.lists[id].status = list.status
    BY <2>2, <2>6, <2>7, <2>8
  <2> HIDE DEF new, r
  <2>10. r.db.lists = lists /\ r.db.items = items
    BY <2>1, <2>8
  <2>11. \A x \in DOMAIN d.lists : r.db.lists[x].status =
            IF x = id /\ r.db # d THEN list.status ELSE d.lists[x].status
    BY <2>1, <2>6, <2>7, <2>9, <2>10
  <2>12. \A i \in DOMAIN items : items[i].status = d.items[i].status
    BY <2>3, <2>4, <2>5
  <2>13. \A i \in DOMAIN d.items \ DOMAIN items : d.items[i].list = id /\ list.status = "deleted"
    BY <2>3, <2>4
  <2>14. r.db.lists[id].status = list.status
    BY <2>2, <2>6, <2>7, <2>10
  <2> QED
    BY <2>2, <2>3, <2>4, <2>6, <2>10, <2>11, <2>12, <2>13, <2>14 DEF Relisted, r, id
<1> QED
  BY <1>5, <1>6

\* CreateList drops nothing, and no row has the id "".
LEMMA KeepsCreateList ==
    ASSUME NEW d, StoreOK(d), Nil \notin DOMAIN d.lists, NEW list, ListOK(list), NEW t
    PROVE  LET e == Store!CreateList(d, list, t).db
           IN  Stays(d, e) /\ Nil \notin DOMAIN e.lists
<1> DEFINE r == Store!CreateList(d, list, t)
           c == Store!CleanList(list)
           l == [c EXCEPT !.id = IF @ = Store!Nil THEN d.next ELSE @, !.modified = t]
           row == [name |-> l.name, pos |-> l.pos, status |-> l.status, modified |-> t,
                   ext |-> l.ext, row |-> d.next]
           lists == Store!With(Store!Shifted(d.lists, DOMAIN d.lists, l.pos), l.id, row)
           new == [d EXCEPT !.lists = lists, !.next = @ + 1]
<1>1. r.db = d \/ r.db = new
  BY DEF Store!CreateList
<1>2. ListOK(c)
  BY StoreCleanList
<1> HIDE DEF c, r
<1>3. l.id # Nil
  BY <1>2 DEF ListOK, ListFields, StoreOK, Store!Nil, Nil
<1> HIDE DEF l, row
<1>4. DOMAIN lists = DOMAIN d.lists \cup {l.id}
  BY DEF Store!With, Store!Shifted
<1> HIDE DEF lists
<1>5. new.lists = lists /\ new.items = d.items
  BY DEF StoreOK
<1> HIDE DEF new
<1>6. CASE r.db = d
  BY <1>6 DEF Stays, r
<1>7. CASE r.db = new
  <2>1. r.db.lists = lists /\ r.db.items = d.items
    BY <1>5, <1>7
  <2> QED
    BY <1>3, <1>4, <2>1 DEF Stays, r
<1> QED
  BY <1>1, <1>6, <1>7

\* UpdateList drops the items of a list that it marks, and writes its row only.
LEMMA KeepsUpdateList ==
    ASSUME NEW d, StoreOK(d), Nil \notin DOMAIN d.lists, NEW list, ListOK(list), NEW current, NEW t
    PROVE  LET e == Store!UpdateList(d, list, current, t).db
           IN  /\ Stays(d, e) /\ Nil \notin DOMAIN e.lists
               /\ Touches(d, e, {}, {Store!Resolved(d.lists, list.id, list.ext)})
<1> DEFINE e == Store!UpdateList(d, list, current, t).db
           id == Store!Resolved(d.lists, list.id, list.ext)
<1>1. Shaped(d)
  BY DEF Shaped, StoreOK, ItemRowsOK
<1>2. Relisted(d, e, id, list.status)
  BY <1>1, RelistedByUpdateList
<1> HIDE DEF e, id
<1>3. Stays(d, e)
  BY <1>2 DEF Stays, Relisted
<1>4. Touches(d, e, {}, {id})
  BY <1>2 DEF Touches, Relisted
<1> QED
  BY <1>2, <1>3, <1>4 DEF Relisted, e, id

\* DeleteList drops a list with its items, and leaves the others.
LEMMA KeepsDeleteList ==
    ASSUME NEW d, StoreOK(d), NEW list
    PROVE  LET e == Store!DeleteList(d, list).db
           IN  /\ DOMAIN e.lists \in SUBSET DOMAIN d.lists
               /\ Touches(d, e, {}, {})
               /\ Dead(d.lists, Store!Resolved(d.lists, list.id, list.ext)) => Stays(d, e)
<1> DEFINE r == Store!DeleteList(d, list)
           l == Store!Resolved(d.lists, list.id, list.ext)
           lists == Store!Only(d.lists, DOMAIN d.lists \ {l})
           items == Store!Unlinked(d.items, Store!ItemsOf(d, l))
           new == [d EXCEPT !.lists = lists, !.items = items]
<1>1. r.db = d \/ r.db = new
  BY DEF Store!DeleteList
<1> HIDE DEF r, l
<1>2. DOMAIN lists = DOMAIN d.lists \ {l} /\ \A x \in DOMAIN lists : lists[x] = d.lists[x]
  BY DEF Store!Only
<1> HIDE DEF lists
<1>3. /\ DOMAIN items = DOMAIN d.items \ Store!ItemsOf(d, l)
      /\ \A x \in DOMAIN items : \/ items[x] = d.items[x]
                                 \/ items[x] = [d.items[x] EXCEPT !.project = Store!Nil]
  BY DEF Store!Unlinked
<1> HIDE DEF items
<1>4. \A x \in DOMAIN items : x \in DOMAIN d.items /\ items[x].status = d.items[x].status
  BY <1>3 DEF StoreOK, ItemRowsOK, ItemColumns
<1>5. new.lists = lists /\ new.items = items
  BY DEF StoreOK
<1> HIDE DEF new
<1>6. CASE r.db = d
  BY <1>6 DEF Stays, Touches, r, l
<1>7. CASE r.db = new
  <2>1. r.db.lists = lists /\ r.db.items = items
    BY <1>5, <1>7
  <2>2. Touches(d, r.db, {}, {})
    BY <1>2, <1>4, <2>1 DEF Touches
  <2>3. ASSUME Dead(d.lists, l) PROVE Stays(d, r.db)
    BY <1>2, <1>3, <2>1, <2>3 DEF Stays, Dead, Store!ItemsOf
  <2> QED
    BY <1>2, <2>1, <2>2, <2>3 DEF r, l
<1> QED
  BY <1>1, <1>6, <1>7

\* DeleteItem drops the item, and leaves the others.
LEMMA KeepsDeleteItem ==
    ASSUME NEW d, StoreOK(d), NEW item, NEW t
    PROVE  LET e == Store!DeleteItem(d, item, t).db
           IN  /\ e.lists = d.lists
               /\ Touches(d, e, {}, {})
               /\ Dead(d.items, Store!Resolved(d.items, item.id, item.ext)) => Stays(d, e)
<1> DEFINE r == Store!DeleteItem(d, item, t)
           i == Store!Resolved(d.items, item.id, item.ext)
           touched == Store!Touched(d.items, Store!NextActions(d.items, i), t)
           items == Store!Unlinked(touched, {i})
           new == [d EXCEPT !.items = items]
<1>1. r.db = d \/ r.db = new
  BY DEF Store!DeleteItem
<1> HIDE DEF r, i
<1>2. \A x \in DOMAIN d.items : DOMAIN d.items[x] = ItemColumns
  BY DEF StoreOK, ItemRowsOK
<1>3. /\ DOMAIN touched = DOMAIN d.items
      /\ \A x \in DOMAIN touched : \/ touched[x] = d.items[x]
                                   \/ touched[x] = [d.items[x] EXCEPT !.modified = t]
  BY DEF Store!Touched
<1> HIDE DEF touched
<1>4. \A x \in DOMAIN touched : DOMAIN touched[x] = ItemColumns /\ touched[x].status = d.items[x].status
  <2> SUFFICES ASSUME NEW x \in DOMAIN touched
               PROVE  DOMAIN touched[x] = ItemColumns /\ touched[x].status = d.items[x].status
    OBVIOUS
  <2>1. DOMAIN d.items[x] = ItemColumns
    BY <1>2, <1>3
  <2> QED
    BY <1>3, <2>1 DEF ItemColumns
<1>5. /\ DOMAIN items = DOMAIN d.items \ {i}
      /\ \A x \in DOMAIN items : \/ items[x] = touched[x]
                                 \/ items[x] = [touched[x] EXCEPT !.project = Store!Nil]
  BY <1>3 DEF Store!Unlinked
<1> HIDE DEF items
<1>6. \A x \in DOMAIN items : x \in DOMAIN d.items /\ items[x].status = d.items[x].status
  <2> HIDE DEF new
  <2> SUFFICES ASSUME NEW x \in DOMAIN items
               PROVE  x \in DOMAIN d.items /\ items[x].status = d.items[x].status
    OBVIOUS
  <2>1. x \in DOMAIN d.items /\ x \in DOMAIN touched
    BY <1>3, <1>5
  <2>2. "status" \in DOMAIN touched[x]
    BY <1>4, <2>1 DEF ItemColumns
  <2>3. items[x].status = touched[x].status
    BY <1>5, <2>2
  <2> QED
    BY <1>4, <2>1, <2>3
<1>7. new.lists = d.lists /\ new.items = items
  BY DEF StoreOK
<1> HIDE DEF new
<1>8. CASE r.db = d
  BY <1>8 DEF Stays, Touches, r, i
<1>9. CASE r.db = new
  <2>1. r.db.lists = d.lists /\ r.db.items = items
    BY <1>7, <1>9
  <2>2. Touches(d, r.db, {}, {})
    BY <1>6, <2>1 DEF Touches
  <2>3. ASSUME Dead(d.items, i) PROVE Stays(d, r.db)
    BY <1>5, <2>1, <2>3 DEF Stays, Dead
  <2> QED
    BY <2>1, <2>2, <2>3 DEF r, i
<1> QED
  BY <1>1, <1>8, <1>9

\* An operation leaves the lists there are, and writes the items of a set.
Rewrites(d, e, items) ==
    Stays(d, e) /\ DOMAIN e.lists = DOMAIN d.lists /\ Touches(d, e, items, {})

\* UpdateItem writes one row, and drops what was in a list that is marked; so does its
\* first transaction alone.
LEMMA KeepsUpdateItem ==
    ASSUME NEW d, StoreOK(d), Nil \notin DOMAIN d.lists, NEW item, ItemOK(item), NEW t
    PROVE  LET r == Store!UpdateItem(d, item, t)
               id == Store!Resolved(d.items, item.id, item.ext)
           IN  /\ Rewrites(d, r.db, {id})
               /\ "partial" \in DOMAIN r => \A e \in r.partial : Rewrites(d, e, {id})
<1> DEFINE r == Store!UpdateItem(d, item, t)
           id == Store!Resolved(d.items, item.id, item.ext)
           l == Store!Resolved(d.lists, item.list, item.xlist)
           i == [item EXCEPT !.id = id, !.list = l, !.modified = t]
           Named == item.xproject # Store!Nil \/ item.tag # Store!NoTag \/ item.ext = Store!Nil
           project == Store!ProjectFor(d, [item EXCEPT !.id = i.id], l, Named)
           tag == Store!TagFor(d, item, l)
           row == [d.items[i.id] EXCEPT !.status = i.status, !.text = i.text, !.modified = t,
                                        !.project = project,
                                        !.tag = IF tag = Store!NoTag THEN @ ELSE tag,
                                        !.ext = Store!Coalesce(i.ext, @)]
           renamed == Store!Renamed(d, [item EXCEPT !.id = i.id], l)
           items == Store!With(renamed, i.id, row)
           updated == [d EXCEPT !.items = items]
           list == Store!GetList(d, l)
           sorted == Store!UpdateList(updated, list, list.items, t)
           found == [i EXCEPT !.project = project]
           Error == \/ item.status = "open"
                    \/ l \notin DOMAIN d.lists
                    \/ i.id \notin DOMAIN d.items
                    \/ Store!ExternalTaken(d.items, i.ext, i.id)
                    \/ project \notin DOMAIN d.items \cup {Nil}
<1>1. r = IF Error THEN [result |-> "error", db |-> d, item |-> item]
                   ELSE Store!@@(sorted, [item |-> found, partial |-> {updated}])
  BY DEF Store!UpdateItem, Store!Resort, Store!Nil, Nil
<1>2. i.id = id
  BY DEF ItemOK, ItemFields
<1> HIDE DEF r, l, id, i, Named, project, tag, found
<1>3. CASE Error
  <2>1. r.db = d /\ "partial" \notin DOMAIN r
    BY <1>1, <1>3
  <2> HIDE DEF Error
  <2> QED
    BY <2>1 DEF Rewrites, Stays, Touches, r, id
<1>4. CASE ~Error
  <2>1. l \in DOMAIN d.lists /\ id \in DOMAIN d.items
    BY <1>2, <1>4
  <2>2. \A x \in DOMAIN d.items : DOMAIN d.items[x] = ItemColumns
    BY DEF StoreOK, ItemRowsOK
  <2>3. /\ DOMAIN renamed = DOMAIN d.items
        /\ \A x \in DOMAIN renamed : /\ DOMAIN renamed[x] = ItemColumns
                                     /\ renamed[x].status = d.items[x].status
                                     /\ renamed[x].list = d.items[x].list
    <3> DEFINE e == [item EXCEPT !.id = i.id]
               touched == Store!Touched(d.items, Store!NextActions(d.items, e.id), e.modified)
    <3>1. renamed = touched \/ renamed = d.items
      BY DEF Store!Renamed
    <3>2. /\ DOMAIN touched = DOMAIN d.items
          /\ \A x \in DOMAIN touched : \/ touched[x] = d.items[x]
                                       \/ touched[x] = [d.items[x] EXCEPT !.modified = e.modified]
      BY DEF Store!Touched
    <3> HIDE DEF e, touched
    <3>3. ASSUME NEW x \in DOMAIN touched
          PROVE  /\ DOMAIN touched[x] = ItemColumns /\ touched[x].status = d.items[x].status
                 /\ touched[x].list = d.items[x].list
      <4>1. DOMAIN d.items[x] = ItemColumns
        BY <2>2, <3>2
      <4> QED
        BY <3>2, <4>1 DEF ItemColumns
    <3> HIDE DEF renamed
    <3> QED
      BY <2>2, <3>1, <3>2, <3>3
  <2> HIDE DEF renamed
  <2>4. DOMAIN row = ItemColumns /\ row.list = d.items[id].list
    BY <1>2, <2>1, <2>2 DEF ItemColumns
  <2> HIDE DEF row
  <2>5. /\ DOMAIN items = DOMAIN d.items
        /\ \A x \in DOMAIN items : items[x] = IF x = id THEN row ELSE renamed[x]
    BY <1>2, <2>1, <2>3 DEF Store!With
  <2> HIDE DEF items
  <2>6. \A x \in DOMAIN items : /\ DOMAIN items[x] = ItemColumns /\ items[x].list = d.items[x].list
                                /\ x # id => items[x].status = d.items[x].status
    BY <2>3, <2>4, <2>5
  <2>7. updated.lists = d.lists /\ updated.items = items /\ DOMAIN updated = DOMAIN d
    BY DEF StoreOK
  <2> HIDE DEF updated
  <2>8. Shaped(updated)
    BY <2>6, <2>7 DEF Shaped, StoreOK
  <2>9. ListOK(list) /\ list.id = l /\ list.status = d.lists[l].status
    BY <2>1, StoreGetList DEF Store!GetList
  <2> HIDE DEF list
  <2>10. Store!Resolved(updated.lists, list.id, list.ext) = l
    BY <2>1, <2>9 DEF Store!Resolved, Store!Nil, Nil
  <2>11. DOMAIN sorted = {"result", "db", "list"}
    BY DEF Store!UpdateList
  <2>12. /\ DOMAIN sorted.db.lists = DOMAIN d.lists /\ DOMAIN sorted.db.items \in SUBSET DOMAIN items
         /\ \A x \in DOMAIN d.lists : sorted.db.lists[x].status = d.lists[x].status
         /\ \A x \in DOMAIN sorted.db.items : sorted.db.items[x].status = items[x].status
         /\ \A x \in DOMAIN items \ DOMAIN sorted.db.items :
                items[x].list = l /\ sorted.db.lists[l].status = "deleted"
    <3>1. Relisted(updated, sorted.db, l, list.status)
      <4>1. Relisted(updated, sorted.db, Store!Resolved(updated.lists, list.id, list.ext), list.status)
        BY <2>8, <2>9, RelistedByUpdateList
      <4> QED
        BY <2>10, <4>1
    <3> HIDE DEF sorted
    <3> QED
      BY <2>7, <2>9, <3>1 DEF Relisted
  <2> HIDE DEF sorted
  <2>13. r = Store!@@(sorted, [item |-> found, partial |-> {updated}])
    BY <1>1, <1>4
  <2>14. r.db = sorted.db /\ r.partial = {updated}
    BY <2>11, <2>13 DEF Store!@@
  <2>15. Stays(d, r.db)
    BY <2>5, <2>6, <2>12, <2>14 DEF Stays
  <2>16. Touches(d, r.db, {id}, {})
    BY <2>5, <2>6, <2>12, <2>14 DEF Touches
  <2>17. Stays(d, updated) /\ Touches(d, updated, {id}, {})
    BY <2>5, <2>6, <2>7 DEF Stays, Touches
  <2> QED
    BY <2>7, <2>12, <2>14, <2>15, <2>16, <2>17 DEF Rewrites, r, id
<1> QED
  BY <1>3, <1>4

\* CreateItem adds one row, and drops what was in a list that is marked; so does its
\* first transaction alone.
LEMMA KeepsCreateItem ==
    ASSUME NEW d, StoreOK(d), Nil \notin DOMAIN d.lists, NEW item, ItemOK(item), NEW t
    PROVE  LET r == Store!CreateItem(d, item, t)
           IN  /\ Stays(d, r.db) /\ DOMAIN r.db.lists = DOMAIN d.lists
               /\ "partial" \in DOMAIN r =>
                     \A e \in r.partial : Stays(d, e) /\ DOMAIN e.lists = DOMAIN d.lists
<1> DEFINE r == Store!CreateItem(d, item, t)
           l == Store!Resolved(d.lists, item.list, item.xlist)
           Named == item.xproject # Store!Nil \/ item.tag # Store!NoTag
           project == Store!ProjectFor(d, item, l, Named)
           i == [item EXCEPT !.id = IF @ = Store!Nil THEN d.next ELSE @, !.list = l, !.modified = t,
                             !.project = project]
           row == [list |-> l, pos |-> i.pos, status |-> i.status, text |-> i.text,
                   tag |-> Store!TagFor(d, item, l), project |-> i.project,
                   modified |-> t, ext |-> i.ext, row |-> d.next]
           shifted == Store!Shifted(d.items, Store!ItemsOf(d, l), i.pos)
           items == Store!With(shifted, i.id, row)
           inserted == [d EXCEPT !.items = items, !.next = @ + 1]
           list == Store!GetList(d, l)
           sorted == Store!UpdateList(inserted, list, list.items, t)
           Error == \/ item.status \in {"open", "deleted"}
                    \/ l \notin DOMAIN d.lists
                    \/ i.id \in DOMAIN d.items
                    \/ Store!ExternalTaken(d.items, i.ext, i.id)
                    \/ i.project \notin DOMAIN d.items \cup {Nil}
<1>1. r = IF Error THEN [result |-> "error", db |-> d, item |-> item]
                   ELSE Store!@@(sorted, [item |-> i, partial |-> {inserted}])
  BY DEF Store!CreateItem, Store!Resort, Store!Nil, Nil
<1> HIDE DEF r, l, Named, project, i
<1>2. DOMAIN row = ItemColumns
  BY DEF ItemColumns
<1> HIDE DEF row
<1>3. CASE Error
  <2>1. r.db = d /\ "partial" \notin DOMAIN r
    BY <1>1, <1>3
  <2> HIDE DEF Error
  <2> QED
    BY <2>1 DEF Stays, r
<1>4. CASE ~Error
  <2>1. l \in DOMAIN d.lists /\ i.id \notin DOMAIN d.items
    BY <1>4
  <2>2. \A x \in DOMAIN d.items : DOMAIN d.items[x] = ItemColumns
    BY DEF StoreOK, ItemRowsOK
  <2>3. /\ DOMAIN shifted = DOMAIN d.items
        /\ \A x \in DOMAIN shifted : \/ shifted[x] = d.items[x]
                                     \/ shifted[x] = [d.items[x] EXCEPT !.pos = @ + 1]
    BY DEF Store!Shifted
  <2> HIDE DEF shifted
  <2>4. ASSUME NEW x \in DOMAIN shifted
        PROVE  DOMAIN shifted[x] = ItemColumns /\ shifted[x].list = d.items[x].list
    <3>1. DOMAIN d.items[x] = ItemColumns
      BY <2>2, <2>3
    <3> QED
      BY <2>3, <3>1 DEF ItemColumns
  <2>5. /\ DOMAIN items = DOMAIN d.items \cup {i.id}
        /\ \A x \in DOMAIN items : items[x] = IF x = i.id THEN row ELSE shifted[x]
    BY <2>3 DEF Store!With
  <2> HIDE DEF items
  <2>6. /\ \A x \in DOMAIN items : DOMAIN items[x] = ItemColumns
        /\ \A x \in DOMAIN d.items : x \in DOMAIN items /\ items[x].list = d.items[x].list
    BY <1>2, <2>1, <2>3, <2>4, <2>5
  <2>7. inserted.lists = d.lists /\ inserted.items = items /\ DOMAIN inserted = DOMAIN d
    BY DEF StoreOK
  <2> HIDE DEF inserted
  <2>8. Shaped(inserted)
    BY <2>6, <2>7 DEF Shaped, StoreOK
  <2>9. ListOK(list) /\ list.id = l /\ list.status = d.lists[l].status
    BY <2>1, StoreGetList DEF Store!GetList
  <2> HIDE DEF list
  <2>10. Store!Resolved(inserted.lists, list.id, list.ext) = l
    BY <2>1, <2>9 DEF Store!Resolved, Store!Nil, Nil
  <2>11. DOMAIN sorted = {"result", "db", "list"}
    BY DEF Store!UpdateList
  <2>12. /\ DOMAIN sorted.db.lists = DOMAIN d.lists
         /\ \A x \in DOMAIN items \ DOMAIN sorted.db.items :
                items[x].list = l /\ sorted.db.lists[l].status = "deleted"
    <3>1. Relisted(inserted, sorted.db, l, list.status)
      <4>1. Relisted(inserted, sorted.db, Store!Resolved(inserted.lists, list.id, list.ext), list.status)
        BY <2>8, <2>9, RelistedByUpdateList
      <4> QED
        BY <2>10, <4>1
    <3> HIDE DEF sorted
    <3> QED
      BY <2>7, <2>9, <3>1 DEF Relisted
  <2> HIDE DEF sorted
  <2>13. r = Store!@@(sorted, [item |-> i, partial |-> {inserted}])
    BY <1>1, <1>4
  <2>14. r.db = sorted.db /\ r.partial = {inserted}
    BY <2>11, <2>13 DEF Store!@@
  <2>15. Stays(d, r.db)
    BY <2>6, <2>12, <2>14 DEF Stays
  <2>16. Stays(d, inserted)
    BY <2>6, <2>7 DEF Stays
  <2> QED
    BY <2>7, <2>12, <2>14, <2>15, <2>16 DEF r
<1> QED
  BY <1>3, <1>4

-----------------------------------------------------------------------------
(* What a session knows of the marks of its source. *)

\* Items, and lists with their items, of which none is marked deleted.
NoneMarked(items) == \A j \in DOMAIN items : items[j].status # "deleted"
Unmarked(lists) == \A k \in DOMAIN lists : lists[k].status # "deleted" /\ NoneMarked(lists[k].items)

\* The ids of the entries of a map that are marked, an id that is not among them, and
\* items whose live ones have such ids.
Marked(map) == {map[k].id : k \in {x \in DOMAIN map : map[x].status = "deleted"}}
Safe(id, map) == id # Nil /\ id \notin Marked(map)
Spared(items, map) == \A k \in DOMAIN items : items[k].status # "deleted" => Safe(items[k].id, map)

\* The entry of a map is there and marked.
DeadEntry(map, key) == key \in DOMAIN map /\ map[key].status = "deleted"

\* The items of the list that the deletion phase is at, as it sees them.
ViewIn(s) ==
    LET list == s.dst[s.di] IN IF KeyIn(s, list) \in DOMAIN s.view THEN s.view[KeyIn(s, list)] ELSE list.items

\* Nothing that a remote lists is marked; what the store listed unmarked is another
\* row than what it listed marked.
Base(s) ==
    /\ Unmarked(s.listing)
    /\ s.direction = "pull" => Marked(s.srcItems) = {} /\ Marked(s.srcLists) = {}
    /\ s.direction = "push" =>
          \A k \in DOMAIN s.src :
              /\ s.src[k].status # "deleted" => Safe(s.src[k].id, s.srcLists)
              /\ Spared(s.src[k].items, s.srcItems)

\* So it is of the list in the loop; and what is to be purged is marked.
Spot(s) ==
    /\ s.direction = "push" /\ InList(s) => Safe(s.cur.id, s.srcLists) /\ Spared(s.cur.items, s.srcItems)
    /\ s.direction = "push" /\ s.at = "backfill item" => Safe(s.cur.items[s.ii].id, s.srcItems)
    /\ s.at = "purge list" => DeadEntry(s.srcLists, KeyIn(s, s.dst[s.di]))
    /\ s.at = "purge item" => DeadEntry(s.srcItems, KeyIn(s, ViewIn(s)[s.dj]))

\* What a push has found marked is still marked in the database d, or gone.
DeadRows(s, d) ==
    s.direction = "push" =>
        /\ \A x \in Marked(s.srcLists) : x # Nil /\ Dead(d.lists, x)
        /\ \A x \in Marked(s.srcItems) : x # Nil /\ Dead(d.items, x)

\* All that a session knows of marks, against the database d.
MarksOK(s, d) == Base(s) /\ Spot(s) /\ DeadRows(s, d)

\* The inductive invariant: no list has the id "", which the store takes for none, and
\* a session that is under way is right about the marks.
MarkInv == Nil \notin DOMAIN db.lists /\ (ss.at # "idle" => MarksOK(ss, db))

\* A step within a pass leaves this.
Kept == Stays(db, db') /\ Nil \notin DOMAIN db'.lists /\ MarksOK(ss', db')

\* The two sessions know the same of what is marked.
SameMarks(s, t) ==
    /\ t.listing = s.listing /\ t.direction = s.direction
    /\ t.src = s.src /\ t.srcLists = s.srcLists /\ t.srcItems = s.srcItems

\* The database after a call of p that returned r.
After(p, r) == IF p = "store" THEN r.db ELSE db

\* The database e has lost nothing that was not marked, nor a mark from what the
\* session knows to be marked.
Harmless(e) == Stays(db, e) /\ Nil \notin DOMAIN e.lists /\ DeadRows(ss, e)

\* So has the one that a call of p leaves which returns r, or fails half-way.
Calm(p, r) ==
    /\ Harmless(After(p, r))
    /\ p = "store" /\ "partial" \in DOMAIN r => \A e \in r.partial : Harmless(e)

\* Where a session is not in a list, nor about to purge, there is nothing to say.
LEMMA SpotElsewhere ==
    ASSUME NEW s, ~InList(s), s.at \notin {"purge list", "purge item"}
    PROVE  Spot(s)
  BY DEF Spot, InList, Adding

\* The session goes on with what it knew.
LEMMA SameMarksOK ==
    ASSUME NEW s, NEW t, SameMarks(s, t), NEW d, Base(s), DeadRows(s, d), Spot(t)
    PROVE  MarksOK(t, d)
  BY DEF SameMarks, Base, DeadRows, MarksOK

\* So it does with another listing under way.
LEMMA ListingMarksOK ==
    ASSUME NEW s, NEW t, NEW d, Base(s), DeadRows(s, d), Spot(t), Unmarked(t.listing),
           t.direction = s.direction, t.src = s.src, t.srcLists = s.srcLists, t.srcItems = s.srcItems
    PROVE  MarksOK(t, d)
<1>1. Base(t)
  BY DEF Base
<1>2. DeadRows(t, d)
  BY DEF DeadRows
<1> QED
  BY <1>1, <1>2 DEF MarksOK

\* A session that returns, with whatever result, leaves what it knew.
LEMMA ReturningMarks ==
    ASSUME Frame(ss), Base(ss), NEW d, DeadRows(ss, d), NEW result
    PROVE  MarksOK(Return(result), d)
<1> DEFINE t == Return(result)
<1>1. SameMarks(ss, t) /\ t.at = "returned"
  BY DEF Return, Frame, SessionFields, Session, SameMarks
<1> HIDE DEF t
<1>2. Spot(t)
  BY <1>1, SpotElsewhere DEF InList, Adding, Updating
<1> QED
  BY <1>1, <1>2, SameMarksOK DEF t

\* A database that does not change loses nothing.
LEMMA StaysPut == \A d : Stays(d, d)
  BY DEF Stays

\* A step without a call.
LEMMA SilentMarks ==
    ASSUME Nil \notin DOMAIN db.lists, NEW s, MarksOK(s, db), Silently(s)
    PROVE  Kept
  BY StaysPut DEF Silently, worldVars, Kept

\* A call that succeeds, one that fails and one that is made to fail.
LEMMA CallMarks ==
    ASSUME Frame(ss), MarksOK(ss, db), Nil \notin DOMAIN db.lists, NEW p \in Providers, NEW r,
           Answer(p, r), Calm(p, r),
           NEW s, r.result = "ok" => MarksOK(s, After(p, r)), Proceed(p, r, s)
    PROVE  Kept
<1>0. Base(ss) /\ DeadRows(ss, db)
  BY DEF MarksOK
<1>1. CASE Apply(p, r) /\ UNCHANGED faults /\ ss' = IF r.result = "ok" THEN s ELSE Return(r.result)
  <2>1. db' = After(p, r)
    BY <1>1 DEF Apply, After
  <2>2. DeadRows(ss, db') /\ Stays(db, db') /\ Nil \notin DOMAIN db'.lists
    BY <2>1 DEF Calm, Harmless
  <2>3. MarksOK(Return(r.result), db')
    BY <1>0, <2>2, ReturningMarks
  <2> QED
    BY <1>1, <2>1, <2>2, <2>3 DEF Kept
<1>2. CASE /\ p \in Faulty /\ faults < MaxFaults
           /\ faults' = faults + 1 /\ ss' = Return("error")
           /\ \E half \in HalfDone(p, r) : Apply(p, half)
  <2>1. PICK half \in HalfDone(p, r) : Apply(p, half)
    BY <1>2
  <2>2. Harmless(db')
    <3>1. CASE p = "store"
      <4>1. half \in {[db |-> d] : d \in {db} \cup (IF "partial" \in DOMAIN r THEN r.partial ELSE {})}
        BY <3>1 DEF HalfDone
      <4>2. half.db = db \/ ("partial" \in DOMAIN r /\ half.db \in r.partial)
        BY <4>1
      <4>3. db' = half.db
        BY <2>1, <3>1 DEF Apply
      <4> QED
        BY <1>0, <3>1, <4>2, <4>3, StaysPut DEF Calm, Harmless
    <3>2. CASE p # "store"
      <4>1. db' = db
        BY <2>1, <3>2 DEF Apply
      <4> QED
        BY <1>0, <4>1, StaysPut DEF Harmless
    <3> QED
      BY <3>1, <3>2
  <2>3. MarksOK(Return("error"), db')
    BY <1>0, <2>2, ReturningMarks DEF Harmless
  <2> QED
    BY <1>2, <2>2, <2>3 DEF Kept, Harmless
<1> QED
  BY <1>1, <1>2 DEF Proceed

-----------------------------------------------------------------------------
(* The calls a session makes. *)

\* A remote's call does not touch the database.
LEMMA RemoteIsCalm ==
    ASSUME MarksOK(ss, db), Nil \notin DOMAIN db.lists, NEW p, p # "store", NEW r
    PROVE  Calm(p, r) /\ After(p, r) = db
  BY StaysPut DEF Calm, Harmless, After, MarksOK

\* A call of the store that is one transaction.
LEMMA OneTransaction ==
    ASSUME NEW r, "partial" \notin DOMAIN r, Harmless(r.db)
    PROVE  Calm("store", r)
  BY DEF Calm, After

\* These operations of the store never commit half their work.
LEMMA WholeTransactions ==
    /\ \A d, list, t : "partial" \notin DOMAIN Store!CreateList(d, list, t)
    /\ \A d, list, current, t : "partial" \notin DOMAIN Store!UpdateList(d, list, current, t)
    /\ \A d, list : "partial" \notin DOMAIN Store!DeleteList(d, list)
    /\ \A d, item, t : "partial" \notin DOMAIN Store!DeleteItem(d, item, t)
  BY DEF Store!CreateList, Store!UpdateList, Store!DeleteList, Store!DeleteItem

\* Marks stay where no marked row is written.
LEMMA DeadRowsStay ==
    ASSUME NEW s, NEW d, NEW e, NEW items, NEW lists, Touches(d, e, items, lists), DeadRows(s, d),
           s.direction = "push" => /\ \A x \in items : x \notin Marked(s.srcItems)
                                   /\ \A x \in lists : x \notin Marked(s.srcLists)
    PROVE  DeadRows(s, e)
  BY DEF Touches, DeadRows, Dead

\* The destination creates and updates.
LEMMA DestinationIsCalm ==
    ASSUME WorldOK, Frame(ss), MarksOK(ss, db), Nil \notin DOMAIN db.lists
    PROVE  /\ \A list : ListOK(list) => Calm(Destination, CallCreateList(Destination, list))
           /\ \A list, current :
                 ListOK(list) => Calm(Destination, CallUpdateList(Destination, list, current))
           /\ \A item, prev :
                 ItemOK(item) => Calm(Destination, CallCreateItem(Destination, item, prev))
           /\ \A item : ItemOK(item) => Calm(Destination, CallUpdateItem(Destination, item))
<1>0. StoreOK(db)
  BY DEF WorldOK
<1>1. CASE Destination # "store"
  BY <1>1, RemoteIsCalm
<1>2. CASE Destination = "store"
  <2>1. \A d : DeadRows(ss, d)
    BY <1>2, Sides DEF DeadRows
  <2>2. ASSUME NEW list, ListOK(list)
        PROVE  Calm("store", Store!CreateList(db, list, now))
    BY <1>0, <2>1, <2>2, KeepsCreateList, WholeTransactions, OneTransaction DEF Harmless
  <2>3. ASSUME NEW list, ListOK(list), NEW current
        PROVE  Calm("store", Store!UpdateList(db, list, current.items, now))
    BY <1>0, <2>1, <2>3, KeepsUpdateList, WholeTransactions, OneTransaction DEF Harmless
  <2>4. ASSUME NEW item, ItemOK(item)
        PROVE  Calm("store", Store!CreateItem(db, item, now)) /\ Calm("store", Store!UpdateItem(db, item, now))
    <3>1. Calm("store", Store!CreateItem(db, item, now))
      <4> DEFINE r == Store!CreateItem(db, item, now)
      <4>1. /\ Stays(db, r.db) /\ DOMAIN r.db.lists = DOMAIN db.lists
            /\ "partial" \in DOMAIN r =>
                  \A e \in r.partial : Stays(db, e) /\ DOMAIN e.lists = DOMAIN db.lists
        BY <1>0, <2>4, KeepsCreateItem
      <4> HIDE DEF r
      <4>2. Calm("store", r)
        BY <2>1, <4>1 DEF Calm, Harmless, After
      <4> QED
        BY <4>2 DEF r
    <3>2. Calm("store", Store!UpdateItem(db, item, now))
      <4> DEFINE r == Store!UpdateItem(db, item, now)
                 id == Store!Resolved(db.items, item.id, item.ext)
      <4>1. /\ Rewrites(db, r.db, {id})
            /\ "partial" \in DOMAIN r => \A e \in r.partial : Rewrites(db, e, {id})
        BY <1>0, <2>4, KeepsUpdateItem
      <4> HIDE DEF r
      <4>2. Calm("store", r)
        BY <2>1, <4>1 DEF Calm, Harmless, After, Rewrites
      <4> QED
        BY <4>2 DEF r
    <3> QED
      BY <3>1, <3>2
  <2> QED
    BY <1>2, <2>2, <2>3, <2>4 DEF CallCreateList, CallUpdateList, CallCreateItem, CallUpdateItem
<1> QED
  BY <1>1, <1>2

\* The source gets an identifier of a row that is not marked.
LEMMA BackfillIsCalm ==
    ASSUME WorldOK, Frame(ss), MarksOK(ss, db), Nil \notin DOMAIN db.lists
    PROVE  /\ \A list, current :
                 ListOK(list) /\ (ss.direction = "push" => Safe(list.id, ss.srcLists)) =>
                     Calm(Source, CallUpdateList(Source, list, current))
           /\ \A item :
                 ItemOK(item) /\ (ss.direction = "push" => Safe(item.id, ss.srcItems)) =>
                     Calm(Source, CallUpdateItem(Source, item))
<1>0. StoreOK(db) /\ DeadRows(ss, db)
  BY DEF WorldOK, MarksOK
<1>1. CASE Source # "store"
  BY <1>1, RemoteIsCalm
<1>2. CASE Source = "store"
  <2>1. ss.direction = "push"
    BY <1>2, Sides DEF Frame
  <2>2. ASSUME NEW list, ListOK(list), Safe(list.id, ss.srcLists), NEW current
        PROVE  Calm("store", Store!UpdateList(db, list, current.items, now))
    <3> DEFINE e == Store!UpdateList(db, list, current.items, now).db
    <3>1. Store!Resolved(db.lists, list.id, list.ext) = list.id
      BY <2>2 DEF Store!Resolved, Store!Nil, Nil, Safe
    <3>2. Stays(db, e) /\ Nil \notin DOMAIN e.lists /\ Touches(db, e, {}, {list.id})
      BY <1>0, <2>2, <3>1, KeepsUpdateList
    <3> HIDE DEF e
    <3>3. DeadRows(ss, e)
      BY <1>0, <2>2, <3>2, DeadRowsStay DEF Safe
    <3> QED
      BY <3>2, <3>3, WholeTransactions, OneTransaction DEF Harmless, e
  <2>3. ASSUME NEW item, ItemOK(item), Safe(item.id, ss.srcItems)
        PROVE  Calm("store", Store!UpdateItem(db, item, now))
    <3> DEFINE r == Store!UpdateItem(db, item, now)
    <3>1. Store!Resolved(db.items, item.id, item.ext) = item.id
      BY <2>3 DEF Store!Resolved, Store!Nil, Nil, Safe
    <3>2. /\ Rewrites(db, r.db, {item.id})
          /\ "partial" \in DOMAIN r => \A e \in r.partial : Rewrites(db, e, {item.id})
      BY <1>0, <2>3, <3>1, KeepsUpdateItem
    <3> HIDE DEF r
    <3>3. ASSUME NEW e, Rewrites(db, e, {item.id})
          PROVE  Harmless(e)
      <4>1. DeadRows(ss, e)
        BY <1>0, <2>3, <3>3, DeadRowsStay DEF Safe, Rewrites
      <4> QED
        BY <3>3, <4>1 DEF Harmless, Rewrites
    <3>4. Calm("store", r)
      BY <3>2, <3>3 DEF Calm, After
    <3> QED
      BY <3>4 DEF r
  <2> QED
    BY <1>2, <2>1, <2>2, <2>3 DEF CallUpdateList, CallUpdateItem
<1> QED
  BY <1>1, <1>2

\* What is purged from the source is marked there.
LEMMA PurgeIsCalm ==
    ASSUME WorldOK, Frame(ss), MarksOK(ss, db), Nil \notin DOMAIN db.lists
    PROVE  /\ \A key : DeadEntry(ss.srcLists, key) => Calm(Source, CallDeleteList(Source, ss.srcLists[key]))
           /\ \A key : DeadEntry(ss.srcItems, key) => Calm(Source, CallDeleteItem(Source, ss.srcItems[key]))
<1>0. StoreOK(db) /\ DeadRows(ss, db)
  BY DEF WorldOK, MarksOK
<1>1. CASE Source # "store"
  BY <1>1, RemoteIsCalm
<1>2. CASE Source = "store"
  <2>1. ss.direction = "push"
    BY <1>2, Sides DEF Frame
  <2>2. ASSUME NEW key, DeadEntry(ss.srcLists, key)
        PROVE  Calm("store", Store!DeleteList(db, ss.srcLists[key]))
    <3> DEFINE list == ss.srcLists[key]
               e == Store!DeleteList(db, list).db
    <3>1. list.id \in Marked(ss.srcLists)
      BY <2>2 DEF Marked, DeadEntry
    <3>2. list.id # Nil /\ Dead(db.lists, list.id)
      BY <1>0, <2>1, <3>1 DEF DeadRows
    <3> HIDE DEF list
    <3>3. Store!Resolved(db.lists, list.id, list.ext) = list.id
      BY <3>2 DEF Store!Resolved, Store!Nil, Nil
    <3>4. DOMAIN e.lists \in SUBSET DOMAIN db.lists /\ Touches(db, e, {}, {}) /\ Stays(db, e)
      <4>1. StoreOK(db)
        BY <1>0
      <4>2. /\ DOMAIN e.lists \in SUBSET DOMAIN db.lists /\ Touches(db, e, {}, {})
            /\ Dead(db.lists, Store!Resolved(db.lists, list.id, list.ext)) => Stays(db, e)
        BY <4>1, KeepsDeleteList
      <4> QED
        BY <3>2, <3>3, <4>2
    <3> HIDE DEF e
    <3>5. DeadRows(ss, e)
      BY <1>0, <3>4, DeadRowsStay
    <3> QED
      BY <3>4, <3>5, WholeTransactions, OneTransaction DEF Harmless, e, list
  <2>3. ASSUME NEW key, DeadEntry(ss.srcItems, key)
        PROVE  Calm("store", Store!DeleteItem(db, ss.srcItems[key], now))
    <3> DEFINE item == ss.srcItems[key]
               e == Store!DeleteItem(db, item, now).db
    <3>1. item.id \in Marked(ss.srcItems)
      BY <2>3 DEF Marked, DeadEntry
    <3>2. item.id # Nil /\ Dead(db.items, item.id)
      BY <1>0, <2>1, <3>1 DEF DeadRows
    <3> HIDE DEF item
    <3>3. Store!Resolved(db.items, item.id, item.ext) = item.id
      BY <3>2 DEF Store!Resolved, Store!Nil, Nil
    <3>4. e.lists = db.lists /\ Touches(db, e, {}, {}) /\ Stays(db, e)
      <4>1. StoreOK(db)
        BY <1>0
      <4>2. /\ e.lists = db.lists /\ Touches(db, e, {}, {})
            /\ Dead(db.items, Store!Resolved(db.items, item.id, item.ext)) => Stays(db, e)
        BY <4>1, KeepsDeleteItem
      <4> QED
        BY <3>2, <3>3, <4>2
    <3> HIDE DEF e
    <3>5. DeadRows(ss, e)
      BY <1>0, <3>4, DeadRowsStay
    <3> QED
      BY <3>4, <3>5, WholeTransactions, OneTransaction DEF Harmless, e, item
  <2> QED
    BY <1>2, <2>2, <2>3 DEF CallDeleteList, CallDeleteItem
<1> QED
  BY <1>1, <1>2

\* The destination deletes at once what the source has marked, so in a push only.
LEMMA DeletionIsCalm ==
    ASSUME Frame(ss), MarksOK(ss, db), Nil \notin DOMAIN db.lists, NEW p, p = Destination,
           NEW key, DeadEntry(ss.srcLists, key) \/ DeadEntry(ss.srcItems, key), NEW r
    PROVE  Calm(p, r) /\ After(p, r) = db
<1>1. ss.direction # "pull"
  BY DEF MarksOK, Base, DeadEntry, Marked
<1>2. p # "store"
  BY <1>1, Sides DEF Frame
<1> QED
  BY <1>2, RemoteIsCalm

-----------------------------------------------------------------------------
(* What the listings say of marks. *)

\* Every entry is a row, with its status.
Genuine(lists, d) ==
    \A k \in DOMAIN lists :
        /\ lists[k].id \in DOMAIN d.lists /\ lists[k].status = d.lists[lists[k].id].status
        /\ \A j \in DOMAIN lists[k].items :
              LET i == lists[k].items[j] IN i.id \in DOMAIN d.items /\ i.status = d.items[i.id].status

\* Every list and item that the store lists is a row, with its status (ListLists of the
\* store).
LEMMA StoreListsRows ==
    ASSUME NEW d, StoreOK(d)
    PROVE  Genuine(Store!ListLists(d), d)
<1> DEFINE ids == Store!InOrder(d.lists, DOMAIN d.lists)
           lists == Store!ListLists(d)
<1>1. \A k \in DOMAIN ids : ids[k] \in DOMAIN d.lists
  BY InOrderOf DEF StoreOK
<1>2. lists = [k \in DOMAIN ids |-> [Store!GetList(d, ids[k]) EXCEPT !.pos = k - 1]]
  BY DEF Store!ListLists
<1> HIDE DEF ids, lists
<1>3. ASSUME NEW l \in DOMAIN d.lists
      PROVE  LET list == Store!GetList(d, l)
             IN  /\ DOMAIN list = ListFields /\ list.id = l /\ list.status = d.lists[l].status
                 /\ \A j \in DOMAIN list.items :
                       /\ list.items[j].id \in DOMAIN d.items
                       /\ list.items[j].status = d.items[list.items[j].id].status
  <2> DEFINE rows == Store!InOrder(d.items, Store!ItemsOf(d, l))
             list == Store!GetList(d, l)
             items == Store!GetItems(d, l)
  <2>1. Store!ItemsOf(d, l) \in SUBSET DOMAIN d.items
    BY DEF Store!ItemsOf
  <2>2. \A j \in DOMAIN rows : rows[j] \in DOMAIN d.items
    BY <2>1, InOrderOf DEF StoreOK
  <2>3. /\ DOMAIN items = DOMAIN rows
        /\ \A j \in DOMAIN rows : items[j].id = rows[j] /\ items[j].status = d.items[rows[j]].status
    <3> HIDE DEF rows
    <3> QED
      BY DEF Store!GetItems, rows
  <2> HIDE DEF rows, items
  <2>4. DOMAIN list = ListFields /\ list.id = l /\ list.status = d.lists[l].status /\ list.items = items
    BY DEF Store!GetList, items, ListFields
  <2> HIDE DEF list
  <2> QED
    BY <2>2, <2>3, <2>4 DEF list
<1>4. ASSUME NEW k \in DOMAIN lists
      PROVE  /\ lists[k].id \in DOMAIN d.lists /\ lists[k].status = d.lists[lists[k].id].status
             /\ \A j \in DOMAIN lists[k].items :
                   /\ lists[k].items[j].id \in DOMAIN d.items
                   /\ lists[k].items[j].status = d.items[lists[k].items[j].id].status
  <2> DEFINE list == Store!GetList(d, ids[k])
  <2>1. ids[k] \in DOMAIN d.lists /\ lists[k] = [list EXCEPT !.pos = k - 1]
    BY <1>1, <1>2
  <2>2. /\ DOMAIN list = ListFields /\ list.id = ids[k] /\ list.status = d.lists[ids[k]].status
        /\ \A j \in DOMAIN list.items :
              /\ list.items[j].id \in DOMAIN d.items
              /\ list.items[j].status = d.items[list.items[j].id].status
    BY <1>3, <2>1
  <2> HIDE DEF list
  <2>3. lists[k].id = list.id /\ lists[k].status = list.status /\ lists[k].items = list.items
    BY <2>1, <2>2 DEF ListFields
  <2> QED
    BY <2>1, <2>2, <2>3
<1> QED
  BY <1>4 DEF Genuine, lists

\* A parsed file has no marks.
LEMMA FileIsUnmarked ==
    ASSUME NEW f, FileOK(f)
    PROVE  Unmarked(Markdown!Parsed(f))
<1> DEFINE lists == Markdown!Parsed(f)
           items(k) == [j \in DOMAIN f.lists[k].items |->
                          Markdown!ParsedItem(f.lists[k].items[j], f.lists[k].id, j - 1, f.mtime)]
           list(k) == [id |-> f.lists[k].id, ext |-> Nil, name |-> f.lists[k].name, pos |-> k - 1,
                       status |-> "open", modified |-> f.mtime, items |-> items(k)]
<1>1. lists = [k \in DOMAIN f.lists |-> Markdown!CleanList(list(k))]
  BY DEF Markdown!Parsed, Markdown!Nil, Nil
<1>2. Markdown!CanRender(lists)
  BY MarkdownParsed
<1> HIDE DEF lists
<1>3. ASSUME NEW k \in DOMAIN lists PROVE lists[k].status = "open"
  BY <1>1 DEF Markdown!CleanList
<1>4. ASSUME NEW k \in DOMAIN lists PROVE NoneMarked(lists[k].items)
  BY <1>2 DEF Markdown!CanRender, NoneMarked
<1> QED
  BY <1>3, <1>4 DEF Unmarked, lists

\* Neither the lists of the service nor its tasks have marks.
LEMMA ServiceIsUnmarked ==
    ASSUME NEW g
    PROVE  /\ Unmarked(GoogleTasks!ListTaskLists(g))
           /\ \A list : LET r == GoogleTasks!ListItems(g, list)
                        IN  r.result = "ok" => NoneMarked(r.items)
<1>1. Unmarked(GoogleTasks!ListTaskLists(g))
  BY DEF GoogleTasks!ListTaskLists, Unmarked, NoneMarked
<1>2. ASSUME NEW list PROVE LET r == GoogleTasks!ListItems(g, list)
                            IN  r.result = "ok" => NoneMarked(r.items)
  <2> DEFINE asked == GoogleTasks!ListTasks(g, list.ext, MaxTaskResults)
             Item(k, t) == [id |-> Nil, ext |-> t.id, list |-> Nil, xlist |-> list.ext, pos |-> k - 1,
                            status |-> IF t.done THEN "done" ELSE "open",
                            text |-> t.text, tag |-> t.tag, project |-> Nil, xproject |-> Nil,
                            modified |-> t.updated]
             items == [k \in DOMAIN asked.tasks |-> Item(k, asked.tasks[k])]
             r == GoogleTasks!ListItems(g, list)
  <2>1. r = IF asked.result = "error" THEN asked
            ELSE [result |-> "ok", google |-> g, items |-> items]
    BY DEF GoogleTasks!ListItems, GoogleTasks!Nil, Nil
  <2>2. \A k, t : Item(k, t).status # "deleted"
    OBVIOUS
  <2> HIDE DEF Item
  <2>3. NoneMarked(items)
    <3> HIDE DEF asked
    <3> QED
      BY <2>2 DEF NoneMarked
  <2> HIDE DEF asked, items, r
  <2>4. r.result = "ok" => r.items = items
    BY <2>1
  <2> QED
    BY <2>3, <2>4 DEF r
<1> QED
  BY <1>1, <1>2

\* The maps have entries of the listing as values.
LEMMA ListMapEntries ==
    ASSUME NEW lists, ListsOK(lists)
    PROVE  \A k \in DOMAIN ListMap(lists) : \E i \in DOMAIN lists : ListMap(lists)[k] = lists[i]
<1> DEFINE keys == {Key(lists[i]) : i \in DOMAIN lists} \ {Nil}
           Last(k) == CHOOSE i \in DOMAIN lists :
                         Key(lists[i]) = k /\ \A j \in DOMAIN lists : Key(lists[j]) = k => j <= i
<1>1. ListMap(lists) = [k \in keys |-> lists[Last(k)]]
  BY DEF ListMap
<1>2. DOMAIN lists = 1 .. Len(lists) /\ Len(lists) \in Nat
  BY SeqOf DEF ListsOK
<1>3. ASSUME NEW k \in keys PROVE Last(k) \in DOMAIN lists
  <2> DEFINE S == {i \in DOMAIN lists : Key(lists[i]) = k}
  <2>1. S # {}
    OBVIOUS
  <2>2. S \in SUBSET (0 .. Len(lists))
    BY <1>2
  <2>3. \E i \in S : \A j \in S : j <= i
    BY <1>2, <2>1, <2>2, Greatest
  <2>4. \E i \in DOMAIN lists : Key(lists[i]) = k /\ \A j \in DOMAIN lists : Key(lists[j]) = k => j <= i
    BY <2>3
  <2> QED
    BY <2>4
<1> HIDE DEF keys, Last
<1> QED
  BY <1>1, <1>3

\* So have the maps of the items.
LEMMA ItemMapEntries ==
    ASSUME NEW lists, ListsOK(lists)
    PROVE  \A k \in DOMAIN ItemMap(lists) : \E i \in DOMAIN lists : \E j \in DOMAIN lists[i].items :
              ItemMap(lists)[k] = lists[i].items[j]
<1> DEFINE places == UNION {{<<i, j>> : j \in DOMAIN lists[i].items} : i \in DOMAIN lists}
           Item(p) == lists[p[1]].items[p[2]]
           NotAfter(p, q) == p[1] < q[1] \/ (p[1] = q[1] /\ p[2] <= q[2])
           IsLast(p, k) == /\ Key(Item(p)) = k
                           /\ \A q \in places : Key(Item(q)) = k => NotAfter(q, p)
           Last(k) == CHOOSE p \in places : IsLast(p, k)
           keys == {Key(Item(p)) : p \in places} \ {Nil}
<1>1. ItemMap(lists) = [k \in keys |-> Item(Last(k))]
  BY DEF ItemMap
<1>2. DOMAIN lists = 1 .. Len(lists) /\ Len(lists) \in Nat
  BY SeqOf DEF ListsOK
<1>3. ASSUME NEW i \in DOMAIN lists
      PROVE  DOMAIN lists[i].items = 1 .. Len(lists[i].items) /\ Len(lists[i].items) \in Nat
  BY SeqOf DEF ListsOK, ListOK, ItemsOK
<1>4. \A p : p \in places <=> \E i \in DOMAIN lists : \E j \in DOMAIN lists[i].items : p = <<i, j>>
  OBVIOUS
<1> HIDE DEF places
<1>5. ASSUME NEW k \in keys PROVE Last(k) \in places
  <2> DEFINE Rows == {i \in DOMAIN lists : \E j \in DOMAIN lists[i].items : Key(lists[i].items[j]) = k}
  <2>1. PICK p \in places : Key(Item(p)) = k
    OBVIOUS
  <2>2. Rows # {}
    BY <1>4, <2>1
  <2>3. Rows \in SUBSET (0 .. Len(lists))
    BY <1>2
  <2>4. PICK i \in Rows : \A x \in Rows : x <= i
    <3> HIDE DEF Rows
    <3> QED
      BY <1>2, <2>2, <2>3, Greatest
  <2> DEFINE S == {j \in DOMAIN lists[i].items : Key(lists[i].items[j]) = k}
  <2>5. S # {} /\ S \in SUBSET (0 .. Len(lists[i].items))
    BY <1>3
  <2>6. PICK j \in S : \A y \in S : y <= j
    <3> HIDE DEF S
    <3> QED
      BY <1>3, <2>5, Greatest
  <2>7. <<i, j>> \in places /\ Key(Item(<<i, j>>)) = k
    BY <1>4, <2>6
  <2>8. ASSUME NEW q \in places, Key(Item(q)) = k PROVE NotAfter(q, <<i, j>>)
    <3>0. PICK x \in DOMAIN lists : \E y \in DOMAIN lists[x].items : q = <<x, y>>
      BY <1>4
    <3>1. PICK y \in DOMAIN lists[x].items : q = <<x, y>>
      BY <3>0
    <3>2. Key(lists[x].items[y]) = k
      BY <2>8, <3>1
    <3>3. x \in Rows
      BY <3>2
    <3>4. x <= i /\ x \in Nat /\ i \in Nat
      BY <1>2, <2>4, <3>3
    <3>5. x = i => y <= j
      BY <2>6, <3>2
    <3> QED
      BY <3>1, <3>4, <3>5
  <2>9. IsLast(<<i, j>>, k)
    BY <2>7, <2>8
  <2> HIDE DEF IsLast
  <2> QED
    BY <2>7, <2>9
<1> HIDE DEF keys, Last
<1>6. ASSUME NEW k \in DOMAIN ItemMap(lists)
      PROVE  \E i \in DOMAIN lists : \E j \in DOMAIN lists[i].items : ItemMap(lists)[k] = lists[i].items[j]
  <2>1. Last(k) \in places /\ ItemMap(lists)[k] = Item(Last(k))
    BY <1>1, <1>5
  <2> QED
    BY <1>4, <2>1
<1> QED
  BY <1>6

\* A remote's listing has no marks, and that of the store those of the database.
LEMMA SourceMarks ==
    ASSUME Frame(ss), Unmarked(ss.listing), NEW lists, ListsOK(lists), NEW d, StoreOK(d),
           Nil \notin DOMAIN d.lists,
           ss.direction = "pull" => Unmarked(lists),
           ss.direction = "push" => Genuine(lists, d)
    PROVE  MarksOK(SourceListed(lists), d)
<1> DEFINE t == SourceListed(lists)
           maps == ListMap(lists)
           items == ItemMap(lists)
<1>1. t = [ss EXCEPT !.at = "read destination", !.src = lists, !.srcLists = maps, !.srcItems = items]
  BY DEF SourceListed
<1>2. \A k \in DOMAIN maps : \E i \in DOMAIN lists : maps[k] = lists[i]
  BY ListMapEntries
<1>3. \A k \in DOMAIN items : \E i \in DOMAIN lists : \E j \in DOMAIN lists[i].items : items[k] = lists[i].items[j]
  BY ItemMapEntries
<1> HIDE DEF t, maps, items
<1>4. /\ t.at = "read destination" /\ t.src = lists /\ t.srcLists = maps /\ t.srcItems = items
      /\ t.listing = ss.listing /\ t.direction = ss.direction
  BY <1>1 DEF Frame, SessionFields, Session
<1>5. Spot(t)
  BY <1>4, SpotElsewhere DEF InList, Adding, Updating
<1>6. ASSUME ss.direction = "pull" PROVE Marked(maps) = {} /\ Marked(items) = {}
  BY <1>2, <1>3, <1>6 DEF Marked, Unmarked, NoneMarked
<1>7. ASSUME ss.direction = "push"
      PROVE  /\ \A x \in Marked(maps) : x \in DOMAIN d.lists /\ d.lists[x].status = "deleted"
             /\ \A x \in Marked(items) : x \in DOMAIN d.items /\ d.items[x].status = "deleted"
  <2>1. \A x \in Marked(maps) : x \in DOMAIN d.lists /\ d.lists[x].status = "deleted"
    BY <1>2, <1>7 DEF Marked, Genuine
  <2>2. \A x \in Marked(items) : x \in DOMAIN d.items /\ d.items[x].status = "deleted"
    BY <1>3, <1>7 DEF Marked, Genuine
  <2> QED
    BY <2>1, <2>2
<1>8. Nil \notin DOMAIN d.items
  BY DEF StoreOK, ItemRowsOK
<1>9. DeadRows(t, d)
  BY <1>4, <1>7, <1>8 DEF DeadRows, Dead
<1>10. Base(t)
  <2>1. ASSUME ss.direction = "push", NEW k \in DOMAIN lists
        PROVE  /\ lists[k].status # "deleted" => Safe(lists[k].id, maps)
               /\ Spared(lists[k].items, items)
    <3>1. lists[k].status # "deleted" => Safe(lists[k].id, maps)
      BY <1>7, <2>1 DEF Safe, Genuine
    <3>2. Spared(lists[k].items, items)
      BY <1>7, <1>8, <2>1 DEF Safe, Spared, Genuine
    <3> QED
      BY <3>1, <3>2
  <2> QED
    BY <1>4, <1>6, <2>1 DEF Base
<1> QED
  BY <1>5, <1>9, <1>10 DEF MarksOK, t

\* The listing of the destination says nothing of marks.
LEMMA DestinationMarks ==
    ASSUME Frame(ss), MarksOK(ss, db), NEW lists
    PROVE  MarksOK(DestinationListed(lists), db)
<1> DEFINE t == DestinationListed(lists)
<1>1. SameMarks(ss, t) /\ t.at = "open list"
  BY DEF DestinationListed, Frame, SessionFields, Session, SameMarks
<1> HIDE DEF t
<1>2. Spot(t)
  BY <1>1, SpotElsewhere DEF InList, Adding, Updating
<1> QED
  BY <1>1, <1>2, SameMarksOK DEF MarksOK, t

-----------------------------------------------------------------------------
(* The steps of a session. *)

\* What every step of a session starts from.
Marking == WorldOK /\ GoodSession(ss) /\ MarksOK(ss, db) /\ Nil \notin DOMAIN db.lists

\* The lists of a remote are there.
LEMMA ListedMarks ==
    ASSUME Marking, NEW lists, ListsOK(lists), Unmarked(lists)
    PROVE  MarksOK(Listed(lists), db)
<1>1. Frame(ss) /\ StoreOK(db) /\ Unmarked(ss.listing) /\ ss.direction \in {"pull", "push"}
  BY DEF Marking, GoodSession, WorldOK, MarksOK, Base, Frame
<1>2. CASE ss.direction = "pull"
  BY <1>1, <1>2, SourceMarks DEF Listed, Marking
<1>3. CASE ss.direction = "push"
  BY <1>1, <1>3, DestinationMarks DEF Listed, Marking
<1> QED
  BY <1>1, <1>2, <1>3

\* A step that reads the lists of a remote.
LEMMA ReadsListsMarks ==
    ASSUME Marking, ReadLists
    PROVE  Kept
<1> DEFINE lists == GoogleTasks!ListTaskLists(google)
           r == [result |-> "ok", google |-> google]
           more == [ss EXCEPT !.at = "read tasks", !.listing = lists, !.unread = DOMAIN lists]
           s == IF lists = <<>> THEN Listed(<<>>) ELSE more
<1>1. Proceed("google_tasks", r, s)
  BY DEF ReadLists
<1>2. Answer("google_tasks", r) /\ Frame(ss) /\ MarksOK(ss, db) /\ Nil \notin DOMAIN db.lists
  BY DEF Marking, GoodSession, WorldOK, Answer, ServiceAnswer
<1>3. Unmarked(lists)
  BY ServiceIsUnmarked
<1> HIDE DEF lists
<1>4. MarksOK(more, db)
  <2>1. /\ more.at = "read tasks" /\ more.listing = lists /\ more.direction = ss.direction
        /\ more.src = ss.src /\ more.srcLists = ss.srcLists /\ more.srcItems = ss.srcItems
    BY <1>2 DEF Frame, SessionFields, Session
  <2> HIDE DEF more
  <2>2. Spot(more)
    BY <2>1, SpotElsewhere DEF InList, Adding, Updating
  <2>3. Base(ss) /\ DeadRows(ss, db) /\ Unmarked(more.listing)
    BY <1>2, <1>3, <2>1 DEF MarksOK
  <2> QED
    BY <2>1, <2>2, <2>3, ListingMarksOK
<1>5. MarksOK(Listed(<<>>), db)
  <2>1. Unmarked(<<>>)
    BY Empty DEF Unmarked
  <2> QED
    BY <2>1, NoItems, ListedMarks
<1> HIDE DEF more
<1>6. MarksOK(s, db)
  BY <1>4, <1>5
<1> HIDE DEF s, r
<1>7. Calm("google_tasks", r) /\ After("google_tasks", r) = db
  BY <1>2, RemoteIsCalm
<1> QED
  BY <1>1, <1>2, <1>6, <1>7, CallMarks DEF Providers

\* The first step of a session, which lists its source.
LEMMA ReadsSourceMarks ==
    ASSUME Marking, ReadSource
    PROVE  Kept
<1>1. /\ Frame(ss) /\ MarksOK(ss, db) /\ Nil \notin DOMAIN db.lists /\ WorldOK /\ StoreOK(db) /\ FileOK(file)
      /\ Unmarked(ss.listing) /\ ss.direction \in {"pull", "push"}
  BY DEF Marking, GoodSession, WorldOK, MarksOK, Base, Frame
<1>2. Source \in Providers
  BY <1>1, Sides
<1>3. CASE Source = "google_tasks"
  BY <1>3, ReadsListsMarks DEF ReadSource
<1>4. CASE Source = "store"
  <2> DEFINE lists == Store!ListLists(db)
             r == [result |-> "ok", db |-> db, lists |-> lists]
             s == SourceListed(lists)
  <2>1. Proceed("store", r, s)
    BY <1>4 DEF ReadSource, CallListLists
  <2>2. Genuine(lists, db) /\ ListsOK(lists)
    BY <1>1, StoreListsRows, StoreListLists
  <2> HIDE DEF lists
  <2>3. ss.direction = "push"
    BY <1>1, <1>4, Sides DEF Frame
  <2>4. MarksOK(s, db)
    BY <1>1, <2>2, <2>3, SourceMarks
  <2>5. Answer("store", r) /\ r.db = db /\ "partial" \notin DOMAIN r
    BY <1>1 DEF Answer, StoreAnswer
  <2> HIDE DEF r, s
  <2>6. Calm("store", r) /\ After("store", r) = db
    BY <1>1, <2>5, StaysPut DEF Calm, Harmless, After, MarksOK
  <2> QED
    BY <1>1, <2>1, <2>4, <2>5, <2>6, CallMarks DEF Providers
<1>5. CASE Source = "markdown"
  <2> DEFINE lists == Markdown!Parsed(file)
             r == CallListLists(Source)
             s == SourceListed(lists)
  <2>1. Proceed(Source, r, s)
    BY <1>5 DEF ReadSource, CallListLists, Markdown!ListLists
  <2>2. Answer(Source, r)
    BY <1>1, <1>5, CallsListLists
  <2>3. Unmarked(lists) /\ ListsOK(lists)
    BY <1>1, FileIsUnmarked, MarkdownParsed
  <2> HIDE DEF lists, r
  <2>4. ss.direction # "push"
    BY <1>1, <1>5, Sides
  <2>5. MarksOK(s, db)
    BY <1>1, <2>3, <2>4, SourceMarks
  <2> HIDE DEF s
  <2>6. Calm(Source, r) /\ After(Source, r) = db
    BY <1>1, <1>5, RemoteIsCalm
  <2> QED
    BY <1>1, <1>2, <2>1, <2>2, <2>5, <2>6, CallMarks
<1> QED
  BY <1>2, <1>3, <1>4, <1>5 DEF Providers

\* The second, which lists its destination.
LEMMA ReadsDestinationMarks ==
    ASSUME Marking, ReadDestination
    PROVE  Kept
<1>1. /\ Frame(ss) /\ MarksOK(ss, db) /\ Nil \notin DOMAIN db.lists /\ WorldOK
      /\ ss.direction \in {"pull", "push"}
  BY DEF Marking, GoodSession, Frame
<1>2. Destination \in Providers
  BY <1>1, Sides
<1>3. CASE Destination = "google_tasks"
  BY <1>3, ReadsListsMarks DEF ReadDestination
<1>4. CASE Destination # "google_tasks"
  <2> DEFINE r == CallListLists(Destination)
             a == [r EXCEPT !.result = "ok"]
             s == DestinationListed(r.lists)
  <2>1. Proceed(Destination, a, s)
    BY <1>4 DEF ReadDestination
  <2>2. Answer(Destination, a)
    BY <1>1, <1>2, <1>4, CallsListLists DEF Providers
  <2>3. MarksOK(s, db)
    BY <1>1, DestinationMarks
  <2>4. Calm(Destination, a) /\ After(Destination, a) = db
    <3>1. CASE Destination = "store"
      <4>1. a.db = db /\ "partial" \notin DOMAIN a
        BY <3>1 DEF CallListLists
      <4> HIDE DEF a
      <4> QED
        BY <1>1, <3>1, <4>1, StaysPut DEF Calm, Harmless, After, MarksOK
    <3>2. CASE Destination # "store"
      BY <1>1, <3>2, RemoteIsCalm
    <3> QED
      BY <3>1, <3>2
  <2> HIDE DEF a, s
  <2> QED
    BY <1>1, <1>2, <2>1, <2>2, <2>3, <2>4, CallMarks
<1> QED
  BY <1>3, <1>4

\* The step that reads the tasks of a list of the service.
LEMMA ReadsTasksMarks ==
    ASSUME Marking, ReadTasks
    PROVE  Kept
<1>1. /\ Frame(ss) /\ MarksOK(ss, db) /\ Nil \notin DOMAIN db.lists /\ ServiceOK(google)
      /\ Unmarked(ss.listing) /\ Base(ss)
  BY DEF Marking, GoodSession, WorldOK, MarksOK, Base
<1>0. ss.li = 1 /\ ss.di = 1 /\ ss.at = "read tasks"
  BY DEF Marking, GoodSession, Where, ReadTasks
<1> DEFINE r(k) == GoogleTasks!ListItems(google, ss.listing[k])
           lists(k) == [ss.listing EXCEPT ![k].items = r(k).items]
           last(k) == [Listed(lists(k)) EXCEPT !.listing = <<>>, !.unread = {}]
           more(k) == [ss EXCEPT !.listing = lists(k), !.unread = @ \ {k}]
           s(k) == IF ss.unread = {k} THEN last(k) ELSE more(k)
<1>2. PICK k \in ss.unread : Proceed("google_tasks", r(k), s(k))
  BY DEF ReadTasks
<1>3. /\ r(k).google = google /\ "partial" \notin DOMAIN r(k)
      /\ r(k).result = "ok" => ItemsOK(r(k).items) /\ NoneMarked(r(k).items)
  BY <1>1, ServiceListItems, ServiceIsUnmarked
<1> HIDE DEF r
<1>4. Answer("google_tasks", r(k))
  BY <1>1, <1>3 DEF Answer, ServiceAnswer
<1>5. ASSUME r(k).result = "ok" PROVE MarksOK(s(k), db)
  <2>1. ListsOK(lists(k)) /\ Unmarked(lists(k))
    <3>1. CASE k \in DOMAIN ss.listing
      <4>1. lists(k) = [ss.listing EXCEPT ![k] = [ss.listing[k] EXCEPT !.items = r(k).items]]
        OBVIOUS
      <4>2. ListsOK(ss.listing) /\ ListOK(ss.listing[k])
        BY <1>1, <3>1 DEF Frame, ListsOK
      <4> DEFINE new == [ss.listing[k] EXCEPT !.items = r(k).items]
      <4>3. ListOK(new)
        BY <1>3, <1>5, <4>2, WithItems
      <4>4. ListsOK(lists(k))
        BY <3>1, <4>1, <4>2, <4>3, ListReplaced
      <4>5. new.items = r(k).items /\ new.status = ss.listing[k].status
        BY <4>2 DEF ListOK, ListFields
      <4> HIDE DEF new
      <4>6. lists(k) = [ss.listing EXCEPT ![k] = new]
        BY <4>1 DEF new
      <4> HIDE DEF lists
      <4>7. Unmarked(lists(k))
        BY <1>1, <1>3, <1>5, <3>1, <4>5, <4>6 DEF Unmarked
      <4> QED
        BY <4>4, <4>7
    <3>2. CASE k \notin DOMAIN ss.listing
      <4>1. lists(k) = ss.listing
        <5>1. ListsOK(ss.listing) /\ IsSeq(ss.listing)
          BY <1>1 DEF Frame, ListsOK
        <5>2. ss.listing = [j \in DOMAIN ss.listing |-> ss.listing[j]]
          BY <5>1 DEF IsSeq
        <5> QED
          BY <3>2, <5>2
      <4> QED
        BY <1>1, <4>1 DEF Frame
    <3> QED
      BY <3>1, <3>2
  <2> HIDE DEF lists
  <2>2. MarksOK(last(k), db)
    <3> DEFINE a == Listed(lists(k))
    <3>1. Frame(a) /\ a.at \in {"open list", "read destination"} /\ MarksOK(a, db)
      BY <1>0, <1>1, <2>1, IsListed, ListedMarks
    <3> HIDE DEF a
    <3>2. last(k) = [a EXCEPT !.listing = <<>>, !.unread = {}]
      BY DEF a
    <3> HIDE DEF last
    <3>3. /\ last(k).listing = <<>> /\ last(k).at = a.at /\ last(k).direction = a.direction
          /\ last(k).src = a.src /\ last(k).srcLists = a.srcLists /\ last(k).srcItems = a.srcItems
      BY <3>1, <3>2 DEF Frame, SessionFields, Session
    <3>4. Spot(last(k))
      BY <3>1, <3>3, SpotElsewhere DEF InList, Adding, Updating
    <3>5. Unmarked(<<>>)
      BY Empty DEF Unmarked
    <3>6. Base(a) /\ DeadRows(a, db) /\ Unmarked(last(k).listing)
      BY <3>1, <3>3, <3>5 DEF MarksOK
    <3> QED
      BY <3>3, <3>4, <3>6, ListingMarksOK
  <2>3. MarksOK(more(k), db)
    <3>1. /\ more(k).at = "read tasks" /\ more(k).listing = lists(k) /\ more(k).direction = ss.direction
          /\ more(k).src = ss.src /\ more(k).srcLists = ss.srcLists /\ more(k).srcItems = ss.srcItems
      BY <1>0, <1>1 DEF Frame, SessionFields, Session
    <3> HIDE DEF more
    <3>2. Spot(more(k))
      BY <3>1, SpotElsewhere DEF InList, Adding, Updating
    <3>3. Base(ss) /\ DeadRows(ss, db) /\ Unmarked(more(k).listing)
      BY <1>1, <2>1, <3>1 DEF MarksOK
    <3> QED
      BY <3>1, <3>2, <3>3, ListingMarksOK
  <2> HIDE DEF last, more
  <2> QED
    BY <2>2, <2>3
<1> HIDE DEF s
<1>6. Calm("google_tasks", r(k)) /\ After("google_tasks", r(k)) = db
  BY <1>1, RemoteIsCalm
<1> QED
  BY <1>1, <1>2, <1>4, <1>5, <1>6, CallMarks DEF Providers

\* The list in the loop, for a push: its row is not marked, nor are those of its live
\* items.
SafeList(s) == s.direction = "push" => Safe(s.cur.id, s.srcLists) /\ Spared(s.cur.items, s.srcItems)

\* Live items of the list in the loop, or of an item that the source may be told of.
Carried(s, items) ==
    \A k \in DOMAIN items : items[k].status # "deleted" =>
        \/ s.direction = "push" => Safe(items[k].id, s.srcItems)
        \/ \E j \in DOMAIN s.cur.items :
              s.cur.items[j].id = items[k].id /\ s.cur.items[j].status # "deleted"

\* At a list or an item, before the item is to be backfilled.
OnList(s) == s.at \in {"create list", "backfill list", "create item", "update list", "update item"}

\* What a session knows stays true of one that knows the same.
LEMMA SameBase ==
    ASSUME NEW s, NEW t, SameMarks(s, t), Base(s), NEW d, DeadRows(s, d)
    PROVE  Base(t) /\ DeadRows(t, d)
  BY DEF SameMarks, Base, DeadRows

\* Inside a list, before an item is to be backfilled.
LEMMA InListMarks ==
    ASSUME NEW s, SafeList(s), NEW t, OnList(t), NEW d, SameMarks(s, t), Base(s), DeadRows(s, d),
           t.cur.id = s.cur.id,
           Carried(s, t.cur.items)
    PROVE  MarksOK(t, d)
<1>1. t.direction = "push" => Safe(t.cur.id, t.srcLists) /\ Spared(t.cur.items, t.srcItems)
  BY DEF SafeList, SameMarks, Spared, Carried
<1>2. Spot(t)
  BY <1>1 DEF Spot, OnList
<1> QED
  BY <1>2, SameMarksOK

\* syncListCreate starts on the items.
LEMMA StartMarks ==
    ASSUME NEW s, Frame(s), ListOK(s.cur), SafeList(s), Base(s), NEW d, DeadRows(s, d)
    PROVE  MarksOK(StartItems(s), d)
<1> DEFINE items == [k \in DOMAIN s.cur.items |->
                       IF s.cur.items[k].status = "deleted" THEN s.cur.items[k]
                       ELSE [s.cur.items[k] EXCEPT !.list = s.cur.id, !.xlist = s.cur.ext]]
           c == [s.cur EXCEPT !.items = items]
           t == StartItems(s)
<1>1. t = [s EXCEPT !.at = "create item", !.ii = 1, !.cur = c]
  BY DEF StartItems
<1>2. /\ DOMAIN items = DOMAIN s.cur.items
      /\ \A k \in DOMAIN items : items[k].id = s.cur.items[k].id /\ items[k].status = s.cur.items[k].status
  <2>1. \A k \in DOMAIN s.cur.items : ItemOK(s.cur.items[k])
    BY DEF ListOK, ItemsOK
  <2> QED
    BY <2>1 DEF ItemOK, ItemFields
<1> HIDE DEF items
<1>3. c.items = items /\ c.id = s.cur.id
  BY DEF ListOK, ListFields
<1> HIDE DEF c, t
<1>4. t.at = "create item" /\ t.cur = c /\ SameMarks(s, t)
  BY <1>1 DEF Frame, SessionFields, Session, SameMarks
<1>5. Carried(s, t.cur.items)
  BY <1>2, <1>3, <1>4 DEF Carried
<1>6. /\ t.cur.id = s.cur.id /\ SameMarks(s, t)
      /\ OnList(t)
  BY <1>3, <1>4 DEF OnList
<1>7. MarksOK(t, d)
  BY <1>5, <1>6, InListMarks
<1> QED
  BY <1>7 DEF t

\* syncListCreate takes the next list.
LEMMA OpensListMarks ==
    ASSUME Marking, OpenList
    PROVE  Kept
<1> DEFINE list == ss.src[ss.li]
           last == [ss EXCEPT !.at = "link", !.li = 1]
           found == [ss EXCEPT !.cur = list]
           unknown == [ss EXCEPT !.cur = list, !.at = "create list"]
           s == IF ss.li > Len(ss.src) THEN last
                ELSE IF list.status = "deleted" THEN NextList(ss)
                ELSE IF Key(list) \in DOMAIN ss.lists THEN StartItems(found)
                ELSE unknown
<1>1. /\ Frame(ss) /\ Base(ss) /\ DeadRows(ss, db) /\ Nil \notin DOMAIN db.lists
      /\ ss.at = "open list" /\ Silently(s)
  BY DEF Marking, GoodSession, MarksOK, OpenList
<1>2. Len(ss.src) \in Nat /\ DOMAIN ss.src = 1 .. Len(ss.src)
  BY <1>1, SeqOf DEF Frame, ListsOK
<1>3. MarksOK(last, db)
  <2>1. last.at = "link" /\ SameMarks(ss, last)
    BY <1>1 DEF Frame, SessionFields, Session, SameMarks
  <2> HIDE DEF last
  <2>2. Spot(last)
    BY <2>1, SpotElsewhere DEF InList, Adding, Updating
  <2> QED
    BY <1>1, <2>1, <2>2, SameMarksOK
<1>4. MarksOK(NextList(ss), db)
  <2> DEFINE t == NextList(ss)
  <2>1. t.at = "open list" /\ SameMarks(ss, t)
    BY <1>1 DEF NextList, Frame, SessionFields, Session, SameMarks
  <2> HIDE DEF t
  <2>2. Spot(t)
    BY <2>1, SpotElsewhere DEF InList, Adding, Updating
  <2>3. MarksOK(t, db)
    BY <1>1, <2>1, <2>2, SameMarksOK
  <2> QED
    BY <2>3 DEF t
<1>5. ASSUME ~(ss.li > Len(ss.src)), list.status # "deleted"
      PROVE  MarksOK(StartItems(found), db) /\ MarksOK(unknown, db)
  <2>0. ss.li \in 1 .. Len(ss.src) + 1
    BY <1>1 DEF Frame
  <2>1. ss.li \in DOMAIN ss.src
    BY <1>2, <1>5, <2>0
  <2>2. ListOK(list)
    BY <1>1, <2>1 DEF Frame, ListsOK
  <2>3. ss.direction = "push" => Safe(list.id, ss.srcLists) /\ Spared(list.items, ss.srcItems)
    BY <1>1, <1>5, <2>1 DEF Base
  <2> HIDE DEF list
  <2>4. Frame(found) /\ found.cur = list /\ SameMarks(ss, found)
    BY <1>1 DEF Frame, SessionFields, Session, SameMarks
  <2> HIDE DEF found
  <2>5. SafeList(found) /\ Base(found) /\ DeadRows(found, db)
    <3>1. SafeList(found)
      BY <2>3, <2>4 DEF SafeList, SameMarks
    <3>2. Base(found) /\ DeadRows(found, db)
      BY <1>1, <2>4, SameBase
    <3> QED
      BY <3>1, <3>2
  <2>6. MarksOK(StartItems(found), db)
    BY <2>2, <2>4, <2>5, StartMarks
  <2>7. unknown.at = "create list" /\ unknown.cur = list /\ SameMarks(ss, unknown)
    BY <1>1 DEF Frame, SessionFields, Session, SameMarks
  <2> HIDE DEF unknown
  <2>8. Spot(unknown)
    BY <2>3, <2>7 DEF Spot, SameMarks
  <2>9. MarksOK(unknown, db)
    BY <1>1, <2>7, <2>8, SameMarksOK
  <2> QED
    BY <2>6, <2>9
<1> HIDE DEF found, unknown, list, last
<1>6. MarksOK(s, db)
  BY <1>3, <1>4, <1>5
<1> HIDE DEF s
<1> QED
  BY <1>1, <1>6, SilentMarks

\* A list is created in the map of the destination, and its items follow.
LEMMA CreatedMarks ==
    ASSUME NEW s, Frame(s), ListOK(s.cur), SafeList(s), Base(s), NEW d, DeadRows(s, d), s.remote = ss.remote
    PROVE  MarksOK(Created(s), d)
<1> DEFINE e == [s.cur EXCEPT !.items = <<>>]
           map == Put(s.lists, Key(s.cur), e)
           t == [s EXCEPT !.lists = map, !.changed = TRUE]
<1>1. Created(s) = StartItems(t)
  BY DEF Created
<1>2. ListOK(e)
  BY WithItems, NoItems
<1> HIDE DEF e
<1>3. \A k \in DOMAIN map : ListOK(map[k])
  BY <1>2 DEF Put, Frame
<1> HIDE DEF map
<1>4. Frame(t)
  BY <1>3 DEF Frame, SessionFields, Session
<1>5. t.cur = s.cur /\ SameMarks(s, t)
  BY DEF Frame, SessionFields, Session, SameMarks
<1> HIDE DEF t
<1>6. SafeList(t) /\ Base(t) /\ DeadRows(t, d)
  BY <1>5 DEF SafeList, SameMarks, Base, DeadRows
<1> QED
  BY <1>1, <1>4, <1>5, <1>6, StartMarks

\* The list that a remote returns has the id of the one it got, and items with the ids
\* and statuses of those that it got.
Alike(l, m) ==
    /\ l.id = m.id
    /\ \A k \in DOMAIN l.items : \E j \in DOMAIN m.items :
          l.items[k].id = m.items[j].id /\ l.items[k].status = m.items[j].status

\* A list with its items renumbered is such a list.
LEMMA CleanIsAlike ==
    ASSUME NEW list, ListOK(list), NEW l, DOMAIN l = ListFields, l.id = list.id,
           \A k \in DOMAIN l.items : \E j \in DOMAIN list.items : l.items[k] = [list.items[j] EXCEPT !.pos = k - 1]
    PROVE  Alike(l, list)
<1>1. ASSUME NEW k \in DOMAIN l.items
      PROVE  \E j \in DOMAIN list.items : l.items[k].id = list.items[j].id /\ l.items[k].status = list.items[j].status
  <2>1. PICK j \in DOMAIN list.items : l.items[k] = [list.items[j] EXCEPT !.pos = k - 1]
    OBVIOUS
  <2>2. ItemOK(list.items[j])
    BY DEF ListOK, ItemsOK
  <2>3. l.items[k].id = list.items[j].id /\ l.items[k].status = list.items[j].status
    BY <2>1, <2>2 DEF ItemOK, ItemFields
  <2> QED
    BY <2>3
<1> QED
  BY <1>1 DEF Alike

\* The file and the service return such a list when they create one.
LEMMA RemoteCreatesAlike ==
    ASSUME NEW list, ListOK(list), NEW f, NEW g, NEW t, list.status # "deleted"
    PROVE  Alike(Markdown!CreateList(f, list, t).list, list) /\ Alike(GoogleTasks!CreateList(g, list, t).list, list)
<1>1. Alike(Markdown!CreateList(f, list, t).list, list)
  <2> DEFINE lists == Markdown!Parsed(f)
             c == Markdown!CleanList(list)
             pos == IF c.pos <= Len(lists) THEN c.pos ELSE Len(lists)
             l == [c EXCEPT !.pos = pos]
  <2>1. Markdown!CreateList(f, list, t).list = l
    BY DEF Markdown!CreateList
  <2>2. ListOK(c) /\ c = [list EXCEPT !.items = Markdown!CleanItems(list.items)]
    BY MarkdownCleanList
  <2> HIDE DEF c, pos
  <2>3. c.id = list.id /\ c.items = Markdown!CleanItems(list.items)
    BY <2>2 DEF ListOK, ListFields
  <2>4. DOMAIN l = ListFields /\ l.id = list.id /\ l.items = c.items
    BY <2>2, <2>3 DEF ListOK, ListFields
  <2> HIDE DEF l
  <2>5. \A k \in DOMAIN l.items : \E j \in DOMAIN list.items : l.items[k] = [list.items[j] EXCEPT !.pos = k - 1]
    BY <2>3, <2>4, MarkdownCleans DEF ListOK
  <2> QED
    BY <2>1, <2>4, <2>5, CleanIsAlike
<1>2. Alike(GoogleTasks!CreateList(g, list, t).list, list)
  <2> DEFINE asked == GoogleTasks!InsertTaskList(g, list.name, t)
             c == GoogleTasks!CleanList(list)
             l == [c EXCEPT !.ext = asked.id]
             r == GoogleTasks!CreateList(g, list, t)
  <2>1. r = GoogleTasks!@@(asked, [list |-> l])
    BY DEF GoogleTasks!CreateList
  <2>2. DOMAIN asked = {"result", "google", "id"}
    BY DEF GoogleTasks!InsertTaskList, GoogleTasks!Accepted, GoogleTasks!@@
  <2> HIDE DEF asked, r
  <2>3. ListOK(c) /\ c = [list EXCEPT !.items = GoogleTasks!CleanItems(list.items)]
    BY ServiceCleanList
  <2> HIDE DEF c
  <2>4. c.id = list.id /\ c.items = GoogleTasks!CleanItems(list.items)
    BY <2>3 DEF ListOK, ListFields
  <2>5. DOMAIN l = ListFields /\ l.id = list.id /\ l.items = c.items
    BY <2>3, <2>4 DEF ListOK, ListFields
  <2> HIDE DEF l
  <2>6. r.list = l
    BY <2>1, <2>2 DEF GoogleTasks!@@
  <2>7. \A k \in DOMAIN l.items : \E j \in DOMAIN list.items : l.items[k] = [list.items[j] EXCEPT !.pos = k - 1]
    BY <2>4, <2>5, GoogleTasksCleans DEF ListOK
  <2> QED
    BY <2>5, <2>6, <2>7, CleanIsAlike DEF r
<1> QED
  BY <1>1, <1>2

\* The store returns the list with its id.
LEMMA StoreUpdatesAlike ==
    ASSUME NEW d, NEW list, ListOK(list), list.id # Nil, NEW current, NEW t
    PROVE  Alike(Store!UpdateList(d, list, current, t).list, list)
<1> DEFINE c == Store!CleanList(list)
           l == [c EXCEPT !.id = Store!Resolved(d.lists, @, list.ext), !.modified = t]
<1>1. Store!UpdateList(d, list, current, t).list = l
  BY DEF Store!UpdateList
<1>2. ListOK(c) /\ c = [list EXCEPT !.items = Store!CleanItems(list.items)]
  BY StoreCleanList
<1> HIDE DEF c
<1>3. c.id = list.id /\ c.items = Store!CleanItems(list.items)
  BY <1>2 DEF ListOK, ListFields
<1>4. Store!Resolved(d.lists, c.id, list.ext) = list.id
  BY <1>3 DEF Store!Resolved, Store!Nil, Nil
<1>5. DOMAIN l = ListFields /\ l.id = list.id /\ l.items = c.items
  BY <1>2, <1>3, <1>4 DEF ListOK, ListFields
<1> HIDE DEF l
<1>6. \A k \in DOMAIN l.items : \E j \in DOMAIN list.items : l.items[k] = [list.items[j] EXCEPT !.pos = k - 1]
  BY <1>3, <1>5, StoreCleans DEF ListOK
<1> QED
  BY <1>1, <1>5, <1>6, CleanIsAlike

\* A remote that creates a list returns it as it got it, and so it does when it refuses.
LEMMA CreatesAlike ==
    ASSUME WorldOK, NEW p \in {"markdown", "google_tasks"}, NEW list, ListOK(list)
    PROVE  Alike(CallCreateList(p, list).list, list)
<1> DEFINE r == CallCreateList(p, list)
<1>0. Alike(list, list)
  BY DEF Alike
<1>1. CASE list.status # "deleted"
  BY <1>1, RemoteCreatesAlike DEF CallCreateList
<1>2. CASE list.status = "deleted"
  <2>1. CASE p = "markdown"
    <3> DEFINE a == Markdown!Failed("error", file)
    <3>1. r = Markdown!@@(a, [list |-> list])
      BY <1>2, <2>1 DEF CallCreateList, Markdown!CreateList
    <3>2. "list" \notin DOMAIN a
      BY MarkdownFailed DEF WorldOK
    <3> HIDE DEF a, r
    <3>3. r.list = list
      BY <3>1, <3>2 DEF Markdown!@@
    <3> QED
      BY <1>0, <3>3 DEF r
  <2>2. CASE p = "google_tasks"
    <3> DEFINE a == GoogleTasks!Refused(google)
    <3>1. r = GoogleTasks!@@(a, [list |-> list])
      BY <1>2, <2>2 DEF CallCreateList, GoogleTasks!CreateList
    <3>2. "list" \notin DOMAIN a
      BY DEF GoogleTasks!Refused
    <3> HIDE DEF a, r
    <3>3. r.list = list
      BY <3>1, <3>2 DEF GoogleTasks!@@
    <3> QED
      BY <1>0, <3>3 DEF r
  <2> QED
    BY <2>1, <2>2
<1> QED
  BY <1>1, <1>2

\* A session that goes on with such a list is as safe as it was.
LEMMA AlikeIsSafe ==
    ASSUME NEW s, SafeList(s), NEW t, SameMarks(s, t), s.direction = "push" => Alike(t.cur, s.cur)
    PROVE  SafeList(t)
  BY DEF SafeList, SameMarks, Alike, Spared

\* The step that creates a list at the destination.
LEMMA CreatesListMarks ==
    ASSUME Marking, CreateList
    PROVE  Kept
<1> DEFINE r == CallCreateList(Destination, ss.cur)
           t == [ss EXCEPT !.cur = r.list]
           b == [t EXCEPT !.at = "backfill list"]
           s == IF Key(ss.cur) = Nil THEN b ELSE Created(t)
<1>1. /\ Frame(ss) /\ ListOK(ss.cur) /\ WorldOK
      /\ MarksOK(ss, db) /\ Base(ss) /\ DeadRows(ss, db) /\ SafeList(ss) /\ Nil \notin DOMAIN db.lists
  <2>1. ss.at = "create list" /\ Frame(ss) /\ Where(ss) /\ WorldOK
        /\ MarksOK(ss, db) /\ Base(ss) /\ DeadRows(ss, db) /\ Spot(ss) /\ Nil \notin DOMAIN db.lists
    BY DEF Marking, GoodSession, CreateList, MarksOK
  <2> QED
    BY <2>1 DEF Where, InList, Spot, SafeList
<1>2. Destination \in Providers
  BY <1>1, Sides
<1>3. Proceed(Destination, r, s)
  BY DEF CreateList, ListCreated
<1>4. Answer(Destination, r) /\ ListOK(r.list)
  BY <1>1, <1>2, CallsCreateList
<1>5. Calm(Destination, r)
  BY <1>1, DestinationIsCalm
<1>6. ss.direction = "push" => Alike(r.list, ss.cur)
  BY <1>1, CreatesAlike, Sides
<1> HIDE DEF r
<1>7. ASSUME NEW d, DeadRows(ss, d)
      PROVE  MarksOK(s, d)
  <2>1. Frame(t) /\ t.remote = ss.remote /\ t.cur = r.list /\ SameMarks(ss, t)
    BY <1>1 DEF Frame, SessionFields, Session, SameMarks
  <2>2. b.at = "backfill list" /\ b.cur = t.cur /\ SameMarks(t, b)
    BY <2>1 DEF Frame, SessionFields, Session, SameMarks
  <2> HIDE DEF t
  <2>3. SafeList(t) /\ Base(t) /\ DeadRows(t, d)
    <3>1. SafeList(t)
      BY <1>1, <1>6, <2>1, AlikeIsSafe
    <3> QED
      BY <1>1, <1>7, <2>1, <3>1, SameBase
  <2>4. MarksOK(Created(t), d)
    BY <1>4, <2>1, <2>3, CreatedMarks
  <2> HIDE DEF b
  <2>5. OnList(b) /\ b.cur.id = t.cur.id /\ Carried(t, b.cur.items)
    BY <2>2 DEF OnList, Carried
  <2>6. MarksOK(b, d)
    BY <2>2, <2>3, <2>5, InListMarks
  <2> QED
    BY <2>4, <2>6
<1> HIDE DEF s
<1>8. MarksOK(s, After(Destination, r))
  BY <1>5, <1>7 DEF Calm, Harmless
<1> QED
  BY <1>1, <1>2, <1>3, <1>4, <1>5, <1>8, CallMarks

\* The step that writes the identifiers of a new list to the source.
LEMMA BackfillsListMarks ==
    ASSUME Marking, BackfillList
    PROVE  Kept
<1> DEFINE r == CallUpdateList(Source, ss.cur, CleanList(ss.cur))
           t == [ss EXCEPT !.cur = r.list]
           s == Created(t)
<1>1. /\ Frame(ss) /\ ListOK(ss.cur) /\ WorldOK
      /\ MarksOK(ss, db) /\ Base(ss) /\ DeadRows(ss, db) /\ SafeList(ss) /\ Nil \notin DOMAIN db.lists
  <2>1. ss.at = "backfill list" /\ Frame(ss) /\ Where(ss) /\ WorldOK
        /\ MarksOK(ss, db) /\ Base(ss) /\ DeadRows(ss, db) /\ Spot(ss) /\ Nil \notin DOMAIN db.lists
    BY DEF Marking, GoodSession, BackfillList, MarksOK
  <2> QED
    BY <2>1 DEF Where, InList, Spot, SafeList
<1>2. Source \in Providers
  BY <1>1, Sides
<1>3. Proceed(Source, r, s)
  BY DEF BackfillList, ListBackfilled
<1>4. Answer(Source, r) /\ ListOK(r.list)
  BY <1>1, <1>2, CallsUpdateList
<1>5. Calm(Source, r)
  BY <1>1, BackfillIsCalm DEF SafeList
<1>6. ASSUME ss.direction = "push" PROVE Alike(r.list, ss.cur)
  <2>1. Source = "store" /\ ss.cur.id # Nil
    BY <1>1, <1>6, Sides DEF SafeList, Safe
  <2> QED
    BY <1>1, <2>1, StoreUpdatesAlike DEF CallUpdateList
<1> HIDE DEF r
<1>7. ASSUME NEW d, DeadRows(ss, d)
      PROVE  MarksOK(s, d)
  <2>1. Frame(t) /\ t.remote = ss.remote /\ t.cur = r.list /\ SameMarks(ss, t)
    BY <1>1 DEF Frame, SessionFields, Session, SameMarks
  <2> HIDE DEF t
  <2>3. SafeList(t) /\ Base(t) /\ DeadRows(t, d)
    <3>1. SafeList(t)
      BY <1>1, <1>6, <2>1, AlikeIsSafe
    <3> QED
      BY <1>1, <1>7, <2>1, <3>1, SameBase
  <2> QED
    BY <1>4, <2>1, <2>3, CreatedMarks
<1> HIDE DEF s
<1>8. MarksOK(s, After(Source, r))
  BY <1>5, <1>7 DEF Calm, Harmless
<1> QED
  BY <1>1, <1>2, <1>3, <1>4, <1>5, <1>8, CallMarks

\* What a step on a list starts from.
LEMMA OnTheList ==
    ASSUME Marking, ss.at \in {"create item", "backfill item", "update list", "update item"}
    PROVE  /\ Frame(ss) /\ ListOK(ss.cur) /\ WorldOK /\ ss.li # Len(ss.src) + 1
           /\ KeyIn(ss, ss.cur) \in DOMAIN ss.lists
           /\ MarksOK(ss, db) /\ Base(ss) /\ DeadRows(ss, db) /\ SafeList(ss) /\ Nil \notin DOMAIN db.lists
<1>1. /\ Frame(ss) /\ Where(ss) /\ WorldOK
      /\ MarksOK(ss, db) /\ Base(ss) /\ DeadRows(ss, db) /\ Spot(ss) /\ Nil \notin DOMAIN db.lists
  BY DEF Marking, GoodSession, MarksOK
<1>2. InList(ss) /\ (Adding(ss) \/ Updating(ss))
  BY DEF InList, Adding, Updating
<1>3. ListOK(ss.cur) /\ ss.li # Len(ss.src) + 1 /\ KeyIn(ss, ss.cur) \in DOMAIN ss.lists
  BY <1>1, <1>2 DEF Where
<1>4. SafeList(ss)
  BY <1>1, <1>2 DEF Spot, SafeList
<1> QED
  BY <1>1, <1>3, <1>4

\* The k-th item is one that the source may be told of.
LEMMA CarriedOn ==
    ASSUME NEW s, NEW k \in DOMAIN s.cur.items, NEW item,
           s.direction = "push" => Safe(item.id, s.srcItems)
    PROVE  Carried(s, [s.cur.items EXCEPT ![k] = item])
  BY DEF Carried

\* An item that was created is added to the list in the loop.
LEMMA AddedMarks ==
    ASSUME Frame(ss), ListOK(ss.cur), Key(ss.cur) \in DOMAIN ss.lists, SafeList(ss), Base(ss),
           NEW d, DeadRows(ss, d), NEW k \in DOMAIN ss.cur.items, NEW item, ItemOK(item), Key(item) # Nil,
           ss.direction = "push" => Safe(item.id, ss.srcItems)
    PROVE  MarksOK(Added(ss, k, item), d)
<1> DEFINE items == [ss.cur.items EXCEPT ![k] = item]
           c == [ss.cur EXCEPT !.items = items]
           map == Put(ss.items, Key(item), item)
           known == [ss EXCEPT !.cur = c, !.items = map]
           t == InsertItem(known, Key(ss.cur), item, Previous(k))
           s == Added(ss, k, item)
<1>1. s = [t EXCEPT !.at = "create item", !.ii = k + 1, !.changed = TRUE]
  BY DEF Added
<1>2. Carried(ss, items)
  BY CarriedOn
<1> HIDE DEF items
<1>3. c.items = items /\ c.id = ss.cur.id
  BY DEF ListOK, ListFields
<1> HIDE DEF c
<1>4. Nil \notin DOMAIN map
  BY DEF Put, Frame
<1> HIDE DEF map
<1>5. Frame(known)
  BY <1>4 DEF Frame, SessionFields, Session
<1>6. known.cur = c /\ known.lists = ss.lists /\ SameMarks(ss, known)
  BY DEF Frame, SessionFields, Session, SameMarks
<1> HIDE DEF known
<1>7. /\ Frame(t) /\ DOMAIN t.lists = DOMAIN ss.lists
      /\ \A f \in SessionFields \ {"lists", "view"} : t[f] = known[f]
  BY <1>5, <1>6, Inserts
<1> HIDE DEF t
<1>8. t.cur = c /\ SameMarks(ss, t)
  BY <1>6, <1>7 DEF SessionFields, Session, SameMarks
<1> HIDE DEF s
<1>9. s.at = "create item" /\ s.cur = c /\ SameMarks(ss, s)
  BY <1>1, <1>7, <1>8 DEF Frame, SessionFields, Session, SameMarks
<1>10. OnList(s) /\ s.cur.id = ss.cur.id /\ Carried(ss, s.cur.items)
  BY <1>2, <1>3, <1>9 DEF OnList
<1>11. MarksOK(s, d)
  BY <1>9, <1>10, InListMarks
<1> QED
  BY <1>11 DEF s

\* The step that creates an item at the destination.
LEMMA CreatesItemMarks ==
    ASSUME Marking, CreateItem
    PROVE  Kept
<1> DEFINE todo == {j \in ss.ii .. Len(ss.cur.items) :
                      ss.cur.items[j].status # "deleted" /\ Missing(ss.cur.items[j])}
           k == IF todo = {} THEN Len(ss.cur.items) + 1 ELSE CHOOSE i \in todo : \A j \in todo : i <= j
           through == [ss EXCEPT !.at = "update list"]
           item == [ss.cur.items[k] EXCEPT !.status = IF @ = "open" THEN "not_started" ELSE @]
           r == CallCreateItem(Destination, item, Previous(k))
           items == [ss.cur.items EXCEPT ![k] = r.item]
           c == [ss.cur EXCEPT !.items = items]
           there == [ss EXCEPT !.at = "backfill item", !.ii = k, !.cur.items[k] = r.item]
           s == IF Key(ss.cur.items[k]) # Nil THEN Added(ss, k, r.item) ELSE there
<1>1. /\ ss.at = "create item"
      /\ IF k > Len(ss.cur.items) THEN Silently(through) ELSE Proceed(Destination, r, s)
  <2>1. k = NextItem(Missing)
    BY DEF NextItem
  <2> HIDE DEF k
  <2> QED
    BY <2>1 DEF CreateItem, ItemCreated
<1>2. /\ Frame(ss) /\ ListOK(ss.cur) /\ WorldOK /\ KeyIn(ss, ss.cur) \in DOMAIN ss.lists
      /\ MarksOK(ss, db) /\ Base(ss) /\ DeadRows(ss, db) /\ SafeList(ss) /\ Nil \notin DOMAIN db.lists
  BY <1>1, OnTheList
<1>3. ItemsOK(ss.cur.items) /\ IsSeq(ss.cur.items)
  BY <1>2 DEF ListOK, ItemsOK
<1>4. /\ DOMAIN ss.cur.items = 1 .. Len(ss.cur.items) /\ Len(ss.cur.items) \in Nat
      /\ ss.ii \in Nat \ {0}
  BY <1>2, <1>3, SeqOf DEF Frame
<1>5. todo \in SUBSET DOMAIN ss.cur.items /\ todo \in SUBSET Nat
  BY <1>4
<1>6. todo # {} => k \in todo /\ \A j \in todo : k <= j
  BY <1>5, Least
<1>7. CASE todo = {}
  <2>1. k = Len(ss.cur.items) + 1
    BY <1>7
  <2> HIDE DEF k, todo, through
  <2>2. Silently(through)
    <3>1. k > Len(ss.cur.items)
      BY <1>4, <2>1
    <3> QED
      BY <1>1, <3>1
  <2> USE DEF through
  <2>3. through.at = "update list" /\ through.cur = ss.cur /\ SameMarks(ss, through)
    BY <1>2 DEF Frame, SessionFields, Session, SameMarks
  <2> HIDE DEF through
  <2>4. OnList(through) /\ through.cur.id = ss.cur.id /\ Carried(ss, through.cur.items)
    BY <2>3 DEF OnList, Carried
  <2>5. MarksOK(through, db)
    BY <1>2, <2>3, <2>4, InListMarks
  <2> QED
    BY <1>2, <2>2, <2>5, SilentMarks
<1>8. CASE todo # {}
  <2>1. k \in todo /\ k \in DOMAIN ss.cur.items
    BY <1>5, <1>6, <1>8
  <2>2. ss.cur.items[k].status # "deleted"
    BY <2>1
  <2> HIDE DEF k
  <2>3. ~(k > Len(ss.cur.items))
    BY <1>4, <2>1
  <2>4. Proceed(Destination, r, s)
    BY <1>1, <2>3 DEF k
  <2> HIDE DEF todo
  <2>5. ItemOK(ss.cur.items[k])
    BY <1>3, <2>1 DEF ItemsOK
  <2>6. ItemOK(item) /\ item.id = ss.cur.items[k].id /\ item.ext = ss.cur.items[k].ext
    BY <2>5 DEF ItemOK, ItemFields, Statuses
  <2>7. ss.direction = "push" => Safe(item.id, ss.srcItems)
    BY <1>2, <2>1, <2>6, <2>2 DEF SafeList, Spared
  <2> HIDE DEF item
  <2>8. Destination \in Providers
    BY <1>2, Sides
  <2>9. /\ Answer(Destination, r)
        /\ r.result = "ok" =>
              /\ ItemOK(r.item)
              /\ Destination # "google_tasks" => r.item.ext = item.ext
              /\ Destination = "google_tasks" => r.item.ext # Nil
              /\ item.id # Nil => r.item.id = item.id
    BY <1>2, <2>6, <2>8, CallsCreateItem
  <2>10. Calm(Destination, r)
    BY <1>2, <2>6, DestinationIsCalm
  <2> HIDE DEF r
  <2>11. r.result = "ok" => (ss.direction = "push" => Safe(r.item.id, ss.srcItems))
    BY <2>9, <2>7 DEF Safe
  <2>12. ASSUME r.result = "ok", Key(ss.cur.items[k]) # Nil, NEW d, DeadRows(ss, d)
        PROVE  MarksOK(Added(ss, k, r.item), d)
    <3>1. Key(r.item) # Nil
      BY <2>6, <2>9, <2>12 DEF Key
    <3>2. Key(ss.cur) \in DOMAIN ss.lists
      BY <1>2 DEF Key, KeyIn
    <3> QED
      BY <1>2, <2>1, <2>9, <2>11, <2>12, <3>1, <3>2, AddedMarks
  <2>13. ASSUME r.result = "ok", NEW d, DeadRows(ss, d)
         PROVE  MarksOK(there, d)
    <3>1. there = [ss EXCEPT !.at = "backfill item", !.ii = k, !.cur = c]
      OBVIOUS
    <3>2. Carried(ss, items) /\ items[k] = r.item
      BY <2>1, <2>11, <2>13, CarriedOn
    <3> HIDE DEF items
    <3>3. c.items = items /\ c.id = ss.cur.id
      BY <1>2 DEF ListOK, ListFields
    <3> HIDE DEF c, there
    <3>4. there.at = "backfill item" /\ there.ii = k /\ there.cur = c /\ SameMarks(ss, there)
      BY <1>2, <3>1 DEF Frame, SessionFields, Session, SameMarks
    <3>5. there.direction = "push" => Safe(there.cur.id, there.srcLists) /\ Spared(there.cur.items, there.srcItems)
      BY <1>2, <3>2, <3>3, <3>4 DEF SafeList, Carried, Spared, SameMarks
    <3>6. there.direction = "push" => Safe(there.cur.items[there.ii].id, there.srcItems)
      BY <2>11, <2>13, <3>2, <3>3, <3>4 DEF SameMarks
    <3>7. Spot(there)
      BY <3>4, <3>5, <3>6 DEF Spot
    <3> QED
      BY <1>2, <2>13, <3>4, <3>7, SameMarksOK
  <2> HIDE DEF there
  <2>14. ASSUME r.result = "ok" PROVE MarksOK(s, After(Destination, r))
    BY <2>10, <2>12, <2>13, <2>14 DEF Calm, Harmless
  <2> HIDE DEF s
  <2> QED
    BY <1>2, <2>4, <2>8, <2>9, <2>10, <2>14, CallMarks
<1> QED
  BY <1>7, <1>8

\* The step that writes the identifiers of a new item to the source: its row is not a
\* marked one, so that the mark of no other item is taken back.
LEMMA BackfillsItemMarks ==
    ASSUME Marking, BackfillItem
    PROVE  Kept
<1> DEFINE k == ss.ii
           item == ss.cur.items[k]
           r == CallUpdateItem(Source, item)
           s == Added(ss, k, r.item)
<1>1. ss.at = "backfill item" /\ Proceed(Source, r, s)
  BY DEF BackfillItem, ItemBackfilled
<1>2. /\ Frame(ss) /\ ListOK(ss.cur) /\ WorldOK /\ KeyIn(ss, ss.cur) \in DOMAIN ss.lists
      /\ MarksOK(ss, db) /\ Base(ss) /\ DeadRows(ss, db) /\ SafeList(ss) /\ Nil \notin DOMAIN db.lists
  BY <1>1, OnTheList
<1>3. /\ ss.direction = "push" => Safe(item.id, ss.srcItems)
      /\ k \in DOMAIN ss.cur.items
      /\ ss.direction = "push" /\ ss.remote = "google_tasks" => item.ext # Nil
  <2>1. Spot(ss) /\ Where(ss)
    BY DEF Marking, GoodSession, MarksOK
  <2> QED
    BY <1>1, <2>1 DEF Spot, Where
<1>4. Source \in Providers
  BY <1>2, Sides
<1>5. ItemOK(item)
  BY <1>2, <1>3 DEF ListOK, ItemsOK
<1>6. /\ Answer(Source, r)
      /\ r.result = "ok" =>
            /\ ItemOK(r.item) /\ r.item.ext = item.ext
            /\ item.id # Nil => r.item.id = item.id
            /\ Source = "google_tasks" => r.item.ext # Nil
            /\ Source # "google_tasks" => r.item.id # Nil
  BY <1>4, <1>5, <1>2, CallsUpdateItem
<1>7. Calm(Source, r)
  BY <1>2, <1>5, <1>3, BackfillIsCalm
<1> HIDE DEF r
<1>8. ASSUME r.result = "ok", NEW d, DeadRows(ss, d) PROVE MarksOK(s, d)
  <2>1. Key(r.item) # Nil
    <3>1. CASE ss.remote = "markdown"
      <4>1. Source # "google_tasks"
        BY <3>1 DEF Source
      <4> QED
        BY <1>6, <1>8, <3>1, <4>1 DEF Key
    <3>2. CASE ss.remote = "google_tasks"
      <4>1. ss.direction = "pull" => Source = "google_tasks"
        BY <3>2 DEF Source
      <4>2. ss.direction \in {"pull", "push"}
        BY <1>2 DEF Frame
      <4>3. r.item.ext # Nil
        BY <1>3, <1>6, <1>8, <3>2, <4>1, <4>2
      <4> QED
        BY <3>2, <4>3 DEF Key
    <3> QED
      BY <1>2, <3>1, <3>2, Sides
  <2>2. Key(ss.cur) \in DOMAIN ss.lists
    BY <1>2 DEF Key, KeyIn
  <2>3. ss.direction = "push" => Safe(r.item.id, ss.srcItems)
    BY <1>3, <1>6, <1>8 DEF Safe
  <2> QED
    BY <1>2, <1>3, <1>6, <1>8, <2>1, <2>2, <2>3, AddedMarks
<1> HIDE DEF s
<1>9. r.result = "ok" => MarksOK(s, After(Source, r))
  BY <1>7, <1>8 DEF Calm, Harmless
<1> QED
  BY <1>1, <1>2, <1>4, <1>6, <1>7, <1>9, CallMarks

\* The step that updates a list at the destination.
LEMMA UpdatesListMarks ==
    ASSUME Marking, UpdateList
    PROVE  Kept
<1> DEFINE current == ss.lists[Key(ss.cur)]
           There(i) == [i EXCEPT !.list = ss.items[Key(i)].list, !.xlist = ss.items[Key(i)].xlist]
           live == Live(ss.cur.items)
           items == [k \in DOMAIN live |-> There(live[k])]
           list == [ss.cur EXCEPT !.items = items]
           next == [ss EXCEPT !.at = "update item", !.ii = 1]
           changed == [next EXCEPT !.changed = TRUE]
           r == CallUpdateList(Destination, list, current)
<1>1. /\ ss.at = "update list"
      /\ IF ListDiffers THEN Proceed(Destination, r, changed) ELSE Silently(next)
  BY DEF UpdateList
<1>2. /\ Frame(ss) /\ ListOK(ss.cur) /\ WorldOK
      /\ MarksOK(ss, db) /\ Base(ss) /\ DeadRows(ss, db) /\ SafeList(ss) /\ Nil \notin DOMAIN db.lists
  BY <1>1, OnTheList
<1>3. ItemsOK(live)
  BY <1>2, LiveItems DEF ListOK
<1> HIDE DEF live, current
<1>4. ItemsOK(items)
  <2>1. \A k \in DOMAIN live : ItemOK(There(live[k]))
    BY <1>3 DEF ItemsOK, ItemOK, ItemFields
  <2> HIDE DEF There
  <2>2. items = [k \in DOMAIN live |-> items[k]] /\ \A k \in DOMAIN live : ItemOK(items[k])
    BY <2>1
  <2> HIDE DEF items
  <2> QED
    BY <1>3, <2>2, Mapped DEF ItemsOK
<1> HIDE DEF items
<1>5. ListOK(list)
  BY <1>2, <1>4, WithItems
<1> HIDE DEF list
<1>6. Destination \in Providers
  BY <1>2, Sides
<1>7. Answer(Destination, r)
  BY <1>2, <1>5, <1>6, CallsUpdateList
<1>8. Calm(Destination, r)
  BY <1>2, <1>5, DestinationIsCalm
<1> HIDE DEF r
<1>9. ASSUME NEW d, DeadRows(ss, d), NEW s, s \in {next, changed} PROVE MarksOK(s, d)
  <2>1. s.at = "update item" /\ s.cur = ss.cur /\ SameMarks(ss, s)
    <3>1. CASE s = next
      BY <1>2, <3>1 DEF Frame, SessionFields, Session, SameMarks
    <3>2. CASE s = changed
      BY <1>2, <3>2 DEF Frame, SessionFields, Session, SameMarks
    <3> QED
      BY <1>9, <3>1, <3>2
  <2>2. OnList(s) /\ s.cur.id = ss.cur.id /\ Carried(ss, s.cur.items)
    BY <2>1 DEF OnList, Carried
  <2> QED
    BY <1>2, <1>9, <2>1, <2>2, InListMarks
<1> HIDE DEF changed, next
<1>10. MarksOK(next, db) /\ MarksOK(changed, After(Destination, r))
  BY <1>2, <1>8, <1>9 DEF Calm, Harmless
<1>11. CASE ListDiffers
  BY <1>1, <1>2, <1>6, <1>7, <1>8, <1>10, <1>11, CallMarks
<1>12. CASE ~ListDiffers
  BY <1>1, <1>2, <1>10, <1>12, SilentMarks
<1> QED
  BY <1>11, <1>12

\* The items that go back into the listing are as safe as they were.
LEMMA ItemsDoneMarks ==
    ASSUME Frame(ss), ListOK(ss.cur), ss.li # Len(ss.src) + 1, SafeList(ss), Base(ss), DeadRows(ss, db)
    PROVE  MarksOK(ItemsDone, db)
<1> DEFINE items == [k \in DOMAIN ss.cur.items |-> Linked(ss.cur.items[k])]
           list == [ss.src[ss.li] EXCEPT !.items = items]
           src == [ss.src EXCEPT ![ss.li] = list]
           t == [ss EXCEPT !.src = src]
           u == NextList(t)
<1>0. ItemsDone = u
  BY DEF ItemsDone
<1>1. \A k \in DOMAIN ss.cur.items : ItemOK(ss.cur.items[k])
  BY DEF ListOK, ItemsOK
<1>2. /\ DOMAIN items = DOMAIN ss.cur.items
      /\ \A k \in DOMAIN items : items[k].id = ss.cur.items[k].id /\ items[k].status = ss.cur.items[k].status
  BY <1>1 DEF Linked, ItemOK, ItemFields
<1> HIDE DEF items
<1>3. ss.direction = "push" => Spared(items, ss.srcItems)
  BY <1>2 DEF SafeList, Spared
<1>4. Len(ss.src) \in Nat /\ DOMAIN ss.src = 1 .. Len(ss.src) /\ ListsOK(ss.src)
  BY SeqOf DEF Frame, ListsOK
<1>5. ss.li \in DOMAIN ss.src
  <2>1. ss.li \in 1 .. Len(ss.src) + 1
    BY DEF Frame
  <2> QED
    BY <1>4, <2>1
<1>6. list.id = ss.src[ss.li].id /\ list.status = ss.src[ss.li].status /\ list.items = items
  <2>1. ListOK(ss.src[ss.li])
    BY <1>4, <1>5 DEF ListsOK
  <2> QED
    BY <2>1 DEF ListOK, ListFields
<1> HIDE DEF list
<1>7. DOMAIN src = DOMAIN ss.src /\ src[ss.li] = list /\ \A k \in DOMAIN src : k # ss.li => src[k] = ss.src[k]
  BY <1>5
<1> HIDE DEF src
<1>8. /\ t.src = src /\ t.listing = ss.listing /\ t.direction = ss.direction
      /\ t.srcLists = ss.srcLists /\ t.srcItems = ss.srcItems /\ DOMAIN t = SessionFields
  BY DEF Frame, SessionFields, Session
<1> HIDE DEF t
<1>9. /\ u.at = "open list" /\ u.src = src /\ u.listing = ss.listing /\ u.direction = ss.direction
      /\ u.srcLists = ss.srcLists /\ u.srcItems = ss.srcItems
  BY <1>8 DEF NextList, SessionFields, Session
<1> HIDE DEF u
<1>10. Spot(u)
  BY <1>9, SpotElsewhere DEF InList, Adding, Updating
<1>11. DeadRows(u, db)
  BY <1>9 DEF DeadRows
<1>12. ASSUME ss.direction = "push", NEW k \in DOMAIN src
       PROVE  /\ src[k].status # "deleted" => Safe(src[k].id, ss.srcLists)
              /\ Spared(src[k].items, ss.srcItems)
  <2>1. CASE k = ss.li
    BY <1>3, <1>5, <1>6, <1>7, <1>12, <2>1 DEF Base
  <2>2. CASE k # ss.li
    BY <1>7, <1>12, <2>2 DEF Base
  <2> QED
    BY <2>1, <2>2
<1>13. Base(u)
  BY <1>9, <1>12 DEF Base
<1> QED
  BY <1>0, <1>10, <1>11, <1>13 DEF MarksOK

\* The step that updates an item at the destination.
LEMMA UpdatesItemMarks ==
    ASSUME Marking, UpdateItem
    PROVE  Kept
<1> DEFINE todo == {j \in ss.ii .. Len(ss.cur.items) :
                      ss.cur.items[j].status # "deleted" /\ ItemDiffers(ss.cur.items[j])}
           k == IF todo = {} THEN Len(ss.cur.items) + 1 ELSE CHOOSE i \in todo : \A j \in todo : i <= j
           item == ss.cur.items[k]
           sent == Preserving(item, ss.items[Key(item)].status)
           r == CallUpdateItem(Destination, sent)
           items == [ss.cur.items EXCEPT ![k] = r.item]
           c == [ss.cur EXCEPT !.items = items]
           s == [ss EXCEPT !.ii = k + 1, !.cur.items[k] = r.item, !.changed = TRUE]
<1>1. /\ ss.at = "update item"
      /\ IF k > Len(ss.cur.items) THEN Silently(ItemsDone) ELSE Proceed(Destination, r, s)
  <2>1. k = NextItem(ItemDiffers)
    BY DEF NextItem
  <2> HIDE DEF k
  <2> QED
    BY <2>1 DEF UpdateItem, ItemUpdated
<1>2. /\ Frame(ss) /\ ListOK(ss.cur) /\ WorldOK /\ ss.li # Len(ss.src) + 1
      /\ MarksOK(ss, db) /\ Base(ss) /\ DeadRows(ss, db) /\ SafeList(ss) /\ Nil \notin DOMAIN db.lists
  BY <1>1, OnTheList
<1>3. ItemsOK(ss.cur.items) /\ IsSeq(ss.cur.items)
  BY <1>2 DEF ListOK, ItemsOK
<1>4. /\ DOMAIN ss.cur.items = 1 .. Len(ss.cur.items) /\ Len(ss.cur.items) \in Nat
      /\ ss.ii \in Nat \ {0}
  BY <1>2, <1>3, SeqOf DEF Frame
<1>5. todo \in SUBSET DOMAIN ss.cur.items /\ todo \in SUBSET Nat
  BY <1>4
<1>6. todo # {} => k \in todo
  BY <1>5, Least
<1>7. CASE k > Len(ss.cur.items)
  <2>1. Silently(ItemsDone)
    BY <1>1, <1>7
  <2>2. MarksOK(ItemsDone, db)
    BY <1>2, ItemsDoneMarks
  <2> QED
    BY <1>2, <2>1, <2>2, SilentMarks
<1>8. CASE ~(k > Len(ss.cur.items))
  <2>1. k \in todo /\ k \in DOMAIN ss.cur.items
    <3>1. todo # {}
      <4>1. todo = {} => k = Len(ss.cur.items) + 1
        OBVIOUS
      <4> HIDE DEF k, todo
      <4> QED
        BY <1>4, <1>8, <4>1
    <3> QED
      BY <1>5, <1>6, <3>1
  <2>2. item.status # "deleted"
    BY <2>1
  <2> HIDE DEF k
  <2>4. Proceed(Destination, r, s)
    BY <1>1, <1>8
  <2>5. ItemOK(item)
    BY <1>3, <2>1 DEF ItemsOK
  <2>3. ss.direction = "push" => Safe(item.id, ss.srcItems)
    BY <1>2, <2>1, <2>2 DEF SafeList, Spared
  <2>6. ItemOK(sent) /\ sent.id = item.id
    BY <2>5, Preserves
  <2> HIDE DEF sent, item
  <2>7. Destination \in Providers
    BY <1>2, Sides
  <2>8. /\ Answer(Destination, r)
        /\ r.result = "ok" /\ sent.id # Nil => r.item.id = sent.id
    BY <1>2, <2>6, <2>7, CallsUpdateItem
  <2>9. Calm(Destination, r)
    BY <1>2, <2>6, DestinationIsCalm
  <2> HIDE DEF r
  <2>10. ASSUME r.result = "ok", NEW d, DeadRows(ss, d) PROVE MarksOK(s, d)
    <3>0. ss.direction = "push" => Safe(r.item.id, ss.srcItems)
      BY <2>3, <2>6, <2>8, <2>10 DEF Safe
    <3>1. s = [ss EXCEPT !.ii = k + 1, !.cur = c, !.changed = TRUE]
      OBVIOUS
    <3>2. Carried(ss, items)
      BY <2>1, <3>0, CarriedOn
    <3> HIDE DEF items
    <3>3. c.items = items /\ c.id = ss.cur.id
      BY <1>2 DEF ListOK, ListFields
    <3> HIDE DEF c, s
    <3>4. s.at = "update item" /\ s.cur = c /\ SameMarks(ss, s)
      BY <1>1, <1>2, <3>1 DEF Frame, SessionFields, Session, SameMarks
    <3>5. OnList(s) /\ s.cur.id = ss.cur.id /\ Carried(ss, s.cur.items)
      BY <3>2, <3>3, <3>4 DEF OnList
    <3> QED
      BY <1>2, <2>10, <3>4, <3>5, InListMarks
  <2> HIDE DEF s
  <2>11. r.result = "ok" => MarksOK(s, After(Destination, r))
    BY <2>9, <2>10 DEF Calm, Harmless
  <2> QED
    BY <1>2, <2>4, <2>7, <2>8, <2>9, <2>11, CallMarks
<1> QED
  BY <1>7, <1>8

\* The step that links the next actions to their projects.
LEMMA LinksMarks ==
    ASSUME Marking, Link
    PROVE  Kept
<1> DEFINE list == ss.src[ss.li]
           todo == {k \in Unlinked(list) : k >= ss.ii}
           k == CHOOSE x \in todo : \A y \in todo : x <= y
           item == list.items[k]
           there == IF Key(item) \in DOMAIN ss.items THEN ss.items[Key(item)].status ELSE "none"
           r == CallUpdateItem(Destination, Preserving(item, there))
           last == [ss EXCEPT !.at = "delete"]
           next == [ss EXCEPT !.li = @ + 1, !.ii = 1]
           more == [ss EXCEPT !.ii = k + 1]
<1>1. /\ ss.at = "link"
      /\ IF ss.li > Len(ss.src) THEN Silently(last)
         ELSE IF todo = {} THEN Silently(next) ELSE Proceed(Destination, r, more)
  BY DEF Link
<1>2. /\ Frame(ss) /\ WorldOK /\ MarksOK(ss, db) /\ Base(ss) /\ DeadRows(ss, db) /\ Nil \notin DOMAIN db.lists
  BY DEF Marking, GoodSession, MarksOK
<1>3. Len(ss.src) \in Nat /\ DOMAIN ss.src = 1 .. Len(ss.src)
  BY <1>2, SeqOf DEF Frame, ListsOK
<1> HIDE DEF k, todo, item, list
<1>4. /\ last.at = "delete" /\ SameMarks(ss, last)
      /\ next.at = "link" /\ SameMarks(ss, next)
      /\ more.at = "link" /\ SameMarks(ss, more)
  BY <1>1, <1>2 DEF Frame, SessionFields, Session, SameMarks
<1> HIDE DEF last, next, more
<1>5. Spot(last) /\ Spot(next) /\ Spot(more)
  BY <1>4, SpotElsewhere DEF InList, Adding, Updating
<1>6. \A d : DeadRows(ss, d) => MarksOK(last, d) /\ MarksOK(next, d) /\ MarksOK(more, d)
  BY <1>2, <1>4, <1>5, SameMarksOK
<1>7. CASE Silently(last) \/ Silently(next)
  BY <1>2, <1>6, <1>7, SilentMarks
<1>8. CASE ~(ss.li > Len(ss.src)) /\ todo # {} /\ Proceed(Destination, r, more)
  <2>1. ss.li \in 1 .. Len(ss.src) + 1
    BY <1>2 DEF Frame
  <2>2. ss.li \in DOMAIN ss.src
    BY <1>3, <1>8, <2>1
  <2>3. ListOK(list) /\ ItemsOK(list.items)
    BY <1>2, <2>2 DEF Frame, ListsOK, ListOK, list
  <2>4. DOMAIN list.items = 1 .. Len(list.items) /\ Len(list.items) \in Nat
    BY <2>3, SeqOf DEF ItemsOK
  <2>5. todo \in SUBSET DOMAIN list.items
    BY DEF Unlinked, todo
  <2>6. todo \in SUBSET Nat
    BY <2>4, <2>5
  <2>7. k \in todo
    BY <1>8, <2>6, Least DEF k
  <2>8. ItemOK(item)
    BY <2>3, <2>5, <2>7 DEF ItemsOK, item
  <2> HIDE DEF there
  <2>9. ItemOK(Preserving(item, there)) /\ Destination \in Providers
    BY <1>2, <2>8, Preserves, Sides
  <2>10. Answer(Destination, r)
    BY <1>2, <2>9, CallsUpdateItem
  <2>11. Calm(Destination, r)
    BY <1>2, <2>9, DestinationIsCalm
  <2> HIDE DEF r
  <2>12. MarksOK(more, After(Destination, r))
    BY <1>6, <2>11 DEF Calm, Harmless
  <2> QED
    BY <1>2, <1>8, <2>9, <2>10, <2>11, <2>12, CallMarks
<1> QED
  BY <1>1, <1>7, <1>8

\* Between the items of the deletion phase, and between its lists.
LEMMA DeletingMarks ==
    ASSUME Frame(ss), Base(ss), NEW d, DeadRows(ss, d), NEW s, s.at = "delete", SameMarks(ss, s)
    PROVE  MarksOK(s, d)
<1>1. Spot(s)
  BY SpotElsewhere DEF InList, Adding, Updating
<1> QED
  BY <1>1, SameMarksOK

\* The deletion phase goes to the next list.
LEMMA NextDeletionMarks ==
    ASSUME Frame(ss), Base(ss), NEW d, DeadRows(ss, d)
    PROVE  MarksOK(NextDeletion(ss), d) /\ MarksOK([NextDeletion(ss) EXCEPT !.changed = TRUE], d)
<1> DEFINE t == NextDeletion(ss)
           u == [t EXCEPT !.changed = TRUE]
<1>1. t.at = "delete" /\ SameMarks(ss, t) /\ DOMAIN t = SessionFields
  BY DEF NextDeletion, Frame, SessionFields, Session, SameMarks
<1> HIDE DEF t
<1>2. u.at = "delete" /\ SameMarks(ss, u)
  BY <1>1 DEF SessionFields, Session, SameMarks
<1> HIDE DEF u
<1> QED
  BY <1>1, <1>2, DeletingMarks DEF t, u

\* The deletion phase is at a list that the source has marked or has no more.
LEMMA DeletesListMarks ==
    ASSUME Marking, ss.di # Len(ss.dst) + 1, NEW list, ListOK(list),
           Key(list) = KeyIn(ss, ss.dst[ss.di]), Gone(ss.srcLists, list), DeleteList(list)
    PROVE  Kept
<1> DEFINE marked == [list EXCEPT !.status = "deleted"]
           next == [NextDeletion(ss) EXCEPT !.changed = TRUE]
           purge == [ss EXCEPT !.at = "purge list"]
           updated == CallUpdateList(Destination, marked, CleanList(marked))
           deleted == CallDeleteList(Destination, list)
<1>1. /\ Frame(ss) /\ WorldOK /\ MarksOK(ss, db) /\ Base(ss) /\ DeadRows(ss, db) /\ Nil \notin DOMAIN db.lists
      /\ Destination \in Providers
  BY Sides DEF Marking, GoodSession, MarksOK
<1>2. CASE Key(list) \notin DOMAIN ss.srcLists
  <2>1. Proceed(Destination, updated, next)
    BY <1>2 DEF DeleteList
  <2>2. ListOK(marked)
    BY DEF ListOK, ListFields
  <2> HIDE DEF marked
  <2>3. Answer(Destination, updated) /\ Calm(Destination, updated)
    BY <1>1, <2>2, CallsUpdateList, DestinationIsCalm
  <2> HIDE DEF updated
  <2>4. MarksOK(next, After(Destination, updated))
    BY <1>1, <2>3, NextDeletionMarks DEF Calm, Harmless
  <2> HIDE DEF next
  <2> QED
    BY <1>1, <2>1, <2>3, <2>4, CallMarks
<1>3. CASE Key(list) \in DOMAIN ss.srcLists
  <2>1. Proceed(Destination, deleted, purge)
    BY <1>3 DEF DeleteList
  <2>2. DeadEntry(ss.srcLists, Key(list))
    BY <1>3 DEF Gone, DeadEntry
  <2>3. Answer(Destination, deleted)
    BY <1>1, CallsDeleteList
  <2> HIDE DEF deleted
  <2>4. Calm(Destination, deleted) /\ After(Destination, deleted) = db
    BY <1>1, <2>2, DeletionIsCalm
  <2>5. /\ purge.at = "purge list" /\ SameMarks(ss, purge)
        /\ purge.dst = ss.dst /\ purge.di = ss.di /\ purge.remote = ss.remote
    BY <1>1 DEF Frame, SessionFields, Session, SameMarks
  <2> HIDE DEF purge
  <2>6. DeadEntry(purge.srcLists, KeyIn(purge, purge.dst[purge.di]))
    BY <2>2, <2>5 DEF KeyIn, SameMarks
  <2>7. Spot(purge)
    BY <2>5, <2>6 DEF Spot, InList, Adding, Updating
  <2>8. MarksOK(purge, After(Destination, deleted))
    BY <1>1, <2>4, <2>5, <2>7, SameMarksOK
  <2> QED
    BY <1>1, <2>1, <2>3, <2>4, <2>8, CallMarks
<1> QED
  BY <1>2, <1>3

\* The deletion phase is at an item that the source has marked or has no more.
LEMMA DeletesItemMarks ==
    ASSUME Marking, ss.at = "delete", NEW k, NEW item, item = ItemsInView(ss.dst[ss.di])[k], ItemOK(item),
           Gone(ss.srcItems, item), DeleteItem(item, k)
    PROVE  Kept
<1> DEFINE marked == [item EXCEPT !.status = "deleted"]
           next == [ss EXCEPT !.dj = k + 1, !.changed = TRUE]
           purge == [ss EXCEPT !.at = "purge item", !.dj = k]
           updated == CallUpdateItem(Destination, marked)
           deleted == CallDeleteItem(Destination, item)
<1>1. /\ Frame(ss) /\ WorldOK /\ MarksOK(ss, db) /\ Base(ss) /\ DeadRows(ss, db) /\ Nil \notin DOMAIN db.lists
      /\ Destination \in Providers
  BY Sides DEF Marking, GoodSession, MarksOK
<1>2. CASE Key(item) \notin DOMAIN ss.srcItems
  <2>1. Proceed(Destination, updated, next)
    BY <1>2 DEF DeleteItem
  <2>2. ItemOK(marked)
    BY DEF ItemOK, ItemFields, Statuses
  <2> HIDE DEF marked
  <2>3. Answer(Destination, updated) /\ Calm(Destination, updated)
    BY <1>1, <2>2, CallsUpdateItem, DestinationIsCalm
  <2> HIDE DEF updated
  <2>4. next.at = "delete" /\ SameMarks(ss, next)
    BY <1>1 DEF Frame, SessionFields, Session, SameMarks
  <2> HIDE DEF next
  <2>5. MarksOK(next, After(Destination, updated))
    BY <1>1, <2>3, <2>4, DeletingMarks DEF Calm, Harmless
  <2> QED
    BY <1>1, <2>1, <2>3, <2>5, CallMarks
<1>3. CASE Key(item) \in DOMAIN ss.srcItems
  <2>1. Proceed(Destination, deleted, purge)
    BY <1>3 DEF DeleteItem
  <2>2. DeadEntry(ss.srcItems, Key(item))
    BY <1>3 DEF Gone, DeadEntry
  <2>3. Answer(Destination, deleted)
    BY <1>1, CallsDeleteItem
  <2> HIDE DEF deleted
  <2>4. Calm(Destination, deleted) /\ After(Destination, deleted) = db
    BY <1>1, <2>2, DeletionIsCalm
  <2>5. /\ purge.at = "purge item" /\ SameMarks(ss, purge) /\ purge.dj = k
        /\ purge.dst = ss.dst /\ purge.di = ss.di /\ purge.remote = ss.remote /\ purge.view = ss.view
    BY <1>1 DEF Frame, SessionFields, Session, SameMarks
  <2> HIDE DEF purge
  <2>6. ViewIn(purge) = ItemsInView(ss.dst[ss.di])
    BY <2>5 DEF ViewIn, ItemsInView, KeyIn, Key
  <2>7. ViewIn(purge)[purge.dj] = item
    BY <2>5, <2>6
  <2>8. DeadEntry(purge.srcItems, KeyIn(purge, ViewIn(purge)[purge.dj]))
    BY <2>2, <2>5, <2>7 DEF KeyIn, Key, SameMarks
  <2>9. Spot(purge)
    BY <2>5, <2>8 DEF Spot, InList, Adding, Updating
  <2>10. MarksOK(purge, After(Destination, deleted))
    BY <1>1, <2>4, <2>5, <2>9, SameMarksOK
  <2> QED
    BY <1>1, <2>1, <2>3, <2>4, <2>10, CallMarks
<1> QED
  BY <1>2, <1>3

\* The step of the deletion phase.
LEMMA DeletesMarks ==
    ASSUME Marking, Delete
    PROVE  Kept
<1> DEFINE items == ItemsInView(ss.dst[ss.di])
           list == [ss.dst[ss.di] EXCEPT !.items = items]
           gone == {k \in ss.dj .. Len(items) :
                       /\ items[k].status # "deleted" /\ Key(items[k]) # Nil
                       /\ Gone(ss.srcItems, items[k])}
           k == CHOOSE i \in gone : \A j \in gone : i <= j
<1>1. /\ ss.at = "delete"
      /\ IF ss.di > Len(ss.dst) THEN Silently(Return("ok"))
         ELSE IF list.status = "deleted" \/ Key(list) = Nil THEN Silently(NextDeletion(ss))
         ELSE IF Gone(ss.srcLists, list) THEN DeleteList(list)
         ELSE IF gone = {} THEN Silently(NextDeletion(ss))
         ELSE DeleteItem(items[k], k)
  BY DEF Delete
<1>2. Frame(ss) /\ MarksOK(ss, db) /\ Base(ss) /\ DeadRows(ss, db) /\ Nil \notin DOMAIN db.lists
  BY DEF Marking, GoodSession, MarksOK
<1>3. CASE ss.di > Len(ss.dst)
  <2>1. Silently(Return("ok")) /\ MarksOK(Return("ok"), db)
    BY <1>1, <1>2, <1>3, ReturningMarks
  <2> QED
    BY <1>2, <2>1, SilentMarks
<1>4. CASE ~(ss.di > Len(ss.dst))
  <2>1. ss.di # Len(ss.dst) + 1
    <3>1. Len(ss.dst) \in Nat
      BY <1>2, SeqOf DEF Frame, ListsOK
    <3> QED
      BY <1>4, <3>1
  <2>2. ListOK(ss.dst[ss.di]) /\ ItemsOK(items)
    BY <1>2, <2>1, InView
  <2>3. \A x : x = ItemsInView(ss.dst[ss.di]) => x = items
    OBVIOUS
  <2> HIDE DEF items
  <2>4. ListOK(list)
    BY <2>2, WithItems
  <2>5. Key(list) = KeyIn(ss, ss.dst[ss.di])
    BY <2>2 DEF ListOK, ListFields, Key, KeyIn
  <2> HIDE DEF list
  <2>6. MarksOK(NextDeletion(ss), db)
    BY <1>2, NextDeletionMarks
  <2>7. CASE Silently(NextDeletion(ss))
    BY <1>2, <2>6, <2>7, SilentMarks
  <2>8. CASE Gone(ss.srcLists, list) /\ DeleteList(list)
    BY <2>1, <2>4, <2>8, <2>5, DeletesListMarks
  <2>9. CASE gone # {} /\ DeleteItem(items[k], k)
    <3>1. DOMAIN items = 1 .. Len(items) /\ Len(items) \in Nat
      BY <2>2, SeqOf DEF ItemsOK
    <3>2. ss.dj \in Nat \ {0}
      BY <1>2 DEF Frame
    <3>3. gone \in SUBSET Nat /\ gone \in SUBSET DOMAIN items
      BY <3>1, <3>2
    <3>4. gone # {} /\ DeleteItem(items[k], k)
      BY <2>9
    <3>5. \A i \in gone : Gone(ss.srcItems, items[i])
      OBVIOUS
    <3> HIDE DEF gone
    <3>6. k \in gone
      BY <3>3, <3>4, Least
    <3> HIDE DEF k
    <3>7. ItemOK(items[k]) /\ Gone(ss.srcItems, items[k])
      BY <2>2, <3>3, <3>5, <3>6 DEF ItemsOK
    <3>8. items[k] = ItemsInView(ss.dst[ss.di])[k]
      BY <2>3
    <3> QED
      BY <1>1, <3>4, <3>7, <3>8, DeletesItemMarks
  <2> HIDE DEF gone, k
  <2> QED
    BY <1>1, <1>4, <2>7, <2>8, <2>9
<1> QED
  BY <1>3, <1>4

\* The step that purges a list from the source once the destination has deleted it.
LEMMA PurgesListMarks ==
    ASSUME Marking, PurgeList
    PROVE  Kept
<1> DEFINE key == Key(ss.dst[ss.di])
           r == CallDeleteList(Source, ss.srcLists[key])
           s == [NextDeletion(ss) EXCEPT !.changed = TRUE]
<1>1. /\ Frame(ss) /\ WorldOK /\ MarksOK(ss, db) /\ Base(ss) /\ DeadRows(ss, db) /\ Nil \notin DOMAIN db.lists
      /\ Source \in Providers /\ Spot(ss)
  BY Sides DEF Marking, GoodSession, MarksOK
<1>2. ss.at = "purge list" /\ Proceed(Source, r, s)
  BY DEF PurgeList
<1>3. DeadEntry(ss.srcLists, key)
  BY <1>1, <1>2 DEF Spot, KeyIn, Key
<1> HIDE DEF key
<1>4. Answer(Source, r) /\ Calm(Source, r)
  BY <1>1, <1>3, CallsDeleteList, PurgeIsCalm
<1> HIDE DEF r
<1>5. MarksOK(s, After(Source, r))
  BY <1>1, <1>4, NextDeletionMarks DEF Calm, Harmless
<1> HIDE DEF s
<1> QED
  BY <1>1, <1>2, <1>4, <1>5, CallMarks

\* The step that purges an item from the source once the destination has deleted it.
LEMMA PurgesItemMarks ==
    ASSUME Marking, PurgeItem
    PROVE  Kept
<1> DEFINE key == Key(ItemsInView(ss.dst[ss.di])[ss.dj])
           r == CallDeleteItem(Source, ss.srcItems[key])
           s == [ss EXCEPT !.at = "delete", !.dj = ss.dj + 1, !.changed = TRUE]
<1>1. /\ Frame(ss) /\ WorldOK /\ MarksOK(ss, db) /\ Base(ss) /\ DeadRows(ss, db) /\ Nil \notin DOMAIN db.lists
      /\ Source \in Providers /\ Spot(ss)
  BY Sides DEF Marking, GoodSession, MarksOK
<1>2. ss.at = "purge item" /\ Proceed(Source, r, s)
  BY <1>1 DEF PurgeItem, Frame, SessionFields, Session
<1>3. DeadEntry(ss.srcItems, key)
  BY <1>1, <1>2 DEF Spot, ViewIn, ItemsInView, KeyIn, Key
<1> HIDE DEF key
<1>4. Answer(Source, r) /\ Calm(Source, r)
  BY <1>1, <1>3, CallsDeleteItem, PurgeIsCalm
<1> HIDE DEF r
<1>5. s.at = "delete" /\ SameMarks(ss, s)
  BY <1>1 DEF Frame, SessionFields, Session, SameMarks
<1> HIDE DEF s
<1>6. MarksOK(s, After(Source, r))
  BY <1>1, <1>4, <1>5, DeletingMarks DEF Calm, Harmless
<1> QED
  BY <1>1, <1>2, <1>4, <1>6, CallMarks

-----------------------------------------------------------------------------
(* The steps of the system. *)

\* Every step of a session keeps the invariant and takes nothing unmarked.
LEMMA SyncerMarks ==
    ASSUME TypeOK, MarkInv, SyncerStep
    PROVE  Kept
<1>1. WorldOK
  BY DEF TypeOK, WorldOK
<1>2. ss.at # "idle"
  BY DEF SyncerStep, ReadSource, ReadDestination, ReadTasks, OpenList, CreateList, BackfillList,
         CreateItem, BackfillItem, UpdateList, UpdateItem, Link, Delete, PurgeList, PurgeItem
<1>3. Marking
  BY <1>1, <1>2, SessionIsGood DEF TypeOK, Marking, MarkInv
<1> QED
  BY <1>3, ReadsSourceMarks, ReadsDestinationMarks, ReadsTasksMarks, OpensListMarks, CreatesListMarks,
     BackfillsListMarks, CreatesItemMarks, BackfillsItemMarks, UpdatesListMarks, UpdatesItemMarks,
     LinksMarks, DeletesMarks, PurgesListMarks, PurgesItemMarks
     DEF SyncerStep

\* A session that has read nothing knows of no marks.
LEMMA FreshMarks ==
    ASSUME NEW phase, NEW remote, NEW start, NEW d
    PROVE  MarksOK(Session(phase, remote, start), d)
<1> DEFINE s == Session(phase, remote, start)
<1>1. /\ s.at = "read source" /\ s.listing = <<>> /\ s.src = <<>>
      /\ s.srcLists = <<>> /\ s.srcItems = <<>>
  BY DEF Session
<1> HIDE DEF s
<1>2. Spot(s)
  BY <1>1, SpotElsewhere DEF InList, Adding, Updating
<1>3. DOMAIN s.listing = {} /\ DOMAIN s.src = {} /\ Marked(s.srcLists) = {} /\ Marked(s.srcItems) = {}
  BY <1>1, Empty DEF Marked
<1>4. Base(s) /\ DeadRows(s, d)
  BY <1>3 DEF Base, DeadRows, Unmarked
<1> QED
  BY <1>2, <1>4 DEF MarksOK, s

\* The driver starts a session, or rests.
LEMMA GoesOnMarks ==
    ASSUME NEW p, GoOn(p), NEW d
    PROVE  ss'.at # "idle" => MarksOK(ss', d)
<1>1. ss' = Idle \/ \E phase, remote : ss' = Session(phase, remote, p.start)
  BY DEF GoOn
<1>2. CASE ss' = Idle
  BY <1>2 DEF Idle
<1>3. CASE \E phase, remote : ss' = Session(phase, remote, p.start)
  BY <1>3, FreshMarks
<1> QED
  BY <1>1, <1>2, <1>3

\* No step of the system takes a row that is not marked.
LEMMA MarksStep ==
    ASSUME TypeOK, MarkInv, [Next]_vars
    PROVE  MarkInv' /\ Stays(db, db')
<1>1. CASE SyncerStep
  BY <1>1, SyncerMarks DEF Kept, MarkInv
<1>2. CASE User \/ UNCHANGED vars
  <2>1. db' = db /\ ss' = ss
    BY <1>2 DEF User, vars, syncerVars, worldVars
  <2> QED
    BY <2>1, StaysPut DEF MarkInv
<1>3. CASE BeginPass \/ PullReturns \/ PushReturns
  <2>1. PICK p : GoOn(p)
    <3>1. CASE BeginPass
      BY <3>1 DEF BeginPass, Begin
    <3>2. CASE PullReturns
      BY <3>2 DEF PullReturns
    <3>3. CASE PushReturns
      BY <3>3 DEF PushReturns
    <3> QED
      BY <1>3, <3>1, <3>2, <3>3
  <2>2. db' = db
    BY <1>3 DEF BeginPass, Begin, PullReturns, PushReturns, worldVars
  <2> QED
    BY <2>1, <2>2, GoesOnMarks, StaysPut DEF MarkInv
<1>4. CASE Crash
  BY <1>4, StaysPut DEF Crash, Idle, MarkInv
<1> QED
  BY <1>1, <1>2, <1>3, <1>4 DEF Next, Driver

\* For every file and service to begin with, every set of targets and every number of
\* edits, passes and faults: no list leaves the database that was not marked deleted
\* before, and no item that was not, unless its list goes or is marked.  What a push
\* found marked is still marked, or gone, when it comes to purge it, whatever was
\* written in between (deleteList and deleteItem of syncer.go).
THEOREM MarksKept == Spec => MarkedBeforePurged
<1>1. Init => MarkInv
  BY DEF Init, Store!EmptyDB, Idle, MarkInv
<1>2. TypeOK /\ MarkInv /\ [Next]_vars => MarkInv'
  BY MarksStep
<1>3. TypeOK /\ MarkInv /\ [Next]_vars =>
        [ /\ \A l \in DOMAIN db.lists \ DOMAIN db'.lists : db.lists[l].status = "deleted"
          /\ \A i \in DOMAIN db.items \ DOMAIN db'.items :
                \/ db.items[i].status = "deleted"
                \/ LET l == db.items[i].list
                   IN  l \notin DOMAIN db'.lists \/ db'.lists[l].status = "deleted" ]_vars
  BY MarksStep DEF Stays
<1> QED
  BY <1>1, <1>2, <1>3, TypeCorrect, PTL DEF Spec, MarkedBeforePurged

=============================================================================
