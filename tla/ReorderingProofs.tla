-------------------------- MODULE ReorderingProofs --------------------------
(***************************************************************************)
(* UpdateList of the Google Tasks client does what Rearranging says, for    *)
(* any tasks, orders and failures: so it ends as wanted, by as few moves as *)
(* possible, and the service refuses none of them.                         *)
(***************************************************************************)
EXTENDS Reordering, ReorderProofs

Ids == Here \cup There

\* The abstract specification with what is proved of it.
Abstract == INSTANCE RearrangingProofs
            WITH TaskIds <- Here \cup There, here <- HereNow, before <- BeforeNow, left <- LeftNow

-----------------------------------------------------------------------------
(* Orders of tasks. *)

Distinct(tasks) == \A i, j \in DOMAIN tasks : tasks[i].id = tasks[j].id => i = j

LEMMA OrderPairs ==
    ASSUME NEW tasks, NEW y, NEW z
    PROVE  <<y, z>> \in OrderOf(tasks) <=>
              \E i, j \in DOMAIN tasks : i < j /\ tasks[i].id = y /\ tasks[j].id = z
<1>1. \A i, j \in DOMAIN tasks : <<tasks[i].id, tasks[j].id>> \in IdsOf(tasks) \X IdsOf(tasks)
  BY DEF IdsOf
<1>2. \A i, j : <<y, z>> = <<tasks[i].id, tasks[j].id>> <=> tasks[i].id = y /\ tasks[j].id = z
  OBVIOUS
<1> QED
  BY <1>1, <1>2 DEF OrderOf

LEMMA IdsMembers ==
    ASSUME NEW tasks, NEW x
    PROVE  x \in IdsOf(tasks) <=> \E k \in DOMAIN tasks : tasks[k].id = x
  BY DEF IdsOf

\* First, on identifiers.
LEMMA AmongProperties ==
    ASSUME NEW T, NEW tasks \in Seq(T), NEW x \in IdsOf(tasks)
    PROVE  Among(tasks, x) \in 1 .. Len(tasks) /\ tasks[Among(tasks, x)].id = x
<1> DEFINE found == {k \in DOMAIN tasks : tasks[k].id = x}
<1>1. DOMAIN tasks = 1 .. Len(tasks) /\ Len(tasks) \in Nat
  BY LenProperties
<1>2. found # {} /\ found \in SUBSET DOMAIN tasks /\ found \in SUBSET Nat
  BY <1>1 DEF IdsOf
<1>3. Among(tasks, x) = IF found = {} THEN 0 ELSE CHOOSE k \in found : \A j \in found : k <= j
  BY DEF Among, First
<1>4. \A k \in found : tasks[k].id = x
  OBVIOUS
<1> HIDE DEF found
<1>5. Among(tasks, x) \in found
  BY <1>2, <1>3, Least
<1> QED
  BY <1>1, <1>2, <1>4, <1>5

\* Taking a task out leaves the others in their order.
LEMMA OrderWithout ==
    ASSUME NEW T, NEW tasks \in Seq(T), Distinct(tasks), NEW k \in 1 .. Len(tasks),
           NEW x, x = tasks[k].id, NEW new, new = Without(tasks, k)
    PROVE  /\ new \in Seq(T) /\ Distinct(new) /\ IdsOf(new) = IdsOf(tasks) \ {x}
           /\ \A y, z : <<y, z>> \in OrderOf(new) <=>
                           <<y, z>> \in OrderOf(tasks) /\ y # x /\ z # x
<1> DEFINE N == Len(tasks)
           old(i) == IF i < k THEN i ELSE i + 1
<1>1. N \in Nat /\ k \in Nat /\ DOMAIN tasks = 1 .. N
  BY LenProperties
<1>2. /\ new \in Seq(T) /\ Len(new) = N - 1
      /\ \A i \in 1 .. N - 1 : new[i] = IF i < k THEN tasks[i] ELSE tasks[i + 1]
  BY WithoutProperties
<1>3. DOMAIN new = 1 .. N - 1
  BY <1>2, LenProperties
<1>4. \A i \in 1 .. N - 1 : old(i) \in 1 .. N /\ old(i) # k /\ new[i] = tasks[old(i)]
  BY <1>1, <1>2
<1>5. \A i, j \in 1 .. N - 1 : (old(i) = old(j) => i = j) /\ (i < j <=> old(i) < old(j))
  BY <1>1
<1>6. \A j \in 1 .. N : j # k => \E i \in 1 .. N - 1 : old(i) = j
  <2> SUFFICES ASSUME NEW j \in 1 .. N, j # k PROVE \E i \in 1 .. N - 1 : old(i) = j
    OBVIOUS
  <2>1. CASE j < k
    BY <2>1, <1>1
  <2>2. CASE j > k
    <3>1. j - 1 \in 1 .. N - 1 /\ old(j - 1) = j
      BY <2>2, <1>1
    <3> QED
      BY <3>1
  <2> QED
    BY <2>1, <2>2, <1>1
<1> HIDE DEF old, N
<1>7. Distinct(new)
  BY <1>1, <1>3, <1>4, <1>5 DEF Distinct
<1>8. \A j \in 1 .. N : tasks[j].id = x => j = k
  BY <1>1 DEF Distinct
<1>9. IdsOf(new) = IdsOf(tasks) \ {x}
  <2> SUFFICES ASSUME NEW y PROVE y \in IdsOf(new) <=> y \in IdsOf(tasks) /\ y # x
    OBVIOUS
  <2>1. y \in IdsOf(new) => y \in IdsOf(tasks) /\ y # x
    BY <1>1, <1>3, <1>4, <1>8, IdsMembers
  <2>2. ASSUME NEW j \in 1 .. N, tasks[j].id = y, y # x PROVE \E i \in DOMAIN new : new[i].id = y
    BY <2>2, <1>3, <1>4, <1>6
  <2> QED
    BY <2>1, <2>2, <1>1, IdsMembers
<1>10. ASSUME NEW y, NEW z
       PROVE  <<y, z>> \in OrderOf(new) <=> <<y, z>> \in OrderOf(tasks) /\ y # x /\ z # x
  <2>1. ASSUME <<y, z>> \in OrderOf(new)
        PROVE  <<y, z>> \in OrderOf(tasks) /\ y # x /\ z # x
    <3>0. \E i, j \in DOMAIN new : i < j /\ new[i].id = y /\ new[j].id = z
      BY <2>1, OrderPairs
    <3>1. PICK i \in 1 .. N - 1, j \in 1 .. N - 1 : i < j /\ new[i].id = y /\ new[j].id = z
      BY <3>0, <1>3
    <3>2. /\ old(i) \in DOMAIN tasks /\ old(j) \in DOMAIN tasks /\ old(i) < old(j)
          /\ tasks[old(i)].id = y /\ tasks[old(j)].id = z /\ y # x /\ z # x
      BY <3>1, <1>1, <1>4, <1>5, <1>8
    <3> QED
      BY <3>2, OrderPairs
  <2>2. ASSUME <<y, z>> \in OrderOf(tasks), y # x, z # x
        PROVE  <<y, z>> \in OrderOf(new)
    <3>1. PICK i \in 1 .. N, j \in 1 .. N : i < j /\ tasks[i].id = y /\ tasks[j].id = z
      BY <2>2, <1>1, OrderPairs
    <3>2. PICK m \in 1 .. N - 1 : old(m) = i
      BY <3>1, <2>2, <1>6
    <3>3. PICK n \in 1 .. N - 1 : old(n) = j
      BY <3>1, <2>2, <1>6
    <3>4. m < n /\ new[m].id = y /\ new[n].id = z
      BY <3>1, <3>2, <3>3, <1>4, <1>5
    <3> QED
      BY <3>4, <1>3, OrderPairs
  <2> QED
    BY <2>1, <2>2
<1> QED
  BY <1>2, <1>7, <1>9, <1>10

\* Putting one in leaves the others in their order, and itself in between.
LEMMA OrderInserted ==
    ASSUME NEW T, NEW tasks \in Seq(T), Distinct(tasks), NEW at \in 0 .. Len(tasks), NEW e \in T
    PROVE  \A x, new :
              x = e.id /\ x \notin IdsOf(tasks) /\ new = InsertedAt(tasks, at, e) =>
                 /\ new \in Seq(T) /\ Distinct(new) /\ IdsOf(new) = IdsOf(tasks) \cup {x}
                 /\ \A y, z : <<y, z>> \in OrderOf(new) <=>
                       \/ <<y, z>> \in OrderOf(tasks)
                       \/ (z = x /\ \E i \in 1 .. at : tasks[i].id = y)
                       \/ (y = x /\ \E i \in at + 1 .. Len(tasks) : tasks[i].id = z)
<1>0. /\ InsertedAt(tasks, at, e) \in Seq(T) /\ Len(InsertedAt(tasks, at, e)) = Len(tasks) + 1
      /\ \A i \in 1 .. Len(tasks) + 1 :
            InsertedAt(tasks, at, e)[i] =
                IF i <= at THEN tasks[i] ELSE IF i = at + 1 THEN e ELSE tasks[i - 1]
  BY InsertedAtProperties
<1> SUFFICES ASSUME NEW x, NEW new, x = e.id, x \notin IdsOf(tasks), new = InsertedAt(tasks, at, e)
             PROVE  /\ new \in Seq(T) /\ Distinct(new) /\ IdsOf(new) = IdsOf(tasks) \cup {x}
                    /\ \A y, z : <<y, z>> \in OrderOf(new) <=>
                          \/ <<y, z>> \in OrderOf(tasks)
                          \/ (z = x /\ \E i \in 1 .. at : tasks[i].id = y)
                          \/ (y = x /\ \E i \in at + 1 .. Len(tasks) : tasks[i].id = z)
  OBVIOUS
<1> DEFINE N == Len(tasks)
           to(i) == IF i <= at THEN i ELSE i + 1
<1>1. N \in Nat /\ at \in Nat /\ at <= N /\ DOMAIN tasks = 1 .. N
  BY LenProperties
<1>2. /\ new \in Seq(T) /\ Len(new) = N + 1
      /\ \A i \in 1 .. N + 1 :
            new[i] = IF i <= at THEN tasks[i] ELSE IF i = at + 1 THEN e ELSE tasks[i - 1]
  BY <1>0
<1>3. DOMAIN new = 1 .. N + 1
  BY <1>2, LenProperties
<1>4. /\ at + 1 \in 1 .. N + 1 /\ new[at + 1] = e
      /\ \A i \in 1 .. N : to(i) \in 1 .. N + 1 /\ to(i) # at + 1 /\ new[to(i)] = tasks[i]
      /\ \A i \in 1 .. N : (i <= at <=> to(i) < at + 1) /\ (i > at <=> to(i) > at + 1)
  <2> SUFFICES ASSUME NEW i \in 1 .. N
               PROVE  /\ to(i) \in 1 .. N + 1 /\ to(i) # at + 1 /\ new[to(i)] = tasks[i]
                      /\ (i <= at <=> to(i) < at + 1) /\ (i > at <=> to(i) > at + 1)
    BY <1>1, <1>2
  <2>1. CASE i <= at
    BY <2>1, <1>1, <1>2
  <2>2. CASE ~(i <= at)
    <3>1. to(i) = i + 1 /\ i + 1 \in 1 .. N + 1 /\ ~(i + 1 <= at) /\ i + 1 # at + 1 /\ (i + 1) - 1 = i
      BY <2>2, <1>1
    <3> QED
      BY <3>1, <2>2, <1>1, <1>2
  <2> QED
    BY <2>1, <2>2
<1>5. \A i, j \in 1 .. N : (to(i) = to(j) => i = j) /\ (i < j <=> to(i) < to(j))
  BY <1>1
<1>6. \A j \in 1 .. N + 1 : j = at + 1 \/ \E i \in 1 .. N : to(i) = j
  <2> SUFFICES ASSUME NEW j \in 1 .. N + 1, j # at + 1 PROVE \E i \in 1 .. N : to(i) = j
    OBVIOUS
  <2>1. CASE j <= at
    BY <2>1, <1>1
  <2>2. CASE ~(j <= at)
    <3>1. j - 1 \in 1 .. N /\ to(j - 1) = j
      BY <2>2, <1>1
    <3> QED
      BY <3>1
  <2> QED
    BY <2>1, <2>2
<1> HIDE DEF to, N
<1>7. \A i \in 1 .. N : tasks[i].id # x
  BY <1>1 DEF IdsOf
<1>8. \A j \in 1 .. N + 1 : new[j].id = x => j = at + 1
  BY <1>4, <1>6, <1>7
<1>9. Distinct(new)
  <2> SUFFICES ASSUME NEW i \in 1 .. N + 1, NEW j \in 1 .. N + 1, new[i].id = new[j].id
               PROVE  i = j
    BY <1>3 DEF Distinct
  <2>1. CASE i = at + 1 \/ j = at + 1
    BY <2>1, <1>4, <1>8
  <2>2. CASE i # at + 1 /\ j # at + 1
    <3>1. PICK m \in 1 .. N : to(m) = i
      BY <2>2, <1>6
    <3>2. PICK n \in 1 .. N : to(n) = j
      BY <2>2, <1>6
    <3>3. tasks[m].id = tasks[n].id
      BY <3>1, <3>2, <1>4
    <3> QED
      BY <3>1, <3>2, <3>3, <1>1 DEF Distinct
  <2> QED
    BY <2>1, <2>2
<1>10. IdsOf(new) = IdsOf(tasks) \cup {x}
  <2> SUFFICES ASSUME NEW y PROVE y \in IdsOf(new) <=> y \in IdsOf(tasks) \/ y = x
    OBVIOUS
  <2>1. ASSUME NEW j \in 1 .. N + 1, new[j].id = y, y # x
        PROVE  \E i \in DOMAIN tasks : tasks[i].id = y
    <3>1. PICK i \in 1 .. N : to(i) = j
      BY <2>1, <1>4, <1>6
    <3> QED
      BY <3>1, <2>1, <1>1, <1>4
  <2>2. ASSUME NEW i \in 1 .. N, tasks[i].id = y PROVE \E j \in DOMAIN new : new[j].id = y
    BY <2>2, <1>3, <1>4
  <2>3. x \in IdsOf(new)
    BY <1>3, <1>4, IdsMembers
  <2> QED
    BY <2>1, <2>2, <2>3, <1>1, <1>3, IdsMembers
<1>11. ASSUME NEW y, NEW z
       PROVE  <<y, z>> \in OrderOf(new) <=>
                 \/ <<y, z>> \in OrderOf(tasks)
                 \/ (z = x /\ \E i \in 1 .. at : tasks[i].id = y)
                 \/ (y = x /\ \E i \in at + 1 .. N : tasks[i].id = z)
  <2>1. ASSUME <<y, z>> \in OrderOf(new)
        PROVE  \/ <<y, z>> \in OrderOf(tasks)
               \/ (z = x /\ \E i \in 1 .. at : tasks[i].id = y)
               \/ (y = x /\ \E i \in at + 1 .. N : tasks[i].id = z)
    <3>0. \E i, j \in DOMAIN new : i < j /\ new[i].id = y /\ new[j].id = z
      BY <2>1, OrderPairs
    <3>1. PICK i \in 1 .. N + 1, j \in 1 .. N + 1 : i < j /\ new[i].id = y /\ new[j].id = z
      BY <3>0, <1>3
    <3>2. CASE i = at + 1
      <4>1. PICK m \in 1 .. N : to(m) = j
        BY <3>1, <3>2, <1>1, <1>6
      <4>2. m \in at + 1 .. N /\ tasks[m].id = z /\ y = x
        BY <4>1, <3>1, <3>2, <1>1, <1>4
      <4> QED
        BY <4>2
    <3>3. CASE j = at + 1
      <4>1. PICK m \in 1 .. N : to(m) = i
        BY <3>1, <3>3, <1>1, <1>6
      <4>2. m \in 1 .. at /\ tasks[m].id = y /\ z = x
        BY <4>1, <3>1, <3>3, <1>1, <1>4
      <4> QED
        BY <4>2
    <3>4. CASE i # at + 1 /\ j # at + 1
      <4>1. PICK m \in 1 .. N : to(m) = i
        BY <3>4, <1>6
      <4>2. PICK n \in 1 .. N : to(n) = j
        BY <3>4, <1>6
      <4>3. m < n /\ tasks[m].id = y /\ tasks[n].id = z
        BY <4>1, <4>2, <3>1, <1>4, <1>5
      <4> QED
        BY <4>3, <1>1, OrderPairs
    <3> QED
      BY <3>2, <3>3, <3>4
  <2>2. ASSUME <<y, z>> \in OrderOf(tasks)
        PROVE  <<y, z>> \in OrderOf(new)
    <3>1. PICK i \in 1 .. N, j \in 1 .. N : i < j /\ tasks[i].id = y /\ tasks[j].id = z
      BY <2>2, <1>1, OrderPairs
    <3>2. to(i) \in DOMAIN new /\ to(j) \in DOMAIN new /\ to(i) < to(j)
          /\ new[to(i)].id = y /\ new[to(j)].id = z
      BY <3>1, <1>3, <1>4, <1>5
    <3> QED
      BY <3>2, OrderPairs
  <2>3. ASSUME NEW i \in 1 .. at, tasks[i].id = y, z = x
        PROVE  <<y, z>> \in OrderOf(new)
    <3>1. i \in 1 .. N /\ i <= at
      BY <1>1
    <3>2. to(i) \in DOMAIN new /\ at + 1 \in DOMAIN new /\ to(i) < at + 1
          /\ new[to(i)].id = y /\ new[at + 1].id = z
      BY <3>1, <2>3, <1>3, <1>4
    <3> QED
      BY <3>2, OrderPairs
  <2>4. ASSUME NEW i \in at + 1 .. N, tasks[i].id = z, y = x
        PROVE  <<y, z>> \in OrderOf(new)
    <3>1. i \in 1 .. N /\ i > at
      BY <1>1
    <3>2. to(i) \in DOMAIN new /\ at + 1 \in DOMAIN new /\ to(i) > at + 1 /\ to(i) \in Nat
          /\ new[to(i)].id = z /\ new[at + 1].id = y
      BY <3>1, <2>4, <1>3, <1>4
    <3>3. at + 1 < to(i)
      BY <3>2, <1>1
    <3> QED
      BY <3>2, <3>3, OrderPairs
  <2> QED
    BY <2>1, <2>2, <2>3, <2>4
<1> QED
  BY <1>2, <1>9, <1>10, <1>11 DEF N

-----------------------------------------------------------------------------
(* The move of the service and the moves of Rearranging. *)

LEMMA SamePairs ==
    ASSUME NEW U, NEW A, NEW B, A \in SUBSET (U \X U), B \in SUBSET (U \X U),
           \A y, z : <<y, z>> \in A <=> <<y, z>> \in B
    PROVE  A = B
<1>1. \A q \in U \X U : \E y, z : q = <<y, z>>
  OBVIOUS
<1>2. \A q : q \in A <=> q \in B
  BY <1>1
<1> QED
  BY <1>2

LEMMA OrderIsPairs ==
    ASSUME NEW tasks
    PROVE  OrderOf(tasks) \in SUBSET (IdsOf(tasks) \X IdsOf(tasks))
  BY DEF OrderOf

\* In a list without x and then with x, first or behind p.
LEMMA PutFirst ==
    ASSUME NEW T, NEW taken \in Seq(T), Distinct(taken), NEW e \in T,
           IdsOf(taken) = HereNow \ {e.id},
           \A y, z : <<y, z>> \in OrderOf(taken) <=> <<y, z>> \in BeforeNow /\ y # e.id /\ z # e.id,
           NEW new, new = InsertedAt(taken, 0, e)
    PROVE  /\ new \in Seq(T) /\ Distinct(new) /\ IdsOf(new) = HereNow \cup {e.id}
           /\ OrderOf(new) = Abstract!AtFront(e.id)
<1> DEFINE x == e.id
           H == HereNow \cup {x}
<1>0. Len(taken) \in Nat /\ 0 \in 0 .. Len(taken) /\ x \notin IdsOf(taken) /\ DOMAIN taken = 1 .. Len(taken)
  BY LenProperties
<1>1. /\ new \in Seq(T) /\ Distinct(new) /\ IdsOf(new) = IdsOf(taken) \cup {x}
      /\ \A y, z : <<y, z>> \in OrderOf(new) <=>
            \/ <<y, z>> \in OrderOf(taken)
            \/ (z = x /\ \E i \in 1 .. 0 : taken[i].id = y)
            \/ (y = x /\ \E i \in 0 + 1 .. Len(taken) : taken[i].id = z)
  BY <1>0, OrderInserted
<1>2. IdsOf(new) = H
  BY <1>1
<1>3. ASSUME NEW y, NEW z
      PROVE  <<y, z>> \in OrderOf(new) <=> <<y, z>> \in Abstract!AtFront(x)
  <2>1. (\E i \in 0 + 1 .. Len(taken) : taken[i].id = z) <=> z \in HereNow \ {x}
    BY <1>0, IdsMembers
  <2>2. ~\E i \in 1 .. 0 : taken[i].id = y
    OBVIOUS
  <2> QED
    BY <2>1, <2>2, <1>1, Abstract!FrontPairs
<1>4. Abstract!AtFront(x) \in SUBSET (H \X H)
  BY OrderIsPairs DEF Abstract!AtFront, HereNow, BeforeNow
<1>5. OrderOf(new) \in SUBSET (H \X H)
  BY <1>2, OrderIsPairs
<1> HIDE DEF H
<1>6. OrderOf(new) = Abstract!AtFront(x)
  <2>1. \A y, z : <<y, z>> \in OrderOf(new) <=> <<y, z>> \in Abstract!AtFront(x)
    BY <1>3
  <2> HIDE DEF x
  <2> QED
    BY <2>1, <1>4, <1>5, SamePairs, Zenon
<1> QED
  BY <1>1, <1>2, <1>6 DEF H

LEMMA PutBehind ==
    ASSUME NEW T, NEW taken \in Seq(T), Distinct(taken), NEW e \in T,
           IdsOf(taken) = HereNow \ {e.id},
           \A y, z : <<y, z>> \in OrderOf(taken) <=> <<y, z>> \in BeforeNow /\ y # e.id /\ z # e.id,
           NEW p \in IdsOf(taken), NEW at \in 1 .. Len(taken), taken[at].id = p,
           NEW new, new = InsertedAt(taken, at, e)
    PROVE  /\ new \in Seq(T) /\ Distinct(new) /\ IdsOf(new) = HereNow \cup {e.id}
           /\ OrderOf(new) = Abstract!Behind(p, e.id)
<1> DEFINE x == e.id
           H == HereNow \cup {x}
           N == Len(taken)
<1>0. /\ N \in Nat /\ at \in Nat /\ at \in 0 .. N /\ x \notin IdsOf(taken) /\ DOMAIN taken = 1 .. N
      /\ p \in HereNow /\ p # x
  BY LenProperties
<1>1. /\ new \in Seq(T) /\ Distinct(new) /\ IdsOf(new) = IdsOf(taken) \cup {x}
      /\ \A y, z : <<y, z>> \in OrderOf(new) <=>
            \/ <<y, z>> \in OrderOf(taken)
            \/ (z = x /\ \E i \in 1 .. at : taken[i].id = y)
            \/ (y = x /\ \E i \in at + 1 .. N : taken[i].id = z)
  <2>1. \A u, m :
            u = e.id /\ u \notin IdsOf(taken) /\ m = InsertedAt(taken, at, e) =>
               /\ m \in Seq(T) /\ Distinct(m) /\ IdsOf(m) = IdsOf(taken) \cup {u}
               /\ \A y, z : <<y, z>> \in OrderOf(m) <=>
                     \/ <<y, z>> \in OrderOf(taken)
                     \/ (z = u /\ \E i \in 1 .. at : taken[i].id = y)
                     \/ (y = u /\ \E i \in at + 1 .. Len(taken) : taken[i].id = z)
    <3>1. at \in 0 .. Len(taken)
      BY <1>0
    <3> QED
      BY <3>1, OrderInserted
  <2> QED
    BY <2>1, <1>0
<1>2. IdsOf(new) = H
  BY <1>1
<1> HIDE DEF N, H
\* Up to p and behind p.
<1>3. ASSUME NEW i \in 1 .. N
      PROVE  taken[i].id \in Abstract!UpTo(p, x) <=> i <= at
  <2>0. taken[i].id \in HereNow \ {x} /\ (taken[i].id = p => i = at)
    BY <1>0, IdsMembers DEF Distinct
  <2>1. CASE i = at
    BY <2>1, <1>0 DEF Abstract!UpTo
  <2>2. CASE i < at
    <3>1. <<taken[i].id, p>> \in OrderOf(taken)
      BY <2>2, <1>0, OrderPairs
    <3> QED
      BY <2>0, <2>2, <3>1, <1>0 DEF Abstract!UpTo
  <2>3. CASE at < i
    <3>1. taken[i].id # p
      BY <2>0, <2>3, <1>0
    <3>2. <<taken[i].id, p>> \notin OrderOf(taken)
      <4>1. SUFFICES ASSUME <<taken[i].id, p>> \in OrderOf(taken) PROVE FALSE
        OBVIOUS
      <4>2. PICK j \in 1 .. N, k \in 1 .. N : j < k /\ taken[j].id = taken[i].id /\ taken[k].id = p
        BY <4>1, <1>0, OrderPairs
      <4>3. j = i /\ k = at
        BY <4>2, <1>0 DEF Distinct
      <4> QED
        BY <4>2, <4>3, <2>3, <1>0
    <3>3. <<taken[i].id, p>> \notin BeforeNow
      BY <3>2, <2>0, <1>0
    <3> QED
      BY <3>1, <3>3, <2>3, <1>0 DEF Abstract!UpTo
  <2> QED
    BY <2>1, <2>2, <2>3, <1>0
<1>4. \A y : (\E i \in 1 .. at : taken[i].id = y) <=> y \in Abstract!UpTo(p, x)
  <2> SUFFICES ASSUME NEW y
               PROVE  (\E i \in 1 .. at : taken[i].id = y) <=> y \in Abstract!UpTo(p, x)
    OBVIOUS
  <2>1. ASSUME NEW i \in 1 .. at, taken[i].id = y PROVE y \in Abstract!UpTo(p, x)
    BY <2>1, <1>0, <1>3
  <2>2. ASSUME y \in Abstract!UpTo(p, x) PROVE \E i \in 1 .. at : taken[i].id = y
    <3>1. y \in IdsOf(taken)
      BY <2>2 DEF Abstract!UpTo
    <3>2. PICK i \in 1 .. N : taken[i].id = y
      BY <3>1, <1>0, IdsMembers
    <3>3. i \in 1 .. at
      BY <3>2, <2>2, <1>0, <1>3
    <3> QED
      BY <3>2, <3>3
  <2> QED
    BY <2>1, <2>2
<1>5. \A z : (\E i \in at + 1 .. N : taken[i].id = z) <=>
              z \in HereNow \ (Abstract!UpTo(p, x) \cup {x})
  <2> SUFFICES ASSUME NEW z
               PROVE  (\E i \in at + 1 .. N : taken[i].id = z) <=>
                          z \in HereNow \ (Abstract!UpTo(p, x) \cup {x})
    OBVIOUS
  <2>1. ASSUME NEW i \in at + 1 .. N, taken[i].id = z
        PROVE  z \in HereNow \ (Abstract!UpTo(p, x) \cup {x})
    <3>1. i \in 1 .. N /\ ~(i <= at)
      BY <1>0
    <3>2. z \in IdsOf(taken)
      BY <3>1, <2>1, <1>0, IdsMembers
    <3> QED
      BY <3>1, <3>2, <2>1, <1>3
  <2>2. ASSUME z \in HereNow \ (Abstract!UpTo(p, x) \cup {x})
        PROVE  \E i \in at + 1 .. N : taken[i].id = z
    <3>1. PICK i \in 1 .. N : taken[i].id = z
      BY <2>2, <1>0, IdsMembers
    <3>2. ~(i <= at)
      BY <3>1, <2>2, <1>3
    <3> QED
      BY <3>1, <3>2, <1>0
  <2> QED
    BY <2>1, <2>2
<1>6. ASSUME NEW y, NEW z
      PROVE  <<y, z>> \in OrderOf(new) <=> <<y, z>> \in Abstract!Behind(p, x)
  BY <1>1, <1>4, <1>5, Abstract!BehindPairs
<1>7. Abstract!Behind(p, x) \in SUBSET (H \X H)
  <2>1. Abstract!UpTo(p, x) \in SUBSET H /\ BeforeNow \in SUBSET (H \X H) /\ x \in H /\ HereNow \in SUBSET H
    BY <1>0, OrderIsPairs DEF Abstract!UpTo, HereNow, BeforeNow, H
  <2> QED
    BY <2>1 DEF Abstract!Behind
<1>8. OrderOf(new) \in SUBSET (H \X H)
  BY <1>2, OrderIsPairs
<1>9. OrderOf(new) = Abstract!Behind(p, x)
  <2>1. \A y, z : <<y, z>> \in OrderOf(new) <=> <<y, z>> \in Abstract!Behind(p, x)
    BY <1>6
  <2> HIDE DEF x
  <2> QED
    BY <2>1, <1>7, <1>8, SamePairs, Zenon
<1> QED
  BY <1>1, <1>2, <1>9 DEF H

-----------------------------------------------------------------------------
(* What the service is in, and what a listing of it says. *)

TaskRecord == [id : Ids, text : {"a"}, tag : {NoTag}, done : BOOLEAN, updated : {1}]
ListRecord == [id : {1, 2}, name : {"a"}, updated : {1}, tasks : Seq(TaskRecord)]

TasksIn(l) == google.lists[l].tasks

\* Two lists that hold every task once.
ServiceOK ==
    /\ google \in [lists : [1 .. 2 -> ListRecord], next : {1}]
    /\ \A l \in 1 .. 2 : google.lists[l].id = l /\ Distinct(TasksIn(l))
    /\ IdsOf(TasksIn(1)) \cap IdsOf(TasksIn(2)) = {}
    /\ IdsOf(TasksIn(1)) \cup IdsOf(TasksIn(2)) = Ids

\* An item of a listing, which knows the list that its task is in.
ItemRecord ==
    [id : {Nil}, ext : Ids, list : {Nil}, xlist : 1 .. 2, pos : Nat, status : {"open", "done"},
     text : {"a"}, tag : {NoTag}, project : {Nil}, xproject : {Nil}, modified : {1}]
HeldItem == {i \in ItemRecord : i.ext \in IdsOf(TasksIn(i.xlist))}

DistinctItems(items) == \A j, k \in DOMAIN items : items[j].ext = items[k].ext => j = k

LEMMA ListsTyped ==
    ASSUME ServiceOK, NEW l \in 1 .. 2
    PROVE  /\ google.lists[l] \in ListRecord /\ google.lists[l].id = l /\ DOMAIN google.lists = 1 .. 2
           /\ TasksIn(l) \in Seq(TaskRecord) /\ Distinct(TasksIn(l))
           /\ IdsOf(TasksIn(l)) \subseteq Ids
<1>1. google.lists \in [1 .. 2 -> ListRecord]
  BY DEF ServiceOK
<1>2. google.lists[l] \in ListRecord /\ DOMAIN google.lists = 1 .. 2
  BY <1>1
<1>3. TasksIn(l) \in Seq(TaskRecord)
  BY <1>2 DEF TasksIn, ListRecord
<1>4. \A k \in DOMAIN TasksIn(l) : TasksIn(l)[k].id \in Ids
  <2>1. \A k \in DOMAIN TasksIn(l) : TasksIn(l)[k] \in TaskRecord
    BY <1>3, LenProperties
  <2> QED
    BY <2>1 DEF TaskRecord
<1> QED
  BY <1>2, <1>3, <1>4 DEF ServiceOK, IdsOf

\* No listing is cut off.
LEMMA ListingIsWhole ==
    ASSUME ServiceOK, NEW l \in 1 .. 2
    PROVE  Len(TasksIn(l)) \in Nat /\ Len(TasksIn(l)) <= MaxTaskResults
<1> DEFINE N == Len(TasksIn(l))
           f == [k \in 1 .. N |-> TasksIn(l)[k].id]
<1>1. /\ TasksIn(l) \in Seq(TaskRecord) /\ Distinct(TasksIn(l)) /\ IdsOf(TasksIn(l)) \subseteq Ids
      /\ N \in Nat /\ DOMAIN TasksIn(l) = 1 .. N
  BY ListsTyped, LenProperties
<1>2. f \in [1 .. N -> Ids]
  BY <1>1 DEF IdsOf
<1>3. f \in Injection(1 .. N, Ids)
  BY <1>1, <1>2 DEF Injection, IsInjective, Distinct
<1>4. IsFiniteSet(Ids) /\ MaxTaskResults \in Nat /\ Cardinality(Ids) <= MaxTaskResults
  BY ReorderingAssumption DEF Ids
<1>5. Cardinality(1 .. N) <= Cardinality(Ids) /\ Cardinality(1 .. N) = N /\ Cardinality(Ids) \in Nat
  <2>1. Cardinality(1 .. N) = N
    <3>1. \A n \in Nat : Cardinality(1 .. n) = n
      BY FS_Interval
    <3> QED
      BY <3>1, <1>1
  <2>2. Cardinality(1 .. N) <= Cardinality(Ids)
    <3> HIDE DEF f
    <3> QED
      BY <1>3, <1>4, FS_Injection
  <2> QED
    BY <2>1, <2>2, <1>4, FS_CardinalityType
<1> QED
  BY <1>1, <1>4, <1>5

LEMMA WhereTheListIs ==
    ASSUME ServiceOK, NEW l \in 1 .. 2
    PROVE  At(google, l) = l
<1>1. {k \in DOMAIN google.lists : google.lists[k].id = l} = {l}
  BY DEF ServiceOK
<1> QED
  BY <1>1 DEF At, First

LEMMA ListingProperties ==
    ASSUME ServiceOK, NEW l \in 1 .. 2
    PROVE  /\ Listing(l) \in Seq(HeldItem) /\ DOMAIN Listing(l) = DOMAIN TasksIn(l)
           /\ \A k \in DOMAIN TasksIn(l) : Listing(l)[k].ext = TasksIn(l)[k].id
<1> DEFINE tasks == TasksIn(l)
           Item(k, t) == [id |-> Nil, ext |-> t.id, list |-> Nil, xlist |-> l, pos |-> k - 1,
                          status |-> IF t.done THEN "done" ELSE "open",
                          text |-> t.text, tag |-> t.tag, project |-> Nil, xproject |-> Nil,
                          modified |-> t.updated]
           N == Len(tasks)
<1>1. /\ tasks \in Seq(TaskRecord) /\ N \in Nat /\ N <= MaxTaskResults /\ DOMAIN tasks = 1 .. N
      /\ MaxTaskResults \in Nat /\ DOMAIN google.lists = 1 .. 2
  BY ListsTyped, ListingIsWhole, LenProperties, ReorderingAssumption
<1>2. ListTaskLists(google)[l].ext = l
  BY <1>1, ListsTyped DEF ListTaskLists
<1>3. SubSeq(tasks, 1, IF N < MaxTaskResults THEN N ELSE MaxTaskResults) = tasks
  <2>1. (IF N < MaxTaskResults THEN N ELSE MaxTaskResults) = N
    <3> HIDE DEF N
    <3> QED
      BY <1>1
  <2>2. SubSeq(tasks, 1, N) = tasks
    BY <1>1, SubSeqFull
  <2> QED
    BY <2>1, <2>2
<1>4. ListTasks(google, l, MaxTaskResults) = [result |-> "ok", google |-> google, tasks |-> tasks]
  <2>1. At(google, l) = l /\ l # 0
    BY WhereTheListIs
  <2>2. ListTasks(google, l, MaxTaskResults) =
            [result |-> "ok", google |-> google,
             tasks |-> SubSeq(tasks, 1, IF N < MaxTaskResults THEN N ELSE MaxTaskResults)]
    BY <2>1 DEF ListTasks, TasksIn
  <2> QED
    BY <1>3, <2>2
<1>5. Listing(l) = [k \in 1 .. N |-> Item(k, tasks[k])]
  BY <1>1, <1>2, <1>4 DEF Listing, ListItems
<1>6. ASSUME NEW k \in 1 .. N PROVE Item(k, tasks[k]) \in HeldItem
  <2>1. tasks[k] \in TaskRecord /\ k - 1 \in Nat
    BY <1>1
  <2>2. Item(k, tasks[k]) \in ItemRecord
    BY <2>1 DEF ItemRecord, TaskRecord
  <2>3. tasks[k].id \in IdsOf(tasks)
    BY <1>1 DEF IdsOf
  <2> QED
    BY <2>2, <2>3 DEF HeldItem
<1>7. Listing(l) \in Seq(HeldItem)
  BY <1>1, <1>5, <1>6
<1> QED
  BY <1>1, <1>5, <1>7

\* Taking some of the items, cleaning them and leaving some out keeps of each
\* what the moves are made from.
LEMMA SelectedItems ==
    ASSUME NEW items \in Seq(HeldItem), DistinctItems(items), NEW S \in SUBSET DOMAIN items
    PROVE  /\ Selected(items, S) \in Seq(HeldItem) /\ DistinctItems(Selected(items, S))
           /\ \A n \in DOMAIN Selected(items, S) : \E k \in S : Selected(items, S)[n] = items[k]
<1> DEFINE new == Selected(items, S)
           at == Ascending(S)
           n == Cardinality(S)
<1>1. /\ IsFiniteSet(S) /\ S \in SUBSET Nat /\ n \in Nat
      /\ new \in Seq(HeldItem) /\ DOMAIN new = 1 .. n /\ \A m \in 1 .. n : new[m] = items[at[m]]
  BY SelectedProperties
<1>2. \A m \in 1 .. n : at[m] \in S
  BY <1>1, AscendingProperties
<1>3. \A m, l \in 1 .. n : m < l => at[m] < at[l]
  BY <1>1, AscendingProperties
<1> HIDE DEF new, at, n
<1>4. \A m, l \in 1 .. n : at[m] = at[l] => m = l
  <2> SUFFICES ASSUME NEW m \in 1 .. n, NEW l \in 1 .. n, at[m] = at[l] PROVE m = l
    OBVIOUS
  <2>1. at[m] \in Nat /\ at[l] \in Nat /\ m \in Nat /\ l \in Nat
    BY <1>1, <1>2
  <2>2. ~(at[m] < at[l]) /\ ~(at[l] < at[m])
    BY <2>1
  <2>3. ~(m < l) /\ ~(l < m)
    BY <2>2, <1>3
  <2> QED
    BY <2>1, <2>3
<1>5. DistinctItems(new)
  BY <1>1, <1>2, <1>4 DEF DistinctItems
<1> QED
  BY <1>1, <1>2, <1>5 DEF new

LEMMA CleanedItems ==
    ASSUME NEW items \in Seq(HeldItem), DistinctItems(items)
    PROVE  CleanItems(items) \in Seq(HeldItem) /\ DistinctItems(CleanItems(items))
<1> DEFINE below == {k \in DOMAIN items : items[k].status = "done"}
           above == (DOMAIN items) \ below
           first == Selected(items, above)
           last == Selected(items, below)
           sorted == first \o last
           placed(k) == [sorted[k] EXCEPT !.pos = k - 1]
<1>s. \A S \in SUBSET DOMAIN items :
          /\ Selected(items, S) \in Seq(HeldItem) /\ DistinctItems(Selected(items, S))
          /\ \A n \in DOMAIN Selected(items, S) : \E k \in S : Selected(items, S)[n] = items[k]
  BY SelectedItems
<1>0. above \in SUBSET DOMAIN items /\ below \in SUBSET DOMAIN items /\ above \cap below = {}
  OBVIOUS
<1>1. /\ first \in Seq(HeldItem) /\ DistinctItems(first)
      /\ \A n \in DOMAIN first : \E k \in above : first[n] = items[k]
  BY <1>0, <1>s
<1>2. /\ last \in Seq(HeldItem) /\ DistinctItems(last)
      /\ \A n \in DOMAIN last : \E k \in below : last[n] = items[k]
  BY <1>0, <1>s
<1>3. CleanItems(items) = [k \in DOMAIN sorted |-> placed(k)]
  BY DEF CleanItems
<1> HIDE DEF above, below, first, last
<1>4. /\ Len(first) \in Nat /\ Len(last) \in Nat
      /\ DOMAIN first = 1 .. Len(first) /\ DOMAIN last = 1 .. Len(last)
  BY <1>1, <1>2, LenProperties
<1>5. /\ sorted \in Seq(HeldItem) /\ Len(sorted) = Len(first) + Len(last)
      /\ \A k \in 1 .. Len(first) + Len(last) :
            sorted[k] = IF k <= Len(first) THEN first[k] ELSE last[k - Len(first)]
  BY <1>1, <1>2, ConcatProperties
<1>6. DOMAIN sorted = 1 .. Len(first) + Len(last)
  BY <1>5, LenProperties
<1> HIDE DEF sorted
<1>7. \A n \in DOMAIN first, m \in DOMAIN last : first[n].ext # last[m].ext
  <2> SUFFICES ASSUME NEW n \in DOMAIN first, NEW m \in DOMAIN last PROVE first[n].ext # last[m].ext
    OBVIOUS
  <2>1. PICK k \in above : first[n] = items[k]
    BY <1>1
  <2>2. PICK l \in below : last[m] = items[l]
    BY <1>2
  <2>3. k \in DOMAIN items /\ l \in DOMAIN items /\ k # l
    BY <1>0
  <2> QED
    BY <2>1, <2>2, <2>3 DEF DistinctItems
<1>8. DistinctItems(sorted)
  <2> SUFFICES ASSUME NEW j \in DOMAIN sorted, NEW k \in DOMAIN sorted,
                      sorted[j].ext = sorted[k].ext
               PROVE  j = k
    BY DEF DistinctItems
  <2>0. \A i \in DOMAIN sorted :
            \/ i <= Len(first) /\ i \in DOMAIN first /\ sorted[i] = first[i]
            \/ i > Len(first) /\ i - Len(first) \in DOMAIN last /\ sorted[i] = last[i - Len(first)]
    BY <1>4, <1>5, <1>6
  <2>1. CASE j <= Len(first) /\ k <= Len(first)
    BY <2>0, <2>1, <1>1, <1>4, <1>6 DEF DistinctItems
  <2>2. CASE j > Len(first) /\ k > Len(first)
    <3>1. j - Len(first) = k - Len(first)
      BY <2>0, <2>2, <1>2, <1>4, <1>6 DEF DistinctItems
    <3> QED
      BY <3>1, <2>2, <1>4, <1>6
  <2>3. CASE j <= Len(first) /\ k > Len(first)
    BY <2>0, <2>3, <1>4, <1>6, <1>7
  <2>4. CASE j > Len(first) /\ k <= Len(first)
    BY <2>0, <2>4, <1>4, <1>6, <1>7
  <2> QED
    BY <2>1, <2>2, <2>3, <2>4, <1>4, <1>6
<1>9. ASSUME NEW k \in DOMAIN sorted
      PROVE  placed(k) \in HeldItem /\ placed(k).ext = sorted[k].ext
  <2>1. sorted[k] \in ItemRecord /\ sorted[k].ext \in IdsOf(TasksIn(sorted[k].xlist)) /\ k - 1 \in Nat
    BY <1>4, <1>5, <1>6 DEF HeldItem
  <2>2. placed(k) \in ItemRecord /\ placed(k).ext = sorted[k].ext /\ placed(k).xlist = sorted[k].xlist
    BY <2>1 DEF ItemRecord
  <2> QED
    BY <2>1, <2>2 DEF HeldItem
<1> HIDE DEF placed
<1>10. CleanItems(items) \in Seq(HeldItem)
  <2>1. Len(first) + Len(last) \in Nat
    BY <1>4
  <2> QED
    BY <2>1, <1>3, <1>6, <1>9
<1>11. DistinctItems(CleanItems(items))
  BY <1>3, <1>8, <1>9 DEF DistinctItems
<1> QED
  BY <1>10, <1>11

\* The list that is handed over: its items are in the service, each once.
LEMMA HandedOver ==
    ASSUME ServiceOK, wanted \in Seq(Ids), NoRepeats(wanted),
           NEW list, list = Movable(WantedList)
    PROVE  list.ext = 1 /\ list.items \in Seq(HeldItem) /\ DistinctItems(list.items)
<1> DEFINE all == Listing(1) \o Listing(2)
           N1 == Len(Listing(1))
           N2 == Len(Listing(2))
           placed(x) == all[CHOOSE k \in DOMAIN all : all[k].ext = x]
           items == [k \in DOMAIN wanted |-> placed(wanted[k])]
           bare == ListTaskLists(google)[1]
           full == [bare EXCEPT !.items = items]
           clean == CleanItems(items)
<1>1. /\ Listing(1) \in Seq(HeldItem) /\ DOMAIN Listing(1) = DOMAIN TasksIn(1)
      /\ \A k \in DOMAIN TasksIn(1) : Listing(1)[k].ext = TasksIn(1)[k].id
  BY ListingProperties
<1>2. /\ Listing(2) \in Seq(HeldItem) /\ DOMAIN Listing(2) = DOMAIN TasksIn(2)
      /\ \A k \in DOMAIN TasksIn(2) : Listing(2)[k].ext = TasksIn(2)[k].id
  BY ListingProperties
<1>3. N1 \in Nat /\ N2 \in Nat /\ DOMAIN Listing(1) = 1 .. N1 /\ DOMAIN Listing(2) = 1 .. N2
  BY <1>1, <1>2, LenProperties
<1>4. /\ all \in Seq(HeldItem) /\ Len(all) = N1 + N2
      /\ \A k \in 1 .. N1 + N2 : all[k] = IF k <= N1 THEN Listing(1)[k] ELSE Listing(2)[k - N1]
  BY <1>1, <1>2, ConcatProperties
<1>5. DOMAIN all = 1 .. N1 + N2
  BY <1>4, LenProperties
<1> HIDE DEF all, N1, N2
<1>6. ASSUME NEW x \in Ids PROVE \E k \in DOMAIN all : all[k].ext = x
  <2>1. x \in IdsOf(TasksIn(1)) \/ x \in IdsOf(TasksIn(2))
    BY DEF ServiceOK
  <2>2. CASE x \in IdsOf(TasksIn(1))
    <3>1. PICK k \in DOMAIN TasksIn(1) : TasksIn(1)[k].id = x
      BY <2>2 DEF IdsOf
    <3>2. k \in 1 .. N1 + N2 /\ k <= N1
      BY <3>1, <1>1, <1>3
    <3> QED
      BY <3>1, <3>2, <1>1, <1>4, <1>5
  <2>3. CASE x \in IdsOf(TasksIn(2))
    <3>1. PICK k \in DOMAIN TasksIn(2) : TasksIn(2)[k].id = x
      BY <2>3 DEF IdsOf
    <3>2. N1 + k \in 1 .. N1 + N2 /\ ~(N1 + k <= N1) /\ (N1 + k) - N1 = k
      BY <3>1, <1>2, <1>3
    <3> QED
      BY <3>1, <3>2, <1>2, <1>4, <1>5
  <2> QED
    BY <2>1, <2>2, <2>3
<1>7. \A x \in Ids : placed(x) \in HeldItem /\ placed(x).ext = x
  <2> SUFFICES ASSUME NEW x \in Ids PROVE placed(x) \in HeldItem /\ placed(x).ext = x
    OBVIOUS
  <2>1. PICK k \in DOMAIN all : k = CHOOSE j \in DOMAIN all : all[j].ext = x
    BY <1>6
  <2>2. all[k].ext = x
    BY <2>1, <1>6
  <2>3. all[k] \in HeldItem
    BY <1>4, <1>5
  <2> QED
    BY <2>1, <2>2, <2>3
<1> HIDE DEF placed
<1>8. /\ Len(wanted) \in Nat /\ DOMAIN wanted = 1 .. Len(wanted)
      /\ \A k \in DOMAIN wanted : wanted[k] \in Ids
  BY LenProperties
<1>9. items \in Seq(HeldItem) /\ DistinctItems(items)
  BY <1>7, <1>8 DEF DistinctItems, NoRepeats
<1>10. clean \in Seq(HeldItem) /\ DistinctItems(clean)
  BY <1>9, CleanedItems
<1> HIDE DEF items
<1>11. /\ full.ext = 1 /\ full.items = items
       /\ WantedList = [full EXCEPT !.items = clean] /\ DOMAIN full = DOMAIN bare
  <2>1. bare = [id |-> Nil, ext |-> google.lists[1].id, name |-> google.lists[1].name, pos |-> 1 - 1,
                status |-> "open", modified |-> google.lists[1].updated, items |-> <<>>]
    BY ListsTyped DEF ListTaskLists
  <2>2. google.lists[1].id = 1
    BY ListsTyped
  <2>3. full.ext = 1 /\ full.items = items /\ DOMAIN full = DOMAIN bare
    BY <2>1, <2>2
  <2>4. WantedList = CleanList(full)
    BY DEF WantedList, items, placed, all
  <2> QED
    BY <2>3, <2>4 DEF CleanList
<1>12. WantedList.ext = 1 /\ WantedList.items = clean /\ "items" \in DOMAIN WantedList /\ "ext" \in DOMAIN WantedList
  <2>1. "items" \in DOMAIN bare /\ "ext" \in DOMAIN bare
    BY ListsTyped DEF ListTaskLists
  <2> HIDE DEF full, clean
  <2> QED
    BY <2>1, <1>11
<1> DEFINE free == {k \in DOMAIN clean :
                       \/ clean[k].status # "done"
                       \/ clean[k].xlist # Nil /\ clean[k].xlist # WantedList.ext}
<1>13. list = [WantedList EXCEPT !.items = Selected(clean, free)]
  BY <1>12 DEF Movable
<1>14. Selected(clean, free) \in Seq(HeldItem) /\ DistinctItems(Selected(clean, free))
  <2>1. \A S \in SUBSET DOMAIN clean :
            Selected(clean, S) \in Seq(HeldItem) /\ DistinctItems(Selected(clean, S))
    BY <1>10, SelectedItems
  <2> QED
    BY <2>1
<1> HIDE DEF free, clean
<1>15. list.ext = 1 /\ list.items = Selected(clean, free)
  BY <1>12, <1>13
<1> QED
  BY <1>14, <1>15

LEMMA ExternalsProperties ==
    ASSUME NEW items \in Seq(HeldItem), DistinctItems(items)
    PROVE  /\ Externals(items) \in Seq(Ids) /\ NoRepeats(Externals(items))
           /\ Len(Externals(items)) = Len(items) /\ Abstract!IsGoal(Externals(items))
           /\ \A k \in DOMAIN items : Externals(items)[k] = items[k].ext
<1>1. Len(items) \in Nat /\ DOMAIN items = 1 .. Len(items)
  BY LenProperties
<1>2. \A k \in DOMAIN items : items[k].ext \in Ids
  BY <1>1 DEF HeldItem, ItemRecord
<1>3. Externals(items) = [k \in 1 .. Len(items) |-> items[k].ext]
  BY <1>1 DEF Externals
<1>4. Externals(items) \in Seq(Ids)
  BY <1>1, <1>2, <1>3
<1>5. NoRepeats(Externals(items))
  BY <1>1, <1>3 DEF DistinctItems, NoRepeats
<1> QED
  BY <1>1, <1>3, <1>4, <1>5 DEF Abstract!IsGoal, NoRepeats, Ids

-----------------------------------------------------------------------------
(* The inductive invariant. *)

MoveRecord == [item : Ids, from : 1 .. 2, to : {1}, previous : Ids \cup {Nil}]

\* The move of the task at place k of goal: from the list that it is in, behind
\* its neighbour.
IsMoveOf(move, k) ==
    /\ move.item = goal[k] /\ goal[k] \in IdsOf(TasksIn(move.from))
    /\ move.previous = IF k = 1 THEN Nil ELSE goal[k - 1]

\* The moves are those of the places ks, in their order.
MovesAre(ks) ==
    /\ ks \in Seq(DOMAIN goal) /\ Len(ks) = Len(moves)
    /\ \A m, n \in 1 .. Len(moves) : m < n => ks[m] < ks[n]
    /\ \A m \in 1 .. Len(moves) : IsMoveOf(moves[m], ks[m])

IInv ==
    /\ ServiceOK
    /\ wanted \in Seq(Ids) /\ NoRepeats(wanted)
    /\ stage \in {"idle", "moving", "done"} /\ faults \in 0 .. MaxFaults
    /\ moves \in Seq(MoveRecord) /\ (\E ks : MovesAre(ks))
    /\ stage # "moving" => moves = <<>>
    /\ Abstract!IInv

LEMMA SameCardinality ==
    \A S : Abstract!Cardinality(S) = Cardinality(S) /\ Ideal!Cardinality(S) = Cardinality(S)
  BY DEF Ideal!Cardinality, Abstract!Cardinality, Cardinality,
         IsFiniteSet, Ideal!IsFiniteSet, Abstract!IsFiniteSet

\* The places that are left are those that the moves are of.
LEMMA PlacesLeft ==
    ASSUME NEW ks, MovesAre(ks), Abstract!IsGoal(goal), moves \in Seq(MoveRecord)
    PROVE  /\ LeftNow = {ks[m] : m \in 1 .. Len(moves)} /\ LeftNow \in SUBSET DOMAIN goal
           /\ DOMAIN goal \in SUBSET Nat
           /\ \A m \in 1 .. Len(moves) : ks[m] \in DOMAIN goal
<1>1. DOMAIN goal = 1 .. Len(goal) /\ \A j, k \in DOMAIN goal : goal[j] = goal[k] => j = k
  BY LenProperties DEF Abstract!IsGoal
<1>2. Len(moves) \in Nat /\ DOMAIN moves = 1 .. Len(moves)
  BY LenProperties
<1>3. \A m \in 1 .. Len(moves) : ks[m] \in DOMAIN goal
  BY LenProperties DEF MovesAre
<1>4. \A m \in 1 .. Len(moves) : moves[m].item = goal[ks[m]]
  BY DEF MovesAre, IsMoveOf
<1>5. LeftNow = {ks[m] : m \in 1 .. Len(moves)}
  <2> SUFFICES ASSUME NEW k PROVE k \in LeftNow <=> \E m \in 1 .. Len(moves) : ks[m] = k
    OBVIOUS
  <2>1. ASSUME k \in LeftNow PROVE \E m \in 1 .. Len(moves) : ks[m] = k
    <3>1. k \in DOMAIN goal /\ \E m \in 1 .. Len(moves) : moves[m].item = goal[k]
      BY <2>1, <1>2 DEF LeftNow
    <3> QED
      BY <3>1, <1>1, <1>3, <1>4
  <2>2. ASSUME NEW m \in 1 .. Len(moves), ks[m] = k PROVE k \in LeftNow
    BY <2>2, <1>2, <1>3, <1>4 DEF LeftNow
  <2> QED
    BY <2>1, <2>2
<1> QED
  BY <1>1, <1>3, <1>5

LEMMA CountLeft ==
    ASSUME NEW ks, MovesAre(ks), Abstract!IsGoal(goal), moves \in Seq(MoveRecord)
    PROVE  IsFiniteSet(LeftNow) /\ Cardinality(LeftNow) = Len(moves)
<1> DEFINE N == Len(moves)
           f == [m \in 1 .. N |-> ks[m]]
<1>1. N \in Nat
  BY LenProperties
<1>2. /\ LeftNow = {ks[m] : m \in 1 .. N} /\ LeftNow \in SUBSET Nat
      /\ \A m, n \in 1 .. N : m < n => ks[m] < ks[n]
  BY PlacesLeft DEF MovesAre
<1>3. \A m, n \in 1 .. N : ks[m] = ks[n] => m = n
  <2> SUFFICES ASSUME NEW m \in 1 .. N, NEW n \in 1 .. N, ks[m] = ks[n] PROVE m = n
    OBVIOUS
  <2>1. ks[m] \in Nat /\ ks[n] \in Nat
    BY <1>2
  <2>2. ~(m < n) /\ ~(n < m)
    BY <2>1, <1>2
  <2> QED
    BY <2>2, <1>1
<1>4. f \in [1 .. N -> LeftNow] /\ \A k \in LeftNow : \E m \in 1 .. N : f[m] = k
  BY <1>2
<1>5. f \in Bijection(1 .. N, LeftNow)
  BY <1>3, <1>4 DEF Bijection, Injection, Surjection, IsInjective
<1> HIDE DEF f
<1>6. ExistsBijection(1 .. N, LeftNow)
  BY <1>5 DEF ExistsBijection
<1>7. IsFiniteSet(1 .. N)
  BY <1>1, FS_Interval
<1> HIDE DEF N
<1> QED
  BY <1>1, <1>6, <1>7, FS_Bijection, FS_CountingElements DEF N

\* What the algorithm takes to be in order is what Rearranging does.
LEMMA AgreesInPlace ==
    ASSUME ServiceOK, NEW seq, NEW T
    PROVE  Agree(seq, Externals(Listing(1)), T) <=>
              /\ \A i \in T : seq[i] \in HereNow
              /\ \A i, j \in T : i < j => <<seq[i], seq[j]>> \in BeforeNow
<1> DEFINE tasks == TasksIn(1)
           current == Externals(Listing(1))
<1>1. /\ DOMAIN current = DOMAIN tasks /\ \A k \in DOMAIN tasks : current[k] = tasks[k].id
  BY ListingProperties DEF Externals
<1>2. Distinct(tasks) /\ DOMAIN tasks \in SUBSET Nat
  BY ListsTyped, LenProperties
<1>3. \A x : x \in HereNow <=> \E k \in DOMAIN tasks : tasks[k].id = x
  BY IdsMembers DEF HereNow, TasksIn
<1>4. \A y, z : <<y, z>> \in BeforeNow <=> \E i, j \in DOMAIN tasks : i < j /\ tasks[i].id = y /\ tasks[j].id = z
  BY OrderPairs DEF BeforeNow, TasksIn
<1> HIDE DEF tasks, current
<1>5. ASSUME Agree(seq, current, T)
      PROVE  /\ \A i \in T : seq[i] \in HereNow
             /\ \A i, j \in T : i < j => <<seq[i], seq[j]>> \in BeforeNow
  <2>1. \A i \in T : \E p \in DOMAIN tasks : tasks[p].id = seq[i]
    BY <1>5, <1>1 DEF Agree
  <2>2. ASSUME NEW i \in T, NEW j \in T, i < j
        PROVE  <<seq[i], seq[j]>> \in BeforeNow
    <3>1. PICK p \in DOMAIN tasks : tasks[p].id = seq[i]
      BY <2>1
    <3>2. PICK q \in DOMAIN tasks : tasks[q].id = seq[j]
      BY <2>1
    <3>3. p < q
      BY <3>1, <3>2, <2>2, <1>1, <1>5 DEF Agree
    <3> QED
      BY <3>1, <3>2, <3>3, <1>4
  <2> QED
    BY <2>1, <2>2, <1>3
<1>6. ASSUME \A i \in T : seq[i] \in HereNow,
             \A i, j \in T : i < j => <<seq[i], seq[j]>> \in BeforeNow
      PROVE  Agree(seq, current, T)
  <2>1. \A k \in T : \E p \in DOMAIN current : current[p] = seq[k]
    BY <1>6, <1>1, <1>3
  <2>2. ASSUME NEW k \in T, NEW l \in T, NEW p \in DOMAIN current, NEW q \in DOMAIN current,
               k < l, current[p] = seq[k], current[q] = seq[l]
        PROVE  p < q
    <3>1. PICK i \in DOMAIN tasks, j \in DOMAIN tasks : i < j /\ tasks[i].id = seq[k] /\ tasks[j].id = seq[l]
      BY <2>2, <1>4, <1>6
    <3>2. p = i /\ q = j
      BY <3>1, <2>2, <1>1, <1>2 DEF Distinct
    <3> QED
      BY <3>1, <3>2
  <2> QED
    BY <2>1, <2>2 DEF Agree
<1> QED
  BY <1>5, <1>6 DEF current

\* CalculateMoves: the places that do not stay, in ascending order.
LEMMA MovesCalculated ==
    ASSUME ServiceOK, NEW list, list.ext = 1, list.items \in Seq(HeldItem), DistinctItems(list.items),
           NEW wish, wish = Externals(list.items),
           NEW S, S = {k \in DOMAIN wish : wish[k] \notin StableItems(wish, Externals(Listing(1)))},
           NEW new, new = CalculateMoves(list, Listing(1))
    PROVE  /\ S \in SUBSET DOMAIN wish /\ S \in SUBSET Nat /\ IsFiniteSet(S)
           /\ new \in Seq(MoveRecord) /\ Len(new) = Cardinality(S)
           /\ \A m \in 1 .. Cardinality(S) :
                 /\ new[m].item = wish[Ascending(S)[m]]
                 /\ wish[Ascending(S)[m]] \in IdsOf(TasksIn(new[m].from))
                 /\ new[m].previous =
                       IF Ascending(S)[m] = 1 THEN Nil ELSE wish[Ascending(S)[m] - 1]
<1> DEFINE ks == Ascending(S)
           n == Cardinality(S)
           items == list.items
<1>1. /\ Len(items) \in Nat /\ DOMAIN items = 1 .. Len(items)
      /\ wish \in Seq(Ids) /\ DOMAIN wish = 1 .. Len(items)
      /\ \A k \in DOMAIN items : wish[k] = items[k].ext /\ items[k] \in HeldItem
  BY ExternalsProperties, LenProperties
<1>2. S \in SUBSET DOMAIN wish /\ S \in SUBSET Nat /\ IsFiniteSet(S)
  <2>1. IsFiniteSet(1 .. Len(items)) /\ S \in SUBSET (1 .. Len(items))
    BY <1>1, FS_Interval
  <2> QED
    BY <2>1, <1>1, FS_Subset
<1>3. n \in Nat /\ DOMAIN ks = 1 .. n /\ \A m \in 1 .. n : ks[m] \in S
  BY <1>2, AscendingProperties
<1>4. new = MovesOf(list, ks)
  BY DEF CalculateMoves, Moving
<1> HIDE DEF ks, n
<1>5. new = [m \in 1 .. n |-> MoveOf(list, ks[m], ks[m] - 1)]
  BY <1>3, <1>4 DEF MovesOf
<1>6. ASSUME NEW m \in 1 .. n
      PROVE  /\ new[m] \in MoveRecord
             /\ new[m].item = wish[ks[m]]
             /\ wish[ks[m]] \in IdsOf(TasksIn(new[m].from))
             /\ new[m].previous = IF ks[m] = 1 THEN Nil ELSE wish[ks[m] - 1]
  <2> DEFINE k == ks[m]
  <2>1. k \in 1 .. Len(items) /\ k \in Nat /\ wish[k] = items[k].ext /\ items[k] \in HeldItem
    BY <1>1, <1>2, <1>3
  <2>2. new[m] = [item |-> items[k].ext, from |-> items[k].xlist, to |-> 1,
                  previous |-> IF k - 1 = 0 THEN Nil ELSE items[k - 1].ext]
    BY <1>5 DEF MoveOf
  <2> HIDE DEF k
  <2>3. k # 1 => k - 1 \in 1 .. Len(items) /\ wish[k - 1] = items[k - 1].ext /\ wish[k - 1] \in Ids
    BY <2>1, <1>1
  <2>4. k - 1 = 0 <=> k = 1
    BY <2>1
  <2>5. items[k].ext \in Ids /\ items[k].xlist \in 1 .. 2 /\ items[k].ext \in IdsOf(TasksIn(items[k].xlist))
    BY <2>1 DEF HeldItem, ItemRecord
  <2>6. /\ new[m].item = wish[k] /\ wish[k] \in IdsOf(TasksIn(new[m].from))
        /\ new[m].previous = IF k = 1 THEN Nil ELSE wish[k - 1]
    BY <2>1, <2>2, <2>3, <2>4, <2>5
  <2>7. new[m] \in MoveRecord
    BY <2>2, <2>3, <2>4, <2>5 DEF MoveRecord
  <2> QED
    BY <2>6, <2>7 DEF k
<1>7. new \in Seq(MoveRecord) /\ Len(new) = n
  <2>1. ASSUME NEW m \in 1 .. n PROVE MoveOf(list, ks[m], ks[m] - 1) \in MoveRecord
    <3>1. new[m] = MoveOf(list, ks[m], ks[m] - 1)
      BY <1>5
    <3> QED
      BY <3>1, <1>6
  <2> QED
    BY <2>1, <1>3, <1>5
<1> QED
  BY <1>2, <1>6, <1>7 DEF ks, n

LEMMA BeginStep ==
    ASSUME IInv, Begin
    PROVE  IInv' /\ Ideal!Next
<1> DEFINE list == Movable(WantedList)
           wish == Externals(list.items)
           current == Externals(Listing(1))
           S == {k \in DOMAIN wish : wish[k] \notin StableItems(wish, current)}
           K == {k \in DOMAIN wish : wish[k] \in StableItems(wish, current)}
           ks == Ascending(S)
           N == Cardinality(S)
<1>0. /\ ServiceOK /\ wanted \in Seq(Ids) /\ NoRepeats(wanted) /\ faults \in 0 .. MaxFaults
      /\ Abstract!IInv
  BY DEF IInv
<1>1. /\ stage = "idle" /\ stage' = "moving" /\ goal' = wish
      /\ moves' = CalculateMoves(list, Listing(1))
      /\ google' = google /\ wanted' = wanted /\ faults' = faults
  BY DEF Begin
<1>2. list.ext = 1 /\ list.items \in Seq(HeldItem) /\ DistinctItems(list.items)
  BY <1>0, HandedOver
<1>3. /\ wish \in Seq(Ids) /\ NoRepeats(wish) /\ Abstract!IsGoal(wish)
      /\ Len(wish) \in Nat /\ DOMAIN wish = 1 .. Len(wish)
  BY <1>2, ExternalsProperties, LenProperties
<1>4. current \in Seq(Ids) /\ NoRepeats(current)
  <2>1. /\ Listing(1) \in Seq(HeldItem) /\ DOMAIN Listing(1) = DOMAIN TasksIn(1)
        /\ \A k \in DOMAIN TasksIn(1) : Listing(1)[k].ext = TasksIn(1)[k].id
    BY <1>0, ListingProperties
  <2>2. Distinct(TasksIn(1))
    BY <1>0, ListsTyped
  <2>3. DistinctItems(Listing(1))
    BY <2>1, <2>2 DEF Distinct, DistinctItems
  <2> QED
    BY <2>1, <2>3, ExternalsProperties
<1> HIDE DEF list, wish, current
<1>5. /\ S \in SUBSET DOMAIN wish /\ S \in SUBSET Nat /\ IsFiniteSet(S)
      /\ moves' \in Seq(MoveRecord) /\ Len(moves') = N
      /\ \A m \in 1 .. N : /\ moves'[m].item = wish[ks[m]]
                           /\ wish[ks[m]] \in IdsOf(TasksIn(moves'[m].from))
                           /\ moves'[m].previous = IF ks[m] = 1 THEN Nil ELSE wish[ks[m] - 1]
  <2>1. \A w, T, new :
            /\ w = Externals(list.items)
            /\ T = {k \in DOMAIN w : w[k] \notin StableItems(w, Externals(Listing(1)))}
            /\ new = CalculateMoves(list, Listing(1))
            => /\ T \in SUBSET DOMAIN w /\ T \in SUBSET Nat /\ IsFiniteSet(T)
               /\ new \in Seq(MoveRecord) /\ Len(new) = Cardinality(T)
               /\ \A m \in 1 .. Cardinality(T) :
                     /\ new[m].item = w[Ascending(T)[m]]
                     /\ w[Ascending(T)[m]] \in IdsOf(TasksIn(new[m].from))
                     /\ new[m].previous =
                           IF Ascending(T)[m] = 1 THEN Nil ELSE w[Ascending(T)[m] - 1]
    BY SMTT(20), <1>0, <1>2, MovesCalculated
  <2>2. wish = Externals(list.items)
    BY DEF wish
  <2>3. S = {k \in DOMAIN wish : wish[k] \notin StableItems(wish, Externals(Listing(1)))}
    BY DEF current
  <2> HIDE DEF S
  <2>4. /\ S \in SUBSET DOMAIN wish /\ S \in SUBSET Nat /\ IsFiniteSet(S)
        /\ moves' \in Seq(MoveRecord) /\ Len(moves') = Cardinality(S)
        /\ \A m \in 1 .. Cardinality(S) :
              /\ moves'[m].item = wish[Ascending(S)[m]]
              /\ wish[Ascending(S)[m]] \in IdsOf(TasksIn(moves'[m].from))
              /\ moves'[m].previous =
                    IF Ascending(S)[m] = 1 THEN Nil ELSE wish[Ascending(S)[m] - 1]
    BY <2>1, <2>2, <2>3, <1>1
  <2> QED
    BY <2>4
<1>6. /\ Agree(wish, current, K)
      /\ \A L \in SUBSET DOMAIN wish : Agree(wish, current, L) => Cardinality(L) <= Cardinality(K)
  BY <1>3, <1>4, StableItemsAreMost
<1>7. K = DOMAIN wish \ S
  OBVIOUS
<1>8. /\ N \in Nat /\ ks \in Seq(S) /\ Len(ks) = N
      /\ \A m \in 1 .. N : ks[m] \in S
      /\ \A m, l \in 1 .. N : m < l => ks[m] < ks[l]
      /\ \A k \in S : \E m \in 1 .. N : ks[m] = k
  BY <1>5, AscendingProperties
<1> HIDE DEF S, K, ks, N
<1>9. \E q : MovesAre(q)'
  <2>1. PICK q : q = ks
    OBVIOUS
  <2>2. q \in Seq(DOMAIN wish) /\ Len(q) = N /\ \A m, l \in 1 .. N : m < l => q[m] < q[l]
    BY <2>1, <1>5, <1>8
  <2>3. ASSUME NEW m \in 1 .. N PROVE IsMoveOf(moves[m], q[m])'
    BY <2>1, <1>1, <1>5 DEF IsMoveOf, TasksIn
  <2>4. MovesAre(q)'
    BY <2>2, <2>3, <1>1, <1>5 DEF MovesAre
  <2> QED
    BY <2>4
<1>10. LeftNow' = S
  <2> SUFFICES ASSUME NEW k PROVE k \in LeftNow' <=> k \in S
    OBVIOUS
  <2>0. DOMAIN moves' = 1 .. N
    BY <1>5, <1>8, LenProperties
  <2>1. k \in LeftNow' <=> k \in DOMAIN wish /\ \E m \in 1 .. N : wish[ks[m]] = wish[k]
    BY <2>0, <1>1, <1>5 DEF LeftNow
  <2>2. \A j, l \in DOMAIN wish : wish[j] = wish[l] => j = l
    BY <1>3 DEF NoRepeats
  <2> QED
    BY <2>1, <2>2, <1>5, <1>8
<1>11. HereNow' = HereNow /\ BeforeNow' = BeforeNow
  BY <1>1 DEF HereNow, BeforeNow
<1>12. \A T \in SUBSET DOMAIN goal' :
           Abstract!InPlace(T)' <=> Agree(wish, current, T)
  <2> SUFFICES ASSUME NEW T \in SUBSET DOMAIN wish
               PROVE  Abstract!InPlace(T)' <=> Agree(wish, current, T)
    BY <1>1
  <2>1. Agree(wish, current, T) <=>
              /\ \A i \in T : wish[i] \in HereNow
              /\ \A i, j \in T : i < j => <<wish[i], wish[j]>> \in BeforeNow
    BY <1>0, AgreesInPlace DEF current
  <2> QED
    BY <2>1, <1>1, <1>11 DEF Abstract!InPlace
<1>13. Abstract!Largest(DOMAIN goal \ LeftNow)'
  <2>0. PICK stay : stay = K
    OBVIOUS
  <2>1. (DOMAIN goal \ LeftNow)' = stay
    BY <2>0, <1>1, <1>7, <1>10
  <2>2. stay \in SUBSET DOMAIN goal'
    BY <2>0, <1>1, <1>7
  <2>3. Abstract!InPlace(stay)'
    BY <2>0, <2>2, <1>6, <1>12
  <2>4. \A T \in SUBSET DOMAIN goal' :
            Abstract!InPlace(T)' => Abstract!Cardinality(T) <= Abstract!Cardinality(stay)
    BY <2>0, <1>1, <1>6, <1>12, SameCardinality
  <2> QED
    BY <2>1, <2>3, <2>4 DEF Abstract!Largest
<1>14. Abstract!Begin
  BY <1>1, <1>3, <1>5, <1>10, <1>11, <1>13 DEF Abstract!Begin
<1>15. Abstract!IInv'
  BY <1>0, <1>14, Abstract!InvariantStep DEF Abstract!Next
<1>16. IInv'
  <2>1. ServiceOK'
    BY <1>0, <1>1 DEF ServiceOK, TasksIn
  <2> QED
    BY <2>1, <1>0, <1>1, <1>5, <1>9, <1>15 DEF IInv
<1>17. Ideal!Next
  BY <1>14, SameCardinality
     DEF Abstract!Begin, Abstract!IsGoal, Abstract!Largest, Abstract!InPlace,
         Ideal!Next, Ideal!Begin, Ideal!IsGoal, Ideal!Largest, Ideal!InPlace
<1> QED
  BY <1>16, <1>17

\* MoveTask: a task of the service goes behind a task of list 1, or first.
LEMMA MoveTaskProperties ==
    ASSUME ServiceOK, NEW move \in MoveRecord, move.item \in IdsOf(TasksIn(move.from)),
           move.previous # Nil => move.previous \in HereNow /\ move.previous # move.item,
           NEW r, r = MoveTask(google, move)
    PROVE  /\ r.result = "ok"
           /\ r.google \in [lists : [1 .. 2 -> ListRecord], next : {1}]
           /\ \A l \in 1 .. 2 : r.google.lists[l].id = l /\ Distinct(r.google.lists[l].tasks)
           /\ IdsOf(r.google.lists[1].tasks) = HereNow \cup {move.item}
           /\ IdsOf(r.google.lists[2].tasks) = IdsOf(TasksIn(2)) \ {move.item}
           /\ OrderOf(r.google.lists[1].tasks) =
                 IF move.previous = Nil THEN Abstract!AtFront(move.item)
                                        ELSE Abstract!Behind(move.previous, move.item)
\* The steps of MoveTask, by name.
<1> DEFINE f == At(google, move.from)
           to == At(google, move.to)
           t == Among(google.lists[f].tasks, move.item)
           taken == [google.lists EXCEPT ![f].tasks = Without(@, t)]
           at == IF move.previous = Nil THEN 0 ELSE Among(taken[to].tasks, move.previous)
           lists == [taken EXCEPT ![to].tasks = InsertedAt(@, at, google.lists[f].tasks[t])]
<1>a. f # 0 /\ to # 0 /\ t # 0 /\ (move.previous # Nil => at # 0) =>
          MoveTask(google, move) = [result |-> "ok", google |-> [google EXCEPT !.lists = lists]]
  BY DEF MoveTask, Accepted
<1>0. /\ f = At(google, move.from) /\ to = At(google, move.to)
      /\ t = Among(google.lists[f].tasks, move.item)
      /\ taken = [google.lists EXCEPT ![f].tasks = Without(@, t)]
      /\ at = IF move.previous = Nil THEN 0 ELSE Among(taken[to].tasks, move.previous)
      /\ lists = [taken EXCEPT ![to].tasks = InsertedAt(@, at, google.lists[f].tasks[t])]
  OBVIOUS
<1> HIDE DEF f, to, t, taken, at, lists
<1> DEFINE x == move.item
           p == move.previous
           e == google.lists[f].tasks[t]
           less == Without(google.lists[f].tasks, t)
           base == taken[1].tasks
           new == InsertedAt(base, at, e)
<1>1. f \in 1 .. 2 /\ f = move.from /\ to = 1 /\ x \in Ids
  <2>1. move.from \in 1 .. 2 /\ move.to = 1 /\ x \in Ids
    BY DEF MoveRecord
  <2> QED
    BY <2>1, <1>0, WhereTheListIs
<1>2. /\ google \in [lists : [1 .. 2 -> ListRecord], next : {1}]
      /\ google.lists[1] \in ListRecord /\ google.lists[1].id = 1
      /\ google.lists[2] \in ListRecord /\ google.lists[2].id = 2
      /\ google.lists[1].tasks \in Seq(TaskRecord) /\ Distinct(google.lists[1].tasks)
      /\ google.lists[2].tasks \in Seq(TaskRecord) /\ Distinct(google.lists[2].tasks)
  BY ListsTyped DEF ServiceOK, TasksIn
<1>3. google.lists[f].tasks \in Seq(TaskRecord) /\ Distinct(google.lists[f].tasks)
  BY <1>1, <1>2
<1>5. t \in 1 .. Len(google.lists[f].tasks) /\ e.id = x /\ e \in TaskRecord
  <2>1. x \in IdsOf(google.lists[f].tasks) /\ t = Among(google.lists[f].tasks, x)
    BY <1>0, <1>1 DEF TasksIn
  <2>2. t \in 1 .. Len(google.lists[f].tasks) /\ e.id = x
    BY <2>1, <1>3, AmongProperties
  <2> QED
    BY <2>2, <1>3, LenProperties
<1>6. /\ less \in Seq(TaskRecord) /\ Distinct(less)
      /\ IdsOf(less) = IdsOf(google.lists[f].tasks) \ {x}
      /\ \A y, z : <<y, z>> \in OrderOf(less) <=>
                       <<y, z>> \in OrderOf(google.lists[f].tasks) /\ y # x /\ z # x
  <2>1. \A tasks \in Seq(TaskRecord) : Distinct(tasks) =>
           \A k \in 1 .. Len(tasks) :
              /\ Without(tasks, k) \in Seq(TaskRecord) /\ Distinct(Without(tasks, k))
              /\ IdsOf(Without(tasks, k)) = IdsOf(tasks) \ {tasks[k].id}
              /\ \A y, z : <<y, z>> \in OrderOf(Without(tasks, k)) <=>
                               <<y, z>> \in OrderOf(tasks) /\ y # tasks[k].id /\ z # tasks[k].id
    BY OrderWithout
  <2> HIDE DEF x
  <2>2. e.id = x
    BY <1>5
  <2> QED
    BY <2>1, <2>2, <1>3, <1>5
<1> HIDE DEF e
<1>7. /\ taken \in [1 .. 2 -> ListRecord] /\ taken[1].id = 1 /\ taken[2].id = 2
      /\ taken[f].tasks = less
      /\ \A l \in 1 .. 2 : l # f => taken[l].tasks = google.lists[l].tasks
  <2> HIDE DEF less
  <2> DEFINE changed == [google.lists[f] EXCEPT !.tasks = less]
  <2>1. taken[f] = changed /\ \A l \in 1 .. 2 : l # f => taken[l] = google.lists[l]
    BY <1>0, <1>1, <1>2 DEF less
  <2>2. \A l \in 1 .. 2 : google.lists[l] \in ListRecord
    BY <1>2
  <2>3. changed \in ListRecord /\ changed.id = google.lists[f].id /\ changed.tasks = less
    BY <2>2, <1>1, <1>6 DEF ListRecord
  <2>4. DOMAIN taken = 1 .. 2 /\ taken = [l \in 1 .. 2 |-> taken[l]]
    BY <1>0, <1>2
  <2> HIDE DEF changed
  <2>5. \A l \in 1 .. 2 : taken[l] \in ListRecord /\ taken[l].id = google.lists[l].id
    BY <2>1, <2>2, <2>3
  <2>6. taken \in [1 .. 2 -> ListRecord]
    BY <2>4, <2>5
  <2> QED
    BY <2>1, <2>3, <2>5, <2>6, <1>1, <1>2
<1>8. x \notin HereNow \/ f = 1
  BY <1>1 DEF ServiceOK, HereNow, TasksIn
<1> HIDE DEF less
\* The tasks of list 1 without x.
<1>9. /\ base \in Seq(TaskRecord) /\ Distinct(base) /\ IdsOf(base) = HereNow \ {x}
      /\ \A y, z : <<y, z>> \in OrderOf(base) <=> <<y, z>> \in BeforeNow /\ y # x /\ z # x
  <2>1. CASE f = 1
    BY <2>1, <1>6, <1>7 DEF HereNow, BeforeNow
  <2>2. CASE f # 1
    <3>1. base = google.lists[1].tasks
      BY <2>2, <1>7
    <3>2. \A y, z : <<y, z>> \in BeforeNow => y \in HereNow /\ z \in HereNow
      BY OrderIsPairs DEF BeforeNow, HereNow
    <3> QED
      BY <3>1, <3>2, <2>2, <1>2, <1>8 DEF HereNow, BeforeNow
  <2> QED
    BY <2>1, <2>2
<1> HIDE DEF base
<1>10. p # Nil => p \in IdsOf(base) /\ at \in 1 .. Len(base) /\ base[at].id = p
  <2> SUFFICES ASSUME p # Nil PROVE p \in IdsOf(base) /\ at \in 1 .. Len(base) /\ base[at].id = p
    OBVIOUS
  <2>1. p \in IdsOf(base)
    BY <1>9
  <2>2. at = Among(base, p)
    BY <1>0, <1>1 DEF base
  <2> HIDE DEF p
  <2> QED
    BY <2>1, <2>2, <1>9, AmongProperties
<1>11. /\ new \in Seq(TaskRecord) /\ Distinct(new) /\ IdsOf(new) = HereNow \cup {x}
       /\ OrderOf(new) = IF p = Nil THEN Abstract!AtFront(x) ELSE Abstract!Behind(p, x)
  <2>1. CASE p = Nil
    <3>1. new = InsertedAt(base, 0, e)
      BY <2>1, <1>0
    <3> HIDE DEF new, x
    <3> QED
      BY <3>1, <2>1, <1>5, <1>9, PutFirst
  <2>2. CASE p # Nil
    <3>1. p \in IdsOf(base) /\ at \in 1 .. Len(base) /\ base[at].id = p /\ new = InsertedAt(base, at, e)
      BY <2>2, <1>10
    <3> HIDE DEF new, x
    <3> QED
      BY <3>1, <2>2, <1>5, <1>9, PutBehind
  <2> QED
    BY <2>1, <2>2
<1> HIDE DEF new
<1>12. r = [result |-> "ok", google |-> [google EXCEPT !.lists = lists]]
  <2>1. f # 0 /\ t # 0 /\ (p # Nil => at # 0)
    BY <1>1, <1>5, <1>10
  <2>2. to # 0
    BY <1>1
  <2> QED
    BY <2>1, <2>2, <1>a, Zenon
<1> DEFINE changed == [taken[1] EXCEPT !.tasks = new]
<1>13. lists = [taken EXCEPT ![1] = changed]
  BY <1>0, <1>1 DEF new, base, e
<1>14. changed \in ListRecord /\ changed.id = 1 /\ changed.tasks = new
  <2>1. taken[1] \in ListRecord
    BY <1>7
  <2> QED
    BY <2>1, <1>7, <1>11 DEF ListRecord
<1> HIDE DEF changed
<1>15. lists \in [1 .. 2 -> ListRecord] /\ lists[1] = changed /\ lists[2] = taken[2]
  BY <1>7, <1>13, <1>14
<1>16. taken[2].tasks \in Seq(TaskRecord) /\ Distinct(taken[2].tasks)
       /\ IdsOf(taken[2].tasks) = IdsOf(google.lists[2].tasks) \ {x}
  <2>1. CASE f = 2
    BY <2>1, <1>6, <1>7
  <2>2. CASE f # 2
    <3>1. x \notin IdsOf(google.lists[2].tasks)
      <4>1. move.from = 1 /\ x \in IdsOf(TasksIn(1))
        BY <2>2, <1>1
      <4> HIDE DEF x
      <4> QED
        BY <4>1 DEF ServiceOK, TasksIn
    <3>2. taken[2].tasks = google.lists[2].tasks
      BY <2>2, <1>7
    <3> QED
      BY <3>1, <3>2, <1>2
  <2> QED
    BY <2>1, <2>2
<1>17. r.result = "ok" /\ r.google.lists = lists
       /\ r.google \in [lists : [1 .. 2 -> ListRecord], next : {1}]
  BY <1>2, <1>12, <1>15
<1>18. \A l \in 1 .. 2 : lists[l].id = l /\ Distinct(lists[l].tasks)
  <2>1. lists[1].id = 1 /\ Distinct(lists[1].tasks)
    BY <1>11, <1>14, <1>15
  <2>2. lists[2].id = 2 /\ Distinct(lists[2].tasks)
    BY <1>7, <1>15, <1>16
  <2> QED
    BY <2>1, <2>2
<1> QED
  BY <1>11, <1>14, <1>15, <1>16, <1>17, <1>18 DEF TasksIn

LEMMA MoveStep ==
    ASSUME IInv, Move
    PROVE  IInv' /\ Ideal!Next
<1> DEFINE N == Len(moves)
           move == moves[1]
           r == MoveTask(google, Head(moves))
<1>1. /\ ServiceOK /\ wanted \in Seq(Ids) /\ NoRepeats(wanted) /\ faults \in 0 .. MaxFaults
      /\ moves \in Seq(MoveRecord) /\ Abstract!IInv
  BY DEF IInv
<1>2. PICK ks : MovesAre(ks)
  BY DEF IInv
<1>3. /\ stage = "moving" /\ moves # <<>> /\ moves' = Tail(moves) /\ google' = r.google
      /\ stage' = IF r.result = "ok" THEN "moving" ELSE "refused"
      /\ wanted' = wanted /\ goal' = goal /\ faults' = faults
  BY DEF Move
<1>4. /\ N \in Nat /\ N >= 1 /\ Head(moves) = move /\ move \in MoveRecord
      /\ moves' \in Seq(MoveRecord) /\ Len(moves') = N - 1 /\ DOMAIN moves' = 1 .. N - 1
      /\ \A m \in 1 .. N - 1 : moves'[m] = moves[m + 1]
  <2>1. N \in Nat /\ N # 0
    BY <1>1, <1>3, LenProperties, EmptySeq
  <2>2. Head(moves) = move /\ Tail(moves) \in Seq(MoveRecord) /\ Len(Tail(moves)) = N - 1
        /\ \A m \in 1 .. N - 1 : Tail(moves)[m] = moves[m + 1]
    BY <2>1, <1>1, <1>3, HeadTailProperties
  <2>3. DOMAIN Tail(moves) = 1 .. N - 1
    BY <2>2, LenProperties
  <2>4. 1 \in 1 .. N
    BY <2>1
  <2>5. move \in MoveRecord
    BY <2>4, <1>1, LenProperties
  <2> QED
    BY <2>1, <2>2, <2>3, <2>5, <1>3
<1>5. /\ ks \in Seq(DOMAIN goal) /\ Len(ks) = N
      /\ \A m, n \in 1 .. N : m < n => ks[m] < ks[n]
      /\ \A m \in 1 .. N : IsMoveOf(moves[m], ks[m])
  BY <1>2 DEF MovesAre
<1>6. /\ Abstract!TypeOK /\ Abstract!IsGoal(goal) /\ Abstract!InPlace(DOMAIN goal \ LeftNow)
      /\ Len(goal) \in Nat /\ DOMAIN goal = 1 .. Len(goal)
      /\ \A i, j \in DOMAIN goal : goal[i] = goal[j] => i = j
      /\ \A i \in DOMAIN goal : goal[i] \in Ids
  BY <1>1, <1>3, LenProperties
     DEF Abstract!IInv, Abstract!TypeOK, Abstract!StaysInPlace, Abstract!IsGoal, Ids
<1>7. /\ LeftNow = {ks[m] : m \in 1 .. N} /\ LeftNow \in SUBSET DOMAIN goal
      /\ \A m \in 1 .. N : ks[m] \in DOMAIN goal
  BY SMTT(20), <1>1, <1>2, <1>6, PlacesLeft
<1> DEFINE k == ks[1]
           x == goal[k]
<1>8. 1 \in 1 .. N /\ k \in LeftNow /\ k \in 1 .. Len(goal) /\ x \in Ids /\ \A j \in LeftNow : k <= j
  <2>1. 1 \in 1 .. N
    BY <1>4
  <2>2. \A m \in 1 .. N : ks[m] \in Nat
    BY <1>6, <1>7
  <2>3. \A m \in 1 .. N : k <= ks[m]
    <3> SUFFICES ASSUME NEW m \in 1 .. N PROVE k <= ks[m]
      OBVIOUS
    <3>1. m = 1 \/ 1 < m
      BY <1>4
    <3> QED
      BY <3>1, <2>1, <2>2, <1>5
  <2> QED
    BY <2>1, <2>3, <1>6, <1>7
<1>9. /\ move.item = x /\ x \in IdsOf(TasksIn(move.from))
      /\ move.previous = IF k = 1 THEN Nil ELSE goal[k - 1]
  BY <1>5, <1>8 DEF IsMoveOf
<1>10. k # 1 => goal[k - 1] \in HereNow /\ goal[k - 1] # x /\ goal[k - 1] # Nil
  <2> SUFFICES ASSUME k # 1 PROVE goal[k - 1] \in HereNow /\ goal[k - 1] # x /\ goal[k - 1] # Nil
    OBVIOUS
  <2>1. k - 1 \in 1 .. Len(goal) /\ k - 1 # k /\ ~(k <= k - 1)
    BY <1>6, <1>8
  <2>2. k - 1 \in DOMAIN goal \ LeftNow
    BY <2>1, <1>6, <1>8
  <2>3. Nil \notin Ids
    BY ReorderingAssumption DEF Ids
  <2> QED
    BY <2>1, <2>2, <2>3, <1>6, <1>8 DEF Abstract!InPlace
<1> HIDE DEF N, move, k, x
<1>11. /\ r.result = "ok"
       /\ r.google \in [lists : [1 .. 2 -> ListRecord], next : {1}]
       /\ \A l \in 1 .. 2 : r.google.lists[l].id = l /\ Distinct(r.google.lists[l].tasks)
       /\ IdsOf(r.google.lists[1].tasks) = HereNow \cup {x}
       /\ IdsOf(r.google.lists[2].tasks) = IdsOf(TasksIn(2)) \ {x}
       /\ OrderOf(r.google.lists[1].tasks) =
             IF move.previous = Nil THEN Abstract!AtFront(x) ELSE Abstract!Behind(move.previous, x)
  <2>1. move.previous # Nil => move.previous \in HereNow /\ move.previous # move.item
    BY <1>9, <1>10
  <2>2. r = MoveTask(google, move)
    BY <1>4
  <2> HIDE DEF r
  <2>3. \A u \in MoveRecord : \A v :
            /\ u.item \in IdsOf(TasksIn(u.from))
            /\ u.previous # Nil => u.previous \in HereNow /\ u.previous # u.item
            /\ v = MoveTask(google, u)
            => /\ v.result = "ok"
               /\ v.google \in [lists : [1 .. 2 -> ListRecord], next : {1}]
               /\ \A l \in 1 .. 2 : v.google.lists[l].id = l /\ Distinct(v.google.lists[l].tasks)
               /\ IdsOf(v.google.lists[1].tasks) = HereNow \cup {u.item}
               /\ IdsOf(v.google.lists[2].tasks) = IdsOf(TasksIn(2)) \ {u.item}
               /\ OrderOf(v.google.lists[1].tasks) =
                     IF u.previous = Nil THEN Abstract!AtFront(u.item)
                                         ELSE Abstract!Behind(u.previous, u.item)
    BY <1>1, MoveTaskProperties
  <2> QED
    BY <2>1, <2>2, <2>3, <1>4, <1>9
<1> HIDE DEF r
<1>12. /\ HereNow' = HereNow \cup {x}
       /\ BeforeNow' = IF k = 1 THEN Abstract!AtFront(x) ELSE Abstract!Behind(goal[k - 1], x)
       /\ IdsOf(TasksIn(2))' = IdsOf(TasksIn(2)) \ {x}
       /\ stage' = "moving"
  <2>1. HereNow' = IdsOf(r.google.lists[1].tasks) /\ BeforeNow' = OrderOf(r.google.lists[1].tasks)
        /\ IdsOf(TasksIn(2))' = IdsOf(r.google.lists[2].tasks)
    BY <1>3 DEF HereNow, BeforeNow, TasksIn
  <2>2. move.previous = Nil <=> k = 1
    BY <1>9, <1>10
  <2>3. k # 1 => move.previous = goal[k - 1]
    BY <1>9
  <2> QED
    BY <2>1, <2>2, <2>3, <1>3, <1>11
<1>13. ServiceOK'
  <2>1. IdsOf(TasksIn(1)) \cap IdsOf(TasksIn(2)) = {} /\ IdsOf(TasksIn(1)) \cup IdsOf(TasksIn(2)) = Ids
    BY <1>1 DEF ServiceOK
  <2>2. IdsOf(TasksIn(1))' = IdsOf(TasksIn(1)) \cup {x}
    BY <1>12 DEF HereNow, TasksIn
  <2>3. IdsOf(TasksIn(1))' \cap IdsOf(TasksIn(2))' = {} /\ IdsOf(TasksIn(1))' \cup IdsOf(TasksIn(2))' = Ids
    BY <2>1, <2>2, <1>8, <1>12
  <2> QED
    BY <2>3, <1>3, <1>11 DEF ServiceOK, TasksIn, Ids
<1>14. LeftNow' = LeftNow \ {k}
  <2> SUFFICES ASSUME NEW j PROVE j \in LeftNow' <=> j \in LeftNow /\ j # k
    OBVIOUS
  <2>0. \A m \in 1 .. N : moves[m].item = goal[ks[m]]
    BY <1>5 DEF IsMoveOf
  <2>1. j \in LeftNow' <=> j \in DOMAIN goal /\ \E m \in 1 .. N - 1 : moves[m + 1].item = goal[j]
    BY <1>3, <1>4 DEF LeftNow
  <2>2. \A m \in 1 .. N - 1 : m + 1 \in 1 .. N /\ 1 < m + 1
    BY <1>4
  <2>3. ASSUME j \in LeftNow' PROVE j \in LeftNow /\ j # k
    <3>1. PICK m \in 1 .. N - 1 : moves[m + 1].item = goal[j]
      BY <2>1, <2>3
    <3>2. ks[m + 1] = j
      BY <3>1, <2>0, <2>1, <2>2, <2>3, <1>6, <1>7
    <3>3. k < ks[m + 1]
      BY <2>2, <1>5, <1>8 DEF k
    <3> QED
      BY <3>2, <3>3, <2>2, <1>6, <1>7, <1>8
  <2>4. ASSUME j \in LeftNow, j # k PROVE j \in LeftNow'
    <3>1. PICK m \in 1 .. N : ks[m] = j
      BY <2>4, <1>7
    <3>2. m # 1
      BY <3>1, <2>4 DEF k
    <3>3. m - 1 \in 1 .. N - 1 /\ (m - 1) + 1 = m
      BY <3>2, <1>4
    <3>4. moves[(m - 1) + 1].item = goal[j]
      BY <3>1, <3>3, <2>0
    <3> QED
      BY <3>3, <3>4, <2>1, <2>4, <1>7
  <2> QED
    BY <2>3, <2>4
<1>15. \E q : MovesAre(q)'
  <2>0. PICK q : q = Tail(ks)
    OBVIOUS
  <2>1. q \in Seq(DOMAIN goal) /\ Len(q) = N - 1 /\ \A m \in 1 .. N - 1 : q[m] = ks[m + 1]
    <3>1. ks # <<>>
      BY <1>4, <1>5, EmptySeq
    <3> QED
      BY <2>0, <3>1, <1>5, HeadTailProperties
  <2>2. \A m \in 1 .. N - 1 : m + 1 \in 1 .. N /\ 1 < m + 1 /\ m \in Nat
    BY <1>4
  <2>3. \A m, n \in 1 .. N - 1 : m < n => q[m] < q[n]
    BY <2>1, <2>2, <1>5
  <2>4. ASSUME NEW m \in 1 .. N - 1 PROVE IsMoveOf(moves[m], q[m])'
    <3>a. PICK other, j, f : other = moves[m + 1] /\ j = ks[m + 1] /\ f = other.from
      OBVIOUS
    <3>1. /\ other.item = goal[j] /\ goal[j] \in IdsOf(TasksIn(f))
          /\ other.previous = IF j = 1 THEN Nil ELSE goal[j - 1]
      BY <2>2, <3>a, <1>5 DEF IsMoveOf
    <3>2. f \in 1 .. 2
      <4>1. other \in MoveRecord
        BY <2>2, <3>a, <1>1, LenProperties DEF N
      <4> QED
        BY <4>1, <3>a DEF MoveRecord
    <3>3. goal[j] # x
      <4>1. k < j /\ j \in DOMAIN goal /\ k \in DOMAIN goal
        BY <2>2, <3>a, <1>5, <1>6, <1>7, <1>8 DEF k
      <4> QED
        BY <4>1, <1>6 DEF x
    <3>4. goal[j] \in IdsOf(TasksIn(f))'
      <4>1. CASE f = 1
        BY <4>1, <3>1, <1>12 DEF HereNow, TasksIn
      <4>2. CASE f = 2
        BY <4>2, <3>1, <3>3, <1>12 DEF TasksIn
      <4> QED
        BY <4>1, <4>2, <3>2
    <3>5. moves'[m] = other /\ q[m] = j
      BY <2>1, <3>a, <1>4
    <3> QED
      BY <3>a, <3>1, <3>4, <3>5, <1>3 DEF IsMoveOf
  <2> QED
    BY <2>1, <2>3, <2>4, <1>3, <1>4 DEF MovesAre
<1>16. Abstract!Move
  BY <1>3, <1>8, <1>12, <1>14 DEF Abstract!Move, x
<1>17. Abstract!IInv'
  BY <1>1, <1>16, Abstract!InvariantStep DEF Abstract!Next
<1>18. IInv'
  BY <1>1, <1>3, <1>4, <1>12, <1>13, <1>15, <1>17 DEF IInv
<1>19. Ideal!Next
  BY <1>16 DEF Abstract!Move, Abstract!AtFront, Abstract!Behind, Abstract!UpTo,
               Ideal!Next, Ideal!Move, Ideal!AtFront, Ideal!Behind, Ideal!UpTo
<1> QED
  BY <1>18, <1>19

LEMMA FailStep ==
    ASSUME IInv, Fail
    PROVE  IInv' /\ Ideal!Next
<1>1. /\ stage = "moving" /\ stage' = "idle" /\ moves # <<>> /\ moves' = <<>>
      /\ faults \in 0 .. MaxFaults /\ faults < MaxFaults /\ faults' = faults + 1
      /\ google' = google /\ wanted' = wanted /\ goal' = goal
  BY DEF Fail, IInv
<1>2. PICK ks : MovesAre(ks)
  BY DEF IInv
<1>3. LeftNow # {}
  <2>1. moves \in Seq(MoveRecord) /\ Abstract!IsGoal(goal)
    BY DEF IInv, Abstract!IInv, Abstract!TypeOK
  <2>2. 1 \in 1 .. Len(moves)
    BY <2>1, <1>1, LenProperties, EmptySeq
  <2> QED
    BY <2>1, <2>2, <1>2, PlacesLeft
<1>4. LeftNow' = {} /\ HereNow' = HereNow /\ BeforeNow' = BeforeNow
  BY <1>1 DEF LeftNow, HereNow, BeforeNow
<1>5. Abstract!Fail
  BY <1>1, <1>3, <1>4 DEF Abstract!Fail
<1>6. Abstract!IInv'
  BY <1>5, Abstract!InvariantStep DEF Abstract!Next, IInv
<1>7. MovesAre(<<>>)'
  BY <1>1 DEF MovesAre
<1>8. ServiceOK'
  BY <1>1 DEF IInv, ServiceOK, TasksIn
<1>9. faults' \in 0 .. MaxFaults
  BY <1>1, ReorderingAssumption
<1>10. IInv'
  BY <1>1, <1>6, <1>7, <1>8, <1>9 DEF IInv
<1>11. Ideal!Next
  BY <1>5 DEF Abstract!Fail, Ideal!Fail, Ideal!Next
<1> QED
  BY <1>10, <1>11

\* Without moves nothing is left.
LEMMA NothingLeft ==
    ASSUME moves = <<>>
    PROVE  LeftNow = {}
  BY DEF LeftNow

LEMMA FinishStep ==
    ASSUME IInv, Finish
    PROVE  IInv' /\ Ideal!Next
<1>1. /\ stage = "moving" /\ moves = <<>> /\ stage' = "done" /\ moves' = moves
      /\ faults' = faults /\ google' = google /\ wanted' = wanted /\ goal' = goal
  BY DEF Finish
<1>2. LeftNow = {} /\ LeftNow' = LeftNow /\ HereNow' = HereNow /\ BeforeNow' = BeforeNow
  BY <1>1, NothingLeft DEF LeftNow, HereNow, BeforeNow
<1>3. Abstract!Finish
  BY <1>1, <1>2 DEF Abstract!Finish
<1>4. Abstract!IInv'
  BY <1>3, Abstract!InvariantStep DEF Abstract!Next, IInv
<1>5. MovesAre(<<>>)' /\ ServiceOK'
  BY <1>1 DEF IInv, MovesAre, ServiceOK, TasksIn
<1>6. IInv'
  BY <1>1, <1>4, <1>5 DEF IInv
<1>7. Ideal!Next
  BY <1>3 DEF Abstract!Finish, Ideal!Finish, Ideal!Next
<1> QED
  BY <1>6, <1>7

LEMMA Stuttering ==
    ASSUME IInv, UNCHANGED vars
    PROVE  IInv' /\ UNCHANGED Ideal!vars
<1>1. /\ stage' = stage /\ moves' = moves /\ faults' = faults
      /\ google' = google /\ wanted' = wanted /\ goal' = goal
  BY DEF vars
<1>2. LeftNow' = LeftNow /\ HereNow' = HereNow /\ BeforeNow' = BeforeNow
  BY <1>1 DEF LeftNow, HereNow, BeforeNow
<1>3. UNCHANGED Abstract!vars /\ UNCHANGED Ideal!vars
  BY <1>1, <1>2 DEF Abstract!vars, Ideal!vars
<1>4. Abstract!IInv'
  BY <1>3, Abstract!InvariantStep DEF IInv
<1>5. PICK ks : MovesAre(ks)
  BY DEF IInv
<1>6. MovesAre(ks)'
  BY <1>1, <1>5 DEF MovesAre, IsMoveOf, TasksIn
<1>7. ServiceOK'
  BY <1>1 DEF IInv, ServiceOK, TasksIn
<1> QED
  BY <1>1, <1>3, <1>4, <1>6, <1>7 DEF IInv

-----------------------------------------------------------------------------
(* The initial states. *)

LEMMA OrdersExist ==
    ASSUME NEW S, IsFiniteSet(S)
    PROVE  /\ \E f : f \in Orders(S)
           /\ \A f \in Orders(S) :
                 f \in Seq(S) /\ NoRepeats(f) /\ \A x : x \in S <=> \E k \in DOMAIN f : f[k] = x
<1> DEFINE N == Cardinality(S)
<1>1. N \in Nat /\ ExistsBijection(1 .. N, S)
  BY FS_CardinalityType
<1>2. PICK g : g \in Bijection(1 .. N, S)
  BY <1>1 DEF ExistsBijection
<1>3. g \in Orders(S)
  BY <1>2 DEF Bijection, Injection, IsInjective, Orders
<1>4. ASSUME NEW f \in Orders(S)
      PROVE  f \in Seq(S) /\ NoRepeats(f) /\ \A x : x \in S <=> \E k \in DOMAIN f : f[k] = x
  <2>1. f \in [1 .. N -> S] /\ \A i, j \in 1 .. N : f[i] = f[j] => i = j
    BY DEF Orders
  <2>2. f \in Injection(1 .. N, S)
    BY <2>1 DEF Injection, IsInjective
  <2>3. Cardinality(1 .. N) = N
    <3>1. \A n \in Nat : Cardinality(1 .. n) = n
      BY FS_Interval
    <3> QED
      BY <3>1, <1>1
  <2> HIDE DEF N
  <2>4. Cardinality(1 .. N) = Cardinality(S)
    BY <2>3 DEF N
  <2>5. f \in Surjection(1 .. N, S)
    BY <2>2, <2>4, FS_Injection
  <2>6. f \in Seq(S)
    BY <2>1, <1>1
  <2> QED
    BY <2>1, <2>5, <2>6 DEF Surjection, NoRepeats
<1> QED
  BY <1>3, <1>4

\* Of distinct tasks the order is one.
LEMMA OrderIsOrder ==
    ASSUME NEW T, NEW tasks \in Seq(T), Distinct(tasks)
    PROVE  OrderOf(tasks) \in Abstract!Orders(IdsOf(tasks))
<1> DEFINE B == OrderOf(tasks)
           I == IdsOf(tasks)
<1>1. DOMAIN tasks \in SUBSET Nat
  BY LenProperties
<1>2. \A y, z : <<y, z>> \in B <=> \E i, j \in DOMAIN tasks : i < j /\ tasks[i].id = y /\ tasks[j].id = z
  BY OrderPairs
<1>3. \A x : x \in I <=> \E k \in DOMAIN tasks : tasks[k].id = x
  BY IdsMembers
<1>4. B \in SUBSET (I \X I)
  BY OrderIsPairs
<1> HIDE DEF B, I
<1>5. \A x \in I : <<x, x>> \notin B
  BY <1>1, <1>2 DEF Distinct
<1>6. \A x, y \in I : x = y \/ <<x, y>> \in B \/ <<y, x>> \in B
  <2> SUFFICES ASSUME NEW x \in I, NEW y \in I, x # y PROVE <<x, y>> \in B \/ <<y, x>> \in B
    OBVIOUS
  <2>1. PICK i \in DOMAIN tasks : tasks[i].id = x
    BY <1>3
  <2>2. PICK j \in DOMAIN tasks : tasks[j].id = y
    BY <1>3
  <2>3. i < j \/ j < i
    BY <2>1, <2>2, <1>1
  <2> QED
    BY <2>1, <2>2, <2>3, <1>2
<1>7. \A x, y, z \in I : <<x, y>> \in B /\ <<y, z>> \in B => <<x, z>> \in B
  <2> SUFFICES ASSUME NEW x \in I, NEW y \in I, NEW z \in I, <<x, y>> \in B, <<y, z>> \in B
               PROVE  <<x, z>> \in B
    OBVIOUS
  <2>1. PICK i \in DOMAIN tasks, j \in DOMAIN tasks : i < j /\ tasks[i].id = x /\ tasks[j].id = y
    BY <1>2
  <2>2. PICK k \in DOMAIN tasks, l \in DOMAIN tasks : k < l /\ tasks[k].id = y /\ tasks[l].id = z
    BY <1>2
  <2>3. j = k
    BY <2>1, <2>2 DEF Distinct
  <2>4. i < l
    BY <2>1, <2>2, <2>3, <1>1
  <2> QED
    BY <2>1, <2>2, <2>4, <1>2
<1> QED
  BY <1>4, <1>5, <1>6, <1>7 DEF Abstract!Orders, B, I

LEMMA InvariantAtFirst ==
    ASSUME Init
    PROVE  IInv /\ Ideal!Init
<1>1. IsFiniteSet(Here) /\ IsFiniteSet(There) /\ IsFiniteSet(Ids)
      /\ Here \cap There = {} /\ Here \cup There = Ids /\ MaxFaults \in Nat
  BY ReorderingAssumption, FS_Subset DEF Ids
<1>2. PICK here, there, done :
          /\ here = (CHOOSE f \in Orders(Here) : TRUE) /\ there = (CHOOSE f \in Orders(There) : TRUE)
          /\ done \in SUBSET Ids /\ google = Service(here, there, done)
  BY DEF Init, Ids
<1>3. here \in Orders(Here) /\ there \in Orders(There)
  BY <1>1, <1>2, OrdersExist
<1>4. /\ here \in Seq(Here) /\ NoRepeats(here) /\ \A x : x \in Here <=> \E k \in DOMAIN here : here[k] = x
      /\ there \in Seq(There) /\ NoRepeats(there) /\ \A x : x \in There <=> \E k \in DOMAIN there : there[k] = x
  BY <1>1, <1>3, OrdersExist
<1> DEFINE Tasks(order) == [k \in DOMAIN order |->
                               [id |-> order[k], text |-> "a", tag |-> NoTag,
                                done |-> order[k] \in done, updated |-> 1]]
           Named(l, order) == [id |-> l, name |-> "a", updated |-> 1, tasks |-> Tasks(order)]
<1>5. google = [lists |-> <<Named(1, here), Named(2, there)>>, next |-> 1]
  BY <1>2 DEF Service
<1>6. ASSUME NEW S \in SUBSET Ids, NEW order \in Seq(S), NoRepeats(order),
             \A x : x \in S <=> \E k \in DOMAIN order : order[k] = x
      PROVE  Tasks(order) \in Seq(TaskRecord) /\ Distinct(Tasks(order)) /\ IdsOf(Tasks(order)) = S
  <2>1. Len(order) \in Nat /\ DOMAIN order = 1 .. Len(order) /\ \A k \in DOMAIN order : order[k] \in Ids
    BY LenProperties
  <2>2. \A k \in DOMAIN order : Tasks(order)[k] \in TaskRecord /\ Tasks(order)[k].id = order[k]
    BY <2>1 DEF TaskRecord
  <2>3. DOMAIN Tasks(order) = DOMAIN order
    OBVIOUS
  <2>4. Tasks(order) \in Seq(TaskRecord)
    BY <2>1, <2>2
  <2> HIDE DEF Tasks
  <2>5. Distinct(Tasks(order))
    BY <2>2, <2>3, <1>6 DEF Distinct, NoRepeats
  <2>6. \A x : x \in IdsOf(Tasks(order)) <=> x \in S
    BY <2>2, <2>3, <1>6, IdsMembers
  <2> QED
    BY <2>4, <2>5, <2>6
<1>7. /\ Tasks(here) \in Seq(TaskRecord) /\ Distinct(Tasks(here)) /\ IdsOf(Tasks(here)) = Here
      /\ Tasks(there) \in Seq(TaskRecord) /\ Distinct(Tasks(there)) /\ IdsOf(Tasks(there)) = There
  <2>1. Here \in SUBSET Ids /\ There \in SUBSET Ids
    BY <1>1
  <2> HIDE DEF Tasks
  <2> QED
    BY <2>1, <1>4, <1>6
<1> HIDE DEF Tasks
<1>8. Named(1, here) \in ListRecord /\ Named(2, there) \in ListRecord
  BY <1>7 DEF ListRecord
<1>9. /\ google.lists[1].tasks = Tasks(here) /\ google.lists[1].id = 1
      /\ google.lists[2].tasks = Tasks(there) /\ google.lists[2].id = 2
  BY <1>5
<1>10. google \in [lists : [1 .. 2 -> ListRecord], next : {1}]
  <2> HIDE DEF Named
  <2> QED
    BY <1>5, <1>8
<1>11. ServiceOK
  <2>1. \A l \in 1 .. 2 : google.lists[l].id = l /\ Distinct(google.lists[l].tasks)
    BY <1>7, <1>9
  <2> QED
    BY <2>1, <1>1, <1>7, <1>9, <1>10 DEF ServiceOK, TasksIn
<1>12. wanted \in Seq(Ids) /\ NoRepeats(wanted)
  <2>1. PICK S \in SUBSET Ids : wanted \in Orders(S)
    BY DEF Init, Ids
  <2>2. IsFiniteSet(S)
    BY <1>1, FS_Subset
  <2>3. wanted \in Seq(S) /\ NoRepeats(wanted)
    BY <2>1, <2>2, OrdersExist
  <2>4. \A k \in 1 .. Len(wanted) : wanted[k] \in Ids
    BY <2>3, LenProperties
  <2>5. Len(wanted) \in Nat /\ wanted = [k \in 1 .. Len(wanted) |-> wanted[k]]
    BY <2>3, LenProperties
  <2> QED
    BY <2>3, <2>4, <2>5
<1>13. goal = <<>> /\ moves = <<>> /\ stage = "idle" /\ faults = 0
  BY DEF Init
<1>14. HereNow \subseteq Ids /\ BeforeNow \in Abstract!Orders(HereNow) /\ LeftNow = {}
  BY <1>1, <1>7, <1>9, <1>13, OrderIsOrder, NothingLeft DEF HereNow, BeforeNow
<1>15. Abstract!Init
  BY <1>13, <1>14 DEF Abstract!Init, Ids
<1>16. Abstract!IInv
  BY <1>15, Abstract!InvariantAtFirst
<1>17. MovesAre(<<>>)
  BY <1>13 DEF MovesAre
<1>18. IInv
  BY <1>1, <1>11, <1>12, <1>13, <1>16, <1>17 DEF IInv
<1>19. Ideal!Init
  BY <1>15 DEF Abstract!Init, Abstract!Orders, Ideal!Init, Ideal!Orders
<1> QED
  BY <1>18, <1>19

-----------------------------------------------------------------------------

LEMMA Invariant == Spec => []IInv
<1>1. Init => IInv
  BY InvariantAtFirst
<1>2. IInv /\ [Next]_vars => IInv'
  BY BeginStep, MoveStep, FailStep, FinishStep, Stuttering DEF Next
<1> QED
  BY <1>1, <1>2, PTL DEF Spec

\* The moves are of items of the store to list 1, and no task is lost.
THEOREM TypeCorrect == Spec => []TypeOK
<1>1. ASSUME IInv PROVE TypeOK
  <2>1. \A m \in DOMAIN moves : moves[m] \in MoveRecord
    BY <1>1, LenProperties DEF IInv
  <2>2. \A m \in DOMAIN moves : moves[m].item \in Ids /\ moves[m].to = 1
    BY <2>1 DEF MoveRecord
  <2> QED
    BY <2>2, <1>1 DEF IInv, ServiceOK, TasksIn, TypeOK, Ids
<1> QED
  BY <1>1, Invariant, PTL

\* CalculateMoves and UpdateList: no move is refused, and when all are made the
\* tasks are in the order wanted.
THEOREM OrderReached == Spec => []EndsAsWanted
<1>1. ASSUME IInv PROVE EndsAsWanted
  <2>1. stage # "refused"
    BY <1>1 DEF IInv
  <2>2. ASSUME stage = "done" PROVE Ideal!InPlace(DOMAIN goal)
    <3>1. LeftNow = {}
      BY <1>1, <2>2, NothingLeft DEF IInv
    <3>2. Abstract!InPlace(DOMAIN goal \ LeftNow)
      BY <1>1, <2>2 DEF IInv, Abstract!IInv, Abstract!StaysInPlace
    <3>3. DOMAIN goal \ LeftNow = DOMAIN goal
      BY <3>1
    <3> QED
      BY <3>2, <3>3 DEF Abstract!InPlace, Ideal!InPlace
  <2> QED
    BY <2>1, <2>2 DEF EndsAsWanted
<1> QED
  BY <1>1, Invariant, PTL

\* CalculateMoves "computes the minimal set of Move operations", whatever has
\* been moved and has failed before.
THEOREM MovesAreMinimal == Spec => []AlwaysMinimal
<1>1. ASSUME IInv PROVE AlwaysMinimal
  <2> SUFFICES ASSUME stage = "moving", NEW T \in SUBSET DOMAIN goal, Ideal!InPlace(T)
               PROVE  Len(moves) <= Len(goal) - Cardinality(T)
    BY SameCardinality DEF AlwaysMinimal
  <2>1. PICK ks : MovesAre(ks)
    BY <1>1 DEF IInv
  <2>2. moves \in Seq(MoveRecord) /\ Abstract!IsGoal(goal) /\ Abstract!Largest(DOMAIN goal \ LeftNow)
    BY <1>1 DEF IInv, Abstract!IInv, Abstract!TypeOK, Abstract!NoMoveTooMany
  <2>3. Len(moves) \in Nat /\ Len(goal) \in Nat /\ DOMAIN goal = 1 .. Len(goal)
    BY <2>2, LenProperties DEF Abstract!IsGoal
  <2>4. LeftNow \in SUBSET DOMAIN goal /\ IsFiniteSet(LeftNow) /\ Cardinality(LeftNow) = Len(moves)
    BY <2>1, <2>2, PlacesLeft, CountLeft
  <2>5. IsFiniteSet(DOMAIN goal) /\ Cardinality(DOMAIN goal) = Len(goal)
    <3>1. \A n \in Nat : IsFiniteSet(1 .. n) /\ Cardinality(1 .. n) = n
      BY FS_Interval
    <3> QED
      BY <3>1, <2>3
  <2>6. Cardinality(DOMAIN goal \ LeftNow) = Len(goal) - Len(moves)
    <3>1. DOMAIN goal \cap LeftNow = LeftNow
      BY <2>4
    <3>2. Cardinality(DOMAIN goal \ LeftNow) = Cardinality(DOMAIN goal) - Cardinality(DOMAIN goal \cap LeftNow)
      BY <2>5, FS_Difference
    <3> QED
      BY <3>1, <3>2, <2>4, <2>5
  <2>7. Cardinality(T) <= Cardinality(DOMAIN goal \ LeftNow)
    BY <2>2, SameCardinality DEF Abstract!Largest, Abstract!InPlace, Ideal!InPlace
  <2>8. Cardinality(T) \in Nat
    <3>1. IsFiniteSet(T)
      BY <2>5, FS_Subset
    <3> QED
      BY <3>1, FS_CardinalityType
  <2> QED
    BY <2>3, <2>6, <2>7, <2>8
<1> QED
  BY <1>1, Invariant, PTL

\* What UpdateList does to list 1, request by request and failure by failure, is
\* what Rearranging says: a largest set stays, the others go behind their
\* neighbours.
THEOREM Implementation == Spec => ImplementsRearranging
<1>1. Init => Ideal!Init
  BY InvariantAtFirst
<1>2. IInv /\ [Next]_vars => [Ideal!Next]_(Ideal!vars)
  BY BeginStep, MoveStep, FailStep, FinishStep, Stuttering DEF Next
<1> QED
  BY <1>1, <1>2, Invariant, PTL DEF Spec, Ideal!Spec, ImplementsRearranging
=============================================================================
