--------------------------- MODULE ContactsProofs ---------------------------
(***************************************************************************)
(* Proofs about Contacts: the linked list is a sequence, for any memory,   *)
(* names and files, and the program implements AddressBook.                *)
(***************************************************************************)
EXTENDS Contacts, SequenceTheorems, TLAPS

-----------------------------------------------------------------------------
(* Sequences *)

\* What Cons makes of a sequence.
LEMMA ConsFacts ==
  \A S : \A s \in Seq(S), x \in S :
    /\ Cons(x, s) \in Seq(S)
    /\ Len(Cons(x, s)) = Len(s) + 1
    /\ Cons(x, s)[1] = x
    /\ \A i \in 2 .. Len(s) + 1 : Cons(x, s)[i] = s[i - 1]
<1> TAKE S
<1> TAKE s \in Seq(S), x \in S
<1>1. <<x>> \in Seq(S) /\ Len(<<x>>) = 1 /\ <<x>>[1] = x
  OBVIOUS
<1>2. Len(s) \in Nat
  BY LenProperties
<1> QED
  BY <1>1, <1>2, ConcatProperties DEF Cons

\* Behind the new head, the elements are those of the old sequence.
LEMMA ConsTail ==
  ASSUME NEW S, NEW s \in Seq(S), NEW x \in S, NEW i \in 2 .. Len(s) + 1
  PROVE  Cons(x, s)[i] = s[i - 1]
  BY ConsFacts, ZenonT(40)

\* What RemoveAt leaves of a sequence.
LEMMA RemoveAtFacts ==
  ASSUME NEW S, NEW s \in Seq(S), NEW k \in 1 .. Len(s)
  PROVE  /\ RemoveAt(s, k) \in Seq(S)
         /\ Len(RemoveAt(s, k)) = Len(s) - 1
         /\ \A i \in 1 .. Len(s) - 1 :
              RemoveAt(s, k)[i] = IF i < k THEN s[i] ELSE s[i + 1]
<1> DEFINE a == SubSeq(s, 1, k - 1)
           b == SubSeq(s, k + 1, Len(s))
<1>1. Len(s) \in Nat /\ k \in Nat /\ \A i \in 1 .. Len(s) : s[i] \in S
  BY LenProperties, ElementOfSeq
<1>2. /\ a \in Seq(S) /\ Len(a) = k - 1
      /\ \A i \in 1 .. k - 1 : a[i] = s[i]
  <2>1. \A i \in 1 .. k - 1 : s[i] \in S
    BY <1>1
  <2>2. k - 1 \in Int
    BY <1>1
  <2> QED
    BY <1>1, <2>1, <2>2, SubSeqProperties
<1>3. /\ b \in Seq(S) /\ Len(b) = Len(s) - k
      /\ \A i \in 1 .. Len(s) - k : b[i] = s[k + i]
  <2>1. \A i \in k + 1 .. Len(s) : s[i] \in S
    BY <1>1
  <2>2. k + 1 \in Int /\ Len(s) \in Int
    BY <1>1
  <2>3. /\ b \in Seq(S) /\ Len(b) = IF k + 1 <= Len(s) THEN Len(s) - (k + 1) + 1 ELSE 0
        /\ \A i \in 1 .. Len(s) - (k + 1) + 1 : b[i] = s[k + 1 + i - 1]
    BY <2>1, <2>2, SubSeqProperties
  <2> QED
    BY <1>1, <2>3
<1>4. RemoveAt(s, k) = a \o b
  BY DEF RemoveAt
<1> HIDE DEF a, b
<1>5. /\ a \o b \in Seq(S) /\ Len(a \o b) = Len(a) + Len(b)
      /\ \A i \in 1 .. Len(a) + Len(b) :
           (a \o b)[i] = IF i <= Len(a) THEN a[i] ELSE b[i - Len(a)]
  BY <1>2, <1>3, ConcatProperties
<1>6. Len(a) + Len(b) = Len(s) - 1
  BY <1>1, <1>2, <1>3
<1>7. ASSUME NEW i \in 1 .. Len(s) - 1
      PROVE  (a \o b)[i] = IF i < k THEN s[i] ELSE s[i + 1]
  <2>1. CASE i < k
    BY <2>1, <1>1, <1>2, <1>5, <1>6
  <2>2. CASE ~(i < k)
    <3> DEFINE j == i - Len(a)
    <3>1. j \in 1 .. Len(s) - k /\ k + j = i + 1
      BY <2>2, <1>1, <1>2
    <3>2. (a \o b)[i] = b[j]
      BY <2>2, <1>1, <1>2, <1>5, <1>6
    <3>3. b[j] = s[k + j]
      BY <3>1, <1>3
    <3> QED
      BY <2>2, <3>1, <3>2, <3>3
  <2> QED
    BY <2>1, <2>2
<1> QED
  BY <1>4, <1>5, <1>6, <1>7

-----------------------------------------------------------------------------
(* The list *)

\* The people in the order of the list: what AddressBook calls its book.
BookOf == [i \in DOMAIN order |-> person[order[i]]]

\* The part of TypeOK that is about the list.
ListType ==
  /\ people \in Pointers
  /\ prev \in [Nodes -> Pointers] /\ next \in [Nodes -> Pointers]
  /\ person \in [Nodes -> Person \cup {NullPtr}]
  /\ order \in Seq(Nodes)

\* A list that is linked stands for a sequence of people.
LEMMA BookFacts ==
  ASSUME ListType, ListLinked
  PROVE  /\ Len(order) \in Nat /\ DOMAIN order = 1 .. Len(order)
         /\ \A i \in 1 .. Len(order) : order[i] \in Allocated /\ person[order[i]] \in Person
         /\ BookOf \in Seq(Person) /\ Len(BookOf) = Len(order)
         /\ \A i \in 1 .. Len(order) : BookOf[i] = person[order[i]]
<1>1. Len(order) \in Nat /\ DOMAIN order = 1 .. Len(order)
  BY LenProperties DEF ListType
<1>2. \A i \in 1 .. Len(order) : order[i] \in Allocated
  BY <1>1 DEF ListLinked, Range
<1>3. \A i \in 1 .. Len(order) : person[order[i]] \in Person
  BY <1>2 DEF Allocated, ListType
<1>4. BookOf = [i \in 1 .. Len(order) |-> person[order[i]]]
  BY <1>1 DEF BookOf
<1>5. BookOf \in Seq(Person) /\ Len(BookOf) = Len(order)
  BY <1>1, <1>3, <1>4
<1> QED
  BY <1>1, <1>2, <1>3, <1>4, <1>5

\* LIST_INSERT keeps the list a list, with the new person in front.
LEMMA ListInsertFacts ==
  ASSUME ListType, ListLinked, NEW n \in Nodes, n \notin Allocated, NEW p \in Person, ListInsert(n, p)
  PROVE  ListType' /\ ListLinked' /\ BookOf' = Cons(p, BookOf)
<1> USE NodesAssumption, PersonAssumption
<1> DEFINE L == Len(order)
<1>1. /\ L \in Nat /\ DOMAIN order = 1 .. L
      /\ \A i \in 1 .. L : order[i] \in Nodes /\ order[i] # n /\ person[order[i]] \in Person
  BY BookFacts DEF Allocated
<1>2. /\ order' \in Seq(Nodes) /\ Len(order') = L + 1 /\ DOMAIN order' = 1 .. L + 1
      /\ order'[1] = n /\ \A i \in 2 .. L + 1 : order'[i] = order[i - 1]
  <2>1. order' = Cons(n, order) /\ order \in Seq(Nodes) /\ n \in Nodes
    BY DEF ListInsert, ListType
  <2>2. /\ order' \in Seq(Nodes) /\ Len(order') = L + 1
        /\ order'[1] = n /\ \A i \in 2 .. L + 1 : order'[i] = order[i - 1]
    <3>1. Cons(n, order) \in Seq(Nodes)
      BY <2>1, ConsFacts
    <3>2. Len(Cons(n, order)) = Len(order) + 1
      BY <2>1, ConsFacts
    <3>3. Cons(n, order)[1] = n
      BY <2>1, ConsFacts, ZenonT(40)
    <3>4. ASSUME NEW i \in 2 .. Len(order) + 1 PROVE Cons(n, order)[i] = order[i - 1]
      BY <2>1, ConsTail
    <3> QED
      BY <2>1, <3>1, <3>2, <3>3, <3>4
  <2>3. DOMAIN order' = 1 .. L + 1
    BY <2>2, LenProperties
  <2> QED
    BY <2>2, <2>3
<1>3. ListType'
  BY <1>2 DEF ListType, ListInsert, Pointers
<1>4. people = IF L = 0 THEN NullPtr ELSE order[1]
  BY <1>1, EmptySeq DEF ListLinked, ListType
<1> HIDE DEF L
<1>5. /\ \A m \in Nodes : next'[m] = IF m = n THEN people ELSE next[m]
      /\ \A m \in Nodes : prev'[m] = IF m = n THEN NullPtr ELSE IF m = people THEN n ELSE prev[m]
      /\ \A m \in Nodes : person'[m] = IF m = n THEN p ELSE person[m]
      /\ people' = n
  BY DEF ListInsert, ListType
<1>6. ListLinked'
  <2>1. Range(order)' = Allocated'
    <3>1. Allocated' = Allocated \cup {n}
      BY <1>5 DEF Allocated
    <3>2. ASSUME NEW m \in Range(order)' PROVE m \in Range(order) \cup {n}
      <4>1. PICK i \in 1 .. L + 1 : m = order'[i]
        BY <1>2 DEF Range
      <4>2. CASE i = 1
        BY <4>1, <4>2, <1>2
      <4>3. CASE i # 1
        <5>1. i - 1 \in 1 .. L /\ m = order[i - 1]
          BY <4>1, <4>3, <1>1, <1>2
        <5> QED
          BY <5>1, <1>1 DEF Range
      <4> QED
        BY <4>2, <4>3
    <3>3. ASSUME NEW m \in Range(order) PROVE m \in Range(order)'
      <4>1. PICK i \in 1 .. L : m = order[i]
        BY <1>1 DEF Range
      <4>2. i + 1 \in 2 .. L + 1 /\ (i + 1) - 1 = i
        BY <1>1
      <4>3. order'[i + 1] = m
        BY <4>1, <4>2, <1>2
      <4>4. i + 1 \in DOMAIN order'
        BY <1>1, <1>2
      <4> QED
        BY <4>3, <4>4 DEF Range
    <3>4. n \in Range(order)'
      BY <1>1, <1>2 DEF Range
    <3> QED
      BY <3>1, <3>2, <3>3, <3>4 DEF ListLinked
  <2>2. ASSUME NEW i \in 1 .. L + 1, NEW j \in 1 .. L + 1, order'[i] = order'[j]
        PROVE  i = j
    <3>1. CASE i = 1 \/ j = 1
      BY <3>1, <2>2, <1>1, <1>2
    <3>2. CASE i # 1 /\ j # 1
      <4>1. i - 1 \in 1 .. L /\ j - 1 \in 1 .. L /\ order[i - 1] = order[j - 1]
        BY <3>2, <2>2, <1>1, <1>2
      <4>2. i - 1 = j - 1
        BY <4>1, <1>1 DEF ListLinked
      <4> QED
        BY <4>2
    <3> QED
      BY <3>1, <3>2
  <2>3. order' # <<>> /\ people' = order'[1]
    BY <1>1, <1>2, <1>5
  <2>4. ASSUME NEW i \in 1 .. L + 1
        PROVE  /\ next'[order'[i]] = IF i = L + 1 THEN NullPtr ELSE order'[i + 1]
               /\ prev'[order'[i]] = IF i = 1 THEN NullPtr ELSE order'[i - 1]
    <3>1. CASE i = 1
      BY <3>1, <1>1, <1>2, <1>4, <1>5
    <3>2. CASE i # 1
      <4> DEFINE h == i - 1
      <4>1. h \in 1 .. L /\ i = h + 1 /\ order'[i] = order[h] /\ order[h] # n
        BY <3>2, <1>1, <1>2
      <4>2. next[order[h]] = IF h = L THEN NullPtr ELSE order[h + 1]
        BY <4>1, <1>1 DEF ListLinked, L
      <4>3. next'[order'[i]] = IF i = L + 1 THEN NullPtr ELSE order'[i + 1]
        BY <4>1, <4>2, <1>1, <1>2, <1>5
      <4>4. prev[order[h]] = IF h = 1 THEN NullPtr ELSE order[h - 1]
        BY <4>1, <1>1 DEF ListLinked
      <4>5. order[h] = people <=> h = 1
        <5>1. people = order[1] /\ 1 \in 1 .. L
          BY <4>1, <1>1, <1>4
        <5> QED
          BY <5>1, <4>1, <1>1 DEF ListLinked
      <4>6. prev'[order'[i]] = order'[i - 1]
        BY <4>1, <4>4, <4>5, <1>1, <1>2, <1>5
      <4> QED
        BY <3>2, <4>3, <4>6
    <3> QED
      BY <3>1, <3>2
  <2> QED
    BY <2>1, <2>2, <2>3, <2>4, <1>2 DEF ListLinked
<1>7. BookOf' = Cons(p, BookOf)
  <2>1. BookOf' \in Seq(Person) /\ Len(BookOf') = L + 1
        /\ \A i \in 1 .. L + 1 : BookOf'[i] = person'[order'[i]]
    <3>1. BookOf' = [i \in 1 .. L + 1 |-> person'[order'[i]]]
      BY <1>2 DEF BookOf
    <3>2. \A i \in 1 .. L + 1 : person'[order'[i]] \in Person
      BY <1>1, <1>2, <1>5
    <3> QED
      BY <3>1, <3>2, <1>1
  <2>2. BookOf \in Seq(Person) /\ Len(BookOf) = L /\ \A i \in 1 .. L : BookOf[i] = person[order[i]]
    BY BookFacts DEF L
  <2>3. /\ Cons(p, BookOf) \in Seq(Person) /\ Len(Cons(p, BookOf)) = L + 1
        /\ Cons(p, BookOf)[1] = p
        /\ \A i \in 2 .. L + 1 : Cons(p, BookOf)[i] = BookOf[i - 1]
    <3> DEFINE b == BookOf
    <3>1. b \in Seq(Person) /\ Len(b) = L
      BY <2>2
    <3> HIDE DEF b
    <3>2. Cons(p, b) \in Seq(Person)
      BY <3>1, ConsFacts
    <3>3. Len(Cons(p, b)) = Len(b) + 1
      BY <3>1, ConsFacts
    <3>4. Cons(p, b)[1] = p
      BY <3>1, ConsFacts
    <3>5. ASSUME NEW i \in 2 .. Len(b) + 1 PROVE Cons(p, b)[i] = b[i - 1]
      BY <3>1, ConsTail
    <3> QED
      BY <3>1, <3>2, <3>3, <3>4, <3>5 DEF b
  <2>4. ASSUME NEW i \in 1 .. L + 1 PROVE BookOf'[i] = Cons(p, BookOf)[i]
    <3>1. CASE i = 1
      BY <3>1, <2>1, <2>3, <1>1, <1>2, <1>5
    <3>2. CASE i # 1
      <4>1. i \in 2 .. L + 1 /\ i - 1 \in 1 .. L
        BY <3>2, <1>1
      <4>2. BookOf'[i] = Cons(p, BookOf)[i]
        <5>1. BookOf'[i] = person'[order[i - 1]]
          BY <4>1, <2>1, <1>2
        <5>2. person'[order[i - 1]] = person[order[i - 1]]
          BY <4>1, <1>1, <1>5
        <5>3. Cons(p, BookOf)[i] = person[order[i - 1]]
          BY <4>1, <2>2, <2>3
        <5> QED
          BY <5>1, <5>2, <5>3
      <4> QED
        BY <4>2
    <3> QED
      BY <3>1, <3>2
  <2> QED
    BY <2>1, <2>3, <2>4, SeqEqual
<1> QED
  BY <1>3, <1>6, <1>7

\* List_REMOVE keeps the list a list, without the person at place k.
LEMMA ListRemoveFacts ==
  ASSUME ListType, ListLinked, NEW k \in 1 .. Len(order), NEW n \in Nodes, n = order[k],
         ListRemove(n)
  PROVE  ListType' /\ ListLinked' /\ BookOf' = RemoveAt(BookOf, k)
<1> USE NodesAssumption, PersonAssumption
<1> DEFINE L == Len(order)
           at(i) == IF i < k THEN i ELSE i + 1
<1>1. /\ L \in Nat /\ k \in 1 .. L /\ DOMAIN order = 1 .. L
      /\ \A i \in 1 .. L : order[i] \in Nodes /\ person[order[i]] \in Person
  BY BookFacts DEF Allocated
<1>2. \A i, j \in 1 .. L : order[i] = order[j] => i = j
  BY <1>1 DEF ListLinked
<1>3. order' = RemoveAt(order, k)
  BY <1>1, <1>2 DEF ListRemove
<1>4. order' \in Seq(Nodes) /\ Len(order') = L - 1 /\ DOMAIN order' = 1 .. L - 1
  <2>1. order \in Seq(Nodes)
    BY DEF ListType
  <2>2. order' \in Seq(Nodes) /\ Len(order') = L - 1
    BY <1>1, <1>3, <2>1, RemoveAtFacts
  <2> QED
    BY <2>2, LenProperties
<1>5. ASSUME NEW i \in 1 .. L - 1 PROVE order'[i] = order[at(i)]
  BY <1>1, <1>3, RemoveAtFacts DEF ListType
<1>6. ListType'
  BY <1>1, <1>4 DEF ListType, ListRemove, Pointers
<1>7. people = order[1]
  BY <1>1, EmptySeq DEF ListLinked, ListType
<1>8. \A i \in 1 .. L : /\ next[order[i]] = IF i = L THEN NullPtr ELSE order[i + 1]
                        /\ prev[order[i]] = IF i = 1 THEN NullPtr ELSE order[i - 1]
  BY <1>1 DEF ListLinked
<1> HIDE DEF L
<1>9. /\ \A m \in Nodes : next'[m] = IF m = n THEN NullPtr ELSE IF m = prev[n] THEN next[n] ELSE next[m]
      /\ \A m \in Nodes : prev'[m] = IF m = n THEN NullPtr ELSE IF m = next[n] THEN prev[n] ELSE prev[m]
      /\ \A m \in Nodes : person'[m] = IF m = n THEN NullPtr ELSE person[m]
      /\ people' = IF people = n THEN next[n] ELSE people
  BY DEF ListRemove, ListType
<1>10. \A i \in 1 .. L - 1 : at(i) \in 1 .. L /\ at(i) # k /\ order[at(i)] # n
  BY <1>1, <1>2
<1>11. ListLinked'
  <2>1. Range(order)' = Allocated'
    <3>1. Allocated' = Allocated \ {n}
      BY <1>9 DEF Allocated
    <3>2. ASSUME NEW m \in Range(order)' PROVE m \in Range(order) \ {n}
      <4>1. PICK i \in 1 .. L - 1 : m = order'[i]
        BY <1>4 DEF Range
      <4>2. m = order[at(i)] /\ at(i) \in DOMAIN order /\ m # n
        BY <4>1, <1>1, <1>5, <1>10
      <4> QED
        BY <4>2 DEF Range
    <3>3. ASSUME NEW m \in Range(order) \ {n} PROVE m \in Range(order)'
      <4>1. PICK i \in 1 .. L : m = order[i]
        BY <1>1 DEF Range
      <4> DEFINE h == IF i < k THEN i ELSE i - 1
      <4>2. i # k
        BY <4>1
      <4>3. h \in 1 .. L - 1 /\ at(h) = i
        BY <4>1, <4>2, <1>1
      <4>4. order'[h] = order[i] /\ h \in DOMAIN order'
        BY <4>3, <1>4, <1>5
      <4> QED
        BY <4>1, <4>4 DEF Range
    <3> QED
      BY <3>1, <3>2, <3>3 DEF ListLinked
  <2>2. ASSUME NEW i \in 1 .. L - 1, NEW j \in 1 .. L - 1, order'[i] = order'[j]
        PROVE  i = j
    <3>1. at(i) = at(j)
      BY <2>2, <1>2, <1>5, <1>10
    <3> QED
      BY <3>1, <1>1
  <2>3. people' = IF order' = <<>> THEN NullPtr ELSE order'[1]
    <3>1. order' = <<>> <=> L = 1
      BY <1>1, <1>4, EmptySeq
    <3>2. people = n <=> k = 1
      BY <1>1, <1>2, <1>7
    <3>3. next[n] = IF k = L THEN NullPtr ELSE order[k + 1]
      BY <1>1, <1>8
    <3>4. ASSUME L # 1 PROVE order'[1] = IF k = 1 THEN order[2] ELSE order[1]
      <4>1. 1 \in 1 .. L - 1
        BY <3>4, <1>1
      <4> QED
        BY <4>1, <1>1, <1>5
    <3> QED
      BY <3>1, <3>2, <3>3, <3>4, <1>1, <1>7, <1>9
  <2>4. next[n] = IF k = L THEN NullPtr ELSE order[k + 1]
    BY <1>1, <1>8
  <2>5. prev[n] = IF k = 1 THEN NullPtr ELSE order[k - 1]
    BY <1>1, <1>8
  <2>6. ASSUME NEW i \in 1 .. L - 1
        PROVE  next'[order'[i]] = IF i = L - 1 THEN NullPtr ELSE order'[i + 1]
    <3> DEFINE h == at(i)
    <3>1. h \in 1 .. L /\ order'[i] = order[h] /\ order[h] # n /\ order[h] \in Nodes
      BY <1>1, <1>5, <1>10
    <3>2. order[h] = prev[n] <=> h + 1 = k
      <4>1. CASE k = 1
        BY <4>1, <3>1, <2>5, <1>1
      <4>2. CASE k # 1
        <5>1. k - 1 \in 1 .. L /\ prev[n] = order[k - 1]
          BY <4>2, <2>5, <1>1
        <5>2. order[h] = order[k - 1] <=> h = k - 1
          BY <5>1, <3>1, <1>2
        <5> QED
          BY <5>1, <5>2, <3>1, <1>1
      <4> QED
        BY <4>1, <4>2
    <3>3. CASE h + 1 = k
      <4>1. i = k - 1 /\ next'[order'[i]] = next[n]
        BY <3>3, <3>1, <3>2, <1>1, <1>9
      <4>2. CASE k = L
        BY <4>1, <4>2, <2>4, <1>1
      <4>3. CASE k # L
        <5>1. i + 1 \in 1 .. L - 1 /\ at(i + 1) = k + 1
          BY <4>1, <4>3, <1>1
        <5>2. order'[i + 1] = order[k + 1]
          BY <5>1, <1>5
        <5> QED
          BY <4>1, <4>3, <5>1, <5>2, <2>4, <1>1
      <4> QED
        BY <4>2, <4>3
    <3>4. CASE h + 1 # k
      <4>1. next'[order'[i]] = next[order[h]]
        BY <3>4, <3>1, <3>2, <1>9
      <4>2. next[order[h]] = IF h = L THEN NullPtr ELSE order[h + 1]
        BY <3>1, <1>8
      <4>3. CASE i = L - 1
        <5>1. h = L
          BY <4>3, <3>4, <1>1
        <5> QED
          BY <4>1, <4>2, <4>3, <5>1
      <4>4. CASE i # L - 1
        <5>1. i + 1 \in 1 .. L - 1 /\ at(i + 1) = h + 1 /\ h # L
          BY <4>4, <3>4, <1>1
        <5>2. order'[i + 1] = order[h + 1]
          BY <5>1, <1>5
        <5> QED
          BY <4>1, <4>2, <4>4, <5>1, <5>2
      <4> QED
        BY <4>3, <4>4
    <3> QED
      BY <3>3, <3>4
  <2>7. ASSUME NEW i \in 1 .. L - 1
        PROVE  prev'[order'[i]] = IF i = 1 THEN NullPtr ELSE order'[i - 1]
    <3> DEFINE h == at(i)
    <3>1. h \in 1 .. L /\ order'[i] = order[h] /\ order[h] # n /\ order[h] \in Nodes
      BY <1>1, <1>5, <1>10
    <3>2. order[h] = next[n] <=> h = k + 1
      <4>1. CASE k = L
        BY <4>1, <3>1, <2>4, <1>1
      <4>2. CASE k # L
        <5>1. k + 1 \in 1 .. L /\ next[n] = order[k + 1]
          BY <4>2, <2>4, <1>1
        <5>2. order[h] = order[k + 1] <=> h = k + 1
          BY <5>1, <3>1, <1>2
        <5> QED
          BY <5>1, <5>2
      <4> QED
        BY <4>1, <4>2
    <3>3. CASE h = k + 1
      <4>1. i = k /\ prev'[order'[i]] = prev[n]
        BY <3>3, <3>1, <3>2, <1>1, <1>9
      <4>2. CASE k = 1
        BY <4>1, <4>2, <2>5
      <4>3. CASE k # 1
        <5>1. i - 1 \in 1 .. L - 1 /\ at(i - 1) = k - 1
          BY <4>1, <4>3, <1>1
        <5>2. order'[i - 1] = order[k - 1]
          BY <5>1, <1>5
        <5> QED
          BY <4>1, <4>3, <5>2, <2>5
      <4> QED
        BY <4>2, <4>3
    <3>4. CASE h # k + 1
      <4>1. prev'[order'[i]] = prev[order[h]]
        BY <3>4, <3>1, <3>2, <1>9
      <4>2. prev[order[h]] = IF h = 1 THEN NullPtr ELSE order[h - 1]
        BY <3>1, <1>8
      <4>3. CASE i = 1
        <5>1. h = 1
          BY <4>3, <3>4, <1>1
        <5> QED
          BY <4>1, <4>2, <4>3, <5>1
      <4>4. CASE i # 1
        <5>1. i - 1 \in 1 .. L - 1 /\ at(i - 1) = h - 1 /\ h # 1
          BY <4>4, <3>4, <1>1
        <5>2. order'[i - 1] = order[h - 1]
          BY <5>1, <1>5
        <5> QED
          BY <4>1, <4>2, <4>4, <5>1, <5>2
      <4> QED
        BY <4>3, <4>4
    <3> QED
      BY <3>3, <3>4
  <2> QED
    BY <2>1, <2>2, <2>3, <2>6, <2>7, <1>4 DEF ListLinked
<1>12. BookOf' = RemoveAt(BookOf, k)
  <2> DEFINE b == BookOf
  <2>1. b \in Seq(Person) /\ Len(b) = L /\ \A i \in 1 .. L : b[i] = person[order[i]]
    BY BookFacts DEF L
  <2>2. /\ BookOf' \in Seq(Person) /\ Len(BookOf') = L - 1
        /\ \A i \in 1 .. L - 1 : BookOf'[i] = person'[order'[i]]
    <3>1. BookOf' = [i \in 1 .. L - 1 |-> person'[order'[i]]]
      BY <1>4 DEF BookOf
    <3>2. ASSUME NEW i \in 1 .. L - 1 PROVE person'[order'[i]] \in Person
      BY <1>1, <1>5, <1>9, <1>10
    <3> QED
      BY <3>1, <3>2, <1>1
  <2> HIDE DEF b
  <2>3. RemoveAt(b, k) \in Seq(Person) /\ Len(RemoveAt(b, k)) = L - 1
    BY <1>1, <2>1, RemoveAtFacts
  <2>4. ASSUME NEW i \in 1 .. L - 1 PROVE BookOf'[i] = RemoveAt(b, k)[i]
    <3>1. RemoveAt(b, k)[i] = b[at(i)]
      BY <1>1, <2>1, RemoveAtFacts
    <3>2. person'[order'[i]] = person[order[at(i)]]
      BY <1>1, <1>5, <1>9, <1>10
    <3> QED
      BY <3>1, <3>2, <2>1, <2>2, <1>10
  <2>5. BookOf' = RemoveAt(b, k)
    BY <2>2, <2>3, <2>4, SeqEqual
  <2> QED
    BY <2>5 DEF b
<1> QED
  BY <1>6, <1>11, <1>12

-----------------------------------------------------------------------------
(* The invariant *)

\* The cursor has passed k nodes.
CursorAt(k) == item = IF k = Len(order) THEN NullPtr ELSE order[k + 1]

\* None of those that person_search has passed has the name.
SearchInv ==
  pc = "search" => \E k \in 0 .. Len(order) :
    CursorAt(k) /\ \A i \in 1 .. k : person[order[i]].name # key

\* Those that save_file has passed are in the file.
SaveInv ==
  pc = "save" => \E k \in 0 .. Len(order) :
    CursorAt(k) /\ Len(disk[file]) = k /\ \A i \in 1 .. k : disk[file][i] = person[order[i]]

IInv == TypeOK /\ ListLinked /\ SearchInv /\ SaveInv

\* What a step has to show: the invariant, and a step of the address book.
StepOK == IInv' /\ [Book!Next]_(Book!vars)

\* The empty list satisfies it.
LEMMA InitInv == Init => IInv /\ Book!Init
<1> SUFFICES ASSUME Init PROVE IInv /\ Book!Init
  OBVIOUS
<1>1. DOMAIN order = {} /\ order \in Seq(Nodes)
  BY DEF Init
<1>2. TypeOK
  BY <1>1 DEF Init, TypeOK, Pointers
<1>3. Range(order) = {} /\ Allocated = {}
  BY <1>1 DEF Init, Range, Allocated
<1>4. ListLinked
  BY <1>1, <1>3 DEF Init, ListLinked
<1>5. [i \in DOMAIN order |-> person[order[i]]] = <<>>
  BY DEF Init
<1>6. Book!Init
  BY <1>5 DEF Init, Book!Init
<1> QED
  BY <1>2, <1>4, <1>6 DEF Init, IInv, SearchInv, SaveInv

\* Steps that leave list, cursor and file alone leave the rest to look at.
LEMMA ListKept ==
  ASSUME ListLinked, UNCHANGED listVars
  PROVE  ListLinked' /\ BookOf' = BookOf
  BY DEF ListLinked, Allocated, Range, listVars, BookOf

\* The cursor at the head has passed nobody.
LEMMA CursorAtHead ==
  ASSUME IInv, UNCHANGED listVars, item' = people
  PROVE  CursorAt(0)' /\ Len(order)' \in Nat
  BY EmptySeq, LenProperties DEF IInv, ListLinked, CursorAt, listVars, TypeOK

\* A cursor that is not null is at the next node.
LEMMA CursorBefore ==
  ASSUME NEW k, CursorAt(k), item # NullPtr
  PROVE  k # Len(order) /\ item = order[k + 1]
<1>1. k # Len(order)
  BY DEF CursorAt
<1> QED
  BY <1>1 DEF CursorAt

\* Counting on from 0 .. l.
LEMMA NextIndex ==
  ASSUME NEW l \in Nat, NEW k \in 0 .. l, k # l
  PROVE  k + 1 \in 1 .. l /\ k + 1 \in 0 .. l /\ k < l
  OBVIOUS

\* The cursor moves on by one node.
LEMMA CursorNext ==
  ASSUME IInv, NEW k \in 0 .. Len(order), CursorAt(k), item # NullPtr,
         UNCHANGED listVars, item' = next[item]
  PROVE  /\ k + 1 \in 0 .. Len(order) /\ k # Len(order) /\ item = order[k + 1]
         /\ CursorAt(k + 1)'
<1>1. Len(order) \in Nat /\ DOMAIN order = 1 .. Len(order)
  BY LenProperties DEF IInv, TypeOK
<1>2. k # Len(order) /\ item = order[k + 1]
  BY CursorBefore
<1>3. k + 1 \in 1 .. Len(order) /\ k + 1 \in 0 .. Len(order)
  BY <1>1, <1>2, NextIndex, Zenon
<1>4. next[item] = IF k + 1 = Len(order) THEN NullPtr ELSE order[k + 1 + 1]
  BY <1>1, <1>2, <1>3 DEF IInv, ListLinked
<1>5. order' = order
  BY DEF listVars
<1>6. CursorAt(k + 1)'
  BY <1>4, <1>5 DEF CursorAt
<1> QED
  BY <1>2, <1>3, <1>6

-----------------------------------------------------------------------------
(* The steps, an action at a time *)

\* A person is added in front.
LEMMA InsertStep == IInv /\ InsertEntry => StepOK
<1> SUFFICES ASSUME IInv, InsertEntry PROVE StepOK
  OBVIOUS
<1>1. PICK n \in Nodes, p \in Person : n \notin Allocated /\ p.labels = 0 /\ ListInsert(n, p)
  BY DEF InsertEntry
<1>2. ListType' /\ ListLinked' /\ BookOf' = Cons(p, BookOf)
  BY <1>1, ListInsertFacts DEF IInv, TypeOK, ListType
<1>3. IInv'
  BY <1>2 DEF IInv, TypeOK, ListType, InsertEntry, SearchInv, SaveInv
<1>4. Book!Add(p)
  BY <1>2 DEF InsertEntry, Book!Add, BookOf, Cons, Book!Cons
<1>5. p \in Book!Person
  BY DEF Person, Book!Person
<1> QED
  BY <1>1, <1>3, <1>4, <1>5 DEF StepOK, Book!Next

\* The search starts: to the book nothing happens.
LEMMA DeleteStep == IInv /\ DeleteEntry => StepOK
<1> SUFFICES ASSUME IInv, DeleteEntry PROVE StepOK
  OBVIOUS
<1>1. ListLinked' /\ BookOf' = BookOf
  BY ListKept DEF IInv, DeleteEntry
<1>2. CursorAt(0)' /\ Len(order)' \in Nat
  BY CursorAtHead DEF DeleteEntry
<1>3. SearchInv'
  BY <1>2 DEF SearchInv
<1>4. TypeOK'
  BY DEF IInv, TypeOK, DeleteEntry, listVars, Pointers
<1>5. IInv'
  BY <1>1, <1>3, <1>4 DEF IInv, SaveInv, DeleteEntry
<1>6. UNCHANGED Book!vars
  BY <1>1 DEF BookOf, Book!vars, DeleteEntry
<1> QED
  BY <1>5, <1>6 DEF StepOK

\* The search goes on.
LEMMA SearchStep == IInv /\ SearchNext => StepOK
<1> SUFFICES ASSUME IInv, SearchNext PROVE StepOK
  OBVIOUS
<1>1. ListLinked' /\ BookOf' = BookOf
  BY ListKept DEF IInv, SearchNext
<1>2. PICK k \in 0 .. Len(order) :
        CursorAt(k) /\ \A i \in 1 .. k : person[order[i]].name # key
  BY DEF IInv, SearchInv, SearchNext
<1>3. /\ k + 1 \in 0 .. Len(order) /\ k # Len(order) /\ item = order[k + 1]
      /\ CursorAt(k + 1)'
  BY <1>2, CursorNext DEF SearchNext
<1>4. ASSUME NEW i \in 1 .. k + 1 PROVE person[order[i]].name # key
  <2>1. Len(order) \in Nat
    BY LenProperties DEF IInv, TypeOK
  <2>2. i \in 1 .. k \/ i = k + 1
    BY <1>2, <2>1
  <2>3. person[item].name # key /\ order[k + 1] = item
    BY <1>3 DEF SearchNext
  <2>4. CASE i \in 1 .. k
    BY <1>2, <2>4
  <2>5. CASE i = k + 1
    BY <2>3, <2>5
  <2> QED
    BY <2>2, <2>4, <2>5
<1>5. SearchInv'
  BY <1>3, <1>4 DEF SearchInv, SearchNext, listVars
<1>6. TypeOK'
  BY DEF IInv, TypeOK, SearchNext, listVars, Pointers
<1>7. IInv'
  BY <1>1, <1>5, <1>6 DEF IInv, SaveInv, SearchNext
<1>8. UNCHANGED Book!vars
  BY <1>1 DEF BookOf, Book!vars, SearchNext
<1> QED
  BY <1>7, <1>8 DEF StepOK

\* The search ends without a result.
LEMMA NotFoundStep == IInv /\ NotFound => StepOK
<1> SUFFICES ASSUME IInv, NotFound PROVE StepOK
  OBVIOUS
<1>1. ListLinked' /\ BookOf' = BookOf
  BY ListKept DEF IInv, NotFound
<1>2. TypeOK'
  BY DEF IInv, TypeOK, NotFound, listVars
<1>3. IInv'
  BY <1>1, <1>2 DEF IInv, SearchInv, SaveInv, NotFound
<1>4. UNCHANGED Book!vars
  BY <1>1 DEF BookOf, Book!vars, NotFound
<1> QED
  BY <1>3, <1>4 DEF StepOK

\* The first person of that name is deleted.
LEMMA FoundStep == IInv /\ Found => StepOK
<1> SUFFICES ASSUME IInv, Found PROVE StepOK
  OBVIOUS
<1>1. PICK k \in 0 .. Len(order) :
        CursorAt(k) /\ \A i \in 1 .. k : person[order[i]].name # key
  BY DEF IInv, SearchInv, Found
<1>2. Len(order) \in Nat /\ DOMAIN order = 1 .. Len(order) /\ item \in Nodes
  BY LenProperties DEF IInv, TypeOK, Found, Pointers
<1>3. k + 1 \in 1 .. Len(order) /\ item = order[k + 1]
  <2>1. k # Len(order) /\ item = order[k + 1]
    BY <1>1, CursorBefore DEF Found
  <2> QED
    BY <1>2, <2>1, NextIndex
<1>4. ListType' /\ ListLinked' /\ BookOf' = RemoveAt(BookOf, k + 1)
  BY <1>2, <1>3, ListRemoveFacts DEF IInv, TypeOK, ListType, Found
<1>5. IInv'
  BY <1>4 DEF IInv, TypeOK, ListType, Found, SearchInv, SaveInv, Pointers
<1>6. /\ DOMAIN BookOf = 1 .. Len(order)
      /\ \A i \in 1 .. Len(order) : BookOf[i] = person[order[i]]
  BY <1>2 DEF BookOf
<1>7. ASSUME NEW j \in 1 .. (k + 1) - 1 PROVE BookOf[j].name # BookOf[k + 1].name
  <2>1. j \in 1 .. k /\ j \in 1 .. Len(order)
    BY <1>2, <1>3
  <2>2. BookOf[j].name # key
    BY <1>1, <1>6, <2>1
  <2>3. BookOf[k + 1].name = key
    BY <1>3, <1>6 DEF Found
  <2> QED
    BY <2>2, <2>3
<1>8. Book!Delete(k + 1) /\ k + 1 \in DOMAIN BookOf
  BY <1>3, <1>4, <1>6, <1>7 DEF Book!Delete, BookOf, Found, RemoveAt, Book!RemoveAt
<1> QED
  BY <1>5, <1>8 DEF StepOK, Book!Next, BookOf

\* The file is emptied.
LEMMA SaveStep == IInv /\ SaveEntry => StepOK
<1> SUFFICES ASSUME IInv, SaveEntry PROVE StepOK
  OBVIOUS
<1>1. ListLinked' /\ BookOf' = BookOf
  BY ListKept DEF IInv, SaveEntry
<1>2. CursorAt(0)' /\ Len(order)' \in Nat
  BY CursorAtHead DEF SaveEntry
<1>3. TypeOK'
  BY DEF IInv, TypeOK, SaveEntry, listVars, Pointers
<1>4. disk'[file'] = <<>>
  BY DEF IInv, TypeOK, SaveEntry
<1>5. SaveInv'
  BY <1>2, <1>4 DEF SaveInv
<1>6. IInv'
  BY <1>1, <1>3, <1>5 DEF IInv, SearchInv, SaveEntry
<1>7. Book!BeginSave(file') /\ file' \in Files
  BY <1>1 DEF BookOf, Book!BeginSave, SaveEntry
<1> QED
  BY <1>6, <1>7 DEF StepOK, Book!Next

\* One more person is in the file.
LEMMA SaveLineStep == IInv /\ SaveNext => StepOK
<1> SUFFICES ASSUME IInv, SaveNext PROVE StepOK
  OBVIOUS
<1> DEFINE old == disk[file]
<1>1. ListLinked' /\ BookOf' = BookOf
  BY ListKept DEF IInv, SaveNext
<1>2. PICK k \in 0 .. Len(order) :
        CursorAt(k) /\ Len(old) = k /\ \A i \in 1 .. k : old[i] = person[order[i]]
  BY DEF IInv, SaveInv, SaveNext
<1>3. /\ k + 1 \in 0 .. Len(order) /\ k # Len(order) /\ item = order[k + 1]
      /\ CursorAt(k + 1)'
  BY <1>2, CursorNext DEF SaveNext
<1>4. /\ Len(order) \in Nat /\ DOMAIN order = 1 .. Len(order)
      /\ \A i \in 1 .. Len(order) : person[order[i]] \in Person
      /\ Len(BookOf) = Len(order)
      /\ \A i \in 1 .. Len(order) : BookOf[i] = person[order[i]]
  BY BookFacts DEF IInv, TypeOK, ListType
<1>5. old \in Seq(Person) /\ person[item] \in Person /\ k + 1 \in 1 .. Len(order)
  <2>1. k + 1 \in 1 .. Len(order)
    BY <1>3, <1>4, NextIndex
  <2>2. person[item] \in Person
    BY <1>3, <1>4, <2>1
  <2> QED
    BY <2>1, <2>2 DEF IInv, TypeOK
<1>6. disk' = [disk EXCEPT ![file] = Append(old, person[item])] /\ disk'[file] = Append(old, person[item])
  BY DEF SaveNext, IInv, TypeOK
<1> HIDE DEF old
<1>7. /\ Append(old, person[item]) \in Seq(Person) /\ Len(Append(old, person[item])) = k + 1
      /\ \A i \in 1 .. k : Append(old, person[item])[i] = old[i]
      /\ Append(old, person[item])[k + 1] = person[item]
  BY <1>2, <1>5, AppendProperties
<1>8. TypeOK'
  BY <1>6, <1>7 DEF IInv, TypeOK, SaveNext, listVars, Pointers
<1>9. ASSUME NEW i \in 1 .. k + 1 PROVE disk'[file][i] = person[order[i]]
  <2>1. CASE i = k + 1
    BY <2>1, <1>3, <1>6, <1>7
  <2>2. CASE i # k + 1
    <3>1. i \in 1 .. k
      BY <2>2, <1>5
    <3> QED
      BY <3>1, <1>2, <1>6, <1>7
  <2> QED
    BY <2>1, <2>2
<1>10. Len(disk'[file]) = k + 1
  BY <1>6, <1>7
<1>11. SaveInv'
  BY <1>3, <1>9, <1>10 DEF SaveInv, SaveNext, listVars
<1>12. IInv'
  BY <1>1, <1>8, <1>11 DEF IInv, SearchInv, SaveNext
<1>13. disk' = [disk EXCEPT ![file] = Append(@, BookOf[Len(@) + 1])] /\ Len(disk[file]) < Len(BookOf)
  <2>1. Len(disk[file]) = k
    BY <1>2 DEF old
  <2>2. k < Len(order)
    BY <1>3, <1>4, NextIndex
  <2>3. k < Len(BookOf)
    BY <1>4, <2>2
  <2>4. BookOf[k + 1] = person[item]
    BY <1>3, <1>4, <1>5
  <2> QED
    BY <2>1, <2>3, <2>4, <1>6 DEF old
<1>14. Book!SaveLine
  BY <1>1, <1>13 DEF BookOf, Book!SaveLine, SaveNext
<1> QED
  BY <1>12, <1>14 DEF StepOK, Book!Next

\* At the end of the list the file holds the book.
LEMMA SaveDoneStep == IInv /\ SaveDone => StepOK
<1> SUFFICES ASSUME IInv, SaveDone PROVE StepOK
  OBVIOUS
<1> DEFINE d == disk[file]
<1>1. ListLinked' /\ BookOf' = BookOf
  BY ListKept DEF IInv, SaveDone
<1>2. TypeOK'
  BY DEF IInv, TypeOK, SaveDone, listVars
<1>3. IInv'
  BY <1>1, <1>2 DEF IInv, SearchInv, SaveInv, SaveDone
<1>4. PICK k \in 0 .. Len(order) :
        CursorAt(k) /\ Len(d) = k /\ \A i \in 1 .. k : d[i] = person[order[i]]
  BY DEF IInv, SaveInv, SaveDone
<1>5. /\ Len(order) \in Nat
      /\ \A i \in 1 .. Len(order) : order[i] \in Nodes
      /\ BookOf \in Seq(Person) /\ Len(BookOf) = Len(order)
      /\ \A i \in 1 .. Len(order) : BookOf[i] = person[order[i]]
  BY BookFacts DEF IInv, TypeOK, ListType, Allocated
<1>6. k = Len(order)
  BY <1>4, <1>5, NodesAssumption DEF CursorAt, SaveDone
<1>7. d \in Seq(Person)
  BY DEF IInv, TypeOK
<1>8. d = BookOf
  BY <1>4, <1>5, <1>6, <1>7, SeqEqual
<1>9. Book!EndSave
  BY <1>1, <1>8 DEF BookOf, Book!EndSave, SaveDone
<1> QED
  BY <1>3, <1>9 DEF StepOK, Book!Next

\* The file is read from its first line.
LEMMA LoadStep == IInv /\ LoadEntry => StepOK
<1> SUFFICES ASSUME IInv, LoadEntry PROVE StepOK
  OBVIOUS
<1>1. ListLinked' /\ BookOf' = BookOf
  BY ListKept DEF IInv, LoadEntry
<1>2. TypeOK'
  BY DEF IInv, TypeOK, LoadEntry, listVars
<1>3. IInv'
  BY <1>1, <1>2 DEF IInv, SearchInv, SaveInv, LoadEntry
<1>4. Book!BeginLoad(file') /\ file' \in Files
  BY <1>1 DEF BookOf, Book!BeginLoad, LoadEntry
<1> QED
  BY <1>3, <1>4 DEF StepOK, Book!Next

\* The person in the line is added in front.
LEMMA LoadLineStep == IInv /\ LoadNext => StepOK
<1> SUFFICES ASSUME IInv, LoadNext PROVE StepOK
  OBVIOUS
<1> DEFINE r == disk[file][line + 1]
           p == ParserToken(r)
<1>1. line \in Nat /\ disk[file] \in Seq(Person) /\ line < Len(disk[file]) /\ r.labels < MaxLabels
  BY DEF IInv, TypeOK, LoadNext
<1>2. line + 1 \in 1 .. Len(disk[file])
  BY <1>1, LenProperties
<1>3. r \in Person
  BY <1>1, <1>2, ElementOfSeq
<1>4. p \in Person
  BY <1>1, <1>3, NamesAssumption DEF Person, ParserToken
<1>5. PICK n \in Nodes : n \notin Allocated /\ ListInsert(n, p)
  BY DEF LoadNext
<1> HIDE DEF p
<1>6. ListType' /\ ListLinked' /\ BookOf' = Cons(p, BookOf)
  BY <1>4, <1>5, ListInsertFacts DEF IInv, TypeOK, ListType
<1>7. IInv'
  BY <1>6 DEF IInv, TypeOK, ListType, LoadNext, SearchInv, SaveInv
<1>8. p = Book!ReadBack(r)
  BY DEF p, ParserToken, Book!ReadBack
<1>9. Book!LoadLine
  BY <1>1, <1>6, <1>8 DEF BookOf, Book!LoadLine, LoadNext, Cons, Book!Cons
<1> QED
  BY <1>7, <1>9 DEF StepOK, Book!Next

\* Nothing is added by a file that cannot be read.
LEMMA LoadFailsStep == IInv /\ LoadFails => StepOK
<1> SUFFICES ASSUME IInv, LoadFails PROVE StepOK
  OBVIOUS
<1>1. ListLinked' /\ BookOf' = BookOf
  BY ListKept DEF IInv, LoadFails
<1>2. TypeOK'
  BY DEF IInv, TypeOK, LoadFails, listVars
<1>3. IInv'
  BY <1>1, <1>2 DEF IInv, SearchInv, SaveInv, LoadFails
<1>4. UNCHANGED Book!vars
  BY <1>1 DEF BookOf, Book!vars, LoadFails
<1> QED
  BY <1>3, <1>4 DEF StepOK

\* Loading ends, at the end of the file or early.
LEMMA LoadDoneStep == IInv /\ LoadDone => StepOK
<1> SUFFICES ASSUME IInv, LoadDone PROVE StepOK
  OBVIOUS
<1>1. ListLinked' /\ BookOf' = BookOf
  BY ListKept DEF IInv, LoadDone
<1>2. TypeOK'
  BY DEF IInv, TypeOK, LoadDone, listVars
<1>3. IInv'
  BY <1>1, <1>2 DEF IInv, SearchInv, SaveInv, LoadDone
<1>4. Book!EndLoad
  BY <1>1 DEF BookOf, Book!EndLoad, LoadDone
<1> QED
  BY <1>3, <1>4 DEF StepOK, Book!Next

\* The process ends: the list is empty again.
LEMMA ExitStep == IInv /\ Stop => StepOK
<1> SUFFICES ASSUME IInv, Stop PROVE StepOK
  OBVIOUS
<1>1. DOMAIN order' = {} /\ order' \in Seq(Nodes) /\ order' = <<>>
  BY DEF Stop, Exit
<1>2. TypeOK'
  BY <1>1 DEF IInv, TypeOK, Stop, Exit, Pointers
<1>3. Range(order)' = {} /\ Allocated' = {}
  BY <1>1 DEF Stop, Exit, Range, Allocated
<1>4. ListLinked'
  BY <1>1, <1>3 DEF Stop, Exit, ListLinked
<1>5. IInv'
  BY <1>2, <1>4 DEF IInv, SearchInv, SaveInv, Stop, Exit
<1>6. BookOf' = <<>>
  BY <1>1 DEF BookOf
<1>7. Book!Stop
  BY <1>6 DEF BookOf, Book!Stop, Stop, Exit
<1> QED
  BY <1>5, <1>7 DEF StepOK, Book!Next

\* The program starts with an empty book.
LEMMA StartStep == IInv /\ Start => StepOK
<1> SUFFICES ASSUME IInv, Start PROVE StepOK
  OBVIOUS
<1>1. ListLinked' /\ BookOf' = BookOf
  BY ListKept DEF IInv, Start
<1>2. TypeOK'
  BY DEF IInv, TypeOK, Start, listVars
<1>3. IInv'
  BY <1>1, <1>2 DEF IInv, SearchInv, SaveInv, Start
<1>4. Book!Start
  BY <1>1 DEF BookOf, Book!Start, Start
<1> QED
  BY <1>3, <1>4 DEF StepOK, Book!Next

\* All steps together.
LEMMA NextStep == IInv /\ [Next]_vars => StepOK
<1> SUFFICES ASSUME IInv, [Next]_vars PROVE StepOK
  OBVIOUS
<1>1. CASE LoadOverrun
  BY <1>1, ExitStep DEF LoadOverrun, Stop
<1>2. CASE UNCHANGED vars
  <2>1. ListLinked' /\ BookOf' = BookOf
    BY <1>2, ListKept DEF IInv, vars
  <2>2. IInv'
    BY <1>2, <2>1 DEF IInv, TypeOK, SearchInv, SaveInv, CursorAt, vars, listVars
  <2>3. UNCHANGED Book!vars
    BY <1>2, <2>1 DEF BookOf, Book!vars, vars
  <2> QED
    BY <2>2, <2>3 DEF StepOK
<1> QED
  BY <1>1, <1>2, InsertStep, DeleteStep, SearchStep, NotFoundStep, FoundStep, SaveStep,
     SaveLineStep, SaveDoneStep, LoadStep, LoadLineStep, LoadFailsStep, LoadDoneStep, ExitStep, StartStep
     DEF Next, LoopStep

\* IInv is an invariant of the program.
THEOREM Invariance == Spec => []IInv
<1>1. IInv /\ [Next]_vars => IInv'
  BY NextStep DEF StepOK
<1> QED
  BY <1>1, InitInv, PTL DEF Spec

\* Types, for any memory, names, numbers and files.
THEOREM TypeCorrect == Spec => []TypeOK
BY Invariance, PTL DEF IInv

\* The list is one list, whatever has been inserted and removed.
THEOREM ListLinkedHolds == Spec => []ListLinked
BY Invariance, PTL DEF IInv

\* The program is an address book.
THEOREM ImplementsHolds == Spec => Implements
<1>1. IInv /\ [Next]_vars => [Book!Next]_(Book!vars)
  BY NextStep DEF StepOK
<1> QED
  BY <1>1, InitInv, Invariance, PTL DEF Spec, Implements, Book!Spec
=============================================================================
