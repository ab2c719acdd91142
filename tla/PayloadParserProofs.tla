---- MODULE PayloadParserProofs ----
(* For any payload: the parser's loops find what Reference says by position,   *)
(* each supported message once, in order, with its own change's last name.     *)
EXTENDS PayloadParser, FiniteSetTheorems, WellFoundedInduction, TLAPS

-----------------------------------------------------------------------------
(* Induction over numbers, with a set for the predicate.                       *)

\* A set that has 0, and n + 1 whenever it has n, has all numbers up to any one.
LEMMA UpTo ==
    ASSUME NEW last \in Nat, NEW S, 0 \in S,
           \A n \in 0 .. last - 1 : n \in S => n + 1 \in S
    PROVE  \A n \in 0 .. last : n \in S
<1> DEFINE Out == {n \in 0 .. last : n \notin S}
<1> SUFFICES ASSUME Out # {} PROVE FALSE
  OBVIOUS
<1>1. Out \subseteq Nat
  OBVIOUS
<1>2. IsWellFoundedOn(OpToRel(<, Nat), Nat)
  BY NatLessThanWellFounded
<1>3. PICK n \in Out : \A m \in Out : <<m, n>> \notin OpToRel(<, Nat)
  BY <1>1, <1>2, WFMin
<1>4. \A m \in Out : ~(m < n)
  BY <1>1, <1>3 DEF OpToRel
<1>5. n # 0 /\ n - 1 \in 0 .. last - 1 /\ n - 1 \notin Out
  BY <1>4
<1> QED BY <1>5

-----------------------------------------------------------------------------
(* FlattenSeq is what its rounds add, one after the other.                     *)

\* The lists there are after each round.
Flattening(seqs, flat) ==
    /\ flat[0] = <<>>
    /\ \A n \in 1 .. Len(seqs) : flat[n] = flat[n - 1] \o seqs[n]

LEMMA FlattenRounds ==
    ASSUME NEW A, NEW seqs \in Seq(Seq(A))
    PROVE  \E flat \in [0 .. Len(seqs) -> Seq(A)] :
             Flattening(seqs, flat) /\ FlattenSeq(seqs) = flat[Len(seqs)]
<1> DEFINE last == Len(seqs)
           Rounds(f, n) == f[0] = <<>> /\ \A i \in 1 .. n : f[i] = f[i - 1] \o seqs[i]
           Ready == {n \in 0 .. last : \E f \in [0 .. n -> Seq(A)] : Rounds(f, n)}
<1>1. last \in Nat /\ \A i \in 1 .. last : seqs[i] \in Seq(A)
  OBVIOUS
<1>2. PICK flat \in [0 .. last -> Seq(A)] : Rounds(flat, last)
  <2>1. 0 \in Ready
    <3> DEFINE f == [i \in 0 .. 0 |-> <<>>]
    <3>1. f \in [0 .. 0 -> Seq(A)] /\ Rounds(f, 0)
      OBVIOUS
    <3>2. 0 \in 0 .. last
      BY <1>1
    <3> HIDE DEF f, Rounds
    <3> QED BY <3>1, <3>2
  <2>2. ASSUME NEW n \in 0 .. last - 1, n \in Ready PROVE n + 1 \in Ready
    <3>1. PICK f \in [0 .. n -> Seq(A)] : Rounds(f, n)
      BY <2>2
    <3> DEFINE g == [i \in 0 .. n + 1 |-> IF i = n + 1 THEN f[n] \o seqs[n + 1] ELSE f[i]]
    <3>2. n \in Nat /\ n + 1 \in 1 .. last /\ f[n] \o seqs[n + 1] \in Seq(A)
      BY <1>1
    <3>3. g \in [0 .. n + 1 -> Seq(A)]
      BY <3>2
    <3>4. g[n + 1] = f[n] \o seqs[n + 1] /\ \A i \in 0 .. n : g[i] = f[i]
      BY <3>2
    <3> HIDE DEF g
    <3>5. Rounds(g, n + 1)
      <4>1. g[0] = <<>>
        BY <3>1, <3>2, <3>4
      <4>2. ASSUME NEW i \in 1 .. n + 1 PROVE g[i] = g[i - 1] \o seqs[i]
        <5>1. CASE i = n + 1
          <6>1. i - 1 = n /\ n \in 0 .. n
            BY <3>2, <5>1
          <6> QED BY <3>4, <5>1, <6>1
        <5>2. CASE i \in 1 .. n
          <6>1. i \in 0 .. n /\ i - 1 \in 0 .. n
            BY <3>2, <5>2
          <6> QED BY <3>1, <3>4, <5>2, <6>1
        <5>3. i = n + 1 \/ i \in 1 .. n
          BY <3>2
        <5> QED BY <5>1, <5>2, <5>3
      <4> QED BY <4>1, <4>2
    <3>6. n + 1 \in 0 .. last
      BY <3>2
    <3> HIDE DEF Rounds
    <3> QED BY <3>3, <3>5, <3>6
  <2> HIDE DEF Ready
  <2>3. last \in Ready
    <3>1. \A n \in 0 .. last : n \in Ready
      BY <1>1, <2>1, <2>2, UpTo
    <3> QED BY <1>1, <3>1
  <2> QED BY <2>3 DEF Ready
<1>3. Flattening(seqs, flat)
  BY <1>2 DEF Flattening
<1>4. CASE last = 0
  <2>1. seqs = <<>> /\ FlattenSeq(seqs) = seqs
    BY <1>4 DEF FlattenSeq
  <2> QED BY <1>2, <1>3, <1>4, <2>1
<1>5. CASE last # 0
  <2> DEFINE Eq(f) == f = [i \in 1 .. last |-> IF i = 1 THEN seqs[i] ELSE f[i - 1] \o seqs[i]]
             flatten == CHOOSE f : Eq(f)
  <2>1. FlattenSeq(seqs) = flatten[last]
    BY <1>5 DEF FlattenSeq
  <2>2. Eq([i \in 1 .. last |-> flat[i]])
    <3> DEFINE h == [i \in 1 .. last |-> flat[i]]
    <3>1. ASSUME NEW i \in 1 .. last
          PROVE  h[i] = IF i = 1 THEN seqs[i] ELSE h[i - 1] \o seqs[i]
      <4>1. CASE i = 1
        <5>1. flat[1] = flat[0] \o seqs[1] /\ flat[0] = <<>> /\ seqs[1] \in Seq(A)
          <6>1. 1 \in 1 .. last /\ 1 - 1 = 0
            BY <4>1
          <6> QED BY <1>1, <1>2, <6>1
        <5> QED BY <4>1, <5>1
      <4>2. CASE i # 1
        <5>1. i - 1 \in 1 .. last
          BY <1>1, <4>2
        <5>2. flat[i] = flat[i - 1] \o seqs[i]
          BY <1>2
        <5> QED BY <4>2, <5>1, <5>2
      <4> QED BY <4>1, <4>2
    <3> QED BY <3>1
  <2>3. Eq(flatten)
    <3> HIDE DEF Eq
    <3> QED BY <2>2
  <2> HIDE DEF flatten
  <2> DEFINE Same == {n \in 0 .. last : n = 0 \/ flatten[n] = flat[n]}
  <2>4. ASSUME NEW n \in 0 .. last - 1, n \in Same PROVE n + 1 \in Same
    <3>1. n + 1 \in 1 .. last /\ n + 1 \in 0 .. last /\ (n + 1) - 1 = n
      BY <1>1
    <3>2. flatten[n + 1] = IF n + 1 = 1 THEN seqs[n + 1] ELSE flatten[n] \o seqs[n + 1]
      BY <2>3, <3>1
    <3>3. flat[n + 1] = flat[n] \o seqs[n + 1]
      BY <1>2, <3>1
    <3>4. CASE n = 0
      <4>1. flat[0] = <<>> /\ seqs[1] \in Seq(A)
        BY <1>1, <1>2, <3>1, <3>4
      <4> QED BY <3>1, <3>2, <3>3, <3>4, <4>1
    <3>5. CASE n # 0
      <4>1. flatten[n] = flat[n] /\ n + 1 # 1
        BY <2>4, <3>5
      <4>2. flatten[n + 1] = flat[n + 1]
        BY <3>2, <3>3, <4>1
      <4> QED BY <3>1, <4>2
    <3> QED BY <3>4, <3>5
  <2>5. last \in Same
    <3>1. 0 \in Same
      BY <1>1
    <3> HIDE DEF Same
    <3>2. \A n \in 0 .. last : n \in Same
      BY <1>1, <2>4, <3>1, UpTo
    <3> QED BY <1>1, <3>2
  <2> QED BY <1>3, <1>5, <2>1, <2>5
<1> QED BY <1>4, <1>5

-----------------------------------------------------------------------------
(* Lists that read some positions of a payload, in order.                      *)

\* list is what is read at the positions in P, at each once, in their order.
Reads(list, payload, P) ==
    \E order \in [1 .. Len(list) -> P] :
      /\ \A m, n \in 1 .. Len(list) : m < n => InOrder(order[m], order[n])
      /\ \A p \in P : \E n \in 1 .. Len(list) : order[n] = p
      /\ \A n \in 1 .. Len(list) : list[n] = ReadAt(payload, order[n])

Ahead(P, Q) == \A p \in P, q \in Q : InOrder(p, q)

LEMMA ReadsNone ==
    ASSUME NEW payload PROVE Reads(<<>>, payload, {})
<1> DEFINE order == [n \in 1 .. 0 |-> 0]
<1>1. order \in [1 .. 0 -> {}] /\ Len(<<>>) = 0
  OBVIOUS
<1> QED BY <1>1 DEF Reads

LEMMA ReadsOne ==
    ASSUME NEW payload, NEW p PROVE Reads(<<ReadAt(payload, p)>>, payload, {p})
<1> DEFINE list == <<ReadAt(payload, p)>>
           order == [n \in 1 .. 1 |-> p]
<1>1. Len(list) = 1 /\ list[1] = ReadAt(payload, p)
  OBVIOUS
<1>2. order \in [1 .. 1 -> {p}] /\ order[1] = p
  OBVIOUS
<1> HIDE DEF list, order
<1>3. /\ \A m, n \in 1 .. 1 : m < n => InOrder(order[m], order[n])
      /\ \A q \in {p} : \E n \in 1 .. 1 : order[n] = q
      /\ \A n \in 1 .. 1 : list[n] = ReadAt(payload, order[n])
  BY <1>1, <1>2
<1>4. Reads(list, payload, {p})
  BY <1>1, <1>2, <1>3 DEF Reads
<1> QED BY <1>4 DEF list

\* A list behind another reads the positions of both.
LEMMA ReadsBoth ==
    ASSUME NEW A, NEW one \in Seq(A), NEW two \in Seq(A), NEW payload, NEW P, NEW Q,
           Reads(one, payload, P), Reads(two, payload, Q), Ahead(P, Q)
    PROVE  Reads(one \o two, payload, P \cup Q)
<1> DEFINE a == Len(one)
           b == Len(two)
           both == one \o two
<1>1. PICK o \in [1 .. a -> P] :
        /\ \A m, n \in 1 .. a : m < n => InOrder(o[m], o[n])
        /\ \A p \in P : \E n \in 1 .. a : o[n] = p
        /\ \A n \in 1 .. a : one[n] = ReadAt(payload, o[n])
  BY DEF Reads
<1>2. PICK t \in [1 .. b -> Q] :
        /\ \A m, n \in 1 .. b : m < n => InOrder(t[m], t[n])
        /\ \A q \in Q : \E n \in 1 .. b : t[n] = q
        /\ \A n \in 1 .. b : two[n] = ReadAt(payload, t[n])
  BY DEF Reads
<1>3. /\ a \in Nat /\ b \in Nat /\ Len(both) = a + b
      /\ \A n \in 1 .. a + b : both[n] = IF n <= a THEN one[n] ELSE two[n - a]
  OBVIOUS
<1> DEFINE order == [n \in 1 .. a + b |-> IF n <= a THEN o[n] ELSE t[n - a]]
<1>4. /\ \A n \in 1 .. a : n \in 1 .. a + b /\ order[n] = o[n]
      /\ \A n \in 1 .. b : n + a \in 1 .. a + b /\ order[n + a] = t[n]
  BY <1>3
<1>5. \A n \in 1 .. a + b : n \in 1 .. a \/ (n - a \in 1 .. b /\ (n - a) + a = n /\ ~(n <= a))
  BY <1>3
<1> HIDE DEF order, both, a, b
<1>6. order \in [1 .. a + b -> P \cup Q]
  <2>1. \A n \in 1 .. a + b : order[n] \in P \cup Q
    BY <1>1, <1>2, <1>4, <1>5
  <2> QED BY <2>1 DEF order
<1>7. ASSUME NEW m \in 1 .. a + b, NEW n \in 1 .. a + b, m < n
      PROVE  InOrder(order[m], order[n])
  <2>1. CASE m \in 1 .. a /\ n \in 1 .. a
    BY <1>1, <1>4, <1>7, <2>1
  <2>2. CASE m \in 1 .. a /\ n - a \in 1 .. b
    <3>1. (n - a) + a = n
      BY <1>3
    <3>2. order[m] \in P /\ order[n] \in Q
      BY <1>1, <1>2, <1>4, <2>2, <3>1
    <3> QED BY <3>2 DEF Ahead
  <2>3. CASE m - a \in 1 .. b /\ n - a \in 1 .. b
    <3>1. order[m] = t[m - a] /\ order[n] = t[n - a] /\ m - a < n - a
      BY <1>3, <1>4, <1>7, <2>3
    <3> QED BY <1>2, <2>3, <3>1
  <2>4. CASE m - a \in 1 .. b /\ n \in 1 .. a
    BY <1>3, <1>7, <2>4
  <2> QED BY <1>5, <2>1, <2>2, <2>3, <2>4
<1>8. \A p \in P \cup Q : \E n \in 1 .. a + b : order[n] = p
  BY <1>1, <1>2, <1>4
<1>9. ASSUME NEW n \in 1 .. a + b PROVE both[n] = ReadAt(payload, order[n])
  <2>1. CASE n \in 1 .. a
    BY <1>1, <1>3, <1>4, <2>1
  <2>2. CASE n - a \in 1 .. b /\ (n - a) + a = n /\ ~(n <= a)
    <3>1. both[n] = two[n - a] /\ order[n] = t[n - a]
      BY <1>3, <1>4, <1>9, <2>2
    <3> QED BY <1>2, <2>2, <3>1
  <2> QED BY <1>5, <2>1, <2>2
<1>10. Reads(both, payload, P \cup Q)
  <2>1. /\ order \in [1 .. Len(both) -> P \cup Q]
        /\ \A m, n \in 1 .. Len(both) : m < n => InOrder(order[m], order[n])
        /\ \A p \in P \cup Q : \E n \in 1 .. Len(both) : order[n] = p
        /\ \A n \in 1 .. Len(both) : both[n] = ReadAt(payload, order[n])
    BY <1>3, <1>6, <1>7, <1>8, <1>9
  <2> QED BY <2>1, Zenon DEF Reads
<1> QED BY <1>10 DEF both

\* So does a flattened list.
LEMMA FlattenReads ==
    ASSUME NEW A, NEW seqs \in Seq(Seq(A)), NEW payload, NEW Part,
           \A i \in 1 .. Len(seqs) : Reads(seqs[i], payload, Part[i]),
           \A i, j \in 1 .. Len(seqs) : i < j => Ahead(Part[i], Part[j]),
           NEW P, \A p : p \in P <=> \E i \in 1 .. Len(seqs) : p \in Part[i]
    PROVE  FlattenSeq(seqs) \in Seq(A) /\ Reads(FlattenSeq(seqs), payload, P)
<1> DEFINE last == Len(seqs)
           First(n) == UNION {Part[i] : i \in 1 .. n}
<1>1. PICK flat \in [0 .. last -> Seq(A)] :
        Flattening(seqs, flat) /\ FlattenSeq(seqs) = flat[last]
  BY FlattenRounds
<1>2. last \in Nat /\ \A i \in 1 .. last : seqs[i] \in Seq(A)
  OBVIOUS
<1> DEFINE S == {n \in 0 .. last : Reads(flat[n], payload, First(n))}
<1>3. 0 \in S
  <2>1. First(0) = {} /\ flat[0] = <<>> /\ 0 \in 0 .. last
    BY <1>1, <1>2 DEF Flattening
  <2>2. Reads(flat[0], payload, First(0))
    BY <2>1, ReadsNone
  <2> QED BY <2>1, <2>2
<1>4. ASSUME NEW n \in 0 .. last - 1, n \in S PROVE n + 1 \in S
  <2>1. /\ n \in Nat /\ n + 1 \in 1 .. last /\ n + 1 \in 0 .. last /\ n \in 0 .. last
        /\ (n + 1) - 1 = n
    BY <1>2
  <2>2. flat[n + 1] = flat[n] \o seqs[n + 1]
    BY <1>1, <2>1 DEF Flattening
  <2>3. First(n + 1) = First(n) \cup Part[n + 1]
    <3>1. 1 .. n + 1 = (1 .. n) \cup {n + 1}
      BY <2>1
    <3> QED BY <3>1
  <2>4. Ahead(First(n), Part[n + 1])
    <3>1. \A i \in 1 .. n : i \in 1 .. last /\ i < n + 1
      BY <1>2, <2>1
    <3>2. \A i \in 1 .. n : Ahead(Part[i], Part[n + 1])
      BY <2>1, <3>1
    <3> QED BY <3>2 DEF Ahead
  <2>5. Reads(flat[n], payload, First(n))
    BY <1>4
  <2>6. Reads(seqs[n + 1], payload, Part[n + 1])
    BY <2>1
  <2>7. flat[n] \in Seq(A) /\ seqs[n + 1] \in Seq(A)
    BY <1>2, <2>1
  <2> HIDE DEF First
  <2>8. Reads(flat[n] \o seqs[n + 1], payload, First(n) \cup Part[n + 1])
    BY <2>4, <2>5, <2>6, <2>7, ReadsBoth
  <2> QED BY <2>1, <2>2, <2>3, <2>8
<1> HIDE DEF S
<1>5. \A n \in 0 .. last : n \in S
  BY <1>2, <1>3, <1>4, UpTo
<1>6. Reads(flat[last], payload, First(last))
  <2>1. last \in S
    BY <1>2, <1>5
  <2> HIDE DEF First
  <2> QED BY <2>1 DEF S
<1>7. First(last) = P
  OBVIOUS
<1> HIDE DEF First, last
<1> QED BY <1>1, <1>2, <1>6, <1>7

-----------------------------------------------------------------------------
(* The Map of the contacts' names.                                             *)

\* The Maps there are after each contact.
Naming(contacts, names) ==
    /\ names[0] = <<>>
    /\ \A n \in 1 .. Len(contacts) : names[n] = SetName(names[n - 1], contacts[n])

LEMMA NamesRounds ==
    ASSUME NEW contacts \in Seq(ContactValue)
    PROVE  \E names : Naming(contacts, names) /\ ContactNames(contacts) = names[Len(contacts)]
<1> DEFINE last == Len(contacts)
           Rounds(f, n) == f[0] = <<>> /\ \A i \in 1 .. n : f[i] = SetName(f[i - 1], contacts[i])
           Ready == {n \in 0 .. last : \E f : Rounds(f, n)}
           Eq(f) == f = [n \in 0 .. last |-> IF n = 0 THEN <<>> ELSE SetName(f[n - 1], contacts[n])]
           names == CHOOSE f : Eq(f)
<1>1. last \in Nat
  OBVIOUS
<1>2. 0 \in Ready
  <2> DEFINE f == [i \in 0 .. 0 |-> <<>>]
  <2>1. Rounds(f, 0) /\ 0 \in 0 .. last
    BY <1>1
  <2> HIDE DEF f, Rounds
  <2> QED BY <2>1
<1>3. ASSUME NEW n \in 0 .. last - 1, n \in Ready PROVE n + 1 \in Ready
  <2>1. PICK f : Rounds(f, n)
    BY <1>3
  <2> DEFINE g == [i \in 0 .. n + 1 |-> IF i = n + 1 THEN SetName(f[n], contacts[n + 1]) ELSE f[i]]
  <2>2. n \in Nat /\ n + 1 \in 1 .. last /\ n + 1 \in 0 .. last
    BY <1>1
  <2>3. g[n + 1] = SetName(f[n], contacts[n + 1]) /\ \A i \in 0 .. n : g[i] = f[i]
    BY <2>2
  <2> HIDE DEF g
  <2>4. Rounds(g, n + 1)
    <3>1. g[0] = <<>>
      BY <2>1, <2>2, <2>3
    <3>2. ASSUME NEW i \in 1 .. n + 1 PROVE g[i] = SetName(g[i - 1], contacts[i])
      <4>1. CASE i = n + 1
        <5>1. i - 1 = n /\ n \in 0 .. n
          BY <2>2, <4>1
        <5> QED BY <2>3, <4>1, <5>1
      <4>2. CASE i \in 1 .. n
        <5>1. i \in 0 .. n /\ i - 1 \in 0 .. n
          BY <2>2, <4>2
        <5> QED BY <2>1, <2>3, <4>2, <5>1
      <4> QED BY <2>2, <4>1, <4>2
    <3> QED BY <3>1, <3>2
  <2> HIDE DEF Rounds
  <2> QED BY <2>2, <2>4
<1>4. Eq(names)
  <2> HIDE DEF Ready
  <2>1. last \in Ready
    <3>1. \A n \in 0 .. last : n \in Ready
      BY <1>1, <1>2, <1>3, UpTo
    <3> QED BY <1>1, <3>1
  <2>2. PICK f : Rounds(f, last)
    BY <2>1 DEF Ready
  <2> DEFINE h == [i \in 0 .. last |-> f[i]]
  <2>3. ASSUME NEW n \in 0 .. last
        PROVE  h[n] = IF n = 0 THEN <<>> ELSE SetName(h[n - 1], contacts[n])
    <3>1. CASE n = 0
      BY <2>2, <3>1
    <3>2. CASE n # 0
      <4>1. n \in 1 .. last /\ n - 1 \in 0 .. last
        BY <1>1, <3>2
      <4> QED BY <2>2, <3>2, <4>1
    <3> QED BY <3>1, <3>2
  <2>4. Eq(h)
    BY <2>3
  <2> HIDE DEF Eq, h
  <2> QED BY <2>4
<1>5. ContactNames(contacts) = names[last]
  BY DEF ContactNames
<1>6. Naming(contacts, names)
  <2> HIDE DEF names
  <2>1. names[0] = <<>>
    BY <1>1, <1>4
  <2>2. ASSUME NEW n \in 1 .. last PROVE names[n] = SetName(names[n - 1], contacts[n])
    <3>1. n \in 0 .. last /\ n # 0
      BY <1>1
    <3> QED BY <1>4, <3>1
  <2> QED BY <2>1, <2>2 DEF Naming
<1> HIDE DEF names, last
<1>7. Naming(contacts, names) /\ ContactNames(contacts) = names[Len(contacts)]
  BY <1>5, <1>6 DEF last
<1> QED BY <1>7, Zenon

\* The contacts that give the number a name.
Namers(contacts, w, n) ==
    {i \in 1 .. n : contacts[i].waId = w /\ IsTrue(contacts[i].name)}

\* The Map has the name the last of them gives.
LEMMA LastNameCounts ==
    ASSUME NEW contacts \in Seq(ContactValue), NEW w, IsTrue(w),
           NEW names, Naming(contacts, names), NEW n \in 0 .. Len(contacts)
    PROVE  IF Namers(contacts, w, n) = {} THEN w \notin DOMAIN names[n]
           ELSE /\ w \in DOMAIN names[n]
                /\ \E i \in Namers(contacts, w, n) :
                     /\ \A j \in Namers(contacts, w, n) : j <= i
                     /\ names[n][w] = contacts[i].name
<1> DEFINE last == Len(contacts)
           Given(m) == Namers(contacts, w, m)
           Right(m) == IF Given(m) = {} THEN w \notin DOMAIN names[m]
                       ELSE /\ w \in DOMAIN names[m]
                            /\ \E i \in Given(m) :
                                 /\ \A j \in Given(m) : j <= i
                                 /\ names[m][w] = contacts[i].name
           S == {m \in 0 .. last : Right(m)}
<1>1. last \in Nat
  OBVIOUS
<1>2. 0 \in S
  <2>1. Given(0) = {} /\ names[0] = <<>> /\ DOMAIN <<>> = {}
    BY DEF Namers, Naming
  <2> QED BY <1>1, <2>1
<1>3. ASSUME NEW m \in 0 .. last - 1, m \in S PROVE m + 1 \in S
  <2>1. m \in Nat /\ m + 1 \in 1 .. last /\ m + 1 \in 0 .. last /\ (m + 1) - 1 = m
    BY <1>1
  <2>2. names[m + 1] = SetName(names[m], contacts[m + 1])
    BY <2>1 DEF Naming
  <2>3. Right(m)
    BY <1>3
  <2> DEFINE c == contacts[m + 1]
  <2>4. CASE c.waId = w /\ IsTrue(c.name)
    <3>1. m + 1 \in Given(m + 1) /\ \A j \in Given(m + 1) : j <= m + 1
      BY <2>1, <2>4 DEF Namers
    <3>2. w \in DOMAIN names[m + 1] /\ names[m + 1][w] = c.name
      BY <2>2, <2>4 DEF SetName
    <3>3. Right(m + 1)
      BY <3>1, <3>2
    <3> HIDE DEF Right
    <3> QED BY <2>1, <3>3
  <2>5. CASE ~(c.waId = w /\ IsTrue(c.name))
    <3>1. Given(m + 1) = Given(m)
      BY <2>1, <2>5 DEF Namers
    <3>2. /\ w \in DOMAIN names[m + 1] <=> w \in DOMAIN names[m]
          /\ w \in DOMAIN names[m] => names[m + 1][w] = names[m][w]
      BY <2>2, <2>5 DEF SetName
    <3>3. Right(m + 1)
      <4> HIDE DEF Given
      <4> QED BY <2>3, <3>1, <3>2
    <3> HIDE DEF Right
    <3> QED BY <2>1, <3>3
  <2> QED BY <2>4, <2>5
<1> HIDE DEF S
<1>4. \A m \in 0 .. last : m \in S
  BY <1>1, <1>2, <1>3, UpTo
<1>5. Right(n)
  <2> HIDE DEF Right
  <2> QED BY <1>4 DEF S
<1> QED BY <1>5

-----------------------------------------------------------------------------
(* One message.                                                                *)

\* A field that passes the schema is true, trimmed, when there is a word in it.
LEMMA FieldRead ==
    ASSUME NEW f \in Fields, f # WrongType
    PROVE  /\ IsTrue(Trim(f)) <=> f # Absent /\ f.word # NoWord
           /\ IsTrue(Trim(f)) => Trim(f) = Text(f.word) /\ Text(f.word) \in Names
<1>1. CASE f = Absent
  BY <1>1 DEF Trim, IsTrue
<1>2. CASE f # Absent
  <2>1. PICK w \in Words \cup {NoWord} : f \in {Text(w), Padded(w)}
    BY <1>2 DEF Fields, JsonStrings
  <2>2. f.word = w
    BY <2>1 DEF Text, Padded
  <2>3. Trim(f) = Text(w)
    BY <1>2, <2>2 DEF Trim
  <2>4. Text(w) # Absent
    BY <2>1, PayloadAssumption DEF JsonStrings
  <2>5. Text(w) = Empty <=> w = NoWord
    BY DEF Text, Empty
  <2>6. w # NoWord => Text(w) \in Names
    BY <2>1 DEF Names
  <2>7. IsTrue(Trim(f)) <=> w # NoWord
    BY <2>3, <2>4, <2>5 DEF IsTrue
  <2> QED BY <1>2, <2>2, <2>3, <2>6, <2>7
<1> QED BY <1>1, <1>2

\* A name from the Map is the one Reference finds among the contacts.
LEMMA NameRead ==
    ASSUME NEW payload, NEW p,
           ChangeAt(payload, p).contacts \in Seq(ContactValue),
           \A i \in DOMAIN ChangeAt(payload, p).contacts :
             ContactTyped(ChangeAt(payload, p).contacts[i]),
           MessageAt(payload, p).from.word \in Words
    PROVE  LET w == Text(MessageAt(payload, p).from.word)
               map == ContactNames(ChangeAt(payload, p).contacts)
           IN /\ NameAt(payload, p) = IF w \in DOMAIN map THEN map[w] ELSE Absent
              /\ NameAt(payload, p) \in Strings \cup {Absent}
<1> DEFINE contacts == ChangeAt(payload, p).contacts
           w == Text(MessageAt(payload, p).from.word)
           last == Len(contacts)
           map == ContactNames(contacts)
           named == {i \in DOMAIN contacts :
                       contacts[i].waId = w /\ contacts[i].name \notin {Absent, Empty}}
           found == IF named = {} THEN Absent
                    ELSE contacts[CHOOSE i \in named : \A j \in named : j <= i].name
<1>0. NameAt(payload, p) = found
  BY DEF NameAt
<1> HIDE DEF contacts
<1>1. /\ contacts \in Seq(ContactValue) /\ \A i \in DOMAIN contacts : ContactTyped(contacts[i])
      /\ last \in Nat /\ DOMAIN contacts = 1 .. last /\ last \in 0 .. last
  BY DEF contacts
<1>2. named = Namers(contacts, w, last)
  BY <1>1 DEF Namers, IsTrue
<1>3. PICK names : Naming(contacts, names) /\ map = names[last]
  BY <1>1, NamesRounds
<1>4. IsTrue(w)
  <2>1. w # Absent /\ w # Empty
    <3>1. MessageAt(payload, p).from.word # NoWord /\ w \in JsonStrings
      BY PayloadAssumption DEF JsonStrings
    <3> QED BY <3>1, PayloadAssumption DEF Text, Empty
  <2> QED BY <2>1 DEF IsTrue
<1> HIDE DEF w, map, last
<1>5. IF named = {} THEN w \notin DOMAIN map
      ELSE /\ w \in DOMAIN map
           /\ \E i \in named : (\A j \in named : j <= i) /\ map[w] = contacts[i].name
  <2> HIDE DEF named
  <2> QED BY <1>1, <1>2, <1>3, <1>4, LastNameCounts DEF last
<1>6. CASE named = {}
  <2>1. found = Absent /\ w \notin DOMAIN map
    BY <1>5, <1>6
  <2> HIDE DEF found
  <2> QED BY <1>0, <2>1 DEF contacts, w, map
<1>7. CASE named # {}
  <2>1. PICK i \in named : (\A j \in named : j <= i) /\ map[w] = contacts[i].name
    BY <1>5, <1>7
  <2>2. \A j \in named : j \in Nat
    BY <1>1
  <2> DEFINE chosen == CHOOSE n \in named : \A j \in named : j <= n
  <2>3. chosen \in named /\ \A j \in named : j <= chosen
    <3> HIDE DEF named
    <3> QED BY <2>1
  <2>4. chosen = i
    <3> HIDE DEF named, chosen
    <3> QED BY <2>1, <2>2, <2>3
  <2>5. found = contacts[i].name
    <3> HIDE DEF named
    <3> QED BY <1>7, <2>4
  <2>6. contacts[i] \in ContactValue /\ contacts[i].name \notin {Absent, Empty, WrongType}
    BY <1>1 DEF ContactTyped
  <2>7. contacts[i].name \in Strings
    BY <2>6 DEF ContactValue, Fields, Strings
  <2>8. w \in DOMAIN map
    BY <1>5, <1>7
  <2> HIDE DEF found
  <2> QED BY <1>0, <2>1, <2>5, <2>7, <2>8 DEF contacts, w, map
<1> QED BY <1>6, <1>7

\* What a position of a payload that passes the schema holds.
LEMMA Shapes ==
    ASSUME NEW payload \in JsonPayloads, WellTyped(payload),
           NEW i \in DOMAIN payload, NEW j \in DOMAIN payload[i]
    PROVE  /\ payload[i] \in Seq(ChangeValue)
           /\ payload[i][j] \in ChangeValue /\ ChangeTyped(payload[i][j])
           /\ payload[i][j].messages \in Seq(MessageValue)
           /\ payload[i][j].contacts \in Seq(ContactValue)
<1>1. payload[i] \in Seq(ChangeValue)
  BY DEF JsonPayloads
<1>2. payload[i][j] \in ChangeValue
  BY <1>1
<1>3. ChangeTyped(payload[i][j])
  BY DEF WellTyped
<1> QED BY <1>1, <1>2, <1>3 DEF ChangeValue

\* What the loop's condition takes is what is supported, and it is read the same.
LEMMA MessageRead ==
    ASSUME NEW change \in ChangeValue, ChangeTyped(change),
           NEW message \in MessageValue, MessageTyped(message),
           NEW payload, NEW p, ChangeAt(payload, p) = change, MessageAt(payload, p) = message
    PROVE  /\ IsSupported(change, message) <=> IsTrue(Trim(change.phone)) /\ Accepted(message)
           /\ IsSupported(change, message)
                => /\ ParseMessage(change, message) = ReadAt(payload, p)
                   /\ ReadAt(payload, p) \in ParsedMessage
<1>1. /\ change.phone \in Fields /\ change.phone # WrongType
      /\ message.id \in Fields /\ message.id # WrongType
      /\ message.from \in Fields /\ message.from # WrongType
      /\ message.body \in Fields /\ message.body # WrongType
      /\ message.time \in Timestamps \cup {Absent}
      /\ change.contacts \in Seq(ContactValue)
      /\ \A i \in DOMAIN change.contacts : ContactTyped(change.contacts[i])
  BY DEF ChangeValue, MessageValue, ChangeTyped, MessageTyped
<1>2. /\ IsTrue(Trim(change.phone)) <=> change.phone # Absent /\ change.phone.word # NoWord
      /\ IsTrue(Trim(message.id)) <=> message.id # Absent /\ message.id.word # NoWord
      /\ IsTrue(Trim(message.from)) <=> message.from # Absent /\ message.from.word # NoWord
  BY <1>1, FieldRead
<1>3. IsSupported(change, message) <=> IsTrue(Trim(change.phone)) /\ Accepted(message)
  <2>1. IsTrue(message.body) <=> message.body \notin {Absent, Empty}
    BY DEF IsTrue
  <2> QED BY <1>1, <1>2, <2>1 DEF IsSupported, Accepted
<1>4. ASSUME IsSupported(change, message)
      PROVE  /\ ParseMessage(change, message) = ReadAt(payload, p)
             /\ ReadAt(payload, p) \in ParsedMessage
  <2> DEFINE word == message.from.word
  <2>1. /\ Trim(change.phone) = Text(change.phone.word) /\ Text(change.phone.word) \in Names
        /\ Trim(message.id) = Text(message.id.word) /\ Text(message.id.word) \in Names
        /\ Trim(message.from) = Text(word) /\ Text(word) \in Names
    <3>1. IsTrue(Trim(change.phone)) /\ IsTrue(Trim(message.id)) /\ IsTrue(Trim(message.from))
      BY <1>3, <1>4 DEF Accepted
    <3> QED BY <1>1, <3>1, FieldRead
  <2>2. word \in Words
    <3>1. PICK v \in Words : Text(word) = Text(v)
      BY <2>1 DEF Names
    <3> QED BY <3>1 DEF Text
  <2>3. /\ NameAt(payload, p) = IF Text(word) \in DOMAIN ContactNames(change.contacts)
                                THEN ContactNames(change.contacts)[Text(word)] ELSE Absent
        /\ NameAt(payload, p) \in Strings \cup {Absent}
    BY <1>1, <2>2, NameRead
  <2>4. message.body \in Strings
    BY <1>1, <1>4 DEF IsSupported, Fields, Strings
  <2>5. ParseTimestamp(message.time) \in {"no_date", "date", "invalid_date"}
    <3>1. message.time \in {Absent, "empty", "not_a_number"} \/ message.time = "seconds"
            \/ message.time = "out_of_range"
      BY <1>1 DEF Timestamps
    <3> QED BY <3>1, Zenon DEF ParseTimestamp
  <2>6. ReadAt(payload, p) =
          [phone |-> Text(change.phone.word), id |-> Text(message.id.word), from |-> Text(word),
           name |-> NameAt(payload, p), text |-> message.body,
           time |-> ParseTimestamp(message.time)]
    BY DEF ReadAt
  <2>7. ParseMessage(change, message) = ReadAt(payload, p)
    BY <2>1, <2>3, <2>6 DEF ParseMessage
  <2>8. ReadAt(payload, p) \in ParsedMessage
    BY <2>1, <2>3, <2>4, <2>5, <2>6 DEF ParsedMessage
  <2> QED BY <2>7, <2>8
<1> QED BY <1>3, <1>4

-----------------------------------------------------------------------------
(* The three loops.                                                            *)

Supported(payload, P) == {p \in P : IsSupported(ChangeAt(payload, p), MessageAt(payload, p))}

LEMMA ChangeReads ==
    ASSUME NEW payload \in JsonPayloads, WellTyped(payload),
           NEW i \in DOMAIN payload, NEW j \in DOMAIN payload[i]
    PROVE  /\ ChangeMessages(payload[i][j]) \in Seq(ParsedMessage)
           /\ Reads(ChangeMessages(payload[i][j]), payload,
                    Supported(payload, ChangePositions(payload, i, j)))
<1> DEFINE change == payload[i][j]
           last == Len(change.messages)
           P == Supported(payload, ChangePositions(payload, i, j))
           At(k) == <<i, j, k>>
<1>1. /\ change \in ChangeValue /\ ChangeTyped(change)
      /\ last \in Nat /\ DOMAIN change.messages = 1 .. last
      /\ \A k \in 1 .. last :
           change.messages[k] \in MessageValue /\ MessageTyped(change.messages[k])
  BY Shapes DEF ChangeTyped
<1>2. \A k \in 1 .. last :
        ChangeAt(payload, At(k)) = change /\ MessageAt(payload, At(k)) = change.messages[k]
  BY DEF ChangeAt, MessageAt
<1>3. ChangePositions(payload, i, j) = {At(k) : k \in 1 .. last}
  BY <1>1 DEF ChangePositions
<1> HIDE DEF change, At
<1>4. ASSUME NEW k \in 1 .. last
      PROVE  /\ At(k) \in P <=> IsTrue(Trim(change.phone)) /\ Accepted(change.messages[k])
             /\ At(k) \in P => /\ ParseMessage(change, change.messages[k]) = ReadAt(payload, At(k))
                               /\ ReadAt(payload, At(k)) \in ParsedMessage
  <2>1. /\ IsSupported(change, change.messages[k])
             <=> IsTrue(Trim(change.phone)) /\ Accepted(change.messages[k])
        /\ IsSupported(change, change.messages[k])
             => /\ ParseMessage(change, change.messages[k]) = ReadAt(payload, At(k))
                /\ ReadAt(payload, At(k)) \in ParsedMessage
    BY <1>1, <1>2, MessageRead
  <2>2. At(k) \in P <=> IsSupported(change, change.messages[k])
    BY <1>2, <1>3 DEF Supported
  <2> QED BY <2>1, <2>2
<1>5. P = {q \in {At(k) : k \in 1 .. last} : q \in P}
  BY <1>3 DEF Supported
<1> HIDE DEF P
<1>6. CASE ~IsTrue(Trim(change.phone))
  <2>1. P = {}
    BY <1>4, <1>5, <1>6
  <2>2. ChangeMessages(change) = <<>>
    BY <1>6 DEF ChangeMessages
  <2>3. Reads(<<>>, payload, {}) /\ <<>> \in Seq(ParsedMessage)
    BY ReadsNone
  <2> QED BY <2>1, <2>2, <2>3 DEF change, P
<1>7. CASE IsTrue(Trim(change.phone))
  <2> DEFINE seqs == [k \in DOMAIN change.messages |->
                        IF Accepted(change.messages[k])
                        THEN <<ParseMessage(change, change.messages[k])>> ELSE <<>>]
             Part == [k \in 1 .. last |-> {At(k)} \cap P]
  <2>1. ASSUME NEW k \in 1 .. last
        PROVE  seqs[k] \in Seq(ParsedMessage) /\ Reads(seqs[k], payload, Part[k])
    <3>1. CASE At(k) \in P
      <4>1. seqs[k] = <<ReadAt(payload, At(k))>> /\ ReadAt(payload, At(k)) \in ParsedMessage
        BY <1>1, <1>4, <3>1
      <4>2. Part[k] = {At(k)}
        BY <3>1
      <4>3. Reads(<<ReadAt(payload, At(k))>>, payload, {At(k)})
        BY ReadsOne
      <4> HIDE DEF seqs, Part
      <4> QED BY <4>1, <4>2, <4>3
    <3>2. CASE At(k) \notin P
      <4>1. seqs[k] = <<>> /\ Part[k] = {}
        BY <1>1, <1>4, <1>7, <3>2
      <4> HIDE DEF seqs, Part
      <4> QED BY <4>1, ReadsNone
    <3> QED BY <3>1, <3>2
  <2>2. DOMAIN seqs = 1 .. last
    BY <1>1
  <2>3. \A p : p \in P <=> \E k \in 1 .. last : p \in Part[k]
    <3>1. \A p \in P : \E k \in 1 .. last : p = At(k)
      BY <1>5
    <3> QED BY <3>1
  <2>4. \A k, m \in 1 .. last : k < m => Ahead(Part[k], Part[m])
    BY DEF Ahead, InOrder, At
  <2>5. ChangeMessages(change) = FlattenSeq(seqs)
    BY <1>7 DEF ChangeMessages
  <2> HIDE DEF seqs, Part
  <2>6. seqs \in Seq(Seq(ParsedMessage)) /\ Len(seqs) = last
    <3>1. seqs \in [1 .. last -> Seq(ParsedMessage)]
      BY <2>1, <2>2 DEF seqs
    <3> QED BY <1>1, <3>1
  <2>7. /\ FlattenSeq(seqs) \in Seq(ParsedMessage)
        /\ Reads(FlattenSeq(seqs), payload, P)
    BY <2>1, <2>3, <2>4, <2>6, FlattenReads
  <2> QED BY <2>5, <2>7 DEF change, P
<1> QED BY <1>6, <1>7

EntryPositions(payload, i) == UNION {ChangePositions(payload, i, j) : j \in DOMAIN payload[i]}

LEMMA EntryReads ==
    ASSUME NEW payload \in JsonPayloads, WellTyped(payload), NEW i \in DOMAIN payload
    PROVE  /\ EntryMessages(payload[i]) \in Seq(ParsedMessage)
           /\ Reads(EntryMessages(payload[i]), payload,
                    Supported(payload, EntryPositions(payload, i)))
<1> DEFINE last == Len(payload[i])
           seqs == [j \in DOMAIN payload[i] |-> ChangeMessages(payload[i][j])]
           Part == [j \in 1 .. last |-> Supported(payload, ChangePositions(payload, i, j))]
<1>1. last \in Nat /\ DOMAIN payload[i] = 1 .. last
  BY DEF JsonPayloads
<1>2. \A j \in 1 .. last : seqs[j] \in Seq(ParsedMessage) /\ Reads(seqs[j], payload, Part[j])
  BY <1>1, ChangeReads
<1>3. \A p : p \in Supported(payload, EntryPositions(payload, i))
               <=> \E j \in 1 .. last : p \in Part[j]
  BY <1>1 DEF EntryPositions, Supported
<1>4. \A j, m \in 1 .. last : j < m => Ahead(Part[j], Part[m])
  BY DEF Ahead, InOrder, Supported, ChangePositions
<1>5. EntryMessages(payload[i]) = FlattenSeq(seqs)
  BY DEF EntryMessages
<1>6. DOMAIN seqs = 1 .. last
  BY <1>1
<1> HIDE DEF Part
<1>7. seqs \in Seq(Seq(ParsedMessage)) /\ Len(seqs) = last
  <2>1. seqs \in [1 .. last -> Seq(ParsedMessage)]
    BY <1>2, <1>6
  <2> HIDE DEF seqs
  <2> QED BY <1>1, <2>1
<1> HIDE DEF seqs
<1>8. /\ FlattenSeq(seqs) \in Seq(ParsedMessage)
      /\ Reads(FlattenSeq(seqs), payload, Supported(payload, EntryPositions(payload, i)))
  BY <1>2, <1>3, <1>4, <1>7, FlattenReads
<1> QED BY <1>5, <1>8

\* The parser reads each supported message, once and in order.
LEMMA ParseReads ==
    ASSUME NEW payload \in JsonPayloads, WellTyped(payload)
    PROVE  /\ Parse(payload) \in Seq(ParsedMessage)
           /\ Reads(Parse(payload), payload, SupportedPositions(payload))
<1> DEFINE last == Len(payload)
           seqs == [i \in DOMAIN payload |-> EntryMessages(payload[i])]
           Part == [i \in 1 .. last |-> Supported(payload, EntryPositions(payload, i))]
<1>1. last \in Nat /\ DOMAIN payload = 1 .. last
  BY DEF JsonPayloads
<1>2. \A i \in 1 .. last : seqs[i] \in Seq(ParsedMessage) /\ Reads(seqs[i], payload, Part[i])
  BY <1>1, EntryReads
<1>3. \A p : p \in SupportedPositions(payload) <=> \E i \in 1 .. last : p \in Part[i]
  BY <1>1 DEF EntryPositions, Supported, SupportedPositions, Positions
<1>4. \A i, m \in 1 .. last : i < m => Ahead(Part[i], Part[m])
  BY DEF Ahead, InOrder, Supported, EntryPositions, ChangePositions
<1>5. Parse(payload) = FlattenSeq(seqs)
  BY DEF Parse
<1>6. DOMAIN seqs = 1 .. last
  BY <1>1
<1> HIDE DEF Part
<1>7. seqs \in Seq(Seq(ParsedMessage)) /\ Len(seqs) = last
  <2>1. seqs \in [1 .. last -> Seq(ParsedMessage)]
    BY <1>2, <1>6
  <2> HIDE DEF seqs
  <2> QED BY <1>1, <2>1
<1> HIDE DEF seqs
<1>8. /\ FlattenSeq(seqs) \in Seq(ParsedMessage)
      /\ Reads(FlattenSeq(seqs), payload, SupportedPositions(payload))
  BY <1>2, <1>3, <1>4, <1>7, FlattenReads
<1> QED BY <1>5, <1>8

-----------------------------------------------------------------------------
(* Positions have one order.                                                   *)

Places(P) == \A p \in P : p[1] \in Nat /\ p[2] \in Nat /\ p[3] \in Nat

LEMMA OrderIsStrict ==
    ASSUME NEW P, Places(P), NEW p \in P, NEW q \in P, InOrder(p, q)
    PROVE  ~InOrder(q, p) /\ p # q
<1>1. /\ p[1] \in Nat /\ p[2] \in Nat /\ p[3] \in Nat
      /\ q[1] \in Nat /\ q[2] \in Nat /\ q[3] \in Nat
  BY DEF Places
<1>2. \/ p[1] < q[1]
      \/ p[1] = q[1] /\ p[2] < q[2]
      \/ p[1] = q[1] /\ p[2] = q[2] /\ p[3] < q[3]
  BY DEF InOrder
<1>3. ~InOrder(q, p)
  BY <1>1, <1>2 DEF InOrder
<1> QED BY <1>3

\* Each position once, in order.
Enumerates(order, last, P) ==
    Increasing(order) /\ \A p \in P : \E n \in 1 .. last : order[n] = p

\* Two increasing enumerations of the same positions are the same.
LEMMA OneOrder ==
    ASSUME NEW P, Places(P), NEW last \in Nat,
           NEW o \in [1 .. last -> P], Enumerates(o, last, P),
           NEW q \in [1 .. last -> P], Enumerates(q, last, P)
    PROVE  o = q
<1> DEFINE S == {n \in 0 .. last : \A k \in 1 .. n : o[k] = q[k]}
<1>1. 0 \in S
  OBVIOUS
<1>2. \A m, n \in 1 .. last : m < n => InOrder(o[m], o[n]) /\ InOrder(q[m], q[n])
  BY DEF Increasing, Enumerates
<1>3. ASSUME NEW n \in 0 .. last - 1, n \in S PROVE n + 1 \in S
  <2>1. n \in Nat /\ n + 1 \in 1 .. last /\ n + 1 \in 0 .. last
    OBVIOUS
  <2>2. \A k \in 1 .. n : k \in 1 .. last /\ k < n + 1 /\ o[k] = q[k]
    BY <1>3
  <2>3. o[n + 1] \in P /\ q[n + 1] \in P
    BY <2>1
  <2>4. ASSUME o[n + 1] # q[n + 1] PROVE FALSE
    <3>1. PICK a \in 1 .. last : q[a] = o[n + 1]
      BY <2>3 DEF Enumerates
    <3>2. PICK b \in 1 .. last : o[b] = q[n + 1]
      BY <2>3 DEF Enumerates
    <3>3. a \notin 1 .. n
      <4>1. SUFFICES ASSUME a \in 1 .. n PROVE FALSE
        OBVIOUS
      <4>2. InOrder(o[a], o[n + 1]) /\ o[a] = o[n + 1]
        BY <1>2, <2>1, <2>2, <3>1, <4>1
      <4> QED BY <2>3, <4>2, OrderIsStrict
    <3>4. b \notin 1 .. n
      <4>1. SUFFICES ASSUME b \in 1 .. n PROVE FALSE
        OBVIOUS
      <4>2. InOrder(q[b], q[n + 1]) /\ q[b] = q[n + 1]
        BY <1>2, <2>1, <2>2, <3>2, <4>1
      <4> QED BY <2>3, <4>2, OrderIsStrict
    <3>5. n + 1 < a /\ n + 1 < b
      <4>1. a # n + 1 /\ b # n + 1
        BY <2>4, <3>1, <3>2
      <4> QED BY <2>1, <3>3, <3>4, <4>1
    <3>6. InOrder(q[n + 1], o[n + 1]) /\ InOrder(o[n + 1], q[n + 1])
      BY <1>2, <2>1, <3>1, <3>2, <3>5
    <3> QED BY <2>3, <3>6, OrderIsStrict
  <2>5. \A k \in 1 .. n + 1 : k \in 1 .. n \/ k = n + 1
    BY <2>1
  <2> QED BY <2>1, <2>2, <2>4, <2>5
<1> HIDE DEF S
<1>4. \A n \in 0 .. last : n \in S
  BY <1>1, <1>3, UpTo
<1>5. last \in S
  BY <1>4
<1> QED BY <1>5 DEF S

\* What Reference chooses is the order in which the positions are read.
LEMMA ChosenOrder ==
    ASSUME NEW P, Places(P), NEW last \in Nat,
           NEW o \in [1 .. last -> P], Enumerates(o, last, P)
    PROVE  o = CHOOSE q \in [1 .. Cardinality(P) -> P] : Increasing(q)
<1>1. ASSUME NEW q \in [1 .. last -> P], Increasing(q) PROVE q \in Injection(1 .. last, P)
  <2>1. ASSUME NEW m \in 1 .. last, NEW n \in 1 .. last, m < n PROVE q[m] # q[n]
    <3>1. InOrder(q[m], q[n])
      BY <1>1, <2>1 DEF Increasing
    <3> QED BY <3>1, OrderIsStrict
  <2>2. \A m, n \in 1 .. last : q[m] = q[n] => m = n
    <3>1. \A m, n \in 1 .. last : m = n \/ m < n \/ n < m
      OBVIOUS
    <3> QED BY <2>1, <3>1
  <2> QED BY <2>2 DEF Injection, IsInjective
<1>2. o \in Bijection(1 .. last, P)
  BY <1>1 DEF Bijection, Surjection, Enumerates
<1>3. ExistsBijection(1 .. last, P)
  BY <1>2 DEF ExistsBijection
<1>4. Cardinality(P) = last
  BY <1>3, FS_CountingElements
<1>5. IsFiniteSet(P)
  BY <1>3, FS_NatBijection
<1>6. IsFiniteSet(1 .. last) /\ Cardinality(1 .. last) = last
  <2>1. IsFiniteSet(1 .. last) /\ Cardinality(1 .. last) = IF 1 > last THEN 0 ELSE last - 1 + 1
    BY FS_Interval
  <2> QED BY <2>1
<1> DEFINE q == CHOOSE q \in [1 .. Cardinality(P) -> P] : Increasing(q)
<1>7. q \in [1 .. last -> P] /\ Increasing(q)
  <2>1. o \in [1 .. Cardinality(P) -> P] /\ Increasing(o)
    BY <1>4 DEF Enumerates
  <2>2. q \in [1 .. Cardinality(P) -> P] /\ Increasing(q)
    BY <2>1
  <2> QED BY <1>4, <2>2
<1> HIDE DEF q
<1>8. q \in Surjection(1 .. last, P)
  <2>1. q \in Injection(1 .. last, P)
    BY <1>1, <1>7
  <2> QED BY <1>4, <1>5, <1>6, <2>1, FS_Injection
<1>9. Enumerates(q, last, P)
  BY <1>7, <1>8 DEF Surjection, Enumerates
<1>10. o = q
  BY <1>7, <1>9, OneOrder
<1> QED BY <1>10 DEF q

\* meta-payload-parser.ts:84-127, for any payload: the messages pushed are the
\* supported ones, each once, in the order of the payload, each with the last
\* name that its own change gives to its sender.
THEOREM ParserFindsTheSupported ==
    \A payload \in JsonPayloads :
        WellTyped(payload) =>
          Parse(payload) \in Seq(ParsedMessage) /\ Parse(payload) = Reference(payload)
<1> SUFFICES ASSUME NEW payload \in JsonPayloads, WellTyped(payload)
             PROVE  Parse(payload) \in Seq(ParsedMessage) /\ Parse(payload) = Reference(payload)
  OBVIOUS
<1> DEFINE P == SupportedPositions(payload)
           list == Parse(payload)
           last == Len(list)
<1>1. list \in Seq(ParsedMessage) /\ Reads(list, payload, P) /\ last \in Nat
  BY ParseReads
<1>2. Places(P)
  <2>1. Places(Positions(payload))
    <3>1. \A i \in DOMAIN payload : i \in Nat
      BY DEF JsonPayloads
    <3>2. \A i \in DOMAIN payload : \A j \in DOMAIN payload[i] :
            j \in Nat /\ \A k \in DOMAIN payload[i][j].messages : k \in Nat
      <4> SUFFICES ASSUME NEW i \in DOMAIN payload, NEW j \in DOMAIN payload[i]
                   PROVE  j \in Nat /\ \A k \in DOMAIN payload[i][j].messages : k \in Nat
        OBVIOUS
      <4>1. payload[i] \in Seq(ChangeValue) /\ payload[i][j].messages \in Seq(MessageValue)
        BY Shapes
      <4> QED BY <4>1
    <3> QED BY <3>1, <3>2 DEF Positions, ChangePositions, Places
  <2> QED BY <2>1 DEF SupportedPositions, Places
<1> HIDE DEF P, list
<1>3. PICK order \in [1 .. last -> P] :
        /\ \A m, n \in 1 .. last : m < n => InOrder(order[m], order[n])
        /\ \A p \in P : \E n \in 1 .. last : order[n] = p
        /\ \A n \in 1 .. last : list[n] = ReadAt(payload, order[n])
  BY <1>1 DEF Reads
<1>4. Enumerates(order, last, P)
  BY <1>3 DEF Increasing, Enumerates
<1> DEFINE chosen == CHOOSE o \in [1 .. Cardinality(P) -> P] : Increasing(o)
<1>5. order = chosen
  BY <1>1, <1>2, <1>3, <1>4, ChosenOrder
<1>6. Reference(payload) = [n \in DOMAIN chosen |-> ReadAt(payload, chosen[n])]
  BY DEF Reference, P
<1> HIDE DEF chosen
<1>7. list = [n \in DOMAIN chosen |-> ReadAt(payload, chosen[n])]
  <2>1. DOMAIN chosen = 1 .. last
    BY <1>5
  <2>2. list = [n \in 1 .. last |-> list[n]]
    BY <1>1
  <2> QED BY <1>3, <1>5, <2>1, <2>2
<1> QED BY <1>1, <1>6, <1>7 DEF list
====
