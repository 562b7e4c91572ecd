---------------------------- MODULE Ingest_proofs ----------------------------
(***************************************************************************)
(* Proofs about Ingest. What the loops of threading.py compute is shown by *)
(* induction, which rests on least elements: the theorems of the library   *)
(* that take a set and not an operator. What union-find finds is shown by  *)
(* looking at sets of messages that are closed under its links.            *)
(***************************************************************************)
EXTENDS Ingest, FiniteSetTheorems, WellFoundedInduction, TLAPS

----------------------------------------------------------------------------
(* Induction and loops.                                                    *)

Below == {ss \in Nat \X Nat : ss[1] < ss[2]}

\* There is no infinite descent in the natural numbers.
LEMMA BelowIsWellFounded == IsWellFoundedOn(Below, Nat)
  BY NatLessThanWellFounded DEF OpToRel, Below

\* Numbers have a least element.
LEMMA LeastNumber ==
  ASSUME NEW T \in SUBSET Nat, T # {}
  PROVE  \E x \in T : \A y \in T : x <= y
<1>1. \E x \in T : \A y \in T : <<y, x>> \notin Below
  BY BelowIsWellFounded, WFMin, Zenon
<1>2. \A x, y \in T : x <= y <=> <<y, x>> \notin Below
  BY DEF Below
<1> QED BY <1>1, <1>2

\* What 0 is in, and the successor of each of its elements up to N, has all up to N.
LEMMA Induction ==
  ASSUME NEW N \in Nat, NEW S, 0 \in S, \A n \in 0 .. N : n < N /\ n \in S => n + 1 \in S
  PROVE  \A n \in 0 .. N : n \in S
<1> DEFINE T == (0 .. N) \ S
<1>1. ASSUME T # {} PROVE FALSE
  <2>0. T \in SUBSET Nat /\ T # {}
    BY <1>1
  <2> HIDE DEF T
  <2>1. PICK x \in T : \A y \in T : x <= y
    BY <2>0, LeastNumber
  <2> USE DEF T
  <2>2. x # 0 /\ x - 1 \in 0 .. N /\ x - 1 < N /\ x - 1 \notin T
    BY <2>1
  <2> QED BY <2>1, <2>2
<1> QED BY <1>1

\* What a loop has after n of its steps, and that there is a function that has it.
IsLoop(f, N, base, step) ==
  f = [n \in 0 .. N |-> IF n = 0 THEN base ELSE step[n][f[n - 1]]]

\* A loop whose steps stay in a set has a result after each of its steps.
LEMMA LoopExists ==
  ASSUME NEW N \in Nat, NEW T, NEW base \in T, NEW step \in [1 .. N -> [T -> T]]
  PROVE  \E f \in [0 .. N -> T] : IsLoop(f, N, base, step)
<1> DEFINE S == {n \in 0 .. N : \E f \in [0 .. n -> T] : IsLoop(f, n, base, step)}
<1>1. 0 \in S
  <2> DEFINE f == [n \in 0 .. 0 |-> base]
  <2>1. f \in [0 .. 0 -> T] /\ IsLoop(f, 0, base, step)
    BY DEF IsLoop
  <2> QED BY <2>1
<1>2. ASSUME NEW n \in 0 .. N, n < N, n \in S PROVE n + 1 \in S
  <2>1. PICK f \in [0 .. n -> T] : IsLoop(f, n, base, step)
    BY <1>2
  <2> DEFINE g == [k \in 0 .. n + 1 |-> IF k = n + 1 THEN step[n + 1][f[n]] ELSE f[k]]
  <2>2. step[n + 1] \in [T -> T] /\ f[n] \in T
    BY <1>2
  <2>3. g \in [0 .. n + 1 -> T]
    BY <2>2
  <2>4. \A k \in 0 .. n : f[k] = IF k = 0 THEN base ELSE step[k][f[k - 1]]
    BY <2>1 DEF IsLoop
  <2>5. \A k \in 0 .. n + 1 : g[k] = IF k = 0 THEN base ELSE step[k][g[k - 1]]
    <3>1. TAKE k \in 0 .. n + 1
    <3>2. CASE k = n + 1
      BY <3>2
    <3>3. CASE k \in 0 .. n
      BY <3>3, <2>4
    <3> QED BY <3>2, <3>3
  <2> HIDE DEF g
  <2>6. IsLoop(g, n + 1, base, step)
    BY <2>3, <2>5 DEF IsLoop
  <2> HIDE DEF S
  <2>7. n + 1 \in 0 .. N
    BY <1>2
  <2> QED BY <2>3, <2>6, <2>7 DEF S
<1> HIDE DEF S
<1>3. \A n \in 0 .. N : n \in S
  BY <1>1, <1>2, Induction
<1>4. N \in S
  BY <1>3
<1> QED BY <1>4 DEF S

\* What holds before a loop and is kept by its steps, holds after each of them.
LEMMA LoopStays ==
  ASSUME NEW N \in Nat, NEW T, NEW g, g[0] \in T, \A k \in 1 .. N : g[k - 1] \in T => g[k] \in T
  PROVE  \A k \in 0 .. N : g[k] \in T
<1> DEFINE S == {n \in 0 .. N : g[n] \in T}
<1>1. ASSUME NEW n \in 0 .. N, n < N, n \in S PROVE n + 1 \in S
  <2>1. n + 1 \in 1 .. N /\ n + 1 \in 0 .. N /\ (n + 1) - 1 = n
    BY <1>1
  <2>2. g[n] \in T
    BY <1>1
  <2> QED BY <2>1, <2>2
<1>2. 0 \in S
  OBVIOUS
<1> HIDE DEF S
<1>3. \A n \in 0 .. N : n \in S
  BY <1>1, <1>2, Induction
<1> QED BY <1>3 DEF S

----------------------------------------------------------------------------
(* Union-find.                                                             *)

Closed(p, C) == \A c \in C : p[c] \in C

\* Every set that the links of p do not leave has a root.
Forest(D) ==
  {p \in [D -> D] : \A C \in SUBSET D : C # {} /\ Closed(p, C) => \E c \in C : p[c] = c}

Same(p, x, y) == Root(p, x) = Root(p, y)

\* The roots that x leads to.
Ends(D, p, x) ==
  {y \in D : p[y] = y /\ \A C \in SUBSET D : x \in C /\ Closed(p, C) => y \in C}

\* There is a function that the recursive definition of Root describes.
LEMMA RootExists ==
  ASSUME NEW D, NEW p \in [D -> D]
  PROVE  \E g : g = [x \in D |-> IF p[x] = x THEN x ELSE g[p[x]]]
<1> DEFINE g == [x \in D |-> CHOOSE y : y \in Ends(D, p, x)]
<1>1. ASSUME NEW x \in D, p[x] = x PROVE g[x] = x
  <2>1. x \in Ends(D, p, x)
    BY <1>1 DEF Ends
  <2>2. ASSUME NEW y \in Ends(D, p, x) PROVE y = x
    <3>1. {x} \in SUBSET D /\ Closed(p, {x})
      BY <1>1 DEF Closed
    <3> QED BY <3>1, <2>2 DEF Ends
  <2>3. g[x] \in Ends(D, p, x)
    BY <2>1
  <2> QED BY <2>2, <2>3
<1>2. ASSUME NEW x \in D, p[x] # x PROVE Ends(D, p, x) = Ends(D, p, p[x])
  <2>1. ASSUME NEW y \in Ends(D, p, x) PROVE y \in Ends(D, p, p[x])
    <3>1. ASSUME NEW C \in SUBSET D, p[x] \in C, Closed(p, C) PROVE y \in C
      <4>1. C \cup {x} \in SUBSET D /\ Closed(p, C \cup {x})
        BY <3>1 DEF Closed
      <4>2. y \in C \cup {x}
        BY <4>1, <2>1 DEF Ends
      <4>3. y # x
        BY <2>1, <1>2 DEF Ends
      <4> QED BY <4>2, <4>3
    <3> QED BY <3>1, <2>1 DEF Ends
  <2>2. ASSUME NEW y \in Ends(D, p, p[x]) PROVE y \in Ends(D, p, x)
    BY <2>2 DEF Ends, Closed
  <2> QED BY <2>1, <2>2
<1>3. \A x \in D : g[x] = IF p[x] = x THEN x ELSE g[p[x]]
  <2>1. TAKE x \in D
  <2>2. CASE p[x] = x
    BY <2>2, <1>1
  <2>3. CASE p[x] # x
    <3>1. p[x] \in D /\ Ends(D, p, x) = Ends(D, p, p[x])
      BY <2>3, <1>2
    <3> QED BY <3>1, <2>3
  <2> QED BY <2>2, <2>3
<1>4. g = [x \in D |-> g[x]]
  OBVIOUS
<1> HIDE DEF g
<1>5. g = [x \in D |-> IF p[x] = x THEN x ELSE g[p[x]]]
  BY <1>3, <1>4
<1> QED BY <1>5

\* The root of a message is its own, or that of the message it is linked to.
LEMMA RootStep ==
  ASSUME NEW D, NEW p \in [D -> D], NEW x \in D
  PROVE  Root(p, x) = IF p[x] = x THEN x ELSE Root(p, p[x])
<1> DEFINE g == CHOOSE h : h = [y \in D |-> IF p[y] = y THEN y ELSE h[p[y]]]
<1>1. g = [y \in D |-> IF p[y] = y THEN y ELSE g[p[y]]]
  BY RootExists
<1>2. DOMAIN p = D
  OBVIOUS
<1>3. \A y \in D : Root(p, y) = g[y]
  BY <1>2 DEF Root
<1> HIDE DEF g
<1>4. p[x] \in D
  OBVIOUS
<1>5. g[x] = IF p[x] = x THEN x ELSE g[p[x]]
  BY <1>1
<1> QED BY <1>3, <1>4, <1>5

\* In a forest, what find returns is a root.
LEMMA RootIsRoot ==
  ASSUME NEW D, NEW p \in Forest(D), NEW x \in D
  PROVE  Root(p, x) \in D /\ p[Root(p, x)] = Root(p, x) /\ Root(p, Root(p, x)) = Root(p, x)
<1>1. p \in [D -> D]
  BY DEF Forest
<1> DEFINE B == {y \in D : ~(Root(p, y) \in D /\ p[Root(p, y)] = Root(p, y))}
<1>2. Closed(p, B) /\ \A c \in B : p[c] # c
  <2>1. ASSUME NEW c \in B PROVE p[c] \in B /\ p[c] # c
    <3>1. Root(p, c) = IF p[c] = c THEN c ELSE Root(p, p[c])
      BY <1>1, RootStep
    <3>2. p[c] \in D
      BY <1>1
    <3>3. p[c] # c
      BY <3>1
    <3> QED BY <3>1, <3>2, <3>3
  <2> QED BY <2>1 DEF Closed
<1>3. B = {}
  BY <1>2 DEF Forest
<1>4. Root(p, x) \in D /\ p[Root(p, x)] = Root(p, x)
  BY <1>3
<1>5. Root(p, Root(p, x)) = Root(p, x)
  BY <1>1, <1>4, RootStep
<1> QED BY <1>4, <1>5

\* q is p with r linked to l.
Links(q, p, l, r) == q = [p EXCEPT ![r] = l]

\* Linking one root to another keeps a forest, and the roots that were led to the one are
\* led to the other.
LEMMA LinkRoots ==
  ASSUME NEW D, NEW p \in Forest(D), NEW l \in D, NEW r \in D, l # r, p[l] = l, p[r] = r,
         NEW q, Links(q, p, l, r)
  PROVE  /\ q \in Forest(D)
         /\ \A x \in D : Root(q, x) = IF Root(p, x) = r THEN l ELSE Root(p, x)
<1>1. p \in [D -> D] /\ q \in [D -> D] /\ q[r] = l /\ q[l] = l
      /\ \A x \in D : x # r => q[x] = p[x]
  BY DEF Forest, Links
<1>2. ASSUME NEW C \in SUBSET D, C # {}, Closed(q, C) PROVE \E c \in C : q[c] = c
  <2>1. CASE r \in C
    BY <2>1, <1>1, <1>2 DEF Closed
  <2>2. CASE r \notin C
    <3>1. Closed(p, C)
      BY <2>2, <1>1, <1>2 DEF Closed
    <3>2. PICK c \in C : p[c] = c
      BY <3>1, <1>2 DEF Forest
    <3> QED BY <3>2, <2>2, <1>1
  <2> QED BY <2>1, <2>2
<1>3. q \in Forest(D)
  BY <1>1, <1>2 DEF Forest
<1> DEFINE Good(x) == Root(q, x) = IF Root(p, x) = r THEN l ELSE Root(p, x)
<1> DEFINE B == {y \in D : ~Good(y)}
<1>4. ASSUME NEW c \in D, ~Good(c) PROVE p[c] \in D /\ ~Good(p[c]) /\ p[c] # c
  <2>1. Root(p, c) = (IF p[c] = c THEN c ELSE Root(p, p[c])) /\ p[c] \in D
    BY <1>1, RootStep
  <2>2. Root(q, c) = (IF q[c] = c THEN c ELSE Root(q, q[c])) /\ Root(q, l) = l
    BY <1>1, RootStep
  <2>3. c # r
    BY <1>1, <1>4, <2>1, <2>2
  <2>4. q[c] = p[c] /\ p[c] # c
    BY <1>1, <1>4, <2>1, <2>2, <2>3
  <2> QED BY <1>4, <2>1, <2>2, <2>4
<1>5. B = {}
  <2>1. B \in SUBSET D /\ Closed(p, B) /\ \A c \in B : p[c] # c
    BY <1>4 DEF Closed
  <2> HIDE DEF B
  <2> QED BY <2>1 DEF Forest
<1>6. \A x \in D : Good(x)
  BY <1>5
<1> QED BY <1>3, <1>6

\* What union does: it keeps a forest, and x and y are together after it if they were
\* before, or if each was with one of the two that it unites.
LEMMA UnionJoins ==
  ASSUME NEW D, NEW p \in Forest(D), NEW l \in D, NEW r \in D
  PROVE  /\ Union(p, l, r) \in Forest(D)
         /\ \A x, y \in D : Same(Union(p, l, r), x, y) <=>
              \/ Same(p, x, y)
              \/ Same(p, x, l) /\ Same(p, y, r)
              \/ Same(p, x, r) /\ Same(p, y, l)
<1>1. CASE Root(p, l) = Root(p, r)
  <2>1. Union(p, l, r) = p
    BY <1>1 DEF Union
  <2> QED BY <2>1, <1>1 DEF Same
<1>2. CASE Root(p, l) # Root(p, r)
  <2> DEFINE q == Union(p, l, r)
  <2>1. Links(q, p, Root(p, l), Root(p, r))
    BY <1>2 DEF Union, Links
  <2> HIDE DEF q
  <2>2. /\ Root(p, l) \in D /\ p[Root(p, l)] = Root(p, l)
        /\ Root(p, r) \in D /\ p[Root(p, r)] = Root(p, r)
    BY RootIsRoot
  <2>3. /\ q \in Forest(D)
        /\ \A x \in D : Root(q, x) = IF Root(p, x) = Root(p, r) THEN Root(p, l) ELSE Root(p, x)
    BY <2>1, <2>2, <1>2, LinkRoots
  <2> QED BY <2>3 DEF Same, q
<1> QED BY <1>1, <1>2

\* After a union, what was together still is, the two that it unites are, and a set that
\* has both or neither of the two is not divided if it was not before.
Grows(D, p, q) == \A x, y \in D : Same(p, x, y) => Same(q, x, y)

Respects(D, p, F) == \A x, y \in D : Same(p, x, y) => (x \in F <=> y \in F)

LEMMA UnionGrows ==
  ASSUME NEW D, NEW p \in Forest(D), NEW l \in D, NEW r \in D
  PROVE  /\ Union(p, l, r) \in Forest(D)
         /\ Grows(D, p, Union(p, l, r))
         /\ Same(Union(p, l, r), l, r)
         /\ \A F : (l \in F <=> r \in F) /\ Respects(D, p, F) => Respects(D, Union(p, l, r), F)
<1>1. Same(p, l, l) /\ Same(p, r, r)
  BY DEF Same
<1> QED BY <1>1, UnionJoins DEF Grows, Respects

LEMMA GrowsOn ==
  ASSUME NEW D, NEW p, NEW q, NEW t, Grows(D, p, q), Grows(D, q, t)
  PROVE  Grows(D, p, t)
  BY DEF Grows

LEMMA GrowsAlong ==
  ASSUME NEW N \in Nat, NEW D, NEW f, \A k \in 1 .. N : Grows(D, f[k - 1], f[k])
  PROVE  \A k \in 0 .. N : Grows(D, f[k], f[N])
<1> DEFINE S == {m \in 0 .. N : \A k \in 0 .. m : Grows(D, f[k], f[m])}
<1>1. ASSUME NEW n \in 0 .. N, n < N, n \in S PROVE n + 1 \in S
  <2>1. n + 1 \in 1 .. N /\ n + 1 \in 0 .. N /\ (n + 1) - 1 = n
    BY <1>1
  <2>2. Grows(D, f[n], f[n + 1]) /\ Grows(D, f[n + 1], f[n + 1])
    BY <2>1 DEF Grows
  <2>3. ASSUME NEW k \in 0 .. n + 1 PROVE Grows(D, f[k], f[n + 1])
    <3>1. CASE k \in 0 .. n
      BY <3>1, <1>1, <2>2, GrowsOn
    <3>2. CASE k = n + 1
      BY <3>2, <2>2
    <3> QED BY <3>1, <3>2
  <2> QED BY <2>1, <2>3
<1>2. 0 \in S
  BY DEF Grows
<1> HIDE DEF S
<1>3. \A n \in 0 .. N : n \in S
  BY <1>1, <1>2, Induction
<1>4. N \in S
  BY <1>3
<1> QED BY <1>4 DEF S

\* A set of numbers up to N has a greatest element.
LEMMA GreatestNumber ==
  ASSUME NEW N \in Nat, NEW T \in SUBSET (1 .. N), T # {}
  PROVE  \E x \in T : \A y \in T : y <= x
<1> DEFINE U == {n \in Nat : \E x \in T : n = N - x}
<1>0. PICK z \in T : TRUE
  OBVIOUS
<1>1. U \in SUBSET Nat /\ U # {}
  <2>1. N - z \in Nat
    BY <1>0
  <2> QED BY <2>1
<1>2. PICK n \in U : \A k \in U : n <= k
  <2> HIDE DEF U
  <2> QED BY <1>1, LeastNumber
<1>3. PICK x \in T : n = N - x
  BY <1>2
<1>4. \A y \in T : N - y \in U
  OBVIOUS
<1>5. \A y \in T : y <= x
  BY <1>2, <1>3, <1>4
<1> QED BY <1>5

Fixtures(ms) == {ms[i].fixture : i \in Positions(ms)}

\* What the fields of a message hold.
LEMMA MessageFields ==
  ASSUME NEW ms \in Seq(Message), NEW i \in Positions(ms)
  PROVE  /\ ms[i] \in Message /\ ms[i].fixture \in Fixtures(ms) /\ ms[i].fixture \in Nat
         /\ ms[i].id \in MessageId /\ ms[i].references \in Seq(MessageId \cup {Malformed})
         /\ ms[i].reply \in MessageId \cup {Malformed, Absent}
         /\ ms[i].hint \in Hint \cup {Absent, Null} /\ i \in Nat /\ Known(ms, ms[i].id)
<1>1. ms[i] \in Message
  BY DEF Positions
<1> QED BY <1>1 DEF Positions, Message, Fixtures, Known

\* The first and the last message with an ID have it.
LEMMA OwnersHaveTheId ==
  ASSUME NEW ms \in Seq(Message), NEW id, Known(ms, id)
  PROVE  /\ FirstWith(ms, id) \in Positions(ms) /\ ms[FirstWith(ms, id)].id = id
         /\ LastWith(ms, id) \in Positions(ms) /\ ms[LastWith(ms, id)].id = id
<1> DEFINE T == {i \in Positions(ms) : ms[i].id = id}
<1>1. T \in SUBSET (1 .. Len(ms)) /\ T \in SUBSET Nat /\ T # {} /\ Len(ms) \in Nat
  BY DEF Known, Positions
<1>2. \E i \in T : \A j \in T : i <= j
  BY <1>1, LeastNumber
<1>3. \E i \in T : \A j \in T : j <= i
  BY <1>1, GreatestNumber
<1>4. \E i \in Positions(ms) : ms[i].id = id /\ \A j \in Positions(ms) : ms[j].id = id => i <= j
  BY <1>2
<1>5. \E i \in Positions(ms) : ms[i].id = id /\ \A j \in Positions(ms) : ms[j].id = id => j <= i
  BY <1>3
<1> QED BY <1>4, <1>5 DEF FirstWith, LastWith

\* At first, every message is alone.
LEMMA AloneIsForest ==
  ASSUME NEW ms
  PROVE  /\ Alone(ms) \in Forest(Fixtures(ms))
         /\ \A x \in Fixtures(ms) : Root(Alone(ms), x) = x
<1>1. Alone(ms) = [x \in Fixtures(ms) |-> x]
  BY DEF Alone, Fixtures
<1>2. Alone(ms) \in [Fixtures(ms) -> Fixtures(ms)] /\ \A x \in Fixtures(ms) : Alone(ms)[x] = x
  BY <1>1
<1>3. \A x \in Fixtures(ms) : Root(Alone(ms), x) = x
  BY <1>2, RootStep
<1> QED BY <1>2, <1>3 DEF Forest

----------------------------------------------------------------------------
(* Links by ID, references and reply.                                      *)

\* The k-th message named in i's headers, and what it is united with.
Step(ms, i, q, k) ==
  IF Known(ms, Named(ms[i])[k])
  THEN Union(q, ms[LastWith(ms, Named(ms[i])[k])].fixture, ms[i].fixture)
  ELSE q

OwnerLinked(p, ms, i) == Union(p, ms[FirstWith(ms, ms[i].id)].fixture, ms[i].fixture)

LEMMA NamedIsSeq ==
  ASSUME NEW ms \in Seq(Message), NEW i \in Positions(ms)
  PROVE  /\ Len(Named(ms[i])) \in Nat
         /\ \A id : id \in Range(ms[i].references) \cup {ms[i].reply}
                      <=> \E k \in 1 .. Len(Named(ms[i])) : Named(ms[i])[k] = id
<1> DEFINE refs == ms[i].references
<1>1. refs \in Seq(MessageId \cup {Malformed})
  BY MessageFields
<1>2. Named(ms[i]) = Append(refs, ms[i].reply)
  BY DEF Named
<1> HIDE DEF refs
<1>3. Len(refs) \in Nat /\ Range(refs) = {refs[k] : k \in 1 .. Len(refs)}
  BY <1>1 DEF Range
<1>4. /\ Len(Append(refs, ms[i].reply)) = Len(refs) + 1
      /\ \A k \in 1 .. Len(refs) : Append(refs, ms[i].reply)[k] = refs[k]
      /\ Append(refs, ms[i].reply)[Len(refs) + 1] = ms[i].reply
  <2>1. refs \in Seq(MessageId \cup {Malformed} \cup {ms[i].reply})
    BY <1>1
  <2> QED BY <2>1
<1>5. \A k \in 1 .. Len(refs) + 1 : k \in 1 .. Len(refs) \/ k = Len(refs) + 1
  BY <1>3
<1>6. Len(refs) + 1 \in 1 .. Len(refs) + 1 /\ \A k \in 1 .. Len(refs) : k \in 1 .. Len(refs) + 1
  BY <1>3
<1> HIDE DEF refs
<1> QED BY <1>2, <1>3, <1>4, <1>5, <1>6 DEF refs

\* The loop over the headers of a message: a forest after each of them.
LEMMA LinkingLoop ==
  ASSUME NEW ms \in Seq(Message), NEW i \in Positions(ms), NEW p \in Forest(Fixtures(ms))
  PROVE  \E f \in [0 .. Len(Named(ms[i])) -> Forest(Fixtures(ms))] :
           /\ f[0] = OwnerLinked(p, ms, i)
           /\ \A k \in 1 .. Len(Named(ms[i])) : f[k] = Step(ms, i, f[k - 1], k)
           /\ UniteLinked(p, ms, i) = f[Len(Named(ms[i]))]
<1> DEFINE D == Fixtures(ms)
           T == Forest(D)
           N == Len(Named(ms[i]))
           base == OwnerLinked(p, ms, i)
           step == [k \in 1 .. N |-> [q \in T |-> Step(ms, i, q, k)]]
           Body(h) == [k \in 0 .. N |-> IF k = 0 THEN base ELSE Step(ms, i, h[k - 1], k)]
           g == CHOOSE h : h = Body(h)
<1>1. N \in Nat
  BY NamedIsSeq
<1>2. base \in T
  BY MessageFields, OwnersHaveTheId, UnionGrows DEF OwnerLinked
<1>3. ASSUME NEW q \in T, NEW k \in 1 .. N PROVE Step(ms, i, q, k) \in T
  BY MessageFields, OwnersHaveTheId, UnionGrows DEF Step
<1>4. UniteLinked(p, ms, i) = g[N]
  BY DEF UniteLinked, OwnerLinked, Step
<1> HIDE DEF D, T, N, base
<1>5. step \in [1 .. N -> [T -> T]] /\ \A k \in 1 .. N, q \in T : step[k][q] = Step(ms, i, q, k)
  BY <1>3
<1> HIDE DEF step
<1>6. PICK f \in [0 .. N -> T] : IsLoop(f, N, base, step)
  BY <1>1, <1>2, <1>5, LoopExists
<1>7. f = Body(f)
  <2>1. ASSUME NEW k \in 0 .. N
        PROVE  (IF k = 0 THEN base ELSE step[k][f[k - 1]])
                 = IF k = 0 THEN base ELSE Step(ms, i, f[k - 1], k)
    BY <1>5, <1>1
  <2> QED BY <2>1, <1>6 DEF IsLoop
<1>8. g = Body(g)
  BY <1>7
<1> HIDE DEF g
<1>9. g[0] = base /\ \A k \in 1 .. N : g[k] = Step(ms, i, g[k - 1], k)
  BY <1>8, <1>1
<1>10. \A k \in 0 .. N : g[k] \in T
  <2>1. \A k \in 1 .. N : g[k - 1] \in T => g[k] \in T
    BY <1>9, <1>3
  <2> QED BY <2>1, <1>9, <1>2, <1>1, LoopStays
<1>11. g \in [0 .. N -> T]
  <2>1. g = [k \in 0 .. N |-> g[k]]
    BY <1>8
  <2> QED BY <2>1, <1>10
<1> QED BY <1>4, <1>9, <1>11 DEF D, T, N, base

\* After the headers of a message are read, it is with the first message of its ID, and
\* with the last of each ID that it names; a set that has both or neither of any two of
\* these is not divided.
NamedBy(ms, i) == {id \in Range(ms[i].references) \cup {ms[i].reply} : Known(ms, id)}

Undivided(ms, i, F) ==
  /\ ms[FirstWith(ms, ms[i].id)].fixture \in F <=> ms[i].fixture \in F
  /\ \A id \in NamedBy(ms, i) : ms[LastWith(ms, id)].fixture \in F <=> ms[i].fixture \in F

LEMMA UniteLinkedJoins ==
  ASSUME NEW ms \in Seq(Message), NEW i \in Positions(ms), NEW p \in Forest(Fixtures(ms))
  PROVE  /\ UniteLinked(p, ms, i) \in Forest(Fixtures(ms))
         /\ Grows(Fixtures(ms), p, UniteLinked(p, ms, i))
         /\ Same(UniteLinked(p, ms, i), ms[FirstWith(ms, ms[i].id)].fixture, ms[i].fixture)
         /\ \A id \in NamedBy(ms, i) :
              Same(UniteLinked(p, ms, i), ms[LastWith(ms, id)].fixture, ms[i].fixture)
         /\ \A F : Respects(Fixtures(ms), p, F) /\ Undivided(ms, i, F)
                     => Respects(Fixtures(ms), UniteLinked(p, ms, i), F)
<1> DEFINE D == Fixtures(ms)
           N == Len(Named(ms[i]))
           own == ms[i].fixture
           owner == ms[FirstWith(ms, ms[i].id)].fixture
           id(k) == Named(ms[i])[k]
           last(k) == ms[LastWith(ms, id(k))].fixture
<1>1. PICK f \in [0 .. N -> Forest(D)] :
        /\ f[0] = OwnerLinked(p, ms, i)
        /\ \A k \in 1 .. N : f[k] = Step(ms, i, f[k - 1], k)
        /\ UniteLinked(p, ms, i) = f[N]
  BY LinkingLoop
<1>2. N \in Nat /\ own \in D /\ owner \in D /\ \A k \in 1 .. N : Known(ms, id(k)) => last(k) \in D
  BY NamedIsSeq, MessageFields, OwnersHaveTheId
<1>3. \A a : a \in NamedBy(ms, i) <=> \E k \in 1 .. N : a = id(k) /\ Known(ms, id(k))
  BY NamedIsSeq DEF NamedBy
<1>4. /\ Grows(D, p, f[0]) /\ Same(f[0], owner, own)
      /\ \A F : (owner \in F <=> own \in F) /\ Respects(D, p, F) => Respects(D, f[0], F)
  BY <1>1, <1>2, UnionGrows DEF OwnerLinked
<1>5. ASSUME NEW k \in 1 .. N
      PROVE  /\ k - 1 \in 0 .. N /\ Grows(D, f[k - 1], f[k])
             /\ Known(ms, id(k)) => Same(f[k], last(k), own)
             /\ \A F : (Known(ms, id(k)) => (last(k) \in F <=> own \in F)) /\ Respects(D, f[k - 1], F)
                         => Respects(D, f[k], F)
  <2>1. k - 1 \in 0 .. N /\ f[k - 1] \in Forest(D)
    BY <1>2
  <2>2. CASE Known(ms, id(k))
    <3>1. f[k] = Union(f[k - 1], last(k), own)
      BY <1>1, <2>2 DEF Step
    <3> HIDE DEF own, id, last, D
    <3>2. last(k) \in D /\ own \in D
      BY <1>2, <2>2
    <3> DEFINE q == f[k - 1]
    <3>3. q \in Forest(D)
      BY <2>1
    <3> HIDE DEF q
    <3>4. /\ Grows(D, q, Union(q, last(k), own)) /\ Same(Union(q, last(k), own), last(k), own)
          /\ \A F : (last(k) \in F <=> own \in F) /\ Respects(D, q, F)
                      => Respects(D, Union(q, last(k), own), F)
      BY <3>2, <3>3, UnionGrows
    <3>5. f[k] = Union(q, last(k), own)
      BY <3>1 DEF q
    <3>6. /\ Grows(D, q, f[k]) /\ Same(f[k], last(k), own)
          /\ \A F : (last(k) \in F <=> own \in F) /\ Respects(D, q, F) => Respects(D, f[k], F)
      BY <3>4, <3>5, Zenon
    <3> QED BY <3>6, <2>1, <2>2, Zenon DEF q
  <2>3. CASE ~Known(ms, id(k))
    <3>1. f[k] = f[k - 1]
      BY <1>1, <2>3 DEF Step
    <3> QED BY <3>1, <2>1, <2>3 DEF Grows
  <2> QED BY <2>2, <2>3
<1> HIDE DEF D, N, own, owner, id, last
<1>6. ASSUME NEW F, Respects(D, p, F), Undivided(ms, i, F) PROVE  Respects(D, f[N], F)
  <2>0. /\ owner \in F <=> own \in F
        /\ \A a \in NamedBy(ms, i) : ms[LastWith(ms, a)].fixture \in F <=> own \in F
    BY <1>6 DEF Undivided, owner, own
  <2>1. \A k \in 1 .. N : Respects(D, f[k - 1], F) => Respects(D, f[k], F)
    BY <1>3, <1>5, <2>0 DEF last
  <2> DEFINE T == {q \in Forest(D) : Respects(D, q, F)}
  <2>2. f[0] \in T /\ \A k \in 1 .. N : f[k - 1] \in T => f[k] \in T
    BY <2>0, <2>1, <1>2, <1>4, <1>6
  <2> HIDE DEF T
  <2>3. \A k \in 0 .. N : f[k] \in T
    BY <2>2, <1>2, LoopStays
  <2>4. f[N] \in T
    BY <2>3, <1>2
  <2> QED BY <2>4 DEF T
<1>8. \A k \in 0 .. N : Grows(D, f[k], f[N])
  BY <1>2, <1>5, GrowsAlong
<1>9. Grows(D, p, f[N]) /\ Same(f[N], owner, own)
  BY <1>2, <1>4, <1>8, GrowsOn DEF Grows
<1>10. ASSUME NEW a \in NamedBy(ms, i) PROVE Same(f[N], ms[LastWith(ms, a)].fixture, own)
  <2>1. PICK k \in 1 .. N : a = id(k) /\ Known(ms, id(k))
    BY <1>3
  <2>2. Same(f[k], last(k), own) /\ last(k) \in D
    BY <2>1, <1>2, <1>5
  <2> QED BY <2>1, <2>2, <1>2, <1>8 DEF Grows, last
<1>11. f[N] \in Forest(D)
  BY <1>2
<1> QED BY <1>1, <1>6, <1>9, <1>10, <1>11 DEF D, N, own, owner

\* The loop over the messages: a forest after each of them.
LEMMA ExplicitLoop ==
  ASSUME NEW ms \in Seq(Message)
  PROVE  \E f \in [0 .. Len(ms) -> Forest(Fixtures(ms))] :
           /\ f[0] = Alone(ms)
           /\ \A i \in Positions(ms) : f[i] = UniteLinked(f[i - 1], ms, i)
           /\ ExplicitLinks(ms) = f[Len(ms)]
<1> DEFINE D == Fixtures(ms)
           T == Forest(D)
           N == Len(ms)
           base == Alone(ms)
           step == [i \in 1 .. N |-> [q \in T |-> UniteLinked(q, ms, i)]]
           Body(h) == [i \in 0 .. N |-> IF i = 0 THEN base ELSE UniteLinked(h[i - 1], ms, i)]
           g == CHOOSE h : h = Body(h)
<1>1. N \in Nat /\ 1 .. N = Positions(ms)
  BY DEF Positions
<1>2. base \in T
  BY AloneIsForest
<1>3. ASSUME NEW q \in T, NEW i \in 1 .. N PROVE UniteLinked(q, ms, i) \in T
  BY <1>1, UniteLinkedJoins
<1>4. ExplicitLinks(ms) = g[N]
  BY DEF ExplicitLinks
<1> HIDE DEF D, T, N, base
<1>5. step \in [1 .. N -> [T -> T]] /\ \A i \in 1 .. N, q \in T : step[i][q] = UniteLinked(q, ms, i)
  BY <1>3
<1> HIDE DEF step
<1>6. PICK f \in [0 .. N -> T] : IsLoop(f, N, base, step)
  BY <1>1, <1>2, <1>5, LoopExists
<1>7. f = Body(f)
  <2>1. ASSUME NEW i \in 0 .. N
        PROVE  (IF i = 0 THEN base ELSE step[i][f[i - 1]])
                 = IF i = 0 THEN base ELSE UniteLinked(f[i - 1], ms, i)
    BY <1>5, <1>1
  <2> QED BY <2>1, <1>6 DEF IsLoop
<1>8. g = Body(g)
  BY <1>7
<1> HIDE DEF g
<1>9. g[0] = base /\ \A i \in 1 .. N : g[i] = UniteLinked(g[i - 1], ms, i)
  BY <1>8, <1>1
<1>10. \A i \in 0 .. N : g[i] \in T
  <2>1. \A i \in 1 .. N : g[i - 1] \in T => g[i] \in T
    BY <1>9, <1>3
  <2> QED BY <2>1, <1>9, <1>2, <1>1, LoopStays
<1>11. g \in [0 .. N -> T]
  <2>1. g = [i \in 0 .. N |-> g[i]]
    BY <1>8
  <2> QED BY <2>1, <1>10
<1> QED BY <1>1, <1>4, <1>9, <1>11 DEF D, T, N, base

\* After the loop, every message is with the first of its ID and with the last of each ID
\* that it names, and no set is divided that has both or neither of any two of these.
LEMMA ExplicitLinksJoin ==
  ASSUME NEW ms \in Seq(Message)
  PROVE  /\ ExplicitLinks(ms) \in Forest(Fixtures(ms))
         /\ \A i \in Positions(ms) :
              /\ Same(ExplicitLinks(ms), ms[FirstWith(ms, ms[i].id)].fixture, ms[i].fixture)
              /\ \A id \in NamedBy(ms, i) :
                   Same(ExplicitLinks(ms), ms[LastWith(ms, id)].fixture, ms[i].fixture)
         /\ \A F : (\A i \in Positions(ms) : Undivided(ms, i, F))
                     => Respects(Fixtures(ms), ExplicitLinks(ms), F)
<1> DEFINE D == Fixtures(ms)
           N == Len(ms)
<1>1. PICK f \in [0 .. N -> Forest(D)] :
        /\ f[0] = Alone(ms)
        /\ \A i \in Positions(ms) : f[i] = UniteLinked(f[i - 1], ms, i)
        /\ ExplicitLinks(ms) = f[N]
  BY ExplicitLoop
<1>2. N \in Nat /\ 1 .. N = Positions(ms) /\ \A i \in 1 .. N : i - 1 \in 0 .. N
  BY DEF Positions
<1>3. \A i \in 1 .. N : Grows(D, f[i - 1], f[i])
  BY <1>1, <1>2, UniteLinkedJoins
<1>4. \A i \in 0 .. N : Grows(D, f[i], f[N])
  BY <1>2, <1>3, GrowsAlong
<1>5. ASSUME NEW i \in Positions(ms)
      PROVE  /\ Same(f[N], ms[FirstWith(ms, ms[i].id)].fixture, ms[i].fixture)
             /\ \A id \in NamedBy(ms, i) :
                  Same(f[N], ms[LastWith(ms, id)].fixture, ms[i].fixture)
  <2>1. f[i - 1] \in Forest(D) /\ f[i] = UniteLinked(f[i - 1], ms, i) /\ i \in 0 .. N
    BY <1>1, <1>2
  <2>2. /\ Same(f[i], ms[FirstWith(ms, ms[i].id)].fixture, ms[i].fixture)
        /\ \A id \in NamedBy(ms, i) :
             Same(f[i], ms[LastWith(ms, id)].fixture, ms[i].fixture)
    BY <2>1, UniteLinkedJoins
  <2>3. ms[i].fixture \in D /\ ms[FirstWith(ms, ms[i].id)].fixture \in D
    BY MessageFields, OwnersHaveTheId
  <2>4. \A id \in NamedBy(ms, i) : ms[LastWith(ms, id)].fixture \in D
    BY MessageFields, OwnersHaveTheId DEF NamedBy
  <2>5. Grows(D, f[i], f[N])
    BY <2>1, <1>4
  <2> HIDE DEF D
  <2> QED BY <2>2, <2>3, <2>4, <2>5 DEF Grows
<1>6. ASSUME NEW F, \A i \in Positions(ms) : Undivided(ms, i, F) PROVE Respects(D, f[N], F)
  <2> DEFINE T == {q \in Forest(D) : Respects(D, q, F)}
  <2>1. f[0] \in T
    BY <1>1, AloneIsForest DEF Respects, Same
  <2>2. \A i \in 1 .. N : f[i - 1] \in T => f[i] \in T
    BY <1>1, <1>2, <1>6, UniteLinkedJoins
  <2> HIDE DEF T
  <2>3. \A i \in 0 .. N : f[i] \in T
    BY <2>1, <2>2, <1>2, LoopStays
  <2>4. f[N] \in T
    BY <2>3, <1>2
  <2> QED BY <2>4 DEF T
<1>7. f[N] \in Forest(D)
  BY <1>2
<1> QED BY <1>1, <1>5, <1>6, <1>7

----------------------------------------------------------------------------
(* Components.                                                             *)

FixturesOf(ms, C) == {ms[i].fixture : i \in C}

\* A set of messages that is closed under the relation of headers is one of fixture_ids,
\* and no step of the explicit links divides it.
LEMMA ClosedIsUndivided ==
  ASSUME NEW ms \in Seq(Message), NEW C \in SUBSET Positions(ms),
         \A a \in C, b \in Positions(ms) : Related(ms, a, b) => b \in C
  PROVE  /\ \A a \in Positions(ms) : ms[a].fixture \in FixturesOf(ms, C) <=> a \in C
         /\ \A a \in Positions(ms) : Undivided(ms, a, FixturesOf(ms, C))
<1>1. \A a, b \in Positions(ms) : Related(ms, a, b) \/ Related(ms, b, a) => (a \in C <=> b \in C)
  <2>1. \A a, b \in Positions(ms) : Related(ms, a, b) => Related(ms, b, a)
    BY Zenon DEF Related
  <2> QED BY <2>1
<1>2. \A a \in Positions(ms) : ms[a].fixture \in FixturesOf(ms, C) <=> a \in C
  BY <1>1 DEF FixturesOf, Related
<1>3. ASSUME NEW a \in Positions(ms) PROVE Undivided(ms, a, FixturesOf(ms, C))
  <2>1. FirstWith(ms, ms[a].id) \in C <=> a \in C
    <3>1. FirstWith(ms, ms[a].id) \in Positions(ms) /\ ms[FirstWith(ms, ms[a].id)].id = ms[a].id
      BY MessageFields, OwnersHaveTheId
    <3>2. Related(ms, FirstWith(ms, ms[a].id), a)
      BY <3>1, Zenon DEF Related
    <3> QED BY <3>1, <3>2, <1>1
  <2>2. ASSUME NEW id \in NamedBy(ms, a) PROVE LastWith(ms, id) \in C <=> a \in C
    <3>1. LastWith(ms, id) \in Positions(ms) /\ ms[LastWith(ms, id)].id = id
      BY OwnersHaveTheId DEF NamedBy
    <3>2. ms[LastWith(ms, id)].id \in Range(ms[a].references) \cup {ms[a].reply}
      BY <3>1 DEF NamedBy
    <3>3. Related(ms, a, LastWith(ms, id))
      BY <3>2, Zenon DEF Related
    <3> QED BY <3>1, <3>3, <1>1
  <2>3. /\ FirstWith(ms, ms[a].id) \in Positions(ms)
        /\ \A id \in NamedBy(ms, a) : LastWith(ms, id) \in Positions(ms)
    BY MessageFields, OwnersHaveTheId DEF NamedBy
  <2> QED BY <1>2, <2>1, <2>2, <2>3 DEF Undivided
<1> QED BY <1>2, <1>3

\* What has the explicit links has related messages together.
LEMMA RelatedAreTogether ==
  ASSUME NEW ms \in Seq(Message), NEW a \in Positions(ms), NEW b \in Positions(ms),
         Related(ms, a, b)
  PROVE  Same(ExplicitLinks(ms), ms[a].fixture, ms[b].fixture)
<1> DEFINE p == ExplicitLinks(ms)
           fix(i) == ms[i].fixture
<1>1. ASSUME NEW i \in Positions(ms), NEW j \in Positions(ms), ms[i].id = ms[j].id
      PROVE  Same(p, fix(i), fix(j))
  <2>1. /\ Same(p, fix(FirstWith(ms, ms[i].id)), fix(i))
        /\ Same(p, fix(FirstWith(ms, ms[j].id)), fix(j))
    BY ExplicitLinksJoin
  <2> QED BY <1>1, <2>1 DEF Same
<1>2. ASSUME NEW i \in Positions(ms), NEW j \in Positions(ms),
             ms[j].id \in Range(ms[i].references) \cup {ms[i].reply}
      PROVE  Same(p, fix(i), fix(j))
  <2>1. ms[j].id \in NamedBy(ms, i) /\ Known(ms, ms[j].id)
    BY <1>2, MessageFields DEF NamedBy
  <2>2. Same(p, fix(LastWith(ms, ms[j].id)), fix(i))
    BY <2>1, ExplicitLinksJoin
  <2>3. LastWith(ms, ms[j].id) \in Positions(ms) /\ ms[LastWith(ms, ms[j].id)].id = ms[j].id
    BY <2>1, OwnersHaveTheId
  <2>4. Same(p, fix(LastWith(ms, ms[j].id)), fix(j))
    BY <2>3, <1>1
  <2> QED BY <2>2, <2>4 DEF Same
<1> HIDE DEF p, fix
<1>3. CASE ms[a].fixture = ms[b].fixture
  BY <1>3 DEF Same, fix
<1>4. CASE ms[a].id = ms[b].id
  BY <1>4, <1>1 DEF p, fix
<1>5. CASE ms[b].id \in Range(ms[a].references) \cup {ms[a].reply}
  BY <1>5, <1>2 DEF p, fix
<1>6. CASE ms[a].id \in Range(ms[b].references) \cup {ms[b].reply}
  <2>1. Same(p, fix(b), fix(a))
    BY <1>6, <1>2
  <2> QED BY <2>1 DEF Same, p, fix
<1>7. Same(p, fix(a), fix(b))
  BY <1>3, <1>4, <1>5, <1>6, Zenon DEF Related, p, fix
<1> QED BY <1>7 DEF p, fix

\* The explicit links make the components of the relation of headers.
LEMMA HeadersMakeExplicitLinks ==
  ASSUME NEW ms \in Seq(Message), NEW i \in Positions(ms), NEW j \in Positions(ms)
  PROVE  Same(ExplicitLinks(ms), ms[i].fixture, ms[j].fixture) <=> ByHeaders(ms, i, j)
<1> DEFINE p == ExplicitLinks(ms)
<1>1. ASSUME Same(p, ms[i].fixture, ms[j].fixture) PROVE ByHeaders(ms, i, j)
  <2>1. ASSUME NEW C \in SUBSET Positions(ms), i \in C,
               \A a \in C, b \in Positions(ms) : Related(ms, a, b) => b \in C
        PROVE  j \in C
    <3>1. /\ \A a \in Positions(ms) : ms[a].fixture \in FixturesOf(ms, C) <=> a \in C
          /\ Respects(Fixtures(ms), p, FixturesOf(ms, C))
      BY <2>1, ClosedIsUndivided, ExplicitLinksJoin
    <3>2. ms[i].fixture \in Fixtures(ms) /\ ms[j].fixture \in Fixtures(ms)
      BY MessageFields
    <3> HIDE DEF p
    <3> QED BY <1>1, <2>1, <3>1, <3>2 DEF Respects
  <2> QED BY <2>1 DEF ByHeaders, Connected
<1>2. ASSUME ByHeaders(ms, i, j) PROVE Same(p, ms[i].fixture, ms[j].fixture)
  <2> DEFINE C == {b \in Positions(ms) : Same(p, ms[i].fixture, ms[b].fixture)}
  <2>1. i \in C
    BY DEF Same
  <2>2. \A a \in C, b \in Positions(ms) : Related(ms, a, b) => b \in C
    BY RelatedAreTogether DEF Same
  <2> HIDE DEF C
  <2>3. C \in SUBSET Positions(ms)
    BY DEF C
  <2>4. j \in C
    BY <2>1, <2>2, <2>3, <1>2 DEF ByHeaders, Connected
  <2> QED BY <2>4 DEF C
<1> QED BY <1>1, <1>2

----------------------------------------------------------------------------
(* The fallback to subjects.                                               *)

\* Where the fallback is: the links, and the messages that it has linked.
LinkStates(D) == [parent : Forest(D), fallback : SUBSET D]

\* The fallback has only added to the links p, and is recorded wherever it has: messages it
\* has brought together are with one that it has linked, and each of these is with another
\* that the links p do not have it with.
Tracks(D, p, s) ==
  /\ Grows(D, p, s.parent)
  /\ \A x, y \in D : Same(s.parent, x, y) /\ ~Same(p, x, y) =>
       \E z \in s.fallback : Same(s.parent, z, x)
  /\ \A z \in s.fallback : \E l \in D : Same(s.parent, l, z) /\ ~Same(p, l, z)

LEMMA BySubjectJoins ==
  ASSUME NEW D, NEW s \in LinkStates(D), NEW root \in D, NEW m, m.fixture \in D
  PROVE  /\ BySubject(s, root, m) \in LinkStates(D)
         /\ Grows(D, s.parent, BySubject(s, root, m).parent)
         /\ Unlinked(m) => Same(BySubject(s, root, m).parent, root, m.fixture)
         /\ \A F : Respects(D, s.parent, F) /\ (Unlinked(m) => (root \in F <=> m.fixture \in F))
                     => Respects(D, BySubject(s, root, m).parent, F)
         /\ \A p : Tracks(D, p, s) => Tracks(D, p, BySubject(s, root, m))
<1>1. s.parent \in Forest(D) /\ s.fallback \in SUBSET D
  BY DEF LinkStates
<1>2. CASE Unlinked(m) /\ Root(s.parent, root) # Root(s.parent, m.fixture)
  <2> DEFINE t == BySubject(s, root, m)
             f == m.fixture
  <2>1. t = [parent |-> Union(s.parent, root, f), fallback |-> s.fallback \cup {f}]
    BY <1>2 DEF BySubject
  <2>2. t.parent = Union(s.parent, root, f) /\ t.fallback = s.fallback \cup {f} /\ f \in D
    BY <2>1
  <2> HIDE DEF t, f
  <2>3. /\ t.parent \in Forest(D)
        /\ Grows(D, s.parent, t.parent)
        /\ Same(t.parent, root, f)
        /\ \A F : (root \in F <=> f \in F) /\ Respects(D, s.parent, F) => Respects(D, t.parent, F)
    BY <1>1, <2>2, UnionGrows
  <2>4. t \in LinkStates(D)
    BY <1>1, <2>1, <2>2, <2>3 DEF LinkStates, t
  <2>5. \A x, y \in D : Same(t.parent, x, y) <=>
              \/ Same(s.parent, x, y)
              \/ Same(s.parent, x, root) /\ Same(s.parent, y, f)
              \/ Same(s.parent, x, f) /\ Same(s.parent, y, root)
    <3> DEFINE p == s.parent
    <3>1. p \in Forest(D) /\ t.parent = Union(p, root, f)
      BY <1>1, <2>2
    <3> HIDE DEF p
    <3>2. \A x, y \in D : Same(Union(p, root, f), x, y) <=>
              \/ Same(p, x, y)
              \/ Same(p, x, root) /\ Same(p, y, f)
              \/ Same(p, x, f) /\ Same(p, y, root)
      BY <3>1, <2>2, UnionJoins
    <3> QED BY <3>1, <3>2 DEF p
  <2>6. ASSUME NEW p, Tracks(D, p, s) PROVE Tracks(D, p, t)
    <3>1. Grows(D, p, t.parent)
      BY <2>3, <2>6, GrowsOn DEF Tracks
    <3>2. ASSUME NEW x \in D, NEW y \in D, Same(t.parent, x, y), ~Same(p, x, y)
          PROVE  \E z \in t.fallback : Same(t.parent, z, x)
      <4>1. CASE Same(s.parent, x, y)
        <5>1. PICK z \in s.fallback : Same(s.parent, z, x)
          BY <2>6, <3>2, <4>1 DEF Tracks
        <5>2. Same(t.parent, z, x)
          BY <5>1, <1>1, <2>3 DEF Grows
        <5> QED BY <5>1, <5>2, <2>2
      <4>2. CASE ~Same(s.parent, x, y)
        <5>1. Same(t.parent, f, x)
          <6>1. Same(t.parent, f, root) /\ f \in D
            BY <2>2, <2>3 DEF Same
          <6>2. Same(t.parent, x, root) \/ Same(t.parent, x, f)
            BY <2>3, <2>5, <3>2, <4>2, <6>1 DEF Grows
          <6> QED BY <6>1, <6>2 DEF Same
        <5> QED BY <5>1, <2>2
      <4> QED BY <4>1, <4>2
    <3>3. ASSUME NEW z \in t.fallback
          PROVE  \E l \in D : Same(t.parent, l, z) /\ ~Same(p, l, z)
      <4>1. CASE z = f
        <5>1. ~Same(p, root, f)
          BY <1>2, <2>6 DEF Tracks, Grows, Same, f
        <5> QED BY <4>1, <5>1, <2>3
      <4>2. CASE z \in s.fallback
        <5>1. PICK l \in D : Same(s.parent, l, z) /\ ~Same(p, l, z)
          BY <2>6, <4>2 DEF Tracks
        <5>2. Same(t.parent, l, z)
          BY <5>1, <4>2, <1>1, <2>3 DEF Grows
        <5> QED BY <5>1, <5>2
      <4> QED BY <4>1, <4>2, <2>2
    <3> QED BY <3>1, <3>2, <3>3 DEF Tracks
  <2>7. Grows(D, s.parent, t.parent) /\ Same(t.parent, root, f)
    BY <2>3
  <2> QED BY <1>2, <2>3, <2>4, <2>6, <2>7 DEF t, f
<1>3. CASE ~(Unlinked(m) /\ Root(s.parent, root) # Root(s.parent, m.fixture))
  <2>1. BySubject(s, root, m) = s
    BY <1>3 DEF BySubject
  <2>2. Unlinked(m) => Same(s.parent, root, m.fixture)
    BY <1>3 DEF Same
  <2> QED BY <2>1, <2>2, <1>1 DEF Grows
<1> QED BY <1>2, <1>3

\* The loop over the later messages of a subject.
SubjectStep(ms, i, q, j) ==
  IF j > i /\ ms[j].subject = ms[i].subject THEN BySubject(q, ms[i].fixture, ms[j]) ELSE q

LEMMA SubjectLoop ==
  ASSUME NEW ms \in Seq(Message), NEW i \in Positions(ms), NEW s \in LinkStates(Fixtures(ms))
  PROVE  \E f \in [0 .. Len(ms) -> LinkStates(Fixtures(ms))] :
           /\ f[0] = s
           /\ \A j \in Positions(ms) : f[j] = SubjectStep(ms, i, f[j - 1], j)
           /\ UniteSubject(s, ms, i) = f[Len(ms)]
<1> DEFINE T == LinkStates(Fixtures(ms))
           N == Len(ms)
           step == [j \in 1 .. N |-> [q \in T |-> SubjectStep(ms, i, q, j)]]
           Body(h) == [j \in 0 .. N |-> IF j = 0 THEN s ELSE SubjectStep(ms, i, h[j - 1], j)]
           g == CHOOSE h : h = Body(h)
<1>1. N \in Nat /\ 1 .. N = Positions(ms)
  BY DEF Positions
<1>2. ASSUME NEW q \in T, NEW j \in 1 .. N PROVE SubjectStep(ms, i, q, j) \in T
  BY <1>1, MessageFields, BySubjectJoins DEF SubjectStep
<1>3. UniteSubject(s, ms, i) = g[N]
  BY DEF UniteSubject, SubjectStep
<1>4. s \in T
  OBVIOUS
<1> HIDE DEF T, N
<1>5. step \in [1 .. N -> [T -> T]] /\ \A j \in 1 .. N, q \in T : step[j][q] = SubjectStep(ms, i, q, j)
  BY <1>2
<1> HIDE DEF step
<1>6. PICK f \in [0 .. N -> T] : IsLoop(f, N, s, step)
  BY <1>1, <1>4, <1>5, LoopExists
<1>7. f = Body(f)
  <2>1. ASSUME NEW j \in 0 .. N
        PROVE  (IF j = 0 THEN s ELSE step[j][f[j - 1]])
                 = IF j = 0 THEN s ELSE SubjectStep(ms, i, f[j - 1], j)
    BY <1>5, <1>1
  <2> QED BY <2>1, <1>6 DEF IsLoop
<1>8. g = Body(g)
  BY <1>7
<1> HIDE DEF g
<1>9. g[0] = s /\ \A j \in 1 .. N : g[j] = SubjectStep(ms, i, g[j - 1], j)
  BY <1>8, <1>1
<1>10. \A j \in 0 .. N : g[j] \in T
  <2>1. \A j \in 1 .. N : g[j - 1] \in T => g[j] \in T
    BY <1>9, <1>2
  <2> QED BY <2>1, <1>9, <1>4, <1>1, LoopStays
<1>11. g \in [0 .. N -> T]
  <2>1. g = [j \in 0 .. N |-> g[j]]
    BY <1>8
  <2> QED BY <2>1, <1>10
<1> QED BY <1>1, <1>3, <1>9, <1>11 DEF T, N

\* After it, those of them that have no link are with the first message of the subject.
Follows(ms, i, j) == i < j /\ ms[i].subject = ms[j].subject /\ Unlinked(ms[j])

LEMMA UniteSubjectJoins ==
  ASSUME NEW ms \in Seq(Message), NEW i \in Positions(ms), NEW s \in LinkStates(Fixtures(ms))
  PROVE  /\ UniteSubject(s, ms, i) \in LinkStates(Fixtures(ms))
         /\ Grows(Fixtures(ms), s.parent, UniteSubject(s, ms, i).parent)
         /\ \A j \in Positions(ms) :
              Follows(ms, i, j) => Same(UniteSubject(s, ms, i).parent, ms[i].fixture, ms[j].fixture)
         /\ \A F : /\ Respects(Fixtures(ms), s.parent, F)
                   /\ \A j \in Positions(ms) :
                        Follows(ms, i, j) => (ms[i].fixture \in F <=> ms[j].fixture \in F)
                   => Respects(Fixtures(ms), UniteSubject(s, ms, i).parent, F)
         /\ \A p : Tracks(Fixtures(ms), p, s) => Tracks(Fixtures(ms), p, UniteSubject(s, ms, i))
<1> DEFINE D == Fixtures(ms)
           N == Len(ms)
<1>1. PICK f \in [0 .. N -> LinkStates(D)] :
        /\ f[0] = s
        /\ \A j \in Positions(ms) : f[j] = SubjectStep(ms, i, f[j - 1], j)
        /\ UniteSubject(s, ms, i) = f[N]
  BY SubjectLoop
<1>2. N \in Nat /\ i \in 1 .. N /\ 1 .. N = Positions(ms)
      /\ \A j \in 1 .. N : j - 1 \in 0 .. N /\ j \in 0 .. N /\ ms[j].fixture \in D
  BY MessageFields DEF Positions
<1> HIDE DEF D, N
<1>3. ASSUME NEW j \in 1 .. N
      PROVE  /\ Grows(D, f[j - 1].parent, f[j].parent)
             /\ Follows(ms, i, j) => Same(f[j].parent, ms[i].fixture, ms[j].fixture)
             /\ \A F : /\ Respects(D, f[j - 1].parent, F)
                       /\ Follows(ms, i, j) => (ms[i].fixture \in F <=> ms[j].fixture \in F)
                       => Respects(D, f[j].parent, F)
             /\ \A p : Tracks(D, p, f[j - 1]) => Tracks(D, p, f[j])
  <2> DEFINE q == f[j - 1]
             root == ms[i].fixture
             m == ms[j]
  <2>1. q \in LinkStates(D) /\ root \in D /\ m.fixture \in D
    BY <1>1, <1>2
  <2>2. CASE j > i /\ ms[j].subject = ms[i].subject
    <3>1. f[j] = BySubject(q, root, m)
      BY <1>1, <1>2, <2>2 DEF SubjectStep
    <3>2. Follows(ms, i, j) <=> Unlinked(m)
      BY <1>2, <2>2 DEF Follows
    <3> HIDE DEF q, root, m
    <3>3. /\ Grows(D, q.parent, BySubject(q, root, m).parent)
          /\ Unlinked(m) => Same(BySubject(q, root, m).parent, root, m.fixture)
          /\ \A F : Respects(D, q.parent, F) /\ (Unlinked(m) => (root \in F <=> m.fixture \in F))
                     => Respects(D, BySubject(q, root, m).parent, F)
          /\ \A p : Tracks(D, p, q) => Tracks(D, p, BySubject(q, root, m))
      BY <2>1, BySubjectJoins
    <3> QED BY <3>1, <3>2, <3>3, Zenon DEF q, root, m
  <2>3. CASE ~(j > i /\ ms[j].subject = ms[i].subject)
    <3>1. f[j] = q
      BY <1>1, <1>2, <2>3 DEF SubjectStep
    <3>2. ~Follows(ms, i, j)
      BY <1>2, <2>3 DEF Follows
    <3>3. Grows(D, q.parent, q.parent)
      BY DEF Grows
    <3> QED BY <3>1, <3>2, <3>3
  <2> QED BY <2>2, <2>3
<1>4. \A j \in 0 .. N : Grows(D, f[j].parent, f[N].parent)
  <2> DEFINE h == [j \in 0 .. N |-> f[j].parent]
  <2>1. \A j \in 0 .. N : h[j] = f[j].parent
    OBVIOUS
  <2> HIDE DEF h
  <2>2. \A j \in 1 .. N : Grows(D, h[j - 1], h[j])
    BY <1>2, <1>3, <2>1
  <2>3. \A j \in 0 .. N : Grows(D, h[j], h[N])
    BY <1>2, <2>2, GrowsAlong
  <2> QED BY <1>2, <2>1, <2>3
<1>5. ASSUME NEW j \in 1 .. N, Follows(ms, i, j)
      PROVE  Same(f[N].parent, ms[i].fixture, ms[j].fixture)
  BY <1>2, <1>3, <1>4, <1>5 DEF Grows
<1>6. ASSUME NEW F, Respects(D, s.parent, F),
             \A j \in 1 .. N : Follows(ms, i, j) => (ms[i].fixture \in F <=> ms[j].fixture \in F)
      PROVE  Respects(D, f[N].parent, F)
  <2> DEFINE T == {q \in LinkStates(D) : Respects(D, q.parent, F)}
  <2>1. f[0] \in T
    BY <1>1, <1>2, <1>6
  <2>2. \A j \in 1 .. N : f[j - 1] \in T => f[j] \in T
    BY <1>2, <1>3, <1>6
  <2> HIDE DEF T
  <2>3. \A j \in 0 .. N : f[j] \in T
    BY <2>1, <2>2, <1>2, LoopStays
  <2>4. f[N] \in T
    BY <2>3, <1>2
  <2> QED BY <2>4 DEF T
<1>7. ASSUME NEW p, Tracks(D, p, s) PROVE Tracks(D, p, f[N])
  <2> DEFINE T == {q \in LinkStates(D) : Tracks(D, p, q)}
  <2>1. f[0] \in T
    BY <1>1, <1>2, <1>7
  <2>2. \A j \in 1 .. N : f[j - 1] \in T => f[j] \in T
    BY <1>2, <1>3
  <2> HIDE DEF T
  <2>3. \A j \in 0 .. N : f[j] \in T
    BY <2>1, <2>2, <1>2, LoopStays
  <2>4. f[N] \in T
    BY <2>3, <1>2
  <2> QED BY <2>4 DEF T
<1>8. f[N] \in LinkStates(D) /\ Grows(D, s.parent, f[N].parent)
  <2>1. N \in 0 .. N /\ 0 \in 0 .. N
    BY <1>2
  <2> QED BY <2>1, <1>1, <1>4
<1> QED BY <1>1, <1>2, <1>5, <1>6, <1>7, <1>8 DEF D

\* The loop over the subjects.
GroupStep(ms, q, i) == IF FirstOfSubject(ms, i) THEN UniteSubject(q, ms, i) ELSE q

Explicit(ms) == [parent |-> ExplicitLinks(ms), fallback |-> {}]

LEMMA AllLoop ==
  ASSUME NEW ms \in Seq(Message)
  PROVE  \E f \in [0 .. Len(ms) -> LinkStates(Fixtures(ms))] :
           /\ f[0] = Explicit(ms)
           /\ \A i \in Positions(ms) : f[i] = GroupStep(ms, f[i - 1], i)
           /\ AllLinks(ms) = f[Len(ms)]
<1> DEFINE T == LinkStates(Fixtures(ms))
           N == Len(ms)
           base == Explicit(ms)
           step == [i \in 1 .. N |-> [q \in T |-> GroupStep(ms, q, i)]]
           Body(h) == [i \in 0 .. N |-> IF i = 0 THEN base ELSE GroupStep(ms, h[i - 1], i)]
           g == CHOOSE h : h = Body(h)
<1>1. N \in Nat /\ 1 .. N = Positions(ms)
  BY DEF Positions
<1>2. ASSUME NEW q \in T, NEW i \in 1 .. N PROVE GroupStep(ms, q, i) \in T
  BY <1>1, UniteSubjectJoins DEF GroupStep
<1>3. AllLinks(ms) = g[N]
  BY DEF AllLinks, GroupStep, Explicit
<1>4. base \in T
  BY ExplicitLinksJoin DEF LinkStates, Explicit
<1> HIDE DEF T, N, base
<1>5. step \in [1 .. N -> [T -> T]] /\ \A i \in 1 .. N, q \in T : step[i][q] = GroupStep(ms, q, i)
  BY <1>2
<1> HIDE DEF step
<1>6. PICK f \in [0 .. N -> T] : IsLoop(f, N, base, step)
  BY <1>1, <1>4, <1>5, LoopExists
<1>7. f = Body(f)
  <2>1. ASSUME NEW i \in 0 .. N
        PROVE  (IF i = 0 THEN base ELSE step[i][f[i - 1]])
                 = IF i = 0 THEN base ELSE GroupStep(ms, f[i - 1], i)
    BY <1>5, <1>1
  <2> QED BY <2>1, <1>6 DEF IsLoop
<1>8. g = Body(g)
  BY <1>7
<1> HIDE DEF g
<1>9. g[0] = base /\ \A i \in 1 .. N : g[i] = GroupStep(ms, g[i - 1], i)
  BY <1>8, <1>1
<1>10. \A i \in 0 .. N : g[i] \in T
  <2>1. \A i \in 1 .. N : g[i - 1] \in T => g[i] \in T
    BY <1>9, <1>2
  <2> QED BY <2>1, <1>9, <1>4, <1>1, LoopStays
<1>11. g \in [0 .. N -> T]
  <2>1. g = [i \in 0 .. N |-> g[i]]
    BY <1>8
  <2> QED BY <2>1, <1>10
<1> QED BY <1>1, <1>3, <1>9, <1>11 DEF T, N, base

\* After it, the fallback has brought together all that it should, no set that it should
\* not divide has been, and it is recorded where it was needed.
Falls(ms, i, j) == FirstOfSubject(ms, i) /\ Follows(ms, i, j)

LEMMA AllLinksJoin ==
  ASSUME NEW ms \in Seq(Message)
  PROVE  /\ AllLinks(ms) \in LinkStates(Fixtures(ms))
         /\ \A i, j \in Positions(ms) :
              Falls(ms, i, j) => Same(AllLinks(ms).parent, ms[i].fixture, ms[j].fixture)
         /\ \A F : /\ Respects(Fixtures(ms), ExplicitLinks(ms), F)
                   /\ \A i, j \in Positions(ms) :
                        Falls(ms, i, j) => (ms[i].fixture \in F <=> ms[j].fixture \in F)
                   => Respects(Fixtures(ms), AllLinks(ms).parent, F)
         /\ Tracks(Fixtures(ms), ExplicitLinks(ms), AllLinks(ms))
<1> DEFINE D == Fixtures(ms)
           N == Len(ms)
           p == ExplicitLinks(ms)
<1>1. PICK f \in [0 .. N -> LinkStates(D)] :
        /\ f[0] = Explicit(ms)
        /\ \A i \in Positions(ms) : f[i] = GroupStep(ms, f[i - 1], i)
        /\ AllLinks(ms) = f[N]
  BY AllLoop
<1>2. N \in Nat /\ 1 .. N = Positions(ms) /\ 0 \in 0 .. N /\ N \in 0 .. N
      /\ \A j \in 1 .. N : j - 1 \in 0 .. N /\ j \in 0 .. N /\ ms[j].fixture \in D
  BY MessageFields DEF Positions
<1>3. f[0].parent = p /\ f[0].fallback = {}
  BY <1>1 DEF Explicit
<1> HIDE DEF D, N, p
<1>4. ASSUME NEW i \in 1 .. N
      PROVE  /\ Grows(D, f[i - 1].parent, f[i].parent)
             /\ \A j \in 1 .. N : Falls(ms, i, j) => Same(f[i].parent, ms[i].fixture, ms[j].fixture)
             /\ \A F : /\ Respects(D, f[i - 1].parent, F)
                       /\ \A j \in 1 .. N :
                            Falls(ms, i, j) => (ms[i].fixture \in F <=> ms[j].fixture \in F)
                       => Respects(D, f[i].parent, F)
             /\ Tracks(D, p, f[i - 1]) => Tracks(D, p, f[i])
  <2> DEFINE q == f[i - 1]
  <2>1. q \in LinkStates(D) /\ i \in Positions(ms)
    BY <1>1, <1>2
  <2>2. CASE FirstOfSubject(ms, i)
    <3>1. f[i] = UniteSubject(q, ms, i)
      BY <1>1, <1>2, <2>2 DEF GroupStep
    <3>2. \A j : Falls(ms, i, j) <=> Follows(ms, i, j)
      BY <2>2 DEF Falls
    <3> HIDE DEF q
    <3>3. /\ Grows(D, q.parent, UniteSubject(q, ms, i).parent)
          /\ \A j \in Positions(ms) :
               Follows(ms, i, j) => Same(UniteSubject(q, ms, i).parent, ms[i].fixture, ms[j].fixture)
          /\ \A F : /\ Respects(D, q.parent, F)
                    /\ \A j \in Positions(ms) :
                         Follows(ms, i, j) => (ms[i].fixture \in F <=> ms[j].fixture \in F)
                    => Respects(D, UniteSubject(q, ms, i).parent, F)
          /\ Tracks(D, p, q) => Tracks(D, p, UniteSubject(q, ms, i))
      BY <2>1, UniteSubjectJoins DEF D
    <3> QED BY <1>2, <3>1, <3>2, <3>3, Zenon DEF q
  <2>3. CASE ~FirstOfSubject(ms, i)
    <3>1. f[i] = q
      BY <1>1, <1>2, <2>3 DEF GroupStep
    <3>2. \A j : ~Falls(ms, i, j)
      BY <2>3 DEF Falls
    <3>3. Grows(D, q.parent, q.parent)
      BY DEF Grows
    <3> QED BY <3>1, <3>2, <3>3
  <2> QED BY <2>2, <2>3
<1>5. \A i \in 0 .. N : Grows(D, f[i].parent, f[N].parent)
  <2> DEFINE h == [i \in 0 .. N |-> f[i].parent]
  <2>1. \A i \in 0 .. N : h[i] = f[i].parent
    OBVIOUS
  <2> HIDE DEF h
  <2>2. \A i \in 1 .. N : Grows(D, h[i - 1], h[i])
    BY <1>2, <1>4, <2>1
  <2>3. \A i \in 0 .. N : Grows(D, h[i], h[N])
    BY <1>2, <2>2, GrowsAlong
  <2> QED BY <1>2, <2>1, <2>3
<1>6. ASSUME NEW i \in 1 .. N, NEW j \in 1 .. N, Falls(ms, i, j)
      PROVE  Same(f[N].parent, ms[i].fixture, ms[j].fixture)
  BY <1>2, <1>4, <1>5, <1>6 DEF Grows
<1>7. ASSUME NEW F, Respects(D, p, F),
             \A i, j \in 1 .. N : Falls(ms, i, j) => (ms[i].fixture \in F <=> ms[j].fixture \in F)
      PROVE  Respects(D, f[N].parent, F)
  <2> DEFINE T == {q \in LinkStates(D) : Respects(D, q.parent, F)}
  <2>1. f[0] \in T
    BY <1>1, <1>2, <1>3, <1>7
  <2>2. \A i \in 1 .. N : f[i - 1] \in T => f[i] \in T
    BY <1>2, <1>4, <1>7
  <2> HIDE DEF T
  <2>3. \A i \in 0 .. N : f[i] \in T
    BY <2>1, <2>2, <1>2, LoopStays
  <2>4. f[N] \in T
    BY <2>3, <1>2
  <2> QED BY <2>4 DEF T
<1>8. Tracks(D, p, f[N])
  <2> DEFINE T == {q \in LinkStates(D) : Tracks(D, p, q)}
  <2>1. f[0] \in T
    BY <1>1, <1>2, <1>3 DEF Tracks, Grows
  <2>2. \A i \in 1 .. N : f[i - 1] \in T => f[i] \in T
    BY <1>2, <1>4
  <2> HIDE DEF T
  <2>3. \A i \in 0 .. N : f[i] \in T
    BY <2>1, <2>2, <1>2, LoopStays
  <2>4. f[N] \in T
    BY <2>3, <1>2
  <2> QED BY <2>4 DEF T
<1>9. f[N] \in LinkStates(D)
  BY <1>2
<1> QED BY <1>1, <1>2, <1>6, <1>7, <1>8, <1>9 DEF D, p

\* The fallback makes the components of both relations.
LEMMA AllLinksAreComponents ==
  ASSUME NEW ms \in Seq(Message), NEW i \in Positions(ms), NEW j \in Positions(ms)
  PROVE  Same(AllLinks(ms).parent, ms[i].fixture, ms[j].fixture) <=> ByAll(ms, i, j)
<1> DEFINE p == AllLinks(ms).parent
<1>1. ASSUME Same(p, ms[i].fixture, ms[j].fixture) PROVE ByAll(ms, i, j)
  <2>1. ASSUME NEW C \in SUBSET Positions(ms), i \in C,
               \A a \in C, b \in Positions(ms) : Related(ms, a, b) \/ SameSubject(ms, a, b) => b \in C
        PROVE  j \in C
    <3> DEFINE F == FixturesOf(ms, C)
    <3>1. /\ \A a \in Positions(ms) : ms[a].fixture \in F <=> a \in C
          /\ Respects(Fixtures(ms), ExplicitLinks(ms), F)
      BY <2>1, ClosedIsUndivided, ExplicitLinksJoin
    <3>2. ASSUME NEW a \in Positions(ms), NEW b \in Positions(ms), Falls(ms, a, b)
          PROVE  ms[a].fixture \in F <=> ms[b].fixture \in F
      <4>1. SameSubject(ms, a, b) /\ SameSubject(ms, b, a)
        BY <3>2 DEF SameSubject, Falls, Follows, FirstOfSubject, Unlinked, Positions
      <4> QED BY <4>1, <3>1, <2>1
    <3> HIDE DEF F
    <3>3. Respects(Fixtures(ms), p, F)
      BY <3>1, <3>2, AllLinksJoin
    <3>4. ms[i].fixture \in Fixtures(ms) /\ ms[j].fixture \in Fixtures(ms)
      BY MessageFields
    <3> HIDE DEF p
    <3> QED BY <1>1, <2>1, <3>1, <3>3, <3>4 DEF Respects
  <2> QED BY <2>1 DEF ByAll, Connected
<1>2. ASSUME ByAll(ms, i, j) PROVE Same(p, ms[i].fixture, ms[j].fixture)
  <2> DEFINE C == {b \in Positions(ms) : Same(p, ms[i].fixture, ms[b].fixture)}
  <2>1. i \in C
    BY DEF Same
  <2>2. ASSUME NEW a \in Positions(ms), NEW b \in Positions(ms),
               Related(ms, a, b) \/ SameSubject(ms, a, b)
        PROVE  Same(p, ms[a].fixture, ms[b].fixture)
    <3>1. CASE Related(ms, a, b)
      <4>1. Same(ExplicitLinks(ms), ms[a].fixture, ms[b].fixture)
        BY <3>1, RelatedAreTogether
      <4>2. Grows(Fixtures(ms), ExplicitLinks(ms), p)
        BY AllLinksJoin DEF Tracks
      <4> QED BY <4>1, <4>2, MessageFields DEF Grows
    <3>2. CASE SameSubject(ms, a, b)
      <4>1. a \in Nat /\ b \in Nat /\ a >= 1 /\ b >= 1
        BY DEF Positions
      <4>2. a < b => Falls(ms, a, b)
        BY <3>2, <4>1 DEF SameSubject, Falls, Follows, FirstOfSubject, Unlinked
      <4>3. b < a => Falls(ms, b, a)
        BY <3>2, <4>1 DEF SameSubject, Falls, Follows, FirstOfSubject, Unlinked
      <4>4. a < b \/ b < a \/ a = b
        BY <4>1
      <4> QED BY <4>2, <4>3, <4>4, AllLinksJoin DEF Same
    <3> QED BY <2>2, <3>1, <3>2
  <2>3. \A a \in C, b \in Positions(ms) : Related(ms, a, b) \/ SameSubject(ms, a, b) => b \in C
    BY <2>2 DEF Same
  <2> HIDE DEF C
  <2>4. C \in SUBSET Positions(ms)
    BY DEF C
  <2>5. j \in C
    BY <2>1, <2>3, <2>4, <1>2 DEF ByAll, Connected
  <2> QED BY <2>5 DEF C
<1> QED BY <1>1, <1>2

----------------------------------------------------------------------------
(* Threads.                                                                *)

\* The groups are the classes of messages that have the same root, in which no fixture_id
\* is shared with another, and each has a least one.
LEMMA GroupsAreClasses ==
  ASSUME NEW ms \in Seq(Message), NEW p
  PROVE  /\ \A i \in Positions(ms) : \E g \in Groups(ms, p) : i \in g
         /\ \A g \in Groups(ms, p) :
              /\ g \in SUBSET Positions(ms) /\ g # {}
              /\ \A i \in g : g = {j \in Positions(ms) : Same(p, ms[i].fixture, ms[j].fixture)}
         /\ \A g, h \in Groups(ms, p) :
              (\E i \in g, j \in h : Same(p, ms[i].fixture, ms[j].fixture)) => g = h
<1> DEFINE Class(i) == {j \in Positions(ms) : Root(p, ms[j].fixture) = Root(p, ms[i].fixture)}
<1>1. /\ \A i \in Positions(ms) : Class(i) \in Groups(ms, p)
      /\ \A g \in Groups(ms, p) : \E i \in Positions(ms) : g = Class(i)
  BY DEF Groups
<1>2. \A i \in Positions(ms) : i \in Class(i)
  OBVIOUS
<1>3. \A i \in Positions(ms) : Class(i) = {j \in Positions(ms) : Same(p, ms[i].fixture, ms[j].fixture)}
  BY DEF Same
<1>4. \A i, j \in Positions(ms) : Same(p, ms[i].fixture, ms[j].fixture) => Class(i) = Class(j)
  BY DEF Same
<1>5. \A i \in Positions(ms) : \A j \in Class(i) :
        j \in Positions(ms) /\ Same(p, ms[i].fixture, ms[j].fixture)
  BY DEF Same
<1> HIDE DEF Class
<1>6. \A g \in Groups(ms, p) :
        /\ g \in SUBSET Positions(ms) /\ g # {}
        /\ \A i \in g : g = Class(i)
  BY <1>1, <1>2, <1>4, <1>5
<1>7. \A g \in Groups(ms, p) :
        \A i \in g : g = {j \in Positions(ms) : Same(p, ms[i].fixture, ms[j].fixture)}
  BY <1>3, <1>6
<1>8. \A g, h \in Groups(ms, p) :
        (\E i \in g, j \in h : Same(p, ms[i].fixture, ms[j].fixture)) => g = h
  BY <1>4, <1>6
<1> QED BY <1>1, <1>2, <1>6, <1>7, <1>8

LEMMA LeastOfGroup ==
  ASSUME NEW ms \in Seq(Message), NEW g \in SUBSET Positions(ms), g # {}
  PROVE  /\ Least(ms, g) \in Nat
         /\ \E i \in g : Least(ms, g) = ms[i].fixture
<1> DEFINE T == {ms[i].fixture : i \in g}
<1>1. T \in SUBSET Nat /\ T # {}
  BY MessageFields
<1>2. PICK x \in T : \A y \in T : x <= y
  <2> HIDE DEF T
  <2> QED BY <1>1, LeastNumber
<1>3. \E i \in g : \A j \in g : ms[i].fixture <= ms[j].fixture
  BY <1>2
<1> DEFINE i == CHOOSE i \in g : \A j \in g : ms[i].fixture <= ms[j].fixture
<1>4. i \in g
  BY <1>3
<1>5. Least(ms, g) = ms[i].fixture
  BY DEF Least
<1> HIDE DEF i
<1> QED BY <1>4, <1>5, MessageFields

\* Every group has a place of its own, and every place has a group.
LEMMA PlacesAreTaken ==
  ASSUME NEW ms \in Seq(Message), NEW p
  PROVE  LET G == Groups(ms, p)
         IN  /\ IsFiniteSet(G) /\ Cardinality(G) \in Nat
             /\ \A g \in G : Place(ms, G, g) \in 1 .. Cardinality(G)
             /\ \A g, h \in G : Place(ms, G, g) = Place(ms, G, h) => g = h
             /\ \A k \in 1 .. Cardinality(G) : \E g \in G : Place(ms, G, g) = k
<1> DEFINE G == Groups(ms, p)
           n == Cardinality(G)
           Upto(g) == {h \in G : Least(ms, h) <= Least(ms, g)}
<1>1. IsFiniteSet(G) /\ n \in Nat
  <2>1. IsFiniteSet(Positions(ms))
    BY FS_Interval DEF Positions
  <2>2. IsFiniteSet(SUBSET Positions(ms))
    BY <2>1, FS_SUBSET
  <2>3. G \in SUBSET SUBSET Positions(ms)
    BY GroupsAreClasses
  <2>4. IsFiniteSet(G)
    BY <2>2, <2>3, FS_Subset
  <2> QED BY <2>4, FS_CardinalityType
<1>2. \A g \in G : Least(ms, g) \in Nat /\ g \in Upto(g)
  BY GroupsAreClasses, LeastOfGroup
<1>3. \A g, h \in G : Least(ms, g) = Least(ms, h) => g = h
  <2>1. ASSUME NEW g \in G, NEW h \in G, Least(ms, g) = Least(ms, h) PROVE g = h
    <3>1. PICK i \in g, j \in h : ms[i].fixture = ms[j].fixture
      BY <2>1, GroupsAreClasses, LeastOfGroup
    <3>2. Same(p, ms[i].fixture, ms[j].fixture)
      BY <3>1 DEF Same
    <3> QED BY <3>2, GroupsAreClasses
  <2> QED BY <2>1
<1>4. \A g \in G : Place(ms, G, g) = Cardinality(Upto(g)) /\ Upto(g) \in SUBSET G
  BY DEF Place
<1> HIDE DEF G, n
<1>5. \A g \in G : IsFiniteSet(Upto(g)) /\ Cardinality(Upto(g)) \in 1 .. n
  <2>1. TAKE g \in G
  <2>2. IsFiniteSet(Upto(g)) /\ Cardinality(Upto(g)) <= n /\ Cardinality(Upto(g)) \in Nat
    BY <1>1, <1>4, FS_Subset, FS_CardinalityType DEF n
  <2>3. Cardinality(Upto(g)) # 0
    BY <2>2, <1>2, FS_EmptySet
  <2> QED BY <2>2, <2>3, <1>1
<1>6. \A g, h \in G : Cardinality(Upto(g)) = Cardinality(Upto(h)) => g = h
  <2>1. ASSUME NEW g \in G, NEW h \in G, Cardinality(Upto(g)) = Cardinality(Upto(h)),
               Least(ms, g) <= Least(ms, h)
        PROVE  g = h
    <3>1. Upto(g) \in SUBSET Upto(h)
      BY <2>1, <1>2
    <3>2. Upto(g) = Upto(h)
      BY <3>1, <2>1, <1>5, FS_Subset
    <3>3. h \in Upto(g)
      BY <3>2, <1>2
    <3>4. Least(ms, g) = Least(ms, h)
      BY <3>3, <2>1, <1>2
    <3> QED BY <3>4, <1>3
  <2>2. ASSUME NEW g \in G, NEW h \in G, Cardinality(Upto(g)) = Cardinality(Upto(h)) PROVE g = h
    <3>1. Least(ms, g) <= Least(ms, h) \/ Least(ms, h) <= Least(ms, g)
      BY <1>2
    <3> QED BY <3>1, <2>1, <2>2
  <2> QED BY <2>2
<1> DEFINE f == [g \in G |-> Cardinality(Upto(g))]
<1>7. f \in Injection(G, 1 .. n)
  BY <1>5, <1>6 DEF Injection, IsInjective
<1>8. f \in Surjection(G, 1 .. n)
  <2>1. IsFiniteSet(1 .. n) /\ Cardinality(1 .. n) = n
    BY <1>1, FS_Interval
  <2> HIDE DEF f
  <2> QED BY <2>1, <1>7, FS_Injection DEF n
<1>9. \A k \in 1 .. n : \E g \in G : Cardinality(Upto(g)) = k
  BY <1>8 DEF Surjection
<1> HIDE DEF Upto
<1> QED BY <1>1, <1>4, <1>5, <1>6, <1>9 DEF G, n

\* The threads are those of the groups.
GroupsOf(ms) == Groups(ms, AllLinks(ms).parent)

LEMMA ThreadsOfGroups ==
  ASSUME NEW ms \in Seq(Message)
  PROVE  /\ Reconstruct(ms) \in Seq(Range(Reconstruct(ms)))
         /\ \A g \in GroupsOf(ms) : Thread(ms, AllLinks(ms).fallback, g) \in Range(Reconstruct(ms))
         /\ \A t \in Range(Reconstruct(ms)) :
              \E g \in GroupsOf(ms) : t = Thread(ms, AllLinks(ms).fallback, g)
<1> DEFINE G == GroupsOf(ms)
           n == Cardinality(G)
           thread(g) == Thread(ms, AllLinks(ms).fallback, g)
           at(k) == CHOOSE g \in G : Place(ms, G, g) = k
           R == Reconstruct(ms)
<1>1. /\ n \in Nat
      /\ \A g \in G : Place(ms, G, g) \in 1 .. n
      /\ \A g, h \in G : Place(ms, G, g) = Place(ms, G, h) => g = h
      /\ \A k \in 1 .. n : \E g \in G : Place(ms, G, g) = k
  BY PlacesAreTaken DEF GroupsOf
<1>2. R = [k \in 1 .. n |-> thread(at(k))]
  BY DEF Reconstruct, GroupsOf
<1> HIDE DEF G, n, thread, R
<1>3. \A k \in 1 .. n : at(k) \in G /\ Place(ms, G, at(k)) = k
  BY <1>1
<1>4. \A g \in G : at(Place(ms, G, g)) = g
  BY <1>1, <1>3
<1> HIDE DEF at
<1>5. DOMAIN R = 1 .. n /\ \A k \in 1 .. n : R[k] = thread(at(k))
  BY <1>2
<1>6. Range(R) = {R[k] : k \in 1 .. n}
  BY <1>5 DEF Range
<1>7. R \in Seq(Range(R))
  <2>1. R \in [1 .. n -> Range(R)]
    BY <1>2, <1>5, <1>6
  <2> QED BY <2>1, <1>1
<1>8. \A g \in G : thread(g) \in Range(R)
  BY <1>1, <1>4, <1>5, <1>6
<1>9. \A t \in Range(R) : \E g \in G : t = thread(g)
  BY <1>3, <1>5, <1>6
<1> QED BY <1>7, <1>8, <1>9 DEF G, thread, R

\* The messages of a thread are those of its group.
LEMMA MembersOfThread ==
  ASSUME NEW ms \in Seq(Message), NEW g \in GroupsOf(ms), NEW i \in Positions(ms)
  PROVE  ms[i].fixture \in Thread(ms, AllLinks(ms).fallback, g).fixtures <=> i \in g
<1>1. Thread(ms, AllLinks(ms).fallback, g).fixtures = {ms[j].fixture : j \in g}
  BY DEF Thread
<1>2. ASSUME NEW j \in g, ms[i].fixture = ms[j].fixture PROVE i \in g
  <2>1. Same(AllLinks(ms).parent, ms[j].fixture, ms[i].fixture)
    BY <1>2 DEF Same
  <2> QED BY <2>1, GroupsAreClasses DEF GroupsOf
<1> QED BY <1>1, <1>2

\* A group is what is connected with any message of it.
LEMMA GroupIsComponent ==
  ASSUME NEW ms \in Seq(Message), NEW g \in GroupsOf(ms), NEW i \in g
  PROVE  /\ i \in Positions(ms)
         /\ g = {j \in Positions(ms) : ByAll(ms, i, j)}
<1>1. i \in Positions(ms)
      /\ g = {j \in Positions(ms) : Same(AllLinks(ms).parent, ms[i].fixture, ms[j].fixture)}
  BY GroupsAreClasses DEF GroupsOf
<1> QED BY <1>1, AllLinksAreComponents

\* Two messages are in one thread if, and only if, they are connected.
LEMMA ReconstructedComponents ==
  ASSUME NEW ms \in Seq(Message), NEW i \in Positions(ms), NEW j \in Positions(ms)
  PROVE  ByAll(ms, i, j) <=>
           \E t \in Range(Reconstruct(ms)) : {ms[i].fixture, ms[j].fixture} \subseteq t.fixtures
<1>1. ASSUME ByAll(ms, i, j)
      PROVE  \E t \in Range(Reconstruct(ms)) : {ms[i].fixture, ms[j].fixture} \subseteq t.fixtures
  <2>1. PICK g \in GroupsOf(ms) : i \in g
    BY GroupsAreClasses DEF GroupsOf
  <2>2. j \in g
    BY <1>1, <2>1, GroupIsComponent
  <2> QED BY <2>1, <2>2, ThreadsOfGroups, MembersOfThread
<1>2. ASSUME NEW t \in Range(Reconstruct(ms)), {ms[i].fixture, ms[j].fixture} \subseteq t.fixtures
      PROVE  ByAll(ms, i, j)
  <2>1. PICK g \in GroupsOf(ms) : t = Thread(ms, AllLinks(ms).fallback, g)
    BY ThreadsOfGroups
  <2>2. i \in g /\ j \in g
    BY <2>1, <1>2, MembersOfThread
  <2> QED BY <2>2, GroupIsComponent
<1> QED BY <1>1, <1>2

\* A thread has high confidence if, and only if, its messages are held together by headers
\* and none is malformed or forwarded.
LEMMA ReconstructedConfidence ==
  ASSUME NEW ms \in Seq(Message), NEW g \in GroupsOf(ms)
  PROVE  Thread(ms, AllLinks(ms).fallback, g).confidence = "high" <=>
           /\ \A i, j \in g : ByHeaders(ms, i, j)
           /\ \A i \in g : ~HasMalformed(ms[i]) /\ ~ms[i].forwarded
<1> DEFINE p == ExplicitLinks(ms)
           q == AllLinks(ms).parent
           B == AllLinks(ms).fallback
           D == Fixtures(ms)
           M == {ms[i] : i \in g}
<1>1. /\ Grows(D, p, q)
      /\ \A x, y \in D : Same(q, x, y) /\ ~Same(p, x, y) => \E z \in B : Same(q, z, x)
      /\ \A z \in B : z \in D /\ \E l \in D : Same(q, l, z) /\ ~Same(p, l, z)
  BY AllLinksJoin DEF Tracks, LinkStates
<1>2. /\ g \in SUBSET Positions(ms)
      /\ \A i \in g : g = {j \in Positions(ms) : Same(q, ms[i].fixture, ms[j].fixture)}
  BY GroupsAreClasses DEF GroupsOf
<1>3. \A i, j \in g : ByHeaders(ms, i, j) <=> Same(p, ms[i].fixture, ms[j].fixture)
  BY <1>2, HeadersMakeExplicitLinks
<1>4. Thread(ms, B, g).confidence = Confidence(M, B)
  BY DEF Thread
<1>5. Confidence(M, B) = "high" <=>
        (\A m \in M : ~HasMalformed(m)) /\ \A m \in M : ~m.forwarded /\ m.fixture \notin B
  BY DEF Confidence
<1>6. (\A i \in g : ms[i].fixture \notin B) <=> \A i, j \in g : ByHeaders(ms, i, j)
  <2> HIDE DEF p, q, B, D
  <2>0. \A i \in g : ms[i].fixture \in D
    BY <1>2, MessageFields DEF D
  <2>1. ASSUME \A i \in g : ms[i].fixture \notin B, NEW i \in g, NEW j \in g
        PROVE  ByHeaders(ms, i, j)
    <3>1. Same(q, ms[i].fixture, ms[j].fixture)
      BY <1>2
    <3>2. ASSUME NEW z \in B, Same(q, z, ms[i].fixture) PROVE FALSE
      <4>1. PICK k \in Positions(ms) : z = ms[k].fixture
        BY <1>1 DEF D, Fixtures
      <4>2. k \in g
        BY <3>2, <4>1, <1>2 DEF Same
      <4> QED BY <4>1, <4>2, <2>1
    <3>3. Same(p, ms[i].fixture, ms[j].fixture)
      BY <3>1, <3>2, <1>1, <2>0
    <3> QED BY <3>3, <1>3
  <2>2. ASSUME \A i, j \in g : ByHeaders(ms, i, j), NEW i \in g, ms[i].fixture \in B
        PROVE  FALSE
    <3>1. PICK l \in D : Same(q, l, ms[i].fixture) /\ ~Same(p, l, ms[i].fixture)
      BY <2>2, <1>1
    <3>2. PICK k \in Positions(ms) : l = ms[k].fixture
      BY <3>1 DEF D, Fixtures
    <3>3. k \in g
      BY <3>1, <3>2, <1>2 DEF Same
    <3> QED BY <3>1, <3>2, <3>3, <2>2, <1>3 DEF Same
  <2> QED BY <2>1, <2>2
<1> HIDE DEF p, q, B, D
<1>7. (\A m \in M : ~HasMalformed(m)) /\ (\A m \in M : ~m.forwarded /\ m.fixture \notin B) <=>
        /\ \A i \in g : ~HasMalformed(ms[i]) /\ ~ms[i].forwarded
        /\ \A i \in g : ms[i].fixture \notin B
  OBVIOUS
<1> HIDE DEF M
<1> QED BY <1>4, <1>5, <1>6, <1>7 DEF B

----------------------------------------------------------------------------
(* Decisions.                                                              *)

LEMMA ThreadIdType ==
  ASSUME NEW ms \in Seq(Message), NEW i \in Positions(ms)
  PROVE  ThreadId(ms[i]) \in ThreadIds
<1>1. ms[i].id \in MessageId /\ ms[i].hint \in Hint \cup {Absent, Null}
  BY MessageFields
<1> QED BY <1>1 DEF ThreadId, ThreadIds

LEMMA FirstOfGroup ==
  ASSUME NEW ms \in Seq(Message), NEW g \in SUBSET Positions(ms), g # {}
  PROVE  First(g) \in g /\ \A j \in g : First(g) <= j
<1>1. g \in SUBSET Nat
  BY DEF Positions
<1>2. \E i \in g : \A j \in g : i <= j
  BY <1>1, LeastNumber
<1> QED BY <1>2 DEF First

\* The thread found for a message is that of a group it is in.
LEMMA ThreadFound ==
  ASSUME NEW ms \in Seq(Message), NEW i \in Positions(ms)
  PROVE  \E g \in GroupsOf(ms) :
           /\ i \in g /\ First(g) \in g /\ \A j \in g : First(g) <= j
           /\ ThreadOf(Reconstruct(ms), ms[i].fixture) = Thread(ms, AllLinks(ms).fallback, g)
           /\ ThreadOf(Reconstruct(ms), ms[i].fixture).id = ThreadId(ms[First(g)])
           /\ ThreadOf(Reconstruct(ms), ms[i].fixture).id \in ThreadIds
           /\ ThreadOf(Reconstruct(ms), ms[i].fixture).confidence \in {"low", "medium", "high"}
<1> DEFINE t == ThreadOf(Reconstruct(ms), ms[i].fixture)
<1>1. PICK h \in GroupsOf(ms) : i \in h
  BY GroupsAreClasses DEF GroupsOf
<1>2. \E u \in Range(Reconstruct(ms)) : ms[i].fixture \in u.fixtures
  BY <1>1, ThreadsOfGroups, MembersOfThread
<1>3. t \in Range(Reconstruct(ms)) /\ ms[i].fixture \in t.fixtures
  BY <1>2 DEF ThreadOf
<1> HIDE DEF t
<1>4. PICK g \in GroupsOf(ms) : t = Thread(ms, AllLinks(ms).fallback, g)
  BY <1>3, ThreadsOfGroups
<1>5. i \in g
  BY <1>3, <1>4, MembersOfThread
<1>6. g \in SUBSET Positions(ms) /\ g # {}
  BY GroupsAreClasses DEF GroupsOf
<1>7. First(g) \in g /\ \A j \in g : First(g) <= j
  BY <1>6, FirstOfGroup
<1>8. t.id = ThreadId(ms[First(g)]) /\ t.confidence \in {"low", "medium", "high"}
  BY <1>4 DEF Thread, Confidence
<1>9. t.id \in ThreadIds
  BY <1>6, <1>7, <1>8, ThreadIdType
<1> QED BY <1>4, <1>5, <1>7, <1>8, <1>9 DEF t

LEMMA SourceHasFixture ==
  ASSUME NEW ms \in Seq(Message), NEW i \in Positions(ms)
  PROVE  /\ Source(ms, ms[i].fixture) \in Message
         /\ Source(ms, ms[i].fixture).fixture = ms[i].fixture
         /\ \E j \in Positions(ms) : ms[j].fixture = ms[i].fixture /\ Source(ms, ms[i].fixture) = ms[j]
<1> DEFINE f == ms[i].fixture
           T == {j \in Positions(ms) : ms[j].fixture = f}
           k == CHOOSE j \in Positions(ms) :
                  ms[j].fixture = f /\ \A l \in Positions(ms) : ms[l].fixture = f => l <= j
<1>1. T \in SUBSET (1 .. Len(ms)) /\ T # {} /\ Len(ms) \in Nat
  BY DEF Positions
<1>2. \E j \in T : \A l \in T : l <= j
  <2> HIDE DEF T
  <2> QED BY <1>1, GreatestNumber
<1>3. k \in Positions(ms) /\ ms[k].fixture = f
  BY <1>2
<1>4. Source(ms, f) = ms[k]
  BY DEF Source
<1> HIDE DEF k
<1> QED BY <1>3, <1>4, MessageFields

Sources(ms) == [i \in Positions(ms) |-> Source(ms, ms[i].fixture)]

LEMMA SourcesAreMessages ==
  ASSUME NEW ms \in Seq(Message)
  PROVE  /\ Sources(ms) \in Seq(Message) /\ Positions(Sources(ms)) = Positions(ms)
         /\ \A i \in Positions(ms) : Sources(ms)[i].fixture = ms[i].fixture
<1>1. Sources(ms) \in [1 .. Len(ms) -> Message] /\ Len(ms) \in Nat
  BY SourceHasFixture DEF Sources, Positions
<1>2. Sources(ms) \in Seq(Message) /\ Len(Sources(ms)) = Len(ms)
  BY <1>1
<1>3. Positions(Sources(ms)) = Positions(ms)
  BY <1>2 DEF Positions
<1>4. ASSUME NEW i \in Positions(ms) PROVE Sources(ms)[i].fixture = ms[i].fixture
  <2>1. Sources(ms)[i] = Source(ms, ms[i].fixture)
    BY DEF Sources
  <2>2. Source(ms, ms[i].fixture).fixture = ms[i].fixture
    BY SourceHasFixture
  <2> QED BY <2>1, <2>2
<1> QED BY <1>2, <1>3, <1>4

\* Every export of a batch gets a decision.
LEMMA PrepareIngestType ==
  ASSUME NEW ms \in Seq(Message)
  PROVE  PrepareIngest(ms) \in [Exports(ms) -> IngestDecision]
<1> DEFINE ts == Reconstruct(Sources(ms))
           of(e) == CHOOSE i \in Positions(ms) : ms[i].export = e
<1>1. PrepareIngest(ms) = [e \in Exports(ms) |-> Decision(ms, ts, ms[of(e)])]
  BY DEF PrepareIngest, Sources
<1>2. \A e \in Exports(ms) : of(e) \in Positions(ms)
  BY DEF Exports
<1>3. ASSUME NEW i \in Positions(ms) PROVE Decision(ms, ts, ms[i]) \in IngestDecision
  <2> DEFINE t == ThreadOf(ts, ms[i].fixture)
  <2>1. t.id \in ThreadIds /\ t.confidence \in {"low", "medium", "high"}
    BY SourcesAreMessages, ThreadFound
  <2> HIDE DEF t
  <2>2. Suppression(Source(ms, ms[i].fixture)) \in {"allow", "review_needed", "suppress"}
    BY DEF Suppression
  <2>3. Eligible(Source(ms, ms[i].fixture), ms[i]) \in BOOLEAN
    BY DEF Eligible, ExtractionAllowed
  <2>4. Decision(ms, ts, ms[i]) =
          [thread |-> t.id, confidence |-> t.confidence,
           action |-> Suppression(Source(ms, ms[i].fixture)),
           eligible |-> Eligible(Source(ms, ms[i].fixture), ms[i])]
    BY DEF Decision, t
  <2> QED BY <2>1, <2>2, <2>3, <2>4 DEF IngestDecision
<1> HIDE DEF ts, of
<1> QED BY <1>1, <1>2, <1>3

LEMMA PositionsAreCounted ==
  ASSUME NEW ms \in Seq(Message)
  PROVE  IsFiniteSet(Positions(ms)) /\ Cardinality(Positions(ms)) = Len(ms)
<1>1. 1 \in Int /\ Len(ms) \in Int /\ Len(ms) >= 0
  OBVIOUS
<1> DEFINE n == Len(ms)
<1>2. n \in Int /\ n >= 0 /\ Positions(ms) = 1 .. n
  BY <1>1 DEF Positions
<1> HIDE DEF n
<1>3. IsFiniteSet(1 .. n) /\ Cardinality(1 .. n) = IF 1 > n THEN 0 ELSE n - 1 + 1
  BY <1>2, FS_Interval
<1>4. Cardinality(1 .. n) = n
  BY <1>2, <1>3
<1> QED BY <1>2, <1>3, <1>4 DEF n

\* What occurs once per message tells the messages apart.
LEMMA FixturesAreDistinct ==
  ASSUME NEW ms \in Seq(Message), Cardinality(Fixtures(ms)) = Len(ms),
         NEW i \in Positions(ms), NEW j \in Positions(ms), ms[i].fixture = ms[j].fixture
  PROVE  i = j
<1> DEFINE f == [k \in Positions(ms) |-> ms[k].fixture]
<1>1. f \in Surjection(Positions(ms), Fixtures(ms))
  BY DEF Surjection, Fixtures
<1>2. IsFiniteSet(Positions(ms)) /\ Cardinality(Positions(ms)) = Len(ms)
  BY PositionsAreCounted
<1>3. f[i] = f[j]
  OBVIOUS
<1> HIDE DEF f
<1>4. f \in Injection(Positions(ms), Fixtures(ms))
  BY <1>1, <1>2, FS_SurjSameCardinalityImpliesInj
<1> QED BY <1>3, <1>4 DEF Injection, IsInjective

LEMMA ExportsAreDistinct ==
  ASSUME NEW ms \in Seq(Message), Cardinality(Exports(ms)) = Len(ms),
         NEW i \in Positions(ms), NEW j \in Positions(ms), ms[i].export = ms[j].export
  PROVE  i = j
<1> DEFINE f == [k \in Positions(ms) |-> ms[k].export]
<1>1. f \in Surjection(Positions(ms), Exports(ms))
  BY DEF Surjection, Exports
<1>2. IsFiniteSet(Positions(ms)) /\ Cardinality(Positions(ms)) = Len(ms)
  BY PositionsAreCounted
<1>3. f[i] = f[j]
  OBVIOUS
<1> HIDE DEF f
<1>4. f \in Injection(Positions(ms), Exports(ms))
  BY <1>1, <1>2, FS_SurjSameCardinalityImpliesInj
<1> QED BY <1>3, <1>4 DEF Injection, IsInjective

\* With every fixture_id and export used once, the decision for an export is made on its own
\* message and its own thread.
LEMMA PreparedDecision ==
  ASSUME NEW ms \in Seq(Message), Cardinality(Exports(ms)) = Len(ms),
         Cardinality(Fixtures(ms)) = Len(ms), NEW i \in Positions(ms)
  PROVE  /\ PrepareIngest(ms)[ms[i].export].eligible => Suppression(ms[i]) = "allow"
         /\ PrepareIngest(ms)[ms[i].export].thread =
              ThreadId(ms[CHOOSE j \in Positions(ms) :
                ByAll(ms, i, j) /\ \A k \in Positions(ms) : ByAll(ms, i, k) => j <= k])
<1>1. \A j \in Positions(ms) : Source(ms, ms[j].fixture) = ms[j]
  BY SourceHasFixture, FixturesAreDistinct
<1>2. Sources(ms) = ms
  <2>1. Sources(ms) = [j \in Positions(ms) |-> ms[j]]
    BY <1>1 DEF Sources
  <2>2. ms = [j \in 1 .. Len(ms) |-> ms[j]]
    OBVIOUS
  <2> QED BY <2>1, <2>2 DEF Positions
<1>3. (CHOOSE j \in Positions(ms) : ms[j].export = ms[i].export) = i
  BY ExportsAreDistinct
<1>4. PrepareIngest(ms)[ms[i].export] = Decision(ms, Reconstruct(ms), ms[i])
  <2>1. ms[i].export \in Exports(ms)
    BY DEF Exports
  <2>2. PrepareIngest(ms) =
          [e \in Exports(ms) |-> Decision(ms, Reconstruct(Sources(ms)),
             ms[CHOOSE j \in Positions(ms) : ms[j].export = e])]
    BY DEF PrepareIngest, Sources
  <2> QED BY <2>1, <2>2, <1>2, <1>3
<1> DEFINE t == ThreadOf(Reconstruct(ms), ms[i].fixture)
<1>5. Decision(ms, Reconstruct(ms), ms[i]) =
        [thread |-> t.id, confidence |-> t.confidence, action |-> Suppression(ms[i]),
         eligible |-> Eligible(ms[i], ms[i])]
  BY <1>1 DEF Decision
<1>6. PICK g \in GroupsOf(ms) :
        i \in g /\ First(g) \in g /\ (\A j \in g : First(g) <= j) /\ t.id = ThreadId(ms[First(g)])
  BY ThreadFound
<1>7. g = {j \in Positions(ms) : ByAll(ms, i, j)}
  BY <1>6, GroupIsComponent
<1> HIDE DEF t
<1> DEFINE IsFirst(j) == ByAll(ms, i, j) /\ \A k \in Positions(ms) : ByAll(ms, i, k) => j <= k
           c == CHOOSE j \in Positions(ms) : IsFirst(j)
<1>8. First(g) \in Positions(ms) /\ IsFirst(First(g))
  BY <1>6, <1>7
<1>9. c \in Positions(ms) /\ IsFirst(c)
  BY <1>8
<1>10. c = First(g)
  <2>1. c <= First(g) /\ First(g) <= c
    BY <1>8, <1>9
  <2>2. c \in Nat /\ First(g) \in Nat
    BY <1>8, <1>9 DEF Positions
  <2> QED BY <2>1, <2>2
<1>11. Eligible(ms[i], ms[i]) => Suppression(ms[i]) = "allow"
  BY DEF Eligible
<1>12. PrepareIngest(ms)[ms[i].export].thread = ThreadId(ms[c])
  <2>1. PrepareIngest(ms)[ms[i].export].thread = t.id
    BY <1>4, <1>5
  <2> HIDE DEF c
  <2> QED BY <2>1, <1>6, <1>10
<1>13. PrepareIngest(ms)[ms[i].export].eligible => Suppression(ms[i]) = "allow"
  BY <1>4, <1>5, <1>11
<1> QED BY <1>12, <1>13

----------------------------------------------------------------------------
(* Candidates.                                                             *)

\* All that a thread can yield.
Yield(t, ms) ==
  {Candidate(<<"summary", t.id>>, t, Range(Members(ms, t))),
   Candidate(<<"obligation", Having(Members(ms, t), "obligation")[1].id>>, t,
             {Having(Members(ms, t), "obligation")[1]}),
   Candidate(<<"event", Having(Members(ms, t), "event")[1].id>>, t,
             {Having(Members(ms, t), "event")[1]})}

LEMMA ExtractedIsSeq ==
  ASSUME NEW t, NEW ms
  PROVE  ExtractFromThread(t, ms) \in Seq(Yield(t, ms))
<1> DEFINE U == Yield(t, ms)
           M == Members(ms, t)
           s == Candidate(<<"summary", t.id>>, t, Range(M))
           o == FirstHaving(M, "obligation", t)
           e == FirstHaving(M, "event", t)
           ee == IF M[1].lane = "eventful" THEN e ELSE <<>>
<1>1. s \in U
  BY DEF Yield
<1>2. o \in Seq(U)
  <2> DEFINE c == Candidate(<<"obligation", Having(M, "obligation")[1].id>>, t, {Having(M, "obligation")[1]})
  <2>1. c \in U
    BY DEF Yield
  <2>2. o = <<>> \/ o = <<c>>
    BY DEF FirstHaving
  <2> HIDE DEF c, U, o
  <2>3. <<>> \in Seq(U) /\ <<c>> \in Seq(U)
    BY <2>1
  <2> QED BY <2>2, <2>3, Zenon
<1>3. e \in Seq(U)
  <2> DEFINE c == Candidate(<<"event", Having(M, "event")[1].id>>, t, {Having(M, "event")[1]})
  <2>1. c \in U
    BY DEF Yield
  <2>2. e = <<>> \/ e = <<c>>
    BY DEF FirstHaving
  <2> HIDE DEF c, U, e
  <2>3. <<>> \in Seq(U) /\ <<c>> \in Seq(U)
    BY <2>1
  <2> QED BY <2>2, <2>3, Zenon
<1>4. ee \in Seq(U)
  <2> HIDE DEF e, U, M
  <2> QED BY <1>3
<1>5. ExtractFromThread(t, ms) = <<>> \/ ExtractFromThread(t, ms) = <<s>> \o o \o ee
  BY DEF ExtractFromThread
<1> HIDE DEF U, s, o, ee
<1>6. <<s>> \in Seq(U)
  BY <1>1
<1>7. <<s>> \o o \in Seq(U)
  BY <1>6, <1>2
<1>8. (<<s>> \o o) \o ee \in Seq(U)
  BY <1>7, <1>4
<1>9. <<>> \in Seq(U)
  OBVIOUS
<1> QED BY <1>5, <1>8, <1>9, Zenon DEF U

LEMMA CandidatesAreSeq ==
  ASSUME NEW ts, NEW ms, NEW W, ts \in Seq(W)
  PROVE  Candidates(ts, ms) \in Seq(Range(Candidates(ts, ms)))
<1> DEFINE N == Len(ts)
           U == UNION {Yield(ts[k], ms) : k \in 1 .. N}
           T == Seq(U)
           Add(q, k) == q \o ExtractFromThread(ts[k], ms)
           step == [k \in 1 .. N |-> [q \in T |-> Add(q, k)]]
           Body(h) == [k \in 0 .. N |-> IF k = 0 THEN <<>> ELSE Add(h[k - 1], k)]
           g == CHOOSE h : h = Body(h)
<1>1. N \in Nat
  OBVIOUS
<1>2. <<>> \in T
  OBVIOUS
<1>3. ASSUME NEW q \in T, NEW k \in 1 .. N PROVE Add(q, k) \in T
  <2>1. ExtractFromThread(ts[k], ms) \in Seq(Yield(ts[k], ms))
    BY ExtractedIsSeq
  <2>2. Yield(ts[k], ms) \subseteq U
    OBVIOUS
  <2> DEFINE Y == Yield(ts[k], ms)
             x == ExtractFromThread(ts[k], ms)
  <2> HIDE DEF U, Y, x
  <2>3. x \in Seq(U)
    <3>1. x \in Seq(Y) /\ Y \subseteq U
      BY <2>1, <2>2 DEF x, Y
    <3> QED BY <3>1
  <2>4. q \o x \in Seq(U)
    BY <2>3
  <2> QED BY <2>4 DEF x
<1>4. Candidates(ts, ms) = g[N]
  BY DEF Candidates
<1> HIDE DEF N, U, T, Add
<1>5. step \in [1 .. N -> [T -> T]] /\ \A k \in 1 .. N, q \in T : step[k][q] = Add(q, k)
  BY <1>3
<1> HIDE DEF step
<1>6. PICK f \in [0 .. N -> T] : IsLoop(f, N, <<>>, step)
  BY <1>1, <1>2, <1>5, LoopExists
<1>7. f = Body(f)
  <2>1. ASSUME NEW k \in 0 .. N
        PROVE  (IF k = 0 THEN <<>> ELSE step[k][f[k - 1]]) = IF k = 0 THEN <<>> ELSE Add(f[k - 1], k)
    BY <1>5, <1>1
  <2> QED BY <2>1, <1>6 DEF IsLoop
<1>8. g = Body(g)
  BY <1>7
<1> HIDE DEF g
<1>9. g[0] = <<>> /\ \A k \in 1 .. N : g[k] = Add(g[k - 1], k)
  BY <1>8, <1>1
<1>10. \A k \in 0 .. N : g[k] \in T
  <2>1. \A k \in 1 .. N : g[k - 1] \in T => g[k] \in T
    BY <1>9, <1>3
  <2> QED BY <2>1, <1>9, <1>2, <1>1, LoopStays
<1>11. Candidates(ts, ms) \in Seq(U)
  BY <1>1, <1>4, <1>10 DEF T
<1> DEFINE c == Candidates(ts, ms)
<1> HIDE DEF c
<1>12. c \in Seq(U)
  BY <1>11 DEF c
<1>13. Range(c) = {c[k] : k \in 1 .. Len(c)}
  BY <1>12 DEF Range
<1>14. c \in Seq(Range(c))
  BY <1>12, <1>13
<1> QED BY <1>14 DEF c

----------------------------------------------------------------------------
(* The invariant of mpi seed.                                              *)

\* The corpus is one that the command can be given, and an export has a decision or none.
IngestTypes ==
  /\ corpus \in Seq(Message) /\ Cardinality(Exports(corpus)) = Len(corpus)
  /\ index \in [Exports(corpus) -> IngestDecision \cup {None}]
  /\ pc \in {"idle", "synced", "enqueue", "done", "failed"}

Undecided == index = [e \in Exports(corpus) |-> None]

AllUsable == \A i \in Positions(corpus) : Usable(corpus[i])

\* All decisions are those of the corpus as it is, which is not corrected any more, or there
\* is none.
DecidedTogether == Undecided \/ (AllUsable /\ index = PrepareIngest(corpus))

\* A command that is past its sync has decided about a usable corpus.
SyncedIsDecided ==
  pc \in {"synced", "enqueue", "done"} /\ AllUsable => index = PrepareIngest(corpus)

Wanted == Range(Candidates(Reconstruct(corpus), corpus))

\* What is wanted is queued or yet to be.
NothingIsDropped ==
  pc = "enqueue" =>
    /\ threads = Reconstruct(corpus)
    /\ todo \in Seq(Wanted)
    /\ \A c \in Wanted : Queued(c) \/ c \in Range(todo)

DoneIsQueued == pc = "done" => \A c \in Wanted : Queued(c)

IngestInv ==
  IngestTypes /\ DecidedTogether /\ SyncedIsDecided /\ NothingIsDropped /\ DoneIsQueued

LEMMA InitIngest == Init => IngestInv
<1> SUFFICES ASSUME Init PROVE IngestInv
  OBVIOUS
<1>1. corpus \in Seq(Message) /\ Cardinality(Exports(corpus)) = Len(corpus)
  BY CorpusAssumption DEF Init
<1>2. Undecided /\ pc = "idle"
  BY DEF Init, Undecided
<1>3. index \in [Exports(corpus) -> IngestDecision \cup {None}]
  BY <1>2 DEF Undecided
<1> QED BY <1>1, <1>2, <1>3
     DEF IngestInv, IngestTypes, DecidedTogether, SyncedIsDecided, NothingIsDropped, DoneIsQueued

LEMMA SyncKeeps == IngestInv /\ Sync => IngestInv'
<1> SUFFICES ASSUME IngestInv, Sync PROVE IngestInv'
  OBVIOUS
<1>1. UNCHANGED corpus /\ pc = "idle" /\ pc' = "synced"
      /\ index' = IF AllUsable THEN PrepareIngest(corpus) ELSE index
  BY DEF Sync, AllUsable
<1>2. IngestTypes /\ DecidedTogether
  BY DEF IngestInv
<1>3. PrepareIngest(corpus) \in [Exports(corpus) -> IngestDecision]
  BY <1>2, PrepareIngestType DEF IngestTypes
<1>4. index' \in [Exports(corpus) -> IngestDecision \cup {None}]
  <2>1. CASE AllUsable
    <3>1. index' = PrepareIngest(corpus)
      BY <1>1, <2>1
    <3> QED BY <3>1, <1>3
  <2>2. CASE ~AllUsable
    BY <1>1, <1>2, <2>2 DEF IngestTypes
  <2> QED BY <2>1, <2>2
<1>5. IngestTypes'
  BY <1>1, <1>2, <1>4 DEF IngestTypes
<1>6. AllUsable' <=> AllUsable
  BY <1>1 DEF AllUsable
<1>7. PrepareIngest(corpus)' = PrepareIngest(corpus)
  BY <1>1
<1>8. DecidedTogether'
  <2>1. CASE AllUsable
    BY <2>1, <1>1, <1>6, <1>7 DEF DecidedTogether
  <2>2. CASE ~AllUsable
    <3>1. Undecided
      BY <1>2, <2>2 DEF DecidedTogether
    <3>2. Undecided'
      BY <3>1, <2>2, <1>1 DEF Undecided
    <3> QED BY <3>2 DEF DecidedTogether
  <2> QED BY <2>1, <2>2
<1>9. SyncedIsDecided'
  BY <1>1, <1>6, <1>7 DEF SyncedIsDecided
<1>10. NothingIsDropped' /\ DoneIsQueued'
  BY <1>1 DEF NothingIsDropped, DoneIsQueued
<1> QED BY <1>5, <1>8, <1>9, <1>10 DEF IngestInv

\* The parts that speak of the corpus and its decisions alone.
LEMMA DecisionsUntouched ==
  ASSUME IngestInv, UNCHANGED <<corpus, index>>, pc' \in {"idle", "synced", "enqueue", "done", "failed"}
  PROVE  /\ IngestTypes' /\ DecidedTogether' /\ Wanted' = Wanted
         /\ Reconstruct(corpus)' = Reconstruct(corpus)
         /\ (pc' \in {"synced", "enqueue", "done"} => pc \in {"synced", "enqueue", "done"})
              => SyncedIsDecided'
<1>1. UNCHANGED corpus /\ UNCHANGED index
  OBVIOUS
<1>2. IngestTypes'
  BY <1>1 DEF IngestInv, IngestTypes
<1>3. DecidedTogether'
  BY <1>1 DEF IngestInv, DecidedTogether, Undecided, AllUsable
<1>4. (pc' \in {"synced", "enqueue", "done"} => pc \in {"synced", "enqueue", "done"})
        => SyncedIsDecided'
  BY <1>1 DEF IngestInv, SyncedIsDecided, AllUsable
<1>5. Wanted' = Wanted /\ Reconstruct(corpus)' = Reconstruct(corpus)
  BY <1>1 DEF Wanted
<1> QED BY <1>2, <1>3, <1>4, <1>5

LEMMA ExtractKeeps == IngestInv /\ Extract => IngestInv'
<1> SUFFICES ASSUME IngestInv, Extract PROVE IngestInv'
  OBVIOUS
<1>1. UNCHANGED <<corpus, index>> /\ pc = "synced" /\ pc' = "enqueue"
      /\ threads' = Reconstruct(corpus) /\ todo' = Candidates(Reconstruct(corpus), corpus)
  BY DEF Extract
<1>2. IngestTypes' /\ DecidedTogether' /\ Wanted' = Wanted /\ SyncedIsDecided'
      /\ Reconstruct(corpus)' = Reconstruct(corpus)
  BY <1>1, DecisionsUntouched
<1>3. corpus \in Seq(Message)
  BY DEF IngestInv, IngestTypes
<1>4. todo' \in Seq(Wanted) /\ Range(todo') = Wanted
  BY <1>1, <1>3, ThreadsOfGroups, CandidatesAreSeq DEF Wanted
<1>5. NothingIsDropped'
  BY <1>1, <1>2, <1>4 DEF NothingIsDropped
<1>6. DoneIsQueued'
  BY <1>1 DEF DoneIsQueued
<1> QED BY <1>2, <1>5, <1>6 DEF IngestInv

\* Taking the head off a sequence leaves the rest.
LEMMA RestOfSeq ==
  ASSUME NEW W, NEW s \in Seq(W), s # <<>>
  PROVE  /\ Tail(s) \in Seq(W) /\ Head(s) \in W
         /\ \A c \in Range(s) : c = Head(s) \/ c \in Range(Tail(s))
<1>1. Tail(s) \in Seq(W) /\ Head(s) \in W
  OBVIOUS
<1>2. Len(Tail(s)) = Len(s) - 1 /\ Head(s) = s[1] /\ \A k \in 1 .. Len(s) - 1 : Tail(s)[k] = s[k + 1]
  OBVIOUS
<1>3. ASSUME NEW k \in 1 .. Len(s) PROVE s[k] = Head(s) \/ s[k] \in Range(Tail(s))
  <2>1. CASE k = 1
    BY <2>1, <1>2
  <2>2. CASE k # 1
    <3>1. k - 1 \in 1 .. Len(Tail(s)) /\ Tail(s)[k - 1] = s[k]
      BY <2>2, <1>2
    <3>2. DOMAIN Tail(s) = 1 .. Len(Tail(s))
      BY <1>1
    <3> QED BY <3>1, <3>2 DEF Range
  <2> QED BY <2>1, <2>2
<1> QED BY <1>1, <1>3 DEF Range

\* The candidate at hand is queued after the step, whether it was before or not.
LEMMA QueuedKeeps ==
  IngestInv /\ (Enqueue \/ SkipQueued) => IngestInv'
<1> SUFFICES ASSUME IngestInv, Enqueue \/ SkipQueued PROVE IngestInv'
  OBVIOUS
<1>1. /\ UNCHANGED <<corpus, index>> /\ UNCHANGED pc /\ UNCHANGED threads /\ pc = "enqueue"
      /\ todo # <<>> /\ todo' = Tail(todo) /\ queue \subseteq queue'
  BY DEF Enqueue, SkipQueued
<1>2. \E row \in queue' : row.artifact = Head(todo).artifact
  <2>1. CASE Enqueue
    BY <2>1 DEF Enqueue, Queued
  <2>2. CASE SkipQueued
    BY <2>2 DEF SkipQueued, Queued
  <2> QED BY <2>1, <2>2
<1>3. IngestTypes' /\ DecidedTogether' /\ Wanted' = Wanted /\ SyncedIsDecided'
      /\ Reconstruct(corpus)' = Reconstruct(corpus)
  BY <1>1, DecisionsUntouched
<1>4. threads = Reconstruct(corpus) /\ todo \in Seq(Wanted)
      /\ \A c \in Wanted : Queued(c) \/ c \in Range(todo)
  BY <1>1 DEF IngestInv, NothingIsDropped
<1>5. \A c : Queued(c) => Queued(c)'
  BY <1>1 DEF Queued
<1>6. Tail(todo) \in Seq(Wanted) /\ \A c \in Range(todo) : c = Head(todo) \/ c \in Range(Tail(todo))
  BY <1>1, <1>4, RestOfSeq
<1>7. \A c \in Wanted : Queued(c)' \/ c \in Range(todo')
  <2>1. ASSUME NEW c \in Wanted PROVE Queued(c)' \/ c \in Range(todo')
    <3>1. CASE Queued(c)
      BY <3>1, <1>5
    <3>2. CASE c = Head(todo)
      BY <3>2, <1>2 DEF Queued
    <3>3. CASE c \in Range(Tail(todo))
      BY <3>3, <1>1
    <3> QED BY <3>1, <3>2, <3>3, <1>4, <1>6
  <2> QED BY <2>1
<1>8. NothingIsDropped'
  BY <1>1, <1>3, <1>4, <1>6, <1>7 DEF NothingIsDropped
<1>9. DoneIsQueued'
  BY <1>1 DEF DoneIsQueued
<1> QED BY <1>3, <1>8, <1>9 DEF IngestInv

LEMMA ReportKeeps == IngestInv /\ Report => IngestInv'
<1> SUFFICES ASSUME IngestInv, Report PROVE IngestInv'
  OBVIOUS
<1>1. UNCHANGED <<corpus, index>> /\ UNCHANGED queue /\ pc = "enqueue" /\ pc' = "done" /\ todo = <<>>
  BY DEF Report, End
<1>2. IngestTypes' /\ DecidedTogether' /\ Wanted' = Wanted /\ SyncedIsDecided'
  BY <1>1, DecisionsUntouched
<1>3. Range(todo) = {}
  BY <1>1 DEF Range
<1>4. \A c \in Wanted : Queued(c)'
  BY <1>1, <1>3 DEF IngestInv, NothingIsDropped, Queued
<1> QED BY <1>1, <1>2, <1>4 DEF IngestInv, NothingIsDropped, DoneIsQueued

LEMMA StopKeeps == IngestInv /\ (Raise \/ Crash \/ SeedAgain) => IngestInv'
<1> SUFFICES ASSUME IngestInv, Raise \/ Crash \/ SeedAgain PROVE IngestInv'
  OBVIOUS
<1>1. UNCHANGED <<corpus, index>> /\ pc' \in {"idle", "failed"}
  BY DEF Raise, Crash, SeedAgain, End
<1>2. IngestTypes' /\ DecidedTogether' /\ SyncedIsDecided'
  BY <1>1, DecisionsUntouched
<1> QED BY <1>1, <1>2 DEF IngestInv, NothingIsDropped, DoneIsQueued

\* A corpus that can be corrected has no decisions yet, and keeps its exports.
LEMMA CorrectKeeps == IngestInv /\ Correct => IngestInv'
<1> SUFFICES ASSUME IngestInv, Correct PROVE IngestInv'
  OBVIOUS
<1>1. PICK i \in Positions(corpus) :
        /\ ~Usable(corpus[i])
        /\ corpus' = [corpus EXCEPT ![i].mapped = "accepted", ![i].located = TRUE]
  BY DEF Correct
<1>2. pc = "idle" /\ UNCHANGED pc /\ UNCHANGED index
  BY DEF Correct
<1>3. corpus \in Seq(Message) /\ Cardinality(Exports(corpus)) = Len(corpus)
  BY DEF IngestInv, IngestTypes
<1> DEFINE m == [corpus[i] EXCEPT !.mapped = "accepted", !.located = TRUE]
<1>4. corpus' = [corpus EXCEPT ![i] = m]
  BY <1>1
<1>5. m \in Message /\ m.export = corpus[i].export
  <2>1. corpus[i] \in Message
    BY <1>3, MessageFields
  <2> QED BY <2>1 DEF Message
<1> HIDE DEF m
<1>6. corpus' \in Seq(Message) /\ Len(corpus') = Len(corpus)
  BY <1>3, <1>4, <1>5 DEF Positions
<1>7. Exports(corpus') = Exports(corpus)
  <2>1. \A j \in Positions(corpus) : corpus'[j].export = corpus[j].export
    BY <1>3, <1>4, <1>5 DEF Positions
  <2>2. Positions(corpus') = Positions(corpus)
    BY <1>6 DEF Positions
  <2> QED BY <2>1, <2>2 DEF Exports
<1>8. IngestTypes'
  BY <1>2, <1>3, <1>6, <1>7 DEF IngestTypes, IngestInv
<1>9. Undecided
  BY <1>1 DEF IngestInv, DecidedTogether, AllUsable
<1>10. Undecided'
  BY <1>2, <1>7, <1>9 DEF Undecided
<1> QED BY <1>2, <1>8, <1>10
     DEF IngestInv, DecidedTogether, SyncedIsDecided, NothingIsDropped, DoneIsQueued

LEMMA IngestInvKept == IngestInv /\ [Next]_vars => IngestInv'
<1>1. IngestInv /\ UNCHANGED vars => IngestInv'
  BY DEF IngestInv, IngestTypes, DecidedTogether, Undecided, AllUsable, SyncedIsDecided,
     NothingIsDropped, DoneIsQueued, Wanted, Queued, vars
<1> QED BY <1>1, SyncKeeps, ExtractKeeps, QueuedKeeps, ReportKeeps, StopKeeps, CorrectKeeps
     DEF Next, Seed

----------------------------------------------------------------------------
(* Theorems.                                                               *)

\* In every state of mpi seed, however it was cut off or repeated and whatever was corrected
\* in between: the decisions kept are those of the corpus as a whole or there is none, and
\* every candidate of the threads at hand is queued or still to come.
THEOREM IngestInvHolds == Spec => []IngestInv
<1> QED BY InitIngest, IngestInvKept, PTL DEF Spec

\* reconstruct_fixture_threads puts two messages in one thread if, and only if, headers and
\* the subject fallback connect them: for every corpus, of any length, with IDs and
\* fixture_ids that may occur twice, whatever the order of the unions.
THEOREM ThreadsAreComponentsHolds == Spec => []ThreadsAreComponents
<1>1. IngestInv => ThreadsAreComponents
  <2> SUFFICES ASSUME IngestInv, pc = "enqueue",
                      NEW i \in Positions(corpus), NEW j \in Positions(corpus)
               PROVE  ByAll(corpus, i, j) <=>
                        \E t \in Range(threads) :
                          {corpus[i].fixture, corpus[j].fixture} \subseteq t.fixtures
    BY DEF ThreadsAreComponents
  <2>1. corpus \in Seq(Message) /\ threads = Reconstruct(corpus)
    BY DEF IngestInv, IngestTypes, NothingIsDropped
  <2> QED BY <2>1, ReconstructedComponents
<1> QED BY <1>1, IngestInvHolds, PTL

\* The confidence of a thread is high if, and only if, its messages are held together by
\* exact headers alone and none of them is malformed or forwarded: the basis that the
\* fallback records is neither missing nor one too many.
THEOREM ConfidenceIsEarnedHolds == Spec => []ConfidenceIsEarned
<1>1. IngestInv => ConfidenceIsEarned
  <2> SUFFICES ASSUME IngestInv, pc = "enqueue", NEW t \in Range(threads)
               PROVE  LET members == {i \in Positions(corpus) : corpus[i].fixture \in t.fixtures}
                      IN  t.confidence = "high" <=>
                            /\ \A i, j \in members : ByHeaders(corpus, i, j)
                            /\ \A i \in members : ~HasMalformed(corpus[i]) /\ ~corpus[i].forwarded
    BY DEF ConfidenceIsEarned
  <2>1. corpus \in Seq(Message) /\ threads = Reconstruct(corpus)
    BY DEF IngestInv, IngestTypes, NothingIsDropped
  <2>2. PICK g \in GroupsOf(corpus) : t = Thread(corpus, AllLinks(corpus).fallback, g)
    BY <2>1, ThreadsOfGroups
  <2>3. g \in SUBSET Positions(corpus)
    BY GroupsAreClasses, <2>1 DEF GroupsOf
  <2>4. {i \in Positions(corpus) : corpus[i].fixture \in t.fixtures} = g
    BY <2>1, <2>2, <2>3, MembersOfThread
  <2> QED BY <2>1, <2>2, <2>4, ReconstructedConfidence
<1> QED BY <1>1, IngestInvHolds, PTL

\* With every fixture_id used once, what is persisted for an export was decided on its own
\* message, a suppressed one is never eligible, and its thread is named after the first of
\* the messages that it is connected with.
THEOREM DecisionsAreOwnHolds == Spec => []DecisionsAreOwn
<1>1. IngestInv => DecisionsAreOwn
  <2> DEFINE thread(i) ==
        ThreadId(corpus[CHOOSE j \in Positions(corpus) :
          ByAll(corpus, i, j) /\ \A k \in Positions(corpus) : ByAll(corpus, i, k) => j <= k])
  <2> SUFFICES ASSUME IngestInv,
                      Cardinality({corpus[i].fixture : i \in Positions(corpus)}) = Len(corpus),
                      NEW i \in Positions(corpus), index[corpus[i].export] # None
               PROVE  /\ index[corpus[i].export].eligible => Suppression(corpus[i]) = "allow"
                      /\ index[corpus[i].export].thread = thread(i)
    BY DEF DecisionsAreOwn
  <2>1. corpus \in Seq(Message) /\ Cardinality(Exports(corpus)) = Len(corpus)
    BY DEF IngestInv, IngestTypes
  <2>2. corpus[i].export \in Exports(corpus)
    BY DEF Exports
  <2>3. ~Undecided
    BY <2>2 DEF Undecided
  <2>4. index = PrepareIngest(corpus)
    BY <2>3 DEF IngestInv, DecidedTogether
  <2>5. Cardinality(Fixtures(corpus)) = Len(corpus)
    BY DEF Fixtures
  <2>6. /\ PrepareIngest(corpus)[corpus[i].export].eligible => Suppression(corpus[i]) = "allow"
        /\ PrepareIngest(corpus)[corpus[i].export].thread = thread(i)
    BY <2>1, <2>5, PreparedDecision
  <2> HIDE DEF thread
  <2> QED BY <2>4, <2>6
<1> QED BY <1>1, IngestInvHolds, PTL

\* A seed that ends without an exception has queued every candidate of the corpus that the
\* persisted decisions allow and, if the corpus is usable, has a decision for each of its
\* exports. The invariant has more, as the command extracts whatever was decided.
THEOREM SeedIsCompleteHolds == Spec => []SeedIsComplete
<1>1. IngestInv => SeedIsComplete
  <2> SUFFICES ASSUME IngestInv, pc = "done" PROVE SeedIsComplete
    BY DEF SeedIsComplete
  <2>1. \A c \in Wanted : Queued(c)
    BY DEF IngestInv, DoneIsQueued
  <2>2. ASSUME AllUsable, NEW e \in Exports(corpus) PROVE index[e] # None
    <3>1. index = PrepareIngest(corpus)
      BY <2>2 DEF IngestInv, SyncedIsDecided
    <3>2. PrepareIngest(corpus) \in [Exports(corpus) -> IngestDecision]
      BY PrepareIngestType DEF IngestInv, IngestTypes
    <3> QED BY <3>1, <3>2, NoneAssumption
  <2> QED BY <2>1, <2>2 DEF SeedIsComplete, Wanted, AllUsable
<1> QED BY <1>1, IngestInvHolds, PTL
=============================================================================
