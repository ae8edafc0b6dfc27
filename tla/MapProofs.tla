------------------------------ MODULE MapProofs ------------------------------
(***************************************************************************)
(* Proofs about Map and about the multilookup over it.                     *)
(*                                                                         *)
(* Part 1 proves TableIsExact.  A resize is defined by recursion over the  *)
(* chains and over the buckets of the old table; what it computes is found *)
(* by induction over a set of numbers, which needs a least element only.   *)
(* Part 2 proves that the table implements AbstractMap until a removal     *)
(* drops entries.  Part 3 proves StreamsAreExact and FramesFit.            *)
(***************************************************************************)
EXTENDS InterleavedLookup, FiniteSetTheorems, WellFoundedInduction, TLAPS

-----------------------------------------------------------------------------
(***************************************************************************)
(* Induction and recursion over a range of numbers.                        *)
(***************************************************************************)

\* A nonempty set of natural numbers has a least element.
LEMMA Least ==
    ASSUME NEW S \in SUBSET Nat, S # {}
    PROVE  \E m \in S : \A n \in S : m <= n
<1>1. IsWellFoundedOn(OpToRel(<, Nat), Nat)
  BY NatLessThanWellFounded
<1>2. PICK m \in S : \A n \in Nat : <<n, m>> \in OpToRel(<, Nat) => ~(n \in S)
  <2>1. S \subseteq Nat
    OBVIOUS
  <2> QED BY <1>1, <2>1, WFMin, Zenon
<1>3. ASSUME NEW n \in S, n < m PROVE FALSE
  <2>1. n \in Nat /\ m \in Nat
    OBVIOUS
  <2>2. <<n, m>> \in OpToRel(<, Nat)
    BY <1>3, <2>1 DEF OpToRel
  <2> QED BY <1>2, <2>1, <2>2
<1> QED BY <1>3

\* What holds of 0 and passes from each number to the next holds up to N.
LEMMA Induction ==
    ASSUME NEW N \in Nat, NEW T, 0 \in T,
           \A n \in 0..(N - 1) : n \in T => n + 1 \in T
    PROVE  \A n \in 0..N : n \in T
<1> DEFINE S == {n \in 0..N : n \notin T}
<1> SUFFICES ASSUME S # {} PROVE FALSE
  OBVIOUS
<1>1. S \in SUBSET Nat
  OBVIOUS
<1> HIDE DEF S
<1>2. PICK m \in S : \A n \in S : m <= n
  BY <1>1, Least
<1>3. m \in 0..N /\ m \notin T /\ m # 0
  BY DEF S
<1>4. m - 1 \in 0..(N - 1) /\ m - 1 \notin S
  BY <1>1, <1>2, <1>3
<1>5. m - 1 \in T
  BY <1>4 DEF S
<1> QED BY <1>3, <1>4, <1>5

\* The N steps of a recursion over the set V.
Steps(st, N, V) == N \in Nat /\ st \in [1..N -> [V -> V]]

\* g is the recursion that starts with base and takes the steps st.
Recurs(g, base, st, N, V) ==
    /\ g \in [0..N -> V]
    /\ g[0] = base
    /\ \A m \in 1..N : g[m] = st[m][g[m - 1]]

\* A recursion defines a function.
LEMMA Recursion ==
    ASSUME NEW N, NEW V, NEW base, NEW st, base \in V, Steps(st, N, V)
    PROVE  \E g : Recurs(g, base, st, N, V)
<1> USE DEF Steps, Recurs
<1> DEFINE Upto(n) == \E g \in [0..n -> V] :
                          g[0] = base /\ \A m \in 1..n : g[m] = st[m][g[m - 1]]
<1>1. PICK T : T = {n \in 0..N : Upto(n)}
  OBVIOUS
<1>2. Upto(0)
  <2> DEFINE z == [m \in 0..0 |-> base]
  <2>1. z \in [0..0 -> V] /\ z[0] = base /\ \A m \in 1..0 : z[m] = st[m][z[m - 1]]
    OBVIOUS
  <2> HIDE DEF z
  <2> QED BY <2>1
<1>3. ASSUME NEW n \in 0..(N - 1), Upto(n) PROVE Upto(n + 1)
  <2>1. PICK g \in [0..n -> V] :
            g[0] = base /\ \A m \in 1..n : g[m] = st[m][g[m - 1]]
    BY <1>3
  <2>2. n + 1 \in 1..N /\ n \in 0..n
    OBVIOUS
  <2>3. st[n + 1][g[n]] \in V
    BY <2>1, <2>2
  <2> DEFINE h == [m \in 0..(n + 1) |-> IF m = n + 1 THEN st[n + 1][g[n]] ELSE g[m]]
  <2>4. h \in [0..(n + 1) -> V]
    BY <2>1, <2>3
  <2>5. h[0] = base
    BY <2>1
  <2>6. \A m \in 1..(n + 1) : h[m] = st[m][h[m - 1]]
    BY <2>1
  <2> HIDE DEF h
  <2> QED BY <2>4, <2>5, <2>6
<1> HIDE DEF Upto
<1>4. 0 \in T /\ \A n \in 0..(N - 1) : n \in T => n + 1 \in T
  BY <1>1, <1>2, <1>3
<1>5. \A n \in 0..N : n \in T
  BY <1>4, Induction, Zenon
<1> QED BY <1>1, <1>5 DEF Upto

-----------------------------------------------------------------------------
(***************************************************************************)
(* What a resize computes.                                                 *)
(***************************************************************************)

\* Kept obeys its recursion.
LEMMA KeptRecursion ==
    ASSUME NEW c \in Seq(Entry), NEW q, NEW j
    PROVE  \E f : /\ Kept(c, q, j) = f[Len(c)]
                  /\ f[0] = <<>>
                  /\ \A m \in 1..Len(c) :
                         f[m] = IF IndexIn(c[m].key, q) = j THEN Append(f[m - 1], c[m])
                                ELSE f[m - 1]
<1> DEFINE Goes(m) == IndexIn(c[m].key, q) = j
           Rec(f) == f = [m \in 0..Len(c) |->
                            IF m = 0 THEN <<>>
                            ELSE IF IndexIn(c[m].key, q) = j THEN Append(f[m - 1], c[m])
                            ELSE f[m - 1]]
<1>1. PICK N, V, base :
          N \in Nat /\ base \in V /\ N = Len(c) /\ V = Seq(Entry) /\ base = <<>>
  <2>1. Len(c) \in Nat /\ <<>> \in Seq(Entry)
    OBVIOUS
  <2> QED BY <2>1, Zenon
<1>2. \A m \in 1..N : c[m] \in Entry
  BY <1>1
<1>3. PICK st : st = [m \in 1..N |-> [s \in V |-> IF Goes(m) THEN Append(s, c[m]) ELSE s]]
  OBVIOUS
<1> HIDE DEF Goes
<1>4. Steps(st, N, V)
  BY <1>1, <1>2, <1>3 DEF Steps
<1>5. PICK g : Recurs(g, base, st, N, V)
  <2>1. base \in V
    BY <1>1
  <2> QED BY <1>4, <2>1, Recursion, Zenon
<1>6. \A m \in 1..N : g[m] = IF Goes(m) THEN Append(g[m - 1], c[m]) ELSE g[m - 1]
  <2> TAKE m \in 1..N
  <2>1. g[m - 1] \in V /\ g[m] = st[m][g[m - 1]]
    BY <1>1, <1>5 DEF Recurs
  <2> QED BY <1>3, <2>1
<1>7. Rec(g)
  <2>1. \A m \in 0..Len(c) : m # 0 => m \in 1..N
    BY <1>1
  <2> QED BY <1>1, <1>5, <1>6, <2>1 DEF Goes, Recurs
<1>8. Kept(c, q, j) = (CHOOSE f : Rec(f))[Len(c)]
  BY DEF Kept
<1> HIDE DEF Rec
<1>9. PICK f : f = CHOOSE h : Rec(h)
  OBVIOUS
<1>10. Rec(f)
  BY <1>7, <1>9
<1>11. f[0] = <<>>
  <2>1. 0 \in 0..Len(c)
    BY <1>1
  <2> QED BY <1>10, <2>1, Zenon DEF Rec
<1>12. \A m \in 1..Len(c) :
           f[m] = IF IndexIn(c[m].key, q) = j THEN Append(f[m - 1], c[m]) ELSE f[m - 1]
  <2> TAKE m \in 1..Len(c)
  <2>1. m \in 0..Len(c) /\ m # 0
    BY <1>1
  <2> QED BY <1>10, <2>1, Zenon DEF Rec
<1>13. Kept(c, q, j) = f[Len(c)]
  BY <1>8, <1>9
<1> QED BY <1>11, <1>12, <1>13, Zenon

\* No two entries of a chain have the same key.
Distinct(s) == \A m, n \in DOMAIN s : s[m].key = s[n].key => m = n

\* s has the entries among the first M of the chain c that hash to j, and no
\* other; none twice unless c has.
Selects(s, c, M, q, j) ==
    /\ s \in Seq(Entry)
    /\ \A n \in DOMAIN s : \E m \in 1..M : s[n] = c[m] /\ IndexIn(c[m].key, q) = j
    /\ \A m \in 1..M : IndexIn(c[m].key, q) = j => \E n \in DOMAIN s : s[n] = c[m]
    /\ Distinct(c) => Distinct(s)

\* One entry more.
LEMMA KeptStep ==
    ASSUME NEW c \in Seq(Entry), NEW q, NEW j, NEW k \in 0..(Len(c) - 1), NEW s, NEW t,
           Selects(s, c, k, q, j),
           t = IF IndexIn(c[k + 1].key, q) = j THEN Append(s, c[k + 1]) ELSE s
    PROVE  Selects(t, c, k + 1, q, j)
<1>1. /\ s \in Seq(Entry) /\ Len(c) \in Nat /\ k + 1 \in DOMAIN c /\ c[k + 1] \in Entry
      /\ DOMAIN c = 1..Len(c) /\ k \in Nat
  BY DEF Selects
<1>2. CASE IndexIn(c[k + 1].key, q) # j
  <2>1. t = s
    BY <1>2
  <2>2. \A n \in DOMAIN s : \E m \in 1..(k + 1) : s[n] = c[m] /\ IndexIn(c[m].key, q) = j
    BY <1>1 DEF Selects
  <2>3. \A m \in 1..(k + 1) : IndexIn(c[m].key, q) = j => \E n \in DOMAIN s : s[n] = c[m]
    BY <1>1, <1>2 DEF Selects
  <2>4. Distinct(c) => Distinct(s)
    BY DEF Selects
  <2> QED BY <2>1, <2>2, <2>3, <2>4, <1>1 DEF Selects
<1>3. CASE IndexIn(c[k + 1].key, q) = j
  <2>1. t = Append(s, c[k + 1])
    BY <1>3
  <2>2. /\ t \in Seq(Entry) /\ Len(t) = Len(s) + 1 /\ Len(s) \in Nat
        /\ DOMAIN t = 1..(Len(s) + 1) /\ DOMAIN s = 1..Len(s)
        /\ t[Len(s) + 1] = c[k + 1] /\ \A n \in DOMAIN s : t[n] = s[n]
    BY <1>1, <2>1
  <2>3. \A n \in DOMAIN t : n \in DOMAIN s \/ n = Len(s) + 1
    BY <2>2
  <2>4. \A n \in DOMAIN t : \E m \in 1..(k + 1) : t[n] = c[m] /\ IndexIn(c[m].key, q) = j
    <3> TAKE n \in DOMAIN t
    <3>1. CASE n \in DOMAIN s
      <4>1. PICK m \in 1..k : s[n] = c[m] /\ IndexIn(c[m].key, q) = j
        BY <3>1 DEF Selects
      <4>2. m \in 1..(k + 1)
        BY <1>1
      <4> QED BY <4>1, <4>2, <3>1, <2>2
    <3>2. CASE n = Len(s) + 1
      <4>1. k + 1 \in 1..(k + 1)
        BY <1>1
      <4> QED BY <4>1, <3>2, <2>2, <1>3
    <3> QED BY <3>1, <3>2, <2>3
  <2>5. \A m \in 1..(k + 1) : IndexIn(c[m].key, q) = j => \E n \in DOMAIN t : t[n] = c[m]
    <3> TAKE m \in 1..(k + 1)
    <3> HAVE IndexIn(c[m].key, q) = j
    <3>1. m \in 1..k \/ m = k + 1
      BY <1>1
    <3>2. CASE m \in 1..k
      <4>1. PICK n \in DOMAIN s : s[n] = c[m]
        BY <3>2 DEF Selects
      <4>2. n \in DOMAIN t
        BY <2>2
      <4> QED BY <4>1, <4>2, <2>2
    <3>3. CASE m = k + 1
      <4>1. Len(s) + 1 \in DOMAIN t
        BY <2>2
      <4> QED BY <4>1, <3>3, <2>2
    <3> QED BY <3>1, <3>2, <3>3
  <2>6. ASSUME Distinct(c) PROVE Distinct(t)
    <3>1. \A n \in DOMAIN s : s[n].key # c[k + 1].key
      <4> TAKE n \in DOMAIN s
      <4>1. PICK m \in 1..k : s[n] = c[m]
        BY DEF Selects
      <4>2. m \in DOMAIN c /\ m # k + 1
        BY <1>1
      <4> QED BY <4>1, <4>2, <1>1, <2>6 DEF Distinct
    <3>2. Distinct(s)
      BY <2>6 DEF Selects
    <3> SUFFICES ASSUME NEW m \in DOMAIN t, NEW n \in DOMAIN t, t[m].key = t[n].key
                 PROVE  m = n
      BY DEF Distinct
    <3>3. CASE m \in DOMAIN s /\ n \in DOMAIN s
      BY <3>2, <3>3, <2>2 DEF Distinct
    <3>4. CASE m \in DOMAIN s /\ n = Len(s) + 1
      BY <3>1, <3>4, <2>2
    <3>5. CASE n \in DOMAIN s /\ m = Len(s) + 1
      BY <3>1, <3>5, <2>2
    <3> QED BY <3>3, <3>4, <3>5, <2>3
  <2> QED BY <2>2, <2>4, <2>5, <2>6 DEF Selects
<1> QED BY <1>2, <1>3

\* What Kept keeps of a chain.
LEMMA KeptSelects ==
    ASSUME NEW c \in Seq(Entry), NEW q, NEW j
    PROVE  Selects(Kept(c, q, j), c, Len(c), q, j)
<1>1. PICK f : /\ Kept(c, q, j) = f[Len(c)]
               /\ f[0] = <<>>
               /\ \A m \in 1..Len(c) :
                      f[m] = IF IndexIn(c[m].key, q) = j THEN Append(f[m - 1], c[m])
                             ELSE f[m - 1]
  BY KeptRecursion
<1>2. PICK N : N = Len(c) /\ N \in Nat
  OBVIOUS
<1>3. PICK T : T = {m \in 0..N : Selects(f[m], c, m, q, j)}
  OBVIOUS
<1>4. 0 \in T
  <2>1. Selects(f[0], c, 0, q, j)
    <3>1. f[0] = <<>> /\ <<>> \in Seq(Entry) /\ DOMAIN <<>> = {} /\ 1..0 = {}
      BY <1>1
    <3> QED BY <3>1 DEF Selects, Distinct
  <2> QED BY <1>2, <1>3, <2>1
<1>5. ASSUME NEW m \in 0..(N - 1), m \in T PROVE m + 1 \in T
  <2>1. Selects(f[m], c, m, q, j)
    BY <1>3, <1>5
  <2>2. m + 1 \in 1..Len(c) /\ (m + 1) - 1 = m /\ m \in 0..(Len(c) - 1) /\ m + 1 \in 0..N
    BY <1>2
  <2>3. f[m + 1] = IF IndexIn(c[m + 1].key, q) = j THEN Append(f[m], c[m + 1]) ELSE f[m]
    BY <1>1, <2>2
  <2>4. Selects(f[m + 1], c, m + 1, q, j)
    BY <2>1, <2>2, <2>3, KeptStep
  <2> QED BY <1>3, <2>2, <2>4
<1>6. \A m \in 0..N : m \in T
  BY <1>2, <1>4, <1>5, Induction
<1>7. N \in 0..N
  BY <1>2
<1> QED BY <1>1, <1>2, <1>3, <1>6, <1>7

\* The entry e is in the chain c.
Has(c, e) == \E m \in DOMAIN c : c[m] = e

\* The same, by entries.
LEMMA KeptHas ==
    ASSUME NEW c \in Seq(Entry), NEW q, NEW j
    PROVE  /\ Kept(c, q, j) \in Seq(Entry)
           /\ \A e : Has(Kept(c, q, j), e) <=> Has(c, e) /\ IndexIn(e.key, q) = j
           /\ Distinct(c) => Distinct(Kept(c, q, j))
<1>1. PICK s : s = Kept(c, q, j)
  OBVIOUS
<1>2. Selects(s, c, Len(c), q, j)
  BY <1>1, KeptSelects
<1>3. DOMAIN c = 1..Len(c)
  OBVIOUS
<1>4. \A e : Has(s, e) => Has(c, e) /\ IndexIn(e.key, q) = j
  BY <1>2, <1>3 DEF Selects, Has
<1>5. \A e : Has(c, e) /\ IndexIn(e.key, q) = j => Has(s, e)
  BY <1>2, <1>3 DEF Selects, Has
<1> QED BY <1>1, <1>2, <1>4, <1>5 DEF Selects

\* A table as far as a resize reads it: every entry is in its bucket, once.
Table(b, cap) ==
    /\ cap \in Nat \ {0}
    /\ \A i \in 0..(cap - 1) :
           /\ b[i].chain \in Seq(Entry) /\ Distinct(b[i].chain)
           /\ \A e : Has(b[i].chain, e) => IndexIn(e.key, cap) = i

\* s has the entries of the first M buckets that hash to j, each once.
Gathers(s, b, M, q, j) ==
    /\ s \in Seq(Entry) /\ Distinct(s)
    /\ \A e : Has(s, e) <=> /\ IndexIn(e.key, q) = j
                            /\ \E i \in 0..(M - 1) : Has(b[i].chain, e)

\* The entries of two chains.
LEMMA Joined ==
    ASSUME NEW s \in Seq(Entry), NEW u \in Seq(Entry), NEW t, t = s \o u
    PROVE  /\ t \in Seq(Entry)
           /\ \A e : Has(t, e) <=> Has(s, e) \/ Has(u, e)
           /\ Distinct(s) /\ Distinct(u)
                /\ (\A e, d : Has(s, e) /\ Has(u, d) => e.key # d.key) => Distinct(t)
<1>1. /\ t \in Seq(Entry) /\ Len(s) \in Nat /\ Len(u) \in Nat
      /\ DOMAIN s = 1..Len(s) /\ DOMAIN u = 1..Len(u) /\ DOMAIN t = 1..(Len(s) + Len(u))
  OBVIOUS
<1>2. /\ \A n \in DOMAIN s : n \in DOMAIN t /\ t[n] = s[n]
      /\ \A n \in DOMAIN u : n + Len(s) \in DOMAIN t /\ t[n + Len(s)] = u[n]
  BY <1>1
<1>3. \A n \in DOMAIN t : \/ n \in DOMAIN s /\ t[n] = s[n]
                          \/ n - Len(s) \in DOMAIN u /\ t[n] = u[n - Len(s)]
  BY <1>1
<1>4. \A e : Has(t, e) <=> Has(s, e) \/ Has(u, e)
  <2> TAKE e
  <2>1. Has(t, e) => Has(s, e) \/ Has(u, e)
    BY <1>3 DEF Has
  <2>2. Has(s, e) => Has(t, e)
    BY <1>2 DEF Has
  <2>3. ASSUME NEW n \in DOMAIN u, u[n] = e PROVE Has(t, e)
    <3>1. n + Len(s) \in DOMAIN t /\ t[n + Len(s)] = e
      BY <1>2, <2>3
    <3> QED BY <3>1, Zenon DEF Has
  <2> QED BY <2>1, <2>2, <2>3 DEF Has
<1>5. ASSUME Distinct(s), Distinct(u), \A e, d : Has(s, e) /\ Has(u, d) => e.key # d.key
      PROVE  Distinct(t)
  <2> SUFFICES ASSUME NEW m \in DOMAIN t, NEW n \in DOMAIN t, t[m].key = t[n].key
               PROVE  m = n
    BY DEF Distinct
  <2>1. m \in Int /\ n \in Int /\ Len(s) \in Int
    BY <1>1
  <2>2. \A x \in DOMAIN s, y \in DOMAIN u : s[x].key # u[y].key
    BY <1>5 DEF Has
  <2>3. CASE m \in DOMAIN s /\ t[m] = s[m] /\ n \in DOMAIN s /\ t[n] = s[n]
    BY <2>3, <1>5 DEF Distinct
  <2>4. CASE /\ m - Len(s) \in DOMAIN u /\ t[m] = u[m - Len(s)]
             /\ n - Len(s) \in DOMAIN u /\ t[n] = u[n - Len(s)]
    <3>1. m - Len(s) = n - Len(s)
      BY <2>4, <1>5 DEF Distinct
    <3> QED BY <3>1, <2>1
  <2>5. CASE m \in DOMAIN s /\ t[m] = s[m] /\ n - Len(s) \in DOMAIN u /\ t[n] = u[n - Len(s)]
    BY <2>2, <2>5
  <2>6. CASE n \in DOMAIN s /\ t[n] = s[n] /\ m - Len(s) \in DOMAIN u /\ t[m] = u[m - Len(s)]
    BY <2>2, <2>6
  <2> QED BY <1>3, <2>3, <2>4, <2>5, <2>6
<1> QED BY <1>1, <1>4, <1>5

\* One bucket more.
LEMMA GatherStep ==
    ASSUME NEW b, NEW cap, Table(b, cap), NEW q, NEW j, NEW i \in 0..(cap - 1),
           NEW s, NEW t, Gathers(s, b, i, q, j), t = s \o Kept(b[i].chain, q, j)
    PROVE  Gathers(t, b, i + 1, q, j)
<1>1. PICK u : u = Kept(b[i].chain, q, j)
  OBVIOUS
<1>2. b[i].chain \in Seq(Entry) /\ Distinct(b[i].chain) /\ cap \in Nat
  BY DEF Table
<1>3. /\ u \in Seq(Entry) /\ Distinct(u)
      /\ \A e : Has(u, e) <=> Has(b[i].chain, e) /\ IndexIn(e.key, q) = j
  BY <1>1, <1>2, KeptHas
<1>4. s \in Seq(Entry) /\ Distinct(s) /\ t = s \o u
  BY <1>1 DEF Gathers
<1>5. \A k : k \in 0..((i + 1) - 1) <=> k \in 0..(i - 1) \/ k = i
  BY <1>2
<1>6. \A e, d : Has(s, e) /\ Has(u, d) => e.key # d.key
  <2> SUFFICES ASSUME NEW e, NEW d, Has(s, e), Has(u, d) PROVE e.key # d.key
    OBVIOUS
  <2>1. PICK k \in 0..(i - 1) : Has(b[k].chain, e)
    BY DEF Gathers
  <2>2. k \in 0..(cap - 1) /\ k # i
    BY <1>2
  <2>3. IndexIn(e.key, cap) = k /\ IndexIn(d.key, cap) = i
    BY <1>3, <2>1, <2>2 DEF Table
  <2> QED BY <2>2, <2>3
<1>7. /\ t \in Seq(Entry) /\ Distinct(t)
      /\ \A e : Has(t, e) <=> Has(s, e) \/ Has(u, e)
  BY <1>3, <1>4, <1>6, Joined
<1>8. \A e : Has(t, e) <=> /\ IndexIn(e.key, q) = j
                           /\ \E k \in 0..((i + 1) - 1) : Has(b[k].chain, e)
  BY <1>3, <1>5, <1>7 DEF Gathers
<1> QED BY <1>7, <1>8 DEF Gathers

\* A bucket of the new table: all entries that hash to it, each once.
LEMMA RehashedGathers ==
    ASSUME NEW b, NEW cap, Table(b, cap), NEW q, NEW j
    PROVE  /\ Gathers(Rehashed(b, cap, q, j).chain, b, cap, q, j)
           /\ Rehashed(b, cap, q, j).n_items = Len(Rehashed(b, cap, q, j).chain)
<1> DEFINE Rec(f) == f = [i \in 0..cap |->
                            IF i = 0 THEN <<>>
                            ELSE f[i - 1] \o Kept(b[i - 1].chain, q, j)]
<1>1. cap \in Nat /\ cap # 0 /\ \A i \in 1..cap : i - 1 \in 0..(cap - 1)
  BY DEF Table
<1>2. \A i \in 1..cap : Kept(b[i - 1].chain, q, j) \in Seq(Entry)
  BY <1>1, KeptHas DEF Table
<1>3. PICK V, base : V = Seq(Entry) /\ base = <<>> /\ base \in V
  <2>1. <<>> \in Seq(Entry)
    OBVIOUS
  <2> QED BY <2>1, Zenon
<1>4. PICK st : st = [i \in 1..cap |-> [s \in V |-> s \o Kept(b[i - 1].chain, q, j)]]
  OBVIOUS
<1>5. Steps(st, cap, V)
  BY <1>1, <1>2, <1>3, <1>4 DEF Steps
<1>6. PICK g : Recurs(g, base, st, cap, V)
  BY <1>3, <1>5, Recursion, Zenon
<1>7. \A i \in 1..cap : g[i] = g[i - 1] \o Kept(b[i - 1].chain, q, j)
  <2> TAKE i \in 1..cap
  <2>1. g[i - 1] \in V /\ g[i] = st[i][g[i - 1]]
    BY <1>1, <1>6 DEF Recurs
  <2> QED BY <1>4, <2>1
<1>8. Rec(g)
  <2>1. \A i \in 0..cap : i # 0 => i \in 1..cap
    BY <1>1
  <2> QED BY <1>1, <1>3, <1>6, <1>7, <2>1 DEF Recurs
<1>9. Rehashed(b, cap, q, j) = [chain |-> (CHOOSE f : Rec(f))[cap],
                                n_items |-> Len((CHOOSE f : Rec(f))[cap])]
  BY DEF Rehashed
<1> HIDE DEF Rec
<1>10. PICK f : f = CHOOSE h : Rec(h)
  OBVIOUS
<1>11. Rec(f)
  BY <1>8, <1>10
<1>12. f[0] = <<>>
  <2>1. 0 \in 0..cap
    BY <1>1
  <2> QED BY <1>11, <2>1, Zenon DEF Rec
<1>13. \A i \in 1..cap : f[i] = f[i - 1] \o Kept(b[i - 1].chain, q, j)
  <2> TAKE i \in 1..cap
  <2>1. i \in 0..cap /\ i # 0
    BY <1>1
  <2> QED BY <1>11, <2>1, Zenon DEF Rec
<1>14. PICK T : T = {i \in 0..cap : Gathers(f[i], b, i, q, j)}
  OBVIOUS
<1>15. 0 \in T
  <2>1. f[0] \in Seq(Entry) /\ DOMAIN f[0] = {}
    BY <1>12
  <2>2. 0..(0 - 1) = {} /\ 0 \in 0..cap
    BY <1>1
  <2>3. Gathers(f[0], b, 0, q, j)
    BY <2>1, <2>2 DEF Gathers, Distinct, Has
  <2> QED BY <1>14, <2>2, <2>3
<1>16. ASSUME NEW i \in 0..(cap - 1), i \in T PROVE i + 1 \in T
  <2>1. Gathers(f[i], b, i, q, j)
    BY <1>14, <1>16
  <2>2. i + 1 \in 1..cap /\ (i + 1) - 1 = i /\ i + 1 \in 0..cap
    BY <1>1
  <2>3. f[i + 1] = f[i] \o Kept(b[i].chain, q, j)
    BY <1>13, <2>2
  <2>4. Gathers(f[i + 1], b, i + 1, q, j)
    BY <2>1, <2>3, GatherStep
  <2> QED BY <1>14, <2>2, <2>4
<1>17. \A i \in 0..cap : i \in T
  BY <1>1, <1>15, <1>16, Induction
<1>18. Gathers(f[cap], b, cap, q, j)
  <2>1. cap \in 0..cap
    BY <1>1
  <2> QED BY <1>14, <1>17, <2>1
<1>19. Rehashed(b, cap, q, j) = [chain |-> f[cap], n_items |-> Len(f[cap])]
  BY <1>9, <1>10, Zenon
<1> QED BY <1>18, <1>19

-----------------------------------------------------------------------------
(***************************************************************************)
(* The table.                                                              *)
(***************************************************************************)

\* A table with all its fields.
IsTable(b, cap) ==
    /\ Table(b, cap)
    /\ DOMAIN b = 0..(cap - 1) /\ \A i \in 0..(cap - 1) : b[i] \in Bucket

\* The entries in a table, and their keys.
Held(b, cap) == {e \in Entry : \E i \in 0..(cap - 1) : Has(b[i].chain, e)}
KeysOf(H) == {e.key : e \in H}

\* The count of every bucket is the length of its chain.
Counted(b, cap) == \A i \in 0..(cap - 1) : b[i].n_items = Len(b[i].chain)

\* The count of no bucket is short of its chain.
Covered(b, cap) == \A i \in 0..(cap - 1) : Len(b[i].chain) <= b[i].n_items

\* A key has a bucket.
LEMMA Indexed ==
    ASSUME NEW k \in Keys, NEW cap \in Nat \ {0}
    PROVE  IndexIn(k, cap) \in 0..(cap - 1)
<1>1. Hash[k] \in Nat
  BY MapAssumption
<1>2. \A h \in Nat : h % cap \in 0..(cap - 1)
  OBVIOUS
<1> QED BY <1>1, <1>2 DEF IndexIn

\* An entry of a chain is an entry.
LEMMA HasEntry ==
    ASSUME NEW c \in Seq(Entry), NEW e, Has(c, e)
    PROVE  e \in Entry /\ e.key \in Keys /\ e.value \in Values
<1>1. e \in Entry
  BY DEF Has
<1> QED BY <1>1 DEF Entry

\* The entry of a key can only be in the bucket of the key.
LEMMA HeldInBucket ==
    ASSUME NEW b, NEW cap, Table(b, cap), NEW e
    PROVE  /\ e \in Held(b, cap) <=> e \in Entry /\ Has(b[IndexIn(e.key, cap)].chain, e)
           /\ e \in Held(b, cap) => IndexIn(e.key, cap) \in 0..(cap - 1)
<1>1. cap \in Nat \ {0}
  BY DEF Table
<1>2. ASSUME e \in Entry, Has(b[IndexIn(e.key, cap)].chain, e) PROVE e \in Held(b, cap)
  <2>1. e.key \in Keys
    BY <1>2 DEF Entry
  <2>2. IndexIn(e.key, cap) \in 0..(cap - 1)
    BY <1>1, <2>1, Indexed
  <2> QED BY <1>2, <2>2 DEF Held
<1>3. ASSUME e \in Held(b, cap)
      PROVE  /\ e \in Entry /\ Has(b[IndexIn(e.key, cap)].chain, e)
             /\ IndexIn(e.key, cap) \in 0..(cap - 1)
  <2>1. PICK i \in 0..(cap - 1) : e \in Entry /\ Has(b[i].chain, e)
    BY <1>3 DEF Held
  <2>2. IndexIn(e.key, cap) = i
    BY <2>1 DEF Table
  <2> QED BY <2>1, <2>2
<1> QED BY <1>2, <1>3

\* No two entries of a table have the same key.
LEMMA HeldOnce ==
    ASSUME NEW b, NEW cap, Table(b, cap), NEW d \in Held(b, cap), NEW e \in Held(b, cap),
           d.key = e.key
    PROVE  d = e
<1>1. PICK i : i = IndexIn(d.key, cap)
  OBVIOUS
<1>2. Has(b[i].chain, d) /\ Has(b[i].chain, e) /\ i \in 0..(cap - 1)
  BY <1>1, HeldInBucket
<1>3. Distinct(b[i].chain)
  BY <1>2 DEF Table
<1> QED BY <1>2, <1>3 DEF Has, Distinct

\* A resize moves the entries, and neither adds nor loses one.
LEMMA ResizedTable ==
    ASSUME NEW b, NEW cap, IsTable(b, cap), NEW n, NEW t, NEW q, t = Resized(n, cap, b),
           q = IF resize_required(n, cap) THEN 2 * cap ELSE cap
    PROVE  /\ IsTable(t, q) /\ Held(t, q) = Held(b, cap)
           /\ Counted(b, cap) => Counted(t, q)
           /\ Covered(b, cap) => Covered(t, q)
<1>1. CASE ~resize_required(n, cap)
  <2>1. t = b /\ q = cap
    BY <1>1 DEF Resized
  <2> QED BY <2>1
<1>2. CASE resize_required(n, cap)
  <2>1. Table(b, cap) /\ cap \in Nat \ {0}
    BY DEF IsTable, Table
  <2>2. q = 2 * cap /\ q \in Nat \ {0}
    BY <1>2, <2>1
  <2>3. t = [j \in 0..(q - 1) |-> Rehashed(b, cap, q, j)]
    BY <1>2, <2>2 DEF Resized
  <2>4. \A j \in 0..(q - 1) : /\ t[j] = Rehashed(b, cap, q, j)
                              /\ Gathers(t[j].chain, b, cap, q, j)
                              /\ t[j].n_items = Len(t[j].chain)
    BY <2>1, <2>3, RehashedGathers
  <2>5. \A j \in 0..(q - 1) :
            /\ t[j].chain \in Seq(Entry) /\ Distinct(t[j].chain)
            /\ \A e : Has(t[j].chain, e) => IndexIn(e.key, q) = j
    BY <2>4 DEF Gathers
  <2>6. \A j \in 0..(q - 1) : t[j] \in Bucket
    <3> TAKE j \in 0..(q - 1)
    <3>1. PICK s : t[j] = [chain |-> s, n_items |-> Len(s)]
      BY <2>4 DEF Rehashed
    <3>2. s \in Seq(Entry) /\ Len(s) \in Nat
      BY <2>5, <3>1
    <3> QED BY <3>1, <3>2 DEF Bucket
  <2>7. DOMAIN t = 0..(q - 1)
    BY <2>3
  <2>8. Table(t, q)
    BY <2>2, <2>5 DEF Table
  <2>9. ASSUME NEW e PROVE e \in Held(t, q) <=> e \in Held(b, cap)
    <3>1. ASSUME e \in Held(t, q) PROVE e \in Held(b, cap)
      <4>1. PICK j \in 0..(q - 1) : e \in Entry /\ Has(t[j].chain, e)
        BY <3>1 DEF Held
      <4>2. \E i \in 0..(cap - 1) : Has(b[i].chain, e)
        BY <2>4, <4>1 DEF Gathers
      <4> QED BY <4>1, <4>2 DEF Held
    <3>2. ASSUME e \in Held(b, cap) PROVE e \in Held(t, q)
      <4>1. e \in Entry /\ \E i \in 0..(cap - 1) : Has(b[i].chain, e)
        BY <3>2 DEF Held
      <4>2. e.key \in Keys
        BY <4>1 DEF Entry
      <4>3. IndexIn(e.key, q) \in 0..(q - 1)
        BY <2>2, <4>2, Indexed
      <4>4. Has(t[IndexIn(e.key, q)].chain, e)
        BY <2>4, <4>1, <4>3 DEF Gathers
      <4> QED BY <4>1, <4>3, <4>4 DEF Held
    <3> QED BY <3>1, <3>2
  <2>10. Held(t, q) = Held(b, cap)
    BY <2>9
  <2>11. Counted(t, q)
    BY <2>4 DEF Counted
  <2>12. Covered(t, q)
    <3> SUFFICES ASSUME NEW j \in 0..(q - 1) PROVE Len(t[j].chain) <= t[j].n_items
      BY DEF Covered
    <3>1. t[j].n_items = Len(t[j].chain) /\ Len(t[j].chain) \in Nat
      BY <2>4, <2>5
    <3> QED BY <3>1
  <2> QED BY <2>6, <2>7, <2>8, <2>10, <2>11, <2>12 DEF IsTable
<1> QED BY <1>1, <1>2

\* t is b with the chain c in bucket i.
Replaced(t, b, i, c) ==
    /\ DOMAIN t = DOMAIN b /\ t[i] \in Bucket /\ t[i].chain = c
    /\ \A d \in DOMAIN b : d # i => t[d] = b[d]

\* A bucket with entries of its own makes a table again.
LEMMA ReplacedTable ==
    ASSUME NEW b, NEW cap, IsTable(b, cap), NEW i \in 0..(cap - 1), NEW c, NEW t,
           Replaced(t, b, i, c), Distinct(c), \A e : Has(c, e) => IndexIn(e.key, cap) = i
    PROVE  /\ IsTable(t, cap)
           /\ \A e : e \in Held(t, cap) <=>
                        \/ Has(c, e)
                        \/ e \in Held(b, cap) /\ ~Has(b[i].chain, e)
<1>1. /\ DOMAIN b = 0..(cap - 1) /\ Table(b, cap) /\ cap \in Nat \ {0}
      /\ \A d \in 0..(cap - 1) : b[d] \in Bucket
  BY DEF IsTable, Table
<1>2. /\ DOMAIN t = 0..(cap - 1) /\ t[i] \in Bucket /\ t[i].chain = c
      /\ \A d \in 0..(cap - 1) : d # i => t[d] = b[d]
  BY <1>1 DEF Replaced
<1>3. c \in Seq(Entry)
  BY <1>2 DEF Bucket
<1>4. Table(t, cap)
  <2> SUFFICES ASSUME NEW d \in 0..(cap - 1)
               PROVE  /\ t[d].chain \in Seq(Entry) /\ Distinct(t[d].chain)
                      /\ \A e : Has(t[d].chain, e) => IndexIn(e.key, cap) = d
    BY <1>1 DEF Table
  <2>1. CASE d = i
    BY <2>1, <1>2, <1>3
  <2>2. CASE d # i
    <3>1. t[d] = b[d]
      BY <1>2, <2>2
    <3> QED BY <3>1, <1>1 DEF Table
  <2> QED BY <2>1, <2>2
<1>5. IsTable(t, cap)
  BY <1>1, <1>2, <1>4 DEF IsTable
<1>6. ASSUME NEW e
      PROVE  e \in Held(t, cap) <=> \/ Has(c, e)
                                    \/ e \in Held(b, cap) /\ ~Has(b[i].chain, e)
  <2>1. ASSUME e \in Held(t, cap), ~Has(c, e)
        PROVE  e \in Held(b, cap) /\ ~Has(b[i].chain, e)
    <3>1. PICK d \in 0..(cap - 1) : e \in Entry /\ Has(t[d].chain, e)
      BY <2>1 DEF Held
    <3>2. d # i /\ t[d] = b[d]
      BY <1>2, <2>1, <3>1
    <3>3. Has(b[d].chain, e)
      BY <3>1, <3>2
    <3>4. ~Has(b[i].chain, e)
      BY <1>1, <3>2, <3>3 DEF Table
    <3> QED BY <3>1, <3>3, <3>4 DEF Held
  <2>2. ASSUME Has(c, e) PROVE e \in Held(t, cap)
    <3>1. e \in Entry
      BY <1>3, <2>2, HasEntry
    <3> QED BY <1>2, <2>2, <3>1 DEF Held
  <2>3. ASSUME e \in Held(b, cap), ~Has(b[i].chain, e) PROVE e \in Held(t, cap)
    <3>1. PICK d \in 0..(cap - 1) : e \in Entry /\ Has(b[d].chain, e)
      BY <2>3 DEF Held
    <3>2. d # i /\ t[d] = b[d]
      BY <1>2, <2>3, <3>1
    <3> QED BY <3>1, <3>2 DEF Held
  <2> QED BY <2>1, <2>2, <2>3
<1> QED BY <1>5, <1>6

\* The least element of a set is Min.
LEMMA MinIsLeast ==
    ASSUME NEW S \in SUBSET Nat, S # {}
    PROVE  Min(S) \in S /\ \A n \in S : Min(S) <= n
<1>1. PICK m \in S : \A n \in S : m <= n
  BY Least
<1> QED BY <1>1 DEF Min

\* What an operation on k reads: the chain of the bucket of k, and in it the
\* entry of k if the bucket claims to have items.
LEMMA FoundFacts ==
    ASSUME IsTable(buckets, capacity), NEW k \in Keys
    PROVE  /\ bucket_index_for_key(k) \in 0..(capacity - 1)
           /\ BucketOf(k) = buckets[bucket_index_for_key(k)]
           /\ BucketOf(k) \in Bucket /\ BucketOf(k).chain \in Seq(Entry)
           /\ Distinct(BucketOf(k).chain)
           /\ \A e : Has(BucketOf(k).chain, e) =>
                         e \in Held(buckets, capacity)
           /\ \A e \in Held(buckets, capacity) : e.key = k => Has(BucketOf(k).chain, e)
           /\ Found(k) => /\ FirstPlace(k) \in DOMAIN BucketOf(k).chain
                          /\ Has(BucketOf(k).chain, FoundEntry(k))
                          /\ FoundEntry(k) \in Entry /\ FoundEntry(k).key = k
                          /\ FoundEntry(k) \in Held(buckets, capacity)
           /\ (\E e \in Held(buckets, capacity) : e.key = k) /\ BucketOf(k).n_items # 0
                => Found(k)
<1>1. Table(buckets, capacity) /\ capacity \in Nat \ {0}
  BY DEF IsTable, Table
<1>2. PICK i : i = bucket_index_for_key(k) /\ i = IndexIn(k, capacity)
  BY DEF bucket_index_for_key
<1>3. i \in 0..(capacity - 1)
  BY <1>1, <1>2, Indexed
<1>4. BucketOf(k) = buckets[i]
  BY <1>2 DEF BucketOf
<1>5. PICK c : c = buckets[i].chain
  OBVIOUS
<1>6. buckets[i] \in Bucket /\ c \in Seq(Entry) /\ Distinct(c)
  BY <1>1, <1>3, <1>5 DEF IsTable, Table
<1>7. ASSUME NEW e, Has(c, e) PROVE e \in Held(buckets, capacity)
  <2>1. e \in Entry
    BY <1>6, <1>7, HasEntry
  <2> QED BY <1>3, <1>5, <1>7, <2>1 DEF Held
<1>8. ASSUME NEW e \in Held(buckets, capacity), e.key = k PROVE Has(c, e)
  BY <1>1, <1>2, <1>5, <1>8, HeldInBucket
<1>9. ASSUME Found(k)
      PROVE  /\ FirstPlace(k) \in DOMAIN c /\ Has(c, FoundEntry(k))
             /\ FoundEntry(k) \in Entry /\ FoundEntry(k).key = k
  <2>1. PICK P : P = Places(k, c)
    OBVIOUS
  <2>2. P = {m \in DOMAIN c : c[m].key = k}
    BY <2>1 DEF Places
  <2>3. P \in SUBSET Nat /\ P # {}
    BY <1>4, <1>5, <1>6, <1>9, <2>1, <2>2 DEF Found
  <2>4. FirstPlace(k) = Min(P) /\ FoundEntry(k) = c[FirstPlace(k)]
    BY <1>4, <1>5, <2>1 DEF FirstPlace, FoundEntry
  <2>5. FirstPlace(k) \in P
    BY <2>3, <2>4, MinIsLeast
  <2>6. FirstPlace(k) \in DOMAIN c /\ c[FirstPlace(k)].key = k
    BY <2>2, <2>5
  <2>7. Has(c, FoundEntry(k))
    BY <2>4, <2>6 DEF Has
  <2> QED BY <1>6, <2>4, <2>6, <2>7, HasEntry
<1>10. ASSUME NEW e \in Held(buckets, capacity), e.key = k, BucketOf(k).n_items # 0
       PROVE  Found(k)
  <2>1. PICK m \in DOMAIN c : c[m] = e
    BY <1>8, <1>10 DEF Has
  <2>2. m \in Places(k, c)
    BY <1>10, <2>1 DEF Places
  <2> QED BY <1>4, <1>5, <1>10, <2>2 DEF Found
<1> QED BY <1>2, <1>3, <1>4, <1>5, <1>6, <1>7, <1>8, <1>9, <1>10

\* The bucket of k alone.
LEMMA BucketFacts ==
    ASSUME IsTable(buckets, capacity), NEW k \in Keys, NEW i, i = bucket_index_for_key(k)
    PROVE  /\ i \in 0..(capacity - 1) /\ buckets[i] \in Bucket
           /\ buckets[i].chain \in Seq(Entry) /\ Distinct(buckets[i].chain)
<1>1. BucketOf(k) = buckets[i]
  BY DEF BucketOf
<1>2. /\ bucket_index_for_key(k) \in 0..(capacity - 1)
      /\ BucketOf(k) \in Bucket /\ BucketOf(k).chain \in Seq(Entry)
      /\ Distinct(BucketOf(k).chain)
  BY FoundFacts
<1> QED BY <1>1, <1>2

\* An entry at the end of a chain.
LEMMA Appended ==
    ASSUME NEW s \in Seq(Entry), NEW x \in Entry, NEW t, t = Append(s, x)
    PROVE  /\ t \in Seq(Entry) /\ Len(t) = Len(s) + 1
           /\ \A e : Has(t, e) <=> Has(s, e) \/ e = x
           /\ Distinct(s) /\ (\A e : Has(s, e) => e.key # x.key) => Distinct(t)
<1>1. /\ t \in Seq(Entry) /\ Len(t) = Len(s) + 1 /\ Len(s) \in Nat
      /\ DOMAIN t = 1..(Len(s) + 1) /\ DOMAIN s = 1..Len(s)
      /\ t[Len(s) + 1] = x /\ \A n \in DOMAIN s : t[n] = s[n]
  OBVIOUS
<1>2. /\ \A n \in DOMAIN t : n \in DOMAIN s \/ n = Len(s) + 1
      /\ \A n \in DOMAIN s : n \in DOMAIN t
      /\ Len(s) + 1 \in DOMAIN t
  BY <1>1
<1>3. \A e : Has(t, e) <=> Has(s, e) \/ e = x
  BY <1>1, <1>2 DEF Has
<1>4. ASSUME Distinct(s), \A e : Has(s, e) => e.key # x.key PROVE Distinct(t)
  <2> SUFFICES ASSUME NEW m \in DOMAIN t, NEW n \in DOMAIN t, t[m].key = t[n].key
               PROVE  m = n
    BY DEF Distinct
  <2>1. \A n1 \in DOMAIN s : s[n1].key # x.key
    BY <1>4 DEF Has
  <2>2. CASE m \in DOMAIN s /\ n \in DOMAIN s
    BY <1>1, <1>4, <2>2 DEF Distinct
  <2>3. CASE m \in DOMAIN s /\ n = Len(s) + 1
    BY <1>1, <2>1, <2>3
  <2>4. CASE n \in DOMAIN s /\ m = Len(s) + 1
    BY <1>1, <2>1, <2>4
  <2> QED BY <1>2, <2>2, <2>3, <2>4
<1> QED BY <1>1, <1>3, <1>4

\* An insertion adds its entry; it loses what a bucket with a count of 0 still
\* has in its chain, which is nothing as long as no count is short.
LEMMA AddedHeld ==
    ASSUME IsTable(buckets, capacity), NEW k \in Keys, NEW v \in Values, NEW x,
           x = [key |-> k, value |-> v], ~Found(k), AddEntry(k, v)
    PROVE  /\ IsTable(buckets', capacity') /\ x \in Entry
           /\ x \in Held(buckets, capacity)'
           /\ Held(buckets, capacity)' \subseteq Held(buckets, capacity) \cup {x}
           /\ Counted(buckets, capacity) => Counted(buckets, capacity)'
           /\ Covered(buckets, capacity) =>
                 /\ Covered(buckets, capacity)'
                 /\ Held(buckets, capacity)' = Held(buckets, capacity) \cup {x}
                 /\ \A e \in Held(buckets, capacity) : e.key # k
<1>1. PICK i : i = bucket_index_for_key(k) /\ i = IndexIn(k, capacity)
  BY DEF bucket_index_for_key
<1>2. PICK old : old = IF buckets[i].n_items = 0 THEN <<>> ELSE buckets[i].chain
  OBVIOUS
<1>3. PICK b : b = [buckets EXCEPT ![i] =
                      [chain |-> Append(old, x), n_items |-> buckets[i].n_items + 1]]
  OBVIOUS
<1>4. /\ buckets' = Resized(n_items + 1, capacity, b)
      /\ capacity' = IF resize_required(n_items + 1, capacity) THEN 2 * capacity ELSE capacity
  BY <1>1, <1>2, <1>3 DEF AddEntry
<1>5. x \in Entry /\ x.key = k
  BY DEF Entry
<1>6. /\ i \in 0..(capacity - 1) /\ BucketOf(k) = buckets[i]
      /\ buckets[i] \in Bucket /\ buckets[i].chain \in Seq(Entry)
      /\ Distinct(buckets[i].chain) /\ buckets[i].n_items \in Nat
      /\ DOMAIN buckets = 0..(capacity - 1)
  BY <1>1, FoundFacts DEF IsTable, Bucket
<1>7. /\ old \in Seq(Entry) /\ Distinct(old)
      /\ \A e : Has(old, e) => Has(buckets[i].chain, e) /\ buckets[i].n_items # 0
      /\ buckets[i].n_items # 0 => old = buckets[i].chain
  <2>1. CASE buckets[i].n_items = 0
    <3>1. old = <<>> /\ DOMAIN old = {} /\ old \in Seq(Entry)
      BY <1>2, <2>1
    <3> QED BY <2>1, <3>1 DEF Distinct, Has
  <2>2. CASE buckets[i].n_items # 0
    BY <1>2, <1>6, <2>2
  <2> QED BY <2>1, <2>2
<1>8. PICK c : c = Append(old, x)
  OBVIOUS
<1>9. ASSUME NEW e, Has(old, e) PROVE e.key # x.key
  <2>1. e \in Held(buckets, capacity) /\ buckets[i].n_items # 0
    BY <1>1, <1>6, <1>7, <1>9, FoundFacts
  <2> QED BY <1>5, <1>6, <2>1, FoundFacts
<1>10. /\ c \in Seq(Entry) /\ Len(c) = Len(old) + 1 /\ Distinct(c)
       /\ \A e : Has(c, e) <=> Has(old, e) \/ e = x
  <2>1. \A e : Has(old, e) => e.key # x.key
    BY <1>9
  <2>2. old \in Seq(Entry) /\ Distinct(old) /\ x \in Entry
    BY <1>5, <1>7
  <2> QED BY ONLY <1>8, <2>1, <2>2, Appended
<1>11. \A e : Has(c, e) => IndexIn(e.key, capacity) = i
  <2> SUFFICES ASSUME NEW e, Has(c, e) PROVE IndexIn(e.key, capacity) = i
    OBVIOUS
  <2>1. CASE e = x
    BY <1>1, <1>5, <2>1
  <2>2. CASE Has(old, e)
    BY <1>6, <1>7, <2>2 DEF IsTable, Table
  <2> QED BY <1>10, <2>1, <2>2
<1>12. /\ DOMAIN b = DOMAIN buckets /\ b[i] = [chain |-> c, n_items |-> buckets[i].n_items + 1]
       /\ \A d \in DOMAIN buckets : d # i => b[d] = buckets[d]
  BY <1>3, <1>6, <1>8
<1>13. Replaced(b, buckets, i, c)
  <2>1. b[i] \in Bucket /\ b[i].chain = c
    BY <1>6, <1>10, <1>12 DEF Bucket
  <2> QED BY <1>12, <2>1 DEF Replaced
<1>14. /\ IsTable(b, capacity)
       /\ \A e : e \in Held(b, capacity) <=>
                    \/ Has(c, e)
                    \/ e \in Held(buckets, capacity) /\ ~Has(buckets[i].chain, e)
  BY <1>6, <1>10, <1>11, <1>13, ReplacedTable
<1>15. x \in Held(b, capacity) /\ Held(b, capacity) \subseteq Held(buckets, capacity) \cup {x}
  <2>1. x \in Held(b, capacity)
    BY <1>10, <1>14
  <2>2. \A e : Has(old, e) => e \in Held(buckets, capacity)
    BY <1>6, <1>7, FoundFacts
  <2> QED BY <2>1, <2>2, <1>10, <1>14
<1>16. ASSUME Covered(buckets, capacity)
       PROVE  /\ Covered(b, capacity) /\ Held(b, capacity) = Held(buckets, capacity) \cup {x}
              /\ \A e \in Held(buckets, capacity) : e.key # k
              /\ old = buckets[i].chain
  <2>1. Len(buckets[i].chain) <= buckets[i].n_items /\ Len(buckets[i].chain) \in Nat
    BY <1>6, <1>16 DEF Covered
  <2>2. old = buckets[i].chain
    <3>1. Len(buckets[i].chain) = 0 => buckets[i].chain = <<>>
      BY <1>6
    <3> QED BY <1>2, <1>6, <2>1, <3>1
  <2>3. Covered(b, capacity)
    <3> SUFFICES ASSUME NEW d \in 0..(capacity - 1) PROVE Len(b[d].chain) <= b[d].n_items
      BY DEF Covered
    <3>1. CASE d = i
      BY <3>1, <2>1, <2>2, <1>6, <1>10, <1>12
    <3>2. CASE d # i
      BY <3>2, <1>6, <1>12, <1>16 DEF Covered
    <3> QED BY <3>1, <3>2
  <2>4. Held(buckets, capacity) \subseteq Held(b, capacity)
    BY <2>2, <1>10, <1>14
  <2>5. \A e \in Held(buckets, capacity) : e.key # k
    <3> SUFFICES ASSUME NEW e \in Held(buckets, capacity), e.key = k PROVE FALSE
      OBVIOUS
    <3>1. Has(buckets[i].chain, e)
      BY <1>6, FoundFacts
    <3> QED BY <3>1, <2>2, <1>5, <1>9
  <2> QED BY <1>15, <2>2, <2>3, <2>4, <2>5
<1>17. ASSUME Counted(buckets, capacity) PROVE Counted(b, capacity)
  <2>1. buckets[i].n_items = Len(buckets[i].chain)
    BY <1>6, <1>17 DEF Counted
  <2>2. Covered(buckets, capacity)
    <3> SUFFICES ASSUME NEW d \in 0..(capacity - 1)
                 PROVE  Len(buckets[d].chain) <= buckets[d].n_items
      BY DEF Covered
    <3>1. buckets[d].n_items = Len(buckets[d].chain) /\ buckets[d].n_items \in Nat
      BY <1>17 DEF Counted, IsTable, Bucket
    <3> QED BY <3>1
  <2>3. old = buckets[i].chain
    BY <1>16, <2>2
  <2> SUFFICES ASSUME NEW d \in 0..(capacity - 1) PROVE b[d].n_items = Len(b[d].chain)
    BY DEF Counted
  <2>4. CASE d = i
    BY <2>4, <2>1, <2>3, <1>10, <1>12
  <2>5. CASE d # i
    BY <2>5, <1>6, <1>12, <1>17 DEF Counted
  <2> QED BY <2>4, <2>5
<1>18. /\ IsTable(buckets', capacity') /\ Held(buckets', capacity') = Held(b, capacity)
       /\ Counted(b, capacity) => Counted(buckets', capacity')
       /\ Covered(b, capacity) => Covered(buckets', capacity')
  BY <1>4, <1>14, ResizedTable
<1>19. /\ Held(buckets, capacity)' = Held(buckets', capacity')
       /\ Counted(buckets, capacity)' = Counted(buckets', capacity')
       /\ Covered(buckets, capacity)' = Covered(buckets', capacity')
  BY DEF Held, Counted, Covered
<1> QED BY <1>5, <1>15, <1>16, <1>17, <1>18, <1>19

\* t is the chain s with the entry x at p.
Overwrites(t, s, p, x) == t = [s EXCEPT ![p] = x]

\* An entry of a chain is overwritten by one with the same key.
LEMMA Overwritten ==
    ASSUME NEW s, NEW p, NEW x, NEW t, s \in Seq(Entry), Distinct(s), p \in DOMAIN s,
           x \in Entry, x.key = s[p].key, Overwrites(t, s, p, x)
    PROVE  /\ t \in Seq(Entry) /\ Len(t) = Len(s) /\ Distinct(t)
           /\ \A e : Has(t, e) <=> e = x \/ (Has(s, e) /\ e # s[p])
<1>1. /\ t \in Seq(Entry) /\ Len(t) = Len(s) /\ DOMAIN t = DOMAIN s /\ t[p] = x
      /\ \A n \in DOMAIN s : n # p => t[n] = s[n]
  BY DEF Overwrites
<1>2. \A n \in DOMAIN s : n # p => s[n] # s[p]
  BY DEF Distinct
<1>3. Distinct(t)
  BY <1>1 DEF Distinct
<1>4. ASSUME NEW e PROVE Has(t, e) <=> e = x \/ (Has(s, e) /\ e # s[p])
  BY <1>1, <1>2 DEF Has
<1> QED BY <1>1, <1>3, <1>4

\* The entries of a chain behind its p-th.
Behind(s, p) == SubSeq(s, p + 1, Len(s))

\* What is left of a chain after its p-th entry.
LEMMA CutAfter ==
    ASSUME NEW s \in Seq(Entry), Distinct(s), NEW p \in DOMAIN s,
           NEW t, t = Behind(s, p)
    PROVE  /\ t \in Seq(Entry) /\ Len(t) = Len(s) - p /\ Distinct(t)
           /\ \A e : Has(t, e) => Has(s, e) /\ e # s[p]
           /\ p = 1 => \A e : Has(s, e) /\ e # s[p] => Has(t, e)
<1>1. Len(s) \in Nat /\ DOMAIN s = 1..Len(s) /\ p \in 1..Len(s)
  OBVIOUS
<1>2. /\ t \in Seq(Entry) /\ Len(t) = Len(s) - p /\ DOMAIN t = 1..(Len(s) - p)
      /\ \A n \in 1..(Len(s) - p) : t[n] = s[n + p]
  BY <1>1 DEF Behind
<1>3. \A n \in DOMAIN t : /\ n + p \in DOMAIN s /\ n + p # p /\ t[n] = s[n + p]
                          /\ n \in Int /\ p \in Int
  BY <1>1, <1>2
<1>4. \A n \in DOMAIN s : n # p => s[n] # s[p]
  BY DEF Distinct
<1>5. Distinct(t)
  <2> SUFFICES ASSUME NEW m \in DOMAIN t, NEW n \in DOMAIN t, t[m].key = t[n].key
               PROVE  m = n
    BY DEF Distinct
  <2>1. m + p \in DOMAIN s /\ n + p \in DOMAIN s /\ s[m + p].key = s[n + p].key
    BY <1>3
  <2>2. m + p = n + p
    BY <2>1 DEF Distinct
  <2> QED BY <1>3, <2>2
<1>6. \A e : Has(t, e) => Has(s, e) /\ e # s[p]
  BY <1>3, <1>4 DEF Has
<1>7. ASSUME p = 1, NEW e, Has(s, e), e # s[p] PROVE Has(t, e)
  <2>1. PICK n \in DOMAIN s : s[n] = e
    BY <1>7 DEF Has
  <2>2. n # 1 /\ n \in Int /\ n \in 1..Len(s)
    BY <1>1, <1>7, <2>1
  <2>3. n - 1 \in DOMAIN t /\ (n - 1) + p = n
    BY <1>1, <1>2, <1>7, <2>2
  <2>4. t[n - 1] = e
    BY <1>3, <2>1, <2>3
  <2> QED BY <2>3, <2>4 DEF Has
<1> QED BY <1>2, <1>5, <1>6, <1>7

\* What UpdateKV and RemoveKV write when they find the key.
Updates(k, v) ==
    /\ buckets' = [buckets EXCEPT ![bucket_index_for_key(k)].chain[FirstPlace(k)].value = v]
    /\ capacity' = capacity

Removes(k) ==
    /\ buckets' = [buckets EXCEPT ![bucket_index_for_key(k)] =
                      [chain |-> SubSeq(@.chain, FirstPlace(k) + 1, Len(@.chain)),
                       n_items |-> @.n_items - 1]]
    /\ capacity' = capacity

\* An update of a key that is there exchanges its entry.
LEMMA UpdatedHeld ==
    ASSUME IsTable(buckets, capacity), NEW k \in Keys, NEW v \in Values, Found(k),
           Updates(k, v)
    PROVE  \E x \in Entry :
               /\ x.key = k /\ x.value = v
               /\ IsTable(buckets', capacity')
               /\ Held(buckets, capacity)'
                    = (Held(buckets, capacity) \ {FoundEntry(k)}) \cup {x}
               /\ Counted(buckets, capacity) => Counted(buckets, capacity)'
               /\ Covered(buckets, capacity) => Covered(buckets, capacity)'
<1>1. PICK i, c, p : /\ i = bucket_index_for_key(k) /\ i = IndexIn(k, capacity)
                     /\ c = buckets[i].chain /\ p = FirstPlace(k)
  BY DEF bucket_index_for_key
<1>2. /\ i \in 0..(capacity - 1) /\ buckets[i] \in Bucket /\ DOMAIN buckets = 0..(capacity - 1)
      /\ c \in Seq(Entry) /\ Distinct(c) /\ p \in DOMAIN c /\ c[p] \in Entry
      /\ c[p].key = k /\ FoundEntry(k) = c[p]
  <2>1. FoundEntry(k) = c[p] /\ BucketOf(k) = buckets[i]
    BY <1>1 DEF FoundEntry, BucketOf
  <2>2. i \in 0..(capacity - 1) /\ buckets[i] \in Bucket /\ c \in Seq(Entry) /\ Distinct(c)
    BY <1>1, BucketFacts
  <2>3. p \in DOMAIN c
    BY <1>1, <2>1, FoundFacts
  <2>4. c[p] \in Entry /\ c[p].key = k
    BY <2>1, FoundFacts
  <2> QED BY <2>1, <2>2, <2>3, <2>4 DEF IsTable
<1>3. PICK x : x = [c[p] EXCEPT !.value = v]
  OBVIOUS
<1>4. x \in Entry /\ x.key = k /\ x.value = v
  BY <1>2, <1>3 DEF Entry
<1>5. PICK t : t = [c EXCEPT ![p] = x]
  OBVIOUS
<1>6. buckets' = [buckets EXCEPT ![i] = [buckets[i] EXCEPT !.chain = t]] /\ capacity' = capacity
  BY <1>1, <1>3, <1>5 DEF Updates
<1>7. /\ t \in Seq(Entry) /\ Len(t) = Len(c) /\ Distinct(t)
      /\ \A e : Has(t, e) <=> e = x \/ (Has(c, e) /\ e # c[p])
  <2>1. c \in Seq(Entry) /\ Distinct(c) /\ p \in DOMAIN c
    BY <1>2
  <2>2. x \in Entry /\ x.key = c[p].key
    BY <1>2, <1>4
  <2>3. Overwrites(t, c, p, x)
    BY <1>5 DEF Overwrites
  <2> QED BY ONLY <2>1, <2>2, <2>3, Overwritten
<1>8. /\ DOMAIN buckets' = DOMAIN buckets
      /\ buckets'[i] = [buckets[i] EXCEPT !.chain = t]
      /\ \A d \in DOMAIN buckets : d # i => buckets'[d] = buckets[d]
  BY <1>2, <1>6
<1>9. /\ buckets'[i] \in Bucket /\ buckets'[i].chain = t
      /\ buckets'[i].n_items = buckets[i].n_items
  BY <1>2, <1>7, <1>8 DEF Bucket
<1>10. Replaced(buckets', buckets, i, t)
  BY <1>8, <1>9 DEF Replaced
<1>11. \A e : Has(t, e) => IndexIn(e.key, capacity) = i
  BY <1>1, <1>2, <1>4, <1>7 DEF IsTable, Table
<1>12. /\ IsTable(buckets', capacity)
       /\ \A e : e \in Held(buckets', capacity) <=>
                    \/ Has(t, e)
                    \/ e \in Held(buckets, capacity) /\ ~Has(buckets[i].chain, e)
  BY <1>2, <1>7, <1>10, <1>11, ReplacedTable
<1>13. Held(buckets, capacity)' = Held(buckets', capacity)
  BY <1>6 DEF Held
<1>14. \A e : Has(c, e) => e \in Held(buckets, capacity)
  BY <1>1, FoundFacts DEF BucketOf
<1>15. Has(c, c[p])
  BY <1>2 DEF Has
<1>16. Held(buckets', capacity) = (Held(buckets, capacity) \ {FoundEntry(k)}) \cup {x}
  BY <1>1, <1>2, <1>7, <1>12, <1>14, <1>15
<1>17. ASSUME Counted(buckets, capacity) PROVE Counted(buckets, capacity)'
  <2>1. \A d \in 0..(capacity - 1) : buckets'[d].n_items = Len(buckets'[d].chain)
    BY <1>1, <1>2, <1>7, <1>8, <1>9, <1>17 DEF Counted
  <2> QED BY <1>6, <2>1 DEF Counted
<1>18. ASSUME Covered(buckets, capacity) PROVE Covered(buckets, capacity)'
  <2>1. \A d \in 0..(capacity - 1) : Len(buckets'[d].chain) <= buckets'[d].n_items
    BY <1>1, <1>2, <1>7, <1>8, <1>9, <1>18 DEF Covered
  <2> QED BY <1>6, <2>1 DEF Covered
<1> QED BY <1>4, <1>6, <1>12, <1>13, <1>16, <1>17, <1>18

\* A removal loses the entry of its key, and the entries that precede it.
LEMMA RemovedHeld ==
    ASSUME IsTable(buckets, capacity), NEW k \in Keys, Found(k), Removes(k)
    PROVE  /\ IsTable(buckets', capacity') /\ FirstPlace(k) \in Nat \ {0}
           /\ Held(buckets, capacity)' \subseteq Held(buckets, capacity) \ {FoundEntry(k)}
           /\ \A e \in Held(buckets, capacity) : e \notin Held(buckets, capacity)'
                 => bucket_index_for_key(e.key) = bucket_index_for_key(k)
           /\ Covered(buckets, capacity) => Covered(buckets, capacity)'
           /\ FirstPlace(k) = 1 =>
                 /\ Held(buckets, capacity)' = Held(buckets, capacity) \ {FoundEntry(k)}
                 /\ Counted(buckets, capacity) => Counted(buckets, capacity)'
<1>1. PICK i, c, p : /\ i = bucket_index_for_key(k) /\ i = IndexIn(k, capacity)
                     /\ c = buckets[i].chain /\ p = FirstPlace(k)
  BY DEF bucket_index_for_key
<1>2. /\ i \in 0..(capacity - 1) /\ buckets[i] \in Bucket /\ DOMAIN buckets = 0..(capacity - 1)
      /\ c \in Seq(Entry) /\ Distinct(c) /\ p \in DOMAIN c /\ c[p] \in Entry
      /\ c[p].key = k /\ FoundEntry(k) = c[p] /\ buckets[i].n_items # 0
  <2>1. FoundEntry(k) = c[p] /\ BucketOf(k) = buckets[i]
    BY <1>1 DEF FoundEntry, BucketOf
  <2>2. BucketOf(k).n_items # 0
    BY DEF Found
  <2>3. i \in 0..(capacity - 1) /\ buckets[i] \in Bucket /\ c \in Seq(Entry) /\ Distinct(c)
    BY <1>1, BucketFacts
  <2>4. p \in DOMAIN c
    BY <1>1, <2>1, FoundFacts
  <2>5. c[p] \in Entry /\ c[p].key = k
    BY <2>1, FoundFacts
  <2> QED BY <2>1, <2>2, <2>3, <2>4, <2>5 DEF IsTable
<1>3. PICK t : t = Behind(c, p)
  OBVIOUS
<1>4. /\ t \in Seq(Entry) /\ Len(t) = Len(c) - p /\ Distinct(t)
      /\ \A e : Has(t, e) => Has(c, e) /\ e # c[p]
      /\ p = 1 => \A e : Has(c, e) /\ e # c[p] => Has(t, e)
  BY <1>2, <1>3, CutAfter
<1>5. /\ buckets' = [buckets EXCEPT ![i] = [chain |-> t, n_items |-> buckets[i].n_items - 1]]
      /\ capacity' = capacity
  BY <1>1, <1>3 DEF Removes, Behind
<1>6. /\ DOMAIN buckets' = DOMAIN buckets
      /\ buckets'[i] = [chain |-> t, n_items |-> buckets[i].n_items - 1]
      /\ \A d \in DOMAIN buckets : d # i => buckets'[d] = buckets[d]
  BY <1>2, <1>5
<1>7. buckets[i].n_items \in Nat /\ buckets[i].n_items - 1 \in Nat
  BY <1>2 DEF Bucket
<1>8. buckets'[i] \in Bucket /\ buckets'[i].chain = t
  BY <1>4, <1>6, <1>7 DEF Bucket
<1>9. Replaced(buckets', buckets, i, t)
  BY <1>6, <1>8 DEF Replaced
<1>10. \A e : Has(t, e) => IndexIn(e.key, capacity) = i
  BY <1>1, <1>2, <1>4 DEF IsTable, Table
<1>11. /\ IsTable(buckets', capacity)
       /\ \A e : e \in Held(buckets', capacity) <=>
                    \/ Has(t, e)
                    \/ e \in Held(buckets, capacity) /\ ~Has(buckets[i].chain, e)
  BY <1>2, <1>4, <1>9, <1>10, ReplacedTable
<1>12. Held(buckets, capacity)' = Held(buckets', capacity)
  BY <1>5 DEF Held
<1>13. \A e : Has(c, e) => e \in Held(buckets, capacity)
  BY <1>1, FoundFacts DEF BucketOf
<1>14. Has(c, c[p])
  BY <1>2 DEF Has
<1>15. Held(buckets', capacity) \subseteq Held(buckets, capacity) \ {FoundEntry(k)}
  BY <1>1, <1>2, <1>4, <1>11, <1>13, <1>14
<1>16. p = 1 => Held(buckets', capacity) = Held(buckets, capacity) \ {FoundEntry(k)}
  BY <1>1, <1>2, <1>4, <1>11, <1>15
<1>17. ASSUME p = 1, Counted(buckets, capacity) PROVE Counted(buckets, capacity)'
  <2>1. buckets'[i].n_items = Len(buckets'[i].chain)
    <3>1. buckets[i].n_items = Len(c)
      BY <1>1, <1>2, <1>17 DEF Counted
    <3> QED BY <3>1, <1>4, <1>6, <1>17
  <2>2. \A d \in 0..(capacity - 1) : d # i => buckets'[d].n_items = Len(buckets'[d].chain)
    BY <1>2, <1>6, <1>17 DEF Counted
  <2> QED BY <1>5, <2>1, <2>2 DEF Counted
<1>18. p \in Nat \ {0}
  BY <1>2
<1>19. ASSUME NEW e \in Held(buckets, capacity), e \notin Held(buckets', capacity)
       PROVE  bucket_index_for_key(e.key) = i
  <2>1. Has(c, e)
    BY <1>1, <1>11, <1>19
  <2> QED BY <1>1, <1>2, <2>1 DEF IsTable, Table, bucket_index_for_key
<1>20. ASSUME Covered(buckets, capacity) PROVE Covered(buckets, capacity)'
  <2>1. Len(buckets'[i].chain) <= buckets'[i].n_items
    <3>1. Len(c) <= buckets[i].n_items /\ Len(c) \in Nat
      BY <1>1, <1>2, <1>20 DEF Covered
    <3>2. buckets'[i].chain = t /\ buckets'[i].n_items = buckets[i].n_items - 1
      BY <1>6
    <3>3. Len(t) <= buckets[i].n_items - 1
      BY <3>1, <1>4, <1>7, <1>18
    <3> QED BY <3>2, <3>3
  <2>2. \A d \in 0..(capacity - 1) : d # i => Len(buckets'[d].chain) <= buckets'[d].n_items
    BY <1>2, <1>6, <1>20 DEF Covered
  <2> QED BY <1>5, <2>1, <2>2 DEF Covered
<1> QED BY <1>1, <1>5, <1>11, <1>12, <1>15, <1>16, <1>17, <1>18, <1>19, <1>20

-----------------------------------------------------------------------------
(***************************************************************************)
(* TableIsExact.                                                           *)
(***************************************************************************)

\* The keys of the entries that the table holds.
Present == KeysOf(Held(buckets, capacity))

\* The inductive invariant.  After a removal has dropped entries, the counts may
\* exceed the number of entries but never fall short of it: that is why n_items
\* does not go below 0, and why a bucket that still has entries is searched.
MapInv ==
    /\ TypeOK /\ IsTable(buckets, capacity)
    /\ IsFiniteSet(Present) /\ Cardinality(Present) <= n_items
    /\ Covered(buckets, capacity)
    /\ ~dropped => Counted(buckets, capacity) /\ n_items = Cardinality(Present)
    /\ LoadBounded

\* At most one key more.
LEMMA KeysAdded ==
    ASSUME NEW H, NEW G, NEW x, IsFiniteSet(KeysOf(H)), G \subseteq H \cup {x}
    PROVE  /\ IsFiniteSet(KeysOf(G)) /\ Cardinality(KeysOf(G)) \in Nat
           /\ Cardinality(KeysOf(H)) \in Nat
           /\ Cardinality(KeysOf(G)) <= Cardinality(KeysOf(H)) + 1
           /\ G = H \cup {x} /\ (\A e \in H : e.key # x.key)
                => Cardinality(KeysOf(G)) = Cardinality(KeysOf(H)) + 1
<1>1. PICK S : S = KeysOf(H) \cup {x.key}
  OBVIOUS
<1>2. /\ IsFiniteSet(S) /\ Cardinality(KeysOf(H)) \in Nat /\ Cardinality(S) \in Nat
      /\ Cardinality(S) = IF x.key \in KeysOf(H) THEN Cardinality(KeysOf(H))
                          ELSE Cardinality(KeysOf(H)) + 1
  BY <1>1, FS_AddElement, FS_CardinalityType
<1>3. KeysOf(G) \in SUBSET S
  BY <1>1 DEF KeysOf
<1>4. /\ IsFiniteSet(KeysOf(G)) /\ Cardinality(KeysOf(G)) <= Cardinality(S)
      /\ Cardinality(KeysOf(G)) \in Nat
  BY <1>2, <1>3, FS_Subset, FS_CardinalityType
<1>5. ASSUME G = H \cup {x}, \A e \in H : e.key # x.key
      PROVE  Cardinality(KeysOf(G)) = Cardinality(KeysOf(H)) + 1
  <2>1. KeysOf(G) = S /\ x.key \notin KeysOf(H)
    BY <1>1, <1>5 DEF KeysOf
  <2> QED BY <1>2, <2>1
<1> QED BY <1>2, <1>4, <1>5

\* At least one key less.
LEMMA KeysRemoved ==
    ASSUME NEW H, NEW G, NEW x \in H, IsFiniteSet(KeysOf(H)), G \subseteq H \ {x},
           \A d, e \in H : d.key = e.key => d = e
    PROVE  /\ IsFiniteSet(KeysOf(G)) /\ Cardinality(KeysOf(G)) \in Nat
           /\ Cardinality(KeysOf(H)) \in Nat
           /\ Cardinality(KeysOf(G)) <= Cardinality(KeysOf(H)) - 1
           /\ G = H \ {x} => Cardinality(KeysOf(G)) = Cardinality(KeysOf(H)) - 1
<1>1. PICK S : S = KeysOf(H) \ {x.key}
  OBVIOUS
<1>2. x.key \in KeysOf(H)
  BY DEF KeysOf
<1>3. /\ IsFiniteSet(S) /\ Cardinality(KeysOf(H)) \in Nat /\ Cardinality(S) \in Nat
      /\ Cardinality(S) = Cardinality(KeysOf(H)) - 1
  BY <1>1, <1>2, FS_RemoveElement, FS_CardinalityType
<1>4. KeysOf(G) \in SUBSET S
  BY <1>1 DEF KeysOf
<1>5. /\ IsFiniteSet(KeysOf(G)) /\ Cardinality(KeysOf(G)) <= Cardinality(S)
      /\ Cardinality(KeysOf(G)) \in Nat
  BY <1>3, <1>4, FS_Subset, FS_CardinalityType
<1>6. ASSUME G = H \ {x} PROVE KeysOf(G) = S
  BY <1>1, <1>6 DEF KeysOf
<1> QED BY <1>3, <1>5, <1>6

\* The invariant says that the table is exact.
LEMMA ExactTable == ASSUME MapInv PROVE TableIsExact
<1>1. /\ TypeOK /\ LoadBounded /\ Table(buckets, capacity)
      /\ DOMAIN buckets = 0..(capacity - 1)
  BY DEF MapInv, IsTable
<1>2. \A i \in DOMAIN buckets :
          /\ buckets[i].chain \in Seq(Entry) /\ Distinct(buckets[i].chain)
          /\ \A m \in DOMAIN buckets[i].chain :
                 IndexIn(buckets[i].chain[m].key, capacity) = i
  BY <1>1 DEF Table, Has
<1>3. EntriesInPlace
  BY <1>2 DEF EntriesInPlace, Distinct, bucket_index_for_key
<1>4. Stored = Present
  <2>1. ASSUME NEW k \in Stored PROVE k \in Present
    <3>1. PICK i \in DOMAIN buckets : \E m \in DOMAIN buckets[i].chain :
              k = buckets[i].chain[m].key
      BY <2>1 DEF Stored
    <3> PICK m \in DOMAIN buckets[i].chain : k = buckets[i].chain[m].key
      BY <3>1
    <3>2. PICK e : e = buckets[i].chain[m]
      OBVIOUS
    <3>3. e \in Entry /\ Has(buckets[i].chain, e)
      BY <1>2, <3>2 DEF Has
    <3>4. e \in Held(buckets, capacity)
      BY <1>1, <3>3 DEF Held
    <3> QED BY <3>1, <3>2, <3>4 DEF Present, KeysOf
  <2>2. ASSUME NEW k \in Present PROVE k \in Stored
    <3>1. PICK e \in Held(buckets, capacity) : k = e.key
      BY <2>2 DEF Present, KeysOf
    <3>2. PICK i \in 0..(capacity - 1) : Has(buckets[i].chain, e)
      BY DEF Held
    <3>3. PICK m \in DOMAIN buckets[i].chain : buckets[i].chain[m] = e
      BY <3>2 DEF Has
    <3>4. i \in DOMAIN buckets
      BY <1>1
    <3> QED BY <3>1, <3>3, <3>4 DEF Stored
  <2> QED BY <2>1, <2>2
<1>5. CountsAgree
  BY <1>1, <1>4 DEF MapInv, CountsAgree, Counted
<1> QED BY <1>1, <1>3, <1>5 DEF TableIsExact

\* The empty map.
LEMMA MapInit == ASSUME Init PROVE MapInv
<1>1. /\ n_items = 0 /\ capacity = InitCapacity /\ InitCapacity \in 1..MaxCapacity
      /\ buckets = [i \in 0..(InitCapacity - 1) |-> EmptyBucket]
      /\ result = Nothing /\ dropped = FALSE /\ crashed = FALSE /\ MaxCapacity \in Nat
  BY CapacityAssumption, MapAssumption DEF Init
<1> HIDE DEF InitCapacity
<1>2. capacity \in Nat \ {0} /\ DOMAIN buckets = 0..(capacity - 1)
  BY <1>1
<1>3. \A i \in 0..(capacity - 1) : buckets[i] = EmptyBucket
  BY <1>1
<1>4. EmptyBucket \in Bucket /\ EmptyBucket.chain = <<>> /\ EmptyBucket.n_items = 0
  BY DEF EmptyBucket, Bucket
<1>5. <<>> \in Seq(Entry) /\ Distinct(<<>>) /\ Len(<<>>) = 0 /\ \A e : ~Has(<<>>, e)
  <2>1. <<>> \in Seq(Entry) /\ DOMAIN <<>> = {} /\ Len(<<>>) = 0
    OBVIOUS
  <2> QED BY <2>1 DEF Distinct, Has
<1>6. IsTable(buckets, capacity)
  BY <1>2, <1>3, <1>4, <1>5 DEF IsTable, Table
<1>7. Present = {}
  BY <1>3, <1>4, <1>5 DEF Present, KeysOf, Held
<1>8. Counted(buckets, capacity) /\ Covered(buckets, capacity)
  BY <1>3, <1>4, <1>5 DEF Counted, Covered
<1>9. result \in Result
  BY <1>1 DEF Nothing, Result
<1>10. TypeOK
  BY <1>1, <1>2, <1>3, <1>4, <1>9 DEF TypeOK
<1>11. LoadBounded
  BY <1>1 DEF LoadBounded
<1> QED BY <1>1, <1>6, <1>7, <1>8, <1>10, <1>11, FS_EmptySet DEF MapInv

\* An answer with an entry.
LEMMA Answered1 ==
    ASSUME NEW e \in Entry, NEW ok \in BOOLEAN
    PROVE  [ok |-> ok, entry |-> e] \in Result
<1>1. e \in Answer
  BY DEF Entry, Answer
<1> QED BY <1>1 DEF Result

\* The entry goes in, and the table grows before it is overloaded.
LEMMA AddStep ==
    ASSUME MapInv, NEW k \in Keys, NEW v \in Values, ~Found(k), AddEntry(k, v),
           UNCHANGED <<dropped, crashed>>
    PROVE  MapInv'
<1>1. PICK x : x = [key |-> k, value |-> v]
  OBVIOUS
<1>2. /\ IsTable(buckets, capacity) /\ n_items \in Nat /\ capacity \in Nat \ {0}
      /\ dropped \in BOOLEAN /\ crashed \in BOOLEAN /\ IsFiniteSet(Present)
      /\ Cardinality(Present) <= n_items /\ LoadBounded
      /\ Covered(buckets, capacity)
      /\ ~dropped => Counted(buckets, capacity) /\ n_items = Cardinality(Present)
  BY DEF MapInv, TypeOK, IsTable, Table
<1>3. /\ n_items' = n_items + 1
      /\ result' = [ok |-> TRUE, entry |-> [key |-> k, value |-> DANGLING]]
      /\ capacity' = IF resize_required(n_items + 1, capacity) THEN 2 * capacity ELSE capacity
  BY <1>1 DEF AddEntry
<1>4. PICK H, G : H = Held(buckets, capacity) /\ G = Held(buckets, capacity)'
  OBVIOUS
<1>5. /\ IsTable(buckets', capacity') /\ x \in Entry /\ G \subseteq H \cup {x}
      /\ Counted(buckets, capacity) => Counted(buckets, capacity)'
      /\ Covered(buckets, capacity)' /\ G = H \cup {x} /\ \A e \in H : e.key # k
  BY <1>1, <1>2, <1>4, AddedHeld
<1>6. x.key = k
  BY <1>1
<1>7. Present = KeysOf(H) /\ Present' = KeysOf(G)
  BY <1>4 DEF Present, KeysOf
<1>8. /\ IsFiniteSet(KeysOf(G)) /\ Cardinality(KeysOf(G)) \in Nat
      /\ Cardinality(KeysOf(H)) \in Nat
      /\ Cardinality(KeysOf(G)) <= Cardinality(KeysOf(H)) + 1
      /\ G = H \cup {x} /\ (\A e \in H : e.key # x.key)
           => Cardinality(KeysOf(G)) = Cardinality(KeysOf(H)) + 1
  BY <1>2, <1>5, <1>7, KeysAdded
<1>9. IsFiniteSet(Present') /\ Cardinality(Present') <= n_items'
  BY <1>2, <1>3, <1>7, <1>8
<1>10. ASSUME ~dropped' PROVE Counted(buckets, capacity)' /\ n_items' = Cardinality(Present')
  <2>1. ~dropped
    BY <1>10
  <2> QED BY <2>1, <1>2, <1>3, <1>5, <1>6, <1>7, <1>8
<1>11. LoadBounded'
  <2>1. MaxCapacity \in Nat
    BY MapAssumption
  <2>2. /\ (2 * n_items <= capacity \/ 2 * capacity > MaxCapacity) /\ capacity <= MaxCapacity
    BY <1>2 DEF LoadBounded
  <2>3. CASE resize_required(n_items + 1, capacity)
    <3>1. 2 * capacity <= MaxCapacity /\ capacity' = 2 * capacity
      BY <1>3, <2>3 DEF resize_required
    <3> QED BY <1>2, <1>3, <2>1, <2>2, <3>1 DEF LoadBounded
  <2>4. CASE ~resize_required(n_items + 1, capacity)
    <3>1. /\ ~(2 * (n_items + 1) > capacity /\ 2 * capacity <= MaxCapacity)
          /\ capacity' = capacity
      BY <1>3, <2>4 DEF resize_required
    <3> QED BY <1>2, <1>3, <2>1, <2>2, <3>1 DEF LoadBounded
  <2> QED BY <2>3, <2>4
<1>12. TypeOK'
  <2>1. result' \in Result
    BY <1>3 DEF Result, Answer
  <2>2. /\ capacity' \in Nat /\ DOMAIN buckets' = 0..(capacity' - 1)
        /\ \A i \in 0..(capacity' - 1) : buckets'[i] \in Bucket
    BY <1>5 DEF IsTable, Table
  <2>3. n_items' \in Nat
    BY <1>2, <1>3
  <2> QED BY <1>2, <2>1, <2>2, <2>3 DEF TypeOK
<1>13. IsTable(buckets, capacity)'
  BY <1>5 DEF IsTable, Table
<1> QED BY <1>5, <1>9, <1>10, <1>11, <1>12, <1>13 DEF MapInv

\* The value of an entry changes, and no count.
LEMMA UpdateStep ==
    ASSUME MapInv, NEW k \in Keys, NEW v \in Values, Found(k), Updates(k, v),
           result' = [ok |-> TRUE, entry |-> [key |-> k, value |-> v]],
           UNCHANGED <<n_items, dropped, crashed>>
    PROVE  MapInv'
<1>1. /\ IsTable(buckets, capacity) /\ TypeOK /\ LoadBounded /\ IsFiniteSet(Present)
      /\ Cardinality(Present) <= n_items
      /\ Covered(buckets, capacity)
      /\ ~dropped => Counted(buckets, capacity) /\ n_items = Cardinality(Present)
  BY DEF MapInv
<1>2. capacity' = capacity
  BY DEF Updates
<1>3. PICK x \in Entry : /\ x.key = k /\ IsTable(buckets', capacity')
                         /\ Held(buckets, capacity)'
                              = (Held(buckets, capacity) \ {FoundEntry(k)}) \cup {x}
                         /\ Counted(buckets, capacity) => Counted(buckets, capacity)'
                         /\ Covered(buckets, capacity)'
  BY <1>1, UpdatedHeld
<1>4. FoundEntry(k) \in Held(buckets, capacity) /\ FoundEntry(k).key = k
  BY <1>1, FoundFacts
<1>5. Present' = Present
  <2>1. PICK H, G : H = Held(buckets, capacity) /\ G = Held(buckets, capacity)'
    OBVIOUS
  <2>2. Present = KeysOf(H) /\ Present' = KeysOf(G)
    BY <2>1 DEF Present, KeysOf
  <2>3. KeysOf(G) = KeysOf(H)
    BY <1>3, <1>4, <2>1 DEF KeysOf
  <2> QED BY <2>2, <2>3
<1>6. TypeOK'
  <2>1. result' \in Result
    <3>1. [key |-> k, value |-> v] \in Entry
      BY DEF Entry
    <3> QED BY <3>1, Answered1
  <2>2. /\ capacity' \in Nat /\ DOMAIN buckets' = 0..(capacity' - 1)
        /\ \A i \in 0..(capacity' - 1) : buckets'[i] \in Bucket
    BY <1>3 DEF IsTable, Table
  <2> QED BY <1>1, <2>1, <2>2 DEF TypeOK
<1>7. LoadBounded'
  BY <1>1, <1>2 DEF LoadBounded
<1>8. IsTable(buckets, capacity)'
  BY <1>3 DEF IsTable, Table
<1> QED BY <1>1, <1>3, <1>5, <1>6, <1>7, <1>8 DEF MapInv

\* A removal that finds its key: n_items was not 0.
LEMMA RemoveStep ==
    ASSUME MapInv, NEW k \in Keys, Found(k), Removes(k), n_items' = n_items - 1,
           result' = [ok |-> TRUE, entry |-> FoundEntry(k)],
           dropped' = (dropped \/ FirstPlace(k) > 1), crashed' = crashed
    PROVE  MapInv'
<1>1. /\ IsTable(buckets, capacity) /\ TypeOK /\ LoadBounded /\ IsFiniteSet(Present)
      /\ Cardinality(Present) <= n_items /\ n_items \in Nat
      /\ Covered(buckets, capacity)
      /\ ~dropped => Counted(buckets, capacity) /\ n_items = Cardinality(Present)
  BY DEF MapInv, TypeOK
<1>2. capacity' = capacity
  BY DEF Removes
<1>3. PICK H, G : H = Held(buckets, capacity) /\ G = Held(buckets, capacity)'
  OBVIOUS
<1>4. /\ IsTable(buckets', capacity') /\ FirstPlace(k) \in Nat \ {0}
      /\ G \subseteq H \ {FoundEntry(k)} /\ Covered(buckets, capacity)'
      /\ FirstPlace(k) = 1 =>
            /\ G = H \ {FoundEntry(k)}
            /\ Counted(buckets, capacity) => Counted(buckets, capacity)'
  BY <1>1, <1>3, RemovedHeld
<1>5. FoundEntry(k) \in H /\ FoundEntry(k) \in Entry
  BY <1>1, <1>3, FoundFacts
<1>6. Present = KeysOf(H) /\ Present' = KeysOf(G)
  BY <1>3 DEF Present, KeysOf
<1>7. \A d, e \in H : d.key = e.key => d = e
  BY <1>1, <1>3, HeldOnce DEF IsTable
<1>8. /\ IsFiniteSet(Present') /\ Cardinality(Present') \in Nat
      /\ Cardinality(Present) \in Nat
      /\ Cardinality(Present') <= Cardinality(Present) - 1
      /\ G = H \ {FoundEntry(k)} => Cardinality(Present') = Cardinality(Present) - 1
  BY <1>1, <1>4, <1>5, <1>6, <1>7, KeysRemoved
<1>9. n_items' \in Nat /\ Cardinality(Present') <= n_items'
  BY <1>1, <1>8
<1>10. ASSUME ~dropped' PROVE Counted(buckets, capacity)' /\ n_items' = Cardinality(Present')
  <2>1. ~dropped /\ ~(FirstPlace(k) > 1)
    BY <1>10, Zenon
  <2>2. FirstPlace(k) = 1
    BY <1>4, <2>1
  <2> QED BY <2>1, <2>2, <1>1, <1>4, <1>8
<1>11. TypeOK'
  <2>1. result' \in Result
    BY <1>5, Answered1
  <2>2. /\ capacity' \in Nat /\ DOMAIN buckets' = 0..(capacity' - 1)
        /\ \A i \in 0..(capacity' - 1) : buckets'[i] \in Bucket
    BY <1>4 DEF IsTable, Table
  <2>3. dropped' \in BOOLEAN /\ crashed' \in BOOLEAN
    BY <1>1 DEF TypeOK
  <2> QED BY <1>9, <2>1, <2>2, <2>3 DEF TypeOK
<1>12. LoadBounded'
  <2>1. capacity \in Nat /\ MaxCapacity \in Nat
    BY <1>1, MapAssumption DEF TypeOK
  <2> QED BY <1>1, <1>2, <2>1 DEF LoadBounded
<1>13. IsTable(buckets, capacity)'
  BY <1>4 DEF IsTable, Table
<1> QED BY <1>4, <1>8, <1>9, <1>10, <1>11, <1>12, <1>13 DEF MapInv

\* Steps that leave the table alone.
LEMMA QuietStep ==
    ASSUME MapInv, UNCHANGED <<n_items, capacity, buckets, dropped>>,
           result' \in Result, crashed' \in BOOLEAN
    PROVE  MapInv'
<1>1. TypeOK'
  BY DEF MapInv, TypeOK
<1>2. LoadBounded'
  BY DEF MapInv, LoadBounded
<1>3. Held(buckets, capacity)' = Held(buckets, capacity)
  BY DEF Held
<1>4. Present' = Present
  BY <1>3 DEF Present, KeysOf
<1>5. /\ IsTable(buckets, capacity)' /\ Covered(buckets, capacity)'
      /\ Counted(buckets, capacity)' <=> Counted(buckets, capacity)
  BY DEF MapInv, IsTable, Table, Counted, Covered
<1> QED BY <1>1, <1>2, <1>4, <1>5 DEF MapInv

\* What is not found.
LEMMA NothingType == Nothing \in Result
BY DEF Nothing, Result

\* Every operation of the map preserves the invariant.
LEMMA MapNext == ASSUME MapInv, Next PROVE MapInv'
<1>1. IsTable(buckets, capacity) /\ result \in Result /\ crashed \in BOOLEAN
  BY DEF MapInv, TypeOK
<1>2. ASSUME NEW k \in Keys, LookupKV(k) PROVE MapInv'
  <2>1. result' \in Result
    <3>1. CASE Found(k)
      <4>1. FoundEntry(k) \in Entry
        BY <1>1, <3>1, FoundFacts
      <4>2. result' = [ok |-> TRUE, entry |-> FoundEntry(k)]
        BY <1>2, <3>1 DEF LookupKV
      <4> QED BY <4>1, <4>2, Answered1
    <3>2. CASE ~Found(k)
      BY <1>2, <3>2, NothingType DEF LookupKV
    <3> QED BY <3>1, <3>2
  <2> QED BY <1>1, <1>2, <2>1, QuietStep DEF LookupKV
<1>3. ASSUME NEW k \in Keys, NEW v \in Values, InsertKV(k, v) PROVE MapInv'
  <2>1. CASE Found(k) /\ result' = [ok |-> FALSE, entry |-> FoundEntry(k)]
             /\ UNCHANGED <<n_items, capacity, buckets>>
    <3>1. FoundEntry(k) \in Entry
      BY <1>1, <2>1, FoundFacts
    <3>2. result' \in Result
      BY <2>1, <3>1, Answered1
    <3> QED BY <1>1, <1>3, <2>1, <3>2, QuietStep DEF InsertKV
  <2>2. CASE ~Found(k) /\ AddEntry(k, v)
    BY <1>3, <2>2, AddStep DEF InsertKV
  <2> QED BY <1>3, <2>1, <2>2 DEF InsertKV
<1>4. ASSUME NEW k \in Keys, NEW v \in Values, UpdateKV(k, v) PROVE MapInv'
  <2>1. CASE /\ Found(k)
             /\ buckets' = [buckets EXCEPT
                   ![bucket_index_for_key(k)].chain[FirstPlace(k)].value = v]
             /\ result' = [ok |-> TRUE, entry |-> [key |-> k, value |-> v]]
             /\ UNCHANGED <<n_items, capacity>>
    <3>1. Updates(k, v)
      BY <2>1 DEF Updates
    <3>2. UNCHANGED <<n_items, dropped, crashed>>
      BY <1>4, <2>1 DEF UpdateKV
    <3> QED BY <2>1, <3>1, <3>2, UpdateStep
  <2>2. CASE ~Found(k) /\ AddEntry(k, v)
    BY <1>4, <2>2, AddStep DEF UpdateKV
  <2> QED BY <1>4, <2>1, <2>2 DEF UpdateKV
<1>5. ASSUME NEW k \in Keys, RemoveKV(k) PROVE MapInv'
  <2>1. CASE Found(k)
    <3>1. Removes(k)
      BY <1>5, <2>1 DEF RemoveKV, Removes
    <3>2. /\ n_items' = n_items - 1 /\ result' = [ok |-> TRUE, entry |-> FoundEntry(k)]
          /\ dropped' = (dropped \/ FirstPlace(k) > 1) /\ crashed' = crashed
      BY <1>5, <2>1 DEF RemoveKV
    <3> QED BY <2>1, <3>1, <3>2, RemoveStep
  <2>2. CASE ~Found(k)
    <3>1. result' = Nothing /\ UNCHANGED <<n_items, capacity, buckets, dropped, crashed>>
      BY <1>5, <2>2 DEF RemoveKV
    <3> QED BY <1>1, <3>1, NothingType, QuietStep
  <2> QED BY <2>1, <2>2
<1>6. ASSUME NEW k \in Keys, Crash(k) PROVE MapInv'
  BY <1>1, <1>6, QuietStep DEF Crash
<1> QED BY <1>2, <1>3, <1>4, <1>5, <1>6 DEF Next

\* A step of the multilookup leaves the table alone: at most it answers nothing,
\* or crashes.
LEMMA CallQuiet ==
    ASSUME BeginCall \/ CallStep
    PROVE  /\ UNCHANGED <<n_items, capacity, buckets, dropped>>
           /\ result' = result \/ (BeginCall /\ result' = Nothing)
           /\ crashed' = crashed \/ crashed' = TRUE
<1>1. CASE BeginCall
  BY <1>1 DEF BeginCall
<1>2. CASE CrashInLookup
  BY <1>2 DEF CrashInLookup
<1>3. CASE CallStep /\ ~CrashInLookup
  <2>1. UNCHANGED vars
    BY <1>3 DEF CallStep, Spawn, MakeRoom, SpawnInRoom, Suspend, Complete, BeginRun, RunNext,
                EndRun, EndCall
  <2> QED BY <2>1 DEF vars
<1> QED BY <1>1, <1>2, <1>3

\* Every step of the map and of the multilookup preserves the invariant.
LEMMA MapKept ==
    ASSUME MapInv, [MapStep \/ BeginCall \/ CallStep]_<<vars, callVars>>
    PROVE  MapInv'
<1>1. CASE MapStep
  BY <1>1, MapNext DEF MapStep
<1>2. result \in Result /\ crashed \in BOOLEAN
  BY DEF MapInv, TypeOK
<1>3. CASE BeginCall \/ CallStep
  <2>1. result' \in Result /\ crashed' \in BOOLEAN
    BY <1>2, <1>3, CallQuiet, NothingType
  <2> QED BY <1>3, <2>1, CallQuiet, QuietStep
<1>4. CASE UNCHANGED <<vars, callVars>>
  BY <1>2, <1>4, QuietStep DEF vars
<1> QED BY <1>1, <1>3, <1>4

\* The invariant holds in every state of the map and of the multilookup.
LEMMA MapInvariance == LookupSpec => []MapInv
<1>1. LookupInit => MapInv
  BY MapInit DEF LookupInit
<1>2. MapInv /\ [MapStep \/ BeginCall \/ CallStep]_<<vars, callVars>> => MapInv'
  BY MapKept
<1> QED BY <1>1, <1>2, PTL DEF LookupSpec

\* Whatever is inserted, updated and removed, whatever collides and however the
\* table grows: entries are in the bucket where lookup searches them, each key
\* once, and until a removal drops entries (Map::remove of an entry that is not
\* the first of its chain) all counts are exact.
THEOREM TableStaysExact == LookupSpec => []TableIsExact
BY MapInvariance, ExactTable, PTL

-----------------------------------------------------------------------------
(***************************************************************************)
(* ImplementsLossyMap.                                                     *)
(***************************************************************************)

\* Contents is the function from the keys to the values of the entries held.
ContentsAre ==
    /\ DOMAIN Contents = Present
    /\ \A e \in Held(buckets, capacity) : Contents[e.key] = e.value
    /\ \A k \in Keys : Found(k) <=> k \in Present

\* Lookup finds exactly what is held: no count hides an entry.
LEMMA ContentsFacts == MapInv => ContentsAre
<1> SUFFICES ASSUME MapInv PROVE ContentsAre
  OBVIOUS
<1>1. IsTable(buckets, capacity) /\ Table(buckets, capacity) /\ Covered(buckets, capacity)
  BY DEF MapInv, IsTable
<1>2. ASSUME NEW k \in Keys, Found(k) PROVE k \in Present
  BY <1>1, <1>2, FoundFacts DEF Present, KeysOf
<1>3. ASSUME NEW k \in Keys, k \in Present PROVE Found(k)
  <2>1. PICK e \in Held(buckets, capacity) : e.key = k
    BY <1>3 DEF Present, KeysOf
  <2>2. PICK i : i = bucket_index_for_key(k)
    OBVIOUS
  <2>3. /\ Has(BucketOf(k).chain, e) /\ BucketOf(k) = buckets[i] /\ i \in 0..(capacity - 1)
        /\ BucketOf(k).chain \in Seq(Entry)
    BY <1>1, <2>1, <2>2, FoundFacts
  <2>4. Len(BucketOf(k).chain) \in Nat \ {0}
    BY <2>3 DEF Has
  <2>5. BucketOf(k).n_items # 0
    <3>1. BucketOf(k).n_items \in Nat
      BY <1>1, <2>3 DEF IsTable, Bucket
    <3>2. Len(BucketOf(k).chain) <= BucketOf(k).n_items
      BY <1>1, <2>3 DEF Covered
    <3> QED BY <2>4, <3>1, <3>2
  <2> QED BY <1>1, <2>1, <2>5, FoundFacts
<1>4. Present \subseteq Keys
  BY DEF Present, KeysOf, Held, Entry
<1>5. {x \in Keys : Found(x)} = Present
  BY <1>2, <1>3, <1>4
<1>6. Contents = [k \in Present |-> FoundEntry(k).value]
  BY <1>5 DEF Contents
<1>7. ASSUME NEW e \in Held(buckets, capacity) PROVE Contents[e.key] = e.value
  <2>1. e.key \in Present
    BY DEF Present, KeysOf
  <2>2. Found(e.key) /\ e.key \in Keys
    BY <1>3, <1>4, <2>1
  <2>3. FoundEntry(e.key) \in Held(buckets, capacity) /\ FoundEntry(e.key).key = e.key
    BY <1>1, <2>2, FoundFacts
  <2>4. FoundEntry(e.key) = e
    BY <1>1, <2>3, HeldOnce
  <2> QED BY <1>6, <2>1, <2>4
<1> QED BY <1>2, <1>3, <1>6, <1>7 DEF ContentsAre

\* The same of the next state.
LEMMA ContentsFactsNext == MapInv' => ContentsAre'
BY ContentsFacts, PTL

\* Contents is a function, now and in the next state.
LEMMA ContentsFunction ==
    /\ Contents = [k \in DOMAIN Contents |-> Contents[k]]
    /\ Contents' = [k \in DOMAIN Contents' |-> Contents'[k]]
<1>1. Contents = [k \in DOMAIN Contents |-> Contents[k]]
  BY DEF Contents
<1>2. Contents' = [k \in DOMAIN Contents' |-> Contents'[k]]
  BY DEF Contents
<1> QED BY <1>1, <1>2

\* Nothing is written: lookup finds what it found.
LEMMA ContentsKept == ASSUME UNCHANGED <<buckets, capacity>> PROVE Contents' = Contents
BY DEF Contents, Found, FoundEntry, FirstPlace, BucketOf, bucket_index_for_key

\* An entry goes in that has no predecessor, or replaces its predecessor.
LEMMA ContentsWith ==
    ASSUME MapInv, MapInv', NEW k \in Keys, NEW v, NEW x, NEW old,
           x.key = k, x.value = v,
           \A e \in old : e.key = k,
           \A e \in Held(buckets, capacity) \ old : e.key # k,
           Held(buckets, capacity)' = (Held(buckets, capacity) \ old) \cup {x}
    PROVE  /\ Contents' = Abstract!With(k, v) /\ Contents'[k] = v
           /\ k \in DOMAIN Contents'
<1>1. PICK H, G : H = Held(buckets, capacity) /\ G = Held(buckets, capacity)'
  OBVIOUS
<1>2. /\ DOMAIN Contents = KeysOf(H) /\ DOMAIN Contents' = KeysOf(G)
      /\ \A e \in H : Contents[e.key] = e.value
      /\ \A e \in G : Contents'[e.key] = e.value
  <2>1. ContentsAre /\ ContentsAre'
    BY ContentsFacts, ContentsFactsNext
  <2>2. Present = KeysOf(H) /\ Present' = KeysOf(G)
    BY <1>1 DEF Present, KeysOf
  <2> QED BY <1>1, <2>1, <2>2 DEF ContentsAre
<1>3. G = (H \ old) \cup {x} /\ \A e \in H \ old : e.key # k
  BY <1>1
<1>4. KeysOf(G) = KeysOf(H) \cup {k}
  BY <1>3 DEF KeysOf
<1>5. Contents'[k] = v
  BY <1>2, <1>3
<1>6. ASSUME NEW j \in KeysOf(H), j # k PROVE Contents'[j] = Contents[j]
  <2>1. PICK e \in H : e.key = j
    BY DEF KeysOf
  <2>2. e \in G
    BY <1>3, <1>6, <2>1
  <2> QED BY <1>2, <2>1, <2>2
<1>7. PICK c, d : c = Contents /\ d = Contents'
  OBVIOUS
<1>8. d = [j \in KeysOf(H) \cup {k} |-> IF j = k THEN v ELSE c[j]]
  <2>1. d = [j \in DOMAIN d |-> d[j]] /\ DOMAIN d = KeysOf(H) \cup {k}
    BY <1>2, <1>4, <1>7, ContentsFunction
  <2>2. \A j \in KeysOf(H) \cup {k} : d[j] = IF j = k THEN v ELSE c[j]
    BY <1>5, <1>6, <1>7
  <2> QED BY <2>1, <2>2
<1>9. Contents' = Abstract!With(k, v)
  BY <1>2, <1>7, <1>8 DEF Abstract!With
<1> QED BY <1>2, <1>4, <1>5, <1>9

\* An insertion of a key that is not there.
LEMMA AddContents ==
    ASSUME MapInv, MapInv', NEW k \in Keys, NEW v \in Values,
           ~Found(k), AddEntry(k, v)
    PROVE  /\ Contents' = Abstract!With(k, v) /\ Contents'[k] = v /\ k \notin DOMAIN Contents
           /\ Abstract!Inserted(k)
<1>1. PICK x : x = [key |-> k, value |-> v]
  OBVIOUS
<1>2. IsTable(buckets, capacity) /\ Covered(buckets, capacity)
  BY DEF MapInv
<1>3. /\ Held(buckets, capacity)' = Held(buckets, capacity) \cup {x}
      /\ \A e \in Held(buckets, capacity) : e.key # k
  BY <1>1, <1>2, AddedHeld
<1>4. x.key = k /\ x.value = v
  BY <1>1
<1>5. PICK none : none = {}
  OBVIOUS
<1>6. /\ \A e \in none : e.key = k
      /\ \A e \in Held(buckets, capacity) \ none : e.key # k
      /\ Held(buckets, capacity)' = (Held(buckets, capacity) \ none) \cup {x}
  BY <1>3, <1>5
<1>7. Contents' = Abstract!With(k, v) /\ Contents'[k] = v
  BY <1>4, <1>6, ContentsWith
<1>8. k \notin DOMAIN Contents
  BY ContentsFacts DEF ContentsAre
<1>9. Abstract!Inserted(k)
  <2>1. result' = [ok |-> TRUE, entry |-> [key |-> k, value |-> DANGLING]]
    BY DEF AddEntry
  <2> QED BY <2>1 DEF Abstract!Inserted
<1> QED BY <1>7, <1>8, <1>9

\* The found entry, as an answer of the abstract map.
LEMMA FoundAnswer ==
    ASSUME MapInv, NEW k \in Keys
    PROVE  /\ Found(k) <=> k \in DOMAIN Contents
           /\ Found(k) => FoundEntry(k) = [key |-> k, value |-> Contents[k]]
<1>1. ContentsAre /\ IsTable(buckets, capacity)
  BY ContentsFacts DEF MapInv
<1>2. ASSUME Found(k) PROVE FoundEntry(k) = [key |-> k, value |-> Contents[k]]
  <2>1. PICK f : f = FoundEntry(k)
    OBVIOUS
  <2>2. f \in Held(buckets, capacity) /\ f.key = k /\ f \in Entry
    BY <1>1, <1>2, <2>1, FoundFacts
  <2>3. f = [key |-> f.key, value |-> f.value]
    BY <2>2 DEF Entry
  <2>4. Contents[k] = f.value
    BY <1>1, <2>2 DEF ContentsAre
  <2> QED BY <2>1, <2>2, <2>3, <2>4, Zenon
<1> QED BY <1>1, <1>2 DEF ContentsAre

\* A removal that loses keys of its bucket.
LosingStep ==
    \E k \in DOMAIN Contents : \E lost \in SUBSET BucketMates(k) :
        Abstract!RemoveLosing(k, lost)

\* A step of the refinement.
Implements == [Abstract!Next \/ LosingStep]_<<Contents, result>>

\* A lookup, a failed insertion, and a removal that finds nothing.
LEMMA ReadRefines ==
    ASSUME MapInv, NEW k \in Keys, UNCHANGED <<buckets, capacity>>
    PROVE  /\ result' = (IF Found(k) THEN [ok |-> TRUE, entry |-> FoundEntry(k)] ELSE Nothing)
                => Abstract!LookupKV(k)
           /\ Found(k) /\ result' = [ok |-> FALSE, entry |-> FoundEntry(k)]
                => \A v \in Values : Abstract!InsertKV(k, v)
           /\ ~Found(k) /\ result' = Nothing => Abstract!RemoveKV(k)
<1>1. Contents' = Contents
  BY ContentsKept
<1>2. /\ Found(k) <=> k \in DOMAIN Contents
      /\ Found(k) => FoundEntry(k) = [key |-> k, value |-> Contents[k]]
  BY FoundAnswer
<1>3. ASSUME result' = (IF Found(k) THEN [ok |-> TRUE, entry |-> FoundEntry(k)] ELSE Nothing)
      PROVE  Abstract!LookupKV(k)
  <2>1. CASE Found(k)
    BY <1>1, <1>2, <1>3, <2>1, Zenon DEF Abstract!LookupKV, Abstract!Answer
  <2>2. CASE ~Found(k)
    BY <1>1, <1>2, <1>3, <2>2, Zenon DEF Abstract!LookupKV, Abstract!NoAnswer, Nothing
  <2> QED BY <2>1, <2>2
<1>4. ASSUME Found(k), result' = [ok |-> FALSE, entry |-> FoundEntry(k)], NEW v \in Values
      PROVE  Abstract!InsertKV(k, v)
  <2>1. k \in DOMAIN Contents
    BY <1>2, <1>4
  <2>2. Abstract!Answer(FALSE, k, Contents)
    BY <1>2, <1>4, Zenon DEF Abstract!Answer
  <2> QED BY <1>1, <2>1, <2>2, Zenon DEF Abstract!InsertKV
<1>5. ASSUME ~Found(k), result' = Nothing PROVE Abstract!RemoveKV(k)
  <2>1. k \notin DOMAIN Contents /\ DOMAIN Contents \ {k} = DOMAIN Contents
    BY <1>2, <1>5
  <2>2. Abstract!RemoveAnswer(k)
    BY <1>5, <2>1, Zenon DEF Abstract!RemoveAnswer, Abstract!NoAnswer, Nothing
  <2>3. Contents' = [j \in DOMAIN Contents \ {k} |-> Contents[j]]
    BY <1>1, <2>1, ContentsFunction, Zenon
  <2> QED BY <2>2, <2>3 DEF Abstract!RemoveKV, Abstract!Restrict
<1> QED BY <1>3, <1>4, <1>5

\* An insertion that adds its entry.
LEMMA AddRefines ==
    ASSUME MapInv, MapInv', NEW k \in Keys, NEW v \in Values,
           ~Found(k), AddEntry(k, v)
    PROVE  Abstract!InsertKV(k, v) /\ Abstract!UpdateKV(k, v)
<1>1. /\ Contents' = Abstract!With(k, v) /\ k \notin DOMAIN Contents /\ Abstract!Inserted(k)
  BY AddContents
<1> QED BY <1>1, Zenon DEF Abstract!InsertKV, Abstract!UpdateKV

\* An update of a key that is there.
LEMMA UpdateRefines ==
    ASSUME MapInv, MapInv', NEW k \in Keys, NEW v \in Values,
           Found(k), Updates(k, v),
           result' = [ok |-> TRUE, entry |-> [key |-> k, value |-> v]]
    PROVE  Abstract!UpdateKV(k, v)
<1>1. IsTable(buckets, capacity)
  BY DEF MapInv
<1>2. PICK x \in Entry : /\ x.key = k /\ x.value = v
                         /\ Held(buckets, capacity)'
                              = (Held(buckets, capacity) \ {FoundEntry(k)}) \cup {x}
  BY <1>1, UpdatedHeld
<1>3. FoundEntry(k) \in Held(buckets, capacity) /\ FoundEntry(k).key = k
  BY <1>1, FoundFacts
<1>4. PICK old : old = {FoundEntry(k)}
  OBVIOUS
<1>5. \A e \in old : e.key = k
  BY <1>3, <1>4
<1>6. \A e \in Held(buckets, capacity) \ old : e.key # k
  BY <1>1, <1>3, <1>4, HeldOnce DEF IsTable
<1>7. Contents' = Abstract!With(k, v) /\ Contents'[k] = v
  BY <1>2, <1>4, <1>5, <1>6, ContentsWith
<1>8. k \in DOMAIN Contents
  BY FoundAnswer
<1>9. Abstract!Answer(TRUE, k, Contents')
  BY <1>7, Zenon DEF Abstract!Answer
<1> QED BY <1>7, <1>8, <1>9, Zenon DEF Abstract!UpdateKV

\* A removal that finds its key: what else it loses shares the bucket.
LEMMA RemoveRefines ==
    ASSUME MapInv, MapInv', NEW k \in Keys, Found(k), Removes(k),
           result' = [ok |-> TRUE, entry |-> FoundEntry(k)]
    PROVE  LosingStep
<1>1. IsTable(buckets, capacity)
  BY DEF MapInv
<1>2. k \in DOMAIN Contents /\ FoundEntry(k) = [key |-> k, value |-> Contents[k]]
  BY FoundAnswer
<1>3. Abstract!RemoveAnswer(k)
  BY <1>2, Zenon DEF Abstract!RemoveAnswer, Abstract!Answer
<1>4. PICK H, G, f : /\ H = Held(buckets, capacity) /\ G = Held(buckets, capacity)'
                     /\ f = FoundEntry(k)
  OBVIOUS
<1>5. /\ G \subseteq H \ {f}
      /\ \A e \in H : e \notin G => bucket_index_for_key(e.key) = bucket_index_for_key(k)
  BY <1>1, <1>4, RemovedHeld
<1>6. f \in H /\ f.key = k
  BY <1>1, <1>4, FoundFacts
<1>7. \A e \in H : e.key = k => e = f
  BY <1>1, <1>4, <1>6, HeldOnce DEF IsTable
<1>8. /\ DOMAIN Contents = KeysOf(H) /\ DOMAIN Contents' = KeysOf(G)
      /\ \A e \in H : Contents[e.key] = e.value
      /\ \A e \in G : Contents'[e.key] = e.value
  <2>1. ContentsAre /\ ContentsAre'
    BY ContentsFacts, ContentsFactsNext
  <2>2. Present = KeysOf(H) /\ Present' = KeysOf(G)
    BY <1>4 DEF Present, KeysOf
  <2> QED BY <1>4, <2>1, <2>2 DEF ContentsAre
<1>9. PICK lost : lost = KeysOf(H) \ KeysOf(G)
  OBVIOUS
<1>10. lost \subseteq BucketMates(k)
  <2> SUFFICES ASSUME NEW j \in lost PROVE j \in BucketMates(k)
    OBVIOUS
  <2>1. PICK e \in H : e.key = j /\ e \notin G
    BY <1>9 DEF KeysOf
  <2>2. j \in Keys
    BY <1>4, <2>1 DEF Held, Entry
  <2> QED BY <1>5, <2>1, <2>2 DEF BucketMates
<1>11. k \notin KeysOf(G) /\ KeysOf(G) \subseteq KeysOf(H)
  BY <1>5, <1>7 DEF KeysOf
<1>12. KeysOf(G) = KeysOf(H) \ ({k} \cup lost)
  BY <1>9, <1>11
<1>13. ASSUME NEW j \in KeysOf(G) PROVE Contents'[j] = Contents[j]
  <2>1. PICK e \in G : e.key = j
    BY DEF KeysOf
  <2> QED BY <1>5, <1>8, <2>1
<1>14. Contents' = [j \in DOMAIN Contents \ ({k} \cup lost) |-> Contents[j]]
  BY <1>8, <1>12, <1>13, ContentsFunction
<1>15. Abstract!RemoveLosing(k, lost)
  BY <1>3, <1>14 DEF Abstract!RemoveLosing, Abstract!Restrict
<1> QED BY <1>2, <1>10, <1>15 DEF LosingStep

\* Every operation of the map is one of the abstract map, or such a removal.
LEMMA MapRefines == ASSUME MapInv, MapInv', Next PROVE Implements
<1>1. ASSUME Abstract!Next PROVE Implements
  BY <1>1 DEF Implements
<1>2. ASSUME NEW k \in Keys, LookupKV(k) PROVE Implements
  <2>1. Abstract!LookupKV(k)
    BY <1>2, ReadRefines DEF LookupKV
  <2> QED BY <1>1, <2>1 DEF Abstract!Next
<1>3. ASSUME NEW k \in Keys, NEW v \in Values, InsertKV(k, v) PROVE Implements
  <2>1. Abstract!InsertKV(k, v)
    <3>1. CASE Found(k) /\ result' = [ok |-> FALSE, entry |-> FoundEntry(k)]
               /\ UNCHANGED <<n_items, capacity, buckets>>
      BY <3>1, ReadRefines
    <3>2. CASE ~Found(k) /\ AddEntry(k, v)
      BY <3>2, AddRefines
    <3> QED BY <1>3, <3>1, <3>2 DEF InsertKV
  <2> QED BY <1>1, <2>1 DEF Abstract!Next
<1>4. ASSUME NEW k \in Keys, NEW v \in Values, UpdateKV(k, v) PROVE Implements
  <2>1. Abstract!UpdateKV(k, v)
    <3>1. CASE /\ Found(k)
               /\ buckets' = [buckets EXCEPT
                     ![bucket_index_for_key(k)].chain[FirstPlace(k)].value = v]
               /\ result' = [ok |-> TRUE, entry |-> [key |-> k, value |-> v]]
               /\ UNCHANGED <<n_items, capacity>>
      <4>1. Updates(k, v)
        BY <3>1 DEF Updates
      <4> QED BY <3>1, <4>1, UpdateRefines
    <3>2. CASE ~Found(k) /\ AddEntry(k, v)
      BY <3>2, AddRefines
    <3> QED BY <1>4, <3>1, <3>2 DEF UpdateKV
  <2> QED BY <1>1, <2>1 DEF Abstract!Next
<1>5. ASSUME NEW k \in Keys, RemoveKV(k) PROVE Implements
  <2>1. CASE Found(k)
    <3>1. Removes(k)
      BY <1>5, <2>1 DEF RemoveKV, Removes
    <3>2. result' = [ok |-> TRUE, entry |-> FoundEntry(k)]
      BY <1>5, <2>1 DEF RemoveKV
    <3> QED BY <2>1, <3>1, <3>2, RemoveRefines DEF Implements
  <2>2. CASE ~Found(k)
    <3>1. result' = Nothing /\ UNCHANGED <<buckets, capacity>>
      BY <1>5, <2>2 DEF RemoveKV
    <3>2. Abstract!RemoveKV(k)
      BY <2>2, <3>1, ReadRefines
    <3> QED BY <1>1, <3>2 DEF Abstract!Next
  <2> QED BY <2>1, <2>2
<1>6. ASSUME NEW k \in Keys, Crash(k) PROVE Implements
  BY <1>6, ContentsKept DEF Crash, Implements
<1> QED BY <1>2, <1>3, <1>4, <1>5, <1>6 DEF Next

\* Initially the map is empty.
LEMMA EmptyRefines == ASSUME Init PROVE Abstract!Init
<1>1. /\ n_items = 0 /\ capacity = InitCapacity /\ InitCapacity \in 1..MaxCapacity
      /\ buckets = [i \in 0..(InitCapacity - 1) |-> EmptyBucket] /\ result = Nothing
      /\ MaxCapacity \in Nat
  BY CapacityAssumption, MapAssumption DEF Init
<1> HIDE DEF InitCapacity
<1>2. ASSUME NEW k \in Keys PROVE ~Found(k)
  <2>1. bucket_index_for_key(k) \in 0..(capacity - 1)
    BY <1>1, Indexed DEF bucket_index_for_key
  <2>2. BucketOf(k) = EmptyBucket
    BY <1>1, <2>1 DEF BucketOf
  <2> QED BY <2>2 DEF Found, EmptyBucket
<1>3. {x \in Keys : Found(x)} = {}
  BY <1>2
<1>4. Contents = [k \in {} |-> CHOOSE v \in Values : TRUE]
  BY <1>3 DEF Contents
<1> QED BY <1>1, <1>4 DEF Abstract!Init, Nothing

\* For any keys, hash and operations and over every resize, the map is the partial
\* function that its interface documents, but for a removal, which may lose keys
\* of its own bucket: every answer is the documented one, also on chains that lost
\* entries, and a multilookup never changes the contents.
THEOREM MapImplements == LookupSpec => ImplementsLossyMap
<1>1. LookupInit => Abstract!Init
  BY EmptyRefines DEF LookupInit
<1>2. MapInv /\ MapInv' /\ [MapStep \/ BeginCall \/ CallStep]_<<vars, callVars>>
        => [Implements]_<<buckets, capacity, result>>
  <2> SUFFICES ASSUME MapInv, MapInv', [MapStep \/ BeginCall \/ CallStep]_<<vars, callVars>>
               PROVE  Implements \/ UNCHANGED <<buckets, capacity, result>>
    OBVIOUS
  <2>1. CASE MapStep
    BY <2>1, MapRefines DEF MapStep
  <2>2. CASE BeginCall \/ CallStep
    <3>1. CASE result' = result
      BY <2>2, <3>1, CallQuiet
    <3>2. CASE result' = Nothing
      <4>1. Abstract!MultiLookup
        BY <2>2, <3>2, CallQuiet, ContentsKept
           DEF Abstract!MultiLookup, Abstract!NoAnswer, Nothing
      <4> QED BY <4>1 DEF Implements, Abstract!Next
    <3> QED BY <2>2, <3>1, <3>2, CallQuiet
  <2>3. CASE UNCHANGED <<vars, callVars>>
    BY <2>3 DEF vars
  <2> QED BY <2>1, <2>2, <2>3
<1> QED BY <1>1, <1>2, MapInvariance, PTL 
   DEF LookupSpec, ImplementsLossyMap, Implements, LosingStep

-----------------------------------------------------------------------------
(***************************************************************************)
(* The ring of the scheduler.                                              *)
(***************************************************************************)

\* The slots from t to h, and their number, without the remainders.
Occ(h, t) == {s \in Slots : IF t <= h THEN t <= s /\ s < h ELSE t <= s \/ s < h}
Size(h, t) == IF t <= h THEN h - t ELSE h + QueueDepth - t

\* The slots from t to h hold the coroutines of S, each once.
RingHolds(h, t, buf, S) ==
    /\ h \in Slots /\ t \in Slots /\ buf \in [Slots -> Nat]
    /\ \A i \in Occ(h, t) : buf[i] \in S
    /\ \A c \in S : \E i \in Occ(h, t) : buf[i] = c
    /\ \A i, j \in Occ(h, t) : buf[i] = buf[j] => i = j
    /\ IsFiniteSet(S) /\ Size(h, t) = Cardinality(S)

\* Distances around the ring.
LEMMA RingDistance ==
    ASSUME NEW j \in Slots, NEW k \in Slots
    PROVE  (k - j) % QueueDepth = IF j <= k THEN k - j ELSE k - j + QueueDepth
<1>1. QueueDepth \in Nat \ {0}
  BY LookupAssumption
<1> QED BY <1>1 DEF Slots

\* The slots that are occupied.
LEMMA OccupiedSlots ==
    ASSUME head \in Slots, tail \in Slots
    PROVE  Occupied = Occ(head, tail)
<1>1. QueueDepth \in Nat \ {0}
  BY LookupAssumption
<1>2. ASSUME NEW i \in Slots PROVE i \in Occupied <=> i \in Occ(head, tail)
  <2>1. /\ (i - tail) % QueueDepth = IF tail <= i THEN i - tail ELSE i - tail + QueueDepth
        /\ (head - tail) % QueueDepth
              = IF tail <= head THEN head - tail ELSE head - tail + QueueDepth
    BY RingDistance
  <2>2. i \in 0..(QueueDepth - 1) /\ head \in 0..(QueueDepth - 1) /\ tail \in 0..(QueueDepth - 1)
    BY DEF Slots
  <2>3. i \in Occupied <=> (i - tail) % QueueDepth < (head - tail) % QueueDepth
    BY DEF Occupied
  <2>4. i \in Occ(head, tail)
          <=> IF tail <= head THEN tail <= i /\ i < head ELSE tail <= i \/ i < head
    BY DEF Occ
  <2> QED BY <1>1, <2>1, <2>2, <2>3, <2>4
<1> QED BY <1>2 DEF Occupied, Occ

\* One slot further.
LEMMA Wraps ==
    ASSUME NEW k \in Slots
    PROVE  Succ(k) = (IF k + 1 = QueueDepth THEN 0 ELSE k + 1) /\ Succ(k) \in Slots
<1>1. QueueDepth \in Nat \ {0}
  BY LookupAssumption
<1> QED BY <1>1 DEF Succ, Slots

\* A handle is stored in a free slot, as long as two are free.
LEMMA RingPush ==
    ASSUME NEW h, NEW t, NEW buf, NEW S, NEW c, NEW b, RingHolds(h, t, buf, S),
           c \in Nat, c \notin S, Cardinality(S) < QueueDepth - 1,
           b = [buf EXCEPT ![h] = c]
    PROVE  RingHolds(Succ(h), t, b, S \cup {c})
<1>1. QueueDepth \in Nat \ {0}
  BY LookupAssumption
<1>2. h \in Slots /\ t \in Slots /\ buf \in [Slots -> Nat] /\ Size(h, t) < QueueDepth - 1
  BY DEF RingHolds
<1>3. Succ(h) = (IF h + 1 = QueueDepth THEN 0 ELSE h + 1) /\ Succ(h) \in Slots
  BY <1>2, Wraps
<1>4. Size(Succ(h), t) = Size(h, t) + 1
  BY <1>1, <1>2, <1>3 DEF Size, Slots
<1>5. \A s \in Slots : s \in Occ(Succ(h), t) <=> s \in Occ(h, t) \/ s = h
  BY <1>1, <1>2, <1>3 DEF Occ, Size, Slots
<1>6. h \notin Occ(h, t)
  BY <1>1, <1>2 DEF Occ, Slots
<1>7. Occ(Succ(h), t) = Occ(h, t) \cup {h} /\ Occ(h, t) \subseteq Slots
  BY <1>2, <1>5 DEF Occ
<1>8. b \in [Slots -> Nat] /\ b[h] = c /\ \A i \in Occ(h, t) : b[i] = buf[i]
  BY <1>2, <1>6, <1>7
<1>9. \A i \in Occ(Succ(h), t) : b[i] \in S \cup {c}
  BY <1>7, <1>8 DEF RingHolds
<1>10. \A d \in S \cup {c} : \E i \in Occ(Succ(h), t) : b[i] = d
  BY <1>7, <1>8 DEF RingHolds
<1>11. \A i, j \in Occ(Succ(h), t) : b[i] = b[j] => i = j
  <2>1. \A i \in Occ(h, t) : b[i] # c
    BY <1>8 DEF RingHolds
  <2> QED BY <1>7, <1>8, <2>1 DEF RingHolds
<1>12. IsFiniteSet(S \cup {c}) /\ Cardinality(S \cup {c}) = Cardinality(S) + 1
  BY FS_AddElement DEF RingHolds
<1> QED BY <1>2, <1>3, <1>4, <1>8, <1>9, <1>10, <1>11, <1>12 DEF RingHolds

\* What is taken off at the tail is one of them.
LEMMA RingPop ==
    ASSUME NEW h, NEW t, NEW buf, NEW S, RingHolds(h, t, buf, S), S # {}
    PROVE  buf[t] \in S /\ RingHolds(h, Succ(t), buf, S \ {buf[t]})
<1>1. QueueDepth \in Nat \ {0}
  BY LookupAssumption
<1>2. /\ h \in Slots /\ t \in Slots /\ buf \in [Slots -> Nat] /\ IsFiniteSet(S)
      /\ Size(h, t) = Cardinality(S)
  BY DEF RingHolds
<1>3. Size(h, t) # 0
  BY <1>2, FS_EmptySet
<1>4. Succ(t) = (IF t + 1 = QueueDepth THEN 0 ELSE t + 1) /\ Succ(t) \in Slots
  BY <1>2, Wraps
<1>5. Size(h, Succ(t)) = Size(h, t) - 1
  BY <1>1, <1>2, <1>3, <1>4 DEF Size, Slots
<1>6. \A s \in Slots : s \in Occ(h, Succ(t)) <=> s \in Occ(h, t) /\ s # t
  BY <1>1, <1>2, <1>3, <1>4 DEF Occ, Size, Slots
<1>7. t \in Occ(h, t)
  BY <1>1, <1>2, <1>3 DEF Occ, Size, Slots
<1>8. \A s : s \in Occ(h, Succ(t)) <=> s \in Occ(h, t) /\ s # t
  BY <1>6 DEF Occ
<1>9. PICK x : x = buf[t]
  OBVIOUS
<1>10. x \in S
  BY <1>7, <1>9 DEF RingHolds
<1>11. \A i \in Occ(h, Succ(t)) : buf[i] \in S \ {x}
  BY <1>7, <1>8, <1>9 DEF RingHolds
<1>12. \A d \in S \ {x} : \E i \in Occ(h, Succ(t)) : buf[i] = d
  BY <1>8, <1>9 DEF RingHolds
<1>13. \A i, j \in Occ(h, Succ(t)) : buf[i] = buf[j] => i = j
  BY <1>8 DEF RingHolds
<1>14. IsFiniteSet(S \ {x}) /\ Cardinality(S \ {x}) = Cardinality(S) - 1
  BY <1>2, <1>10, FS_RemoveElement
<1>15. RingHolds(h, Succ(t), buf, S \ {x})
  BY <1>2, <1>4, <1>5, <1>11, <1>12, <1>13, <1>14 DEF RingHolds
<1> QED BY <1>9, <1>10, <1>15

\* head and tail meet when the ring holds nothing.
LEMMA RingIsEmpty ==
    ASSUME NEW h, NEW t, NEW buf, NEW S, RingHolds(h, t, buf, S)
    PROVE  h = t <=> S = {}
<1>1. QueueDepth \in Nat \ {0} /\ h \in Slots /\ t \in Slots
  BY LookupAssumption DEF RingHolds
<1>2. h = t <=> Size(h, t) = 0
  BY <1>1 DEF Size, Slots
<1> QED BY <1>2, FS_EmptySet DEF RingHolds

-----------------------------------------------------------------------------
(***************************************************************************)
(* The allocator's blocks.                                                 *)
(***************************************************************************)

\* The frames in U have their blocks, and every block, in use or free, and every
\* size it is known by, is of a size that was asked for before.
HeapHolds(bl, rt, sz, fs, U) ==
    /\ bl \in [DOMAIN bl -> FrameSizes \cup {0}] /\ rt \in Seq(Free) /\ sz \subseteq FrameSizes
    /\ U = {c \in DOMAIN bl : bl[c] # 0}
    /\ \A c \in U : bl[c] \in sz
    /\ \A i \in DOMAIN rt : rt[i].true \in sz /\ rt[i].size \in sz
    /\ U # {} => fs \in sz
    /\ IsFiniteSet(U) /\ IsFiniteSet(sz)
    /\ Cardinality(sz) = 1 => Len(rt) + Cardinality(U) <= Max(Streams) + 1

\* The most streams a call may have.
LEMMA MaxIsGreatest ==
    ASSUME NEW n \in Streams
    PROVE  Max(Streams) \in Streams /\ Max(Streams) \in Nat /\ n <= Max(Streams)
<1>1. /\ QueueDepth \in Nat \ {0} /\ Streams \subseteq Nat \ {0}
      /\ \A m \in Streams : m < QueueDepth
  BY LookupAssumption, StreamsAssumption
<1>2. PICK T : T = {q \in Nat : \A m \in Streams : m <= q}
  OBVIOUS
<1>3. T \subseteq Nat /\ QueueDepth \in T
  BY <1>1, <1>2
<1>4. PICK q \in T : \A p \in T : q <= p
  BY <1>3, Least
<1>5. q \in Nat /\ \A m \in Streams : m <= q
  BY <1>2, <1>4
<1>6. q \in Streams
  <2> SUFFICES ASSUME q \notin Streams PROVE FALSE
    OBVIOUS
  <2>1. \A m \in Streams : m < q
    BY <1>1, <1>5
  <2>2. q - 1 \in Nat /\ \A m \in Streams : m <= q - 1
    BY <1>1, <1>5, <2>1
  <2>3. q - 1 \in T
    BY <1>2, <2>2
  <2> QED BY <1>4, <1>5, <2>3
<1>7. \E x \in Streams : \A y \in Streams : x >= y
  BY <1>1, <1>5, <1>6
<1>8. Max(Streams) \in Streams /\ \A y \in Streams : Max(Streams) >= y
  BY <1>7 DEF Max
<1> QED BY <1>1, <1>8

\* A frame gets a block: the first free one, or a new one.  While all frames have
\* one size, a new one is taken only if none is free.
LEMMA Allocates ==
    ASSUME NEW U, HeapHolds(block, root, sizes, frame_size, U), NEW c,
           c \in DOMAIN block, c \notin U, frame_size \in FrameSizes, alloc(c),
           Cardinality(U) <= Max(Streams), Max(Streams) \in Nat
    PROVE  /\ HeapHolds(block', root', sizes', frame_size, U \cup {c})
           /\ DOMAIN block' = DOMAIN block
<1>1. /\ block \in [DOMAIN block -> FrameSizes \cup {0}] /\ root \in Seq(Free)
      /\ sizes \subseteq FrameSizes /\ IsFiniteSet(U) /\ IsFiniteSet(sizes)
      /\ FrameSizes \subseteq Nat \ {0}
  BY LookupAssumption DEF HeapHolds
<1>2. PICK D, V, sz, fs : /\ D = DOMAIN block /\ V = U \cup {c} /\ sz = sizes \cup {frame_size}
                          /\ fs = frame_size
  OBVIOUS
<1>3. /\ IsFiniteSet(V) /\ Cardinality(V) = Cardinality(U) + 1 /\ Cardinality(U) \in Nat
      /\ IsFiniteSet(sz)
  BY <1>1, <1>2, FS_AddElement, FS_CardinalityType
<1>4. sizes' = sz /\ sz \subseteq FrameSizes /\ fs \in sz /\ fs \in FrameSizes /\ sizes \subseteq sz
  BY <1>1, <1>2 DEF alloc
<1>5. ASSUME NEW x \in sz, block' = [block EXCEPT ![c] = x], NEW r \in Seq(Free), root' = r,
             \A i \in DOMAIN r : r[i].true \in sz /\ r[i].size \in sz,
             Cardinality(sz) = 1 => Len(r) + Cardinality(V) <= Max(Streams) + 1
      PROVE  HeapHolds(block', root', sizes', fs, V) /\ DOMAIN block' = D
  <2>1. DOMAIN block' = D /\ block' \in [D -> FrameSizes \cup {0}] /\ x # 0
    BY <1>1, <1>2, <1>4, <1>5
  <2>2. block'[c] = x /\ \A d \in D : d # c => block'[d] = block[d]
    BY <1>2, <1>5
  <2>3. U = {d \in D : block[d] # 0} /\ c \in D
    BY <1>2 DEF HeapHolds
  <2>4. V = {d \in D : block'[d] # 0}
    BY <1>2, <2>1, <2>2, <2>3
  <2>5. \A d \in U : block[d] \in sizes
    BY DEF HeapHolds
  <2>6. \A d \in V : block'[d] \in sz
    BY <1>2, <1>4, <1>5, <2>2, <2>3, <2>5
  <2> QED BY <1>3, <1>4, <1>5, <2>1, <2>4, <2>6 DEF HeapHolds
<1>6. \A i \in DOMAIN root : root[i].true \in sz /\ root[i].size \in sz
  BY <1>4 DEF HeapHolds
<1>7. CASE root # <<>> /\ Head(root).size <= frame_size
  <2>1. block' = [block EXCEPT ![c] = Head(root).true] /\ root' = Tail(root)
    BY <1>7 DEF alloc
  <2>2. /\ 1 \in DOMAIN root /\ Head(root) = root[1] /\ Tail(root) \in Seq(Free)
        /\ Len(Tail(root)) = Len(root) - 1 /\ Len(root) \in Nat
        /\ \A i \in DOMAIN Tail(root) : i + 1 \in DOMAIN root /\ Tail(root)[i] = root[i + 1]
    BY <1>1, <1>7
  <2>3. Head(root).true \in sz
    BY <1>6, <2>2
  <2>4. \A i \in DOMAIN Tail(root) : Tail(root)[i].true \in sz /\ Tail(root)[i].size \in sz
    BY <1>6, <2>2
  <2>5. ASSUME Cardinality(sz) = 1 PROVE Len(Tail(root)) + Cardinality(V) <= Max(Streams) + 1
    <3>1. PICK y : sz = {y}
      BY <1>3, <2>5, FS_Singleton
    <3>2. root[1].size \in sizes
      BY <2>2 DEF HeapHolds
    <3>3. sizes = sz
      BY <1>4, <3>1, <3>2
    <3>4. Len(root) + Cardinality(U) <= Max(Streams) + 1
      BY <2>5, <3>3 DEF HeapHolds
    <3> QED BY <1>3, <2>2, <3>4
  <2> QED BY <1>2, <1>5, <2>1, <2>2, <2>3, <2>4, <2>5
<1>8. CASE ~(root # <<>> /\ Head(root).size <= frame_size)
  <2>1. block' = [block EXCEPT ![c] = fs] /\ root' = root
    BY <1>2, <1>8 DEF alloc
  <2>2. ASSUME Cardinality(sz) = 1 PROVE Len(root) + Cardinality(V) <= Max(Streams) + 1
    <3>1. PICK y : sz = {y}
      BY <1>3, <2>2, FS_Singleton
    <3>2. root = <<>>
      <4> SUFFICES ASSUME root # <<>> PROVE FALSE
        OBVIOUS
      <4>1. 1 \in DOMAIN root /\ Head(root) = root[1]
        BY <1>1
      <4>2. Head(root).size = fs
        BY <1>4, <1>6, <3>1, <4>1
      <4> QED BY <1>1, <1>2, <1>4, <1>8, <4>2
    <3> QED BY <1>3, <3>2
  <2> QED BY <1>1, <1>2, <1>4, <1>5, <1>6, <2>1, <2>2
<1> QED BY <1>7, <1>8

\* A frame gives its block back.
LEMMA Frees ==
    ASSUME NEW U, HeapHolds(block, root, sizes, frame_size, U), NEW c \in U, free(c)
    PROVE  /\ HeapHolds(block', root', sizes', frame_size, U \ {c})
           /\ DOMAIN block' = DOMAIN block
<1>1. /\ block \in [DOMAIN block -> FrameSizes \cup {0}] /\ root \in Seq(Free)
      /\ sizes \subseteq FrameSizes /\ IsFiniteSet(U) /\ IsFiniteSet(sizes)
      /\ FrameSizes \subseteq Nat \ {0}
  BY LookupAssumption DEF HeapHolds
<1>2. PICK D, V, f : /\ D = DOMAIN block /\ V = U \ {c}
                     /\ f = [true |-> block[c], size |-> frame_size]
  OBVIOUS
<1>3. /\ IsFiniteSet(V) /\ Cardinality(V) = Cardinality(U) - 1 /\ Cardinality(U) \in Nat
      /\ Cardinality(V) \in Nat
  BY <1>1, <1>2, FS_RemoveElement, FS_CardinalityType
<1>4. /\ root' = <<f>> \o root /\ block' = [block EXCEPT ![c] = 0] /\ sizes' = sizes
  BY <1>2 DEF free
<1>5. U = {d \in D : block[d] # 0} /\ c \in D
  BY <1>2 DEF HeapHolds
<1>6. frame_size \in sizes /\ block[c] \in sizes
  BY DEF HeapHolds
<1>7. f.true \in sizes /\ f.size \in sizes /\ f \in Free
  BY <1>1, <1>2, <1>6 DEF Free
<1>8. DOMAIN block' = D /\ block' \in [D -> FrameSizes \cup {0}]
  BY <1>1, <1>2, <1>4
<1>9. block'[c] = 0 /\ \A d \in D : d # c => block'[d] = block[d]
  BY <1>2, <1>4, <1>5
<1>10. V = {d \in D : block'[d] # 0}
  BY <1>2, <1>5, <1>9
<1>11. \A d \in V : block'[d] \in sizes
  BY <1>2, <1>5, <1>9 DEF HeapHolds
<1>12. /\ root' \in Seq(Free) /\ Len(root') = Len(root) + 1 /\ Len(root) \in Nat
       /\ \A i \in DOMAIN root' : root'[i] = f \/ \E j \in DOMAIN root : root'[i] = root[j]
  <2>1. <<f>> \in Seq(Free) /\ Len(<<f>>) = 1 /\ <<f>>[1] = f
    BY <1>7
  <2>2. /\ root' \in Seq(Free) /\ Len(root') = Len(root) + 1 /\ Len(root) \in Nat
        /\ DOMAIN root' = 1..Len(root') /\ DOMAIN root = 1..Len(root)
    BY <1>1, <1>4, <2>1
  <2>3. \A i \in 1..Len(root') : root'[i] = IF i <= 1 THEN f ELSE root[i - 1]
    BY <1>1, <1>4, <2>1, <2>2
  <2> QED BY <2>2, <2>3
<1>13. \A i \in DOMAIN root' : root'[i].true \in sizes /\ root'[i].size \in sizes
  BY <1>7, <1>12 DEF HeapHolds
<1>14. Cardinality(sizes) = 1 => Len(root') + Cardinality(V) <= Max(Streams) + 1
  <2>1. PICK M : M = Max(Streams) + 1
    OBVIOUS
  <2>2. Cardinality(sizes) = 1 => Len(root) + Cardinality(U) <= M
    BY <2>1 DEF HeapHolds
  <2>3. Len(root') + Cardinality(V) = Len(root) + Cardinality(U)
    BY <1>3, <1>12
  <2> QED BY <2>1, <2>2, <2>3
<1> QED BY <1>1, <1>2, <1>3, <1>4, <1>6, <1>8, <1>10, <1>11, <1>12, <1>13, <1>14 DEF HeapHolds

-----------------------------------------------------------------------------
(***************************************************************************)
(* The multilookup: the throttler, the scheduler and the allocator agree   *)
(* on the coroutines there are.                                            *)
(***************************************************************************)

\* The coroutine that spawn() was given and has not added yet.
Waits == IF mode \in {"making_room", "made_room"} THEN {next} ELSE {}

\* What holds at each stage of a call.  A coroutine runs only inside spawn() at
\* the limit, or inside run().
Stages ==
    /\ Answered \subseteq 1..(next - 1)
    /\ running # NULL => running \in Live /\ mode \in {"making_room", "draining"}
    /\ mode = "making_room" => running # NULL /\ limit = 0
    /\ mode \in {"making_room", "made_room"} => next \in Lookups
    /\ mode = "idle" => next = 1 /\ results = <<>>
    /\ mode # "idle" => n_streams \in Streams /\ frame_size \in FrameSizes
    /\ mode = "done" => Live = {}

LookupInv ==
    /\ LookupTypeOK /\ Stages /\ LimitIsExact
    /\ RingHolds(head, tail, buffer, Live \ {running})
    /\ HeapHolds(block, root, sizes, frame_size, Live \cup Waits)

\* The coroutines alive are among the keys that were yielded.
LEMMA LiveFacts ==
    ASSUME LookupInv
    PROVE  /\ keys \in Seq(Keys) /\ Len(keys) \in Nat /\ Lookups = 1..Len(keys)
           /\ next \in 1..(Len(keys) + 1) /\ limit \in Nat /\ n_streams \in Nat
           /\ IsFiniteSet(Live) /\ Cardinality(Live) \in Nat
           /\ 0 \notin Live /\ next \notin Live /\ Live \subseteq Lookups
           /\ limit + Cardinality(Live) = n_streams
           /\ mode # "idle" => /\ n_streams < QueueDepth /\ QueueDepth \in Nat
                               /\ 0 < n_streams
                               /\ n_streams <= Max(Streams) /\ Max(Streams) \in Nat
<1>1. LookupTypeOK /\ Stages /\ LimitIsExact
  BY DEF LookupInv
<1>2. keys \in Seq(Keys) /\ Len(keys) \in Nat /\ Lookups = 1..Len(keys)
  <2>1. keys \in KeyLists \cup {<<>>} /\ KeyLists \subseteq Seq(Keys)
    BY <1>1, LookupAssumption DEF LookupTypeOK
  <2>2. keys \in Seq(Keys)
    <3>1. keys \in KeyLists \/ keys = <<>>
      BY <2>1, Zenon
    <3>2. CASE keys = <<>>
      BY <3>2
    <3>3. CASE keys \in KeyLists
      BY <2>1, <3>3, Zenon
    <3> QED BY <3>1, <3>2, <3>3
  <2> QED BY <2>2 DEF Lookups
<1>3. next \in 1..(Len(keys) + 1) /\ limit \in 0..n_streams /\ n_streams \in Streams \cup {0}
  BY <1>1 DEF LookupTypeOK
<1>4. QueueDepth \in Nat /\ Streams \subseteq Nat \ {0} /\ \A n \in Streams : n < QueueDepth
  BY LookupAssumption, StreamsAssumption
<1>5. limit \in Nat /\ n_streams \in Nat
  BY <1>3, <1>4
<1>6. Live \subseteq 1..(next - 1) /\ next - 1 \in Int
  BY <1>2, <1>3 DEF Live
<1>7. IsFiniteSet(Live) /\ Cardinality(Live) \in Nat
  <2>1. IsFiniteSet(1..(next - 1))
    BY <1>6, FS_Interval
  <2>2. IsFiniteSet(Live)
    BY <1>6, <2>1, FS_Subset
  <2> QED BY <2>2, FS_CardinalityType
<1>8. 0 \notin Live /\ next \notin Live /\ Live \subseteq Lookups
  BY <1>2, <1>3, <1>6
<1>9. limit + Cardinality(Live) = n_streams
  BY <1>1 DEF LimitIsExact
<1>10. mode # "idle" => n_streams \in Streams
  BY <1>1 DEF Stages
<1>11. mode # "idle" => n_streams <= Max(Streams) /\ Max(Streams) \in Nat
  BY <1>10, MaxIsGreatest
<1>12. mode # "idle" => n_streams < QueueDepth /\ 0 < n_streams
  <2>1. \A n \in Streams : n < QueueDepth /\ 0 < n
    BY <1>4
  <2> QED BY <1>10, <2>1, Zenon
<1> QED BY <1>2, <1>3, <1>4, <1>5, <1>7, <1>8, <1>9, <1>11, <1>12

\* A step that neither spawns a coroutine nor ends one.
LEMMA LiveKept ==
    ASSUME results' = results, next' = next
    PROVE  Live' = Live /\ Answered' = Answered
BY DEF Live, Answered

\* A key is yielded and its coroutine added.
LEMMA LiveAdded ==
    ASSUME LookupInv, results' = results, next' = next + 1
    PROVE  Live' = Live \cup {next} /\ Answered' \subseteq 1..(next' - 1)
<1>1. next \in Nat \ {0}
  BY LiveFacts
<1>2. Answered' = Answered /\ Answered \subseteq 1..(next - 1)
  BY DEF Answered, LookupInv, Stages
<1>3. Live = (1..(next - 1)) \ Answered /\ Live' = (1..next) \ Answered
  BY <1>1, <1>2 DEF Live
<1> QED BY <1>1, <1>2, <1>3

\* A coroutine ends.
LEMMA LiveEnded ==
    ASSUME LookupInv, NEW c \in Live, NEW x \in Result,
           results' = Append(results, <<c, x>>), next' = next
    PROVE  Live' = Live \ {c} /\ Answered' \subseteq 1..(next' - 1)
<1>1. results \in Seq(Lookups \X Result)
  BY DEF LookupInv, LookupTypeOK
<1>2. PICK y, T : y = <<c, x>> /\ T = Lookups \X Result
  OBVIOUS
<1>3. y[1] = c /\ results' = Append(results, y) /\ y \in T /\ results \in Seq(T)
  BY <1>1, <1>2, LiveFacts
<1>4. /\ DOMAIN results' = DOMAIN results \cup {Len(results) + 1}
      /\ \A i \in DOMAIN results : results'[i] = results[i]
      /\ results'[Len(results) + 1] = y
  BY ONLY <1>3
<1>5. Answered' = Answered \cup {c}
  BY <1>3, <1>4 DEF Answered
<1>6. Answered \subseteq 1..(next - 1) /\ c \in 1..(next - 1)
  BY DEF LookupInv, Stages, Live
<1> QED BY <1>5, <1>6 DEF Live

\* A step that leaves the multilookup alone.
LEMMA LookupKept == ASSUME LookupInv, UNCHANGED callVars PROVE LookupInv'
<1>1. /\ calls' = calls /\ keys' = keys /\ n_streams' = n_streams /\ frame_size' = frame_size
      /\ mode' = mode /\ limit' = limit /\ next' = next /\ thrown' = thrown /\ entry' = entry
      /\ running' = running /\ results' = results /\ head' = head /\ tail' = tail
      /\ buffer' = buffer /\ root' = root /\ block' = block /\ sizes' = sizes
  BY DEF callVars, args, ring, heap
<1>2. Live' = Live /\ Answered' = Answered /\ Lookups' = Lookups
  BY <1>1, LiveKept DEF Lookups
<1>3. Waits' = Waits
  BY <1>1 DEF Waits
<1>4. LookupTypeOK'
  BY <1>1, <1>2 DEF LookupInv, LookupTypeOK
<1>5. Stages'
  BY <1>1, <1>2 DEF LookupInv, Stages
<1>6. LimitIsExact'
  BY <1>1, <1>2 DEF LookupInv, LimitIsExact
<1> QED BY <1>1, <1>2, <1>3, <1>4, <1>5, <1>6 DEF LookupInv

\* Before the first call.
LEMMA LookupStart == ASSUME LookupInit PROVE LookupInv
<1>1. /\ calls = 0 /\ mode = "idle" /\ keys = <<>> /\ n_streams = 0 /\ frame_size = 0
      /\ limit = 0 /\ next = 1 /\ thrown = FALSE /\ entry = <<>> /\ running = NULL
      /\ results = <<>> /\ head = 0 /\ tail = 0 /\ buffer = [i \in Slots |-> NULL]
      /\ root = <<>> /\ block = <<>> /\ sizes = {}
  BY DEF LookupInit
<1>2. QueueDepth \in Nat \ {0} /\ MaxCalls \in Nat
  BY LookupAssumption
<1>3. Live = {} /\ Answered = {} /\ Lookups = {} /\ Waits = {}
  BY <1>1 DEF Live, Answered, Lookups, Waits
<1>4. LookupTypeOK
  <2>1. head \in Slots /\ tail \in Slots /\ buffer \in [Slots -> Nat]
    BY <1>1, <1>2 DEF Slots, NULL
  <2>2. entry \in [Lookups -> Nat] /\ block \in [Lookups -> FrameSizes \cup {0}]
    BY <1>1, <1>3
  <2>3. results \in Seq(Lookups \X Result) /\ root \in Seq(Free)
    BY <1>1
  <2>4. Len(keys) = 0
    BY <1>1
  <2>5. limit \in 0..n_streams /\ next \in 1..(Len(keys) + 1) /\ calls \in 0..MaxCalls
    BY <1>1, <1>2, <2>4
  <2>6. keys \in KeyLists \cup {<<>>} /\ n_streams \in Streams \cup {0}
        /\ frame_size \in FrameSizes \cup {0} /\ thrown \in BOOLEAN /\ sizes \subseteq FrameSizes
        /\ running \in Lookups \cup {NULL}
        /\ mode \in {"idle", "spawning", "making_room", "made_room", "draining", "done"}
    BY <1>1
  <2> QED BY <2>1, <2>2, <2>3, <2>5, <2>6 DEF LookupTypeOK
<1>5. Stages
  BY <1>1, <1>3 DEF Stages
<1>6. LimitIsExact
  BY <1>1, <1>3, FS_EmptySet DEF LimitIsExact
<1>7. RingHolds(head, tail, buffer, Live \ {running})
  <2>1. Live \ {running} = {} /\ Occ(head, tail) = {} /\ Size(head, tail) = 0
    BY <1>1, <1>2, <1>3 DEF Occ, Size, Slots
  <2>2. head \in Slots /\ tail \in Slots /\ buffer \in [Slots -> Nat]
    BY <1>4 DEF LookupTypeOK
  <2> QED BY <2>1, <2>2, FS_EmptySet DEF RingHolds
<1>8. HeapHolds(block, root, sizes, frame_size, Live \cup Waits)
  <2>1. DOMAIN block = {} /\ DOMAIN root = {} /\ root \in Seq(Free) /\ Live \cup Waits = {}
    BY <1>1, <1>3
  <2>2. block \in [DOMAIN block -> FrameSizes \cup {0}] /\ {} = {c \in DOMAIN block : block[c] # 0}
    BY <1>1, <2>1
  <2>3. IsFiniteSet(sizes) /\ Cardinality(sizes) = 0 /\ IsFiniteSet({})
    BY <1>1, FS_EmptySet
  <2>4. sizes \subseteq FrameSizes /\ Cardinality(sizes) # 1
    BY <1>1, <2>3
  <2> QED BY <2>1, <2>2, <2>3, <2>4 DEF HeapHolds
<1> QED BY <1>4, <1>5, <1>6, <1>7, <1>8 DEF LookupInv

\* The end of spawn(), with the frame of the new coroutine already there.
LEMMA AddTaskStep ==
    ASSUME LookupInv, AddTask, next \in Lookups, limit # 0, running = NULL, mode # "idle",
           HeapHolds(block', root', sizes', frame_size, Live \cup {next}),
           DOMAIN block' = Lookups
    PROVE  LookupInv'
<1>1. /\ calls' = calls /\ keys' = keys /\ n_streams' = n_streams /\ frame_size' = frame_size
      /\ entry' = entry /\ tail' = tail /\ running' = running /\ results' = results
      /\ limit' = limit - 1 /\ next' = next + 1
      /\ buffer' = [buffer EXCEPT ![head] = next] /\ head' = Succ(head)
  BY DEF AddTask, Advance, schedule, args
<1>2. /\ mode' \in {"spawning", "draining"}
      /\ thrown' = thrown \/ thrown' = TRUE
  BY DEF AddTask, Advance
<1>3. Live' = Live \cup {next} /\ Answered' \subseteq 1..(next' - 1) /\ Lookups' = Lookups
  BY <1>1, LiveAdded DEF Lookups
<1>4. Waits' = {}
  BY <1>2 DEF Waits
<1>5. LookupTypeOK /\ Stages
  BY DEF LookupInv
<1>6. /\ Len(keys) \in Nat /\ next \in 1..Len(keys) /\ limit \in Nat /\ n_streams \in Nat
      /\ IsFiniteSet(Live) /\ Cardinality(Live) \in Nat /\ 0 \notin Live /\ next \notin Live
      /\ limit + Cardinality(Live) = n_streams /\ n_streams < QueueDepth /\ QueueDepth \in Nat
      /\ n_streams \in Streams /\ frame_size \in FrameSizes
  BY <1>5, LiveFacts DEF Stages
<1>7. RingHolds(head', tail', buffer', Live' \ {running'})
  <2>1. Live \ {running} = Live /\ Live' \ {running'} = Live \cup {next}
    BY <1>1, <1>3, <1>6 DEF NULL
  <2>2. RingHolds(head, tail, buffer, Live)
    BY <2>1 DEF LookupInv
  <2>3. Cardinality(Live) < QueueDepth - 1 /\ next \in Nat
    BY <1>6
  <2>4. RingHolds(Succ(head), tail, buffer', Live \cup {next})
    BY <1>1, <1>6, <2>2, <2>3, RingPush
  <2> QED BY <1>1, <2>1, <2>4
<1>8. LimitIsExact'
  <2>1. Cardinality(Live') = Cardinality(Live) + 1
    BY <1>3, <1>6, FS_AddElement
  <2> QED BY <1>1, <1>2, <1>6, <2>1 DEF LimitIsExact
<1>9. Stages'
  BY <1>1, <1>2, <1>3, <1>6 DEF Stages
<1>10. HeapHolds(block', root', sizes', frame_size', Live' \cup Waits')
  <2>1. Live' \cup Waits' = Live \cup {next}
    BY <1>3, <1>4
  <2> QED BY <1>1, <2>1
<1>11. LookupTypeOK'
  <2>1. head' \in Slots /\ tail' \in Slots /\ buffer' \in [Slots -> Nat]
    BY <1>7 DEF RingHolds
  <2>2. /\ block' \in [Lookups' -> FrameSizes \cup {0}] /\ root' \in Seq(Free)
        /\ sizes' \subseteq FrameSizes
    BY <1>3 DEF HeapHolds
  <2>3. limit' \in 0..n_streams' /\ next' \in 1..(Len(keys') + 1)
    BY <1>1, <1>6
  <2>4. thrown' \in BOOLEAN
    BY <1>2, <1>5 DEF LookupTypeOK
  <2>5. /\ mode' \in {"idle", "spawning", "making_room", "made_room", "draining", "done"}
        /\ running' \in Lookups' \cup {NULL}
    BY <1>1, <1>2, <1>3
  <2>6. /\ calls' \in 0..MaxCalls /\ keys' \in KeyLists \cup {<<>>}
        /\ n_streams' \in Streams \cup {0} /\ frame_size' \in FrameSizes \cup {0}
        /\ entry' \in [Lookups' -> Nat] /\ results' \in Seq(Lookups' \X Result)
    BY <1>1, <1>3, <1>5 DEF LookupTypeOK
  <2> QED BY <2>1, <2>2, <2>3, <2>4, <2>5, <2>6 DEF LookupTypeOK
<1> QED BY <1>7, <1>8, <1>9, <1>10, <1>11 DEF LookupInv

\* A step that takes blocks or gives them back, moves the ring and lets another
\* coroutine run, and neither spawns one nor ends one.
LEMMA RunStep ==
    ASSUME LookupInv, LimitIsExact', Stages',
           calls' = calls, keys' = keys, n_streams' = n_streams, frame_size' = frame_size,
           limit' = limit, next' = next, thrown' = thrown, results' = results,
           entry' \in [Lookups -> Nat],
           mode' \in {"idle", "spawning", "making_room", "made_room", "draining", "done"},
           RingHolds(head', tail', buffer', Live \ {running'}),
           running' \in Live \cup {NULL},
           HeapHolds(block', root', sizes', frame_size, Live \cup Waits'),
           DOMAIN block' = Lookups
    PROVE  LookupInv'
<1>1. Live' = Live /\ Lookups' = Lookups
  BY LiveKept DEF Lookups
<1>2. RingHolds(head', tail', buffer', Live' \ {running'})
  BY <1>1
<1>3. HeapHolds(block', root', sizes', frame_size', Live' \cup Waits')
  BY <1>1
<1>4. LookupTypeOK'
  <2>1. head' \in Slots /\ tail' \in Slots /\ buffer' \in [Slots -> Nat]
    BY <1>2 DEF RingHolds
  <2>2. /\ block' \in [Lookups' -> FrameSizes \cup {0}] /\ root' \in Seq(Free)
        /\ sizes' \subseteq FrameSizes
    BY <1>1 DEF HeapHolds
  <2>3. running' \in Lookups' \cup {NULL} /\ entry' \in [Lookups' -> Nat]
    BY <1>1, LiveFacts
  <2>4. /\ calls' \in 0..MaxCalls /\ keys' \in KeyLists \cup {<<>>}
        /\ n_streams' \in Streams \cup {0} /\ frame_size' \in FrameSizes \cup {0}
        /\ limit' \in 0..n_streams' /\ next' \in 1..(Len(keys') + 1) /\ thrown' \in BOOLEAN
        /\ results' \in Seq(Lookups' \X Result)
    BY <1>1 DEF LookupInv, LookupTypeOK
  <2> QED BY <2>1, <2>2, <2>3, <2>4 DEF LookupTypeOK
<1> QED BY <1>2, <1>3, <1>4 DEF LookupInv

\* Where every frame has its block.
LEMMA FrameFacts ==
    ASSUME LookupInv
    PROVE  /\ DOMAIN block = Lookups /\ entry \in [Lookups -> Nat] /\ buffer \in [Slots -> Nat]
           /\ mode \notin {"making_room", "made_room"} => Waits = {}
           /\ HeapHolds(block, root, sizes, frame_size, Live \cup Waits)
           /\ RingHolds(head, tail, buffer, Live \ {running})
           /\ mode \in {"idle", "spawning", "making_room", "made_room", "draining", "done"}
BY DEF LookupInv, LookupTypeOK, Waits

\* A coroutine is made for the next key: it gets a frame.
LEMMA FrameMade ==
    ASSUME LookupInv, mode = "spawning", next \in Lookups, alloc(next)
    PROVE  /\ HeapHolds(block', root', sizes', frame_size, Live \cup {next})
           /\ DOMAIN block' = Lookups
<1>1. Live \cup Waits = Live
  BY FrameFacts
<1>2. HeapHolds(block, root, sizes, frame_size, Live) /\ DOMAIN block = Lookups
  BY <1>1, FrameFacts
<1>3. frame_size \in FrameSizes
  BY DEF LookupInv, Stages
<1>4. next \notin Live /\ Cardinality(Live) <= Max(Streams) /\ Max(Streams) \in Nat
  BY LiveFacts
<1> QED BY <1>2, <1>3, <1>4, Allocates

\* Below the limit.
LEMMA SpawnStep == ASSUME LookupInv, Spawn PROVE LookupInv'
<1>1. mode = "spawning" /\ next \in Lookups /\ limit # 0 /\ alloc(next) /\ AddTask
  BY DEF Spawn, AtEnd
<1>2. running = NULL
  BY <1>1 DEF LookupInv, Stages
<1> QED BY <1>1, <1>2, FrameMade, AddTaskStep

\* Room was made.
LEMMA SpawnInRoomStep == ASSUME LookupInv, SpawnInRoom PROVE LookupInv'
<1>1. mode = "made_room" /\ AddTask /\ root' = root /\ block' = block /\ sizes' = sizes
  BY DEF SpawnInRoom, heap
<1>2. running = NULL /\ limit = 1 /\ next \in Lookups /\ Waits = {next}
  BY <1>1 DEF LookupInv, Stages, LimitIsExact, Waits
<1>3. HeapHolds(block, root, sizes, frame_size, Live \cup {next}) /\ DOMAIN block = Lookups
  BY <1>2, FrameFacts
<1>4. HeapHolds(block', root', sizes', frame_size, Live \cup {next}) /\ DOMAIN block' = Lookups
  BY <1>1, <1>3
<1> QED BY <1>1, <1>2, <1>4, AddTaskStep

\* At the limit n_streams coroutines are alive, all of them in the ring: one of
\* them is resumed.
LEMMA MakeRoomStep == ASSUME LookupInv, MakeRoom PROVE LookupInv'
<1>1. /\ mode = "spawning" /\ next \in Lookups /\ limit = 0 /\ alloc(next)
      /\ running' = buffer[tail] /\ tail' = Succ(tail) /\ mode' = "making_room"
      /\ calls' = calls /\ keys' = keys /\ n_streams' = n_streams /\ frame_size' = frame_size
      /\ limit' = limit /\ next' = next /\ thrown' = thrown /\ entry' = entry
      /\ results' = results /\ head' = head /\ buffer' = buffer
  BY DEF MakeRoom, AtEnd, ResumeNext, args
<1>2. running = NULL /\ n_streams \in Streams /\ frame_size \in FrameSizes
  BY <1>1 DEF LookupInv, Stages
<1>3. Live # {} /\ Live \ {running} = Live /\ 0 \notin Live
  BY <1>1, <1>2, LiveFacts, FS_EmptySet DEF NULL
<1>4. RingHolds(head, tail, buffer, Live)
  BY <1>3, FrameFacts
<1>5. running' \in Live /\ RingHolds(head', tail', buffer', Live \ {running'})
  BY <1>1, <1>3, <1>4, RingPop
<1>6. Waits' = {next}
  BY <1>1 DEF Waits
<1>7. HeapHolds(block', root', sizes', frame_size, Live \cup Waits') /\ DOMAIN block' = Lookups
  BY <1>1, <1>6, FrameMade
<1>8. Live' = Live /\ Answered' = Answered /\ Lookups' = Lookups
  BY <1>1, LiveKept DEF Lookups
<1>9. LimitIsExact'
  BY <1>1, <1>8 DEF LookupInv, LimitIsExact
<1>10. Stages'
  <2>1. Answered \subseteq 1..(next - 1)
    BY DEF LookupInv, Stages
  <2> QED BY <1>1, <1>2, <1>3, <1>5, <1>8, <2>1 DEF Stages, NULL
<1> QED BY <1>1, <1>5, <1>7, <1>9, <1>10, FrameFacts, RunStep

\* run() resumes one of the coroutines in the ring.
LEMMA RunNextStep == ASSUME LookupInv, RunNext PROVE LookupInv'
<1>1. /\ mode = "draining" /\ running = NULL /\ head # tail
      /\ running' = buffer[tail] /\ tail' = Succ(tail) /\ mode' = mode
      /\ calls' = calls /\ keys' = keys /\ n_streams' = n_streams /\ frame_size' = frame_size
      /\ limit' = limit /\ next' = next /\ thrown' = thrown /\ entry' = entry
      /\ results' = results /\ head' = head /\ buffer' = buffer
      /\ root' = root /\ block' = block /\ sizes' = sizes
  BY DEF RunNext, ResumeNext, args, heap
<1>2. Live \ {running} = Live /\ 0 \notin Live
  BY <1>1, LiveFacts DEF NULL
<1>3. RingHolds(head, tail, buffer, Live)
  BY <1>2, FrameFacts
<1>4. Live # {}
  BY <1>1, <1>3, RingIsEmpty
<1>5. running' \in Live /\ RingHolds(head', tail', buffer', Live \ {running'})
  BY <1>1, <1>3, <1>4, RingPop
<1>6. Waits' = Waits
  BY <1>1 DEF Waits
<1>7. HeapHolds(block', root', sizes', frame_size, Live \cup Waits') /\ DOMAIN block' = Lookups
  BY <1>1, <1>6, FrameFacts
<1>8. Live' = Live /\ Answered' = Answered /\ Lookups' = Lookups
  BY <1>1, LiveKept DEF Lookups
<1>9. LimitIsExact'
  BY <1>1, <1>8 DEF LookupInv, LimitIsExact
<1>10. Stages'
  BY <1>1, <1>5, <1>8 DEF LookupInv, Stages
<1> QED BY <1>1, <1>5, <1>7, <1>9, <1>10, FrameFacts, RunStep

\* A coroutine queues itself behind the others and transfers to the one at the
\* tail, which may be itself.
LEMMA SuspendStep == ASSUME LookupInv, Suspend PROVE LookupInv'
<1>1. /\ running # NULL
      /\ entry' = [entry EXCEPT ![running] = @ + 1]
      /\ buffer' = [buffer EXCEPT ![head] = running] /\ head' = Succ(head)
      /\ running' = buffer'[tail] /\ tail' = Succ(tail) /\ mode' = mode
      /\ calls' = calls /\ keys' = keys /\ n_streams' = n_streams /\ frame_size' = frame_size
      /\ limit' = limit /\ next' = next /\ thrown' = thrown /\ results' = results
      /\ root' = root /\ block' = block /\ sizes' = sizes
  BY DEF Suspend, schedule, args, heap
<1>2. running \in Live /\ mode \in {"making_room", "draining"}
  BY <1>1 DEF LookupInv, Stages
<1>3. /\ IsFiniteSet(Live) /\ Cardinality(Live) \in Nat /\ 0 \notin Live /\ Live \subseteq Lookups
      /\ limit + Cardinality(Live) = n_streams /\ limit \in Nat /\ n_streams < QueueDepth
      /\ QueueDepth \in Nat /\ n_streams \in Nat /\ Lookups \subseteq Nat
  BY <1>2, LiveFacts
<1>4. PICK S : S = Live \ {running}
  OBVIOUS
<1>5. RingHolds(head, tail, buffer, S)
  BY <1>4, FrameFacts
<1>6. Cardinality(S) = Cardinality(Live) - 1
  BY <1>2, <1>3, <1>4, FS_RemoveElement
<1>7. Cardinality(S) < QueueDepth - 1 /\ running \in Nat /\ running \notin S /\ S \cup {running} = Live
  BY <1>2, <1>3, <1>4, <1>6
<1>8. RingHolds(Succ(head), tail, buffer', S \cup {running})
  BY <1>1, <1>5, <1>7, RingPush
<1>9. RingHolds(head', tail, buffer', Live)
  BY <1>1, <1>7, <1>8
<1>10. running' \in Live /\ RingHolds(head', tail', buffer', Live \ {running'})
  BY <1>1, <1>2, <1>9, RingPop
<1>11. entry' \in [Lookups -> Nat]
  BY <1>1, <1>2, <1>3, FrameFacts
<1>12. Waits' = Waits
  BY <1>1 DEF Waits
<1>13. HeapHolds(block', root', sizes', frame_size, Live \cup Waits') /\ DOMAIN block' = Lookups
  BY <1>1, <1>12, FrameFacts
<1>14. Live' = Live /\ Answered' = Answered /\ Lookups' = Lookups
  BY <1>1, LiveKept DEF Lookups
<1>15. LimitIsExact'
  BY <1>1, <1>14 DEF LookupInv, LimitIsExact
<1>16. Stages'
  <2>1. running' # NULL
    BY <1>3, <1>10 DEF NULL
  <2> QED BY <1>1, <1>2, <1>10, <1>14, <2>1 DEF LookupInv, Stages
<1> QED BY <1>1, <1>10, <1>11, <1>13, <1>15, <1>16, FrameFacts, RunStep

\* What a lookup that ends stores.
LEMMA AnswerType ==
    ASSUME MapInv, LookupInv, NEW c \in Lookups, ~AtNull(c), Hit(c), NEW x,
           x = [ok |-> TRUE, entry |-> chain(c)[entry[c]]]
    PROVE  x \in Result
<1>1. keys[c] \in Keys
  BY LiveFacts
<1>2. IsTable(buckets, capacity)
  BY DEF MapInv
<1>3. chain(c) \in Seq(Entry)
  BY <1>1, <1>2, FoundFacts DEF chain
<1>4. entry[c] \in Nat /\ entry[c] > 0 /\ ~(entry[c] > Len(chain(c)))
  BY FrameFacts DEF AtNull, Hit
<1>5. chain(c)[entry[c]] \in Entry
  BY <1>3, <1>4
<1> QED BY <1>5, Answered1

\* A coroutine ends: its frame is freed, and spawn() or run() goes on.
LEMMA CompleteStep == ASSUME MapInv, LookupInv, Complete PROVE LookupInv'
<1>1. PICK x : x = IF Hit(running)
                   THEN [ok |-> TRUE, entry |-> chain(running)[entry[running]]] ELSE Nothing
  OBVIOUS
<1>2. /\ running # NULL /\ ~AtNull(running) /\ results' = Append(results, <<running, x>>)
      /\ limit' = limit + 1 /\ free(running) /\ running' = NULL
      /\ mode' = (IF mode = "making_room" THEN "made_room" ELSE mode)
      /\ calls' = calls /\ keys' = keys /\ n_streams' = n_streams /\ frame_size' = frame_size
      /\ next' = next /\ thrown' = thrown /\ entry' = entry
      /\ head' = head /\ tail' = tail /\ buffer' = buffer
  BY <1>1 DEF Complete, args, ring
<1>3. running \in Live /\ mode \in {"making_room", "draining"}
  BY <1>2 DEF LookupInv, Stages
<1>4. /\ IsFiniteSet(Live) /\ Cardinality(Live) \in Nat /\ 0 \notin Live /\ Live \subseteq Lookups
      /\ limit + Cardinality(Live) = n_streams /\ limit \in Nat /\ n_streams \in Nat
      /\ next \notin Live /\ n_streams \in Streams /\ frame_size \in FrameSizes
  BY <1>3, LiveFacts DEF LookupInv, Stages
<1>5. x \in Result
  <2>1. CASE Hit(running)
    BY <1>1, <1>2, <1>3, <1>4, <2>1, AnswerType
  <2>2. CASE ~Hit(running)
    BY <1>1, <2>2, NothingType
  <2> QED BY <2>1, <2>2
<1>6. Live' = Live \ {running} /\ Answered' \subseteq 1..(next' - 1) /\ Lookups' = Lookups
  BY <1>2, <1>3, <1>5, LiveEnded DEF Lookups
<1>7. Waits' = Waits
  BY <1>2, <1>3 DEF Waits
<1>8. RingHolds(head', tail', buffer', Live' \ {running'})
  <2>1. Live' \ {running'} = Live \ {running}
    BY <1>2, <1>4, <1>6 DEF NULL
  <2> QED BY <1>2, <2>1, FrameFacts
<1>9. HeapHolds(block', root', sizes', frame_size', Live' \cup Waits') /\ DOMAIN block' = Lookups
  <2>1. PICK U : U = Live \cup Waits
    OBVIOUS
  <2>2. HeapHolds(block, root, sizes, frame_size, U) /\ running \in U
    BY <1>3, <2>1, FrameFacts
  <2>3. /\ HeapHolds(block', root', sizes', frame_size, U \ {running})
        /\ DOMAIN block' = DOMAIN block
    BY <1>2, <2>2, Frees
  <2>4. running \notin Waits
    BY <1>3, <1>4 DEF Waits
  <2>5. U \ {running} = Live' \cup Waits'
    BY <1>6, <1>7, <2>1, <2>4
  <2> QED BY <1>2, <2>3, <2>5, FrameFacts
<1>10. Cardinality(Live') = Cardinality(Live) - 1 /\ Cardinality(Live') \in Nat
  BY <1>3, <1>4, <1>6, FS_RemoveElement, FS_CardinalityType
<1>11. mode = "making_room" => limit = 0 /\ next \in Lookups
  BY DEF LookupInv, Stages
<1>12. LimitIsExact'
  BY <1>2, <1>3, <1>4, <1>10, <1>11 DEF LimitIsExact
<1>13. Stages'
  BY <1>2, <1>3, <1>4, <1>6, <1>11 DEF Stages
<1>14. LookupTypeOK'
  <2>1. head' \in Slots /\ tail' \in Slots /\ buffer' \in [Slots -> Nat]
    BY <1>8 DEF RingHolds
  <2>2. /\ block' \in [Lookups' -> FrameSizes \cup {0}] /\ root' \in Seq(Free)
        /\ sizes' \subseteq FrameSizes
    BY <1>6, <1>9 DEF HeapHolds
  <2>3. results' \in Seq(Lookups' \X Result)
    <3>1. results \in Seq(Lookups \X Result)
      BY DEF LookupInv, LookupTypeOK
    <3>2. <<running, x>> \in Lookups \X Result
      BY <1>3, <1>4, <1>5
    <3> QED BY <1>2, <1>6, <3>1, <3>2
  <2>4. limit' \in 0..n_streams'
    BY <1>2, <1>4, <1>10
  <2>5. /\ running' \in Lookups' \cup {NULL}
        /\ mode' \in {"idle", "spawning", "making_room", "made_room", "draining", "done"}
    BY <1>2, <1>3
  <2>6. /\ calls' \in 0..MaxCalls /\ keys' \in KeyLists \cup {<<>>}
        /\ n_streams' \in Streams \cup {0} /\ frame_size' \in FrameSizes \cup {0}
        /\ next' \in 1..(Len(keys') + 1) /\ thrown' \in BOOLEAN /\ entry' \in [Lookups' -> Nat]
    BY <1>2, <1>6 DEF LookupInv, LookupTypeOK
  <2> QED BY <2>1, <2>2, <2>3, <2>4, <2>5, <2>6 DEF LookupTypeOK
<1> QED BY <1>8, <1>9, <1>12, <1>13, <1>14 DEF LookupInv

\* run() begins; it ends when head and tail meet, and then no coroutine is alive.
LEMMA RunEndsStep == ASSUME LookupInv, BeginRun \/ EndRun PROVE LookupInv'
<1>1. /\ calls' = calls /\ keys' = keys /\ n_streams' = n_streams /\ frame_size' = frame_size
      /\ limit' = limit /\ next' = next /\ thrown' = thrown /\ entry' = entry
      /\ results' = results /\ running' = running
      /\ head' = head /\ tail' = tail /\ buffer' = buffer
      /\ root' = root /\ block' = block /\ sizes' = sizes
  BY DEF BeginRun, EndRun, args, ring, heap
<1>2. \/ mode = "spawning" /\ mode' = "draining"
      \/ mode = "draining" /\ mode' = "done" /\ running = NULL /\ head = tail
  BY DEF BeginRun, EndRun
<1>3. running \in Live \cup {NULL} /\ (mode = "spawning" => running = NULL)
  BY DEF LookupInv, Stages
<1>4. mode' = "done" => Live = {}
  <2> SUFFICES ASSUME mode' = "done" PROVE Live = {}
    OBVIOUS
  <2>1. Live \ {running} = Live
    BY <1>2, LiveFacts DEF NULL
  <2> QED BY <1>2, <2>1, FrameFacts, RingIsEmpty
<1>5. Waits' = Waits
  BY <1>2 DEF Waits
<1>6. Live' = Live /\ Answered' = Answered /\ Lookups' = Lookups
  BY <1>1, LiveKept DEF Lookups
<1>7. LimitIsExact'
  BY <1>1, <1>2, <1>6 DEF LookupInv, LimitIsExact
<1>8. Stages'
  BY <1>1, <1>2, <1>3, <1>4, <1>6 DEF LookupInv, Stages
<1>9. /\ HeapHolds(block', root', sizes', frame_size, Live \cup Waits') /\ DOMAIN block' = Lookups
      /\ RingHolds(head', tail', buffer', Live \ {running'})
  BY <1>1, <1>5, FrameFacts
<1>10. running' \in Live \cup {NULL} /\ entry' \in [Lookups -> Nat]
  BY <1>1, <1>3, FrameFacts
<1> QED BY <1>1, <1>2, <1>7, <1>8, <1>9, <1>10, RunStep

\* Between calls only free blocks are left, whatever the size of the next frames.
LEMMA NoFrames ==
    ASSUME NEW bl, NEW rt, NEW sz, NEW fs, HeapHolds(bl, rt, sz, fs, {}),
           NEW b, NEW g, NEW D, DOMAIN b = D, \A c \in D : b[c] = 0, b \in [D -> {0}]
    PROVE  HeapHolds(b, rt, sz, g, {})
<1>1. b \in [DOMAIN b -> FrameSizes \cup {0}] /\ {} = {c \in DOMAIN b : b[c] # 0}
  OBVIOUS
<1> QED BY <1>1 DEF HeapHolds

\* A call begins, or the caller is done with it: no coroutine is alive, and the
\* ring is empty.
LEMMA FreshStep ==
    ASSUME LookupInv, Live = {}, Waits = {}, running = NULL,
           next' = 1, results' = <<>>, running' = running, mode' \in {"idle", "spawning"},
           calls' \in 0..MaxCalls, keys' \in KeyLists \cup {<<>>},
           n_streams' \in Streams \cup {0}, frame_size' \in FrameSizes \cup {0},
           mode' # "idle" => n_streams' \in Streams /\ frame_size' \in FrameSizes,
           limit' = n_streams', thrown' \in BOOLEAN, entry' \in [Lookups' -> Nat],
           head' \in Slots, tail' = head', buffer' \in [Slots -> Nat],
           block' \in [Lookups' -> {0}], root' = root, sizes' = sizes
    PROVE  LookupInv'
<1>1. Live' = {} /\ Answered' = {}
  BY DEF Live, Answered
<1>2. Waits' = {}
  BY DEF Waits
<1>3. n_streams' \in Nat /\ Len(keys') \in Nat
  <2>1. Streams \subseteq Nat /\ KeyLists \subseteq Seq(Keys)
    BY LookupAssumption
  <2>2. n_streams' \in Nat
    BY <2>1
  <2>3. keys' \in KeyLists \/ keys' = <<>>
    BY Zenon
  <2>4. ASSUME keys' = <<>> PROVE Len(keys') \in Nat
    BY ONLY <2>4
  <2>5. ASSUME keys' \in KeyLists PROVE Len(keys') \in Nat
    <3>1. keys' \in Seq(Keys)
      BY <2>1, <2>5, Zenon
    <3> QED BY ONLY <3>1
  <2> QED BY <2>2, <2>3, <2>4, <2>5
<1>4. LimitIsExact'
  BY <1>1, <1>3, FS_EmptySet DEF LimitIsExact
<1>5. Stages'
  BY <1>1 DEF Stages
<1>6. RingHolds(head', tail', buffer', Live' \ {running'})
  <2>1. PICK h : h = head' /\ tail' = h /\ h \in 0..(QueueDepth - 1) /\ QueueDepth \in Nat
    BY LookupAssumption DEF Slots
  <2>2. Occ(h, h) = {} /\ Size(h, h) = 0
    <3>1. h \in Int
      BY <2>1
    <3>2. \A s \in Slots : s \in Int
      BY <2>1 DEF Slots
    <3>3. \A s \in Slots : ~(h <= s /\ s < h)
      BY <3>1, <3>2
    <3>4. h <= h /\ h - h = 0
      BY <3>1
    <3> QED BY ONLY <3>3, <3>4 DEF Occ, Size
  <2>3. Live' \ {running'} = {}
    BY <1>1
  <2> QED BY <2>1, <2>2, <2>3, FS_EmptySet DEF RingHolds
<1>7. HeapHolds(block', root', sizes', frame_size', Live' \cup Waits')
  <2>1. Live \cup Waits = {} /\ Live' \cup Waits' = {}
    BY <1>1, <1>2
  <2>2. HeapHolds(block, root, sizes, frame_size, {})
    BY <2>1, FrameFacts
  <2>3. DOMAIN block' = Lookups' /\ \A c \in Lookups' : block'[c] = 0
    OBVIOUS
  <2>4. HeapHolds(block', root, sizes, frame_size', {})
    BY <2>2, <2>3, NoFrames
  <2> QED BY <2>1, <2>4
<1>8. LookupTypeOK'
  <2>1. block' \in [Lookups' -> FrameSizes \cup {0}]
    OBVIOUS
  <2>2. root' \in Seq(Free) /\ sizes' \subseteq FrameSizes
    BY DEF LookupInv, LookupTypeOK
  <2>3. limit' \in 0..n_streams' /\ next' \in 1..(Len(keys') + 1)
    BY <1>3
  <2>4. /\ running' \in Lookups' \cup {NULL} /\ results' \in Seq(Lookups' \X Result)
        /\ mode' \in {"idle", "spawning", "making_room", "made_room", "draining", "done"}
        /\ tail' \in Slots
    OBVIOUS
  <2> QED BY <2>1, <2>2, <2>3, <2>4 DEF LookupTypeOK
<1> QED BY <1>4, <1>5, <1>6, <1>7, <1>8 DEF LookupInv

\* A call begins.
LEMMA BeginCallStep == ASSUME LookupInv, BeginCall PROVE LookupInv'
<1>1. PICK ks \in KeyLists, n \in Streams, s \in FrameSizes :
          /\ keys' = ks /\ next' = 1 /\ n_streams' = n /\ frame_size' = s /\ limit' = n
          /\ entry' = [i \in DOMAIN ks |-> 0]
          /\ block' = [i \in DOMAIN ks |-> 0]
  BY DEF BeginCall, begin
<1>2. /\ mode = "idle" /\ mode' = "spawning" /\ calls' = calls + 1 /\ calls < MaxCalls
      /\ thrown' = thrown /\ running' = running /\ results' = results
      /\ head' = head /\ tail' = tail /\ buffer' = buffer /\ root' = root /\ sizes' = sizes
  BY DEF BeginCall, ring
<1>3. next = 1 /\ results = <<>> /\ running = NULL
  BY <1>2 DEF LookupInv, Stages
<1>4. Live = {} /\ Waits = {}
  BY <1>2, <1>3 DEF Live, Waits
<1>5. /\ calls \in 0..MaxCalls /\ thrown \in BOOLEAN /\ head \in Slots
      /\ buffer \in [Slots -> Nat] /\ MaxCalls \in Nat
  BY LookupAssumption DEF LookupInv, LookupTypeOK
<1>6. calls' \in 0..MaxCalls
  BY <1>2, <1>5
<1>7. head = tail
  <2>1. Live \ {running} = {}
    BY <1>4
  <2> QED BY <2>1, FrameFacts, RingIsEmpty
<1>8. entry' \in [Lookups' -> Nat] /\ block' \in [Lookups' -> {0}]
  BY <1>1 DEF Lookups
<1> QED BY <1>1, <1>2, <1>3, <1>4, <1>5, <1>6, <1>7, <1>8, FreshStep

\* The caller is done with a call.
LEMMA EndCallStep == ASSUME LookupInv, EndCall PROVE LookupInv'
<1>1. /\ mode = "done" /\ mode' = "idle" /\ keys' = <<>> /\ n_streams' = 0 /\ frame_size' = 0
      /\ limit' = 0 /\ next' = 1 /\ thrown' = FALSE /\ entry' = <<>> /\ results' = <<>>
      /\ head' = 0 /\ tail' = 0 /\ buffer' = [i \in Slots |-> NULL] /\ block' = <<>>
      /\ calls' = calls /\ running' = running /\ root' = root /\ sizes' = sizes
  BY DEF EndCall
<1>2. Live = {} /\ running = NULL /\ Waits = {}
  BY <1>1 DEF LookupInv, Stages, Waits
<1>3. calls' \in 0..MaxCalls /\ head' \in Slots /\ buffer' \in [Slots -> Nat]
  BY <1>1, LookupAssumption DEF LookupInv, LookupTypeOK, Slots, NULL
<1>4. entry' \in [Lookups' -> Nat] /\ block' \in [Lookups' -> {0}]
  BY <1>1 DEF Lookups
<1> QED BY <1>1, <1>2, <1>3, <1>4, FreshStep

\* Every step preserves the invariant, whatever map it is taken over.
LEMMA LookupNext ==
    ASSUME MapInv, LookupInv, [MapStep \/ BeginCall \/ CallStep]_<<vars, callVars>>
    PROVE  LookupInv'
<1>1. CASE UNCHANGED callVars
  BY <1>1, LookupKept
<1>2. CASE BeginCall
  BY <1>2, BeginCallStep
<1>3. CASE CallStep
  <2>1. CASE Spawn
    BY <2>1, SpawnStep
  <2>2. CASE MakeRoom
    BY <2>2, MakeRoomStep
  <2>3. CASE SpawnInRoom
    BY <2>3, SpawnInRoomStep
  <2>4. CASE Suspend
    BY <2>4, SuspendStep
  <2>5. CASE Complete
    BY <2>5, CompleteStep
  <2>6. CASE CrashInLookup
    BY <1>1, <2>6 DEF CrashInLookup
  <2>7. CASE BeginRun \/ EndRun
    BY <2>7, RunEndsStep
  <2>8. CASE RunNext
    BY <2>8, RunNextStep
  <2>9. CASE EndCall
    BY <2>9, EndCallStep
  <2> QED BY <1>3, <2>1, <2>2, <2>3, <2>4, <2>5, <2>6, <2>7, <2>8, <2>9 DEF CallStep
<1> QED BY <1>1, <1>2, <1>3 DEF MapStep

\* The multilookup keeps its invariant.
LEMMA LookupInvariance == LookupSpec => []LookupInv
<1>1. LookupInit => LookupInv
  BY LookupStart
<1>2. MapInv /\ LookupInv /\ [MapStep \/ BeginCall \/ CallStep]_<<vars, callVars>> => LookupInv'
  BY LookupNext
<1> QED BY <1>1, <1>2, MapInvariance, PTL DEF LookupSpec

\* For any map, any range of keys and any number of streams below the depth of the
\* ring: the ring holds exactly the suspended coroutines, each once, whether they
\* were spawned, resumed themselves or were resumed by run(), also after the range
\* threw; and the limit and the coroutines alive add up to n_streams.
THEOREM StreamsStayExact == LookupSpec => []StreamsAreExact
<1>1. LookupInv => StreamsAreExact
  <2> SUFFICES ASSUME LookupInv PROVE StreamsAreExact
    OBVIOUS
  <2>1. LookupTypeOK /\ LimitIsExact /\ RingHolds(head, tail, buffer, Live \ {running})
    BY DEF LookupInv
  <2>2. Occupied = Occ(head, tail)
    BY <2>1, OccupiedSlots DEF RingHolds
  <2>3. {buffer[i] : i \in Occupied} = Live \ {running}
    BY <2>1, <2>2 DEF RingHolds
  <2>4. \A i, j \in Occupied : buffer[i] = buffer[j] => i = j
    BY <2>1, <2>2 DEF RingHolds
  <2> QED BY <2>1, <2>3, <2>4 DEF StreamsAreExact, RingIsExact
<1> QED BY <1>1, LookupInvariance, PTL

\* For any sizes of frames and any number of calls: a frame overflows its block
\* only after smaller frames were allocated, and while all have one size the
\* allocator never holds more blocks than there are streams, and one.
THEOREM FramesStayFit == LookupSpec => []FramesFit
<1>1. LookupInv => FramesFit
  <2> SUFFICES ASSUME LookupInv PROVE FramesFit
    OBVIOUS
  <2>1. PICK U : U = Live \cup Waits
    OBVIOUS
  <2>2. HeapHolds(block, root, sizes, frame_size, U) /\ DOMAIN block = Lookups
    BY <2>1, FrameFacts
  <2>3. U = {c \in Lookups : block[c] # 0}
    BY <2>2 DEF HeapHolds
  <2>4. \A c \in U : block[c] < frame_size => \E s \in sizes : s < frame_size
    BY <2>2 DEF HeapHolds
  <2>5. Cardinality(sizes) = 1 => Len(root) + Cardinality(U) <= Max(Streams) + 1
    BY <2>2 DEF HeapHolds
  <2> QED BY <2>3, <2>4, <2>5, Zenon DEF FramesFit
<1> QED BY <1>1, LookupInvariance, PTL

==============================================================================
