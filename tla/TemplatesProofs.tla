--------------------------- MODULE TemplatesProofs ---------------------------
(***************************************************************************)
(* What the commands make of a template, for every template and every      *)
(* setting: start-api serves the declared routes, deploy validates before  *)
(* it sends anything and creates the declared triggers, invoke gives a     *)
(* function the environment that its template asks for.                    *)
(***************************************************************************)
EXTENDS Templates, SequenceTheorems, FiniteSetTheorems, FunctionTheorems, WellFoundedInduction,
        TLAPS

-----------------------------------------------------------------------------
(* Recursion over the naturals *)

\* Induction by the smallest number that is missing.
LEMMA SetInduction ==
  ASSUME NEW T, 0 \in T, \A n \in Nat : n \in T => n + 1 \in T
  PROVE  Nat \subseteq T
<1> DEFINE R == {ss \in Nat \X Nat : ss[1] < ss[2]}
<1> SUFFICES ASSUME Nat \ T # {} PROVE FALSE
    OBVIOUS
<1>1. IsWellFoundedOn(R, Nat)
      BY NatLessThanWellFounded DEF OpToRel
<1>2. PICK x \in Nat \ T : \A y \in Nat \ T : ~(<<y, x>> \in R)
  <2> HIDE DEF R
  <2>. QED BY <1>1, WFMin
<1>3. x # 0 /\ x - 1 \in Nat /\ x - 1 \notin T
      BY <1>2
<1>4. <<x - 1, x>> \in R
      BY <1>3
<1>. QED BY <1>2, <1>3, <1>4

\* k steps from a, one after the other.
Iterates(f, V, a, k, step) ==
  f \in [0..k -> V] /\ f[0] = a /\ \A n \in 1..k : f[n] = step[n][f[n - 1]]

LEMMA Iteration ==
  ASSUME NEW V, NEW a \in V, NEW k \in Nat, NEW step \in [1..k -> [V -> V]]
  PROVE  \E f : Iterates(f, V, a, k, step)
<1> DEFINE Steps(f, m) == f[0] = a /\ \A n \in 1..m : f[n] = step[n][f[n - 1]]
           T == {m \in Nat : m <= k => \E f \in [0..m -> V] : Steps(f, m)}
<1>1. 0 \in T
  <2>1. [n \in 0..0 |-> a] \in [0..0 -> V] /\ Steps([n \in 0..0 |-> a], 0)
        OBVIOUS
  <2>. QED BY <2>1
<1>2. ASSUME NEW m \in Nat, m \in T
      PROVE  m + 1 \in T
  <2> SUFFICES ASSUME m + 1 <= k PROVE \E f \in [0..m + 1 -> V] : Steps(f, m + 1)
      OBVIOUS
  <2>1. PICK f \in [0..m -> V] : Steps(f, m)
        BY <1>2
  <2>2. f[m] \in V /\ m + 1 \in 1..k /\ step[m + 1][f[m]] \in V
        BY <2>1
  <2> DEFINE g == [n \in 0..m + 1 |-> IF n = m + 1 THEN step[m + 1][f[m]] ELSE f[n]]
  <2>3. g \in [0..m + 1 -> V]
    <3>1. ASSUME NEW n \in 0..m + 1 PROVE (IF n = m + 1 THEN step[m + 1][f[m]] ELSE f[n]) \in V
          BY <2>1, <2>2
    <3>. QED BY <3>1
  <2>4. g[0] = a
        BY <2>1
  <2>5. ASSUME NEW n \in 1..m + 1 PROVE g[n] = step[n][g[n - 1]]
    <3>1. n - 1 \in 0..m /\ n \in 0..m + 1 /\ n - 1 # m + 1 /\ n - 1 \in 0..m + 1
          OBVIOUS
    <3>2. g[n - 1] = f[n - 1]
          BY <3>1
    <3>3. CASE n = m + 1
          BY <3>1, <3>2, <3>3
    <3>4. CASE n # m + 1
      <4>1. n \in 1..m
            BY <3>4
      <4>2. g[n] = f[n]
            BY <3>1, <3>4
      <4>. QED BY <2>1, <3>2, <4>1, <4>2
    <3>. QED BY <3>3, <3>4
  <2> HIDE DEF g
  <2>. QED BY <2>3, <2>4, <2>5
<1>3. k \in T
  <2> HIDE DEF T
  <2>. QED BY <1>1, <1>2, SetInduction
<1>. QED BY <1>3 DEF Iterates

-----------------------------------------------------------------------------
(* Elements of one type *)

LEMMA Lists ==
  ASSUME NEW s, IsList(s)
  PROVE  /\ s \in Seq(ToSet(s)) /\ Len(s) \in Nat /\ DOMAIN s = 1..Len(s)
         /\ \A i \in 1..Len(s) : s[i] \in ToSet(s)
         /\ \A x \in ToSet(s) : \E i \in 1..Len(s) : x = s[i]
<1>1. s \in Seq(ToSet(s))
      BY DEF IsList
<1>. QED BY <1>1 DEF ToSet

\* kept has the elements of that type among the first ones.
Keeps(kept, s, type) ==
  kept = [n \in 0..Len(s) |->
            IF n = 0 THEN <<>>
            ELSE IF s[n].type = type THEN Append(kept[n - 1], s[n]) ELSE kept[n - 1]]

LEMMA KeepsExists ==
  ASSUME NEW s, IsList(s), NEW type
  PROVE  \E kept : Keeps(kept, s, type)
<1> DEFINE V == Seq(ToSet(s))
           step == [n \in 1..Len(s) |->
                      [v \in V |-> IF s[n].type = type THEN Append(v, s[n]) ELSE v]]
<1>1. step \in [1..Len(s) -> [V -> V]]
      BY Lists
<1>2. <<>> \in V /\ Len(s) \in Nat
      BY Lists
<1>3. PICK f \in [0..Len(s) -> V] : f[0] = <<>> /\ \A n \in 1..Len(s) : f[n] = step[n][f[n - 1]]
  <2> DEFINE a == <<>>
             k == Len(s)
  <2>1. step \in [1..k -> [V -> V]] /\ a \in V /\ k \in Nat
        BY <1>1, <1>2
  <2> HIDE DEF step, V, a, k
  <2>2. PICK f : Iterates(f, V, a, k, step)
        BY <2>1, Iteration
  <2>. QED BY <2>2 DEF a, k, Iterates
<1>4. ASSUME NEW n \in 0..Len(s)
      PROVE  f[n] = IF n = 0 THEN <<>>
                    ELSE IF s[n].type = type THEN Append(f[n - 1], s[n]) ELSE f[n - 1]
  <2>1. CASE n = 0
        BY <1>3, <2>1
  <2>2. CASE n # 0
    <3>1. n \in 1..Len(s) /\ n - 1 \in 0..Len(s) /\ f[n - 1] \in V
      <4>1. n \in 1..Len(s) /\ n - 1 \in 0..Len(s)
            BY <1>2, <2>2
      <4> HIDE DEF V
      <4>. QED BY <4>1
    <3>2. f[n] = step[n][f[n - 1]]
          BY <1>3, <3>1
    <3>3. step[n][f[n - 1]] = IF s[n].type = type THEN Append(f[n - 1], s[n]) ELSE f[n - 1]
          BY <3>1
    <3>. QED BY <2>2, <3>2, <3>3
  <2>. QED BY <2>1, <2>2
<1>5. f = [n \in 0..Len(s) |->
             IF n = 0 THEN <<>>
             ELSE IF s[n].type = type THEN Append(f[n - 1], s[n]) ELSE f[n - 1]]
      BY <1>3, <1>4
<1>. QED BY <1>5 DEF Keeps

LEMMA OfTypeIsKept ==
  ASSUME NEW s, IsList(s), NEW type
  PROVE  \E kept : /\ \A n \in 0..Len(s) :
                        kept[n] = IF n = 0 THEN <<>>
                                  ELSE IF s[n].type = type THEN Append(kept[n - 1], s[n])
                                       ELSE kept[n - 1]
                   /\ OfType(s, type) = kept[Len(s)]
<1> DEFINE kept == CHOOSE g : Keeps(g, s, type)
<1>1. Keeps(kept, s, type)
      BY KeepsExists
<1>2. OfType(s, type) = kept[Len(s)]
      BY Zenon DEF OfType, Keeps
<1>3. \A n \in 0..Len(s) :
        kept[n] = IF n = 0 THEN <<>>
                  ELSE IF s[n].type = type THEN Append(kept[n - 1], s[n]) ELSE kept[n - 1]
  <2> HIDE DEF kept
  <2>1. kept = [n \in 0..Len(s) |->
                  IF n = 0 THEN <<>>
                  ELSE IF s[n].type = type THEN Append(kept[n - 1], s[n]) ELSE kept[n - 1]]
        BY <1>1 DEF Keeps
  <2>. QED BY <2>1
<1>. QED BY <1>2, <1>3

\* h says where the elements of u stand among the first n of s: they are those
\* of that type, each of them once.
Places(h, u, s, type, n) ==
  /\ h \in [1..Len(u) -> {i \in 1..n : s[i].type = type}]
  /\ \A j, k \in 1..Len(u) : h[j] = h[k] => j = k
  /\ \A i \in 1..n : s[i].type = type => \E j \in 1..Len(u) : h[j] = i
  /\ \A j \in 1..Len(u) : u[j] = s[h[j]]

LEMMA OnePlaceMore ==
  ASSUME NEW s, IsList(s), NEW type, NEW n \in Nat, n + 1 <= Len(s), s[n + 1].type = type,
         NEW u \in Seq(ToSet(s)), NEW h, Places(h, u, s, type, n)
  PROVE  \E g : Places(g, Append(u, s[n + 1]), s, type, n + 1)
<1> DEFINE v == Append(u, s[n + 1])
           m == Len(u)
           g == [j \in 1..m + 1 |-> IF j = m + 1 THEN n + 1 ELSE h[j]]
<1>1. m \in Nat /\ Len(v) = m + 1 /\ s[n + 1] \in ToSet(s)
      /\ v[m + 1] = s[n + 1] /\ \A j \in 1..m : v[j] = u[j]
  <2>1. n + 1 \in 1..Len(s) /\ s[n + 1] \in ToSet(s)
        BY Lists
  <2>. QED BY <2>1
<1>2. /\ \A j \in 1..m : h[j] \in 1..n /\ s[h[j]].type = type
      /\ \A j, k \in 1..m : h[j] = h[k] => j = k
      /\ \A i \in 1..n : s[i].type = type => \E j \in 1..m : h[j] = i
      /\ \A j \in 1..m : u[j] = s[h[j]]
      BY DEF Places
<1>3. /\ g[m + 1] = n + 1 /\ \A j \in 1..m : g[j] = h[j]
      /\ g = [j \in 1..m + 1 |-> g[j]]
  <2>1. m + 1 \in 1..m + 1 /\ \A j \in 1..m : j \in 1..m + 1 /\ j # m + 1
        BY <1>1
  <2>. QED BY <2>1
<1>4. \A j \in 1..m + 1 : j = m + 1 \/ j \in 1..m
      BY <1>1
<1> HIDE DEF g, v, m
<1>5. g \in [1..m + 1 -> {i \in 1..n + 1 : s[i].type = type}]
  <2>1. ASSUME NEW j \in 1..m + 1 PROVE g[j] \in 1..n + 1 /\ s[g[j]].type = type
    <3>1. CASE j = m + 1
          BY <1>3, <3>1
    <3>2. CASE j \in 1..m
      <4>1. g[j] \in 1..n
            BY <1>2, <1>3, <3>2
      <4>2. g[j] \in 1..n + 1
            BY <4>1
      <4>. QED BY <1>2, <1>3, <3>2, <4>2
    <3>. QED BY <1>4, <3>1, <3>2
  <2>. QED BY <1>3, <2>1
<1>6. ASSUME NEW j \in 1..m + 1, NEW k \in 1..m + 1, g[j] = g[k]
      PROVE  j = k
  <2>1. \A x \in 1..m : g[x] # n + 1
    <3>1. \A x \in 1..m : g[x] \in 1..n
          BY <1>2, <1>3
    <3>. QED BY <3>1
  <2>2. CASE j = m + 1 /\ k = m + 1
        BY <2>2
  <2>3. CASE j = m + 1 /\ k \in 1..m
        BY <1>3, <1>6, <2>1, <2>3
  <2>4. CASE j \in 1..m /\ k = m + 1
        BY <1>3, <1>6, <2>1, <2>4
  <2>5. CASE j \in 1..m /\ k \in 1..m
    <3>1. h[j] = h[k]
          BY <1>3, <1>6, <2>5
    <3>. QED BY <1>2, <2>5, <3>1
  <2>. QED BY <1>4, <2>2, <2>3, <2>4, <2>5
<1>7. ASSUME NEW i \in 1..n + 1, s[i].type = type
      PROVE  \E j \in 1..m + 1 : g[j] = i
  <2>1. CASE i = n + 1
    <3>1. m + 1 \in 1..m + 1
          BY <1>1
    <3>. QED BY <1>3, <2>1, <3>1
  <2>2. CASE i \in 1..n
    <3>1. PICK j \in 1..m : h[j] = i
          BY <1>2, <1>7, <2>2
    <3>2. j \in 1..m + 1
          BY <1>1
    <3>. QED BY <1>3, <3>1, <3>2
  <2>. QED BY <2>1, <2>2
<1>8. \A j \in 1..m + 1 : v[j] = s[g[j]]
      BY <1>1, <1>2, <1>3, <1>4
<1>9. Places(g, v, s, type, n + 1)
      BY <1>1, <1>5, <1>6, <1>7, <1>8 DEF Places
<1>. QED BY <1>9 DEF v

LEMMA OfTypePlaces ==
  ASSUME NEW s, IsList(s), NEW type
  PROVE  /\ OfType(s, type) \in Seq(ToSet(s))
         /\ \E h : Places(h, OfType(s, type), s, type, Len(s))
<1>1. PICK kept : /\ \A n \in 0..Len(s) :
                       kept[n] = IF n = 0 THEN <<>>
                                 ELSE IF s[n].type = type THEN Append(kept[n - 1], s[n])
                                      ELSE kept[n - 1]
                  /\ OfType(s, type) = kept[Len(s)]
      BY OfTypeIsKept
<1> DEFINE Good(n) == kept[n] \in Seq(ToSet(s)) /\ \E h : Places(h, kept[n], s, type, n)
           T == {n \in Nat : n <= Len(s) => Good(n)}
<1>2. Len(s) \in Nat
      BY Lists
<1>3. 0 \in T
  <2>1. kept[0] = <<>>
        BY <1>1, <1>2
  <2>2. Places(<<>>, <<>>, s, type, 0)
        BY DEF Places
  <2>3. kept[0] \in Seq(ToSet(s)) /\ \E h : Places(h, kept[0], s, type, 0)
        BY <2>1, <2>2
  <2>. QED BY <2>3
<1>4. ASSUME NEW n \in Nat, n \in T
      PROVE  n + 1 \in T
  <2> SUFFICES ASSUME n + 1 <= Len(s) PROVE Good(n + 1)
      OBVIOUS
  <2>1. n <= Len(s) /\ n + 1 \in 0..Len(s) /\ n + 1 # 0 /\ n + 1 - 1 = n
        BY <1>2
  <2>2. kept[n] \in Seq(ToSet(s)) /\ \E h : Places(h, kept[n], s, type, n)
        BY <1>4, <2>1
  <2>3. PICK h : Places(h, kept[n], s, type, n)
        BY <2>2
  <2>4. kept[n + 1] = IF s[n + 1].type = type THEN Append(kept[n], s[n + 1]) ELSE kept[n]
        BY <1>1, <2>1
  <2>5. CASE s[n + 1].type = type
    <3>1. s[n + 1] \in ToSet(s)
      <4>1. n + 1 \in 1..Len(s)
            BY <2>1
      <4>. QED BY <4>1, Lists
    <3>2. \E g : Places(g, Append(kept[n], s[n + 1]), s, type, n + 1)
          BY <2>2, <2>3, <2>5, OnePlaceMore
    <3>. QED BY <2>2, <2>4, <2>5, <3>1, <3>2
  <2>6. CASE s[n + 1].type # type
    <3>1. {i \in 1..n : s[i].type = type} = {i \in 1..n + 1 : s[i].type = type}
          BY <2>6
    <3>2. Places(h, kept[n], s, type, n + 1)
          BY <2>3, <2>6, <3>1 DEF Places
    <3>. QED BY <2>2, <2>4, <2>6, <3>2
  <2>. QED BY <2>5, <2>6
<1>5. Len(s) \in T
  <2> HIDE DEF T
  <2>. QED BY <1>2, <1>3, <1>4, SetInduction
<1>. QED BY <1>1, <1>2, <1>5

\* Nothing of the type is left out and nothing else is in.
LEMMA OfTypeHas ==
  ASSUME NEW s, IsList(s), NEW type
  PROVE  /\ IsList(OfType(s, type))
         /\ ToSet(OfType(s, type)) = {x \in ToSet(s) : x.type = type}
<1> DEFINE u == OfType(s, type)
<1>1. PICK h : Places(h, u, s, type, Len(s))
      BY OfTypePlaces
<1>2. u \in Seq(ToSet(s))
      BY OfTypePlaces
<1> HIDE DEF u
<1>3. DOMAIN u = 1..Len(u) /\ Len(u) \in Nat
      BY <1>2
<1>4. \A x \in ToSet(u) : x \in ToSet(s) /\ x.type = type
      BY <1>1, <1>2, <1>3, Lists DEF Places, ToSet
<1>5. ASSUME NEW x \in ToSet(s), x.type = type
      PROVE  x \in ToSet(u)
  <2>1. PICK i \in 1..Len(s) : x = s[i]
        BY Lists
  <2>2. PICK j \in 1..Len(u) : h[j] = i
        BY <1>1, <1>5, <2>1 DEF Places
  <2>. QED BY <1>1, <1>3, <2>1, <2>2 DEF Places, ToSet
<1>6. u \in Seq(ToSet(u))
      BY <1>2, <1>3 DEF ToSet
<1>. QED BY <1>4, <1>5, <1>6 DEF u, IsList
-----------------------------------------------------------------------------
(* Sequences of sequences *)

\* The elements of two sequences in a row.
LEMMA ToSetConcat ==
  ASSUME NEW S, NEW u \in Seq(S), NEW v \in Seq(S)
  PROVE  u \o v \in Seq(S) /\ ToSet(u \o v) = ToSet(u) \cup ToSet(v)
<1> DEFINE w == u \o v
<1>1. /\ Len(u) \in Nat /\ Len(v) \in Nat /\ Len(w) = Len(u) + Len(v) /\ w \in Seq(S)
      /\ \A i \in 1..Len(u) + Len(v) : w[i] = IF i <= Len(u) THEN u[i] ELSE v[i - Len(u)]
      OBVIOUS
<1>2. /\ ToSet(u) = {u[i] : i \in 1..Len(u)}
      /\ ToSet(v) = {v[i] : i \in 1..Len(v)}
      /\ ToSet(w) = {w[i] : i \in 1..Len(u) + Len(v)}
  <2>1. DOMAIN u = 1..Len(u) /\ DOMAIN v = 1..Len(v)
        OBVIOUS
  <2>2. DOMAIN w = 1..Len(u) + Len(v)
    <3> HIDE DEF w
    <3>. QED BY <1>1
  <2> HIDE DEF w
  <2>. QED BY <2>1, <2>2 DEF ToSet
<1> HIDE DEF w
<1>3. ASSUME NEW i \in 1..Len(u)
      PROVE  u[i] \in ToSet(w)
  <2>1. i \in 1..Len(u) + Len(v) /\ i <= Len(u)
        BY <1>1
  <2>. QED BY <1>1, <1>2, <2>1
<1>4. ASSUME NEW i \in 1..Len(v)
      PROVE  v[i] \in ToSet(w)
  <2>1. i + Len(u) \in 1..Len(u) + Len(v) /\ ~(i + Len(u) <= Len(u)) /\ i + Len(u) - Len(u) = i
        BY <1>1
  <2>2. w[i + Len(u)] = v[i]
        BY <1>1, <2>1
  <2>. QED BY <1>2, <2>1, <2>2
<1>5. ASSUME NEW i \in 1..Len(u) + Len(v)
      PROVE  w[i] \in ToSet(u) \cup ToSet(v)
  <2>1. CASE i <= Len(u)
    <3>1. i \in 1..Len(u) /\ w[i] = u[i]
          BY <1>1, <2>1
    <3>. QED BY <1>2, <3>1
  <2>2. CASE ~(i <= Len(u))
    <3>1. i - Len(u) \in 1..Len(v)
          BY <1>1, <2>2
    <3>2. w[i] = v[i - Len(u)]
          BY <1>1, <2>2
    <3>. QED BY <1>2, <3>1, <3>2
  <2>. QED BY <2>1, <2>2
<1>6. ToSet(w) = ToSet(u) \cup ToSet(v)
      BY <1>2, <1>3, <1>4, <1>5
<1>. QED BY <1>1, <1>6 DEF w

\* flat has the first sequences in a row.
Flattens(flat, ss) ==
  flat = [i \in 1..Len(ss) |-> IF i = 1 THEN ss[i] ELSE flat[i - 1] \o ss[i]]

LEMMA FlattensExists ==
  ASSUME NEW S, NEW ss \in Seq(Seq(S))
  PROVE  \E flat : Flattens(flat, ss)
<1> DEFINE V == Seq(S)
           k == Len(ss)
           a == <<>>
           step == [n \in 1..k |-> [v \in V |-> v \o ss[n]]]
<1>1. k \in Nat /\ \A n \in 1..k : ss[n] \in V
      OBVIOUS
<1>2. step \in [1..k -> [V -> V]] /\ a \in V
      BY <1>1
<1>3. PICK f \in [0..k -> V] : f[0] = a /\ \A n \in 1..k : f[n] = step[n][f[n - 1]]
  <2>1. step \in [1..k -> [V -> V]] /\ a \in V /\ k \in Nat
        BY <1>1, <1>2
  <2> HIDE DEF step, V, a, k
  <2>2. PICK f : Iterates(f, V, a, k, step)
        BY <2>1, Iteration
  <2>. QED BY <2>2 DEF Iterates
<1> DEFINE g == [i \in 1..k |-> f[i]]
<1>4. ASSUME NEW i \in 1..k
      PROVE  g[i] = IF i = 1 THEN ss[i] ELSE g[i - 1] \o ss[i]
  <2>1. i - 1 \in 0..k /\ f[i - 1] \in V /\ ss[i] \in V
    <3>1. i \in Nat /\ i - 1 \in 0..k
          BY <1>1
    <3>2. f[i - 1] \in V
      <4> HIDE DEF V
      <4>. QED BY <3>1
    <3>. QED BY <1>1, <3>1, <3>2
  <2>2. f[i] = f[i - 1] \o ss[i]
        BY <1>3, <2>1
  <2>3. CASE i = 1
    <3>1. f[i - 1] = <<>> /\ ss[i] \in Seq(S)
          BY <1>3, <2>1, <2>3
    <3>2. <<>> \o ss[i] = ss[i]
          BY <3>1
    <3>. QED BY <2>2, <2>3, <3>1, <3>2
  <2>4. CASE i # 1
    <3>1. i - 1 \in 1..k
          BY <2>4
    <3>. QED BY <2>2, <2>4, <3>1
  <2>. QED BY <2>3, <2>4
<1>5. g = [i \in 1..k |-> IF i = 1 THEN ss[i] ELSE g[i - 1] \o ss[i]]
      BY <1>4
<1>. QED BY <1>5 DEF Flattens

\* All elements of all sequences, and nothing else.
LEMMA FlattenSeqHas ==
  ASSUME NEW S, NEW ss \in Seq(Seq(S))
  PROVE  /\ FlattenSeq(ss) \in Seq(S)
         /\ ToSet(FlattenSeq(ss)) = UNION {ToSet(ss[i]) : i \in 1..Len(ss)}
<1>1. CASE Len(ss) = 0
  <2>1. ss = <<>>
        BY <1>1
  <2>2. FlattenSeq(ss) = <<>>
        BY <1>1, <2>1 DEF FlattenSeq
  <2>3. ToSet(<<>>) = {} /\ UNION {ToSet(ss[i]) : i \in 1..Len(ss)} = {}
        BY <1>1 DEF ToSet
  <2>4. <<>> \in Seq(S)
        OBVIOUS
  <2>. QED BY <2>2, <2>3, <2>4
<1>2. CASE Len(ss) # 0
  <2> DEFINE flat == CHOOSE g : Flattens(g, ss)
             k == Len(ss)
  <2>1. Flattens(flat, ss)
        BY FlattensExists
  <2>2. FlattenSeq(ss) = flat[k]
        BY <1>2, Zenon DEF FlattenSeq, Flattens
  <2>3. \A i \in 1..k : flat[i] = IF i = 1 THEN ss[i] ELSE flat[i - 1] \o ss[i]
    <3> HIDE DEF flat
    <3>1. flat = [i \in 1..Len(ss) |-> IF i = 1 THEN ss[i] ELSE flat[i - 1] \o ss[i]]
          BY <2>1 DEF Flattens
    <3>. QED BY <3>1
  <2>4. k \in Nat /\ k # 0 /\ k \in 1..k /\ \A i \in 1..k : ss[i] \in Seq(S)
        BY <1>2
  <2> HIDE DEF flat
  <2> DEFINE Good(n) == /\ flat[n] \in Seq(S)
                        /\ ToSet(flat[n]) = UNION {ToSet(ss[i]) : i \in 1..n}
             T == {n \in Nat : n + 1 <= k => Good(n + 1)}
  <2>5. 0 \in T
    <3>1. flat[1] = ss[1] /\ ss[1] \in Seq(S)
      <4>1. 1 \in 1..k
            BY <2>4
      <4>. QED BY <2>3, <2>4, <4>1
    <3>2. UNION {ToSet(ss[i]) : i \in 1..1} = ToSet(ss[1])
      <4>1. 1..1 = {1}
            OBVIOUS
      <4>. QED BY <4>1
    <3>3. Good(1)
          BY <3>1, <3>2
    <3>4. 0 + 1 = 1
          OBVIOUS
    <3>. QED BY <3>3, <3>4
  <2>6. ASSUME NEW n \in Nat, n \in T
        PROVE  n + 1 \in T
    <3> SUFFICES ASSUME n + 1 + 1 <= k PROVE Good(n + 1 + 1)
        OBVIOUS
    <3> DEFINE m == n + 1
    <3>1. m \in Nat /\ m + 1 \in 1..k /\ m + 1 # 1 /\ m + 1 - 1 = m /\ m \in 1..k
          BY <2>4
    <3>2. flat[m] \in Seq(S) /\ ToSet(flat[m]) = UNION {ToSet(ss[i]) : i \in 1..m}
          BY <2>6, <3>1
    <3>3. flat[m + 1] = flat[m] \o ss[m + 1] /\ ss[m + 1] \in Seq(S)
      <4> HIDE DEF m, k
      <4> DEFINE x == m + 1
      <4>3. x \in 1..k
            BY <3>1
      <4>1. flat[x] = IF x = 1 THEN ss[x] ELSE flat[x - 1] \o ss[x]
        <5> HIDE DEF x
        <5>. QED BY <2>3, <4>3
      <4>4. x # 1 /\ x - 1 = m
            BY <3>1
      <4>5. flat[x] = flat[m] \o ss[x] /\ ss[x] \in Seq(S)
        <5> HIDE DEF x
        <5>. QED BY <2>4, <4>1, <4>3, <4>4
      <4>. QED BY <4>5
    <3>4. flat[m] \o ss[m + 1] \in Seq(S)
          /\ ToSet(flat[m] \o ss[m + 1]) = ToSet(flat[m]) \cup ToSet(ss[m + 1])
      <4> HIDE DEF m
      <4>. QED BY <3>2, <3>3, ToSetConcat
    <3>5. UNION {ToSet(ss[i]) : i \in 1..m + 1} = (UNION {ToSet(ss[i]) : i \in 1..m}) \cup ToSet(ss[m + 1])
      <4>1. 1..m + 1 = 1..m \cup {m + 1}
            BY <3>1
      <4>. QED BY <4>1
    <3> HIDE DEF m
    <3>6. Good(m + 1)
          BY <3>2, <3>3, <3>4, <3>5
    <3>. QED BY <3>6 DEF m
  <2>7. k - 1 \in T
    <3>1. k - 1 \in Nat
          BY <2>4
    <3> HIDE DEF T
    <3>. QED BY <2>5, <2>6, <3>1, SetInduction
  <2>8. Good(k)
    <3>1. k - 1 + 1 = k
          BY <2>4
    <3>. QED BY <2>7, <3>1
  <2>. QED BY <2>2, <2>8
<1>. QED BY <1>1, <1>2
-----------------------------------------------------------------------------
(* The template does not change *)

AwsFunction == "AWS::Serverless::Function"
AwsApi == "AWS::Serverless::Api"

Chosen ==
  /\ command \in Commands /\ resources \in TemplateChoices[command]
  /\ command = "invoke" => setting \in SettingChoices

LEMMA ChosenInvariant == Spec => []Chosen
<1>1. Init => Chosen
      BY DEF Init, Chosen
<1>2. Chosen /\ [Next]_vars => Chosen'
  <2> SUFFICES ASSUME [Next]_vars PROVE UNCHANGED <<command, resources, setting>>
      BY DEF Chosen
  <2>1. CASE StartApi
        BY <2>1 DEF StartApi, RouteNext, CollectFunction, CollectApi, CollectNothing, Merge,
                    Mount, Serve, setupVars
  <2>2. CASE Deploy
        BY <2>2 DEF Deploy, SourceNext, Enter, DeployFunction, CreateTrigger, NextProvider, setupVars
  <2>3. CASE Invoke
        BY <2>3 DEF Invoke, SetUp
  <2>4. CASE UNCHANGED vars
        BY <2>4 DEF vars, setupVars
  <2>. QED BY <2>1, <2>2, <2>3, <2>4 DEF Next
<1>. QED BY <1>1, <1>2, PTL DEF Spec

LEMMA TemplateShape ==
  ASSUME Chosen
  PROVE  /\ IsList(resources)
         /\ \A r \in ToSet(resources) :
              r.type \in {FunctionType, AwsFunction} => IsList(r.events)
<1>1. /\ IsList(resources)
      /\ \A i \in DOMAIN resources :
           resources[i].type \in {FunctionType, AwsFunction} => IsList(resources[i].events)
      BY TemplatesAssumption DEF Chosen, AwsFunction
<1>. QED BY <1>1 DEF ToSet

LEMMA FunctionsOfTemplate ==
  ASSUME Chosen
  PROVE  /\ IsList(AllFunctions) /\ Len(AllFunctions) \in Nat
         /\ DOMAIN AllFunctions = 1..Len(AllFunctions)
         /\ \A f \in DOMAIN AllFunctions :
              AllFunctions[f].type = FunctionType /\ IsList(AllFunctions[f].events)
<1>1. IsList(AllFunctions) /\ ToSet(AllFunctions) = {r \in ToSet(resources) : r.type = FunctionType}
      BY TemplateShape, OfTypeHas DEF AllFunctions
<1>2. Len(AllFunctions) \in Nat /\ DOMAIN AllFunctions = 1..Len(AllFunctions)
      BY <1>1, Lists
<1>3. ASSUME NEW f \in DOMAIN AllFunctions
      PROVE  AllFunctions[f].type = FunctionType /\ IsList(AllFunctions[f].events)
  <2>1. AllFunctions[f] \in ToSet(AllFunctions)
        BY <1>1, <1>2, Lists
  <2>. QED BY <1>1, <2>1, TemplateShape
<1>. QED BY <1>1, <1>2, <1>3

-----------------------------------------------------------------------------
(* deploy validates before it sends *)

LEMMA ThreeProviders ==
  /\ Len(Providers) = 3 /\ DOMAIN Providers = 1..3
  /\ Providers[1] = "BOS" /\ Providers[2] = "DuerOS" /\ Providers[3] = "HTTP"
  /\ ToSet(Providers) = {"BOS", "DuerOS", "HTTP"}
<1>1. /\ Len(Providers) = 3 /\ DOMAIN Providers = 1..3
      /\ Providers[1] = "BOS" /\ Providers[2] = "DuerOS" /\ Providers[3] = "HTTP"
      BY DEF Providers
<1>2. DOMAIN Providers = {1, 2, 3}
      BY <1>1
<1>. QED BY <1>1, <1>2 DEF ToSet

Sending == {"functions", "triggers", "done"}

\* The providers behind the current one found nothing wrong.
Validated ==
  /\ dpc = "enter" => \A q \in 1..provider - 1 : Verdict(Providers[q]) = "valid"
  /\ dpc \in Sending => \A q \in 1..3 : Verdict(Providers[q]) = "valid"

SourceTypes ==
  /\ dpc \in {"enter", "user error", "traceback"} \cup Sending
  /\ provider \in 1..3
  /\ function \in 1..Len(AllFunctions) + 1
  /\ event \in Nat \ {0}
  /\ dpc = "triggers" => function \in 1..Len(AllFunctions)

SourceInv == SourceTypes /\ Validated

LEMMA SameFunctions ==
  ASSUME UNCHANGED resources
  PROVE  AllFunctions' = AllFunctions /\ \A type : Verdict(type)' = Verdict(type)
<1>1. AllFunctions' = AllFunctions
      BY DEF AllFunctions
<1>. QED BY <1>1 DEF Verdict

LEMMA VerdictIs ==
  ASSUME NEW type PROVE Verdict(type) \in {"valid", "user error", "traceback"}
BY DEF Verdict

LEMMA SourceStep ==
  ASSUME Chosen, SourceInv, [Next]_vars
  PROVE  SourceInv'
<1> DEFINE N == Len(AllFunctions)
<1>1. N \in Nat
      BY FunctionsOfTemplate
<1>2. UNCHANGED resources => N' = N /\ \A type : Verdict(type)' = Verdict(type)
      BY SameFunctions
<1> HIDE DEF N
<1>3. /\ dpc \in {"enter", "user error", "traceback"} \cup Sending
      /\ provider \in 1..3 /\ function \in 1..N + 1 /\ event \in Nat \ {0}
      /\ dpc = "triggers" => function \in 1..N
      /\ Validated
      BY DEF SourceInv, SourceTypes, N
<1>10. provider \in 1..3
      BY <1>3
<1>4. CASE Enter
  <2>1. /\ dpc = "enter" /\ UNCHANGED <<resources, function, event>>
        /\ IF Verdict(Providers[provider]) # "valid"
           THEN dpc' = Verdict(Providers[provider]) /\ UNCHANGED provider
           ELSE /\ provider' = IF provider < Len(Providers) THEN provider + 1 ELSE 1
                /\ dpc' = IF provider < Len(Providers) THEN "enter"
                          ELSE IF AllFunctions = <<>> THEN "user error" ELSE "functions"
        BY <1>4 DEF Enter
  <2>2. CASE Verdict(Providers[provider]) # "valid"
    <3>1. dpc' \in {"user error", "traceback"} /\ provider' = provider
          BY <2>1, <2>2, VerdictIs
    <3>2. Validated'
          BY <3>1 DEF Validated, Sending
    <3>. QED BY <1>2, <1>3, <2>1, <3>1, <3>2 DEF SourceInv, SourceTypes, Sending, N
  <2>3. CASE Verdict(Providers[provider]) = "valid" /\ provider < 3
    <3>1. dpc' = "enter" /\ provider' = provider + 1
          BY <2>1, <2>3, ThreeProviders
    <3>2. provider' \in 1..3
      <4>1. provider < 3 /\ provider' = provider + 1
            BY <2>3, <3>1
      <4>. QED BY <1>10, <4>1
    <3>3. \A q \in 1..provider' - 1 : Verdict(Providers[q]) = "valid"
      <4>1. \A q \in 1..provider' - 1 : q = provider \/ q \in 1..provider - 1
        <5>1. provider' = provider + 1
              BY <3>1
        <5>. QED BY <1>10, <5>1
      <4>2. \A q \in 1..provider - 1 : Verdict(Providers[q]) = "valid"
            BY <1>3, <2>1 DEF Validated
      <4>. QED BY <2>3, <4>1, <4>2
    <3>4. Validated'
          BY <1>2, <2>1, <3>1, <3>3 DEF Validated, Sending
    <3>. QED BY <1>2, <1>3, <2>1, <3>1, <3>2, <3>4 DEF SourceInv, SourceTypes, N
  <2>4. CASE Verdict(Providers[provider]) = "valid" /\ provider = 3
    <3>1. dpc' \in {"user error", "functions"} /\ provider' = 1
      <4>1. ~(provider < Len(Providers))
            BY <2>4, ThreeProviders
      <4>. QED BY <2>1, <2>4, <4>1
    <3>2. \A q \in 1..3 : Verdict(Providers[q]) = "valid"
      <4>1. \A q \in 1..3 : q = 3 \/ q \in 1..3 - 1
            OBVIOUS
      <4>2. \A q \in 1..3 - 1 : Verdict(Providers[q]) = "valid"
            BY <1>3, <2>1, <2>4 DEF Validated
      <4>. QED BY <2>4, <4>1, <4>2
    <3>3. Validated'
          BY <1>2, <2>1, <3>1, <3>2 DEF Validated
    <3>4. provider' \in 1..3
      <4>1. provider' = 1
            BY <3>1
      <4>. QED BY <4>1
    <3>. QED BY <1>2, <1>3, <2>1, <3>1, <3>3, <3>4 DEF SourceInv, SourceTypes, Sending, N
  <2>5. provider < 3 \/ provider = 3
        BY <1>10
  <2>. QED BY <2>2, <2>3, <2>4, <2>5
<1>5. CASE DeployFunction
  <2>1. /\ dpc = "functions" /\ UNCHANGED <<resources, provider, event>>
        /\ IF function > N THEN dpc' = "done" /\ UNCHANGED function
           ELSE \/ dpc' = "triggers" /\ UNCHANGED function
                \/ function' = function + 1 /\ UNCHANGED dpc
        BY <1>5 DEF DeployFunction, N
  <2>2. dpc' \in Sending /\ Validated'
        BY <1>2, <1>3, <2>1 DEF Validated, Sending
  <2>3. function' \in 1..N + 1
        BY <1>1, <1>3, <2>1
  <2>4. dpc' = "triggers" => function' \in 1..N
        BY <1>1, <1>3, <2>1
  <2>. QED BY <1>2, <1>3, <2>1, <2>2, <2>3, <2>4 DEF SourceInv, SourceTypes, N
<1>6. CASE CreateTrigger
  <2>1. dpc = "triggers" /\ event' = event + 1 /\ UNCHANGED <<resources, dpc, provider, function>>
        BY <1>6 DEF CreateTrigger
  <2>2. event' \in Nat \ {0}
        BY <1>3, <2>1
  <2>3. Validated'
        BY <1>2, <1>3, <2>1 DEF Validated, Sending
  <2>. QED BY <1>2, <1>3, <2>1, <2>2, <2>3 DEF SourceInv, SourceTypes, N
<1>7. CASE NextProvider
  <2>1. /\ dpc = "triggers" /\ event' = 1 /\ UNCHANGED resources
        /\ IF provider < 3 THEN provider' = provider + 1 /\ UNCHANGED <<dpc, function>>
           ELSE provider' = 1 /\ dpc' = "functions" /\ function' = function + 1
        BY <1>7, ThreeProviders DEF NextProvider
  <2>2. dpc' \in Sending /\ Validated'
        BY <1>2, <1>3, <2>1 DEF Validated, Sending
  <2>3. provider' \in 1..3
        BY <1>3, <2>1
  <2>4. function' \in 1..N + 1 /\ (dpc' = "triggers" => function' \in 1..N)
    <3>1. CASE provider < 3
          BY <1>3, <2>1, <3>1
    <3>2. CASE ~(provider < 3)
      <4>1. function \in 1..N /\ function' = function + 1 /\ dpc' = "functions"
            BY <1>3, <2>1, <3>2
      <4>. QED BY <1>1, <4>1
    <3>. QED BY <3>1, <3>2
  <2>5. event' \in Nat \ {0}
        BY <2>1
  <2>. QED BY <1>2, <2>1, <2>2, <2>3, <2>4, <2>5 DEF SourceInv, SourceTypes, N
<1>8. CASE UNCHANGED <<resources, sourceVars>>
      BY <1>2, <1>3, <1>8 DEF sourceVars, SourceInv, SourceTypes, Validated, N
<1>9. StartApi \/ Invoke \/ UNCHANGED vars => UNCHANGED <<resources, sourceVars>>
      BY DEF StartApi, RouteNext, CollectFunction, CollectApi, CollectNothing, Merge, Mount, Serve,
             Invoke, SetUp, vars
<1>. QED BY <1>4, <1>5, <1>6, <1>7, <1>8, <1>9 DEF Next, Deploy, SourceNext

LEMMA SourceInvariant == Spec => []SourceInv
<1>1. Init /\ Chosen => SourceInv
  <2> SUFFICES ASSUME Init, Chosen PROVE SourceInv
      OBVIOUS
  <2>1. dpc = "enter" /\ provider = 1 /\ function = 1 /\ event = 1
        BY DEF Init, SourceInit
  <2>2. function \in 1..Len(AllFunctions) + 1
        BY <2>1, FunctionsOfTemplate
  <2>. QED BY <2>1, <2>2 DEF SourceInv, SourceTypes, Validated, Sending
<1>2. Chosen /\ SourceInv /\ [Next]_vars => SourceInv'
      BY SourceStep
<1>. QED BY <1>1, <1>2, ChosenInvariant, PTL DEF Spec

\* Whatever the template, deploy creates no function and no trigger before it has
\* found every event of every function valid, in all three providers.
THEOREM NothingSentUnvalidated == Spec => []ValidBeforeSent
<1>1. ASSUME Chosen, SourceInv
      PROVE  ValidBeforeSent
  <2> SUFFICES ASSUME dpc \in Sending, NEW f \in DOMAIN AllFunctions
               PROVE  /\ \A e \in ToSet(AllFunctions[f].events) : ~Invalid(e)
                      /\ Len(EventsOf(AllFunctions[f], "DuerOS")) <= 1
      BY DEF ValidBeforeSent, Sending
  <2>1. \A type \in {"BOS", "DuerOS", "HTTP"} : Verdict(type) = "valid"
    <3>1. \A q \in 1..3 : Verdict(Providers[q]) = "valid"
          BY <1>1 DEF SourceInv, Validated
    <3>2. 1 \in 1..3 /\ 2 \in 1..3 /\ 3 \in 1..3
          OBVIOUS
    <3>. QED BY <3>1, <3>2, ThreeProviders
  <2>2. ASSUME NEW e \in ToSet(AllFunctions[f].events), Invalid(e)
        PROVE  FALSE
    <3>1. e.type \in {"BOS", "HTTP"}
          BY <2>2 DEF Invalid
    <3>2. e \in ToSet(EventsOf(AllFunctions[f], e.type))
          BY <1>1, FunctionsOfTemplate, OfTypeHas DEF EventsOf
    <3>3. Verdict(e.type) = "user error"
          BY <2>2, <3>2 DEF Verdict
    <3>. QED BY <2>1, <3>1, <3>3
  <2>3. ~(Len(EventsOf(AllFunctions[f], "DuerOS")) > 1)
        BY <2>1 DEF Verdict
  <2>4. Len(EventsOf(AllFunctions[f], "DuerOS")) \in Nat
        BY <1>1, FunctionsOfTemplate, OfTypeHas, Lists DEF EventsOf
  <2>. QED BY <2>2, <2>3, <2>4
<1>. QED BY <1>1, ChosenInvariant, SourceInvariant, PTL
-----------------------------------------------------------------------------
(* The environment of a function *)

\* What invoke made of the function it was asked for.
SetUpRight(run) ==
  \E name : \E own :
    /\ \E i \in DOMAIN AllFunctions : AllFunctions[i].id = name
    /\ LET f == CHOOSE g \in {AllFunctions[i] : i \in DOMAIN AllFunctions} : g.id = name
       IN  run = Config(f, own, f.variables)

SetupInv ==
  /\ runs # <<>> => command = "invoke"
  /\ runs \in Seq({runs[i] : i \in DOMAIN runs}) /\ Len(runs) <= 1
  /\ \A i \in DOMAIN runs : SetUpRight(runs[i])

LEMMA SetupStep ==
  ASSUME SetupInv, [Next]_vars
  PROVE  SetupInv'
<1>1. CASE UNCHANGED <<command, resources, setupVars>>
  <2>1. UNCHANGED <<command, resources, setting, runs, AllFunctions>>
        BY <1>1 DEF setupVars, AllFunctions
  <2>2. \A run : SetUpRight(run)' = SetUpRight(run)
        BY <2>1 DEF SetUpRight, Config
  <2>. QED BY <2>1, <2>2 DEF SetupInv
<1>2. CASE Invoke
  <2>1. /\ command' = command /\ command = "invoke" /\ runs = <<>>
        /\ \E i \in DOMAIN AllFunctions : SetUp(AllFunctions[i].id)
        BY <1>2 DEF Invoke
  <2>2. PICK name : /\ \E i \in DOMAIN AllFunctions : AllFunctions[i].id = name
                    /\ SetUp(name)
        BY <2>1
  <2> DEFINE f == CHOOSE g \in {AllFunctions[i] : i \in DOMAIN AllFunctions} : g.id = name
             own == IF setting.debugging THEN MaxDebugTimeout ELSE f.timeout
             run == Config(f, own, f.variables)
  <2>3. runs' = Append(runs, run) /\ UNCHANGED <<resources, setting>>
        BY <2>2 DEF SetUp
  <2>4. SetUpRight(run)
        BY <2>2 DEF SetUpRight
  <2>5. PICK x : SetUpRight(x) /\ runs' = <<x>>
    <3> HIDE DEF run
    <3>1. runs' = <<run>>
          BY <2>1, <2>3
    <3>. QED BY <2>4, <3>1
  <2>6. SetUpRight(x)'
    <3>1. UNCHANGED <<AllFunctions, setting>>
          BY <2>3 DEF AllFunctions
    <3>2. \A y : SetUpRight(y)' = SetUpRight(y)
          BY <3>1 DEF SetUpRight, Config
    <3>. QED BY <2>5, <3>2
  <2>7. /\ Len(<<x>>) = 1 /\ DOMAIN <<x>> = {1} /\ <<x>>[1] = x
        /\ <<x>> \in Seq({<<x>>[i] : i \in DOMAIN <<x>>})
        OBVIOUS
  <2>8. /\ Len(runs') <= 1 /\ runs' \in Seq({runs'[i] : i \in DOMAIN runs'})
        /\ \A i \in DOMAIN runs' : runs'[i] = x
        BY <2>5, <2>7
  <2>9. \A i \in DOMAIN runs' : SetUpRight(runs[i])'
        BY <2>6, <2>8 DEF SetUpRight
  <2>. QED BY <2>1, <2>8, <2>9 DEF SetupInv
<1>3. StartApi \/ Deploy \/ UNCHANGED vars => UNCHANGED <<command, resources, setupVars>>
      BY DEF StartApi, RouteNext, CollectFunction, CollectApi, CollectNothing, Merge, Mount, Serve,
             Deploy, SourceNext, Enter, DeployFunction, CreateTrigger, NextProvider, vars
<1>. QED BY <1>1, <1>2, <1>3 DEF Next

LEMMA SetupInvariant == Spec => []SetupInv
<1>1. Init => SetupInv
      BY DEF Init, SetupInit, SetupInv
<1>. QED BY <1>1, SetupStep, PTL DEF Spec

\* Whatever the template, the --env-vars file, the shell and the credentials: a
\* function's environment has its own variables and the BCE ones and nothing
\* else, each with the most specific value.
THEOREM OwnEnvironmentOnly == Spec => []EnvironmentAsDeclared
<1>1. ASSUME Chosen, SetupInv, NEW i \in DOMAIN runs
      PROVE  LET f == CHOOSE g \in ToSet(AllFunctions) : g.id = runs[i].name
                 own == IF "Parameters" \in DOMAIN setting.file THEN "Parameters" ELSE f.id
                 env == runs[i].env
             IN  /\ DOMAIN env = DOMAIN f.variables \cup BceNames
                 /\ \A n \in DOMAIN f.variables :
                      LET inFile == own \in DOMAIN setting.file /\ n \in DOMAIN setting.file[own] IN
                      /\ inFile => env[n] = Stringify(setting.file[own][n])
                      /\ ~inFile /\ n \in DOMAIN setting.shell => env[n] = setting.shell[n]
                 /\ "_TIMEOUT" \notin DOMAIN f.variables => env["_TIMEOUT"] = String(runs[i].timeout)
  <2> DEFINE Functions == {AllFunctions[j] : j \in DOMAIN AllFunctions}
  <2>1. PICK name, chosen :
          /\ \E j \in DOMAIN AllFunctions : AllFunctions[j].id = name
          /\ LET f == CHOOSE g \in Functions : g.id = name
             IN  runs[i] = Config(f, chosen, f.variables)
        BY <1>1 DEF SetupInv, SetUpRight
  <2>2. ToSet(AllFunctions) = Functions
        BY DEF ToSet
  <2> DEFINE f == CHOOSE g \in Functions : g.id = name
             own == IF "Parameters" \in DOMAIN setting.file THEN "Parameters" ELSE f.id
             over == OverridesFor(setting.file, f.id)
             timeout == IF chosen = 0 THEN DefaultTimeout ELSE chosen
             bce == BceVariables(setting.keys, timeout)
             env == runs[i].env
  <2>3. f.id = name
        BY <2>1
  <2>4. /\ runs[i].name = f.id /\ runs[i].timeout = timeout
        /\ env = Resolve(f.variables, setting.shell, over, bce)
        BY <2>1 DEF Config
  <2>5. f = CHOOSE g \in ToSet(AllFunctions) : g.id = runs[i].name
        BY <2>2, <2>3, <2>4
  <2>6. over = IF own \in DOMAIN setting.file THEN setting.file[own] ELSE NoVariables
        BY DEF OverridesFor
  <2>7. DOMAIN NoVariables = {}
        BY DEF NoVariables
  <2>8. \A n \in DOMAIN setting.shell : setting.shell[n].kind = "text"
    <3>1. setting \in SettingChoices
          BY <1>1 DEF Chosen, SetupInv
    <3>. QED BY <3>1, TemplatesAssumption
  <2>9. DOMAIN bce = BceNames /\ bce["_TIMEOUT"] = String(timeout)
        BY DEF BceVariables, BceNames
  <2> HIDE DEF f, over, bce, timeout
  <2>10. /\ DOMAIN env = DOMAIN f.variables \cup BceNames
         /\ \A n \in DOMAIN f.variables :
              env[n] = Stringify(CASE n \in DOMAIN over -> over[n]
                                   [] n \in DOMAIN setting.shell /\ n \notin DOMAIN over -> setting.shell[n]
                                   [] OTHER -> f.variables[n])
         /\ \A n \in BceNames : n \notin DOMAIN f.variables => env[n] = bce[n]
         BY <2>4, <2>9 DEF Resolve, Over
  <2>11. ASSUME NEW n \in DOMAIN f.variables
         PROVE  LET inFile == own \in DOMAIN setting.file /\ n \in DOMAIN setting.file[own] IN
                /\ inFile => env[n] = Stringify(setting.file[own][n])
                /\ ~inFile /\ n \in DOMAIN setting.shell => env[n] = setting.shell[n]
    <3>1. CASE own \in DOMAIN setting.file /\ n \in DOMAIN setting.file[own]
      <4>1. n \in DOMAIN over /\ over[n] = setting.file[own][n]
            BY <2>6, <3>1
      <4>2. env[n] = Stringify(over[n])
            BY <2>10, <4>1
      <4>. QED BY <3>1, <4>1, <4>2
    <3>2. CASE ~(own \in DOMAIN setting.file /\ n \in DOMAIN setting.file[own])
      <4>1. n \notin DOMAIN over
            BY <2>6, <2>7, <3>2
      <4>2. n \in DOMAIN setting.shell => env[n] = Stringify(setting.shell[n])
            BY <2>10, <4>1
      <4>3. n \in DOMAIN setting.shell => Stringify(setting.shell[n]) = setting.shell[n]
            BY <2>8 DEF Stringify
      <4>. QED BY <3>2, <4>2, <4>3
    <3>. QED BY <3>1, <3>2
  <2>12. "_TIMEOUT" \notin DOMAIN f.variables => env["_TIMEOUT"] = String(runs[i].timeout)
         BY <2>4, <2>9, <2>10 DEF BceNames
  <2> HIDE DEF own, env
  <2>13. /\ DOMAIN env = DOMAIN f.variables \cup BceNames
         /\ \A n \in DOMAIN f.variables :
              LET inFile == own \in DOMAIN setting.file /\ n \in DOMAIN setting.file[own] IN
              /\ inFile => env[n] = Stringify(setting.file[own][n])
              /\ ~inFile /\ n \in DOMAIN setting.shell => env[n] = setting.shell[n]
         /\ "_TIMEOUT" \notin DOMAIN f.variables => env["_TIMEOUT"] = String(runs[i].timeout)
         BY <2>10, <2>11, <2>12
  <2>. QED BY <2>5, <2>13 DEF own, env
<1>2. Chosen /\ SetupInv => EnvironmentAsDeclared
      BY <1>1 DEF EnvironmentAsDeclared
<1>. QED BY <1>2, ChosenInvariant, SetupInvariant, PTL
-----------------------------------------------------------------------------
(* Lists of APIs in the collector *)

LEMMA FunctionIsList ==
  ASSUME NEW n \in Nat, NEW f, f = [i \in 1..n |-> f[i]]
  PROVE  IsList(f) /\ Len(f) = n
<1>1. DOMAIN f = 1..n
      BY Zenon
<1>2. \A i \in 1..n : f[i] \in ToSet(f)
      BY <1>1 DEF ToSet
<1>3. f \in [1..n -> ToSet(f)]
      BY <1>1, <1>2
<1>. QED BY <1>3 DEF IsList

LEMMA ListAppend ==
  ASSUME NEW s, IsList(s), NEW x
  PROVE  /\ IsList(Append(s, x)) /\ Len(Append(s, x)) = Len(s) + 1
         /\ \A i \in 1..Len(s) : Append(s, x)[i] = s[i]
         /\ Append(s, x)[Len(s) + 1] = x
<1> DEFINE S == ToSet(s) \cup {x}
           t == Append(s, x)
<1>1. s \in Seq(S) /\ x \in S /\ Len(s) \in Nat
  <2>1. s \in Seq(ToSet(s)) /\ Len(s) \in Nat
        BY Lists
  <2>2. s \in Seq(S)
        BY <2>1, Lists
  <2>. QED BY <2>1, <2>2
<1>2. /\ t \in Seq(S) /\ Len(t) = Len(s) + 1
      /\ \A i \in 1..Len(s) : t[i] = s[i]
      /\ t[Len(s) + 1] = x
  <2> HIDE DEF S
  <2>. QED BY <1>1
<1> HIDE DEF t
<1>3. IsList(t)
  <2> HIDE DEF S
  <2>1. t = [i \in 1..Len(t) |-> t[i]] /\ Len(t) \in Nat
        BY <1>1, <1>2
  <2>. QED BY <2>1, FunctionIsList
<1>. QED BY <1>2, <1>3 DEF t

LEMMA ListConcat ==
  ASSUME NEW u, IsList(u), NEW v, IsList(v)
  PROVE  IsList(u \o v) /\ ToSet(u \o v) = ToSet(u) \cup ToSet(v)
<1> DEFINE S == ToSet(u) \cup ToSet(v)
<1>1. u \in Seq(S) /\ v \in Seq(S)
      BY Lists
<1>2. u \o v \in Seq(S) /\ ToSet(u \o v) = S
  <2> HIDE DEF S
  <2>1. u \o v \in Seq(S) /\ ToSet(u \o v) = ToSet(u) \cup ToSet(v)
        BY <1>1, ToSetConcat
  <2>. QED BY <2>1 DEF S
<1>. QED BY <1>2 DEF IsList

\* One entry for each id, with its APIs in a list.
Tidy(c) ==
  /\ IsList(c)
  /\ \A i \in DOMAIN c : IsList(c[i].apis)
  /\ \A i, j \in DOMAIN c : c[i].id = c[j].id => i = j

\* The claims and the media types that a collector holds.
Held(c) ==
  UNION {{[path |-> a.path, method |-> a.method, function |-> a.function, owner |-> c[i].id] :
             a \in ToSet(c[i].apis)} : i \in DOMAIN c}
MediaIn(c, id) == UNION {c[i].media : i \in {j \in DOMAIN c : c[j].id = id}}

ClaimsOn(id, found) ==
  {[path |-> a.path, method |-> a.method, function |-> a.function, owner |-> id] : a \in ToSet(found)}

LEMMA AddHolds ==
  ASSUME NEW c, Tidy(c), NEW id, NEW found, IsList(found), NEW media
  PROVE  /\ Tidy(Add(c, id, found, media))
         /\ Held(Add(c, id, found, media)) = Held(c) \cup ClaimsOn(id, found)
         /\ \A x : MediaIn(Add(c, id, found, media), x) =
                     MediaIn(c, x) \cup (IF x = id THEN Canonical(media) ELSE {})
<1> DEFINE d == Add(c, id, found, media)
           M == Canonical(media)
<1>1. DOMAIN c = 1..Len(c) /\ Len(c) \in Nat
      BY Lists DEF Tidy
<1>2. CASE \E k \in DOMAIN c : c[k].id = id
  <2>1. PICK k \in DOMAIN c : c[k].id = id
        BY <1>2
  <2>2. \A i \in DOMAIN c : c[i].id = id <=> i = k
        BY <2>1 DEF Tidy
  <2>3. d = [i \in DOMAIN c |->
               IF c[i].id = id
               THEN [id |-> id, apis |-> c[i].apis \o found, media |-> c[i].media \cup M] ELSE c[i]]
        BY <1>2 DEF Add
  <2> DEFINE e == [id |-> id, apis |-> c[k].apis \o found, media |-> c[k].media \cup M]
  <2>4. DOMAIN d = DOMAIN c /\ d[k] = e /\ \A i \in DOMAIN c : i # k => d[i] = c[i]
    <3> HIDE DEF d
    <3>. QED BY <2>1, <2>2, <2>3
  <2>6. IsList(c[k].apis \o found) /\ ToSet(c[k].apis \o found) = ToSet(c[k].apis) \cup ToSet(found)
        BY <2>1, ListConcat DEF Tidy
  <2>7. e.id = id /\ e.apis = c[k].apis \o found /\ e.media = c[k].media \cup M
        OBVIOUS
  <2>8. \A i \in DOMAIN c : d[i].id = c[i].id
        BY <2>1, <2>4, <2>7
  <2>9. IsList(d)
    <3>1. d = [i \in 1..Len(c) |-> d[i]]
      <4> HIDE DEF d
      <4>. QED BY <1>1, <2>3, <2>4
    <3> HIDE DEF d
    <3>. QED BY <1>1, <3>1, FunctionIsList
  <2> HIDE DEF d, e, M
  <2>10. Tidy(d)
    <3>1. \A i \in DOMAIN d : IsList(d[i].apis)
          BY <2>4, <2>6, <2>7 DEF Tidy
    <3>2. \A i, j \in DOMAIN d : d[i].id = d[j].id => i = j
          BY <2>4, <2>8 DEF Tidy
    <3>. QED BY <2>9, <3>1, <3>2 DEF Tidy
  <2>11. Held(d) = Held(c) \cup ClaimsOn(id, found)
    <3> DEFINE Of(x) == {[path |-> a.path, method |-> a.method, function |-> a.function, owner |-> x.id] :
                           a \in ToSet(x.apis)}
    <3>1. Held(c) = UNION {Of(c[i]) : i \in DOMAIN c} /\ Held(d) = UNION {Of(d[i]) : i \in DOMAIN d}
          BY DEF Held
    <3>2. Of(d[k]) = Of(c[k]) \cup ClaimsOn(id, found)
          BY <2>1, <2>4, <2>6, <2>7 DEF ClaimsOn
    <3>3. \A i \in DOMAIN c : i # k => Of(d[i]) = Of(c[i])
          BY <2>4
    <3> HIDE DEF Of
    <3>. QED BY <2>1, <2>4, <3>1, <3>2, <3>3
  <2>12. ASSUME NEW x
         PROVE  MediaIn(d, x) = MediaIn(c, x) \cup (IF x = id THEN M ELSE {})
    <3>1. CASE x = id
      <4>1. {j \in DOMAIN c : c[j].id = x} = {k} /\ {j \in DOMAIN d : d[j].id = x} = {k}
            BY <2>1, <2>2, <2>4, <2>8, <3>1
      <4>2. MediaIn(d, x) = d[k].media /\ MediaIn(c, x) = c[k].media
            BY <4>1 DEF MediaIn
      <4>. QED BY <2>4, <2>7, <3>1, <4>2
    <3>2. CASE x # id
      <4>1. {j \in DOMAIN c : c[j].id = x} = {j \in DOMAIN d : d[j].id = x}
            BY <2>4, <2>8
      <4>2. \A j \in DOMAIN c : c[j].id = x => d[j].media = c[j].media
            BY <2>1, <2>4, <3>2
      <4>3. MediaIn(d, x) = MediaIn(c, x)
            BY <4>1, <4>2 DEF MediaIn
      <4>. QED BY <3>2, <4>3
    <3>. QED BY <3>1, <3>2
  <2>. QED BY <2>10, <2>11, <2>12 DEF d, M
<1>3. CASE ~\E k \in DOMAIN c : c[k].id = id
  <2> DEFINE e == [id |-> id, apis |-> found, media |-> M]
             n == Len(c) + 1
  <2>1. d = Append(c, e)
        BY <1>3 DEF Add
  <2>2. /\ IsList(d) /\ Len(d) = n
        /\ \A i \in 1..Len(c) : d[i] = c[i]
        /\ d[n] = e
    <3> HIDE DEF d, e
    <3>. QED BY <2>1, ListAppend DEF Tidy
  <2>3. e.id = id /\ e.apis = found /\ e.media = M
        OBVIOUS
  <2> HIDE DEF d, e, M
  <2>4. /\ DOMAIN d = DOMAIN c \cup {n} /\ n \notin DOMAIN c
        /\ \A i \in DOMAIN c : d[i] = c[i]
    <3>1. DOMAIN d = 1..n
          BY <2>2, Lists
    <3>2. 1..n = 1..Len(c) \cup {n} /\ n \notin 1..Len(c)
          BY <1>1
    <3>. QED BY <1>1, <2>2, <3>1, <3>2
  <2> HIDE DEF n
  <2>5. Tidy(d)
    <3>1. \A i \in DOMAIN d : IsList(d[i].apis)
          BY <2>2, <2>3, <2>4 DEF Tidy
    <3>2. \A i, j \in DOMAIN d : d[i].id = d[j].id => i = j
          BY <1>3, <2>2, <2>3, <2>4 DEF Tidy
    <3>. QED BY <2>2, <3>1, <3>2 DEF Tidy
  <2>6. Held(d) = Held(c) \cup ClaimsOn(id, found)
    <3> DEFINE Of(x) == {[path |-> a.path, method |-> a.method, function |-> a.function, owner |-> x.id] :
                           a \in ToSet(x.apis)}
    <3>1. Held(c) = UNION {Of(c[i]) : i \in DOMAIN c} /\ Held(d) = UNION {Of(d[i]) : i \in DOMAIN d}
          BY DEF Held
    <3>2. Of(d[n]) = ClaimsOn(id, found)
          BY <2>2, <2>3 DEF ClaimsOn
    <3>3. \A i \in DOMAIN c : Of(d[i]) = Of(c[i])
          BY <2>4
    <3> HIDE DEF Of
    <3>. QED BY <2>4, <3>1, <3>2, <3>3
  <2>7. ASSUME NEW x
        PROVE  MediaIn(d, x) = MediaIn(c, x) \cup (IF x = id THEN M ELSE {})
    <3>1. CASE x = id
      <4>1. {j \in DOMAIN c : c[j].id = x} = {} /\ {j \in DOMAIN d : d[j].id = x} = {n}
            BY <1>3, <2>2, <2>3, <2>4, <3>1
      <4>2. MediaIn(d, x) = d[n].media /\ MediaIn(c, x) = {}
            BY <4>1 DEF MediaIn
      <4>. QED BY <2>2, <2>3, <3>1, <4>2
    <3>2. CASE x # id
      <4>1. {j \in DOMAIN c : c[j].id = x} = {j \in DOMAIN d : d[j].id = x}
            BY <2>2, <2>3, <2>4, <3>2
      <4>2. \A j \in DOMAIN c : d[j].media = c[j].media
            BY <2>4
      <4>3. MediaIn(d, x) = MediaIn(c, x)
            BY <4>1, <4>2 DEF MediaIn
      <4>. QED BY <3>2, <4>3
    <3>. QED BY <3>1, <3>2
  <2>. QED BY <2>5, <2>6, <2>7 DEF d, M
<1>. QED BY <1>2, <1>3
LEMMA Singleton ==
  ASSUME NEW x
  PROVE  IsList(<<x>>) /\ ToSet(<<x>>) = {x}
<1>1. DOMAIN <<x>> = {1} /\ <<x>>[1] = x
      OBVIOUS
<1>2. ToSet(<<x>>) = {x}
      BY <1>1 DEF ToSet
<1>3. <<x>> \in Seq({x})
      OBVIOUS
<1>. QED BY <1>2, <1>3 DEF IsList

ClaimOf(id, e) == [path |-> e.path, method |-> e.method, function |-> id, owner |-> Owner(e)]

LEMMA AddEventHolds ==
  ASSUME NEW c, Tidy(c), NEW id, NEW e
  PROVE  /\ Tidy(AddEvent(id, c, e))
         /\ Held(AddEvent(id, c, e)) = Held(c) \cup {ClaimOf(id, e)}
         /\ \A x : MediaIn(AddEvent(id, c, e), x) = MediaIn(c, x)
<1> DEFINE a == [path |-> e.path, method |-> e.method, function |-> id]
<1>1. IsList(<<a>>) /\ ToSet(<<a>>) = {a}
      BY Singleton
<1>2. ClaimsOn(Owner(e), <<a>>) = {ClaimOf(id, e)}
  <2>1. a.path = e.path /\ a.method = e.method /\ a.function = id
        OBVIOUS
  <2> HIDE DEF a
  <2>. QED BY <1>1, <2>1 DEF ClaimsOn, ClaimOf
<1>3. Canonical({}) = {}
      BY DEF Canonical
<1>4. AddEvent(id, c, e) = Add(c, Owner(e), <<a>>, {})
      BY DEF AddEvent
<1> HIDE DEF a
<1>5. /\ Tidy(Add(c, Owner(e), <<a>>, {}))
      /\ Held(Add(c, Owner(e), <<a>>, {})) = Held(c) \cup ClaimsOn(Owner(e), <<a>>)
      /\ \A x : MediaIn(Add(c, Owner(e), <<a>>, {}), x) =
                  MediaIn(c, x) \cup (IF x = Owner(e) THEN Canonical({}) ELSE {})
      BY <1>1, AddHolds
<1>. QED BY <1>2, <1>3, <1>4, <1>5

\* after has the collector after the first events.
Adds(after, id, c, events) ==
  after = [n \in 0..Len(events) |->
             IF n = 0 THEN c ELSE AddEvent(id, after[n - 1], events[n])]

LEMMA AddsExists ==
  ASSUME NEW c, NEW id, NEW events, Len(events) \in Nat
  PROVE  \E after : Adds(after, id, c, events)
<1> DEFINE Round(g, n) == IF n = 0 THEN c ELSE AddEvent(id, g[n - 1], events[n])
           T == {k \in Nat : \E f : f = [n \in 0..k |-> Round(f, n)]}
<1>1. 0 \in T
  <2>1. [n \in 0..0 |-> c] = [n \in 0..0 |-> Round([m \in 0..0 |-> c], n)]
        OBVIOUS
  <2>. QED BY <2>1
<1>2. ASSUME NEW k \in Nat, k \in T
      PROVE  k + 1 \in T
  <2>1. PICK f : f = [n \in 0..k |-> Round(f, n)]
        BY <1>2
  <2> DEFINE g == [n \in 0..k + 1 |-> IF n = k + 1 THEN Round(f, n) ELSE f[n]]
  <2>2. ASSUME NEW n \in 0..k + 1
        PROVE  g[n] = Round(g, n)
    <3>1. CASE n = 0
          BY <2>1, <3>1
    <3>2. CASE n # 0
      <4>1. n - 1 \in 0..k + 1 /\ n - 1 # k + 1 /\ g[n - 1] = f[n - 1]
            BY <3>2
      <4>2. Round(g, n) = Round(f, n)
            BY <4>1
      <4>3. g[n] = Round(f, n)
        <5>1. CASE n = k + 1
              BY <5>1
        <5>2. CASE n \in 0..k
              BY <2>1, <5>2
        <5>. QED BY <5>1, <5>2
      <4>. QED BY <4>2, <4>3
    <3>. QED BY <3>1, <3>2
  <2>3. g = [n \in 0..k + 1 |-> Round(g, n)]
        BY <2>2
  <2> HIDE DEF g
  <2>. QED BY <2>3
<1>3. Len(events) \in T
  <2> HIDE DEF T
  <2>. QED BY <1>1, <1>2, SetInduction
<1>. QED BY <1>3 DEF Adds

LEMMA AddEventsHolds ==
  ASSUME NEW c, Tidy(c), NEW id, NEW events, IsList(events)
  PROVE  /\ Tidy(AddEvents(id, c, events))
         /\ Held(AddEvents(id, c, events)) = Held(c) \cup {ClaimOf(id, e) : e \in ToSet(events)}
         /\ \A x : MediaIn(AddEvents(id, c, events), x) = MediaIn(c, x)
<1> DEFINE after == CHOOSE f : Adds(f, id, c, events)
           k == Len(events)
<1>1. k \in Nat /\ ToSet(events) = {events[i] : i \in 1..k}
      BY Lists DEF ToSet
<1>2. Adds(after, id, c, events)
      BY <1>1, AddsExists
<1>3. AddEvents(id, c, events) = after[k]
      BY Zenon DEF AddEvents, Adds
<1> HIDE DEF after
<1>4. \A n \in 0..k : after[n] = IF n = 0 THEN c ELSE AddEvent(id, after[n - 1], events[n])
  <2>1. after = [n \in 0..k |-> IF n = 0 THEN c ELSE AddEvent(id, after[n - 1], events[n])]
        BY <1>2 DEF Adds
  <2>. QED BY <2>1
<1> DEFINE Good(d, n) == /\ Tidy(d)
                         /\ Held(d) = Held(c) \cup {ClaimOf(id, events[i]) : i \in 1..n}
                         /\ \A x : MediaIn(d, x) = MediaIn(c, x)
           T == {n \in Nat : n <= k => Good(after[n], n)}
<1>5. 0 \in T
  <2>1. after[0] = c
        BY <1>1, <1>4
  <2>2. 1..0 = {}
        OBVIOUS
  <2>3. Good(c, 0)
        BY <2>2
  <2>. QED BY <2>1, <2>3
<1>6. ASSUME NEW n \in Nat, n \in T
      PROVE  n + 1 \in T
  <2> SUFFICES ASSUME n + 1 <= k PROVE Good(after[n + 1], n + 1)
      OBVIOUS
  <2>1. n <= k /\ n + 1 \in 0..k /\ n + 1 # 0 /\ n + 1 - 1 = n
        BY <1>1
  <2>2. Good(after[n], n)
        BY <1>6, <2>1
  <2>3. after[n + 1] = AddEvent(id, after[n], events[n + 1])
        BY <1>4, <2>1
  <2> DEFINE d == after[n]
             e == events[n + 1]
  <2>4. /\ Tidy(AddEvent(id, d, e))
        /\ Held(AddEvent(id, d, e)) = Held(d) \cup {ClaimOf(id, e)}
        /\ \A x : MediaIn(AddEvent(id, d, e), x) = MediaIn(d, x)
    <3>1. Tidy(d)
          BY <2>2
    <3> HIDE DEF d, e
    <3>. QED BY <3>1, AddEventHolds
  <2>5. {ClaimOf(id, events[i]) : i \in 1..n + 1} =
          {ClaimOf(id, events[i]) : i \in 1..n} \cup {ClaimOf(id, e)}
    <3>1. 1..n + 1 = 1..n \cup {n + 1}
          OBVIOUS
    <3>. QED BY <3>1
  <2>6. Good(AddEvent(id, d, e), n + 1)
    <3> HIDE DEF e
    <3>. QED BY <2>2, <2>4, <2>5
  <2> HIDE DEF Good
  <2>. QED BY <2>3, <2>6
<1>7. k \in T
  <2> HIDE DEF T
  <2>. QED BY <1>1, <1>5, <1>6, SetInduction
<1>8. Good(after[k], k)
      BY <1>1, <1>7
<1>9. {ClaimOf(id, events[i]) : i \in 1..k} = {ClaimOf(id, e) : e \in ToSet(events)}
      BY <1>1
<1>. QED BY <1>3, <1>8, <1>9
-----------------------------------------------------------------------------
(* start-api collects what the template declares *)

\* What one resource declares.
ClaimsBy(r) ==
  IF r.type = AwsFunction THEN {ClaimOf(r.id, e) : e \in EventApis(r)}
  ELSE IF r.type = AwsApi /\ HasDoc(r) THEN ClaimsOn(r.id, SwaggerApis(DocOf(r))) ELSE {}
MediaBy(r, id) ==
  IF r.type = AwsApi /\ HasDoc(r) /\ r.id = id THEN Canonical(DocOf(r).media \cup r.media) ELSE {}

\* What the first n resources declare.
ClaimsTo(n) == UNION {ClaimsBy(resources[i]) : i \in 1..n}
MediaTo(n, id) == UNION {MediaBy(resources[i], id) : i \in 1..n}

\* The media types of the API resources that the provider reads.
ReadMediaOf(id) ==
  UNION {Canonical(DocOf(r).media \cup r.media) :
           r \in {x \in ResourcesOf(AwsApi) : x.id = id /\ HasDoc(x)}}

LEMMA ReadMedia ==
  ASSUME NEW id
  PROVE  /\ ReadMediaOf(id) \subseteq MediaOf(id)
         /\ WithoutDoc(id) \/ ReadMediaOf(id) = MediaOf(id)
<1> DEFINE Own == {x \in ResourcesOf(AwsApi) : x.id = id}
           Types(r) == Canonical(r.media \cup (IF HasDoc(r) THEN DocOf(r).media ELSE {}))
<1>1. MediaOf(id) = UNION {Types(r) : r \in Own}
      BY DEF MediaOf, AwsApi
<1>2. \A r \in Own : HasDoc(r) => Canonical(DocOf(r).media \cup r.media) = Types(r)
  <2>1. \A r : DocOf(r).media \cup r.media = r.media \cup DocOf(r).media
        OBVIOUS
  <2>. QED BY <2>1
<1>3. ReadMediaOf(id) = UNION {Types(r) : r \in {x \in Own : HasDoc(x)}}
  <2>1. {x \in ResourcesOf(AwsApi) : x.id = id /\ HasDoc(x)} = {x \in Own : HasDoc(x)}
        OBVIOUS
  <2>. QED BY <1>2, <2>1 DEF ReadMediaOf
<1>4. WithoutDoc(id) \/ {x \in Own : HasDoc(x)} = Own
      BY DEF WithoutDoc, AwsApi
<1> HIDE DEF Types, Own
<1>. QED BY <1>1, <1>3, <1>4

LEMMA ClaimsToAll ==
  ASSUME IsList(resources)
  PROVE  ClaimsTo(Len(resources)) = Claims /\ \A id : MediaTo(Len(resources), id) = ReadMediaOf(id)
<1>1. ToSet(resources) = {resources[i] : i \in 1..Len(resources)}
      BY Lists DEF ToSet
<1>2. AwsFunction # AwsApi
      BY DEF AwsFunction, AwsApi
<1>3. ClaimsTo(Len(resources)) = UNION {ClaimsBy(r) : r \in ToSet(resources)}
      BY <1>1 DEF ClaimsTo
<1>4. Claims =
        (UNION {ClaimsBy(r) : r \in ResourcesOf(AwsFunction)})
          \cup (UNION {ClaimsBy(r) : r \in {x \in ResourcesOf(AwsApi) : HasDoc(x)}})
  <2>1. \A r \in ResourcesOf(AwsFunction) : ClaimsBy(r) =
          {[path |-> e.path, method |-> e.method, function |-> r.id, owner |-> Owner(e)] :
             e \in EventApis(r)}
        BY DEF ClaimsBy, ResourcesOf, ClaimOf
  <2>2. \A r \in {x \in ResourcesOf(AwsApi) : HasDoc(x)} : ClaimsBy(r) =
          {[path |-> a.path, method |-> a.method, function |-> a.function, owner |-> r.id] :
             a \in ToSet(SwaggerApis(DocOf(r)))}
        BY <1>2 DEF ClaimsBy, ResourcesOf, ClaimsOn
  <2>. QED BY <2>1, <2>2 DEF Claims, AwsFunction, AwsApi
<1>5. \A r \in ToSet(resources) :
        \/ r \in ResourcesOf(AwsFunction) \/ r \in {x \in ResourcesOf(AwsApi) : HasDoc(x)}
        \/ ClaimsBy(r) = {}
      BY DEF ClaimsBy, ResourcesOf
<1>6. ResourcesOf(AwsFunction) \subseteq ToSet(resources) /\ ResourcesOf(AwsApi) \subseteq ToSet(resources)
      BY DEF ResourcesOf
<1>7. ClaimsTo(Len(resources)) = Claims
  <2> DEFINE A == ResourcesOf(AwsFunction)
             B == {x \in ResourcesOf(AwsApi) : HasDoc(x)}
  <2>1. A \subseteq ToSet(resources) /\ B \subseteq ToSet(resources)
        BY <1>6
  <2>2. \A r \in ToSet(resources) : r \in A \/ r \in B \/ ClaimsBy(r) = {}
        BY <1>5
  <2>3. Claims = (UNION {ClaimsBy(r) : r \in A}) \cup (UNION {ClaimsBy(r) : r \in B})
        BY <1>4
  <2> HIDE DEF A, B
  <2>4. UNION {ClaimsBy(r) : r \in A} \subseteq UNION {ClaimsBy(r) : r \in ToSet(resources)}
        BY <2>1
  <2>5. UNION {ClaimsBy(r) : r \in B} \subseteq UNION {ClaimsBy(r) : r \in ToSet(resources)}
        BY <2>1
  <2>6. ASSUME NEW c \in UNION {ClaimsBy(r) : r \in ToSet(resources)} PROVE c \in Claims
    <3>1. PICK r \in ToSet(resources) : c \in ClaimsBy(r)
          BY <2>6
    <3>2. c \in UNION {ClaimsBy(x) : x \in A} \/ c \in UNION {ClaimsBy(x) : x \in B}
          BY <2>2, <3>1
    <3>. QED BY <2>3, <3>2
  <2>7. ClaimsTo(Len(resources)) \subseteq Claims
        BY <1>3, <2>6
  <2>8. Claims \subseteq ClaimsTo(Len(resources))
        BY <1>3, <2>3, <2>4, <2>5
  <2>. QED BY <2>7, <2>8
<1>8. ASSUME NEW id
      PROVE  MediaTo(Len(resources), id) = ReadMediaOf(id)
  <2> DEFINE Own == {x \in ResourcesOf(AwsApi) : x.id = id /\ HasDoc(x)}
  <2>1. MediaTo(Len(resources), id) = UNION {MediaBy(r, id) : r \in ToSet(resources)}
        BY <1>1 DEF MediaTo
  <2>2. \A r \in ToSet(resources) : r \in Own \/ MediaBy(r, id) = {}
        BY DEF MediaBy, ResourcesOf
  <2>3. \A r \in Own : MediaBy(r, id) = Canonical(DocOf(r).media \cup r.media) /\ r \in ToSet(resources)
        BY DEF MediaBy, ResourcesOf
  <2>4. ReadMediaOf(id) = UNION {Canonical(DocOf(r).media \cup r.media) : r \in Own}
        BY DEF ReadMediaOf, AwsApi
  <2> HIDE DEF Own
  <2>5. ReadMediaOf(id) = UNION {MediaBy(r, id) : r \in Own}
        BY <2>3, <2>4
  <2>6. UNION {MediaBy(r, id) : r \in Own} \subseteq UNION {MediaBy(r, id) : r \in ToSet(resources)}
        BY <2>3
  <2>7. ASSUME NEW m \in UNION {MediaBy(r, id) : r \in ToSet(resources)}
        PROVE  m \in UNION {MediaBy(r, id) : r \in Own}
    <3>1. PICK r \in ToSet(resources) : m \in MediaBy(r, id)
          BY <2>7
    <3>. QED BY <2>2, <3>1
  <2>. QED BY <2>1, <2>5, <2>6, <2>7
<1>. QED BY <1>7, <1>8

\* The APIs that a document integrates, by the paths it has.
LEMMA SwaggerApisAre ==
  ASSUME NEW doc, IsList(doc.paths)
  PROVE  /\ IsList(SwaggerApis(doc))
         /\ \A a \in ToSet(SwaggerApis(doc)) : \E i \in DOMAIN doc.paths : a.path = doc.paths[i].path
<1> DEFINE S == {[path |-> doc.paths[i].path, function |-> Integrated(doc.paths[i].integration),
                  method |-> IF doc.paths[i].method = "any-method" THEN "ANY" ELSE doc.paths[i].method] :
                   i \in DOMAIN doc.paths}
           ss == [i \in DOMAIN doc.paths |->
                    IF Integrated(doc.paths[i].integration) = NoFunction THEN <<>>
                    ELSE << [path |-> doc.paths[i].path, function |-> Integrated(doc.paths[i].integration),
                             method |-> IF doc.paths[i].method = "any-method" THEN "ANY"
                                        ELSE doc.paths[i].method] >>]
<1>1. SwaggerApis(doc) = FlattenSeq(ss)
      BY DEF SwaggerApis
<1>2. \A i \in DOMAIN doc.paths : ss[i] \in Seq(S)
  <2> SUFFICES ASSUME NEW i \in DOMAIN doc.paths PROVE ss[i] \in Seq(S)
      OBVIOUS
  <2> DEFINE a == [path |-> doc.paths[i].path, function |-> Integrated(doc.paths[i].integration),
                   method |-> IF doc.paths[i].method = "any-method" THEN "ANY" ELSE doc.paths[i].method]
  <2>1. a \in S
        OBVIOUS
  <2>2. ss[i] = <<>> \/ ss[i] = <<a>>
        OBVIOUS
  <2> HIDE DEF ss, S, a
  <2>3. <<>> \in Seq(S) /\ <<a>> \in Seq(S)
        BY <2>1
  <2>. QED BY <2>2, <2>3
<1>3. ss \in Seq(Seq(S))
  <2>1. DOMAIN doc.paths = 1..Len(doc.paths) /\ Len(doc.paths) \in Nat
        BY Lists
  <2>2. ss = [i \in 1..Len(doc.paths) |-> ss[i]]
        BY <2>1
  <2> HIDE DEF ss, S
  <2>. QED BY <1>2, <2>1, <2>2
<1>4. \A a \in S : \E i \in DOMAIN doc.paths : a.path = doc.paths[i].path
      OBVIOUS
<1> HIDE DEF ss, S
<1>5. FlattenSeq(ss) \in Seq(S)
      BY <1>3, FlattenSeqHas
<1>6. IsList(FlattenSeq(ss)) /\ ToSet(FlattenSeq(ss)) \subseteq S
  <2> DEFINE flat == FlattenSeq(ss)
  <2> HIDE DEF flat
  <2>1. flat \in Seq(S)
        BY <1>5 DEF flat
  <2>2. flat \in Seq(ToSet(flat)) /\ ToSet(flat) \subseteq S
        BY <2>1 DEF ToSet
  <2>. QED BY <2>2 DEF flat, IsList
<1>. QED BY <1>1, <1>4, <1>6

\* Every path is one that the template has.
LEMMA ApisAreShaped ==
  ASSUME Chosen
  PROVE  /\ \A c \in Claims : c.path \in TemplatePaths
         /\ \A id : ReadMediaOf(id) \subseteq STRING
         /\ \A r \in ResourcesOf(AwsApi) : HasDoc(r) => IsList(SwaggerApis(DocOf(r)))
<1>1. ASSUME NEW r \in ResourcesOf(AwsFunction), NEW e \in EventApis(r)
      PROVE  e.path \in TemplatePaths
  <2>1. PICK i \in DOMAIN resources : r = resources[i]
        BY DEF ResourcesOf, ToSet
  <2>2. PICK j \in DOMAIN r.events : e = r.events[j]
        BY DEF EventApis, ToSet
  <2>. QED BY <2>1, <2>2, TemplatesAssumption DEF Chosen, ResourcesOf, AwsFunction, EventApis
<1>2. ASSUME NEW r \in ResourcesOf(AwsApi), HasDoc(r)
      PROVE  /\ r.media \subseteq MediaTypes /\ DocOf(r).media \subseteq MediaTypes
             /\ IsList(DocOf(r).paths)
             /\ \A k \in DOMAIN DocOf(r).paths : DocOf(r).paths[k].path \in TemplatePaths
  <2>1. PICK i \in DOMAIN resources : r = resources[i]
        BY DEF ResourcesOf, ToSet
  <2>. QED BY <1>2, <2>1, TemplatesAssumption DEF Chosen, ResourcesOf, AwsApi, HasDoc, DocOf
<1>3. ASSUME NEW r \in ResourcesOf(AwsApi), HasDoc(r)
      PROVE  /\ IsList(SwaggerApis(DocOf(r)))
             /\ \A a \in ToSet(SwaggerApis(DocOf(r))) : a.path \in TemplatePaths
  <2> DEFINE doc == DocOf(r)
  <2>1. /\ IsList(doc.paths)
        /\ \A k \in DOMAIN doc.paths : doc.paths[k].path \in TemplatePaths
        BY <1>2, <1>3
  <2> HIDE DEF doc
  <2>2. /\ IsList(SwaggerApis(doc))
        /\ \A a \in ToSet(SwaggerApis(doc)) : \E i \in DOMAIN doc.paths : a.path = doc.paths[i].path
        BY <2>1, SwaggerApisAre
  <2>3. \A a \in ToSet(SwaggerApis(doc)) : a.path \in TemplatePaths
        BY <2>1, <2>2
  <2>. QED BY <2>2, <2>3 DEF doc
<1>4. ASSUME NEW c \in Claims
      PROVE  c.path \in TemplatePaths
  <2>1. \/ \E r \in ResourcesOf(AwsFunction) : \E e \in EventApis(r) :
             c = [path |-> e.path, method |-> e.method, function |-> r.id, owner |-> Owner(e)]
        \/ \E r \in {x \in ResourcesOf(AwsApi) : HasDoc(x)} : \E a \in ToSet(SwaggerApis(DocOf(r))) :
             c = [path |-> a.path, method |-> a.method, function |-> a.function, owner |-> r.id]
    <3> DEFINE F(r) == {[path |-> e.path, method |-> e.method, function |-> r.id, owner |-> Owner(e)] :
                          e \in EventApis(r)}
               G(r) == {[path |-> a.path, method |-> a.method, function |-> a.function, owner |-> r.id] :
                          a \in ToSet(SwaggerApis(DocOf(r)))}
    <3>1. Claims = (UNION {F(r) : r \in ResourcesOf(AwsFunction)})
                     \cup (UNION {G(r) : r \in {x \in ResourcesOf(AwsApi) : HasDoc(x)}})
          BY DEF Claims, AwsFunction, AwsApi
    <3>2. (\E r \in ResourcesOf(AwsFunction) : c \in F(r))
            \/ (\E r \in {x \in ResourcesOf(AwsApi) : HasDoc(x)} : c \in G(r))
      <4> HIDE DEF F, G
      <4>. QED BY <1>4, <3>1
    <3>. QED BY <3>2
  <2>2. CASE \E r \in ResourcesOf(AwsFunction) : \E e \in EventApis(r) :
               c = [path |-> e.path, method |-> e.method, function |-> r.id, owner |-> Owner(e)]
    <3>1. PICK r \in ResourcesOf(AwsFunction) : \E e \in EventApis(r) :
            c = [path |-> e.path, method |-> e.method, function |-> r.id, owner |-> Owner(e)]
          BY <2>2
    <3>2. PICK e \in EventApis(r) :
            c = [path |-> e.path, method |-> e.method, function |-> r.id, owner |-> Owner(e)]
          BY <3>1
    <3>3. c.path = e.path
          BY <3>2
    <3>. QED BY <1>1, <3>3
  <2>3. CASE \E r \in {x \in ResourcesOf(AwsApi) : HasDoc(x)} : \E a \in ToSet(SwaggerApis(DocOf(r))) :
               c = [path |-> a.path, method |-> a.method, function |-> a.function, owner |-> r.id]
    <3>1. PICK r \in {x \in ResourcesOf(AwsApi) : HasDoc(x)} : \E a \in ToSet(SwaggerApis(DocOf(r))) :
            c = [path |-> a.path, method |-> a.method, function |-> a.function, owner |-> r.id]
          BY <2>3
    <3>2. PICK a \in ToSet(SwaggerApis(DocOf(r))) :
            c = [path |-> a.path, method |-> a.method, function |-> a.function, owner |-> r.id]
          BY <3>1
    <3>3. c.path = a.path
          BY <3>2
    <3>. QED BY <1>3, <3>1, <3>3
  <2>. QED BY <2>1, <2>2, <2>3
<1>5. \A media \in SUBSET MediaTypes : Canonical(media) \subseteq STRING
      BY DEF Canonical, MediaTypes
<1>6. \A id : ReadMediaOf(id) \subseteq STRING
      BY <1>2, <1>5 DEF ReadMediaOf, AwsApi
<1>. QED BY <1>3, <1>4, <1>6
\* What is collected is what the resources up to here declare.
CollectorInv ==
  /\ pc \in {"collect", "mount", "serving", "malformed", "no apis", "raised"}
  /\ at \in 1..Len(resources) + 1
  /\ Tidy(collector)
  /\ Held(collector) = ClaimsTo(at - 1)
  /\ \A id : MediaIn(collector, id) = MediaTo(at - 1, id)
  /\ pc \in {"mount", "serving", "malformed", "no apis"} => at = Len(resources) + 1

LEMMA OneResourceMore ==
  ASSUME NEW n \in Nat \ {0}
  PROVE  /\ ClaimsTo(n) = ClaimsTo(n - 1) \cup ClaimsBy(resources[n])
         /\ \A id : MediaTo(n, id) = MediaTo(n - 1, id) \cup MediaBy(resources[n], id)
<1> DEFINE A == 1..n
           B == 1..n - 1
<1>1. A = B \cup {n}
      OBVIOUS
<1>2. /\ ClaimsTo(n) = UNION {ClaimsBy(resources[i]) : i \in A}
      /\ ClaimsTo(n - 1) = UNION {ClaimsBy(resources[i]) : i \in B}
      /\ \A id : /\ MediaTo(n, id) = UNION {MediaBy(resources[i], id) : i \in A}
                 /\ MediaTo(n - 1, id) = UNION {MediaBy(resources[i], id) : i \in B}
      BY DEF ClaimsTo, MediaTo
<1> HIDE DEF A, B
<1>3. ClaimsTo(n) = ClaimsTo(n - 1) \cup ClaimsBy(resources[n])
  <2>1. \A c : c \in ClaimsTo(n) <=> \E i \in A : c \in ClaimsBy(resources[i])
        BY <1>2
  <2>2. \A c : c \in ClaimsTo(n - 1) <=> \E i \in B : c \in ClaimsBy(resources[i])
        BY <1>2
  <2>. QED BY <1>1, <2>1, <2>2
<1>4. ASSUME NEW id
      PROVE  MediaTo(n, id) = MediaTo(n - 1, id) \cup MediaBy(resources[n], id)
  <2>1. \A c : c \in MediaTo(n, id) <=> \E i \in A : c \in MediaBy(resources[i], id)
        BY <1>2
  <2>2. \A c : c \in MediaTo(n - 1, id) <=> \E i \in B : c \in MediaBy(resources[i], id)
        BY <1>2
  <2>. QED BY <1>1, <2>1, <2>2
<1>. QED BY <1>3, <1>4

\* The collector takes in one resource.
LEMMA CollectsResource ==
  ASSUME CollectorInv, IsList(resources), at <= Len(resources), pc = "collect",
         NEW d, Tidy(d), Held(d) = Held(collector) \cup ClaimsBy(resources[at]),
         \A id : MediaIn(d, id) = MediaIn(collector, id) \cup MediaBy(resources[at], id),
         collector' = d, at' = at + 1, UNCHANGED <<resources, pc>>
  PROVE  CollectorInv'
<1>1. Len(resources) \in Nat
      BY Lists
<1>2. at \in Nat \ {0} /\ at' \in 1..Len(resources) + 1 /\ at' - 1 = at
  <2>1. at \in 1..Len(resources) + 1 /\ at <= Len(resources) /\ at' = at + 1
        BY DEF CollectorInv
  <2>. QED BY <1>1, <2>1
<1>3. Held(d) = ClaimsTo(at) /\ \A id : MediaIn(d, id) = MediaTo(at, id)
  <2>1. /\ ClaimsTo(at) = ClaimsTo(at - 1) \cup ClaimsBy(resources[at])
        /\ \A id : MediaTo(at, id) = MediaTo(at - 1, id) \cup MediaBy(resources[at], id)
    <3>1. at \in Nat \ {0}
          BY <1>2
    <3>. QED BY <3>1, OneResourceMore
  <2>2. Held(collector) = ClaimsTo(at - 1) /\ \A id : MediaIn(collector, id) = MediaTo(at - 1, id)
        BY DEF CollectorInv
  <2>. QED BY <2>1, <2>2
<1>4. \A n : /\ ClaimsTo(n)' = ClaimsTo(n')
             /\ \A id : MediaTo(n, id)' = MediaTo(n', id)
      BY DEF ClaimsTo, MediaTo
<1>. QED BY <1>2, <1>3, <1>4 DEF CollectorInv
LEMMA CollectorStep ==
  ASSUME Chosen, CollectorInv, [Next]_vars
  PROVE  CollectorInv'
<1> DEFINE r == resources[at]
<1>1. IsList(resources) /\ Len(resources) \in Nat /\ at \in 1..Len(resources) + 1 /\ Tidy(collector)
      BY TemplateShape, Lists DEF CollectorInv
<1>2. AwsFunction # AwsApi /\ FunctionType # AwsApi
      BY DEF AwsFunction, AwsApi, FunctionType
<1>3. at <= Len(resources) => r \in ToSet(resources)
  <2>1. at <= Len(resources) => at \in 1..Len(resources)
        BY <1>1
  <2>. QED BY <1>1, <2>1, Lists
<1>4. ASSUME UNCHANGED <<resources, at, collector>>,
             pc' \in {"collect", "mount", "serving", "malformed", "no apis", "raised"},
             pc' \in {"mount", "serving", "malformed", "no apis"} => at = Len(resources) + 1
      PROVE  CollectorInv'
  <2>1. ClaimsTo(at - 1)' = ClaimsTo(at - 1) /\ \A id : MediaTo(at - 1, id)' = MediaTo(at - 1, id)
        BY <1>4 DEF ClaimsTo, MediaTo
  <2>2. Held(collector)' = Held(collector) /\ Tidy(collector)'
        /\ \A id : MediaIn(collector, id)' = MediaIn(collector, id)
        BY <1>1, <1>4
  <2>. QED BY <1>4, <2>1, <2>2 DEF CollectorInv
<1>5. UNCHANGED <<resources, at, collector>> /\ pc = "collect" /\ pc' = "raised" => CollectorInv'
      BY <1>4
<1>6. CASE CollectFunction
  <2>1. /\ pc = "collect" /\ at <= Len(resources) /\ r.type = AwsFunction /\ UNCHANGED resources
        /\ \/ pc' = "raised" /\ UNCHANGED <<at, collector>>
           \/ collector' = AddEvents(r.id, collector, ApiEvents(r)) /\ at' = at + 1 /\ UNCHANGED pc
        BY <1>6 DEF CollectFunction, AwsFunction
  <2>2. IsList(ApiEvents(r)) /\ ToSet(ApiEvents(r)) = EventApis(r)
    <3>1. IsList(r.events)
          BY <1>3, <2>1, TemplateShape
    <3>. QED BY <3>1, OfTypeHas DEF ApiEvents, EventApis
  <2> DEFINE d == AddEvents(r.id, collector, ApiEvents(r))
  <2>3. /\ Tidy(d)
        /\ Held(d) = Held(collector) \cup {ClaimOf(r.id, e) : e \in ToSet(ApiEvents(r))}
        /\ \A id : MediaIn(d, id) = MediaIn(collector, id)
    <3> DEFINE name == r.id
               events == ApiEvents(r)
    <3>1. IsList(events)
          BY <2>2
    <3> HIDE DEF name, events
    <3>2. /\ Tidy(AddEvents(name, collector, events))
          /\ Held(AddEvents(name, collector, events)) =
               Held(collector) \cup {ClaimOf(name, e) : e \in ToSet(events)}
          /\ \A id : MediaIn(AddEvents(name, collector, events), id) = MediaIn(collector, id)
          BY <1>1, <3>1, AddEventsHolds
    <3>. QED BY <3>2 DEF name, events
  <2>4. ClaimsBy(r) = {ClaimOf(r.id, e) : e \in ToSet(ApiEvents(r))} /\ \A id : MediaBy(r, id) = {}
        BY <1>2, <2>1, <2>2 DEF ClaimsBy, MediaBy
  <2>5. CASE pc' = "raised" /\ UNCHANGED <<at, collector>>
        BY <1>5, <2>1, <2>5
  <2>6. CASE collector' = d /\ at' = at + 1 /\ UNCHANGED pc
    <3>1. /\ Held(d) = Held(collector) \cup ClaimsBy(r)
          /\ \A id : MediaIn(d, id) = MediaIn(collector, id) \cup MediaBy(r, id)
          BY <2>3, <2>4
    <3> HIDE DEF d
    <3>. QED BY <1>1, <2>1, <2>3, <2>6, <3>1, CollectsResource
  <2>. QED BY <2>1, <2>5, <2>6
<1>7. CASE CollectApi
  <2>1. /\ pc = "collect" /\ at <= Len(resources) /\ r.type = AwsApi /\ UNCHANGED resources
        /\ \/ ~HasDoc(r) /\ at' = at + 1 /\ UNCHANGED <<pc, collector>>
           \/ /\ HasDoc(r)
              /\ collector' = Add(collector, r.id, SwaggerApis(DocOf(r)), DocOf(r).media \cup r.media)
              /\ at' = at + 1 /\ UNCHANGED pc
           \/ pc' = "raised" /\ UNCHANGED <<at, collector>>
        BY <1>7 DEF CollectApi, AwsApi, HasDoc, DocOf
  <2>2. CASE ~HasDoc(r) /\ at' = at + 1 /\ UNCHANGED <<pc, collector>>
    <3> DEFINE d == collector
    <3>1. ClaimsBy(r) = {} /\ \A id : MediaBy(r, id) = {}
          BY <1>2, <2>1, <2>2 DEF ClaimsBy, MediaBy
    <3>2. /\ Tidy(d) /\ Held(d) = Held(collector) \cup ClaimsBy(r)
          /\ \A id : MediaIn(d, id) = MediaIn(collector, id) \cup MediaBy(r, id)
          /\ collector' = d
          BY <1>1, <2>2, <3>1
    <3> HIDE DEF d
    <3>. QED BY <1>1, <2>1, <2>2, <3>2, CollectsResource
  <2>3. CASE /\ HasDoc(r)
             /\ collector' = Add(collector, r.id, SwaggerApis(DocOf(r)), DocOf(r).media \cup r.media)
             /\ at' = at + 1 /\ UNCHANGED pc
    <3> DEFINE found == SwaggerApis(DocOf(r))
               media == DocOf(r).media \cup r.media
               name == r.id
               d == Add(collector, name, found, media)
    <3>1. IsList(found)
      <4>1. r \in ResourcesOf(AwsApi)
            BY <1>3, <2>1 DEF ResourcesOf
      <4>. QED BY <2>3, <4>1, ApisAreShaped
    <3>2. ClaimsBy(r) = ClaimsOn(name, found)
          /\ \A id : MediaBy(r, id) = IF id = name THEN Canonical(media) ELSE {}
          BY <1>2, <2>1, <2>3 DEF ClaimsBy, MediaBy
    <3>3. collector' = d
          BY <2>3
    <3> HIDE DEF found, media, name
    <3>4. /\ Tidy(d) /\ Held(d) = Held(collector) \cup ClaimsOn(name, found)
          /\ \A id : MediaIn(d, id) = MediaIn(collector, id) \cup (IF id = name THEN Canonical(media) ELSE {})
          BY <1>1, <3>1, AddHolds
    <3> HIDE DEF d
    <3>5. /\ Held(d) = Held(collector) \cup ClaimsBy(r)
          /\ \A id : MediaIn(d, id) = MediaIn(collector, id) \cup MediaBy(r, id)
          BY <3>2, <3>4
    <3>. QED BY <1>1, <2>1, <2>3, <3>3, <3>4, <3>5, CollectsResource
  <2>4. CASE pc' = "raised" /\ UNCHANGED <<at, collector>>
        BY <1>5, <2>1, <2>4
  <2>. QED BY <2>1, <2>2, <2>3, <2>4
<1>8. CASE CollectNothing
  <2>1. /\ pc = "collect" /\ at <= Len(resources) /\ r.type \notin {AwsFunction, AwsApi}
        /\ UNCHANGED <<resources, pc, collector>> /\ at' = at + 1
        BY <1>8 DEF CollectNothing, AwsFunction, AwsApi
  <2> DEFINE d == collector
  <2>2. ClaimsBy(r) = {} /\ \A id : MediaBy(r, id) = {}
        BY <2>1 DEF ClaimsBy, MediaBy
  <2>3. /\ Tidy(d) /\ Held(d) = Held(collector) \cup ClaimsBy(r)
        /\ \A id : MediaIn(d, id) = MediaIn(collector, id) \cup MediaBy(r, id)
        /\ collector' = d
        BY <1>1, <2>1, <2>2
  <2> HIDE DEF d
  <2>. QED BY <1>1, <2>1, <2>3, CollectsResource
<1>9. CASE Merge
  <2>1. pc = "collect" /\ at > Len(resources) /\ pc' \in {"no apis", "mount"}
        /\ UNCHANGED <<resources, at, collector>>
        BY <1>9 DEF Merge
  <2>2. at = Len(resources) + 1
    <3>1. at > Len(resources) /\ at \in 1..Len(resources) + 1 /\ Len(resources) \in Nat
          BY <1>1, <2>1
    <3>. QED BY <3>1
  <2>. QED BY <1>4, <2>1, <2>2
<1>10. CASE Mount \/ Serve
  <2>1. pc = "mount" /\ pc' \in {"mount", "serving", "malformed"} /\ UNCHANGED <<resources, at, collector>>
        BY <1>10 DEF Mount, Serve
  <2>2. at = Len(resources) + 1
        BY <2>1 DEF CollectorInv
  <2>. QED BY <1>4, <2>1, <2>2
<1>11. CASE UNCHANGED <<resources, routeVars>>
  <2>1. UNCHANGED <<resources, pc, at, collector>>
        BY <1>11 DEF routeVars
  <2>2. /\ pc' \in {"collect", "mount", "serving", "malformed", "no apis", "raised"}
        /\ pc' \in {"mount", "serving", "malformed", "no apis"} => at = Len(resources) + 1
        BY <2>1 DEF CollectorInv
  <2>. QED BY <1>4, <2>1, <2>2
<1>12. Deploy \/ Invoke \/ UNCHANGED vars => UNCHANGED <<resources, routeVars>>
      BY DEF Deploy, SourceNext, Enter, DeployFunction, CreateTrigger, NextProvider, Invoke, SetUp, vars
<1>. QED BY <1>6, <1>7, <1>8, <1>9, <1>10, <1>11, <1>12 DEF Next, StartApi, RouteNext

LEMMA CollectorInvariant == Spec => []CollectorInv
<1>1. Init /\ Chosen => CollectorInv
  <2> SUFFICES ASSUME Init, Chosen PROVE CollectorInv
      OBVIOUS
  <2>1. pc = "collect" /\ at = 1 /\ collector = <<>>
        BY DEF Init, RouteInit
  <2>2. Tidy(<<>>) /\ Held(<<>>) = {} /\ \A id : MediaIn(<<>>, id) = {}
        BY DEF Tidy, Held, MediaIn, IsList
  <2>3. 1..at - 1 = {} /\ at \in 1..Len(resources) + 1
        BY <2>1, TemplateShape, Lists
  <2>4. ClaimsTo(at - 1) = {} /\ \A id : MediaTo(at - 1, id) = {}
        BY <2>3 DEF ClaimsTo, MediaTo
  <2>. QED BY <2>1, <2>2, <2>3, <2>4 DEF CollectorInv
<1>2. Chosen /\ CollectorInv /\ [Next]_vars => CollectorInv'
      BY CollectorStep
<1>. QED BY <1>1, <1>2, ChosenInvariant, PTL DEF Spec
-----------------------------------------------------------------------------
(* The merged APIs *)

\* What start-api is told of a claim.
Served(c) ==
  [path |-> c.path, method |-> c.method, function |-> c.function,
   media |-> MediaIn(collector, c.owner)]

LEMMA ConfiguredAre ==
  ASSUME Tidy(collector), NEW i \in DOMAIN collector
  PROVE  LET claims == ClaimsOn(collector[i].id, collector[i].apis) IN
         /\ claims \subseteq Held(collector)
         /\ IsList(Configured(collector[i]))
         /\ ToSet(Configured(collector[i])) = {Served(c) : c \in claims}
<1> DEFINE entry == collector[i]
           found == entry.apis
           list == Configured(entry)
           claims == ClaimsOn(entry.id, found)
           claim(a) == [path |-> a.path, method |-> a.method, function |-> a.function, owner |-> entry.id]
<1>1. IsList(found)
      BY DEF Tidy
<1>2. DOMAIN found = 1..Len(found) /\ Len(found) \in Nat
      BY <1>1, Lists
<1>3. MediaIn(collector, entry.id) = entry.media
  <2>1. {j \in DOMAIN collector : collector[j].id = entry.id} = {i}
        BY DEF Tidy
  <2>. QED BY <2>1 DEF MediaIn
<1>4. \A j \in 1..Len(found) : list[j] = Served(claim(found[j]))
  <2>1. ASSUME NEW j \in 1..Len(found) PROVE list[j] = Served(claim(found[j]))
    <3>1. list[j] = [path |-> found[j].path, method |-> found[j].method,
                     function |-> found[j].function, media |-> entry.media]
      <4> HIDE DEF entry
      <4>. QED BY <1>2 DEF Configured
    <3>2. /\ claim(found[j]).path = found[j].path /\ claim(found[j]).method = found[j].method
          /\ claim(found[j]).function = found[j].function /\ claim(found[j]).owner = entry.id
          OBVIOUS
    <3> HIDE DEF claim, entry, found, list
    <3>. QED BY <1>3, <3>1, <3>2 DEF Served
  <2>. QED BY <2>1
<1>5. claims = {claim(found[j]) : j \in 1..Len(found)}
  <2>1. claims = {claim(a) : a \in ToSet(found)}
        BY DEF ClaimsOn
  <2>2. ToSet(found) = {found[j] : j \in 1..Len(found)}
        BY <1>2 DEF ToSet
  <2> HIDE DEF claim, claims, found
  <2>. QED BY <2>1, <2>2
<1>6. IsList(list) /\ DOMAIN list = 1..Len(found)
  <2>1. DOMAIN list = DOMAIN found /\ list = [j \in DOMAIN found |-> list[j]]
        BY DEF Configured
  <2> HIDE DEF list, found
  <2>2. list = [j \in 1..Len(found) |-> list[j]]
        BY <1>2, <2>1
  <2>. QED BY <1>2, <2>1, <2>2, FunctionIsList
<1>7. ToSet(list) = {Served(c) : c \in claims}
  <2>1. ToSet(list) = {list[j] : j \in 1..Len(found)}
        BY <1>6 DEF ToSet
  <2> HIDE DEF list, claims, found, claim
  <2>. QED BY <1>4, <1>5, <2>1
<1>8. claims \subseteq Held(collector)
      BY DEF ClaimsOn, Held
<1>. QED BY <1>6, <1>7, <1>8

LEMMA ConfigsAre ==
  ASSUME Tidy(collector), NEW owners
  PROVE  /\ IsList(Configs(owners))
         /\ ToSet(Configs(owners)) = {Served(c) : c \in {x \in Held(collector) : x.owner \in owners}}
<1> DEFINE S == {Served(c) : c \in Held(collector)}
           ss == [i \in DOMAIN collector |->
                    IF collector[i].id \in owners THEN Configured(collector[i]) ELSE <<>>]
           On(i) == ClaimsOn(collector[i].id, collector[i].apis)
           Of == {x \in Held(collector) : x.owner \in owners}
<1>1. DOMAIN collector = 1..Len(collector) /\ Len(collector) \in Nat
      BY Lists DEF Tidy
<1>2. ASSUME NEW i \in DOMAIN collector
      PROVE  /\ ss[i] \in Seq(S)
             /\ ToSet(ss[i]) = IF collector[i].id \in owners THEN {Served(c) : c \in On(i)} ELSE {}
  <2>1. /\ On(i) \subseteq Held(collector)
        /\ IsList(Configured(collector[i]))
        /\ ToSet(Configured(collector[i])) = {Served(c) : c \in On(i)}
        BY ConfiguredAre
  <2>2. CASE collector[i].id \in owners
    <3>1. ss[i] = Configured(collector[i])
          BY <2>2
    <3>2. ToSet(ss[i]) = {Served(c) : c \in On(i)} /\ ToSet(ss[i]) \subseteq S
      <4> HIDE DEF ss, On
      <4>. QED BY <2>1, <3>1
    <3>3. ss[i] \in Seq(ToSet(ss[i]))
      <4> HIDE DEF ss
      <4>. QED BY <2>1, <3>1 DEF IsList
    <3> HIDE DEF ss, On, S
    <3>4. ss[i] \in Seq(S)
          BY <3>2, <3>3
    <3>. QED BY <2>2, <3>2, <3>4
  <2>3. CASE collector[i].id \notin owners
    <3>1. ss[i] = <<>>
          BY <2>3
    <3>2. <<>> \in Seq(S) /\ ToSet(<<>>) = {}
          BY DEF ToSet
    <3> HIDE DEF ss, S
    <3>. QED BY <2>3, <3>1, <3>2
  <2>. QED BY <2>2, <2>3
<1>3. Configs(owners) = FlattenSeq(ss)
      BY DEF Configs
<1>4. ss \in Seq(Seq(S)) /\ Len(ss) = Len(collector)
  <2>1. ss = [i \in 1..Len(collector) |-> ss[i]]
        BY <1>1
  <2> HIDE DEF ss, S
  <2>. QED BY <1>1, <1>2, <2>1
<1> HIDE DEF ss
<1>5. FlattenSeq(ss) \in Seq(S) /\ ToSet(FlattenSeq(ss)) = UNION {ToSet(ss[i]) : i \in 1..Len(collector)}
  <2> HIDE DEF S
  <2>. QED BY <1>4, FlattenSeqHas
<1>6. \A c : c \in Of <=> \E i \in DOMAIN collector : collector[i].id \in owners /\ c \in On(i)
  <2>1. \A i \in DOMAIN collector : \A c \in On(i) : c.owner = collector[i].id
        BY DEF ClaimsOn
  <2>2. \A c : c \in Held(collector) <=> \E i \in DOMAIN collector : c \in On(i)
        BY DEF Held, ClaimsOn
  <2> HIDE DEF On
  <2>. QED BY <2>1, <2>2
<1>7. UNION {ToSet(ss[i]) : i \in 1..Len(collector)} = {Served(c) : c \in Of}
  <2>1. ASSUME NEW x \in UNION {ToSet(ss[i]) : i \in 1..Len(collector)}
        PROVE  x \in {Served(c) : c \in Of}
    <3>1. PICK i \in DOMAIN collector : x \in ToSet(ss[i])
          BY <1>1, <2>1
    <3>2. collector[i].id \in owners /\ x \in {Served(c) : c \in On(i)}
          BY <1>2, <3>1
    <3> HIDE DEF Of, On
    <3>. QED BY <1>6, <3>2
  <2>2. ASSUME NEW c \in Of
        PROVE  Served(c) \in UNION {ToSet(ss[i]) : i \in 1..Len(collector)}
    <3> HIDE DEF Of, On
    <3>1. PICK i \in DOMAIN collector : collector[i].id \in owners /\ c \in On(i)
          BY <1>6
    <3>2. Served(c) \in ToSet(ss[i])
          BY <1>2, <3>1
    <3>. QED BY <1>1, <3>2
  <2> HIDE DEF Of
  <2>. QED BY <2>1, <2>2
<1>8. IsList(FlattenSeq(ss))
  <2> DEFINE flat == FlattenSeq(ss)
  <2>1. flat \in Seq(S)
        BY <1>5
  <2> HIDE DEF flat, S
  <2>2. flat \in Seq(ToSet(flat))
        BY <2>1 DEF ToSet
  <2>. QED BY <2>2 DEF flat, IsList
<1>. QED BY <1>3, <1>5, <1>7, <1>8
LEMMA ListConcatAt ==
  ASSUME NEW u, IsList(u), NEW v, IsList(v)
  PROVE  /\ Len(u) \in Nat /\ Len(v) \in Nat /\ Len(u \o v) = Len(u) + Len(v)
         /\ \A i \in 1..Len(u) : (u \o v)[i] = u[i]
         /\ \A i \in 1..Len(v) : (u \o v)[Len(u) + i] = v[i]
<1> DEFINE S == ToSet(u) \cup ToSet(v)
<1>1. u \in Seq(S) /\ v \in Seq(S)
      BY Lists
<1> HIDE DEF S
<1>2. Len(u) \in Nat /\ Len(v) \in Nat /\ Len(u \o v) = Len(u) + Len(v)
      BY <1>1
<1>3. \A i \in 1..Len(u) : (u \o v)[i] = u[i]
      BY <1>1
<1>4. ASSUME NEW i \in 1..Len(v) PROVE (u \o v)[Len(u) + i] = v[i]
      BY <1>1
<1>. QED BY <1>2, <1>3, <1>4

\* The configs are those of the claims, the implicit ones behind the others.
Ordered(n) ==
  /\ \A k \in DOMAIN AllConfigs : \E c \in Held(collector) :
       AllConfigs[k] = Served(c) /\ (c.owner = ImplicitApi <=> k > n)
  /\ \A c \in Held(collector) : \E k \in DOMAIN AllConfigs :
       AllConfigs[k] = Served(c) /\ (c.owner = ImplicitApi <=> k > n)

LEMMA AllConfigsAre ==
  ASSUME Tidy(collector)
  PROVE  /\ DOMAIN AllConfigs = 1..Len(AllConfigs) /\ Len(AllConfigs) \in Nat
         /\ \E n \in Nat : Ordered(n)
<1> DEFINE u == Configs(Owners \ {ImplicitApi})
           v == Configs({ImplicitApi})
           n == Len(u)
           Explicit == {x \in Held(collector) : x.owner \in Owners \ {ImplicitApi}}
           Behind == {x \in Held(collector) : x.owner \in {ImplicitApi}}
<1>1. IsList(u) /\ ToSet(u) = {Served(c) : c \in Explicit}
      BY ConfigsAre
<1>2. IsList(v) /\ ToSet(v) = {Served(c) : c \in Behind}
      BY ConfigsAre
<1>3. AllConfigs = u \o v
      BY DEF AllConfigs
<1>4. \A c \in Held(collector) : c.owner \in Owners
      BY DEF Held, Owners
<1>5. /\ \A c \in Explicit : c \in Held(collector) /\ c.owner # ImplicitApi
      /\ \A c \in Behind : c \in Held(collector) /\ c.owner = ImplicitApi
      /\ \A c \in Held(collector) : c \in Explicit \/ c \in Behind
      BY <1>4
<1> HIDE DEF u, v, Explicit, Behind
<1>6. /\ n \in Nat /\ Len(v) \in Nat /\ Len(AllConfigs) = n + Len(v) /\ IsList(AllConfigs)
      /\ \A i \in 1..n : AllConfigs[i] = u[i]
      /\ \A i \in 1..Len(v) : AllConfigs[n + i] = v[i]
      BY <1>1, <1>2, <1>3, ListConcat, ListConcatAt
<1>7. DOMAIN AllConfigs = 1..Len(AllConfigs) /\ Len(AllConfigs) \in Nat
      BY <1>6, Lists
<1> HIDE DEF n
<1>8. ASSUME NEW k \in DOMAIN AllConfigs
      PROVE  \E c \in Held(collector) : AllConfigs[k] = Served(c) /\ (c.owner = ImplicitApi <=> k > n)
  <2>1. k \in 1..n + Len(v)
        BY <1>6, <1>7
  <2>2. CASE k <= n
    <3>1. k \in 1..n /\ ~(k > n)
          BY <1>6, <2>1, <2>2
    <3>2. AllConfigs[k] \in ToSet(u)
          BY <1>1, <1>6, <3>1, Lists DEF n
    <3>3. PICK c \in Explicit : AllConfigs[k] = Served(c)
          BY <1>1, <3>2
    <3>. QED BY <1>5, <3>1, <3>3
  <2>3. CASE k > n
    <3>1. k - n \in 1..Len(v) /\ n + (k - n) = k
          BY <1>6, <2>1, <2>3
    <3>2. AllConfigs[k] \in ToSet(v)
      <4> DEFINE i == k - n
      <4>1. i \in 1..Len(v) /\ k = n + i
            BY <3>1
      <4> HIDE DEF i
      <4>2. AllConfigs[k] = v[i]
            BY <1>6, <4>1
      <4>. QED BY <1>2, <4>1, <4>2, Lists
    <3>3. PICK c \in Behind : AllConfigs[k] = Served(c)
          BY <1>2, <3>2
    <3>. QED BY <1>5, <2>3, <3>3
  <2>4. k <= n \/ k > n
        BY <1>6, <2>1
  <2>. QED BY <2>2, <2>3, <2>4
<1>9. ASSUME NEW c \in Held(collector)
      PROVE  \E k \in DOMAIN AllConfigs : AllConfigs[k] = Served(c) /\ (c.owner = ImplicitApi <=> k > n)
  <2>1. CASE c \in Explicit
    <3>1. Served(c) \in ToSet(u)
          BY <1>1, <2>1
    <3>2. PICK k \in 1..n : Served(c) = u[k]
          BY <1>1, <3>1, Lists DEF n
    <3>3. k \in DOMAIN AllConfigs /\ ~(k > n)
      <4>1. k \in 1..n + Len(v) /\ ~(k > n)
            BY <1>6
      <4>. QED BY <1>6, <1>7, <4>1
    <3>. QED BY <1>5, <1>6, <2>1, <3>2, <3>3
  <2>2. CASE c \in Behind
    <3>1. Served(c) \in ToSet(v)
          BY <1>2, <2>2
    <3>2. PICK i \in 1..Len(v) : Served(c) = v[i]
          BY <1>2, <3>1, Lists
    <3>3. n + i \in DOMAIN AllConfigs /\ n + i > n
      <4>1. n + i \in 1..n + Len(v) /\ n + i > n
            BY <1>6
      <4>. QED BY <1>6, <1>7, <4>1
    <3>. QED BY <1>5, <1>6, <2>2, <3>2, <3>3
  <2>. QED BY <1>5, <2>1, <2>2
<1>10. Ordered(n)
      BY <1>8, <1>9 DEF Ordered
<1>. QED BY <1>6, <1>7, <1>10

LEMMA Greatest ==
  ASSUME NEW n \in Nat, NEW K \in SUBSET (1..n), K # {}
  PROVE  \E k \in K : \A i \in K : i <= k
<1> DEFINE Has(m) == \A L \in SUBSET (1..m) : L # {} => \E k \in L : \A i \in L : i <= k
           T == {m \in Nat : Has(m)}
<1>1. 0 \in T
  <2>1. 1..0 = {}
        OBVIOUS
  <2>. QED BY <2>1
<1>2. ASSUME NEW m \in Nat, m \in T
      PROVE  m + 1 \in T
  <2> SUFFICES ASSUME NEW L \in SUBSET (1..m + 1), L # {}
               PROVE  \E k \in L : \A i \in L : i <= k
      OBVIOUS
  <2>1. CASE m + 1 \in L
    <3>1. \A i \in L : i <= m + 1
          OBVIOUS
    <3>. QED BY <2>1, <3>1
  <2>2. CASE m + 1 \notin L
    <3>1. L \in SUBSET (1..m)
      <4>1. \A i \in 1..m + 1 : i # m + 1 => i \in 1..m
            OBVIOUS
      <4>. QED BY <2>2, <4>1
    <3>2. Has(m)
          BY <1>2
    <3>. QED BY <3>1, <3>2
  <2>. QED BY <2>1, <2>2
<1>3. n \in T
  <2> HIDE DEF T
  <2>. QED BY <1>1, <1>2, SetInduction
<1>. QED BY <1>3

\* Nothing is served that nobody claims.
LEMMA MergedAreClaimed ==
  ASSUME Tidy(collector), NEW api \in Merged
  PROVE  \E c \in Held(collector) : api = Served(c)
<1>1. PICK k \in DOMAIN AllConfigs : api = AllConfigs[k]
      BY DEF Merged
<1>. QED BY <1>1, AllConfigsAre DEF Ordered

\* Whatever is overwritten, each claimed path keeps each of its claimed methods.
LEMMA ClaimsAreMerged ==
  ASSUME Tidy(collector), NEW c \in Held(collector), NEW m \in Normalized(c.method)
  PROVE  \E api \in Merged : api.path = c.path /\ m \in Normalized(api.method)
<1> DEFINE K == {k \in DOMAIN AllConfigs :
                   AllConfigs[k].path = c.path /\ m \in Normalized(AllConfigs[k].method)}
<1>1. DOMAIN AllConfigs = 1..Len(AllConfigs) /\ Len(AllConfigs) \in Nat
      BY AllConfigsAre
<1>2. PICK j \in DOMAIN AllConfigs : AllConfigs[j] = Served(c)
      BY AllConfigsAre DEF Ordered
<1>3. j \in K
      BY <1>2 DEF Served
<1>4. PICK k \in K : \A i \in K : i <= k
  <2>1. K \in SUBSET (1..Len(AllConfigs)) /\ K # {}
        BY <1>1, <1>3
  <2> HIDE DEF K
  <2>. QED BY <1>1, <2>1, Greatest
<1>5. \A i \in DOMAIN AllConfigs : Overwrites(k, i) => m \notin Normalized(AllConfigs[i].method)
  <2>1. \A i \in K : ~(i > k)
    <3>1. K \subseteq Nat
          BY <1>1
    <3> HIDE DEF K
    <3>. QED BY <1>4, <3>1
  <2>2. \A i \in DOMAIN AllConfigs : Overwrites(k, i) => i > k /\ AllConfigs[i].path = c.path
        BY DEF Overwrites
  <2>. QED BY <2>1, <2>2
<1>6. AllConfigs[k] \in Merged
      BY <1>5 DEF Merged
<1>. QED BY <1>6

\* A claim of the implicit API outlasts the others for its path and method.
LEMMA ImplicitIsMerged ==
  ASSUME Tidy(collector), NEW api \in Merged, NEW m \in Normalized(api.method),
         NEW d \in Held(collector), d.owner = ImplicitApi, d.path = api.path, m \in Normalized(d.method),
         \A c \in Held(collector) :
           c.path = api.path /\ m \in Normalized(c.method) /\ c.owner # ImplicitApi => c.method # "ANY"
  PROVE  \E c \in Held(collector) : c.owner = ImplicitApi /\ api = Served(c)
<1>1. PICK n \in Nat : Ordered(n)
      BY AllConfigsAre
<1>2. PICK k \in DOMAIN AllConfigs :
        /\ api = AllConfigs[k]
        /\ \E x \in Normalized(AllConfigs[k].method) : \A j \in DOMAIN AllConfigs :
             Overwrites(k, j) => x \notin Normalized(AllConfigs[j].method)
      BY DEF Merged
<1>3. PICK c \in Held(collector) : AllConfigs[k] = Served(c) /\ (c.owner = ImplicitApi <=> k > n)
      BY <1>1 DEF Ordered
<1>4. ASSUME ~(k > n)
      PROVE  FALSE
  <2>1. c.owner # ImplicitApi /\ c.path = api.path /\ c.method = api.method
        BY <1>2, <1>3, <1>4 DEF Served
  <2>2. c.method # "ANY"
        BY <2>1
  <2>3. Normalized(api.method) = {m}
        BY <2>1, <2>2 DEF Normalized
  <2>4. PICK j \in DOMAIN AllConfigs : AllConfigs[j] = Served(d) /\ j > n
        BY <1>1 DEF Ordered
  <2>5. AllConfigs[j].path = api.path /\ m \in Normalized(AllConfigs[j].method)
        BY <2>4 DEF Served
  <2>6. j > k
    <3>1. j \in Nat /\ k \in Nat /\ n \in Nat
          BY AllConfigsAre
    <3>. QED BY <1>4, <2>4, <3>1
  <2>7. Overwrites(k, j)
        BY <1>2, <2>5, <2>6 DEF Overwrites
  <2>. QED BY <1>2, <2>3, <2>5, <2>7
<1>. QED BY <1>2, <1>3, <1>4
-----------------------------------------------------------------------------
(* The routes that are mounted *)

KeysOf(api) == {<<ToFlask(api.path), m>> : m \in Normalized(api.method)}

\* What is mounted and what is still to be mounted are what was merged.
RouteInv ==
  /\ pc \notin {"mount", "serving", "malformed"} => routes = {}
  /\ pc \in {"mount", "serving", "malformed"} =>
       /\ apis \subseteq Merged
       /\ \A k : (\E api \in Merged : k \in KeysOf(api)) <=>
                   (\E r \in routes : r.key = k) \/ (\E api \in apis : k \in KeysOf(api))
       /\ \A r \in routes : r.api \in Merged /\ r.key \in KeysOf(r.api)
  /\ pc = "serving" => apis = {}
  /\ \A r, s \in routes : r.key = s.key => r = s

LEMMA SameMerged ==
  ASSUME UNCHANGED collector
  PROVE  Merged' = Merged
<1>1. AllConfigs' = AllConfigs
      BY DEF AllConfigs, Configs, Owners
<1>2. \A i, j : Overwrites(i, j)' <=> Overwrites(i, j)
      BY <1>1 DEF Overwrites
<1>. QED BY <1>1, <1>2 DEF Merged

LEMMA RouteStep ==
  ASSUME CollectorInv, RouteInv, [Next]_vars
  PROVE  RouteInv'
<1>1. ASSUME UNCHANGED routes, pc = "collect", pc' \notin {"mount", "serving", "malformed"}
      PROVE  RouteInv'
      BY <1>1 DEF RouteInv
<1>2. CASE CollectFunction
      BY <1>1, <1>2 DEF CollectFunction
<1>3. CASE CollectApi
  <2>1. UNCHANGED routes /\ pc = "collect" /\ (pc' = pc \/ pc' = "raised")
        BY <1>3 DEF CollectApi
  <2>. QED BY <1>1, <2>1
<1>4. CASE CollectNothing
      BY <1>1, <1>4 DEF CollectNothing
<1>5. CASE Merge
  <2>1. /\ pc = "collect" /\ apis' = Merged /\ pc' \in {"no apis", "mount"}
        /\ UNCHANGED <<collector, routes>>
        BY <1>5 DEF Merge
  <2>2. routes' = {} /\ Merged' = Merged
        BY <2>1, SameMerged DEF RouteInv
  <2>. QED BY <2>1, <2>2 DEF RouteInv
<1>6. CASE Mount
  <2>1. pc = "mount" /\ pc' \in {"mount", "malformed"} /\ UNCHANGED collector
        BY <1>6 DEF Mount
  <2>2. Merged' = Merged
        BY <2>1, SameMerged
  <2>3. PICK api \in apis :
          /\ routes' = {r \in routes : r.key \notin KeysOf(api)} \cup {[key |-> k, api |-> api] : k \in KeysOf(api)}
          /\ apis' = apis \ {api}
        BY <1>6 DEF Mount, KeysOf
  <2>4. /\ apis \subseteq Merged
        /\ \A k : (\E a \in Merged : k \in KeysOf(a)) <=>
                    (\E r \in routes : r.key = k) \/ (\E a \in apis : k \in KeysOf(a))
        /\ \A r \in routes : r.api \in Merged /\ r.key \in KeysOf(r.api)
        /\ \A r, s \in routes : r.key = s.key => r = s
        BY <2>1 DEF RouteInv
  <2>5. \A r \in routes' : \/ r \in routes /\ r.key \notin KeysOf(api)
                           \/ r.api = api /\ r.key \in KeysOf(api) /\ r = [key |-> r.key, api |-> api]
        BY <2>3
  <2>6. apis' \subseteq Merged /\ \A r \in routes' : r.api \in Merged /\ r.key \in KeysOf(r.api)
        BY <2>3, <2>4, <2>5
  <2>7. \A r, s \in routes' : r.key = s.key => r = s
        BY <2>4, <2>5
  <2>8. \A k : (\E r \in routes' : r.key = k) <=> (\E r \in routes : r.key = k) \/ k \in KeysOf(api)
    <3>1. ASSUME NEW k, k \in KeysOf(api) PROVE \E r \in routes' : r.key = k
      <4>1. [key |-> k, api |-> api] \in routes' /\ [key |-> k, api |-> api].key = k
            BY <2>3, <3>1
      <4>. QED BY <4>1
    <3>2. ASSUME NEW r \in routes, r.key \notin KeysOf(api) PROVE r \in routes'
          BY <2>3, <3>2
    <3>. QED BY <2>5, <3>1, <3>2
  <2>9. \A k : (\E a \in apis : k \in KeysOf(a)) <=> (\E a \in apis' : k \in KeysOf(a)) \/ k \in KeysOf(api)
        BY <2>3
  <2>10. \A k : (\E a \in Merged : k \in KeysOf(a)) <=>
                  (\E r \in routes' : r.key = k) \/ (\E a \in apis' : k \in KeysOf(a))
         BY <2>4, <2>8, <2>9
  <2>11. \A a : KeysOf(a)' = KeysOf(a)
         BY DEF KeysOf
  <2>12. /\ \A r \in routes' : r.api \in Merged' /\ r.key \in KeysOf(r.api)
         /\ apis' \subseteq Merged'
         /\ \A k : (\E a \in Merged' : k \in KeysOf(a)) <=>
                     (\E r \in routes' : r.key = k) \/ (\E a \in apis' : k \in KeysOf(a))
         BY <2>2, <2>6, <2>10
  <2>. QED BY <2>1, <2>7, <2>12 DEF RouteInv
<1>7. CASE Serve \/ UNCHANGED <<resources, routeVars>>
  <2>1. UNCHANGED <<collector, apis, routes>> /\ (pc' = pc \/ (pc = "mount" /\ pc' = "serving" /\ apis = {}))
    <3>1. CASE Serve
          BY <3>1 DEF Serve
    <3>2. CASE UNCHANGED <<resources, routeVars>>
      <4>1. UNCHANGED <<collector, apis, routes>> /\ pc' = pc
            BY <3>2 DEF routeVars
      <4>. QED BY <4>1
    <3>. QED BY <1>7, <3>1, <3>2
  <2>2. Merged' = Merged
        BY <2>1, SameMerged
  <2>. QED BY <2>1, <2>2 DEF RouteInv
<1>8. Deploy \/ Invoke \/ UNCHANGED vars => UNCHANGED <<resources, routeVars>>
      BY DEF Deploy, SourceNext, Enter, DeployFunction, CreateTrigger, NextProvider, Invoke, SetUp, vars
<1>. QED BY <1>2, <1>3, <1>4, <1>5, <1>6, <1>7, <1>8 DEF Next, StartApi, RouteNext

LEMMA RouteInvariant == Spec => []RouteInv
<1>1. Init => RouteInv
      BY DEF Init, RouteInit, RouteInv
<1>2. CollectorInv /\ RouteInv /\ [Next]_vars => RouteInv'
      BY RouteStep
<1>. QED BY <1>1, <1>2, CollectorInvariant, PTL DEF Spec

\* What is mounted is what was claimed, in whatever order.
LEMMA RoutesAreClaimed ==
  ASSUME Chosen, CollectorInv, RouteInv, NEW r \in routes
  PROVE  \E c \in Claims : \E m \in Normalized(c.method) :
           /\ r.key = <<ToFlask(c.path), m>> /\ c.path = r.api.path /\ c.method = r.api.method
           /\ c.function = r.api.function /\ r.api.media = ReadMediaOf(c.owner)
           /\ r.api \in Merged
<1>1. pc \in {"mount", "serving", "malformed"}
      BY DEF RouteInv
<1>2. /\ Held(collector) = Claims /\ \A id : MediaIn(collector, id) = ReadMediaOf(id)
      /\ Tidy(collector)
  <2>1. at - 1 = Len(resources)
    <3>1. at = Len(resources) + 1 /\ Len(resources) \in Nat
          BY <1>1, TemplateShape, Lists DEF CollectorInv
    <3>. QED BY <3>1
  <2>. QED BY <2>1, ClaimsToAll, TemplateShape DEF CollectorInv
<1>3. r.api \in Merged /\ r.key \in KeysOf(r.api)
      BY <1>1 DEF RouteInv
<1>4. PICK c \in Held(collector) : r.api = Served(c)
      BY <1>2, <1>3, MergedAreClaimed
<1>5. /\ r.api.path = c.path /\ r.api.method = c.method /\ r.api.function = c.function
      /\ r.api.media = MediaIn(collector, c.owner)
      BY <1>4 DEF Served
<1>6. PICK m \in Normalized(r.api.method) : r.key = <<ToFlask(r.api.path), m>>
      BY <1>3 DEF KeysOf
<1>. QED BY <1>2, <1>3, <1>4, <1>5, <1>6

\* Whatever the template and the order of its resources, and in whatever order
\* set() gives the merged APIs: start-api serves each path and method that is
\* declared, for a function it was declared for, and nothing else; with no media
\* types but those of its resource, and with all of them if that has a document.
THEOREM DeclaredRoutesAreServed == Spec => []RoutesAsDeclared
<1>1. ASSUME Chosen, CollectorInv, RouteInv
      PROVE  RoutesAsDeclared
  <2> SUFFICES ASSUME pc = "serving"
               PROVE  /\ {r.key : r \in routes} =
                           UNION {{<<ToFlask(c.path), m>> : m \in Normalized(c.method)} : c \in Claims}
                      /\ \A r \in routes : \E c \in ClaimsFor(r.key) :
                           /\ c.function = r.api.function
                           /\ r.api.media \subseteq MediaOf(c.owner)
                           /\ r.api.media = MediaOf(c.owner) \/ WithoutDoc(c.owner)
      BY DEF RoutesAsDeclared
  <2>1. Held(collector) = Claims /\ Tidy(collector)
    <3>1. at - 1 = Len(resources)
      <4>1. at = Len(resources) + 1 /\ Len(resources) \in Nat
            BY <1>1, TemplateShape, Lists DEF CollectorInv
      <4>. QED BY <4>1
    <3>. QED BY <1>1, <3>1, ClaimsToAll, TemplateShape DEF CollectorInv
  <2>2. ASSUME NEW r \in routes
        PROVE  /\ \E c \in Claims : r.key \in {<<ToFlask(c.path), m>> : m \in Normalized(c.method)}
               /\ \E c \in ClaimsFor(r.key) :
                    /\ c.function = r.api.function
                    /\ r.api.media \subseteq MediaOf(c.owner)
                    /\ r.api.media = MediaOf(c.owner) \/ WithoutDoc(c.owner)
    <3>1. PICK c \in Claims : \E m \in Normalized(c.method) :
            /\ r.key = <<ToFlask(c.path), m>>
            /\ c.function = r.api.function /\ r.api.media = ReadMediaOf(c.owner)
          BY <1>1, RoutesAreClaimed
    <3>2. PICK m \in Normalized(c.method) : r.key = <<ToFlask(c.path), m>>
          BY <3>1
    <3>3. r.key[1] = ToFlask(c.path) /\ r.key[2] = m
          BY <3>2
    <3>4. c \in ClaimsFor(r.key)
          BY <3>3 DEF ClaimsFor
    <3>5. /\ ReadMediaOf(c.owner) \subseteq MediaOf(c.owner)
          /\ WithoutDoc(c.owner) \/ ReadMediaOf(c.owner) = MediaOf(c.owner)
          BY ReadMedia
    <3>. QED BY <3>1, <3>2, <3>4, <3>5
  <2>3. ASSUME NEW c \in Claims, NEW m \in Normalized(c.method)
        PROVE  \E r \in routes : r.key = <<ToFlask(c.path), m>>
    <3>1. PICK api \in Merged : api.path = c.path /\ m \in Normalized(api.method)
          BY <2>1, ClaimsAreMerged
    <3>2. <<ToFlask(c.path), m>> \in KeysOf(api)
          BY <3>1 DEF KeysOf
    <3>3. apis = {} /\ \A k : (\E a \in Merged : k \in KeysOf(a)) <=>
                                (\E r \in routes : r.key = k) \/ (\E a \in apis : k \in KeysOf(a))
          BY <1>1 DEF RouteInv
    <3>. QED BY <3>1, <3>2, <3>3
  <2>4. {r.key : r \in routes} =
          UNION {{<<ToFlask(c.path), m>> : m \in Normalized(c.method)} : c \in Claims}
        BY <2>2, <2>3
  <2>. QED BY <2>2, <2>4
<1>. QED BY <1>1, ChosenInvariant, CollectorInvariant, RouteInvariant, PTL
LEMMA ToFlaskInjective ==
  ASSUME NEW p \in TemplatePaths, NEW q \in TemplatePaths, ToFlask(p) = ToFlask(q)
  PROVE  p = q
<1> DEFINE Segment == [kind : {"text", "param", "proxy"}, name : STRING]
<1>1. p \in Seq(Segment) /\ q \in Seq(Segment)
      BY DEF TemplatePaths
<1>2. DOMAIN ToFlask(p) = DOMAIN p /\ DOMAIN ToFlask(q) = DOMAIN q
      BY DEF ToFlask
<1>3. DOMAIN p = 1..Len(p) /\ DOMAIN q = 1..Len(q) /\ Len(p) \in Nat /\ Len(q) \in Nat
      BY <1>1
<1>4. DOMAIN p = DOMAIN q /\ Len(p) = Len(q)
  <2>1. DOMAIN p = DOMAIN q
        BY <1>2
  <2>. QED BY <1>1, <2>1
<1>5. ASSUME NEW i \in DOMAIN p
      PROVE  p[i] = q[i]
  <2>1. p[i] \in Segment /\ q[i] \in Segment
    <3> HIDE DEF Segment
    <3>. QED BY <1>1, <1>4
  <2>2. \A s \in TemplatePaths : \A j \in DOMAIN s :
          /\ s[j].kind # "proxy" => ToFlask(s)[j] = s[j]
          /\ s[j].kind = "proxy" =>
               /\ ToFlask(s)[j].kind \in {"path", "plus"}
               /\ ToFlask(s)[j].name = s[j].name
        BY DEF ToFlask, Path, Plus
  <2>3. ToFlask(p)[i] = ToFlask(q)[i]
        OBVIOUS
  <2>4. /\ p[i].kind # "proxy" => ToFlask(p)[i] = p[i]
        /\ p[i].kind = "proxy" => ToFlask(p)[i].kind \in {"path", "plus"} /\ ToFlask(p)[i].name = p[i].name
        BY <2>2
  <2>5. /\ q[i].kind # "proxy" => ToFlask(p)[i] = q[i]
        /\ q[i].kind = "proxy" => ToFlask(p)[i].kind \in {"path", "plus"} /\ ToFlask(p)[i].name = q[i].name
        BY <1>4, <2>2, <2>3
  <2>6. CASE p[i].kind = "proxy" /\ q[i].kind = "proxy"
        BY <2>1, <2>4, <2>5, <2>6
  <2>7. CASE p[i].kind # "proxy" /\ q[i].kind # "proxy"
        BY <2>4, <2>5, <2>7
  <2>8. CASE p[i].kind = "proxy" /\ q[i].kind # "proxy"
        BY <2>1, <2>4, <2>5, <2>8
  <2>9. CASE p[i].kind # "proxy" /\ q[i].kind = "proxy"
        BY <2>1, <2>4, <2>5, <2>9
  <2>. QED BY <2>6, <2>7, <2>8, <2>9
<1>. QED BY <1>1, <1>4, <1>5

\* An implicit API is what is served for its path and method, whatever explicit
\* ones the template has for them, as long as none of those is an ANY.
THEOREM ImplicitApiWins == Spec => []ImplicitWins
<1>1. ASSUME Chosen, CollectorInv, RouteInv
      PROVE  ImplicitWins
  <2> SUFFICES ASSUME pc = "serving", NEW r \in routes,
                      Implicit(ClaimsFor(r.key)) # {},
                      \A c \in ClaimsFor(r.key) \ Implicit(ClaimsFor(r.key)) : c.method # "ANY"
               PROVE  \E c \in Implicit(ClaimsFor(r.key)) : c.function = r.api.function
      BY DEF ImplicitWins
  <2>1. Held(collector) = Claims /\ Tidy(collector)
    <3>1. at - 1 = Len(resources)
      <4>1. at = Len(resources) + 1 /\ Len(resources) \in Nat
            BY <1>1, TemplateShape, Lists DEF CollectorInv
      <4>. QED BY <4>1
    <3>. QED BY <1>1, <3>1, ClaimsToAll, TemplateShape DEF CollectorInv
  <2>2. PICK b \in Claims : b.path = r.api.path /\ r.api \in Merged
        BY <1>1, RoutesAreClaimed
  <2>3. r.key \in KeysOf(r.api)
        BY <1>1 DEF RouteInv
  <2>4. PICK m \in Normalized(r.api.method) : r.key = <<ToFlask(r.api.path), m>>
        BY <2>3 DEF KeysOf
  <2>5. r.key[1] = ToFlask(r.api.path) /\ r.key[2] = m
        BY <2>4
  <2>6. \A c \in Claims : c.path \in TemplatePaths
        BY <1>1, ApisAreShaped
  <2>7. \A c \in Claims : c \in ClaimsFor(r.key) <=> c.path = r.api.path /\ m \in Normalized(c.method)
        BY <2>2, <2>5, <2>6, ToFlaskInjective DEF ClaimsFor
  <2>8. PICK d \in Claims : d.owner = ImplicitApi /\ d.path = r.api.path /\ m \in Normalized(d.method)
        BY <2>7 DEF Implicit, ClaimsFor
  <2>9. \A c \in Claims :
          c.path = r.api.path /\ m \in Normalized(c.method) /\ c.owner # ImplicitApi => c.method # "ANY"
        BY <2>7 DEF Implicit
  <2>10. PICK c \in Claims : c.owner = ImplicitApi /\ r.api = Served(c)
    <3> DEFINE api == r.api
    <3>1. api \in Merged /\ m \in Normalized(api.method) /\ d.path = api.path
          BY <2>2, <2>8
    <3>2. \A c \in Claims :
            c.path = api.path /\ m \in Normalized(c.method) /\ c.owner # ImplicitApi => c.method # "ANY"
          BY <2>9
    <3> HIDE DEF api
    <3>3. \E c \in Held(collector) : c.owner = ImplicitApi /\ api = Served(c)
          BY <2>1, <2>8, <3>1, <3>2, ImplicitIsMerged
    <3>. QED BY <2>1, <3>3 DEF api
  <2>11. c.path = r.api.path /\ c.method = r.api.method /\ c.function = r.api.function
         BY <2>10 DEF Served
  <2>12. c \in ClaimsFor(r.key)
         BY <2>4, <2>7, <2>11
  <2>. QED BY <2>10, <2>11, <2>12 DEF Implicit
<1>. QED BY <1>1, ChosenInvariant, CollectorInvariant, RouteInvariant, PTL

LEMMA RoundTrip ==
  ASSUME NEW p \in TemplatePaths, Proxies(p) \subseteq {Len(p)}
  PROVE  ToApiGateway(ToFlask(p)) = p
<1> DEFINE Segment == [kind : {"text", "param", "proxy"}, name : STRING]
           flask == ToFlask(p)
           n == Len(p)
<1>1. p \in Seq(Segment) /\ n \in Nat /\ DOMAIN p = 1..n /\ \A i \in DOMAIN p : p[i] \in Segment
  <2>1. p \in Seq(Segment)
        BY DEF TemplatePaths
  <2> HIDE DEF Segment
  <2>. QED BY <2>1
<1>2. p = [i \in DOMAIN p |-> p[i]]
      BY <1>1
<1>3. CASE Proxies(p) = {}
  <2>1. \A i \in DOMAIN p : p[i].kind # "proxy"
        BY <1>3 DEF Proxies
  <2>2. flask = p
        BY <1>2, <2>1 DEF ToFlask
  <2>3. {i \in DOMAIN p : p[i].kind = "path"} = {}
        BY <1>1
  <2> HIDE DEF flask
  <2>. QED BY <2>2, <2>3 DEF ToApiGateway, flask
<1>4. CASE Proxies(p) # {}
  <2>1. Proxies(p) = {n} /\ n \in DOMAIN p /\ p[n].kind = "proxy"
        BY <1>4 DEF Proxies
  <2>2. \A i \in DOMAIN p : p[i].kind = "proxy" <=> i = n
        BY <2>1 DEF Proxies
  <2>3. Max({n}) = n /\ Min({n}) = n
        BY <1>1 DEF Max, Min
  <2>4. flask = [i \in DOMAIN p |-> IF i = n THEN Path(p[i].name) ELSE p[i]]
        BY <2>1, <2>2, <2>3 DEF ToFlask
  <2>5. /\ DOMAIN flask = DOMAIN p
        /\ flask[n].kind = "path" /\ flask[n].name = p[n].name
        /\ \A i \in DOMAIN p : i # n => flask[i] = p[i]
        BY <2>1, <2>4 DEF Path
  <2> HIDE DEF flask
  <2>6. {i \in DOMAIN flask : flask[i].kind = "path"} = {n}
        BY <1>1, <2>1, <2>5
  <2>7. Max({i \in DOMAIN flask : Bracketed(flask[i].kind)}) = n
    <3> DEFINE K == {i \in DOMAIN flask : Bracketed(flask[i].kind)}
    <3>1. n \in K
          BY <2>1, <2>5 DEF Bracketed
    <3>2. K \subseteq 1..n
          BY <1>1, <2>5
    <3> HIDE DEF K
    <3>3. \A i \in K : i <= n /\ i \in Nat
          BY <1>1, <3>2
    <3>4. \A k \in K : (\A i \in K : k >= i) <=> k = n
          BY <1>1, <3>1, <3>3
    <3>5. Max(K) = n
          BY <3>1, <3>4 DEF Max
    <3>. QED BY <3>5 DEF K
  <2>8. ToApiGateway(flask) =
          [i \in DOMAIN flask |->
             IF i = n THEN Proxy(flask[i].name) ELSE flask[i]]
        BY <2>3, <2>6, <2>7 DEF ToApiGateway
  <2>9. Proxy(p[n].name) = p[n]
        BY <1>1, <2>1 DEF Proxy
  <2>10. ToApiGateway(flask) = [i \in DOMAIN p |-> p[i]]
         BY <2>5, <2>8, <2>9
  <2>. QED BY <1>2, <2>10 DEF flask
<1>. QED BY <1>3, <1>4

\* Whatever path the template has, with {proxy+} at its end or without one: the
\* event of a request has it as the template does.
THEOREM PathsComeBack == Spec => []PathsRoundTrip
<1>1. ASSUME Chosen, CollectorInv, RouteInv
      PROVE  PathsRoundTrip
  <2> SUFFICES ASSUME NEW r \in routes, Proxies(r.api.path) \subseteq {Len(r.api.path)}
               PROVE  ToApiGateway(r.key[1]) = r.api.path
      BY DEF PathsRoundTrip
  <2>1. PICK c \in Claims : \E m \in Normalized(c.method) :
          r.key = <<ToFlask(c.path), m>> /\ c.path = r.api.path
        BY <1>1, RoutesAreClaimed
  <2>2. r.key[1] = ToFlask(c.path) /\ c.path = r.api.path
        BY <2>1
  <2>3. c.path \in TemplatePaths
        BY <1>1, ApisAreShaped
  <2>. QED BY <2>2, <2>3, RoundTrip
<1>. QED BY <1>1, ChosenInvariant, CollectorInvariant, RouteInvariant, PTL

\* Type correctness: no route has ANY for its method, no two routes are for the
\* same path and method, and the indexes of deploy stay where they point at
\* something.
THEOREM TemplateTypes == Spec => []TypeOK
<1>1. ASSUME Chosen, CollectorInv, RouteInv, SourceInv, SetupInv
      PROVE  TypeOK
  <2>1. ASSUME NEW r \in routes
        PROVE  r.key[2] # "ANY" /\ r.api.media \subseteq STRING
    <3>1. PICK c \in Claims : \E m \in Normalized(c.method) :
            r.key = <<ToFlask(c.path), m>> /\ r.api.media = ReadMediaOf(c.owner)
          BY <1>1, RoutesAreClaimed
    <3>2. PICK m \in Normalized(c.method) : r.key = <<ToFlask(c.path), m>>
          BY <3>1
    <3>3. r.key[2] = m /\ m # "ANY"
          BY <3>2, TemplatesAssumption DEF Normalized
    <3>. QED BY <1>1, <3>1, <3>3, ApisAreShaped
  <2>2. \A r, s \in routes : r.key = s.key => r = s
        BY <1>1 DEF RouteInv
  <2>3. pc \in {"collect", "mount", "serving", "malformed", "no apis", "raised"} /\ at \in 1..Len(resources) + 1
        BY <1>1 DEF CollectorInv
  <2>4. /\ dpc \in {"enter", "functions", "triggers", "done", "user error", "traceback"}
        /\ provider \in DOMAIN Providers /\ function \in 1..Len(AllFunctions) + 1 /\ event \in Nat
        BY <1>1, ThreeProviders DEF SourceInv, SourceTypes, Sending
  <2>5. Len(runs) <= 1
        BY <1>1 DEF SetupInv
  <2>. QED BY <2>1, <2>2, <2>3, <2>4, <2>5 DEF TypeOK
<1>. QED BY <1>1, ChosenInvariant, CollectorInvariant, RouteInvariant, SourceInvariant, SetupInvariant, PTL
-----------------------------------------------------------------------------
(* deploy creates the declared triggers *)

\* The events of a function that a provider deploys, and the trigger of one.
Events(q, f) == EventsOf(AllFunctions[f], Providers[q])
Due(q, f, j) == Trigger(Events(q, f)[j])

\* Where they are: in all three providers, and in front of one event of one.
Turns(f) == {p \in (1..3) \X Nat : p[2] \in 1..Len(Events(p[1], f))}
Upto(f, q, e) == {p \in Turns(f) : p[1] < q \/ (p[1] = q /\ p[2] < e)}
Asking(f, P, x) == {p \in P : Due(p[1], f, p[2]) = x}

\* The triggers created for a function are those of the events in P.
Same(f, P) ==
  \A x : /\ IsFiniteSet(CreatedFor(f, x)) /\ IsFiniteSet(Asking(f, P, x))
         /\ Cardinality(CreatedFor(f, x)) = Cardinality(Asking(f, P, x))

\* A function before the current one has all of its triggers, or it was there
\* already and has none; the current one has those up to the current event.
Progress(f) ==
  /\ dpc = "triggers" /\ f = function =>
       \E q, e : q = provider /\ e = event /\ Same(f, Upto(f, q, e))
  /\ (dpc # "triggers" \/ f # function) =>
       Same(f, {}) \/ (f < function /\ Same(f, Turns(f)))

Extracted(q) == extracted[Providers[q]] = Extract(Providers[q])

TriggerInv ==
  /\ IsList(created)
  /\ \A i \in DOMAIN created : created[i].function \in DOMAIN AllFunctions
  /\ dpc \notin Sending => created = <<>>
  /\ DOMAIN extracted = ToSet(Providers) /\ extracted = [x \in ToSet(Providers) |-> extracted[x]]
  /\ dpc = "enter" => event = 1 /\ \A q \in 1..provider - 1 : Extracted(q)
  /\ dpc \in Sending => \A q \in 1..3 : Extracted(q)
  /\ dpc = "functions" => provider = 1 /\ event = 1
  /\ dpc \in Sending => \A f \in DOMAIN AllFunctions : Progress(f)

LEMMA EventsAreLists ==
  ASSUME Chosen, NEW f \in DOMAIN AllFunctions, NEW q \in 1..3
  PROVE  /\ IsList(Events(q, f)) /\ Len(Events(q, f)) \in Nat
         /\ DOMAIN Events(q, f) = 1..Len(Events(q, f))
         /\ Len(Extract(Providers[q])[f]) = Len(Events(q, f))
         /\ \A j \in 1..Len(Events(q, f)) : Extract(Providers[q])[f][j] = Due(q, f, j)
<1> DEFINE events == Events(q, f)
           found == Extract(Providers[q])[f]
<1>1. IsList(events)
      BY FunctionsOfTemplate, OfTypeHas DEF EventsOf, Events
<1>2. Len(events) \in Nat /\ DOMAIN events = 1..Len(events)
      BY <1>1, Lists
<1>3. found = [j \in DOMAIN events |-> Due(q, f, j)]
      BY DEF Extract, Due, Events
<1> HIDE DEF events, found
<1>4. DOMAIN found = 1..Len(events) /\ \A j \in 1..Len(events) : found[j] = Due(q, f, j)
      BY <1>2, <1>3
<1>5. found = [j \in 1..Len(events) |-> found[j]]
      BY <1>2, <1>3
<1>6. Len(found) = Len(events)
      BY <1>2, <1>5, FunctionIsList
<1>. QED BY <1>1, <1>2, <1>4, <1>6 DEF events, found

LEMMA PlacesStay ==
  ASSUME UNCHANGED resources
  PROVE  /\ \A q, f, j : Due(q, f, j)' = Due(q, f, j)
         /\ \A f, q, e : Upto(f, q, e)' = Upto(f, q, e)
         /\ \A f : Turns(f)' = Turns(f)
<1>1. \A q, f : Events(q, f)' = Events(q, f)
      BY DEF Events, EventsOf, AllFunctions
<1>2. \A q, f, j : Due(q, f, j)' = Due(q, f, j)
      BY <1>1 DEF Due
<1>3. \A f : Turns(f)' = Turns(f)
      BY <1>1 DEF Turns
<1>4. \A f, q, e : Upto(f, q, e)' = Upto(f, q, e)
      BY <1>3 DEF Upto
<1>. QED BY <1>2, <1>3, <1>4

LEMMA SameStays ==
  ASSUME UNCHANGED <<resources, created>>
  PROVE  \A f, P : Same(f, P)' <=> Same(f, P)
<1>1. \A f, P, x : Asking(f, P, x)' = Asking(f, P, x)
      BY PlacesStay DEF Asking
<1>2. \A f, x : CreatedFor(f, x)' = CreatedFor(f, x)
      BY DEF CreatedFor
<1>. QED BY <1>1, <1>2 DEF Same

\* From one event of a provider to the next, and from its last to the next provider.
Moves(f, q, e) ==
  /\ Upto(f, 1, 1) = {}
  /\ e <= Len(Events(q, f)) =>
       Upto(f, q, e + 1) = Upto(f, q, e) \cup {<<q, e>>} /\ <<q, e>> \notin Upto(f, q, e)
  /\ e > Len(Events(q, f)) /\ q < 3 => Upto(f, q, e) = Upto(f, q + 1, 1)
  /\ e > Len(Events(q, f)) /\ q = 3 => Upto(f, q, e) = Turns(f)

LEMMA UptoMoves ==
  ASSUME Chosen, NEW f \in DOMAIN AllFunctions, NEW q \in 1..3, NEW e \in Nat \ {0}
  PROVE  Moves(f, q, e)
<1>1. \A p \in Turns(f) : p[1] \in 1..3 /\ p[2] \in Nat /\ p[2] >= 1
      /\ p[2] <= Len(Events(p[1], f)) /\ p = <<p[1], p[2]>>
  <2>1. \A r \in 1..3 : Len(Events(r, f)) \in Nat
        BY EventsAreLists
  <2>. QED BY <2>1 DEF Turns
<1>2. Upto(f, 1, 1) = {}
      BY <1>1 DEF Upto
<1>3. ASSUME e <= Len(Events(q, f))
      PROVE  Upto(f, q, e + 1) = Upto(f, q, e) \cup {<<q, e>>} /\ <<q, e>> \notin Upto(f, q, e)
  <2>1. <<q, e>> \in Turns(f)
    <3>1. Len(Events(q, f)) \in Nat
          BY EventsAreLists
    <3>2. e \in 1..Len(Events(q, f))
          BY <1>3, <3>1
    <3>. QED BY <3>2 DEF Turns
  <2>2. \A p \in Turns(f) : p[2] < e + 1 <=> p[2] < e \/ p[2] = e
        BY <1>1
  <2>3. \A p \in Turns(f) : p[1] = q /\ p[2] = e <=> p = <<q, e>>
        BY <1>1
  <2>4. ~(q < q) /\ ~(e < e) /\ q < q + 1 /\ e < e + 1
        OBVIOUS
  <2>. QED BY <2>1, <2>2, <2>3, <2>4 DEF Upto
<1>4. ASSUME e > Len(Events(q, f)), q < 3
      PROVE  Upto(f, q, e) = Upto(f, q + 1, 1)
  <2>1. \A p \in Turns(f) : p[1] = q => p[2] < e
        BY <1>1, <1>4, EventsAreLists
  <2>2. \A p \in Turns(f) : p[1] < q + 1 <=> p[1] < q \/ p[1] = q
        BY <1>1
  <2>3. \A p \in Turns(f) : ~(p[2] < 1)
        BY <1>1
  <2>. QED BY <2>1, <2>2, <2>3 DEF Upto
<1>5. ASSUME e > Len(Events(q, f)), q = 3
      PROVE  Upto(f, q, e) = Turns(f)
  <2>1. \A p \in Turns(f) : p[1] = q => p[2] < e
        BY <1>1, <1>5, EventsAreLists
  <2>2. \A p \in Turns(f) : p[1] < q \/ p[1] = q
        BY <1>1, <1>5
  <2>. QED BY <2>1, <2>2 DEF Upto
<1>. QED BY <1>2, <1>3, <1>4, <1>5 DEF Moves

LEMMA NothingCreated ==
  ASSUME created = <<>>, NEW f
  PROVE  Same(f, {})
<1>1. ASSUME NEW x PROVE CreatedFor(f, x) = {} /\ Asking(f, {}, x) = {}
      BY DEF CreatedFor, Asking
<1>. QED BY <1>1, FS_EmptySet DEF Same

\* One trigger more, for one event more.
LEMMA OneTriggerMore ==
  ASSUME UNCHANGED resources, IsList(created), NEW g, NEW t,
         created' = Append(created, [function |-> g, trigger |-> t])
  PROVE  /\ \A f, P : f # g /\ Same(f, P) => Same(f, P)'
         /\ \A P, q, j : <<q, j>> \notin P /\ Same(g, P) /\ Due(q, g, j) = t => Same(g, P \cup {<<q, j>>})'
<1> DEFINE n == Len(created)
           call == [function |-> g, trigger |-> t]
<1>1. /\ n \in Nat /\ DOMAIN created = 1..n /\ DOMAIN created' = 1..n + 1
      /\ \A i \in 1..n : created'[i] = created[i]
      /\ created'[n + 1] = call
  <2>1. IsList(created') /\ Len(created') = n + 1
        /\ (\A i \in 1..n : created'[i] = created[i]) /\ created'[n + 1] = call
    <3>1. created' = Append(created, call)
          OBVIOUS
    <3> HIDE DEF call
    <3> DEFINE more == Append(created, call)
    <3>2. IsList(more) /\ Len(more) = n + 1 /\ (\A i \in 1..n : more[i] = created[i]) /\ more[n + 1] = call
          BY ListAppend
    <3> HIDE DEF more
    <3>3. created' = more
          BY <3>1 DEF more
    <3>. QED BY <3>2, <3>3 DEF IsList
  <2>. QED BY <2>1, Lists
<1>2. call.function = g /\ call.trigger = t
      OBVIOUS
<1> HIDE DEF call
<1>3. DOMAIN created' = DOMAIN created \cup {n + 1} /\ n + 1 \notin DOMAIN created
  <2>1. 1..n + 1 = 1..n \cup {n + 1} /\ n + 1 \notin 1..n
        BY <1>1
  <2>. QED BY <1>1, <2>1
<1> DEFINE k == n + 1
<1>4. /\ DOMAIN created' = DOMAIN created \cup {k} /\ k \notin DOMAIN created
      /\ (\A i \in DOMAIN created : created'[i] = created[i]) /\ created'[k] = call
      BY <1>1, <1>3
<1> HIDE DEF k, n
<1>5. ASSUME NEW f, NEW x
      PROVE  CreatedFor(f, x)' = IF f = g /\ x = t THEN CreatedFor(f, x) \cup {k} ELSE CreatedFor(f, x)
  <2>1. CreatedFor(f, x)' = {i \in DOMAIN created' : created'[i].function = f /\ created'[i].trigger = x}
        BY DEF CreatedFor
  <2>. QED BY <1>2, <1>4, <2>1 DEF CreatedFor
<1>6. \A f, x : k \notin CreatedFor(f, x)
      BY <1>4 DEF CreatedFor
<1>7. \A q, f, j : Due(q, f, j)' = Due(q, f, j)
      BY DEF Due, Events, EventsOf, AllFunctions
<1>8. \A f, P, x : Asking(f, P, x)' = Asking(f, P, x)
      BY <1>7 DEF Asking
<1>9. ASSUME NEW f, NEW P, f # g, Same(f, P)
      PROVE  Same(f, P)'
      BY <1>5, <1>8, <1>9 DEF Same
<1>10. ASSUME NEW P, NEW q, NEW j, <<q, j>> \notin P, Same(g, P), Due(q, g, j) = t
       PROVE  Same(g, P \cup {<<q, j>>})'
  <2> DEFINE Q == P \cup {<<q, j>>}
             A(x) == CreatedFor(g, x)
             B(x) == Asking(g, P, x)
  <2>1. ASSUME NEW x
        PROVE  Asking(g, Q, x) = IF x = t THEN B(x) \cup {<<q, j>>} ELSE B(x)
        BY <1>10 DEF Asking
  <2>2. <<q, j>> \notin B(t)
        BY <1>10 DEF Asking
  <2>3. ASSUME NEW x
        PROVE  /\ IsFiniteSet(A(x)) /\ IsFiniteSet(B(x)) /\ Cardinality(A(x)) = Cardinality(B(x))
        BY <1>10 DEF Same
  <2>4. ASSUME NEW x
        PROVE  /\ IsFiniteSet(CreatedFor(g, x)') /\ IsFiniteSet(Asking(g, Q, x))
               /\ Cardinality(CreatedFor(g, x)') = Cardinality(Asking(g, Q, x))
    <3>1. CASE x = t
      <4>1. CreatedFor(g, x)' = A(x) \cup {k} /\ Asking(g, Q, x) = B(x) \cup {<<q, j>>}
            BY <1>5, <2>1, <3>1
      <4>2. k \notin A(x) /\ <<q, j>> \notin B(x)
            BY <1>6, <2>2, <3>1
      <4>3. IsFiniteSet(A(x) \cup {k}) /\ Cardinality(A(x) \cup {k}) = Cardinality(A(x)) + 1
            BY <2>3, <4>2, FS_AddElement
      <4>4. IsFiniteSet(B(x) \cup {<<q, j>>}) /\ Cardinality(B(x) \cup {<<q, j>>}) = Cardinality(B(x)) + 1
        <5> DEFINE b == <<q, j>>
        <5>1. IsFiniteSet(B(x)) /\ b \notin B(x)
              BY <2>3, <4>2
        <5> HIDE DEF b, B
        <5>2. IsFiniteSet(B(x) \cup {b}) /\ Cardinality(B(x) \cup {b}) = Cardinality(B(x)) + 1
              BY <5>1, FS_AddElement
        <5>. QED BY <5>2 DEF b
      <4>. QED BY <2>3, <4>1, <4>3, <4>4
    <3>2. CASE x # t
          BY <1>5, <2>1, <2>3, <3>2
    <3>. QED BY <3>1, <3>2
  <2> HIDE DEF Q
  <2>5. Same(g, Q)'
    <3>1. \A x : Asking(g, Q, x)' = Asking(g, Q, x)
          BY <1>8
    <3>. QED BY <2>4, <3>1 DEF Same
  <2>. QED BY <2>5 DEF Q
<1>. QED BY <1>9, <1>10
LEMMA TriggerStep ==
  ASSUME Chosen, SourceInv, TriggerInv, [Next]_vars
  PROVE  TriggerInv'
<1> DEFINE N == Len(AllFunctions)
<1>1. N \in Nat /\ DOMAIN AllFunctions = 1..N
      BY FunctionsOfTemplate
<1>2. /\ provider \in 1..3 /\ function \in 1..N + 1 /\ event \in Nat \ {0}
      /\ dpc = "triggers" => function \in DOMAIN AllFunctions
      BY <1>1 DEF SourceInv, SourceTypes
<1>3. /\ IsList(created)
      /\ \A i \in DOMAIN created : created[i].function \in DOMAIN AllFunctions
      /\ dpc \notin Sending => created = <<>>
      /\ DOMAIN extracted = ToSet(Providers) /\ extracted = [x \in ToSet(Providers) |-> extracted[x]]
      /\ dpc = "enter" => event = 1 /\ \A q \in 1..provider - 1 : Extracted(q)
      /\ dpc \in Sending => \A q \in 1..3 : Extracted(q)
      /\ dpc = "functions" => provider = 1 /\ event = 1
      /\ dpc \in Sending => \A f \in DOMAIN AllFunctions : Progress(f)
      BY DEF TriggerInv
<1>4. UNCHANGED resources => UNCHANGED AllFunctions /\ \A type : Extract(type)' = Extract(type)
  <2>1. UNCHANGED resources => UNCHANGED AllFunctions
        BY DEF AllFunctions
  <2>. QED BY <2>1 DEF Extract, EventsOf
<1>5. UNCHANGED <<resources, extracted>> => \A q : Extracted(q)' <=> Extracted(q)
      BY <1>4 DEF Extracted
<1> HIDE DEF N
<1>6. CASE Enter
  <2> DEFINE type == Providers[provider]
  <2>1. /\ dpc = "enter" /\ UNCHANGED <<resources, function, event, created>>
        /\ IF Verdict(type) # "valid"
           THEN dpc' = Verdict(type) /\ UNCHANGED <<provider, extracted>>
           ELSE /\ extracted' = [extracted EXCEPT ![type] = Extract(type)]
                /\ provider' = IF provider < Len(Providers) THEN provider + 1 ELSE 1
                /\ dpc' = IF provider < Len(Providers) THEN "enter"
                          ELSE IF AllFunctions = <<>> THEN "user error" ELSE "functions"
        BY <1>6 DEF Enter
  <2>2. created = <<>> /\ event = 1 /\ \A q \in 1..provider - 1 : Extracted(q)
        BY <1>3, <2>1 DEF Sending
  <2>3. IsList(created)' /\ (\A i \in DOMAIN created : created[i].function \in DOMAIN AllFunctions)'
        BY <1>3, <1>4, <2>1
  <2>4. created' = <<>>
        BY <2>1, <2>2
  <2>5. CASE Verdict(type) # "valid"
    <3>1. dpc' \in {"user error", "traceback"} /\ UNCHANGED <<provider, extracted>>
          BY <2>1, <2>5, VerdictIs
    <3>. QED BY <1>3, <2>3, <2>4, <3>1 DEF TriggerInv, Sending
  <2>6. CASE Verdict(type) = "valid"
    <3>1. /\ extracted' = [extracted EXCEPT ![type] = Extract(type)]
          /\ provider' = IF provider < 3 THEN provider + 1 ELSE 1
          /\ dpc' = IF provider < 3 THEN "enter"
                    ELSE IF AllFunctions = <<>> THEN "user error" ELSE "functions"
          BY <2>1, <2>6, ThreeProviders
    <3>2. \A q \in 1..3 : Providers[q] \in ToSet(Providers) /\ (q # provider => Providers[q] # type)
      <4>1. \A q \in 1..3 : q = 1 \/ q = 2 \/ q = 3
            OBVIOUS
      <4>2. provider = 1 \/ provider = 2 \/ provider = 3
            BY <1>2
      <4>. QED BY <4>1, <4>2, ThreeProviders
    <3>3. DOMAIN extracted' = ToSet(Providers) /\ extracted' = [x \in ToSet(Providers) |-> extracted'[x]]
      <4>1. DOMAIN extracted' = DOMAIN extracted /\ extracted' = [x \in DOMAIN extracted |-> extracted'[x]]
            BY <3>1
      <4>. QED BY <1>3, <4>1
    <3>4. Extracted(provider)' \/ provider' # provider
      <4>. QED BY <1>3, <1>4, <2>1, <3>1, <3>2, <1>2 DEF Extracted
    <3>5. extracted'[type] = Extract(type)
          BY <1>2, <1>3, <3>1, <3>2
    <3>6. \A q \in 1..provider - 1 : extracted'[Providers[q]] = Extract(Providers[q])
      <4>1. \A q \in 1..provider - 1 : q \in 1..3 /\ q # provider
            BY <1>2
      <4>. QED BY <1>3, <2>2, <3>1, <3>2, <4>1 DEF Extracted
    <3>7. \A q \in 1..provider : extracted'[Providers[q]] = Extract(Providers[q])
      <4>1. \A q \in 1..provider : q = provider \/ q \in 1..provider - 1
            BY <1>2
      <4>. QED BY <3>5, <3>6, <4>1
    <3>8. \A q \in 1..provider : Extracted(q)'
          BY <1>4, <2>1, <3>7 DEF Extracted
    <3>9. CASE provider < 3
      <4>1. dpc' = "enter" /\ provider' = provider + 1
            BY <3>1, <3>9
      <4>2. provider' - 1 = provider
            BY <1>2, <4>1
      <4>3. \A q \in 1..provider' - 1 : Extracted(q)'
            BY <3>8, <4>2
      <4>. QED BY <2>1, <2>2, <2>3, <2>4, <3>3, <4>1, <4>3 DEF TriggerInv, Sending
    <3>10. CASE ~(provider < 3)
      <4>1. provider = 3
            BY <1>2, <3>10
      <4>2. dpc' \in {"user error", "functions"} /\ provider' = 1
            BY <3>1, <3>10
      <4>3. \A q \in 1..3 : Extracted(q)'
            BY <3>8, <4>1
      <4>4. ASSUME NEW f PROVE Same(f, {})'
            BY <2>1, <2>2, NothingCreated, SameStays
      <4>5. dpc' # "triggers" /\ dpc' # "enter"
            BY <4>2
      <4>6. \A f : Progress(f)'
            BY <4>4, <4>5 DEF Progress
      <4>. QED BY <2>1, <2>2, <2>3, <2>4, <3>3, <4>2, <4>3, <4>5, <4>6 DEF TriggerInv
    <3>. QED BY <3>9, <3>10
  <2>. QED BY <2>5, <2>6
<1>7. CASE DeployFunction
  <2>1. /\ dpc = "functions" /\ UNCHANGED <<resources, provider, extracted, event, created>>
        /\ IF function > N THEN dpc' = "done" /\ UNCHANGED function
           ELSE \/ dpc' = "triggers" /\ UNCHANGED function
                \/ function' = function + 1 /\ UNCHANGED dpc
        BY <1>7 DEF DeployFunction, N
  <2>2. dpc' \in {"functions", "triggers", "done"} /\ dpc \in Sending /\ provider = 1 /\ event = 1
        BY <1>3, <2>1 DEF Sending
  <2>3. ASSUME NEW f \in DOMAIN AllFunctions
        PROVE  Progress(f)'
    <3>1. f \in Nat /\ function \in Nat /\ ~(f < f)
          BY <1>1, <1>2
    <3>2. Same(f, {}) \/ (f < function /\ Same(f, Turns(f)))
          BY <1>3, <2>1, <2>2 DEF Progress
    <3>3. (Same(f, {})' <=> Same(f, {})) /\ \A P : Same(f, P)' <=> Same(f, P)
          BY <2>1, SameStays
    <3>4. Turns(f)' = Turns(f) /\ \A q, e : Upto(f, q, e)' = Upto(f, q, e)
          BY <2>1, PlacesStay
    <3>5. CASE dpc' = "triggers" /\ UNCHANGED function
      <4>1. CASE f = function
        <5>1. Same(f, {})
              BY <3>1, <3>2, <4>1
        <5>2. Upto(f, 1, 1) = {}
          <6>1. 1 \in 1..3 /\ 1 \in Nat \ {0}
                OBVIOUS
          <6>2. Moves(f, 1, 1)
                BY <6>1, UptoMoves
          <6>. QED BY <6>2 DEF Moves
        <5>3. Same(f, Upto(f, 1, 1))'
          <6>1. Upto(f, 1, 1)' = {}
                BY <3>4, <5>2
          <6>. QED BY <3>3, <5>1, <6>1
        <5>. QED BY <2>1, <2>2, <3>5, <4>1, <5>3 DEF Progress
      <4>2. CASE f # function
        <5>1. (Same(f, {}) \/ (f < function /\ Same(f, Turns(f))))'
              BY <3>2, <3>3, <3>4, <3>5
        <5>. QED BY <3>5, <4>2, <5>1 DEF Progress
      <4>. QED BY <4>1, <4>2
    <3>6. CASE dpc' # "triggers" /\ (UNCHANGED function \/ function' = function + 1)
      <4>1. f < function => f < function'
            BY <3>1, <3>6
      <4>2. (Same(f, {}) \/ (f < function /\ Same(f, Turns(f))))'
            BY <3>2, <3>3, <3>4, <4>1
      <4>. QED BY <3>6, <4>2 DEF Progress
    <3>. QED BY <2>1, <3>5, <3>6
  <2>4. \A q \in 1..3 : Extracted(q)'
        BY <1>3, <1>5, <2>1, <2>2
  <2>5. DOMAIN AllFunctions' = DOMAIN AllFunctions
        BY <1>4, <2>1
  <2>. QED BY <1>3, <2>1, <2>2, <2>3, <2>4, <2>5 DEF TriggerInv, Sending
<1>8. CASE CreateTrigger
  <2>1. /\ dpc = "triggers" /\ event <= Len(Pending) /\ event' = event + 1
        /\ created' = Append(created, [function |-> function, trigger |-> Pending[event]])
        /\ UNCHANGED <<resources, dpc, provider, extracted, function>>
        BY <1>8 DEF CreateTrigger
  <2>2. dpc \in Sending /\ dpc # "functions" /\ dpc # "enter" /\ function \in DOMAIN AllFunctions
        BY <1>2, <2>1 DEF Sending
  <2>3. /\ Len(Pending) = Len(Events(provider, function))
        /\ \A j \in 1..Len(Events(provider, function)) : Pending[j] = Due(provider, function, j)
    <3>1. Pending = Extract(Providers[provider])[function]
          BY <1>2, <1>3, <2>2 DEF Pending, Extracted
    <3>. QED BY <1>2, <2>2, <3>1, EventsAreLists
  <2>4. event <= Len(Events(provider, function)) /\ Due(provider, function, event) = Pending[event]
    <3>1. Len(Events(provider, function)) \in Nat
          BY <1>2, <2>2, EventsAreLists
    <3>2. event \in 1..Len(Events(provider, function))
          BY <1>2, <2>1, <2>3, <3>1
    <3>. QED BY <2>1, <2>3, <3>2
  <2>5. PICK g, t : g = function /\ t = Pending[event]
        OBVIOUS
  <2>6. created' = Append(created, [function |-> g, trigger |-> t])
        BY <2>1, <2>5
  <2>7. /\ \A f, P : f # g /\ Same(f, P) => Same(f, P)'
        /\ \A P, q, j : <<q, j>> \notin P /\ Same(g, P) /\ Due(q, g, j) = t => Same(g, P \cup {<<q, j>>})'
        BY <1>3, <2>1, <2>6, OneTriggerMore
  <2>8. ASSUME NEW f \in DOMAIN AllFunctions
        PROVE  Progress(f)'
    <3>1. Progress(f)
          BY <1>3, <2>2
    <3>2. Turns(f)' = Turns(f) /\ \A q, e : Upto(f, q, e)' = Upto(f, q, e)
          BY <2>1, PlacesStay
    <3>3. CASE f = function
      <4>1. PICK q, e : q = provider /\ e = event /\ Same(f, Upto(f, q, e))
            BY <2>1, <3>1, <3>3 DEF Progress
      <4>2. /\ q \in 1..3 /\ e \in Nat \ {0} /\ e <= Len(Events(q, f)) /\ Due(q, g, e) = t /\ f = g
            BY <1>2, <2>4, <2>5, <3>3, <4>1
      <4>3. Upto(f, q, e + 1) = Upto(f, q, e) \cup {<<q, e>>} /\ <<q, e>> \notin Upto(f, q, e)
        <5>1. Moves(f, q, e)
              BY <4>2, UptoMoves
        <5>. QED BY <4>2, <5>1 DEF Moves
      <4>4. Same(f, Upto(f, q, e) \cup {<<q, e>>})'
        <5> DEFINE P == Upto(f, q, e)
        <5>1. PICK Q : Q = P
              OBVIOUS
        <5>2. Same(g, Q \cup {<<q, e>>})'
              BY <2>7, <4>1, <4>2, <4>3, <5>1
        <5>3. P' = P
              BY <3>2
        <5> HIDE DEF P
        <5>4. Same(f, P \cup {<<q, e>>})'
              BY <4>2, <5>1, <5>2, <5>3
        <5>. QED BY <5>4 DEF P
      <4>5. Same(f, Upto(f, q, e + 1))'
        <5>1. Upto(f, q, e + 1)' = (Upto(f, q, e) \cup {<<q, e>>})'
              BY <3>2, <4>3
        <5>. QED BY <4>4, <5>1
      <4>6. q = provider' /\ e + 1 = event' /\ f = function' /\ dpc' = "triggers"
            BY <2>1, <3>3, <4>1
      <4>. QED BY <4>5, <4>6 DEF Progress
    <3>4. CASE f # function
      <4>1. Same(f, {}) \/ (f < function /\ Same(f, Turns(f)))
            BY <3>1, <3>4 DEF Progress
      <4>2. (Same(f, {}) \/ (f < function /\ Same(f, Turns(f))))'
        <5>1. CASE Same(f, {})
              BY <2>5, <2>7, <3>4, <5>1
        <5>2. CASE f < function /\ Same(f, Turns(f))
          <6>1. PICK P : P = Turns(f)
                OBVIOUS
          <6>2. Same(f, P)'
                BY <2>5, <2>7, <3>4, <5>2, <6>1
          <6>3. Same(f, Turns(f))'
                BY <3>2, <6>1, <6>2
          <6>. QED BY <2>1, <5>2, <6>3
        <5>. QED BY <4>1, <5>1, <5>2
      <4>. QED BY <2>1, <3>4, <4>2 DEF Progress
    <3>. QED BY <3>3, <3>4
  <2>9. /\ IsList(created)'
        /\ (\A i \in DOMAIN created : created[i].function \in DOMAIN AllFunctions)'
    <3> DEFINE call == [function |-> g, trigger |-> t]
               more == Append(created, call)
    <3>1. call.function = g
          OBVIOUS
    <3> HIDE DEF call
    <3>2. /\ IsList(more) /\ Len(more) = Len(created) + 1
          /\ \A i \in 1..Len(created) : more[i] = created[i]
          /\ more[Len(created) + 1] = call
          BY <1>3, ListAppend
    <3> HIDE DEF more
    <3>3. DOMAIN more = 1..Len(created) + 1 /\ DOMAIN created = 1..Len(created) /\ Len(created) \in Nat
          BY <1>3, <3>2, Lists
    <3>4. \A i \in DOMAIN more : i \in DOMAIN created \/ i = Len(created) + 1
          BY <3>3
    <3>5. \A i \in DOMAIN more : more[i].function \in DOMAIN AllFunctions
          BY <1>3, <2>2, <2>5, <3>1, <3>2, <3>3, <3>4
    <3>6. created' = more
          BY <2>6 DEF more, call
    <3>7. AllFunctions' = AllFunctions
          BY <1>4, <2>1
    <3>. QED BY <3>2, <3>5, <3>6, <3>7 DEF IsList
  <2>10. \A q \in 1..3 : Extracted(q)'
         BY <1>3, <1>5, <2>1, <2>2
  <2>11. DOMAIN AllFunctions' = DOMAIN AllFunctions
         BY <1>4, <2>1
  <2>. QED BY <1>3, <2>1, <2>2, <2>8, <2>9, <2>10, <2>11 DEF TriggerInv
<1>9. CASE NextProvider
  <2>1. /\ dpc = "triggers" /\ event > Len(Pending) /\ event' = 1
        /\ UNCHANGED <<resources, extracted, created>>
        /\ IF provider < 3 THEN provider' = provider + 1 /\ UNCHANGED <<dpc, function>>
           ELSE provider' = 1 /\ dpc' = "functions" /\ function' = function + 1
        BY <1>9, ThreeProviders DEF NextProvider
  <2>2. dpc \in Sending /\ dpc' \in {"triggers", "functions"} /\ function \in DOMAIN AllFunctions
        BY <1>2, <2>1 DEF Sending
  <2>3. event > Len(Events(provider, function))
    <3>1. Pending = Extract(Providers[provider])[function]
          BY <1>2, <1>3, <2>2 DEF Pending, Extracted
    <3>2. Len(Pending) = Len(Events(provider, function))
          BY <1>2, <2>2, <3>1, EventsAreLists
    <3>. QED BY <2>1, <3>2
  <2>4. ASSUME NEW f \in DOMAIN AllFunctions
        PROVE  Progress(f)'
    <3>1. Progress(f) /\ f \in Nat /\ function \in Nat
          BY <1>1, <1>2, <1>3, <2>2
    <3>2. Turns(f)' = Turns(f) /\ \A q, e : Upto(f, q, e)' = Upto(f, q, e)
          BY <2>1, PlacesStay
    <3>3. \A P : Same(f, P)' <=> Same(f, P)
          BY <2>1, SameStays
    <3>4. CASE f = function
      <4>1. PICK q, e : q = provider /\ e = event /\ Same(f, Upto(f, q, e))
            BY <2>1, <3>1, <3>4 DEF Progress
      <4>2. q \in 1..3 /\ e \in Nat \ {0} /\ e > Len(Events(q, f))
            BY <1>2, <2>3, <3>4, <4>1
      <4>5. (q < 3 => Upto(f, q, e) = Upto(f, q + 1, 1)) /\ (q = 3 => Upto(f, q, e) = Turns(f))
        <5>1. Moves(f, q, e)
              BY <4>2, UptoMoves
        <5>. QED BY <4>2, <5>1 DEF Moves
      <4>3. CASE q < 3
        <5>1. Upto(f, q, e) = Upto(f, q + 1, 1)
              BY <4>3, <4>5
        <5>2. Same(f, Upto(f, q + 1, 1))'
          <6>1. PICK P : P = Upto(f, q + 1, 1)
                OBVIOUS
          <6>2. Same(f, P)'
                BY <3>3, <4>1, <5>1, <6>1
          <6>. QED BY <3>2, <6>1, <6>2
        <5>3. q + 1 = provider' /\ 1 = event' /\ f = function' /\ dpc' = "triggers"
              BY <2>1, <3>4, <4>1, <4>3
        <5>. QED BY <5>2, <5>3 DEF Progress
      <4>4. CASE ~(q < 3)
        <5>1. q = 3
              BY <4>2, <4>4
        <5>2. Upto(f, q, e) = Turns(f)
              BY <4>5, <5>1
        <5>3. Same(f, Turns(f))'
          <6>1. PICK P : P = Turns(f)
                OBVIOUS
          <6>2. Same(f, P)'
                BY <3>3, <4>1, <5>2, <6>1
          <6>. QED BY <3>2, <6>1, <6>2
        <5>4. dpc' = "functions" /\ function' = function + 1
              BY <2>1, <4>1, <4>4
        <5>5. f < function'
              BY <3>1, <3>4, <5>4
        <5>. QED BY <5>3, <5>4, <5>5 DEF Progress
      <4>. QED BY <4>3, <4>4
    <3>5. CASE f # function
      <4>1. Same(f, {}) \/ (f < function /\ Same(f, Turns(f)))
            BY <3>1, <3>5 DEF Progress
      <4>2. f < function => f < function' /\ f # function
        <5>1. function' = function \/ function' = function + 1
              BY <2>1
        <5>. QED BY <3>1, <3>5, <5>1
      <4>3. (Same(f, {}) \/ (f < function /\ Same(f, Turns(f))))'
        <5>1. CASE Same(f, {})
              BY <3>3, <5>1
        <5>2. CASE f < function /\ Same(f, Turns(f))
          <6>1. PICK P : P = Turns(f)
                OBVIOUS
          <6>2. Same(f, P)'
                BY <3>3, <5>2, <6>1
          <6>3. Same(f, Turns(f))'
                BY <3>2, <6>1, <6>2
          <6>. QED BY <4>2, <5>2, <6>3
        <5>. QED BY <4>1, <5>1, <5>2
      <4>4. dpc' = "triggers" => f # function'
            BY <2>1, <3>5
      <4>. QED BY <4>3, <4>4 DEF Progress
    <3>. QED BY <3>4, <3>5
  <2>5. \A q \in 1..3 : Extracted(q)'
        BY <1>3, <1>5, <2>1, <2>2
  <2>6. DOMAIN AllFunctions' = DOMAIN AllFunctions
        BY <1>4, <2>1
  <2>7. dpc' = "functions" => provider' = 1 /\ event' = 1
        BY <2>1
  <2>. QED BY <1>3, <2>1, <2>2, <2>4, <2>5, <2>6, <2>7 DEF TriggerInv, Sending
<1>10. CASE UNCHANGED <<resources, sourceVars>>
  <2>1. /\ UNCHANGED <<resources, dpc, provider, extracted, function, event, created>>
        BY <1>10 DEF sourceVars
  <2>2. UNCHANGED AllFunctions
        BY <1>4, <2>1
  <2>3. ASSUME NEW f, Progress(f)
        PROVE  Progress(f)'
    <3>1. Turns(f)' = Turns(f) /\ \A q, e : Upto(f, q, e)' = Upto(f, q, e)
          BY <2>1, PlacesStay
    <3>2. \A P : Same(f, P)' <=> Same(f, P)
          BY <2>1, SameStays
    <3>3. Same(f, Turns(f))' <=> Same(f, Turns(f))
      <4>1. PICK P : P = Turns(f)
            OBVIOUS
      <4>. QED BY <3>1, <3>2, <4>1
    <3>4. \A q, e : Same(f, Upto(f, q, e))' <=> Same(f, Upto(f, q, e))
      <4> SUFFICES ASSUME NEW q, NEW e PROVE Same(f, Upto(f, q, e))' <=> Same(f, Upto(f, q, e))
          OBVIOUS
      <4>1. PICK P : P = Upto(f, q, e)
            OBVIOUS
      <4>. QED BY <3>1, <3>2, <4>1
    <3>. QED BY <2>1, <2>3, <3>2, <3>3, <3>4 DEF Progress
  <2>4. \A q : Extracted(q)' <=> Extracted(q)
        BY <1>5, <2>1
  <2>. QED BY <1>3, <2>1, <2>2, <2>3, <2>4 DEF TriggerInv
<1>11. StartApi \/ Invoke \/ UNCHANGED vars => UNCHANGED <<resources, sourceVars>>
       BY DEF StartApi, RouteNext, CollectFunction, CollectApi, CollectNothing, Merge, Mount, Serve,
              Invoke, SetUp, vars
<1>. QED BY <1>6, <1>7, <1>8, <1>9, <1>10, <1>11 DEF Next, Deploy, SourceNext
LEMMA TriggerInvariant == Spec => []TriggerInv
<1>1. Init => TriggerInv
  <2> SUFFICES ASSUME Init PROVE TriggerInv
      OBVIOUS
  <2>1. /\ dpc = "enter" /\ provider = 1 /\ event = 1 /\ created = <<>>
        /\ extracted = [p \in ToSet(Providers) |-> <<>>]
        BY DEF Init, SourceInit
  <2>2. IsList(created) /\ DOMAIN created = {}
        BY <2>1 DEF IsList
  <2>3. DOMAIN extracted = ToSet(Providers) /\ extracted = [x \in ToSet(Providers) |-> extracted[x]]
        BY <2>1
  <2>4. 1..provider - 1 = {}
        BY <2>1
  <2>. QED BY <2>1, <2>2, <2>3, <2>4 DEF TriggerInv, Sending
<1>2. Chosen /\ SourceInv /\ TriggerInv /\ [Next]_vars => TriggerInv'
      BY TriggerStep
<1>. QED BY <1>1, <1>2, ChosenInvariant, SourceInvariant, PTL DEF Spec

\* Each event that asks for a trigger is the event of one provider, once.
LEMMA ProvidersShareEvents ==
  ASSUME Chosen, NEW f \in DOMAIN AllFunctions, NEW x, IsFiniteSet(Asking(f, Turns(f), x))
  PROVE  Cardinality(AskedFor(f, x)) = Cardinality(Asking(f, Turns(f), x))
<1> DEFINE events == AllFunctions[f].events
           At(q) == CHOOSE h : Places(h, Events(q, f), events, Providers[q], Len(events))
           S == Asking(f, Turns(f), x)
           T == AskedFor(f, x)
           F == [p \in S |-> At(p[1])[p[2]]]
<1>1. IsList(events) /\ DOMAIN events = 1..Len(events)
      BY FunctionsOfTemplate, Lists
<1>2. ASSUME NEW q \in 1..3
      PROVE  Places(At(q), Events(q, f), events, Providers[q], Len(events))
  <2>1. \E h : Places(h, Events(q, f), events, Providers[q], Len(events))
        BY <1>1, OfTypePlaces DEF Events, EventsOf
  <2>. QED BY <2>1
<1> HIDE DEF At
<1>3. ASSUME NEW q \in 1..3, NEW j \in 1..Len(Events(q, f))
      PROVE  /\ At(q)[j] \in 1..Len(events) /\ events[At(q)[j]].type = Providers[q]
             /\ Events(q, f)[j] = events[At(q)[j]]
             /\ \A k \in 1..Len(Events(q, f)) : At(q)[j] = At(q)[k] => j = k
  <2> DEFINE h == At(q)
             u == Events(q, f)
             type == Providers[q]
  <2>1. Places(h, u, events, type, Len(events))
        BY <1>2
  <2> HIDE DEF h, u, type, events
  <2>2. /\ h \in [1..Len(u) -> {i \in 1..Len(events) : events[i].type = type}]
        /\ \A l, k \in 1..Len(u) : h[l] = h[k] => l = k
        /\ \A l \in 1..Len(u) : u[l] = events[h[l]]
        BY <2>1 DEF Places
  <2>3. j \in 1..Len(u)
        BY DEF u
  <2>4. h[j] \in 1..Len(events) /\ events[h[j]].type = type
        BY <2>2, <2>3
  <2>. QED BY <2>2, <2>3, <2>4 DEF h, u, type
<1>4. \A p \in S : /\ p[1] \in 1..3 /\ p[2] \in 1..Len(Events(p[1], f)) /\ p = <<p[1], p[2]>>
                   /\ Trigger(Events(p[1], f)[p[2]]) = x
      BY DEF Asking, Turns, Due
<1>5. \A q, r \in 1..3 : Providers[q] = Providers[r] => q = r
  <2>1. \A q \in 1..3 : q = 1 \/ q = 2 \/ q = 3
        OBVIOUS
  <2>. QED BY <2>1, ThreeProviders
<1>6. \A q \in 1..3 : Providers[q] \in ToSet(Providers)
      BY ThreeProviders DEF ToSet
<1> HIDE DEF events, S
<1>7. F \in [S -> T]
  <2>1. ASSUME NEW p \in S PROVE At(p[1])[p[2]] \in T
    <3>1. /\ At(p[1])[p[2]] \in DOMAIN events /\ events[At(p[1])[p[2]]].type \in ToSet(Providers)
          /\ Trigger(events[At(p[1])[p[2]]]) = x
          BY <1>1, <1>3, <1>4, <1>6
    <3>. QED BY <3>1 DEF AskedFor, Sources, events
  <2>. QED BY <2>1
<1>8. ASSUME NEW a \in S, NEW b \in S, F[a] = F[b]
      PROVE  a = b
  <2>1. At(a[1])[a[2]] = At(b[1])[b[2]]
        BY <1>8
  <2> DEFINE q == a[1]
             r == b[1]
             j == a[2]
             k == b[2]
  <2>4. q \in 1..3 /\ r \in 1..3 /\ j \in 1..Len(Events(q, f)) /\ k \in 1..Len(Events(r, f))
        BY <1>4
  <2>5. At(q)[j] = At(r)[k]
        BY <2>1
  <2> HIDE DEF q, r, j, k
  <2>6. events[At(q)[j]].type = Providers[q] /\ events[At(r)[k]].type = Providers[r]
        BY <1>3, <2>4
  <2>7. q = r
        BY <1>5, <2>4, <2>5, <2>6
  <2>8. j = k
        BY <1>3, <2>4, <2>5, <2>7
  <2>2. a[1] = b[1]
        BY <2>7 DEF q, r
  <2>3. a[2] = b[2]
        BY <2>8 DEF j, k
  <2>. QED BY <1>4, <2>2, <2>3
<1>9. ASSUME NEW i \in T
      PROVE  \E p \in S : F[p] = i
  <2>1. i \in DOMAIN events /\ events[i].type \in ToSet(Providers) /\ Trigger(events[i]) = x
        BY DEF AskedFor, Sources, events
  <2>2. PICK q \in 1..3 : events[i].type = Providers[q]
        BY <2>1, ThreeProviders DEF ToSet
  <2>3. PICK j \in 1..Len(Events(q, f)) : At(q)[j] = i
        BY <1>1, <1>2, <2>1, <2>2 DEF Places
  <2>4. <<q, j>> \in S
    <3>1. Due(q, f, j) = x
          BY <1>3, <2>1, <2>3 DEF Due
    <3>2. j \in Nat
          BY EventsAreLists
    <3>. QED BY <2>2, <2>3, <3>1, <3>2 DEF S, Asking, Turns
  <2>5. F[<<q, j>>] = i
        BY <2>3, <2>4
  <2>. QED BY <2>4, <2>5
<1> HIDE DEF F
<1>10. F \in Bijection(S, T)
  <2>1. F \in [S -> T] /\ (\A a, b \in S : F[a] = F[b] => a = b)
        /\ (\A t \in T : \E s \in S : F[s] = t)
        BY <1>7, <1>8, <1>9
  <2> HIDE DEF T
  <2>. QED BY <2>1, Fun_IsBij
<1>11. ExistsBijection(S, T)
       BY <1>10 DEF ExistsBijection
<1>12. IsFiniteSet(S)
       BY DEF S
<1> HIDE DEF T
<1>13. Cardinality(T) = Cardinality(S)
       BY <1>11, <1>12, FS_Bijection
<1>. QED BY <1>13 DEF S, T

\* Whatever the template, and whichever functions are new: a function that got
\* triggers got exactly those that its events ask for, each as often.
THEOREM DeclaredTriggersAreCreated == Spec => []TriggersAsDeclared
<1>1. ASSUME Chosen, SourceInv, TriggerInv
      PROVE  TriggersAsDeclared
  <2> SUFFICES ASSUME dpc = "done", NEW f \in {c.function : c \in ToSet(created)}
               PROVE  f \in DOMAIN AllFunctions
                      /\ \A x : Cardinality(CreatedFor(f, x)) = Cardinality(AskedFor(f, x))
      BY DEF TriggersAsDeclared
  <2>1. PICK i \in DOMAIN created : f = created[i].function
        BY DEF ToSet
  <2>2. f \in DOMAIN AllFunctions
        BY <1>1, <2>1 DEF TriggerInv
  <2>3. Same(f, {}) \/ Same(f, Turns(f))
        BY <1>1, <2>2 DEF TriggerInv, Progress, Sending
  <2>4. ~Same(f, {})
    <3> SUFFICES ASSUME Same(f, {}) PROVE FALSE
        OBVIOUS
    <3> DEFINE A == CreatedFor(f, created[i].trigger)
    <3>1. i \in A
          BY <2>1 DEF CreatedFor
    <3>2. Asking(f, {}, created[i].trigger) = {}
          BY DEF Asking
    <3>3. IsFiniteSet(A) /\ Cardinality(A) = 0
          BY <3>2, FS_EmptySet DEF Same
    <3> HIDE DEF A
    <3>. QED BY <3>1, <3>3, FS_EmptySet
  <2>5. ASSUME NEW x
        PROVE  Cardinality(CreatedFor(f, x)) = Cardinality(AskedFor(f, x))
    <3>1. IsFiniteSet(Asking(f, Turns(f), x))
          /\ Cardinality(CreatedFor(f, x)) = Cardinality(Asking(f, Turns(f), x))
          BY <2>3, <2>4 DEF Same
    <3>. QED BY <1>1, <2>2, <3>1, ProvidersShareEvents
  <2>. QED BY <2>2, <2>5
<1>. QED BY <1>1, ChosenInvariant, SourceInvariant, TriggerInvariant, PTL
=============================================================================
