--------------------------- MODULE PhasedRun_proofs ---------------------------
(***************************************************************************)
(* Which scripts, which environment, which container and which tests the   *)
(* agent of a row gets: proofs for any feature, any phases and critics and *)
(* any number of processes.                                                *)
(***************************************************************************)
EXTENDS PhasedRun, SequenceTheorems, FiniteSetTheorems, TLAPS

-----------------------------------------------------------------------------
(* Recursive functions on the natural numbers *)

LEMMA Induct ==
    ASSUME NEW S, 0 \in S, \A n \in Nat : n \in S => n + 1 \in S
    PROVE  Nat \subseteq S
<1> DEFINE bad == {n \in Nat : n \notin S}
           R == {r \in Nat \X Nat : r[1] < r[2]}
<1> SUFFICES ASSUME bad # {} PROVE FALSE OBVIOUS
<1>1. IsWellFoundedOn(R, Nat)
  <2>1. R = OpToRel(<, Nat) BY DEF OpToRel
  <2> QED BY <2>1, NatLessThanWellFounded
<1>2. bad \subseteq Nat OBVIOUS
<1> HIDE DEF R
<1>3. PICK x \in bad : \A y \in bad : ~ (<<y, x>> \in R) BY <1>1, <1>2, WFMin
<1>4. x # 0 /\ x \in Nat OBVIOUS
<1>5. x - 1 \in Nat /\ x - 1 < x /\ (x - 1) + 1 = x BY <1>4
<1>6. <<x - 1, x>> \in R BY <1>4, <1>5 DEF R
<1>7. x - 1 \in S BY <1>3, <1>5, <1>6
<1> QED BY <1>5, <1>7

\* f is made from b in N steps.
Made(f, N, X, b, step) ==
    /\ f \in [0 .. N -> X] /\ f[0] = b
    /\ \A n \in 1 .. N : f[n] = step[<<f[n - 1], n>>]

\* There is a function for every way to make the next value from the last.
LEMMA Recursion ==
    ASSUME NEW N \in Nat, NEW X, NEW b \in X, NEW step \in [X \X (1 .. N) -> X]
    PROVE  \E f : Made(f, N, X, b, step)
<1> DEFINE S == {k \in Nat : k <= N => \E f : Made(f, k, X, b, step)}
<1>1. 0 \in S
  <2>1. Made([n \in 0 .. 0 |-> b], 0, X, b, step) BY DEF Made
  <2> QED BY <2>1
<1>2. ASSUME NEW k \in Nat, k \in S PROVE k + 1 \in S
  <2> SUFFICES ASSUME k + 1 <= N PROVE \E f : Made(f, k + 1, X, b, step) OBVIOUS
  <2>1. PICK f : Made(f, k, X, b, step) BY <1>2
  <2> DEFINE g == [n \in 0 .. k + 1 |-> IF n <= k THEN f[n] ELSE step[<<f[k], k + 1>>]]
  <2>2. f[k] \in X /\ k + 1 \in 1 .. N BY <2>1 DEF Made
  <2>3. step[<<f[k], k + 1>>] \in X BY <2>2
  <2>4. g \in [0 .. k + 1 -> X] BY <2>1, <2>3 DEF Made
  <2>5. \A n \in 0 .. k : g[n] = f[n] OBVIOUS
  <2>6. g[k + 1] = step[<<f[k], k + 1>>] OBVIOUS
  <2>7. ASSUME NEW n \in 1 .. k + 1 PROVE g[n] = step[<<g[n - 1], n>>]
    <3> HIDE DEF g
    <3>1. CASE n = k + 1 BY <2>5, <2>6, <3>1
    <3>2. CASE n # k + 1
      <4>1. n \in 1 .. k /\ n - 1 \in 0 .. k /\ n \in 0 .. k BY <3>2
      <4>2. f[n] = step[<<f[n - 1], n>>] BY <2>1, <4>1 DEF Made
      <4>3. g[n] = f[n] /\ g[n - 1] = f[n - 1] BY <2>5, <4>1
      <4> QED BY <4>2, <4>3
    <3> QED BY <3>1, <3>2
  <2>8. g[0] = b BY <2>1 DEF Made
  <2>9. Made(g, k + 1, X, b, step) BY <2>4, <2>7, <2>8 DEF Made
  <2> QED BY <2>9
<1>3. Nat \subseteq S
  <2> HIDE DEF S
  <2> QED BY <1>1, <1>2, Induct
<1> QED BY <1>3

\* And two that are made alike are the same, as far as both go.
Alike(f, g, N) ==
    f[0] = g[0] /\ \A n \in 1 .. N : f[n - 1] = g[n - 1] => f[n] = g[n]

LEMMA MadeAlike ==
    ASSUME NEW N \in Nat, NEW f, NEW g, Alike(f, g, N)
    PROVE  \A n \in 0 .. N : f[n] = g[n]
<1> DEFINE S == {k \in Nat : k <= N => f[k] = g[k]}
<1>1. 0 \in S BY DEF Alike
<1>2. ASSUME NEW k \in Nat, k \in S PROVE k + 1 \in S
  <2> SUFFICES ASSUME k + 1 <= N PROVE f[k + 1] = g[k + 1] OBVIOUS
  <2>1. k + 1 \in 1 .. N /\ (k + 1) - 1 = k /\ f[k] = g[k] BY <1>2
  <2> QED BY <2>1 DEF Alike
<1>3. Nat \subseteq S
  <2> HIDE DEF S
  <2> QED BY <1>1, <1>2, Induct
<1> QED BY <1>3

-----------------------------------------------------------------------------
(* Sequences that are made step by step *)

LEMMA ListedTyped ==
    ASSUME NEW X, NEW c \in Seq(X), NEW there
    PROVE  /\ Listed(c, there) \in Seq(X)
           /\ \A i \in 1 .. Len(Listed(c, there)) : Listed(c, there)[i] \in there
           /\ Listed(c, there) = <<>> => \A i \in 1 .. Len(c) : c[i] \notin there
<1>n. PICK N \in Nat : N = Len(c) BY LenProperties
<1> DEFINE Step(s, n) == IF c[n] \in there THEN Append(s, c[n]) ELSE s
           step == [z \in Seq(X) \X (1 .. N) |-> Step(z[1], z[2])]
           Body(f) == [n \in 0 .. N |-> IF n = 0 THEN <<>>
                         ELSE IF c[n] \in there THEN Append(f[n - 1], c[n]) ELSE f[n - 1]]
<1>1. \A n \in 1 .. N : c[n] \in X BY <1>n, ElementOfSeq
<1>2. step \in [Seq(X) \X (1 .. N) -> Seq(X)]
  <2>1. ASSUME NEW s \in Seq(X), NEW n \in 1 .. N PROVE Step(s, n) \in Seq(X)
    BY <1>1, AppendProperties
  <2> QED BY <2>1
<1>3. PICK f : Made(f, N, Seq(X), <<>>, step)
  <2> HIDE DEF step
  <2>1. <<>> \in Seq(X) OBVIOUS
  <2> QED BY <1>2, <2>1, Recursion
<1>4. \A n \in 1 .. N : f[n - 1] \in Seq(X) /\ f[n] = Step(f[n - 1], n)
  <2> SUFFICES ASSUME NEW n \in 1 .. N
               PROVE f[n - 1] \in Seq(X) /\ f[n] = Step(f[n - 1], n) OBVIOUS
  <2>1. n - 1 \in 0 .. N OBVIOUS
  <2>2. f[n - 1] \in Seq(X) BY <1>3, <2>1 DEF Made
  <2>3. f[n] = step[<<f[n - 1], n>>] BY <1>3 DEF Made
  <2> HIDE DEF Step
  <2> QED BY <2>2, <2>3
<1>5. f = Body(f)
  <2>1. f \in [0 .. N -> Seq(X)] /\ f[0] = <<>> BY <1>3 DEF Made
  <2>2. ASSUME NEW n \in 0 .. N PROVE f[n] = Body(f)[n]
    <3>1. CASE n = 0 BY <2>1, <3>1
    <3>2. CASE n # 0
      <4>1. n \in 1 .. N BY <3>2
      <4> QED BY <1>4, <3>2, <4>1
    <3> QED BY <3>1, <3>2
  <2>3. f = [n \in 0 .. N |-> f[n]] BY <2>1
  <2> QED BY <2>2, <2>3
<1>6. \E h : h = Body(h) /\ Listed(c, there) = h[N]
  <2> DEFINE h == CHOOSE g : g = Body(g)
  <2>1. h = Body(h) BY <1>5
  <2>2. Listed(c, there) = h[N] BY <1>n DEF Listed
  <2> QED BY <2>1, <2>2
<1>7. PICK g : g = Body(g) /\ Listed(c, there) = g[N] BY <1>6
<1>8. \A n \in 0 .. N : f[n] = g[n]
  <2>1. \A n \in 0 .. N : g[n] = IF n = 0 THEN <<>> ELSE Step(g[n - 1], n) BY <1>7
  <2>2. f[0] = g[0] BY <1>3, <2>1 DEF Made
  <2>3. \A n \in 1 .. N : f[n - 1] = g[n - 1] => f[n] = g[n]
    <3> SUFFICES ASSUME NEW n \in 1 .. N, f[n - 1] = g[n - 1] PROVE f[n] = g[n] OBVIOUS
    <3>1. n \in 0 .. N /\ n # 0 OBVIOUS
    <3>2. g[n] = Step(g[n - 1], n) BY <2>1, <3>1
    <3> QED BY <1>4, <3>2
  <2>4. Alike(f, g, N) BY <2>2, <2>3 DEF Alike
  <2> QED BY <2>4, MadeAlike
<1>9. N \in 0 .. N OBVIOUS
<1>10. Listed(c, there) = f[N] BY <1>7, <1>8, <1>9
<1>11. f[0] = <<>> BY <1>3 DEF Made
<1> DEFINE Good(s, n) ==
               /\ s \in Seq(X) /\ \A i \in 1 .. Len(s) : s[i] \in there
               /\ s = <<>> => \A i \in 1 .. n : c[i] \notin there
           S == {n \in Nat : n <= N => Good(f[n], n)}
<1>12. 0 \in S
  <2>1. <<>> \in Seq(X) /\ Len(<<>>) = 0 OBVIOUS
  <2>2. Good(<<>>, 0) BY <2>1
  <2> HIDE DEF Good
  <2> QED BY <1>11, <2>2
<1>13. ASSUME NEW n \in Nat, n \in S PROVE n + 1 \in S
  <2> SUFFICES ASSUME n + 1 <= N PROVE Good(f[n + 1], n + 1) OBVIOUS
  <2>1. n + 1 \in 1 .. N /\ (n + 1) - 1 = n /\ n <= N OBVIOUS
  <2>2. f[n + 1] = Step(f[n], n + 1) BY <1>4, <2>1
  <2>3. Good(f[n], n) BY <1>13, <2>1
  <2>4. PICK s : s = f[n] OBVIOUS
  <2>5. CASE c[n + 1] \in there
    <3>1. f[n + 1] = Append(s, c[n + 1]) BY <2>2, <2>4, <2>5
    <3>2. c[n + 1] \in X BY <1>1, <2>1
    <3>3. /\ Append(s, c[n + 1]) \in Seq(X) /\ Append(s, c[n + 1]) # <<>>
          /\ Len(Append(s, c[n + 1])) = Len(s) + 1
          /\ \A i \in 1 .. Len(s) : Append(s, c[n + 1])[i] = s[i]
          /\ Append(s, c[n + 1])[Len(s) + 1] = c[n + 1]
      BY <2>3, <2>4, <3>2, AppendProperties
    <3>4. Len(s) \in Nat BY <2>3, <2>4, LenProperties
    <3>5. \A i \in 1 .. Len(s) + 1 : Append(s, c[n + 1])[i] \in there
      <4> SUFFICES ASSUME NEW i \in 1 .. Len(s) + 1 PROVE Append(s, c[n + 1])[i] \in there OBVIOUS
      <4>1. CASE i = Len(s) + 1 BY <2>5, <3>3, <4>1
      <4>2. CASE i \in 1 .. Len(s) BY <2>3, <2>4, <3>3, <4>2
      <4> QED BY <3>4, <4>1, <4>2
    <3> QED BY <3>1, <3>3, <3>5
  <2>6. CASE c[n + 1] \notin there
    <3>1. f[n + 1] = s BY <2>2, <2>4, <2>6
    <3>2. s = <<>> => \A i \in 1 .. n + 1 : c[i] \notin there BY <2>3, <2>4, <2>6
    <3> QED BY <2>3, <2>4, <3>1, <3>2
  <2> QED BY <2>5, <2>6
<1>14. Nat \subseteq S
  <2> HIDE DEF S
  <2> QED BY <1>12, <1>13, Induct
<1>15. Good(f[N], N) BY <1>14
<1> QED BY <1>n, <1>10, <1>15

\* The first n of the sequences in q, one after the other.
Flat(g, q) ==
    /\ \A i \in 2 .. Len(q) : g[i] = g[i - 1] \o q[i]
    /\ g[1] = q[1]
    /\ FlattenSeq(q) = g[Len(q)]

LEMMA Flattened ==
    ASSUME NEW X, NEW q \in Seq(Seq(X)), q # <<>>
    PROVE  \E g \in [1 .. Len(q) -> Seq(X)] : Flat(g, q)
<1>n. PICK N \in Nat \ {0} : N = Len(q) BY EmptySeq
<1> DEFINE step == [z \in Seq(X) \X (1 .. N) |-> z[1] \o q[z[2]]]
           Body(f) == [i \in 1 .. N |-> IF i = 1 THEN q[i] ELSE f[i - 1] \o q[i]]
<1>1. \A n \in 1 .. N : q[n] \in Seq(X) BY <1>n, ElementOfSeq
<1>2. step \in [Seq(X) \X (1 .. N) -> Seq(X)]
  <2>1. ASSUME NEW s \in Seq(X), NEW n \in 1 .. N PROVE s \o q[n] \in Seq(X)
    BY <1>1, ConcatProperties
  <2> QED BY <2>1
<1>3. PICK f : Made(f, N, Seq(X), <<>>, step)
  <2> HIDE DEF step
  <2>1. <<>> \in Seq(X) OBVIOUS
  <2> QED BY <1>2, <2>1, Recursion
<1>4. \A n \in 1 .. N : f[n - 1] \in Seq(X) /\ f[n] = f[n - 1] \o q[n] /\ f[n] \in Seq(X)
  <2> SUFFICES ASSUME NEW n \in 1 .. N
               PROVE f[n - 1] \in Seq(X) /\ f[n] = f[n - 1] \o q[n] /\ f[n] \in Seq(X) OBVIOUS
  <2>1. n - 1 \in 0 .. N /\ n \in 0 .. N OBVIOUS
  <2>2. f[n - 1] \in Seq(X) /\ f[n] \in Seq(X) BY <1>3, <2>1 DEF Made
  <2>3. f[n] = step[<<f[n - 1], n>>] BY <1>3 DEF Made
  <2> QED BY <2>2, <2>3
<1>5. f[1] = q[1]
  <2>1. f[0] = <<>> /\ 1 \in 1 .. N /\ 1 - 1 = 0 BY <1>3 DEF Made
  <2>2. f[1] = <<>> \o q[1] BY <1>4, <2>1
  <2> QED BY <1>1, <2>1, <2>2, ConcatEmptySeq
<1>g. PICK g : g = [i \in 1 .. N |-> f[i]] OBVIOUS
<1>6. g \in [1 .. N -> Seq(X)] BY <1>4, <1>g
<1>7. \A i \in 2 .. N : g[i] = g[i - 1] \o q[i]
  <2> SUFFICES ASSUME NEW i \in 2 .. N PROVE g[i] = g[i - 1] \o q[i] OBVIOUS
  <2>1. i \in 1 .. N /\ i - 1 \in 1 .. N OBVIOUS
  <2>2. g[i] = f[i] /\ g[i - 1] = f[i - 1] BY <1>g, <2>1
  <2> QED BY <1>4, <2>1, <2>2
<1>8. g[1] = q[1] BY <1>5, <1>g
<1>9. g = Body(g)
  <2>1. ASSUME NEW i \in 1 .. N PROVE g[i] = Body(g)[i]
    <3>1. CASE i = 1 BY <1>8, <3>1
    <3>2. CASE i # 1
      <4>1. i \in 2 .. N BY <3>2
      <4> QED BY <1>7, <3>2, <4>1
    <3> QED BY <3>1, <3>2
  <2>2. g = [i \in 1 .. N |-> g[i]] BY <1>g
  <2> QED BY <2>1, <2>2
<1>10. \E h : h = Body(h) /\ FlattenSeq(q) = h[N]
  <2> DEFINE h == CHOOSE e : e = Body(e)
  <2>1. h = Body(h) BY <1>9
  <2>2. FlattenSeq(q) = h[N] BY <1>n DEF FlattenSeq
  <2> QED BY <2>1, <2>2
<1>11. PICK h : h = Body(h) /\ FlattenSeq(q) = h[N] BY <1>10
<1>12. h[N] = g[N]
  <2>1. \A i \in 1 .. N : h[i] = IF i = 1 THEN q[i] ELSE h[i - 1] \o q[i] BY <1>11
  <2> DEFINE S == {n \in Nat : n + 1 <= N => h[n + 1] = g[n + 1]}
  <2>2. 0 \in S
    <3>1. 1 \in 1 .. N OBVIOUS
    <3>2. h[1] = q[1] BY <2>1, <3>1
    <3> QED BY <1>8, <3>2
  <2>3. ASSUME NEW n \in Nat, n \in S PROVE n + 1 \in S
    <3> SUFFICES ASSUME (n + 1) + 1 <= N PROVE h[(n + 1) + 1] = g[(n + 1) + 1] OBVIOUS
    <3>1. PICK m : m = (n + 1) + 1 OBVIOUS
    <3>2. m \in 2 .. N /\ m \in 1 .. N /\ m - 1 = n + 1 /\ m # 1 BY <3>1
    <3>3. h[m - 1] = g[m - 1] BY <2>3, <3>2
    <3>4. h[m] = h[m - 1] \o q[m] BY <2>1, <3>2
    <3> QED BY <1>7, <3>1, <3>2, <3>3, <3>4
  <2>4. Nat \subseteq S
    <3> HIDE DEF S
    <3> QED BY <2>2, <2>3, Induct
  <2>5. PICK n \in Nat : n = N - 1 OBVIOUS
  <2>6. n \in S BY <2>4
  <2>7. n + 1 <= N /\ n + 1 = N BY <2>5
  <2> QED BY <2>6, <2>7
<1> QED BY <1>n, <1>6, <1>7, <1>8, <1>11, <1>12 DEF Flat

LEMMA FlattenTyped ==
    ASSUME NEW X, NEW q \in Seq(Seq(X))
    PROVE  FlattenSeq(q) \in Seq(X)
<1>1. CASE q = <<>>
  <2>1. FlattenSeq(q) = <<>> BY <1>1 DEF FlattenSeq
  <2> QED BY <2>1
<1>2. CASE q # <<>>
  <2>1. PICK g \in [1 .. Len(q) -> Seq(X)] : Flat(g, q) BY <1>2, Flattened
  <2>2. Len(q) \in 1 .. Len(q) BY <1>2, EmptySeq
  <2> QED BY <2>1, <2>2 DEF Flat
<1> QED BY <1>1, <1>2

-----------------------------------------------------------------------------
(* The configuration of a phase *)

LEMMA MinIn ==
    ASSUME NEW D, D \subseteq 1 .. 4, D # {}
    PROVE  Min(D) \in D
<1>1. \E x \in D : \A y \in D : x <= y
  <2>1. CASE 1 \in D BY <2>1
  <2>2. CASE 1 \notin D /\ 2 \in D BY <2>2
  <2>3. CASE 1 \notin D /\ 2 \notin D /\ 3 \in D BY <2>3
  <2>4. CASE 1 \notin D /\ 2 \notin D /\ 3 \notin D
    <3>1. \A y \in 1 .. 4 : y = 1 \/ y = 2 \/ y = 3 \/ y = 4 OBVIOUS
    <3>2. \A y \in D : y = 4 BY <2>4, <3>1
    <3>3. PICK x \in D : x = 4 BY <3>2
    <3>4. 4 <= 4 OBVIOUS
    <3>5. \A y \in D : x <= y BY <3>2, <3>3, <3>4
    <3> QED BY <3>5
  <2> QED BY <2>1, <2>2, <2>3, <2>4
<1> QED BY <1>1 DEF Min

\* What a phase has of a setting, one of its layers has declared.
LayersOf(f, p) == {Get(f.phase, p, Nothing), Get(f.inline, p, Nothing), f.defaults, f.top}

LEMMA DeclaredInLayer ==
    ASSUME NEW f, NEW p, NEW k, k \notin PerKey, k \notin DOMAIN BuiltInDefaults,
           k \in DOMAIN ResolvePhaseConfig(f, p)
    PROVE  \E s \in LayersOf(f, p) : k \in DOMAIN s /\ ResolvePhaseConfig(f, p)[k] = s[k]
<1>l. PICK L : L = Layers(f, p) OBVIOUS
<1>c. PICK C : C = [x \in UNION {DOMAIN L[i] : i \in DOMAIN L} |-> Resolve(L, x)] OBVIOUS
<1>1. ResolvePhaseConfig(f, p) = C ++ BuiltInDefaults BY <1>l, <1>c DEF ResolvePhaseConfig
<1>2. k \in DOMAIN C /\ ResolvePhaseConfig(f, p)[k] = C[k] BY <1>1 DEF ++
<1>3. C[k] = Resolve(L, k) /\ k \in UNION {DOMAIN L[i] : i \in DOMAIN L} BY <1>2, <1>c
<1>4. Resolve(L, k) = L[Min(Declaring(L, k))][k] BY DEF Resolve, FirstDefined
<1>5. DOMAIN L = 1 .. 4 BY <1>l DEF Layers
<1>6. Declaring(L, k) \subseteq 1 .. 4 /\ Declaring(L, k) # {} BY <1>3, <1>5 DEF Declaring
<1>7. PICK i \in 1 .. 4 : i = Min(Declaring(L, k)) /\ k \in DOMAIN L[i]
  <2>1. Min(Declaring(L, k)) \in Declaring(L, k) BY <1>6, MinIn
  <2> QED BY <1>6, <2>1 DEF Declaring
<1>8. L[i] \in LayersOf(f, p) BY <1>l, <1>7 DEF Layers, LayersOf
<1> QED BY <1>2, <1>3, <1>4, <1>7, <1>8

LEMMA Declared ==
    ASSUME NEW f, NEW p, NEW k, k \notin PerKey, k \notin DOMAIN BuiltInDefaults,
           k \in DOMAIN ResolvePhaseConfig(f, p)
    PROVE  \E s \in ConfigSources(f) : k \in DOMAIN s /\ ResolvePhaseConfig(f, p)[k] = s[k]
<1>1. PICK s \in LayersOf(f, p) : k \in DOMAIN s /\ ResolvePhaseConfig(f, p)[k] = s[k]
  BY DeclaredInLayer
<1>2. s # Nothing BY <1>1 DEF Nothing
<1>3. s = Get(f.phase, p, Nothing) => s \in ConfigSources(f) BY <1>2 DEF Get, ConfigSources, Range
<1>4. s = Get(f.inline, p, Nothing) => s \in ConfigSources(f) BY <1>2 DEF Get, ConfigSources, Range
<1>5. s \in {f.defaults, f.top} => s \in ConfigSources(f) BY DEF ConfigSources
<1>6. s \in ConfigSources(f) BY <1>3, <1>4, <1>5 DEF LayersOf
<1> QED BY <1>1, <1>6

LEMMA OrderTyped ==
    ASSUME NEW f \in Features
    PROVE  LET order == EffectivePhaseOrder(f)
           IN  order \in Seq(STRING) /\ Len(order) \in Nat /\ DOMAIN order = 1 .. Len(order)
<1>1. f.order \in Seq(STRING) /\ PhaseNames \in Seq(STRING) BY FeaturesAssumption
<1>2. DiscoverPhases(f) \in Seq(STRING) BY <1>1, ListedTyped DEF DiscoverPhases
<1>3. EffectivePhaseOrder(f) \in Seq(STRING) BY <1>1, <1>2 DEF EffectivePhaseOrder
<1> QED BY <1>3, LenProperties

Reviews == [id : STRING, rounds : Nat]

LEMMA CriticsTyped ==
    ASSUME NEW f \in Features, NEW p
    PROVE  CriticList(f, ResolvePhaseConfig(f, p)) \in Seq(Reviews)
<1>1. CASE "critics" \in DOMAIN ResolvePhaseConfig(f, p)
  <2>1. "critics" \notin PerKey /\ "critics" \notin DOMAIN BuiltInDefaults
    BY DEF PerKey, BuiltInDefaults
  <2>2. PICK s \in ConfigSources(f) :
            "critics" \in DOMAIN s /\ ResolvePhaseConfig(f, p)["critics"] = s["critics"]
    BY <1>1, <2>1, Declared
  <2>3. s["critics"] \in Seq(Reviews) BY <2>2, FeaturesAssumption DEF Reviews
  <2> QED BY <1>1, <2>2, <2>3 DEF CriticList, Get
<1>2. CASE "critics" \notin DOMAIN ResolvePhaseConfig(f, p)
  <2>1. DiscoverCritics(f) \in Seq(STRING) BY FeaturesAssumption, ListedTyped DEF DiscoverCritics
  <2>2. PICK c \in Seq(STRING) : c = DiscoverCritics(f) BY <2>1
  <2>3. Len(c) \in Nat /\ DOMAIN c = 1 .. Len(c) /\ \A i \in 1 .. Len(c) : c[i] \in STRING
    BY LenProperties, ElementOfSeq
  <2>4. [i \in DOMAIN c |-> [id |-> c[i], rounds |-> 1]] \in [1 .. Len(c) -> Reviews]
    BY <2>3 DEF Reviews
  <2>5. [1 .. Len(c) -> Reviews] \subseteq Seq(Reviews) BY <2>3, SeqDef
  <2>6. CriticList(f, ResolvePhaseConfig(f, p)) = [i \in DOMAIN c |-> [id |-> c[i], rounds |-> 1]]
    BY <1>2, <2>2 DEF CriticList, Get
  <2> QED BY <2>4, <2>5, <2>6
<1> QED BY <1>1, <1>2

CriticSteps == [step : {"discover", "fix"}, critic : STRING, round : Nat]

LEMMA FunctionIsSeq ==
    ASSUME NEW X, NEW n \in Nat, NEW s \in [1 .. n -> X]
    PROVE  s \in Seq(X) /\ Len(s) = n
BY SeqDef

LEMMA TurnsTyped ==
    ASSUME NEW list \in Seq(Reviews)
    PROVE  CriticTurns(list) \in Seq(CriticSteps)
<1> DEFINE Round(c, r) == <<Turn("discover", list[c].id, r), Turn("fix", list[c].id, r)>>
           Rounds(c) == [r \in 1 .. list[c].rounds |-> Round(c, r)]
           All == [c \in DOMAIN list |-> FlattenSeq(Rounds(c))]
<1>1. PICK n \in Nat : n = Len(list) BY LenProperties
<1>2. DOMAIN list = 1 .. n BY <1>1, LenProperties
<1>3. ASSUME NEW c \in 1 .. n PROVE FlattenSeq(Rounds(c)) \in Seq(CriticSteps)
  <2>1. list[c] \in Reviews BY <1>1, ElementOfSeq
  <2>2. PICK m \in Nat : m = list[c].rounds BY <2>1 DEF Reviews
  <2>3. list[c].id \in STRING BY <2>1 DEF Reviews
  <2>4. ASSUME NEW r \in 1 .. m PROVE Round(c, r) \in Seq(CriticSteps)
    <3>1. Turn("discover", list[c].id, r) \in CriticSteps BY <2>3 DEF Turn, CriticSteps
    <3>2. Turn("fix", list[c].id, r) \in CriticSteps BY <2>3 DEF Turn, CriticSteps
    <3> QED BY <3>1, <3>2
  <2>5. Rounds(c) \in [1 .. m -> Seq(CriticSteps)]
    <3> HIDE DEF Round
    <3> QED BY <2>2, <2>4
  <2>6. Rounds(c) \in Seq(Seq(CriticSteps)) BY <2>5, FunctionIsSeq
  <2> QED BY <2>6, FlattenTyped
<1>4. All \in [1 .. n -> Seq(CriticSteps)]
  <2> HIDE DEF Rounds
  <2> QED BY <1>2, <1>3
<1>5. All \in Seq(Seq(CriticSteps)) BY <1>4, FunctionIsSeq
<1>6. CriticTurns(list) = FlattenSeq(All) BY DEF CriticTurns
<1> QED BY <1>5, <1>6, FlattenTyped

-----------------------------------------------------------------------------
(* The rows of a phase *)

\* The row is one of phase p: it has what all its rows have.
OfPhase(row, f, b, p) == \A k \in DOMAIN PhaseRow(f, b, p) : row[k] = PhaseRow(f, b, p)[k]

NoRestart == [level2 |-> FALSE, level3 |-> FALSE]

RowsOf(f, b) ==
    UNION {Range(CompilePhase(f, b, i)) : i \in DOMAIN EffectivePhaseOrder(f)}

ReviewRows(f, i) == CriticTurns(CriticList(f, ResolvePhaseConfig(f, EffectivePhaseOrder(f)[i])))

\* Whatever the run's own settings, a phase has as many rows.
LEMMA PhaseCompiled ==
    ASSUME NEW f \in Features, NEW b, NEW i \in DOMAIN EffectivePhaseOrder(f)
    PROVE  LET c == CompilePhase(f, b, i)
           IN  /\ Len(ReviewRows(f, i)) \in Nat
               /\ c \in Seq(RowsOf(f, b)) /\ Len(c) = 1 + Len(ReviewRows(f, i))
               /\ \A t \in 1 .. Len(c) : OfPhase(c[t], f, b, EffectivePhaseOrder(f)[i])
               /\ c[1].restart = RequiresRestart(f, b, i)
               /\ \A t \in 2 .. Len(c) : c[t].restart = NoRestart
<1>p. PICK p : p = EffectivePhaseOrder(f)[i] OBVIOUS
<1>r. PICK r \in Seq(CriticSteps) : r = ReviewRows(f, i)
  BY CriticsTyped, TurnsTyped DEF ReviewRows
<1>t. PICK first : first = Turn("impl", "", 0) OBVIOUS
<1>1. first.step = "impl" BY <1>t DEF Turn
<1> DEFINE Row_(t) == PhaseRow(f, b, p) ++ [step |-> t.step,
               findings |-> FindingsPath(p, t),
               restart |-> IF t.step = "impl" THEN RequiresRestart(f, b, i) ELSE NoRestart]
<1>2. PICK n \in Nat : n = Len(r) BY LenProperties
<1>3. PICK X : X = {first} \union CriticSteps OBVIOUS
<1>4. <<first>> \in Seq(X) /\ r \in Seq(X) /\ Len(<<first>>) = 1 /\ <<first>>[1] = first
  <2>1. r \in Seq(X) BY <1>3, SeqMonotonic
  <2> QED BY <1>3, <2>1
<1>5. PICK turns \in Seq(X) : turns = <<first>> \o r BY <1>4, ConcatProperties
<1>6. /\ Len(turns) = n + 1 /\ DOMAIN turns = 1 .. n + 1 /\ turns[1] = first
      /\ \A t \in 2 .. n + 1 : turns[t] \in CriticSteps
  <2>1. PICK e \in Seq(X) : e = <<first>> /\ Len(e) = 1 /\ e[1] = first BY <1>4
  <2>2. /\ Len(e \o r) = 1 + n
        /\ \A t \in 1 .. 1 + n : (e \o r)[t] = IF t <= 1 THEN e[t] ELSE r[t - 1]
    BY <1>2, <1>4, <2>1, ConcatProperties
  <2>3. turns = e \o r BY <1>5, <2>1
  <2>4. DOMAIN turns = 1 .. n + 1 BY <2>2, <2>3, LenProperties
  <2>5. ASSUME NEW t \in 2 .. n + 1 PROVE turns[t] \in CriticSteps
    <3>1. t - 1 \in 1 .. n /\ t \in 1 .. 1 + n /\ ~(t <= 1) OBVIOUS
    <3>2. turns[t] = r[t - 1] BY <2>2, <2>3, <3>1
    <3> QED BY <1>2, <3>1, <3>2, ElementOfSeq
  <2>6. turns[1] = first
    <3>1. 1 \in 1 .. 1 + n /\ 1 <= 1 OBVIOUS
    <3> QED BY <2>1, <2>2, <2>3, <3>1
  <2> QED BY <2>2, <2>3, <2>4, <2>5, <2>6
<1>7. PICK c : c = CompilePhase(f, b, i) OBVIOUS
<1>8. c = [t \in DOMAIN turns |-> Row_(turns[t])]
  BY <1>5, <1>7, <1>p, <1>r, <1>t DEF CompilePhase, ReviewRows, NoRestart
<1>9. c \in Seq(RowsOf(f, b)) /\ Len(c) = n + 1
  <2>1. \A t \in 1 .. n + 1 : c[t] \in RowsOf(f, b)
    <3>1. \A t \in 1 .. n + 1 : c[t] \in Range(c)
      <4> HIDE DEF Row_
      <4> QED BY <1>6, <1>8 DEF Range
    <3>2. Range(c) \subseteq RowsOf(f, b) BY <1>7 DEF RowsOf
    <3> QED BY <3>1, <3>2
  <2>2. c \in [1 .. n + 1 -> RowsOf(f, b)]
    <3> HIDE DEF Row_
    <3> QED BY <1>6, <1>8, <2>1
  <2> QED BY <2>2, FunctionIsSeq
<1>10. ASSUME NEW t PROVE /\ OfPhase(Row_(t), f, b, p)
                          /\ Row_(t).restart = IF t.step = "impl" THEN RequiresRestart(f, b, i) ELSE NoRestart
  <2>1. PICK own : own = [step |-> t.step, findings |-> FindingsPath(p, t),
                  restart |-> IF t.step = "impl" THEN RequiresRestart(f, b, i) ELSE NoRestart]
    OBVIOUS
  <2>2. "restart" \in DOMAIN own
          /\ own.restart = IF t.step = "impl" THEN RequiresRestart(f, b, i) ELSE NoRestart BY <2>1
  <2>3. "restart" \notin DOMAIN PhaseRow(f, b, p) BY DEF PhaseRow, PhaseLevel1_5, ++
  <2>4. Row_(t) = PhaseRow(f, b, p) ++ own BY <2>1
  <2> HIDE DEF Row_
  <2> QED BY <2>2, <2>3, <2>4 DEF OfPhase, ++
<1> HIDE DEF Row_
<1>11. c[1].restart = RequiresRestart(f, b, i) BY <1>1, <1>6, <1>8, <1>10
<1>12. ASSUME NEW t \in 2 .. n + 1 PROVE c[t].restart = NoRestart
  <2>1. turns[t] \in CriticSteps /\ t \in 1 .. n + 1 BY <1>6
  <2>2. turns[t].step # "impl" BY <2>1 DEF CriticSteps
  <2> QED BY <1>6, <1>8, <1>10, <2>1, <2>2
<1>13. \A t \in 1 .. n + 1 : OfPhase(c[t], f, b, p) BY <1>6, <1>8, <1>10
<1> QED BY <1>2, <1>7, <1>9, <1>11, <1>12, <1>13, <1>p, <1>r

-----------------------------------------------------------------------------
(* The rows of a feature: phase by phase, in order *)

\* A phase has a row and one for each turn of its critics, after s others.
RowsOfPhase(own, i, f, s) ==
    {j \in DOMAIN own : own[j] = i} = s + 1 .. s + 1 + Len(ReviewRows(f, i))

\* own tells of each row of q which of the first n phases it is one of.  They
\* follow one another, and only the first row of a phase may ask for a restart.
Owned(q, own, f, b, n) ==
    LET order == EffectivePhaseOrder(f)
    IN  /\ Len(q) \in Nat \ {0} /\ DOMAIN q = 1 .. Len(q)
        /\ own \in [1 .. Len(q) -> 1 .. n]
        /\ own[1] = 1 /\ own[Len(q)] = n
        /\ \A i \in 1 .. n : \E s \in Nat : RowsOfPhase(own, i, f, s)
        /\ q[1].restart = RequiresRestart(f, b, 1)
        /\ \A j \in 1 .. Len(q) : OfPhase(q[j], f, b, order[own[j]])
        /\ \A j \in 2 .. Len(q) :
              \/ own[j] = own[j - 1] /\ q[j].restart = NoRestart
              \/ own[j] = own[j - 1] + 1 /\ q[j].restart = RequiresRestart(f, b, own[j])

\* The owners with m rows of the next phase.
Extended(own, len, m, n) == [j \in 1 .. len + m |-> IF j <= len THEN own[j] ELSE n + 1]

LEMMA OwnedBegins ==
    ASSUME NEW f \in Features, NEW b, 1 \in DOMAIN EffectivePhaseOrder(f)
    PROVE  Owned(CompilePhase(f, b, 1), [j \in 1 .. 1 + Len(ReviewRows(f, 1)) |-> 1], f, b, 1)
<1>1. PICK c : c = CompilePhase(f, b, 1) OBVIOUS
<1>2. PICK m \in Nat : m = Len(ReviewRows(f, 1)) BY PhaseCompiled
<1>3. PICK own : own = [j \in 1 .. 1 + m |-> 1] OBVIOUS
<1>4. /\ Len(c) = 1 + m /\ DOMAIN c = 1 .. 1 + m
      /\ \A t \in 1 .. 1 + m : OfPhase(c[t], f, b, EffectivePhaseOrder(f)[1])
      /\ c[1].restart = RequiresRestart(f, b, 1)
      /\ \A t \in 2 .. 1 + m : c[t].restart = NoRestart
  <2>1. LET d == CompilePhase(f, b, 1)
        IN  /\ d \in Seq(RowsOf(f, b)) /\ Len(d) = 1 + Len(ReviewRows(f, 1))
            /\ \A t \in 1 .. Len(d) : OfPhase(d[t], f, b, EffectivePhaseOrder(f)[1])
            /\ d[1].restart = RequiresRestart(f, b, 1)
            /\ \A t \in 2 .. Len(d) : d[t].restart = NoRestart
    BY PhaseCompiled
  <2>2. DOMAIN c = 1 .. Len(c) BY <1>1, <2>1, LenProperties
  <2> QED BY <1>1, <1>2, <2>1, <2>2
<1>5. \A j \in 1 .. 1 + m : own[j] = 1 BY <1>3
<1>6. \A j \in 2 .. 1 + m : j \in 1 .. 1 + m /\ j - 1 \in 1 .. 1 + m OBVIOUS
<1>7. 1 \in 1 .. 1 + m /\ 1 + m \in 1 .. 1 + m OBVIOUS
<1>8. own \in [1 .. 1 + m -> 1 .. 1] BY <1>3
<1>9. \A j \in 2 .. 1 + m : own[j] = own[j - 1] BY <1>5, <1>6
<1>10. \A i \in 1 .. 1 : \E s \in Nat : RowsOfPhase(own, i, f, s)
  <2>1. {j \in DOMAIN own : own[j] = 1} = 0 + 1 .. 0 + 1 + m BY <1>5, <1>8
  <2>2. RowsOfPhase(own, 1, f, 0) BY <1>2, <2>1 DEF RowsOfPhase
  <2>3. \A i \in 1 .. 1 : i = 1 OBVIOUS
  <2> QED BY <2>2, <2>3
<1>11. \A j \in 1 .. 1 + m : OfPhase(c[j], f, b, EffectivePhaseOrder(f)[own[j]]) BY <1>4, <1>5
<1>12. \A j \in 2 .. 1 + m : own[j] = own[j - 1] /\ c[j].restart = NoRestart BY <1>4, <1>9
<1>13. Owned(c, own, f, b, 1)
  <2>1. own[1] = 1 /\ own[1 + m] = 1 BY <1>5, <1>7
  <2>2. Len(c) \in Nat \ {0} BY <1>4
  <2> QED BY <1>4, <1>8, <1>10, <1>11, <1>12, <2>1, <2>2 DEF Owned
<1> QED BY <1>1, <1>2, <1>3, <1>13

LEMMA OwnedGoesOn ==
    ASSUME NEW f \in Features, NEW b, NEW n \in Nat \ {0},
           n + 1 \in DOMAIN EffectivePhaseOrder(f),
           NEW q \in Seq(RowsOf(f, b)), NEW own, Owned(q, own, f, b, n)
    PROVE  Owned(q \o CompilePhase(f, b, n + 1),
                 Extended(own, Len(q), 1 + Len(ReviewRows(f, n + 1)), n), f, b, n + 1)
<1>i. PICK i \in Nat : i = n + 1 OBVIOUS
<1>1. PICK c : c = CompilePhase(f, b, i) OBVIOUS
<1>2. PICK m \in Nat \ {0} : m = 1 + Len(ReviewRows(f, i))
  <2>1. Len(ReviewRows(f, i)) \in Nat BY <1>i, PhaseCompiled
  <2> QED BY <2>1
<1>3. PICK len \in Nat \ {0} : len = Len(q) BY DEF Owned
<1>4. PICK p : p = EffectivePhaseOrder(f)[i] OBVIOUS
<1>5. /\ c \in Seq(RowsOf(f, b)) /\ Len(c) = m
      /\ \A t \in 1 .. m : OfPhase(c[t], f, b, p)
      /\ c[1].restart = RequiresRestart(f, b, i)
      /\ \A t \in 2 .. m : c[t].restart = NoRestart
  <2>1. LET d == CompilePhase(f, b, i)
        IN  /\ d \in Seq(RowsOf(f, b)) /\ Len(d) = 1 + Len(ReviewRows(f, i))
            /\ \A t \in 1 .. Len(d) : OfPhase(d[t], f, b, EffectivePhaseOrder(f)[i])
            /\ d[1].restart = RequiresRestart(f, b, i)
            /\ \A t \in 2 .. Len(d) : d[t].restart = NoRestart
    BY <1>i, PhaseCompiled
  <2> QED BY <1>1, <1>2, <1>4, <2>1
<1>6. PICK e : e = q \o c OBVIOUS
<1>d. e \in Seq(RowsOf(f, b)) BY <1>5, <1>6, ConcatProperties
<1>7. /\ Len(e) = len + m
      /\ \A j \in 1 .. len + m : e[j] = IF j <= len THEN q[j] ELSE c[j - len]
  BY <1>3, <1>5, <1>6, ConcatProperties
<1>8. PICK g : g = Extended(own, len, m, n) OBVIOUS
<1>9. \A j \in 1 .. len + m : g[j] = IF j <= len THEN own[j] ELSE i BY <1>i, <1>8 DEF Extended
<1>10. \A j \in 1 .. len : own[j] \in 1 .. n BY <1>3 DEF Owned
<1>11. g \in [1 .. len + m -> 1 .. i]
  <2>1. ASSUME NEW j \in 1 .. len + m PROVE g[j] \in 1 .. i
    <3>1. CASE j <= len
      <4>1. j \in 1 .. len /\ g[j] = own[j] BY <1>9, <3>1
      <4>2. own[j] \in 1 .. n BY <1>10, <4>1
      <4> QED BY <1>i, <4>1, <4>2
    <3>2. CASE ~(j <= len)
      <4>1. g[j] = i BY <1>9, <3>2
      <4> QED BY <1>i, <4>1
    <3> QED BY <3>1, <3>2
  <2>2. g = [j \in 1 .. len + m |-> g[j]] BY <1>8 DEF Extended
  <2> QED BY <2>1, <2>2
<1>12. 1 \in 1 .. len + m /\ 1 <= len /\ len + m \in 1 .. len + m /\ ~(len + m <= len) OBVIOUS
<1>13. g[1] = 1 /\ g[len + m] = i
  <2>1. own[1] = 1 BY DEF Owned
  <2> QED BY <1>9, <1>12, <2>1
<1>14. e[1].restart = RequiresRestart(f, b, 1)
  <2>1. e[1] = q[1] BY <1>7, <1>12
  <2> QED BY <2>1 DEF Owned
<1>15. ASSUME NEW j \in 1 .. len + m PROVE OfPhase(e[j], f, b, EffectivePhaseOrder(f)[g[j]])
  <2>1. CASE j <= len
    <3>1. j \in 1 .. len /\ e[j] = q[j] /\ g[j] = own[j] BY <1>7, <1>9, <2>1
    <3> QED BY <1>3, <3>1 DEF Owned
  <2>2. CASE ~(j <= len)
    <3>1. e[j] = c[j - len] /\ g[j] = i /\ j - len \in 1 .. m BY <1>7, <1>9, <2>2
    <3> QED BY <1>4, <1>5, <3>1
  <2> QED BY <2>1, <2>2
<1>16. ASSUME NEW j \in 2 .. len + m
       PROVE  \/ g[j] = g[j - 1] /\ e[j].restart = NoRestart
              \/ g[j] = g[j - 1] + 1 /\ e[j].restart = RequiresRestart(f, b, g[j])
  <2>0. j \in 1 .. len + m /\ j - 1 \in 1 .. len + m OBVIOUS
  <2>1. CASE j <= len
    <3>1. j \in 2 .. len /\ e[j] = q[j] /\ g[j] = own[j] /\ g[j - 1] = own[j - 1]
      BY <1>7, <1>9, <2>0, <2>1
    <3> QED BY <1>3, <3>1 DEF Owned
  <2>2. CASE j = len + 1
    <3>0. ~(j <= len) /\ j - len = 1 BY <2>2
    <3>1. e[j] = c[1] /\ g[j] = i
      <4>1. e[j] = c[j - len] BY <1>7, <2>0, <3>0
      <4>2. g[j] = i BY <1>9, <2>0, <3>0
      <4> QED BY <3>0, <4>1, <4>2
    <3>2. j - 1 = len /\ g[j - 1] = own[len] BY <1>9, <2>0, <2>2
    <3>3. own[len] = n BY <1>3 DEF Owned
    <3> QED BY <1>i, <1>5, <3>1, <3>2, <3>3
  <2>3. CASE j > len + 1
    <3>1. ~(j <= len) /\ ~(j - 1 <= len) /\ j - len \in 2 .. m BY <2>3
    <3>2. e[j] = c[j - len] /\ g[j] = i /\ g[j - 1] = i BY <1>7, <1>9, <2>0, <3>1
    <3> QED BY <1>5, <3>1, <3>2
  <2> QED BY <2>1, <2>2, <2>3
<1>18. ASSUME NEW h \in 1 .. i PROVE \E s \in Nat : RowsOfPhase(g, h, f, s)
  <2>0. DOMAIN g = 1 .. len + m /\ DOMAIN own = 1 .. len BY <1>3, <1>11 DEF Owned
  <2>1. CASE h \in 1 .. n
    <3>1. PICK s \in Nat : RowsOfPhase(own, h, f, s) BY <2>1 DEF Owned
    <3>2. h # i BY <1>i, <2>1
    <3>3. {j \in DOMAIN g : g[j] = h} = {j \in DOMAIN own : own[j] = h} BY <1>9, <2>0, <3>2
    <3> QED BY <3>1, <3>3 DEF RowsOfPhase
  <2>2. CASE h = i
    <3>1. \A j \in 1 .. len : own[j] # i BY <1>i, <1>10
    <3>2. {j \in DOMAIN g : g[j] = i} = len + 1 .. len + m BY <1>9, <2>0, <3>1
    <3>3. PICK r \in Nat : r = Len(ReviewRows(f, i)) BY <1>i, PhaseCompiled
    <3>4. len + m = len + 1 + r BY <1>2, <3>3
    <3>5. RowsOfPhase(g, i, f, len) BY <3>2, <3>3, <3>4 DEF RowsOfPhase
    <3> QED BY <2>2, <3>5
  <2> QED BY <1>i, <2>1, <2>2
<1>17. Owned(e, g, f, b, i)
  <2>1. Len(e) \in Nat \ {0} /\ DOMAIN e = 1 .. Len(e) BY <1>d, <1>7, LenProperties
  <2> QED BY <1>7, <1>11, <1>13, <1>14, <1>15, <1>16, <1>18, <2>1 DEF Owned
<1> QED BY <1>i, <1>1, <1>2, <1>3, <1>6, <1>8, <1>17

LEMMA RowsOwned ==
    ASSUME NEW f \in Features, NEW b, NEW d, EffectivePhaseOrder(f) # <<>>
    PROVE  \E own : /\ Owned(CompilePhasesToSubtasks(f, b), own, f, b, Len(EffectivePhaseOrder(f)))
                    /\ Owned(CompilePhasesToSubtasks(f, d), own, f, d, Len(EffectivePhaseOrder(f)))
<1>1. PICK N \in Nat \ {0} : N = Len(EffectivePhaseOrder(f)) /\ DOMAIN EffectivePhaseOrder(f) = 1 .. N
  BY OrderTyped, EmptySeq
<1>2. ASSUME NEW x
      PROVE  \E g \in [1 .. N -> Seq(RowsOf(f, x))] :
                /\ \A i \in 2 .. N : g[i] = g[i - 1] \o CompilePhase(f, x, i)
                /\ g[1] = CompilePhase(f, x, 1)
                /\ CompilePhasesToSubtasks(f, x) = g[N]
  <2>1. PICK q : q = [i \in 1 .. N |-> CompilePhase(f, x, i)] OBVIOUS
  <2>2. \A i \in 1 .. N : CompilePhase(f, x, i) \in Seq(RowsOf(f, x)) BY <1>1, PhaseCompiled
  <2>3. q \in [1 .. N -> Seq(RowsOf(f, x))] BY <2>1, <2>2
  <2>4. q \in Seq(Seq(RowsOf(f, x))) /\ Len(q) = N BY <2>3, FunctionIsSeq
  <2>5. q # <<>> BY <2>4
  <2>6. PICK g \in [1 .. Len(q) -> Seq(RowsOf(f, x))] : Flat(g, q) BY <2>4, <2>5, Flattened
  <2>7. CompilePhasesToSubtasks(f, x) = FlattenSeq(q) BY <1>1, <2>1 DEF CompilePhasesToSubtasks
  <2>8. \A i \in 1 .. N : q[i] = CompilePhase(f, x, i) BY <2>1
  <2>9. \A i \in 2 .. N : g[i] = g[i - 1] \o CompilePhase(f, x, i)
    <3> SUFFICES ASSUME NEW i \in 2 .. N PROVE g[i] = g[i - 1] \o CompilePhase(f, x, i) OBVIOUS
    <3>1. i \in 1 .. N OBVIOUS
    <3>2. g[i] = g[i - 1] \o q[i] BY <2>4, <2>6 DEF Flat
    <3>3. q[i] = CompilePhase(f, x, i) BY <2>8, <3>1
    <3> QED BY <3>2, <3>3
  <2>10. g[1] = CompilePhase(f, x, 1)
    <3>1. 1 \in 1 .. N OBVIOUS
    <3> QED BY <2>6, <2>8, <3>1 DEF Flat
  <2>11. CompilePhasesToSubtasks(f, x) = g[N] BY <2>4, <2>6, <2>7 DEF Flat
  <2> QED BY <2>4, <2>6, <2>9, <2>10, <2>11
<1>3. PICK g \in [1 .. N -> Seq(RowsOf(f, b))] :
                /\ \A i \in 2 .. N : g[i] = g[i - 1] \o CompilePhase(f, b, i)
                /\ g[1] = CompilePhase(f, b, 1)
                /\ CompilePhasesToSubtasks(f, b) = g[N]
  BY <1>2
<1>4. PICK h \in [1 .. N -> Seq(RowsOf(f, d))] :
                /\ \A i \in 2 .. N : h[i] = h[i - 1] \o CompilePhase(f, d, i)
                /\ h[1] = CompilePhase(f, d, 1)
                /\ CompilePhasesToSubtasks(f, d) = h[N]
  BY <1>2
<1> DEFINE Good(n) == \E own : Owned(g[n], own, f, b, n) /\ Owned(h[n], own, f, d, n)
           S == {n \in Nat : n + 1 <= N => Good(n + 1)}
<1>5. 0 \in S
  <2>1. 1 \in DOMAIN EffectivePhaseOrder(f) BY <1>1
  <2>2. PICK own : own = [j \in 1 .. 1 + Len(ReviewRows(f, 1)) |-> 1] OBVIOUS
  <2>3. Owned(g[1], own, f, b, 1) BY <1>3, <2>1, <2>2, OwnedBegins
  <2>4. Owned(h[1], own, f, d, 1) BY <1>4, <2>1, <2>2, OwnedBegins
  <2>5. Good(1) BY <2>3, <2>4
  <2> HIDE DEF Good
  <2>6. 0 + 1 = 1 OBVIOUS
  <2> QED BY <2>5, <2>6
<1>6. ASSUME NEW k \in Nat, k \in S PROVE k + 1 \in S
  <2> SUFFICES ASSUME (k + 1) + 1 <= N PROVE Good((k + 1) + 1) OBVIOUS
  <2>1. PICK n \in Nat \ {0} : n = k + 1 OBVIOUS
  <2>2. n + 1 \in 2 .. N /\ n \in 1 .. N /\ (n + 1) - 1 = n /\ n + 1 \in DOMAIN EffectivePhaseOrder(f)
    BY <1>1, <2>1
  <2>3. Good(n)
    <3> HIDE DEF Good
    <3> QED BY <1>6, <2>1, <2>2
  <2>4. PICK own : Owned(g[n], own, f, b, n) /\ Owned(h[n], own, f, d, n) BY <2>3
  <2>5. PICK q \in Seq(RowsOf(f, b)) : q = g[n] BY <2>2
  <2>6. PICK r \in Seq(RowsOf(f, d)) : r = h[n] BY <2>2
  <2>7. PICK m : m = 1 + Len(ReviewRows(f, n + 1)) OBVIOUS
  <2>8. Owned(q \o CompilePhase(f, b, n + 1), Extended(own, Len(q), m, n), f, b, n + 1)
    BY <2>2, <2>4, <2>5, <2>7, OwnedGoesOn
  <2>9. Owned(r \o CompilePhase(f, d, n + 1), Extended(own, Len(r), m, n), f, d, n + 1)
    BY <2>2, <2>4, <2>6, <2>7, OwnedGoesOn
  <2>10. Len(q) = Len(r)
    <3>1. /\ own \in [1 .. Len(q) -> 1 .. n] /\ own \in [1 .. Len(r) -> 1 .. n]
          /\ Len(q) \in Nat \ {0} /\ Len(r) \in Nat \ {0}
      BY <2>4, <2>5, <2>6 DEF Owned
    <3>2. PICK x \in Nat \ {0}, y \in Nat \ {0} : x = Len(q) /\ y = Len(r) BY <3>1
    <3>3. 1 .. x = 1 .. y BY <3>1, <3>2
    <3>4. x \in 1 .. y /\ y \in 1 .. x BY <3>3
    <3> QED BY <3>2, <3>4
  <2>11. g[n + 1] = q \o CompilePhase(f, b, n + 1) BY <1>3, <2>2, <2>5
  <2>12. h[n + 1] = r \o CompilePhase(f, d, n + 1) BY <1>4, <2>2, <2>6
  <2>13. Good(n + 1) BY <2>8, <2>9, <2>10, <2>11, <2>12
  <2> HIDE DEF Good
  <2> QED BY <2>1, <2>13
<1>7. Nat \subseteq S
  <2> HIDE DEF S
  <2> QED BY <1>5, <1>6, Induct
<1>8. Good(N)
  <2>1. PICK n \in Nat : n = N - 1 OBVIOUS
  <2>2. n + 1 = N /\ n + 1 <= N BY <2>1
  <2>3. Good(n + 1)
    <3>1. n \in S
      <4> HIDE DEF S
      <4> QED BY <1>7
    <3> HIDE DEF Good
    <3> QED BY <2>2, <3>1
  <2> HIDE DEF Good
  <2> QED BY <2>2, <2>3
<1> QED BY <1>1, <1>3, <1>4, <1>8

-----------------------------------------------------------------------------
(* What the rows have *)

LEMMA RowHas ==
    ASSUME NEW f, NEW b, NEW p, NEW r, OfPhase(r, f, b, p)
    PROVE  /\ r.phase = p
           /\ r.level2 = PhaseLevel2(f, p, b) /\ r.level3 = PhaseLevel3(f, p, b)
           /\ r.tests = PhaseTestScope(f, p)
           /\ r.noRunner = HasNoTests(ResolvePhaseConfig(f, p))
           /\ r.runner = PhaseLevel4(f, p)
<1>1. /\ {"phase", "level2", "level3", "tests", "noRunner", "runner"} \subseteq DOMAIN PhaseRow(f, b, p)
      /\ PhaseRow(f, b, p).phase = p
      /\ PhaseRow(f, b, p).level2 = PhaseLevel2(f, p, b)
      /\ PhaseRow(f, b, p).level3 = PhaseLevel3(f, p, b)
      /\ PhaseRow(f, b, p).tests = PhaseTestScope(f, p)
      /\ PhaseRow(f, b, p).noRunner = HasNoTests(ResolvePhaseConfig(f, p))
      /\ PhaseRow(f, b, p).runner = PhaseLevel4(f, p)
  BY DEF PhaseRow, PhaseLevel1_5, ++
<1> QED BY <1>1 DEF OfPhase

LEMMA SameLevel2 ==
    ASSUME NEW f, NEW b, NEW p, NEW q, NEW x, NEW y,
           x = PhaseLevel2(f, p, b), y = PhaseLevel2(f, q, b),
           \A k \in DOMAIN LEVEL_2_FIELDS : x[LEVEL_2_FIELDS[k]] = y[LEVEL_2_FIELDS[k]]
    PROVE  x = y
<1>1. x.profile = y.profile
  <2>1. "agent.profile" \in DOMAIN LEVEL_2_FIELDS /\ LEVEL_2_FIELDS["agent.profile"] = "profile"
    BY DEF LEVEL_2_FIELDS, ++, ::=
  <2>2. x[LEVEL_2_FIELDS["agent.profile"]] = y[LEVEL_2_FIELDS["agent.profile"]] BY <2>1
  <2> QED BY <2>1, <2>2
<1>2. x.install = y.install
  <2>1. "agent.install" \in DOMAIN LEVEL_2_FIELDS /\ LEVEL_2_FIELDS["agent.install"] = "install"
    BY DEF LEVEL_2_FIELDS, ++, ::=
  <2>2. x[LEVEL_2_FIELDS["agent.install"]] = y[LEVEL_2_FIELDS["agent.install"]] BY <2>1
  <2> QED BY <2>1, <2>2
<1>3. x.startup = y.startup
  <2>1. "container.startup" \in DOMAIN LEVEL_2_FIELDS /\ LEVEL_2_FIELDS["container.startup"] = "startup"
    BY DEF LEVEL_2_FIELDS, ++, ::=
  <2>2. x[LEVEL_2_FIELDS["container.startup"]] = y[LEVEL_2_FIELDS["container.startup"]] BY <2>1
  <2> QED BY <2>1, <2>2
<1>4. x.cedar = y.cedar
  <2>1. "container.cedar" \in DOMAIN LEVEL_2_FIELDS /\ LEVEL_2_FIELDS["container.cedar"] = "cedar"
    BY DEF LEVEL_2_FIELDS, ++, ::=
  <2>2. x[LEVEL_2_FIELDS["container.cedar"]] = y[LEVEL_2_FIELDS["container.cedar"]] BY <2>1
  <2> QED BY <2>1, <2>2
<1>5. x.noLeash = y.noLeash
  <2>1. "container.no-leash" \in DOMAIN LEVEL_2_FIELDS /\ LEVEL_2_FIELDS["container.no-leash"] = "noLeash"
    BY DEF LEVEL_2_FIELDS, ++, ::=
  <2>2. x[LEVEL_2_FIELDS["container.no-leash"]] = y[LEVEL_2_FIELDS["container.no-leash"]] BY <2>1
  <2> QED BY <2>1, <2>2
<1>6. ASSUME NEW r, NEW s, r = PhaseLevel2(f, s, b)
      PROVE  r = [profile |-> r.profile, install |-> r.install, startup |-> r.startup,
                  cedar |-> r.cedar, noLeash |-> r.noLeash]
  BY <1>6 DEF PhaseLevel2
<1>7. x = [profile |-> x.profile, install |-> x.install, startup |-> x.startup,
           cedar |-> x.cedar, noLeash |-> x.noLeash] BY <1>6
<1>8. y = [profile |-> y.profile, install |-> y.install, startup |-> y.startup,
           cedar |-> y.cedar, noLeash |-> y.noLeash] BY <1>6
<1> QED BY ONLY <1>1, <1>2, <1>3, <1>4, <1>5, <1>7, <1>8

LEMMA SameLevel3 ==
    ASSUME NEW f, NEW b, NEW p, NEW q, NEW x, NEW y,
           x = PhaseLevel3(f, p, b), y = PhaseLevel3(f, q, b),
           \A k \in DOMAIN LEVEL_3_FIELDS : x[LEVEL_3_FIELDS[k]] = y[LEVEL_3_FIELDS[k]]
    PROVE  x = y
<1>1. x.image = y.image
  <2>1. "container.image" \in DOMAIN LEVEL_3_FIELDS /\ LEVEL_3_FIELDS["container.image"] = "image"
    BY DEF LEVEL_3_FIELDS, ++, ::=
  <2>2. x[LEVEL_3_FIELDS["container.image"]] = y[LEVEL_3_FIELDS["container.image"]] BY <2>1
  <2> QED BY <2>1, <2>2
<1>2. x.sandbox = y.sandbox
  <2>1. "container.sandbox-profile" \in DOMAIN LEVEL_3_FIELDS
          /\ LEVEL_3_FIELDS["container.sandbox-profile"] = "sandbox"
    BY DEF LEVEL_3_FIELDS, ++, ::=
  <2>2. x[LEVEL_3_FIELDS["container.sandbox-profile"]] = y[LEVEL_3_FIELDS["container.sandbox-profile"]]
    BY <2>1
  <2> QED BY <2>1, <2>2
<1>3. x.engine = y.engine
  <2>1. "container.engine" \in DOMAIN LEVEL_3_FIELDS /\ LEVEL_3_FIELDS["container.engine"] = "engine"
    BY DEF LEVEL_3_FIELDS, ++, ::=
  <2>2. x[LEVEL_3_FIELDS["container.engine"]] = y[LEVEL_3_FIELDS["container.engine"]] BY <2>1
  <2> QED BY <2>1, <2>2
<1>4. x.compose = y.compose
  <2>1. "container.compose-file" \in DOMAIN LEVEL_3_FIELDS
          /\ LEVEL_3_FIELDS["container.compose-file"] = "compose"
    BY DEF LEVEL_3_FIELDS, ++, ::=
  <2>2. x[LEVEL_3_FIELDS["container.compose-file"]] = y[LEVEL_3_FIELDS["container.compose-file"]]
    BY <2>1
  <2> QED BY <2>1, <2>2
<1>6. ASSUME NEW r, NEW s, r = PhaseLevel3(f, s, b)
      PROVE  r = [image |-> r.image, sandbox |-> r.sandbox, engine |-> r.engine,
                  compose |-> r.compose]
  BY <1>6 DEF PhaseLevel3
<1>7. x = [image |-> x.image, sandbox |-> x.sandbox, engine |-> x.engine, compose |-> x.compose]
  BY <1>6
<1>8. y = [image |-> y.image, sandbox |-> y.sandbox, engine |-> y.engine, compose |-> y.compose]
  BY <1>6
<1> QED BY ONLY <1>1, <1>2, <1>3, <1>4, <1>7, <1>8

LEMMA RestartFlags ==
    ASSUME NEW f, NEW b, NEW i \in Nat
    PROVE  LET order == EffectivePhaseOrder(f)
           IN  /\ RequiresRestart(f, b, i).level2 <=>
                      i > 1 /\ PhaseLevel2(f, order[i], b) # PhaseLevel2(f, order[i - 1], b)
               /\ RequiresRestart(f, b, i).level3 <=>
                      i > 1 /\ PhaseLevel3(f, order[i], b) # PhaseLevel3(f, order[i - 1], b)
<1> DEFINE order == EffectivePhaseOrder(f)
           Two == i > 1 /\ PhaseLevel2(f, order[i], b) # PhaseLevel2(f, order[i - 1], b)
           Three == i > 1 /\ PhaseLevel3(f, order[i], b) # PhaseLevel3(f, order[i - 1], b)
<1>1. RequiresRestart(f, b, i) = [level2 |-> Two, level3 |-> Three] BY Zenon DEF RequiresRestart
<1>2. Two \in BOOLEAN /\ Three \in BOOLEAN OBVIOUS
<1> HIDE DEF Two, Three
<1>p. PICK X \in BOOLEAN, Y \in BOOLEAN : X = Two /\ Y = Three BY <1>2
<1>q. PICK r : r = RequiresRestart(f, b, i) OBVIOUS
<1>4. r = [level2 |-> X, level3 |-> Y] BY <1>1, <1>p, <1>q, Zenon
<1>5. (r.level2 <=> X) /\ (r.level3 <=> Y) BY <1>4, Zenon
<1>3. (RequiresRestart(f, b, i).level2 <=> Two) /\ (RequiresRestart(f, b, i).level3 <=> Three)
  BY <1>p, <1>q, <1>5, Zenon
<1> QED BY <1>3 DEF Two, Three

\* A row that goes on in the container of the row before needs no other.
LEMMA SameContainer ==
    ASSUME NEW own, NEW n, Owned(rows, own, feature, base, n),
           NEW i \in 2 .. Len(rows), TryStartTransition(i) = NoTransition
    PROVE  rows[i].level2 = rows[i - 1].level2 /\ rows[i].level3 = rows[i - 1].level3
<1>1. PICK len \in Nat \ {0} : len = Len(rows) BY DEF Owned
<1>2. i \in 1 .. len /\ i - 1 \in 1 .. len /\ i \in 2 .. len BY <1>1
<1>3. PICK order : order = EffectivePhaseOrder(feature) OBVIOUS
<1>4. OfPhase(rows[i], feature, base, order[own[i]]) /\ OfPhase(rows[i - 1], feature, base, order[own[i - 1]])
  BY <1>1, <1>2, <1>3 DEF Owned
<1>5. /\ rows[i].level2 = PhaseLevel2(feature, order[own[i]], base)
      /\ rows[i].level3 = PhaseLevel3(feature, order[own[i]], base)
      /\ rows[i - 1].level2 = PhaseLevel2(feature, order[own[i - 1]], base)
      /\ rows[i - 1].level3 = PhaseLevel3(feature, order[own[i - 1]], base)
  BY <1>4, RowHas
<1>6. CASE own[i] = own[i - 1] BY <1>5, <1>6
<1>7. CASE own[i] # own[i - 1]
  <2>1. own[i] = own[i - 1] + 1 /\ rows[i].restart = RequiresRestart(feature, base, own[i])
    BY <1>1, <1>2, <1>7 DEF Owned
  <2>2. PICK k \in Nat \ {0} : k = own[i - 1] BY <1>1, <1>2 DEF Owned
  <2>3. own[i] = k + 1 /\ own[i] - 1 = k /\ own[i] > 1 BY <2>1, <2>2
  <2>4. /\ rows[i].restart.level2
             <=> PhaseLevel2(feature, order[own[i]], base) # PhaseLevel2(feature, order[k], base)
        /\ rows[i].restart.level3
             <=> PhaseLevel3(feature, order[own[i]], base) # PhaseLevel3(feature, order[k], base)
    <3>1. PICK r \in Nat : r = own[i] BY <2>3
    <3>2. /\ RequiresRestart(feature, base, r).level2 <=>
                 r > 1 /\ PhaseLevel2(feature, order[r], base) # PhaseLevel2(feature, order[r - 1], base)
          /\ RequiresRestart(feature, base, r).level3 <=>
                 r > 1 /\ PhaseLevel3(feature, order[r], base) # PhaseLevel3(feature, order[r - 1], base)
      BY <1>3, RestartFlags
    <3>3. r > 1 /\ r - 1 = k /\ rows[i].restart = RequiresRestart(feature, base, r)
      BY <2>1, <2>3, <3>1
    <3> QED BY <3>1, <3>2, <3>3
  <2>5. CASE ~rows[i].restart.level2 /\ ~rows[i].restart.level3 BY <1>5, <2>2, <2>4, <2>5
  <2>6. CASE rows[i].restart.level2 \/ rows[i].restart.level3
    <3>1. BuildTransitionSnapshot(rows[i - 1], rows[i], i) = NoTransition
      BY <2>6 DEF TryStartTransition
    <3>2. i # 0 BY <1>2
    <3>3. PICK two, three : two = DetectLevel2Transition(rows[i - 1], rows[i])
                          /\ three = DetectLevel3Transition(rows[i - 1], rows[i]) OBVIOUS
    <3>4. \A c, s : [to |-> i, cost |-> c, fields |-> s] # NoTransition BY <3>2 DEF NoTransition
    <3>5. two = {} /\ three = {} BY <3>1, <3>3, <3>4 DEF BuildTransitionSnapshot
    <3>6. \A k_2 \in DOMAIN LEVEL_2_FIELDS :
             rows[i - 1].level2[LEVEL_2_FIELDS[k_2]] = rows[i].level2[LEVEL_2_FIELDS[k_2]]
      BY <3>3, <3>5 DEF DetectLevel2Transition
    <3>7. \A k_3 \in DOMAIN LEVEL_3_FIELDS :
             rows[i - 1].level3[LEVEL_3_FIELDS[k_3]] = rows[i].level3[LEVEL_3_FIELDS[k_3]]
      BY <3>3, <3>5 DEF DetectLevel3Transition
    <3>8. rows[i].level2 = rows[i - 1].level2 BY <1>5, <3>6, SameLevel2
    <3>9. rows[i].level3 = rows[i - 1].level3 BY <1>5, <3>7, SameLevel3
    <3> QED BY <3>8, <3>9
  <2> QED BY <2>5, <2>6
<1> QED BY <1>6, <1>7

-----------------------------------------------------------------------------
(* The inductive invariant *)

Known ==
    /\ feature \in Features /\ pc \in Places
    /\ pc \in {"new", "refused"} => cursor = 1
    /\ pc = "refused" => Refused
    /\ pc \notin {"new", "refused"} =>
          /\ ~Refused
          /\ base = OrchestratorBaseline(feature)
          /\ rows = CompilePhasesToSubtasks(feature, base)
          /\ cursor \in 1 .. Len(rows)

\* The boot scripts that are in force in a sandbox.
BootNow == BootScripts(IF "boot" \in lost THEN base.level2 ELSE Row.level2)

InSandbox ==
    /\ pc \in {"boot", "next", "agent"} => disk.hot = HotScripts(Row)
    /\ pc \in {"prepare", "open", "boot", "next", "agent", "paused"} =>
          "hot" \in DOMAIN disk /\ disk.boot = BootNow
    /\ pc \in {"boot", "next", "agent"} =>
          envFile = IF "env" \in lost THEN NoEnvFile ELSE SubtaskEnvFile(base, rows, Row)

InContainer ==
    pc \in {"next", "agent"} =>
        /\ box.boot = BootNow
        /\ box.opts = Container(Row.level2, Row.level3)

\* What no row sets stays as the container has it; and all of it does where the
\* file of the environment is not read.
InShell ==
    pc \in {"next", "agent"} =>
        /\ Without(shell.vars, ShadowKeys(base, rows)) =
              Without(ContainerEnv(base), ShadowKeys(base, rows))
        /\ OnHost(Row) \/ "env" \in lost => shell.vars = ContainerEnv(base)
        /\ EnvInForce

InRunner ==
    pc \in {"open", "boot", "next", "agent"} =>
        runner = [tests |-> TestsDir(feature, SubtaskTestScope(rows, cursor)),
                  script |-> PickRunnerOptsForSubtask(base, Row).script]

InRestart ==
    pc = "restart" =>
        cursor # 1 /\ transition = TryStartTransition(cursor) /\ transition # NoTransition

Inv == Known /\ InSandbox /\ InContainer /\ InShell /\ InRunner /\ InRestart

-----------------------------------------------------------------------------
(* The invariant is kept *)

LEMMA RowsInOrder ==
    ASSUME Known, pc \notin {"new", "refused"}
    PROVE  \E own : Owned(rows, own, feature, base, Len(EffectivePhaseOrder(feature)))
<1>1. EffectivePhaseOrder(feature) # <<>> BY DEF Known, Refused, PhaseCompileError
<1> QED BY <1>1, RowsOwned DEF Known

LEMMA RowsThere ==
    ASSUME Known, pc \notin {"new", "refused"}
    PROVE  Len(rows) \in Nat \ {0} /\ cursor \in 1 .. Len(rows) /\ DOMAIN rows = 1 .. Len(rows)
BY RowsInOrder DEF Known, Owned

LEMMA KnownBegins == Init => Known
BY DEF Init, Known, Places

LEMMA KnownKept ==
    ASSUME Known, [Next]_vars
    PROVE  Known'
<1>1. CASE Compile
  <2>1. feature \in Features /\ ~Refused /\ cursor = 1 BY <1>1 DEF Compile, Known
  <2>2. EffectivePhaseOrder(feature) # <<>> BY <2>1 DEF Refused, PhaseCompileError
  <2>3. /\ feature' = feature /\ cursor' = cursor /\ pc' = "create"
        /\ base' = OrchestratorBaseline(feature)
        /\ rows' = CompilePhasesToSubtasks(feature, base')
    BY <1>1 DEF Compile
  <2>4. PICK b : b = base' OBVIOUS
  <2>5. PICK own : Owned(CompilePhasesToSubtasks(feature, b), own, feature, b,
                         Len(EffectivePhaseOrder(feature)))
    BY <2>1, <2>2, RowsOwned
  <2>6. Len(rows') \in Nat \ {0} BY <2>3, <2>4, <2>5 DEF Owned
  <2>7. cursor' \in 1 .. Len(rows') BY <2>1, <2>3, <2>6
  <2>8. ~Refused' BY <2>1, <2>3 DEF Refused
  <2> QED BY <2>1, <2>3, <2>7, <2>8 DEF Known, Places
<1>2. CASE Refuse
  BY <1>2 DEF Refuse, specification, Known, Refused, Places
<1>3. CASE NextInPlace \/ StartTransition \/ AdvanceFails
  <2>1. /\ pc = "agent" /\ cursor' = cursor + 1 /\ cursor < Len(rows) /\ UNCHANGED specification
        /\ pc' \in {"next", "restart", "saved"}
    BY <1>3 DEF NextInPlace, StartTransition, AdvanceFails, Advance
  <2>2. Len(rows) \in Nat \ {0} /\ cursor \in 1 .. Len(rows) BY <2>1, RowsThere
  <2>3. cursor' \in 1 .. Len(rows') BY <2>1, <2>2 DEF specification
  <2>4. UNCHANGED <<feature, base, rows>> BY <2>1 DEF specification
  <2> QED BY <2>1, <2>3, <2>4 DEF Known, Refused, Places
<1>4. ASSUME UNCHANGED <<specification, cursor>>, pc' \in Places \ {"new", "refused"},
             pc \notin {"new", "refused"}
      PROVE  Known'
  BY <1>4 DEF specification, Known, Refused
<1>5. CASE CreateSandbox \/ PrepareRunner \/ RunnerUnprepared \/ OpenSession \/ RecoverRestart
             \/ Boot \/ AgentWorks \/ CompleteTransition \/ AbortedBySpentSignal
  BY <1>4, <1>5 DEF CreateSandbox, PrepareRunner, RunnerUnprepared, OpenSession, RecoverRestart,
     Boot, AgentWorks, CompleteTransition, AbortedBySpentSignal, Places
<1>6. CASE Finish \/ Stop \/ Pause \/ Resume \/ ResumeRebuilds \/ Start
  BY <1>4, <1>6 DEF Finish, Stop, Pause, Resume, ResumeRebuilds, Start, Continue, Places
<1>7. CASE UNCHANGED vars
  BY <1>7 DEF vars, specification, Known, Refused
<1> QED BY <1>1, <1>2, <1>3, <1>5, <1>6, <1>7 DEF Next

\* What the sandbox and the container have for a row, the next row finds that
\* goes on in them.
LEMMA GoesOn ==
    ASSUME Inv, NextInPlace
    PROVE  /\ cursor + 1 \in DOMAIN rows /\ UNCHANGED specification /\ cursor' = cursor + 1
           /\ Row' = rows[cursor + 1]
           /\ Row'.level2 = Row.level2 /\ Row'.level3 = Row.level3
           /\ BootNow' = BootNow
<1>1. /\ pc = "agent" /\ cursor' = cursor + 1 /\ cursor < Len(rows) /\ UNCHANGED <<feature, base, rows>>
      /\ TryStartTransition(cursor + 1) = NoTransition /\ lost' = lost \ {"env"}
  BY DEF NextInPlace, Advance, specification
<1>2. PICK own : Owned(rows, own, feature, base, Len(EffectivePhaseOrder(feature)))
  BY <1>1, RowsInOrder DEF Inv
<1>3. Len(rows) \in Nat \ {0} /\ cursor \in 1 .. Len(rows) BY <1>1, RowsThere DEF Inv
<1>4. PICK i \in Nat : i = cursor + 1 BY <1>3
<1>5. i \in 2 .. Len(rows) /\ i - 1 = cursor BY <1>1, <1>3, <1>4
<1>6. rows[i].level2 = rows[i - 1].level2 /\ rows[i].level3 = rows[i - 1].level3
  BY <1>1, <1>2, <1>4, <1>5, SameContainer
<1>7. Row' = rows[i] BY <1>1, <1>4 DEF Row
<1>8. Row'.level2 = Row.level2 /\ Row'.level3 = Row.level3 BY <1>5, <1>6, <1>7 DEF Row
<1>9. "boot" \in lost' <=> "boot" \in lost BY <1>1
<1>10. BootNow' = BootNow BY <1>1, <1>8, <1>9 DEF BootNow
<1>11. cursor + 1 \in DOMAIN rows BY <1>1, <1>4, <1>5, RowsThere DEF Inv
<1> QED BY <1>1, <1>4, <1>7, <1>8, <1>10, <1>11 DEF specification

LEMMA SandboxKept ==
    ASSUME Inv, [Next]_vars
    PROVE  InSandbox'
<1>1. CASE CreateSandbox
  <2>1. disk' = ScriptsOf(base) /\ lost' = {"boot"} /\ pc' = "prepare" /\ base' = base
    BY <1>1 DEF CreateSandbox, specification
  <2>2. "hot" \in DOMAIN disk' /\ disk'.boot = BootScripts(base.level2) BY <2>1 DEF ScriptsOf
  <2>3. BootNow' = BootScripts(base.level2) BY <2>1 DEF BootNow
  <2> QED BY <2>1, <2>2, <2>3 DEF InSandbox
<1>2. CASE OpenSession
  <2>1. /\ disk' = [disk EXCEPT !.hot = HotScripts(Row)] /\ envFile' = SubtaskEnvFile(base, rows, Row)
        /\ lost' = lost \ {"env"} /\ pc = "open" /\ pc' = "boot"
        /\ UNCHANGED <<feature, base, rows, cursor>>
    BY <1>2 DEF OpenSession, HotUpdate, specification
  <2>2. "hot" \in DOMAIN disk /\ disk.boot = BootNow BY <2>1 DEF Inv, InSandbox
  <2>3. Row' = Row BY <2>1 DEF Row
  <2>4. disk'.hot = HotScripts(Row') /\ "hot" \in DOMAIN disk' /\ disk'.boot = disk.boot
    BY <2>1, <2>2, <2>3
  <2>5. BootNow' = BootNow BY <2>1, <2>3 DEF BootNow
  <2>6. "env" \notin lost' BY <2>1
  <2> QED BY <2>1, <2>2, <2>3, <2>4, <2>5, <2>6 DEF InSandbox
<1>3. CASE RecoverRestart
  <2>1. /\ disk' = ScriptsOf(Row) /\ envFile' = NoEnvFile
        /\ lost' = {"env"} /\ pc' = "boot" /\ UNCHANGED <<feature, base, rows, cursor>>
    BY <1>3 DEF RecoverRestart, Refresh, specification
  <2>2. Row' = Row BY <2>1 DEF Row
  <2>3. disk'.hot = HotScripts(Row') /\ "hot" \in DOMAIN disk' /\ disk'.boot = BootScripts(Row'.level2)
    BY <2>1, <2>2 DEF ScriptsOf
  <2>4. "boot" \notin lost' /\ "env" \in lost' BY <2>1
  <2>5. BootNow' = BootScripts(Row'.level2) BY <2>4 DEF BootNow
  <2> QED BY <2>1, <2>3, <2>4, <2>5 DEF InSandbox
<1>4. CASE NextInPlace
  <2>1. /\ disk' = [disk EXCEPT !.hot = HotScripts(rows[cursor + 1])]
        /\ envFile' = SubtaskEnvFile(base, rows, rows[cursor + 1])
        /\ lost' = lost \ {"env"} /\ pc = "agent" /\ pc' = "next" /\ UNCHANGED <<feature, base, rows>>
    BY <1>4 DEF NextInPlace, Advance, HotUpdate, specification
  <2>2. Row' = rows[cursor + 1] /\ BootNow' = BootNow BY <1>4, GoesOn
  <2>3. "hot" \in DOMAIN disk /\ disk.boot = BootNow BY <2>1 DEF Inv, InSandbox
  <2>4. disk'.hot = HotScripts(Row') /\ "hot" \in DOMAIN disk' /\ disk'.boot = disk.boot
    BY <2>1, <2>2, <2>3
  <2>5. "env" \notin lost' BY <2>1
  <2> QED BY <2>1, <2>2, <2>3, <2>4, <2>5 DEF InSandbox
<1>5. ASSUME UNCHANGED <<specification, cursor, files, lost>>,
             \/ pc' = pc
             \/ pc = "prepare" /\ pc' = "open"
             \/ pc = "boot" /\ pc' = "next"
             \/ pc = "next" /\ pc' = "agent"
             \/ pc \in {"next", "agent"} /\ pc' = "paused"
             \/ pc = "paused" /\ pc' = "prepare"
      PROVE  InSandbox'
  <2>1. UNCHANGED <<feature, base, rows, cursor, disk, envFile, lost>> BY <1>5 DEF specification, files
  <2>2. Row' = Row BY <2>1 DEF Row
  <2>3. BootNow' = BootNow BY <2>1, <2>2 DEF BootNow
  <2> QED BY <1>5, <2>1, <2>2, <2>3 DEF Inv, InSandbox
<1>6. CASE PrepareRunner \/ Boot \/ AgentWorks \/ Pause \/ Resume \/ UNCHANGED vars
  BY <1>5, <1>6 DEF PrepareRunner, Boot, AgentWorks, Pause, Resume, Continue, vars, files
<1>7. ASSUME pc' \in {"refused", "create", "restart", "spent", "saved", "done"} PROVE InSandbox'
  BY <1>7 DEF InSandbox
<1>8. CASE Refuse \/ Compile \/ RunnerUnprepared \/ StartTransition \/ AdvanceFails
             \/ CompleteTransition \/ AbortedBySpentSignal \/ Finish \/ Stop \/ ResumeRebuilds \/ Start
  BY <1>7, <1>8 DEF Refuse, Compile, RunnerUnprepared, StartTransition, AdvanceFails,
     CompleteTransition, AbortedBySpentSignal, Finish, Stop, ResumeRebuilds, Start, Continue
<1> QED BY <1>1, <1>2, <1>3, <1>4, <1>6, <1>8 DEF Next

LEMMA ContainerKept ==
    ASSUME Inv, [Next]_vars
    PROVE  InContainer'
<1>1. CASE Boot
  <2>1. /\ box' = [boot |-> disk.boot, opts |-> Container(Row.level2, Row.level3)]
        /\ pc = "boot" /\ UNCHANGED <<feature, base, rows, cursor, lost>>
    BY <1>1 DEF Boot, specification
  <2>2. Row' = Row BY <2>1 DEF Row
  <2>3. BootNow' = BootNow BY <2>1, <2>2 DEF BootNow
  <2>4. disk.boot = BootNow BY <2>1 DEF Inv, InSandbox
  <2> QED BY <2>1, <2>2, <2>3, <2>4 DEF InContainer
<1>2. CASE NextInPlace
  <2>1. pc = "agent" /\ box' = box BY <1>2 DEF NextInPlace, Advance, container
  <2>2. Row'.level2 = Row.level2 /\ Row'.level3 = Row.level3 /\ BootNow' = BootNow BY <1>2, GoesOn
  <2> QED BY <2>1, <2>2 DEF Inv, InContainer
<1>3. ASSUME UNCHANGED <<base, rows, cursor, box, lost>>, pc \in {"next", "agent"} \/ pc' = pc
      PROVE  InContainer'
  <2>1. Row' = Row BY <1>3 DEF Row
  <2>2. BootNow' = BootNow BY <1>3, <2>1 DEF BootNow
  <2> QED BY <1>3, <2>1, <2>2 DEF Inv, InContainer
<1>4. CASE AgentWorks
  <2>1. UNCHANGED <<base, rows, cursor, box, lost>> /\ pc = "next"
    BY <1>4 DEF AgentWorks, specification
  <2> QED BY <1>3, <2>1
<1>8. CASE UNCHANGED vars
  <2>1. UNCHANGED <<base, rows, cursor, box, lost>> /\ pc' = pc
    BY <1>8 DEF vars, container, specification
  <2> QED BY <1>3, <2>1
<1>5. ASSUME pc' \notin {"next", "agent"} PROVE InContainer'
  BY <1>5 DEF InContainer
<1>6. CASE Refuse \/ Compile \/ CreateSandbox \/ PrepareRunner \/ RunnerUnprepared \/ OpenSession
             \/ RecoverRestart \/ StartTransition \/ AdvanceFails \/ CompleteTransition
  BY <1>5, <1>6 DEF Refuse, Compile, CreateSandbox, PrepareRunner, RunnerUnprepared, OpenSession,
     RecoverRestart, StartTransition, AdvanceFails, CompleteTransition
<1>7. CASE AbortedBySpentSignal \/ Finish \/ Stop \/ Pause \/ Resume \/ ResumeRebuilds \/ Start
  BY <1>5, <1>7 DEF AbortedBySpentSignal, Finish, Stop, Pause, Resume, ResumeRebuilds, Start, Continue
<1> QED BY <1>1, <1>2, <1>4, <1>6, <1>7, <1>8 DEF Next

-----------------------------------------------------------------------------
(* The environment of the agent's shell *)

LEMMA LlmKeys == ASSUME NEW c PROVE DOMAIN LlmEnvFromConfig(c) \subseteq LlmVars
<1>1. PICK u : u = (IF c.url = "" THEN Nothing ELSE "LLM_BASE_URL" ::= c.url) OBVIOUS
<1>2. DOMAIN Nothing = {} BY DEF Nothing
<1>3. DOMAIN u \subseteq {"LLM_BASE_URL"} BY <1>1, <1>2 DEF ::=
<1>4. LlmEnvFromConfig(c) = ("LLM_MODEL" ::= c.model) ++ ("LLM_API_KEY" ::= c.key) ++ u
  BY <1>1 DEF LlmEnvFromConfig
<1> QED BY <1>3, <1>4 DEF LlmVars, ::=, ++

\* A row sets nothing but what the other rows unset.
LEMMA EnvIsShadowed ==
    ASSUME NEW b, NEW q, NEW i \in DOMAIN q
    PROVE  DOMAIN ComputeSubtaskEnv(b, q[i]) \subseteq ShadowKeys(b, q)
<1> DEFINE r == q[i]
           Llm == LlmEnvFromConfig(ResolveAgentLlmConfig("coder", MergeLlmOverrides(r.llm, b.llm)))
           Own == HostValues({x \in r.secrets : IsAllowedSecretName(b, x)})
                    ++ r.env ++ HostValues(b.secrets) ++ b.env
<1>1. DOMAIN ComputeSubtaskEnv(b, r)
         = DOMAIN Llm \union DOMAIN ReviewerFlag(r.reviewer) \union (DOMAIN Own \ Reserved)
  <2>1. ComputeSubtaskEnv(b, r) = Llm ++ ReviewerFlag(r.reviewer) ++ Without(Own, Reserved)
    BY DEF ComputeSubtaskEnv
  <2>2. DOMAIN Without(Own, Reserved) = DOMAIN Own \ Reserved BY DEF Without
  <2> HIDE DEF Own, Llm
  <2> QED BY <2>1, <2>2 DEF ++
<1>2. DOMAIN Llm \subseteq AlwaysManagedKeys BY LlmKeys DEF AlwaysManagedKeys
<1>3. DOMAIN ReviewerFlag(r.reviewer) \subseteq AlwaysManagedKeys
  BY DEF ReviewerFlag, AlwaysManagedKeys, Nothing, ::=
<1>4. \A s : DOMAIN HostValues(s) \subseteq s BY DEF HostValues
<1>5. DOMAIN Own \subseteq (DOMAIN r.env \union r.secrets) \union (DOMAIN b.env \union b.secrets)
  <2>1. PICK s : s = {x \in r.secrets : IsAllowedSecretName(b, x)} /\ s \subseteq r.secrets OBVIOUS
  <2>2. Own = HostValues(s) ++ r.env ++ HostValues(b.secrets) ++ b.env BY <2>1
  <2>3. DOMAIN Own = DOMAIN HostValues(s) \union DOMAIN r.env
                        \union DOMAIN HostValues(b.secrets) \union DOMAIN b.env
    BY <2>2 DEF ++
  <2> HIDE DEF Own
  <2> QED BY <1>4, <2>1, <2>3
<1>6. r \in Range(q) BY DEF Range
<1>7. PICK sets : sets = {DOMAIN y.env \union y.secrets : y \in Range(q)} OBVIOUS
<1>8. ShadowKeys(b, q)
         = AlwaysManagedKeys \union (((DOMAIN b.env \union b.secrets) \union (UNION sets)) \ Reserved)
  BY <1>7 DEF ShadowKeys
<1>9. DOMAIN r.env \union r.secrets \in sets BY <1>6, <1>7
<1>10. DOMAIN r.env \union r.secrets \subseteq UNION sets BY <1>9
<1> HIDE DEF Own, Llm, r
<1>11. DOMAIN ComputeSubtaskEnv(b, r) \subseteq ShadowKeys(b, q)
  BY <1>1, <1>2, <1>3, <1>5, <1>8, <1>10
<1> QED BY <1>11 DEF r

IsMap(m) == m = [x \in DOMAIN m |-> m[x]]

LEMMA SameMaps ==
    ASSUME NEW m, NEW n, IsMap(m), IsMap(n), DOMAIN m = DOMAIN n,
           \A x \in DOMAIN m : m[x] = n[x]
    PROVE  m = n
BY DEF IsMap

\* Sourcing the file of a row in a shell that has v replaces what any row sets.
LEMMA Sourced ==
    ASSUME NEW v, NEW own, NEW keys, DOMAIN own \subseteq keys
    PROVE  /\ own ++ Without(v, keys \ DOMAIN own) = own ++ Without(v, keys)
           /\ Without(own ++ Without(v, keys), keys) = Without(v, keys)
<1>a. PICK a : a = Without(v, keys \ DOMAIN own) OBVIOUS
<1>c. PICK c : c = Without(v, keys) OBVIOUS
<1>m. PICK m : m = own ++ a OBVIOUS
<1>n. PICK n : n = own ++ c OBVIOUS
<1>w. PICK w : w = Without(n, keys) OBVIOUS
<1>1. DOMAIN a = DOMAIN v \ (keys \ DOMAIN own) /\ \A x \in DOMAIN a : a[x] = v[x]
  BY <1>a DEF Without
<1>2. DOMAIN c = DOMAIN v \ keys /\ IsMap(c) /\ \A x \in DOMAIN c : c[x] = v[x] BY <1>c DEF Without, IsMap
<1>3. /\ IsMap(m) /\ DOMAIN m = DOMAIN own \union DOMAIN a
      /\ \A x \in DOMAIN own : m[x] = own[x]
      /\ \A x \in DOMAIN a \ DOMAIN own : m[x] = a[x]
  BY <1>m DEF ++, IsMap
<1>4. /\ IsMap(n) /\ DOMAIN n = DOMAIN own \union DOMAIN c
      /\ \A x \in DOMAIN own : n[x] = own[x]
      /\ \A x \in DOMAIN c \ DOMAIN own : n[x] = c[x]
  BY <1>n DEF ++, IsMap
<1>8. IsMap(w) /\ DOMAIN w = DOMAIN n \ keys /\ \A x \in DOMAIN w : w[x] = n[x] BY <1>w DEF Without, IsMap
<1>5. DOMAIN m = DOMAIN n BY <1>1, <1>2, <1>3, <1>4
<1>6. \A x \in DOMAIN m : m[x] = n[x]
  <2> SUFFICES ASSUME NEW x \in DOMAIN m PROVE m[x] = n[x] OBVIOUS
  <2>1. CASE x \in DOMAIN own BY <1>3, <1>4, <2>1
  <2>2. CASE x \notin DOMAIN own
    <3>1. x \in DOMAIN a /\ x \in DOMAIN c BY <1>3, <1>4, <1>5, <2>2
    <3> QED BY <1>1, <1>2, <1>3, <1>4, <2>2, <3>1
  <2> QED BY <2>1, <2>2
<1>7. m = n BY <1>3, <1>4, <1>5, <1>6, SameMaps
<1>9. DOMAIN w = DOMAIN c BY <1>2, <1>4, <1>8
<1>10. \A x \in DOMAIN w : w[x] = c[x]
  <2> SUFFICES ASSUME NEW x \in DOMAIN w PROVE w[x] = c[x] OBVIOUS
  <2>1. x \in DOMAIN c \ DOMAIN own BY <1>2, <1>9
  <2> QED BY <1>4, <1>8, <2>1
<1>11. w = c BY <1>2, <1>8, <1>9, <1>10, SameMaps
<1> QED BY <1>a, <1>c, <1>m, <1>n, <1>w, <1>7, <1>11

LEMMA ContainerEnvIsMap == IsMap(ContainerEnv(base))
<1>1. \E a, c : ContainerEnv(base) = a ++ c BY Zenon DEF ContainerEnv
<1>2. PICK a, c, m : ContainerEnv(base) = m /\ m = a ++ c BY <1>1
<1>3. IsMap(m) BY <1>2 DEF ++, IsMap
<1> QED BY <1>2, <1>3

LEMMA EmptyFile ==
    ASSUME NEW s, IsMap(s.vars)
    PROVE  Source(s, NoEnvFile).vars = s.vars
<1>1. DOMAIN Nothing = {} BY DEF Nothing
<1>v. PICK v : v = s.vars OBVIOUS
<1>a. PICK a : a = Without(v, {}) OBVIOUS
<1>m. PICK m : m = Nothing ++ a OBVIOUS
<1>2. DOMAIN a = DOMAIN v /\ \A x \in DOMAIN a : a[x] = v[x]
  <2>1. DOMAIN a = DOMAIN v \ {} /\ \A x \in DOMAIN a : a[x] = v[x] BY <1>a DEF Without
  <2> QED BY <2>1
<1>3. IsMap(m) /\ DOMAIN m = DOMAIN a /\ \A x \in DOMAIN a : m[x] = a[x] BY <1>1, <1>m DEF ++, IsMap
<1>4. m = s.vars BY <1>v, <1>2, <1>3, SameMaps
<1>5. Source(s, NoEnvFile).vars = m BY <1>v, <1>a, <1>m DEF Source, NoEnvFile
<1> QED BY <1>4, <1>5

\* The environment at the beginning of a round decides that of the round.
LEMMA ShellKept ==
    ASSUME Inv, [Next]_vars
    PROVE  InShell'
<1>1. CASE Boot
  <2>1. shell' = [vars |-> ContainerEnv(base), options |-> Nothing] /\ pc' = "next" /\ UNCHANGED specification
    BY <1>1 DEF Boot
  <2>2. shell'.vars = ContainerEnv(base) /\ base' = base /\ rows' = rows BY <2>1 DEF specification
  <2> QED BY <2>1, <2>2 DEF InShell, EnvInForce, Working
<1>2. CASE AgentWorks
  <2>1. /\ pc = "next" /\ pc' = "agent" /\ UNCHANGED <<feature, base, rows, cursor, lost>>
        /\ shell' = IF OnHost(Row) THEN shell ELSE Source(shell, envFile)
    BY <1>2 DEF AgentWorks, specification
  <2>2. Row' = Row BY <2>1 DEF Row
  <2>3. /\ envFile = IF "env" \in lost THEN NoEnvFile ELSE SubtaskEnvFile(base, rows, Row)
        /\ Without(shell.vars, ShadowKeys(base, rows)) =
              Without(ContainerEnv(base), ShadowKeys(base, rows))
        /\ OnHost(Row) \/ "env" \in lost => shell.vars = ContainerEnv(base)
    BY <2>1 DEF Inv, InSandbox, InShell
  <2>4. CASE OnHost(Row) \/ "env" \in lost
    <3>1. shell.vars = ContainerEnv(base) BY <2>3, <2>4
    <3>2. shell'.vars = ContainerEnv(base)
      <4>1. CASE OnHost(Row) BY <2>1, <3>1, <4>1
      <4>2. CASE ~OnHost(Row)
        <5>1. envFile = NoEnvFile BY <2>3, <2>4, <4>2
        <5>2. shell' = Source(shell, NoEnvFile) BY <2>1, <4>2, <5>1
        <5>3. IsMap(shell.vars) BY <3>1, ContainerEnvIsMap
        <5> QED BY <3>1, <5>2, <5>3, EmptyFile
      <4> QED BY <4>1, <4>2
    <3>3. OnHost(Row') \/ "env" \in lost' BY <2>1, <2>2, <2>4
    <3> QED BY <2>1, <2>2, <3>2, <3>3 DEF InShell, EnvInForce, Working
  <2>5. CASE ~OnHost(Row) /\ "env" \notin lost
    <3>1. PICK own : own = ComputeSubtaskEnv(base, Row) OBVIOUS
    <3>2. PICK keys : keys = ShadowKeys(base, rows) OBVIOUS
    <3>3. cursor \in DOMAIN rows BY <2>1, RowsThere DEF Inv
    <3>4. DOMAIN own \subseteq keys BY <3>1, <3>2, <3>3, EnvIsShadowed DEF Row
    <3>5. envFile.vars = own /\ envFile.unset = keys \ DOMAIN own
      BY <2>3, <2>5, <3>1, <3>2 DEF SubtaskEnvFile
    <3>6. shell'.vars = own ++ Without(shell.vars, keys \ DOMAIN own) BY <2>1, <2>5, <3>5 DEF Source
    <3>7. PICK v : v = shell.vars OBVIOUS
    <3>8. shell'.vars = own ++ Without(v, keys) BY <3>4, <3>6, <3>7, Sourced
    <3>9. Without(v, keys) = Without(ContainerEnv(base), keys) BY <2>3, <3>2, <3>7
    <3>10. Without(shell'.vars, keys) = Without(v, keys)
      <4>1. Without(own ++ Without(v, keys), keys) = Without(v, keys) BY <3>4, Sourced
      <4> QED BY <3>8, <4>1
    <3>11. ~OnHost(Row') /\ "env" \notin lost' BY <2>1, <2>2, <2>5
    <3>12. ComputeSubtaskEnv(base', Row') = own /\ ShadowKeys(base', rows') = keys
             /\ ContainerEnv(base') = ContainerEnv(base)
      BY <2>1, <2>2, <3>1, <3>2
    <3>13. EnvInForce' BY <3>8, <3>9, <3>11, <3>12 DEF EnvInForce
    <3> QED BY <2>1, <3>9, <3>10, <3>11, <3>12, <3>13 DEF InShell
  <2> QED BY <2>4, <2>5
<1>3. CASE NextInPlace
  <2>1. /\ pc = "agent" /\ pc' = "next" /\ UNCHANGED <<feature, base, rows, shell>>
        /\ lost' = lost \ {"env"}
    BY <1>3 DEF NextInPlace, Advance, specification, container
  <2>2. Row'.level3 = Row.level3 BY <1>3, GoesOn
  <2>3. OnHost(Row') <=> OnHost(Row) BY <2>2 DEF OnHost
  <2>4. "env" \notin lost' BY <2>1
  <2>5. ~Working' BY <2>1 DEF Working
  <2> QED BY <2>1, <2>3, <2>4, <2>5 DEF Inv, InShell, EnvInForce
<1>4. CASE UNCHANGED vars
  <2>1. UNCHANGED <<feature, base, rows, cursor, shell, lost, pc>>
    BY <1>4 DEF vars, container, specification
  <2>2. Row' = Row BY <2>1 DEF Row
  <2> QED BY <2>1, <2>2 DEF Inv, InShell, EnvInForce, Working
<1>5. ASSUME pc' \notin {"next", "agent"} PROVE InShell'
  BY <1>5 DEF InShell
<1>6. CASE Refuse \/ Compile \/ CreateSandbox \/ PrepareRunner \/ RunnerUnprepared \/ OpenSession
             \/ RecoverRestart \/ StartTransition \/ AdvanceFails \/ CompleteTransition
  BY <1>5, <1>6 DEF Refuse, Compile, CreateSandbox, PrepareRunner, RunnerUnprepared, OpenSession,
     RecoverRestart, StartTransition, AdvanceFails, CompleteTransition
<1>7. CASE AbortedBySpentSignal \/ Finish \/ Stop \/ Pause \/ Resume \/ ResumeRebuilds \/ Start
  BY <1>5, <1>7 DEF AbortedBySpentSignal, Finish, Stop, Pause, Resume, ResumeRebuilds, Start, Continue
<1> QED BY <1>1, <1>2, <1>3, <1>4, <1>6, <1>7 DEF Next

-----------------------------------------------------------------------------
(* The test runner and the controlled restart *)

LEMMA RunnerKept ==
    ASSUME Inv, [Next]_vars
    PROVE  InRunner'
<1> DEFINE Given(f, b, q, i) == [tests |-> TestsDir(f, SubtaskTestScope(q, i)),
                                 script |-> PickRunnerOptsForSubtask(b, q[i]).script]
<1>1. CASE PrepareRunner
  <2>1. runner' = Given(feature, base, rows, cursor) /\ UNCHANGED <<feature, base, rows, cursor>>
    BY <1>1 DEF PrepareRunner, RefreshTestRunner, specification
  <2> QED BY <2>1 DEF InRunner, Row
<1>2. CASE NextInPlace
  <2>1. /\ runner' = Given(feature, base, rows, cursor + 1) /\ cursor' = cursor + 1
        /\ UNCHANGED <<feature, base, rows>>
    BY <1>2 DEF NextInPlace, Advance, RefreshTestRunner, specification
  <2> QED BY <2>1 DEF InRunner, Row
<1>3. ASSUME UNCHANGED <<feature, base, rows, cursor, runner>>,
             pc' = pc \/ pc \in {"open", "boot", "next", "agent"}
      PROVE  InRunner'
  BY <1>3 DEF Inv, InRunner, Row
<1>4. CASE OpenSession \/ RecoverRestart \/ Boot \/ AgentWorks
  BY <1>3, <1>4 DEF OpenSession, RecoverRestart, Boot, AgentWorks, specification
<1>5. CASE UNCHANGED vars
  BY <1>3, <1>5 DEF vars, specification
<1>6. ASSUME pc' \notin {"open", "boot", "next", "agent"} PROVE InRunner'
  BY <1>6 DEF InRunner
<1>7. CASE Refuse \/ Compile \/ CreateSandbox \/ RunnerUnprepared
             \/ StartTransition \/ AdvanceFails \/ CompleteTransition
  BY <1>6, <1>7 DEF Refuse, Compile, CreateSandbox, RunnerUnprepared,
     StartTransition, AdvanceFails, CompleteTransition
<1>8. CASE AbortedBySpentSignal \/ Finish \/ Stop \/ Pause \/ Resume \/ ResumeRebuilds \/ Start
  BY <1>6, <1>8 DEF AbortedBySpentSignal, Finish, Stop, Pause, Resume, ResumeRebuilds, Start, Continue
<1> QED BY <1>1, <1>2, <1>4, <1>5, <1>7, <1>8 DEF Next

LEMMA RestartKept ==
    ASSUME Inv, [Next]_vars
    PROVE  InRestart'
<1>1. CASE StartTransition
  <2>1. /\ cursor' = cursor + 1 /\ rows' = rows /\ pc = "agent"
        /\ transition' = TryStartTransition(cursor + 1) /\ transition' # NoTransition
    BY <1>1 DEF StartTransition, Advance, specification
  <2>2. cursor \in Nat \ {0} BY <2>1, RowsThere DEF Inv
  <2>3. cursor' # 1 BY <2>1, <2>2
  <2> QED BY <2>1, <2>3 DEF InRestart, TryStartTransition
<1>2. CASE UNCHANGED vars
  BY <1>2 DEF vars, specification, Inv, InRestart, TryStartTransition
<1>3. ASSUME pc' # "restart" PROVE InRestart'
  BY <1>3 DEF InRestart
<1>4. CASE Refuse \/ Compile \/ CreateSandbox \/ PrepareRunner \/ RunnerUnprepared \/ OpenSession
             \/ RecoverRestart \/ Boot \/ AgentWorks \/ NextInPlace \/ AdvanceFails
  BY <1>3, <1>4 DEF Refuse, Compile, CreateSandbox, PrepareRunner, RunnerUnprepared, OpenSession,
     RecoverRestart, Boot, AgentWorks, NextInPlace, AdvanceFails
<1>5. CASE CompleteTransition \/ AbortedBySpentSignal \/ Finish \/ Stop \/ Pause \/ Resume
             \/ ResumeRebuilds \/ Start
  BY <1>3, <1>5 DEF CompleteTransition, AbortedBySpentSignal, Finish, Stop, Pause, Resume,
     ResumeRebuilds, Start, Continue
<1> QED BY <1>1, <1>2, <1>4, <1>5 DEF Next

LEMMA InvHolds == Spec => []Inv
<1>1. Init => Inv
  <2> SUFFICES ASSUME Init PROVE Inv OBVIOUS
  <2>1. pc = "new" BY DEF Init
  <2> QED BY <2>1, KnownBegins DEF Inv, InSandbox, InContainer, InShell, InRunner, InRestart
<1>2. Inv /\ [Next]_vars => Inv'
  <2> SUFFICES ASSUME Inv, [Next]_vars PROVE Inv' OBVIOUS
  <2>1. Known' BY KnownKept DEF Inv
  <2>2. InSandbox' /\ InContainer' /\ InShell' BY SandboxKept, ContainerKept, ShellKept
  <2>3. InRunner' /\ InRestart' BY RunnerKept, RestartKept
  <2> QED BY <2>1, <2>2, <2>3 DEF Inv
<1> QED BY <1>1, <1>2, PTL DEF Spec

-----------------------------------------------------------------------------
(* The container, the scripts and the environment of a row *)

\* However a run gets to a row (in place, by a controlled restart, by a pause
\* or in a new process), the agent that works on it is in a container with the
\* row's profile, image, engine, compose file and Leash setting.
THEOREM ContainerIsTheRows == Spec => []ContainerInForce
<1>1. Inv => ContainerInForce BY DEF Inv, InContainer, ContainerInForce, Working
<1> QED BY <1>1, InvHolds, PTL

\* The scripts a row's agent is given are the row's: those of the rounds
\* always, those of the boot unless the sandbox is still as it was made.
THEOREM ScriptsAreTheRows == Spec => []ScriptsInForce
<1>1. Inv => ScriptsInForce
  BY DEF Inv, InSandbox, InContainer, BootNow, ScriptsInForce, Working
<1> QED BY <1>1, InvHolds, PTL

\* The shell of an agent has what its row, the run and the container set and
\* nothing of the rows it has sourced before, however many there were.
THEOREM EnvIsTheRows == Spec => []EnvInForce
<1>1. Inv => EnvInForce BY DEF Inv, InShell, EnvInForce, Working
<1> QED BY <1>1, InvHolds, PTL

-----------------------------------------------------------------------------
(* The tests that gate a row *)

\* The rows up to a row are of the phases up to its own, of all of them.
LEMMA PhasesSoFar ==
    ASSUME NEW f, NEW b, NEW q, NEW own, NEW n, Owned(q, own, f, b, n),
           NEW c \in 1 .. Len(q), n \in Nat
    PROVE  own[c] \in 1 .. n /\ {own[j] : j \in 1 .. c} = 1 .. own[c]
<1>1. PICK len \in Nat \ {0} : len = Len(q) BY DEF Owned
<1>2. /\ \A j \in 1 .. len : own[j] \in 1 .. n
      /\ own[1] = 1
      /\ \A j \in 2 .. len : own[j] = own[j - 1] \/ own[j] = own[j - 1] + 1
  BY <1>1 DEF Owned
<1> DEFINE Good(k) == {own[j] : j \in 1 .. k} = 1 .. own[k]
           S == {k \in Nat : k + 1 <= len => Good(k + 1)}
<1>3. 0 \in S
  <2>1. 1 .. 1 = {1} OBVIOUS
  <2>2. {own[j] : j \in 1 .. 1} = 1 .. own[1] BY <1>2, <2>1
  <2> QED BY <2>2
<1>4. ASSUME NEW k \in Nat, k \in S PROVE k + 1 \in S
  <2> SUFFICES ASSUME (k + 1) + 1 <= len PROVE Good((k + 1) + 1) OBVIOUS
  <2>1. PICK i \in Nat : i = k + 1 OBVIOUS
  <2>2. i \in 1 .. len /\ i + 1 \in 2 .. len /\ i + 1 \in 1 .. len /\ (i + 1) - 1 = i BY <2>1
  <2>3. {own[j] : j \in 1 .. i} = 1 .. own[i] BY <1>4, <2>1, <2>2
  <2>4. PICK x \in Nat, y \in Nat : x = own[i] /\ y = own[i + 1] BY <1>2, <2>2
  <2>5. y = x \/ y = x + 1 BY <1>2, <2>2, <2>4
  <2>6. x \in 1 .. x BY <1>2, <2>2, <2>4
  <2>7. {own[j] : j \in 1 .. i + 1} = {own[j] : j \in 1 .. i} \union {own[i + 1]}
    <3>1. 1 .. i + 1 = (1 .. i) \union {i + 1} BY <2>1
    <3> QED BY <3>1
  <2>8. {own[j] : j \in 1 .. i + 1} = (1 .. x) \union {y} BY <2>3, <2>4, <2>7
  <2>9. (1 .. x) \union {y} = 1 .. y
    <3>1. CASE y = x BY <2>6, <3>1
    <3>2. CASE y = x + 1 BY <2>4, <3>2
    <3> QED BY <2>5, <3>1, <3>2
  <2>10. Good(i + 1) BY <2>4, <2>8, <2>9
  <2> HIDE DEF Good
  <2> QED BY <2>1, <2>10
<1>5. Nat \subseteq S
  <2> HIDE DEF S
  <2> QED BY <1>3, <1>4, Induct
<1>6. Good(c)
  <2>1. PICK k \in Nat : k = c - 1 OBVIOUS
  <2>2. k + 1 = c /\ k + 1 <= len BY <1>1, <2>1
  <2>3. Good(k + 1)
    <3>1. k \in S
      <4> HIDE DEF S
      <4> QED BY <1>5
    <3> HIDE DEF Good
    <3> QED BY <2>2, <3>1
  <2> QED BY <2>2, <2>3
<1> QED BY <1>1, <1>2, <1>6

LEMMA ScopeIsOfPhases ==
    ASSUME NEW f, NEW b, NEW q, NEW own, NEW n, Owned(q, own, f, b, n),
           NEW c \in 1 .. Len(q), n \in Nat
    PROVE  SubtaskTestScope(q, c)
              = UNION {PhaseTestScope(f, EffectivePhaseOrder(f)[i]) : i \in 1 .. own[c]}
<1> DEFINE Tests(i) == PhaseTestScope(f, EffectivePhaseOrder(f)[i])
<1>1. PICK len \in Nat \ {0} : len = Len(q) BY DEF Owned
<1>2. \A j \in 1 .. c : q[j].tests = Tests(own[j])
  <2> SUFFICES ASSUME NEW j \in 1 .. c PROVE q[j].tests = Tests(own[j]) OBVIOUS
  <2>1. j \in 1 .. Len(q) BY <1>1
  <2>2. OfPhase(q[j], f, b, EffectivePhaseOrder(f)[own[j]]) BY <2>1 DEF Owned
  <2> QED BY <2>2, RowHas
<1>3. {own[j] : j \in 1 .. c} = 1 .. own[c] BY PhasesSoFar
<1> HIDE DEF Tests
<1>4. {q[j].tests : j \in 1 .. c} = {Tests(i) : i \in 1 .. own[c]}
  <2>1. {q[j].tests : j \in 1 .. c} = {Tests(own[j]) : j \in 1 .. c} BY <1>2
  <2>2. {Tests(own[j]) : j \in 1 .. c} = {Tests(i) : i \in {own[j] : j \in 1 .. c}} OBVIOUS
  <2> QED BY <1>3, <2>1, <2>2
<1>5. SubtaskTestScope(q, c) = UNION {Tests(i) : i \in 1 .. own[c]} BY <1>4 DEF SubtaskTestScope
<1> QED BY <1>5 DEF Tests

\* What the tests of a phase and those before it are, if no phase comes twice.
Due(f, at) ==
    LET order == EffectivePhaseOrder(f)
    IN  {order[i] : i \in {j \in 1 .. at : ~HasNoTests(ResolvePhaseConfig(f, order[j]))}}
           \union (IF at = Len(order) THEN {"feature", "project"} ELSE {})

LEMMA PhasesTests ==
    ASSUME NEW f \in Features, IsInjective(EffectivePhaseOrder(f)),
           NEW at \in 1 .. Len(EffectivePhaseOrder(f))
    PROVE  UNION {PhaseTestScope(f, EffectivePhaseOrder(f)[i]) : i \in 1 .. at} = Due(f, at)
<1>1. PICK order : order = EffectivePhaseOrder(f) OBVIOUS
<1>2. PICK N \in Nat : N = Len(order) /\ DOMAIN order = 1 .. N BY <1>1, OrderTyped
<1>3. \A i \in 1 .. N : order[i] = Last(order) <=> i = N
  <2>1. Last(order) = order[N] BY <1>2 DEF Last
  <2>2. \A i, j \in 1 .. N : order[i] = order[j] => i = j BY <1>1, <1>2 DEF IsInjective
  <2>3. \A i \in 1 .. N : N \in 1 .. N OBVIOUS
  <2> QED BY <2>1, <2>2, <2>3
<1>4. at \in 1 .. N BY <1>1, <1>2
<1> DEFINE Tested(p) == ~HasNoTests(ResolvePhaseConfig(f, p))
<1>5. \A i \in 1 .. N :
         PhaseTestScope(f, order[i]) = (IF Tested(order[i]) THEN {order[i]} ELSE {})
                                          \union (IF i = N THEN {"feature", "project"} ELSE {})
  BY <1>1, <1>3 DEF PhaseTestScope
<1>6. Due(f, at) = {order[i] : i \in {j \in 1 .. at : Tested(order[j])}}
                      \union (IF at = N THEN {"feature", "project"} ELSE {})
  BY <1>1, <1>2 DEF Due
<1> HIDE DEF Tested
<1>7. PICK both : both = {"feature", "project"} OBVIOUS
<1>8. UNION {PhaseTestScope(f, order[i]) : i \in 1 .. at} = Due(f, at)
  <2>1. \A i \in 1 .. at : i \in 1 .. N BY <1>4
  <2>2. ASSUME NEW i \in 1 .. at, NEW x \in PhaseTestScope(f, order[i]) PROVE x \in Due(f, at)
    <3>1. \/ x = order[i] /\ Tested(order[i])
          \/ x \in both /\ i = N
      BY <1>5, <1>7, <2>1, <2>2
    <3>2. i = N => at = N BY <1>4
    <3> QED BY <1>6, <1>7, <3>1, <3>2
  <2>3. ASSUME NEW x \in Due(f, at)
        PROVE  \E i \in 1 .. at : x \in PhaseTestScope(f, order[i])
    <3>1. CASE \E i \in 1 .. at : Tested(order[i]) /\ x = order[i] BY <1>5, <2>1, <3>1
    <3>2. CASE at = N /\ x \in both
      <4>1. at \in 1 .. at /\ at \in 1 .. N BY <1>4
      <4>2. x \in PhaseTestScope(f, order[at]) BY <1>5, <1>7, <3>2, <4>1
      <4> QED BY <4>1, <4>2
    <3> QED BY <1>6, <1>7, <2>3, <3>1, <3>2
  <2> QED BY <2>2, <2>3
<1> QED BY <1>1, <1>8

LEMMA RunnersScript ==
    ASSUME NEW f, NEW p, NEW b, b = OrchestratorBaseline(f)
    PROVE  (PhaseLevel4(f, p) ++ b.runner).script = OwnScript(f, p, "test.script", b.runner.script)
<1>c. PICK config : config = ResolvePhaseConfig(f, p) OBVIOUS
<1>1. b.runner = TestRunner(f)
  BY DEF OrchestratorBaseline, RunLevelScripts, ++
<1>2. "script" \in DOMAIN b.runner BY <1>1 DEF TestRunner
<1> DEFINE Own(field, k) == IF k \in DOMAIN config THEN field ::= config[k] ELSE Nothing
           Test == IF "test.script" \in DOMAIN config
                   THEN "script" ::= Script(f, PhaseDirs(p), config["test.script"]) ELSE Nothing
<1>3. PhaseLevel4(f, p)
         = Own("profile", "test.profile") ++ Own("image", "test.image") ++ Test
             ++ Own("ambiguity", "test.resolve-ambiguity") ++ Own("retries", "test.retries")
  BY <1>c, Zenon DEF PhaseLevel4
<1>4. DOMAIN Nothing = {} BY DEF Nothing
<1>5. \A field, k : DOMAIN Own(field, k) \subseteq {field} BY <1>4 DEF ::=
<1> HIDE DEF Own, Test
<1>6. PICK x, y, z, w : /\ DOMAIN x \subseteq {"profile"} /\ DOMAIN y \subseteq {"image"}
                        /\ DOMAIN z \subseteq {"ambiguity"} /\ DOMAIN w \subseteq {"retries"}
                        /\ PhaseLevel4(f, p) = x ++ y ++ Test ++ z ++ w
  BY <1>3, <1>5
<1>7. PICK m : m = x ++ y ++ Test OBVIOUS
<1>8. PICK n : n = m ++ z ++ w OBVIOUS
<1>9. PhaseLevel4(f, p) = n BY <1>6, <1>7, <1>8
<1>10. "script" \in DOMAIN Test <=> "script" \in DOMAIN m BY <1>6, <1>7 DEF ++
<1>11. "script" \in DOMAIN Test => m["script"] = Test["script"] BY <1>6, <1>7 DEF ++
<1>12. "script" \in DOMAIN m <=> "script" \in DOMAIN n BY <1>6, <1>8 DEF ++
<1>13. "script" \in DOMAIN m => n["script"] = m["script"] BY <1>8 DEF ++
<1>14. CASE "test.script" \in DOMAIN config
  <2>1. PICK s : s = Script(f, PhaseDirs(p), config["test.script"]) OBVIOUS
  <2>2. "script" \in DOMAIN Test /\ Test["script"] = s BY <1>14, <2>1 DEF Test, ::=
  <2>3. OwnScript(f, p, "test.script", b.runner.script) = s BY <1>14, <1>c, <2>1 DEF OwnScript
  <2>4. "script" \in DOMAIN n /\ n["script"] = s BY <1>10, <1>11, <1>12, <1>13, <2>2
  <2>5. (n ++ b.runner)["script"] = s BY <2>4 DEF ++
  <2> QED BY <1>9, <2>3, <2>5
<1>15. CASE "test.script" \notin DOMAIN config
  <2>1. "script" \notin DOMAIN Test BY <1>4, <1>15 DEF Test
  <2>2. OwnScript(f, p, "test.script", b.runner.script) = b.runner.script
    BY <1>15, <1>c DEF OwnScript
  <2>3. "script" \notin DOMAIN n BY <1>10, <1>12, <2>1
  <2>4. (n ++ b.runner)["script"] = b.runner["script"] BY <1>2, <2>3 DEF ++
  <2> QED BY <1>9, <2>2, <2>4
<1> QED BY <1>14, <1>15

LEMMA TestsOfRow ==
    ASSUME Inv, Working, IsInjective(EffectivePhaseOrder(feature))
    PROVE  \E at \in DOMAIN EffectivePhaseOrder(feature) :
              /\ at = CHOOSE i \in DOMAIN EffectivePhaseOrder(feature) :
                          EffectivePhaseOrder(feature)[i] = Row.phase
              /\ SubtaskTestScope(rows, cursor) = Due(feature, at)
              /\ ShouldBypassRunner(rows, cursor) <=> Due(feature, at) = {}
<1>1. pc = "agent" /\ cursor \in 1 .. Len(rows) /\ feature \in Features
  BY DEF Working, Inv, Known
<1>o. PICK order : order = EffectivePhaseOrder(feature) OBVIOUS
<1>2. PICK N \in Nat : N = Len(order) /\ DOMAIN order = 1 .. N BY <1>1, <1>o, OrderTyped
<1>3. PICK own : Owned(rows, own, feature, base, N) BY <1>1, <1>o, <1>2, RowsInOrder DEF Inv
<1>4. PICK at : at = own[cursor] OBVIOUS
<1>5. at \in 1 .. N BY <1>1, <1>2, <1>3, <1>4, PhasesSoFar
<1>6. OfPhase(Row, feature, base, order[at]) BY <1>1, <1>3, <1>4, <1>o DEF Owned, Row
<1>7. Row.phase = order[at] /\ Row.noRunner = HasNoTests(ResolvePhaseConfig(feature, order[at]))
  BY <1>6, RowHas
<1>8. at = CHOOSE i \in DOMAIN order : order[i] = Row.phase
  <2>1. \A i, j \in 1 .. N : order[i] = order[j] => i = j BY <1>o, <1>2 DEF IsInjective
  <2> QED BY <1>2, <1>5, <1>7, <2>1
<1>9. SubtaskTestScope(rows, cursor)
         = UNION {PhaseTestScope(feature, EffectivePhaseOrder(feature)[i]) : i \in 1 .. at}
  BY <1>1, <1>2, <1>3, <1>4, ScopeIsOfPhases
<1>10. SubtaskTestScope(rows, cursor) = Due(feature, at)
  BY <1>1, <1>2, <1>5, <1>9, <1>o, PhasesTests
<1>11. Due(feature, at) = {} => HasNoTests(ResolvePhaseConfig(feature, order[at]))
  <2> SUFFICES ASSUME ~HasNoTests(ResolvePhaseConfig(feature, order[at]))
               PROVE  order[at] \in Due(feature, at)
    OBVIOUS
  <2>1. at \in {j \in 1 .. at : ~HasNoTests(ResolvePhaseConfig(feature, order[j]))} BY <1>5
  <2> QED BY <1>o, <2>1 DEF Due
<1>12. ShouldBypassRunner(rows, cursor)
          <=> HasNoTests(ResolvePhaseConfig(feature, order[at])) /\ SubtaskTestScope(rows, cursor) = {}
  BY <1>7, Zenon DEF ShouldBypassRunner, Row
<1>13. ShouldBypassRunner(rows, cursor) <=> Due(feature, at) = {} BY <1>10, <1>11, <1>12, Zenon
<1> QED BY <1>o, <1>2, <1>5, <1>8, <1>10, <1>13

\* The tests that must pass before a row is done are those of its phase and of
\* the phases before it, and with the last phase those of the feature and the
\* project; the runner has been given these, and the script of the row's phase.
THEOREM RowsAreGated == Spec => []GatedByItsTests
<1>1. Inv => GatedByItsTests
  <2> SUFFICES ASSUME Inv PROVE GatedByItsTests OBVIOUS
  <2> DEFINE order == EffectivePhaseOrder(feature)
             at == CHOOSE i \in DOMAIN order : order[i] = Row.phase
             due == {order[i] : i \in {j \in 1 .. at : ~HasNoTests(ResolvePhaseConfig(feature, order[j]))}}
                       \union (IF at = Len(order) THEN {"feature", "project"} ELSE {})
  <2>1. ASSUME Working, IsInjective(order)
        PROVE  /\ SubtaskTestScope(rows, cursor) = due
               /\ ShouldBypassRunner(rows, cursor) <=> due = {}
               /\ due # {} => runner.tests = due \intersect feature.tests
               /\ runner.script = OwnScript(feature, Row.phase, "test.script", base.runner.script)
    <3>1. PICK i : /\ i = at
                   /\ SubtaskTestScope(rows, cursor) = Due(feature, i)
                   /\ ShouldBypassRunner(rows, cursor) <=> Due(feature, i) = {}
      BY <2>1, TestsOfRow
    <3>2. Due(feature, i) = due BY <3>1 DEF Due
    <3> HIDE DEF due, at
    <3>3. SubtaskTestScope(rows, cursor) = due BY <3>1, <3>2
    <3>4. ShouldBypassRunner(rows, cursor) <=> due = {} BY <3>1, <3>2
    <3>5. pc = "agent" BY <2>1 DEF Working
    <3>6. runner = [tests |-> TestsDir(feature, SubtaskTestScope(rows, cursor)),
                    script |-> PickRunnerOptsForSubtask(base, Row).script]
      BY <3>5 DEF Inv, InRunner
    <3>7. due # {} => runner.tests = due \intersect feature.tests BY <3>3, <3>6 DEF TestsDir
    <3>8. runner.script = OwnScript(feature, Row.phase, "test.script", base.runner.script)
      <4>1. base = OrchestratorBaseline(feature) /\ cursor \in 1 .. Len(rows)
        BY <3>5 DEF Inv, Known
      <4>2. PICK own : Owned(rows, own, feature, base, Len(order)) BY <3>5, RowsInOrder DEF Inv
      <4>3. PICK p : OfPhase(Row, feature, base, p) BY <4>1, <4>2 DEF Owned, Row
      <4>4. Row.runner = PhaseLevel4(feature, p) /\ Row.phase = p BY <4>3, RowHas
      <4>5. runner.script = (PhaseLevel4(feature, p) ++ base.runner).script
        BY <3>6, <4>4 DEF PickRunnerOptsForSubtask
      <4>6. \A b : b = OrchestratorBaseline(feature) =>
                (PhaseLevel4(feature, p) ++ b.runner).script
                   = OwnScript(feature, p, "test.script", b.runner.script)
        BY RunnersScript
      <4> QED BY <4>1, <4>4, <4>5, <4>6
    <3> QED BY <3>3, <3>4, <3>7, <3>8
  <2> QED BY <2>1, Zenon DEF GatedByItsTests
<1> QED BY <1>1, InvHolds, PTL

-----------------------------------------------------------------------------
(* What the validation accepts *)

LEMMA Mistaken ==
    ASSUME NEW s, NEW k
    PROVE  Get(s, k, "") = Malformed <=> k \in DOMAIN s /\ s[k] = Malformed
<1>1. "" # Malformed BY Zenon DEF Malformed
<1> QED BY <1>1, Zenon DEF Get

\* The settings the validation does not look into.
BadSetting(f) ==
    \E s \in ConfigSources(f) \union {f.config, f.cli} :
        BadLlm(s) \/ \E k \in CompileOnly \union {"test.profile"} : Get(s, k, "") = Malformed

LEMMA BadIf ==
    ASSUME NEW f, NEW s \in ConfigSources(f) \union {f.config, f.cli},
           NEW k \in CompileOnly \union {"test.profile"}, k \in DOMAIN s, s[k] = Malformed
    PROVE  BadSetting(f)
<1>1. Get(s, k, "") = Malformed BY Mistaken
<1> QED BY <1>1, Zenon DEF BadSetting

LEMMA OptionsDemand ==
    ASSUME NEW f, OptionsExit(f), LoadFeatureConfig(f)
    PROVE  \/ BadSetting(f)
           \/ \E k \in {"container.cedar", "container.startup", "agent.install"} :
                 IsOfFeature(f, k) /\ ~ResolvesScript(f, FeatureDirs, FeatureSetting(f, k))
<1>1. CASE BadLlm(f.cli) BY <1>1, Zenon DEF BadSetting
<1>2. ASSUME NEW k \in {"container.image", "container.sandbox-profile", "agent.profile"},
             Option(f, k, "") = Malformed
      PROVE  BadSetting(f)
  <2>1. PICK L : L = <<f.cli, f.top, f.defaults, f.config>> OBVIOUS
  <2>2. "" # Malformed BY Zenon DEF Malformed
  <2>3. /\ Declaring(L, k) # {}
        /\ L[Min(Declaring(L, k))][k] = Malformed
    <3>1. Option(f, k, "") = IF Declaring(L, k) = {} THEN "" ELSE L[Min(Declaring(L, k))][k]
      BY <2>1, Zenon DEF Option, FirstDefined
    <3> QED BY <1>2, <2>2, <3>1, Zenon
  <2>4. DOMAIN L = 1 .. 4 BY <2>1
  <2>5. Declaring(L, k) \subseteq 1 .. 4 BY <2>4 DEF Declaring
  <2>6. PICK i : i = Min(Declaring(L, k)) OBVIOUS
  <2>7. i \in Declaring(L, k) BY <2>3, <2>5, <2>6, MinIn
  <2>8. i \in 1 .. 4 /\ k \in DOMAIN L[i] BY <2>5, <2>7 DEF Declaring
  <2>9. L[i] \in {f.cli, f.top, f.defaults, f.config} BY <2>1, <2>8
  <2>10. L[i] \in ConfigSources(f) \union {f.config, f.cli} BY <2>9 DEF ConfigSources
  <2>11. k \in CompileOnly \union {"test.profile"} BY DEF CompileOnly
  <2> QED BY <2>3, <2>6, <2>8, <2>10, <2>11, BadIf
<1>3. ASSUME NEW k \in {"test.profile", "test.image"}, RunOption(f, k, "") = Malformed
      PROVE  BadSetting(f)
  <2>1. k \in CompileOnly \union {"test.profile"} BY DEF CompileOnly
  <2>2. CASE k \in DOMAIN f.cli
    <3>1. f.cli[k] = Malformed BY <1>3, <2>2, Zenon DEF RunOption, Get
    <3>2. f.cli \in ConfigSources(f) \union {f.config, f.cli} OBVIOUS
    <3> QED BY <2>1, <2>2, <3>1, <3>2, BadIf
  <2>3. CASE k \notin DOMAIN f.cli
    <3>1. Get(f.config, k, "") = Malformed BY <1>3, <2>3, Zenon DEF RunOption, Get
    <3>2. k \in DOMAIN f.config /\ f.config[k] = Malformed BY <3>1, Mistaken
    <3>3. f.config \in ConfigSources(f) \union {f.config, f.cli} OBVIOUS
    <3> QED BY <2>1, <3>2, <3>3, BadIf
  <2> QED BY <2>2, <2>3
<1> QED BY <1>1, <1>2, <1>3, Zenon DEF OptionsExit

LEMMA OrderIsThere ==
    ASSUME NEW f \in Features, ValidatePhaseGraph(f)
    PROVE  /\ Range(EffectivePhaseOrder(f)) \subseteq f.dirs
           /\ EffectivePhaseOrder(f) = <<>> => f.dirs = {}
<1>1. CASE f.order # <<>> BY <1>1 DEF EffectivePhaseOrder, ValidatePhaseGraph
<1>2. CASE f.order = <<>>
  <2>1. PhaseNames \in Seq(STRING) /\ f.dirs \subseteq Range(PhaseNames) BY FeaturesAssumption
  <2>2. EffectivePhaseOrder(f) = Listed(PhaseNames, f.dirs)
    BY <1>2 DEF EffectivePhaseOrder, DiscoverPhases
  <2>3. PICK list : list = Listed(PhaseNames, f.dirs) OBVIOUS
  <2>4. /\ list \in Seq(STRING) /\ \A i \in 1 .. Len(list) : list[i] \in f.dirs
        /\ list = <<>> => \A i \in 1 .. Len(PhaseNames) : PhaseNames[i] \notin f.dirs
    BY <2>1, <2>3, ListedTyped
  <2>5. DOMAIN list = 1 .. Len(list) /\ DOMAIN PhaseNames = 1 .. Len(PhaseNames)
    BY <2>1, <2>4, LenProperties
  <2>6. Range(list) \subseteq f.dirs BY <2>4, <2>5 DEF Range
  <2>7. list = <<>> => f.dirs = {} BY <2>1, <2>4, <2>5 DEF Range
  <2> QED BY <2>2, <2>3, <2>6, <2>7
<1> QED BY <1>1, <1>2

\* Every critic who reviews a phase is there.
LEMMA CriticsAreThere ==
    ASSUME NEW f \in Features, NEW p, ValidatePhaseGraph(f),
           NEW c \in Range(CriticList(f, ResolvePhaseConfig(f, p)))
    PROVE  c.id \in f.critics
<1>r. PICK config : config = ResolvePhaseConfig(f, p) OBVIOUS
<1>1. CASE "critics" \in DOMAIN config
  <2>1. "critics" \notin PerKey /\ "critics" \notin DOMAIN BuiltInDefaults
    BY DEF PerKey, BuiltInDefaults
  <2>2. PICK s \in ConfigSources(f) : "critics" \in DOMAIN s /\ config["critics"] = s["critics"]
    BY <1>r, <1>1, <2>1, Declared
  <2>3. PICK refs : refs = s["critics"] OBVIOUS
  <2>4. refs \in CriticRefs(f) BY <2>2, <2>3 DEF CriticRefs
  <2>5. \A i \in DOMAIN refs : refs[i].id \in f.critics BY <2>4 DEF ValidatePhaseGraph
  <2>6. c \in Range(refs) BY <1>r, <1>1, <2>2, <2>3 DEF CriticList, Get
  <2> QED BY <2>5, <2>6 DEF Range
<1>2. CASE "critics" \notin DOMAIN config
  <2>1. PICK found : found = DiscoverCritics(f) OBVIOUS
  <2>2. found \in Seq(STRING) /\ \A i \in 1 .. Len(found) : found[i] \in f.critics
    BY <2>1, FeaturesAssumption, ListedTyped DEF DiscoverCritics
  <2>3. DOMAIN found = 1 .. Len(found) BY <2>2, LenProperties
  <2>4. c \in Range([i \in DOMAIN found |-> [id |-> found[i], rounds |-> 1]])
    BY <1>r, <1>2, <2>1 DEF CriticList, Get
  <2> QED BY <2>2, <2>3, <2>4 DEF Range
<1> QED BY <1>1, <1>2

LEMMA CompilerDemands ==
    ASSUME NEW f \in Features, ValidatePhasedFeature(f), PhaseCompileError(f)
    PROVE  f.dirs = {} \/ BadSetting(f)
<1>g. ValidatePhaseGraph(f) /\ \A p \in f.dirs : CheckPhaseScriptPaths(f, p)
  BY DEF ValidatePhasedFeature
<1>1. CASE EffectivePhaseOrder(f) = <<>> BY <1>g, <1>1, OrderIsThere
<1>2. ASSUME NEW p \in Range(EffectivePhaseOrder(f)), NEW config, config = ResolvePhaseConfig(f, p),
             \/ \E k \in CompileOnly : Get(config, k, "") = Malformed
             \/ BadLlm(config)
             \/ \E k \in ReadFields \intersect DOMAIN config :
                    ~ResolvesScript(f, PhaseDirs(p), config[k])
             \/ \E c \in Range(CriticList(f, config)) : c.id \notin f.critics
      PROVE  BadSetting(f)
  <2>0. config = ResolvePhaseConfig(f, p) BY <1>2
  <2>1. p \in f.dirs BY <1>g, OrderIsThere
  <2>2. ASSUME NEW k \in CompileOnly, Get(config, k, "") = Malformed PROVE BadSetting(f)
    <3>1. k \in DOMAIN config /\ config[k] = Malformed BY <2>2, Mistaken
    <3>2. k \notin PerKey /\ k \notin DOMAIN BuiltInDefaults
      BY DEF PerKey, BuiltInDefaults, CompileOnly
    <3>3. PICK s \in ConfigSources(f) : k \in DOMAIN s /\ config[k] = s[k]
      BY <2>0, <3>1, <3>2, Declared
    <3> QED BY <3>1, <3>3, BadIf
  <2>3. CASE BadLlm(config)
    <3>1. PICK k \in LlmSettings \intersect DOMAIN config : ~ParsesAgentOverride(config[k])
      BY <2>3 DEF BadLlm
    <3>2. k \notin PerKey /\ k \notin DOMAIN BuiltInDefaults
      BY DEF PerKey, BuiltInDefaults, LlmSettings
    <3>3. PICK s \in ConfigSources(f) : k \in DOMAIN s /\ config[k] = s[k]
      BY <2>0, <3>1, <3>2, Declared
    <3>4. BadLlm(s) BY <3>1, <3>3 DEF BadLlm
    <3> QED BY <3>3, <3>4, Zenon DEF BadSetting
  <2>4. ~ \E k \in ReadFields \intersect DOMAIN config : ~ResolvesScript(f, PhaseDirs(p), config[k])
    BY <1>g, <1>2, <2>1 DEF CheckPhaseScriptPaths, ReadFields
  <2>5. ~ \E c \in Range(CriticList(f, config)) : c.id \notin f.critics
    BY <1>g, <1>2, CriticsAreThere
  <2> QED BY <1>2, <2>2, <2>3, <2>4, <2>5
<1> QED BY <1>1, <1>2, Zenon DEF PhaseCompileError

\* A feature that `feat phases validate` accepts is refused by the run only
\* for what the validation says nothing about.
THEOREM AcceptedIsRunnable == Spec => []AcceptedCompiles
<1>1. Inv => AcceptedCompiles
  <2> SUFFICES ASSUME Inv, pc = "refused", ValidatePhasedFeature(feature)
               PROVE  \/ feature.dirs = {} \/ BadSetting(feature)
                      \/ \E k \in {"container.cedar", "container.startup", "agent.install"} :
                            /\ IsOfFeature(feature, k)
                            /\ ~ResolvesScript(feature, FeatureDirs, FeatureSetting(feature, k))
    BY Zenon DEF AcceptedCompiles, BadSetting
  <2>1. feature \in Features /\ Refused BY DEF Inv, Known
  <2>2. LoadFeatureConfig(feature) BY DEF ValidatePhasedFeature, Loads
  <2>3. CASE OptionsExit(feature)
    <3>1. PICK f : f = feature OBVIOUS
    <3> QED BY <2>2, <2>3, OptionsDemand
  <2>4. CASE PhaseCompileError(feature) BY <2>1, <2>4, CompilerDemands
  <2> QED BY <2>1, <2>3, <2>4 DEF Refused
<1> QED BY <1>1, InvHolds, PTL

-----------------------------------------------------------------------------
(* What the validation announces *)

Fields == Level2Fields \union Level3Fields

\* Two phases have the same of a setting: the same value, or none.
SameSetting(f, p, q, k) ==
    LET x == ResolvePhaseConfig(f, p) y == ResolvePhaseConfig(f, q)
    IN  (k \in DOMAIN x <=> k \in DOMAIN y) /\ (k \in DOMAIN x => x[k] = y[k])

LEMMA Announced ==
    ASSUME NEW f \in Features, NEW i \in 1 .. Len(EffectivePhaseOrder(f)) - 1, NEW k \in Fields,
           ~SameSetting(f, EffectivePhaseOrder(f)[i], EffectivePhaseOrder(f)[i + 1], k)
    PROVE  <<EffectivePhaseOrder(f)[i], EffectivePhaseOrder(f)[i + 1], k>>
              \in CheckAdjacentPhaseTransitions(f)
<1> DEFINE order == EffectivePhaseOrder(f)
           value(p, x) == {ResolvePhaseConfig(f, p)[z] : z \in {x} \intersect DOMAIN ResolvePhaseConfig(f, p)}
           all == {<<order[j], order[j + 1], x>> : j \in 1 .. Len(order) - 1,
                                                   x \in Level2Fields \union Level3Fields}
           same == {t \in Range(order) \X Range(order) \X (Level2Fields \union Level3Fields) :
                      value(t[1], t[3]) = value(t[2], t[3])}
<1>1. CheckAdjacentPhaseTransitions(f) = all \ same BY DEF CheckAdjacentPhaseTransitions
<1>p. PICK p, q, t : p = order[i] /\ q = order[i + 1] /\ t = <<p, q, k>> OBVIOUS
<1>2. t \in all BY <1>p DEF Fields
<1>3. value(p, k) # value(q, k)
  <2>1. ~SameSetting(f, p, q, k) BY <1>p
  <2>2. PICK x, y : x = ResolvePhaseConfig(f, p) /\ y = ResolvePhaseConfig(f, q) OBVIOUS
  <2>3. ~((k \in DOMAIN x <=> k \in DOMAIN y) /\ (k \in DOMAIN x => x[k] = y[k]))
    BY <2>1, <2>2, Zenon DEF SameSetting
  <2>4. {x[z] : z \in {k} \intersect DOMAIN x} # {y[z] : z \in {k} \intersect DOMAIN y}
    BY <2>3
  <2> QED BY <2>2, <2>4
<1>4. t \notin same
  <2>1. t[1] = p /\ t[2] = q /\ t[3] = k BY <1>p
  <2> HIDE DEF value
  <2> QED BY <1>3, <2>1
<1> HIDE DEF all, same
<1> QED BY <1>1, <1>2, <1>4, <1>p

LEMMA FieldNames ==
    /\ DOMAIN LEVEL_2_FIELDS = Level2Fields /\ DOMAIN LEVEL_3_FIELDS = Level3Fields
    /\ LEVEL_2_FIELDS["agent.profile"] = "profile" /\ LEVEL_2_FIELDS["agent.install"] = "install"
    /\ LEVEL_2_FIELDS["container.startup"] = "startup" /\ LEVEL_2_FIELDS["container.cedar"] = "cedar"
    /\ LEVEL_2_FIELDS["container.no-leash"] = "noLeash"
    /\ LEVEL_3_FIELDS["container.image"] = "image"
    /\ LEVEL_3_FIELDS["container.sandbox-profile"] = "sandbox"
    /\ LEVEL_3_FIELDS["container.engine"] = "engine"
    /\ LEVEL_3_FIELDS["container.compose-file"] = "compose"
<1>1. DOMAIN LEVEL_2_FIELDS = Level2Fields
  BY DEF LEVEL_2_FIELDS, Level2Fields, Level2Container, ++, ::=
<1>2. DOMAIN LEVEL_3_FIELDS = Level3Fields BY DEF LEVEL_3_FIELDS, Level3Fields, ++, ::=
<1>3. /\ LEVEL_2_FIELDS["agent.profile"] = "profile" /\ LEVEL_2_FIELDS["agent.install"] = "install"
      /\ LEVEL_2_FIELDS["container.startup"] = "startup" /\ LEVEL_2_FIELDS["container.cedar"] = "cedar"
      /\ LEVEL_2_FIELDS["container.no-leash"] = "noLeash"
  BY DEF LEVEL_2_FIELDS, ++, ::=
<1>4. /\ LEVEL_3_FIELDS["container.image"] = "image"
      /\ LEVEL_3_FIELDS["container.sandbox-profile"] = "sandbox"
      /\ LEVEL_3_FIELDS["container.engine"] = "engine"
      /\ LEVEL_3_FIELDS["container.compose-file"] = "compose"
  BY DEF LEVEL_3_FIELDS, ++, ::=
<1> QED BY <1>1, <1>2, <1>3, <1>4

\* What a difference between two phases comes from.
Foretold(f, p, q, k) ==
    \/ ~SameSetting(f, p, q, k)
    \/ k = "agent.install" /\ ~SameSetting(f, p, q, "agent.profile")
    \/ /\ k \in PathFields
       /\ Get(ResolvePhaseConfig(f, p), k, "") = Get(ResolvePhaseConfig(f, q), k, "")
       /\ OwnScript(f, p, k, <<>>) # OwnScript(f, q, k, <<>>)

LEMMA SettingDiffers ==
    ASSUME NEW f, NEW p, NEW q, NEW k, NEW d,
           Get(ResolvePhaseConfig(f, p), k, d) # Get(ResolvePhaseConfig(f, q), k, d)
    PROVE  ~SameSetting(f, p, q, k)
BY Zenon DEF Get, SameSetting

LEMMA ScriptDiffers ==
    ASSUME NEW f, NEW p, NEW q, NEW k \in PathFields, NEW d, NEW e,
           OwnScript(f, p, k, d) # OwnScript(f, q, k, e), SameSetting(f, p, q, k)
    PROVE  Foretold(f, p, q, k) \/ (k \notin DOMAIN ResolvePhaseConfig(f, p) /\ d # e)
<1>1. PICK x, y : x = ResolvePhaseConfig(f, p) /\ y = ResolvePhaseConfig(f, q) OBVIOUS
<1>2. (k \in DOMAIN x <=> k \in DOMAIN y) /\ (k \in DOMAIN x => x[k] = y[k])
  BY <1>1, Zenon DEF SameSetting
<1>3. CASE k \in DOMAIN x
  <2>1. Get(x, k, "") = Get(y, k, "") BY <1>2, <1>3, Zenon DEF Get
  <2>2. \A z : OwnScript(f, p, k, z) = Script(f, PhaseDirs(p), x[k])
    BY <1>1, <1>3, Zenon DEF OwnScript
  <2>3. \A z : OwnScript(f, q, k, z) = Script(f, PhaseDirs(q), y[k])
    BY <1>1, <1>2, <1>3, Zenon DEF OwnScript
  <2>4. OwnScript(f, p, k, <<>>) # OwnScript(f, q, k, <<>>) BY <2>2, <2>3, Zenon
  <2> QED BY <1>1, <2>1, <2>4, Zenon DEF Foretold
<1>4. CASE k \notin DOMAIN x
  <2>1. OwnScript(f, p, k, d) = d BY <1>1, <1>4, Zenon DEF OwnScript
  <2>2. OwnScript(f, q, k, e) = e BY <1>1, <1>2, <1>4, Zenon DEF OwnScript
  <2> QED BY <1>1, <1>4, <2>1, <2>2, Zenon
<1> QED BY <1>3, <1>4

LEMMA Level2Foretold ==
    ASSUME NEW f, NEW b, NEW p, NEW q, NEW x, NEW y,
           x = PhaseLevel2(f, p, b), y = PhaseLevel2(f, q, b),
           NEW k \in Level2Fields, x[LEVEL_2_FIELDS[k]] # y[LEVEL_2_FIELDS[k]]
    PROVE  Foretold(f, p, q, k)
<1>1. PICK c, d : c = ResolvePhaseConfig(f, p) /\ d = ResolvePhaseConfig(f, q) OBVIOUS
<1> DEFINE Install(r) == IF "agent.profile" \in DOMAIN r
                         THEN Bundled(Get(r, "agent.profile", b.level2.profile), "install")
                         ELSE b.level2.install
<1>2. ASSUME NEW r, NEW s, NEW z, r = ResolvePhaseConfig(f, s), z = PhaseLevel2(f, s, b)
      PROVE  /\ z.profile = Get(r, "agent.profile", b.level2.profile)
             /\ z.install = OwnScript(f, s, "agent.install", Install(r))
             /\ z.startup = OwnScript(f, s, "container.startup", b.level2.startup)
             /\ z.cedar = OwnScript(f, s, "container.cedar", b.level2.cedar)
             /\ z.noLeash = Get(r, "container.no-leash", b.level2.noLeash)
  BY <1>2 DEF PhaseLevel2
<1> HIDE DEF Install
<1>3. k \in {"agent.profile", "agent.install", "container.startup", "container.cedar", "container.no-leash"}
  BY DEF Level2Fields, Level2Container
<1>4. CASE k = "agent.profile"
  <2>1. x.profile # y.profile BY <1>4, FieldNames
  <2>2. Get(c, k, b.level2.profile) # Get(d, k, b.level2.profile) BY <1>1, <1>2, <1>4, <2>1
  <2>3. ~SameSetting(f, p, q, k) BY <1>1, <2>2, SettingDiffers
  <2> QED BY <2>3 DEF Foretold
<1>5. CASE k = "container.no-leash"
  <2>1. x.noLeash # y.noLeash BY <1>5, FieldNames
  <2>2. Get(c, k, b.level2.noLeash) # Get(d, k, b.level2.noLeash) BY <1>1, <1>2, <1>5, <2>1
  <2>3. ~SameSetting(f, p, q, k) BY <1>1, <2>2, SettingDiffers
  <2> QED BY <2>3 DEF Foretold
<1>6. CASE k = "container.startup"
  <2>1. x.startup # y.startup BY <1>6, FieldNames
  <2>2. OwnScript(f, p, k, b.level2.startup) # OwnScript(f, q, k, b.level2.startup)
    BY <1>1, <1>2, <1>6, <2>1
  <2>3. k \in PathFields BY <1>6 DEF PathFields
  <2>4. CASE SameSetting(f, p, q, k) BY <2>2, <2>3, <2>4, ScriptDiffers
  <2>5. CASE ~SameSetting(f, p, q, k) BY <2>5 DEF Foretold
  <2> QED BY <2>4, <2>5
<1>7. CASE k = "container.cedar"
  <2>1. x.cedar # y.cedar BY <1>7, FieldNames
  <2>2. OwnScript(f, p, k, b.level2.cedar) # OwnScript(f, q, k, b.level2.cedar)
    BY <1>1, <1>2, <1>7, <2>1
  <2>3. k \in PathFields BY <1>7 DEF PathFields
  <2>4. CASE SameSetting(f, p, q, k) BY <2>2, <2>3, <2>4, ScriptDiffers
  <2>5. CASE ~SameSetting(f, p, q, k) BY <2>5 DEF Foretold
  <2> QED BY <2>4, <2>5
<1>8. CASE k = "agent.install"
  <2>1. x.install # y.install BY <1>8, FieldNames
  <2>2. OwnScript(f, p, k, Install(c)) # OwnScript(f, q, k, Install(d)) BY <1>1, <1>2, <1>8, <2>1
  <2>3. k \in PathFields BY <1>8 DEF PathFields
  <2>4. CASE SameSetting(f, p, q, k) /\ SameSetting(f, p, q, "agent.profile")
    <3>1. Install(c) = Install(d) BY <1>1, <2>4, Zenon DEF Install, SameSetting, Get
    <3> QED BY <2>2, <2>3, <2>4, <3>1, ScriptDiffers
  <2>5. CASE ~SameSetting(f, p, q, k) BY <2>5 DEF Foretold
  <2>6. CASE ~SameSetting(f, p, q, "agent.profile") BY <1>8, <2>6 DEF Foretold
  <2> QED BY <2>4, <2>5, <2>6
<1> QED BY <1>3, <1>4, <1>5, <1>6, <1>7, <1>8

LEMMA Level3Foretold ==
    ASSUME NEW f, NEW b, NEW p, NEW q, NEW x, NEW y,
           x = PhaseLevel3(f, p, b), y = PhaseLevel3(f, q, b),
           NEW k \in Level3Fields, x[LEVEL_3_FIELDS[k]] # y[LEVEL_3_FIELDS[k]]
    PROVE  Foretold(f, p, q, k)
<1>1. PICK c, d : c = ResolvePhaseConfig(f, p) /\ d = ResolvePhaseConfig(f, q) OBVIOUS
<1>2. ASSUME NEW r, NEW s, NEW z, r = ResolvePhaseConfig(f, s), z = PhaseLevel3(f, s, b)
      PROVE  /\ z.image = Get(r, "container.image", b.level3.image)
             /\ z.sandbox = Get(r, "container.sandbox-profile", b.level3.sandbox)
             /\ z.engine = Get(r, "container.engine", b.level3.engine)
             /\ z.compose = Get(r, "container.compose-file", b.level3.compose)
  BY <1>2 DEF PhaseLevel3
<1>3. k \in {"container.image", "container.sandbox-profile", "container.engine", "container.compose-file"}
  BY DEF Level3Fields
<1>4. \E e : Get(c, k, e) # Get(d, k, e)
  <2>1. CASE k = "container.image" BY <1>1, <1>2, <2>1, FieldNames
  <2>2. CASE k = "container.sandbox-profile" BY <1>1, <1>2, <2>2, FieldNames
  <2>3. CASE k = "container.engine" BY <1>1, <1>2, <2>3, FieldNames
  <2>4. CASE k = "container.compose-file" BY <1>1, <1>2, <2>4, FieldNames
  <2> QED BY <1>3, <2>1, <2>2, <2>3, <2>4
<1>5. ~SameSetting(f, p, q, k) BY <1>1, <1>4, SettingDiffers
<1> QED BY <1>5 DEF Foretold

\* No field of the levels 2 and 3 may be empty.
LEMMA FormedFields ==
    ASSUME NEW k \in Fields, NEW v, Formed(k, v)
    PROVE  v # ""
<1>1. k \in {"agent.profile", "agent.install", "container.startup", "container.cedar",
             "container.no-leash", "container.image", "container.sandbox-profile",
             "container.engine", "container.compose-file"}
  BY DEF Fields, Level2Fields, Level2Container, Level3Fields
<1>2. CASE k \in {"agent.install", "container.startup", "container.cedar", "container.compose-file"}
  <2>1. CASE k = "agent.install" BY <2>1 DEF Formed, PathFields, IsRelativePath
  <2>2. CASE k = "container.startup" BY <2>2 DEF Formed, PathFields, IsRelativePath
  <2>3. CASE k = "container.cedar" BY <2>3 DEF Formed, PathFields, IsRelativePath
  <2>4. CASE k = "container.compose-file" BY <2>4 DEF Formed, PathFields, IsRelativePath
  <2> QED BY <1>2, <2>1, <2>2, <2>3, <2>4
<1>3. CASE k = "container.no-leash"
  <2>1. v \in {"true", "false"} BY <1>3 DEF Formed, PathFields
  <2> QED BY <2>1
<1>4. CASE k = "container.engine"
  <2>1. IsEngine(v) BY <1>4 DEF Formed, PathFields
  <2> QED BY <2>1 DEF IsEngine
<1>5. CASE k \in {"agent.profile", "container.image", "container.sandbox-profile"}
  BY <1>5 DEF Formed, PathFields
<1> QED BY <1>1, <1>2, <1>3, <1>4, <1>5

LEMMA DeclaredIsFormed ==
    ASSUME NEW f, Loads(f), NEW p \in f.dirs, NEW k \in Fields, k \in DOMAIN ResolvePhaseConfig(f, p)
    PROVE  ResolvePhaseConfig(f, p)[k] # ""
<1>1. k \notin PerKey /\ k \notin DOMAIN BuiltInDefaults
  BY DEF PerKey, BuiltInDefaults, Fields, Level2Fields, Level2Container, Level3Fields
<1>2. PICK s \in LayersOf(f, p) : k \in DOMAIN s /\ ResolvePhaseConfig(f, p)[k] = s[k]
  BY <1>1, DeclaredInLayer
<1>3. LoadFeatureConfig(f) /\ LoadPhaseConfig(f, p) BY DEF Loads
<1>4. \E fields : Parses(fields, s)
  <2>1. CASE s = Get(f.phase, p, Nothing) BY <1>3, <2>1 DEF LoadPhaseConfig
  <2>2. CASE s = Get(f.inline, p, Nothing)
    <3>1. p \in DOMAIN f.inline /\ s = f.inline[p] BY <1>2, <2>2 DEF Get, Nothing
    <3> QED BY <1>3, <3>1 DEF LoadFeatureConfig, PhasesBlockParses
  <2>3. CASE s = f.defaults BY <1>3, <2>3 DEF LoadFeatureConfig, PhasesBlockParses
  <2>4. CASE s = f.top BY <1>3, <2>4 DEF LoadFeatureConfig
  <2> QED BY <2>1, <2>2, <2>3, <2>4 DEF LayersOf
<1>5. Formed(k, s[k]) BY <1>2, <1>4 DEF Parses
<1> QED BY <1>2, <1>5, FormedFields

\* Two phases of which the preview says the same, the run tells apart neither.
Wellformed(f, p) ==
    \A k \in Fields \intersect DOMAIN ResolvePhaseConfig(f, p) : ResolvePhaseConfig(f, p)[k] # ""

LEMMA SameInPreview ==
    ASSUME NEW x, NEW y, NEW k, NEW none, Get(x, k, none) = Get(y, k, none),
           k \in DOMAIN x => x[k] # none, k \in DOMAIN y => y[k] # none, NEW d
    PROVE  Get(x, k, d) = Get(y, k, d)
BY Zenon DEF Get

\* A script of the feature's own is no placeholder, and none of a profile.
LEMMA ScriptsAreTold ==
    /\ \A f, dirs, name : Script(f, dirs, name) # <<>>
    /\ \A profile, name : Bundled(profile, name) # <<>>
    /\ \A f, dirs, name, profile, script : Script(f, dirs, name) # Bundled(profile, script)
<1>1. \A x, y : Len(<<x, y>>) = 2 OBVIOUS
<1>2. \A x, y, z : Len(<<x, y, z>>) = 3 OBVIOUS
<1>3. Len(<<>>) = 0 OBVIOUS
<1> QED BY <1>1, <1>2, <1>3 DEF Script, Bundled

LEMMA SameScriptInPreview ==
    ASSUME NEW f, NEW p, NEW q, NEW k, OwnScript(f, p, k, <<>>) = OwnScript(f, q, k, <<>>), NEW d
    PROVE  OwnScript(f, p, k, d) = OwnScript(f, q, k, d)
<1>1. PICK x, y : x = ResolvePhaseConfig(f, p) /\ y = ResolvePhaseConfig(f, q) OBVIOUS
<1>2. PICK a, c : a = Script(f, PhaseDirs(p), x[k]) /\ c = Script(f, PhaseDirs(q), y[k]) OBVIOUS
<1>3. a # <<>> /\ c # <<>> BY <1>2, ScriptsAreTold
<1>4. \A e : OwnScript(f, p, k, e) = IF k \in DOMAIN x THEN a ELSE e
  BY <1>1, <1>2, Zenon DEF OwnScript
<1>5. \A e : OwnScript(f, q, k, e) = IF k \in DOMAIN y THEN c ELSE e
  BY <1>1, <1>2, Zenon DEF OwnScript
<1> QED BY <1>3, <1>4, <1>5

LEMMA PreviewLevel2 ==
    ASSUME NEW f, NEW b, NEW p, NEW q, Wellformed(f, p), Wellformed(f, q),
           PhaseLevel2(f, p, PreviewBase) = PhaseLevel2(f, q, PreviewBase)
    PROVE  PhaseLevel2(f, p, b) = PhaseLevel2(f, q, b)
<1>1. PICK x, y : x = ResolvePhaseConfig(f, p) /\ y = ResolvePhaseConfig(f, q) OBVIOUS
<1> DEFINE Install(r, e) == IF "agent.profile" \in DOMAIN r
                            THEN Bundled(Get(r, "agent.profile", e.level2.profile), "install")
                            ELSE e.level2.install
<1>2. ASSUME NEW r, NEW s, NEW e, r = ResolvePhaseConfig(f, s)
      PROVE  PhaseLevel2(f, s, e) =
               [profile |-> Get(r, "agent.profile", e.level2.profile),
                install |-> OwnScript(f, s, "agent.install", Install(r, e)),
                startup |-> OwnScript(f, s, "container.startup", e.level2.startup),
                cedar |-> OwnScript(f, s, "container.cedar", e.level2.cedar),
                noLeash |-> Get(r, "container.no-leash", e.level2.noLeash)]
  BY <1>2, Zenon DEF PhaseLevel2
<1> HIDE DEF Install
<1>3. /\ PreviewBase.level2.profile = "" /\ PreviewBase.level2.install = <<>>
      /\ PreviewBase.level2.startup = <<>> /\ PreviewBase.level2.cedar = <<>>
      /\ PreviewBase.level2.noLeash = ""
  BY DEF PreviewBase
<1>4. PICK v, w : v = PhaseLevel2(f, p, PreviewBase) /\ w = PhaseLevel2(f, q, PreviewBase) OBVIOUS
<1>5. v = w BY <1>4
<1>6. /\ v.profile = Get(x, "agent.profile", "") /\ w.profile = Get(y, "agent.profile", "")
      /\ v.install = OwnScript(f, p, "agent.install", Install(x, PreviewBase))
      /\ w.install = OwnScript(f, q, "agent.install", Install(y, PreviewBase))
      /\ v.startup = OwnScript(f, p, "container.startup", <<>>)
      /\ w.startup = OwnScript(f, q, "container.startup", <<>>)
      /\ v.cedar = OwnScript(f, p, "container.cedar", <<>>)
      /\ w.cedar = OwnScript(f, q, "container.cedar", <<>>)
      /\ v.noLeash = Get(x, "container.no-leash", "") /\ w.noLeash = Get(y, "container.no-leash", "")
  <2>1. PICK e : e = PreviewBase OBVIOUS
  <2>2. v = [profile |-> Get(x, "agent.profile", e.level2.profile),
             install |-> OwnScript(f, p, "agent.install", Install(x, e)),
             startup |-> OwnScript(f, p, "container.startup", e.level2.startup),
             cedar |-> OwnScript(f, p, "container.cedar", e.level2.cedar),
             noLeash |-> Get(x, "container.no-leash", e.level2.noLeash)]
    BY <1>1, <1>2, <1>4, <2>1, Zenon
  <2>3. w = [profile |-> Get(y, "agent.profile", e.level2.profile),
             install |-> OwnScript(f, q, "agent.install", Install(y, e)),
             startup |-> OwnScript(f, q, "container.startup", e.level2.startup),
             cedar |-> OwnScript(f, q, "container.cedar", e.level2.cedar),
             noLeash |-> Get(y, "container.no-leash", e.level2.noLeash)]
    BY <1>1, <1>2, <1>4, <2>1, Zenon
  <2> QED BY <1>3, <2>1, <2>2, <2>3
<1>n. PICK none, agent, leash :
          none = "" /\ agent = "agent.profile" /\ leash = "container.no-leash" OBVIOUS
<1>w. \A k \in Fields : (k \in DOMAIN x => x[k] # none) /\ (k \in DOMAIN y => y[k] # none)
  BY <1>1, <1>n DEF Wellformed
<1>7. \A d : Get(x, agent, d) = Get(y, agent, d)
  <2>1. agent \in Fields BY <1>n DEF Fields, Level2Fields
  <2>2. Get(x, agent, none) = Get(y, agent, none) BY <1>n, <1>5, <1>6
  <2> QED BY ONLY <1>w, <2>1, <2>2, SameInPreview
<1>8. \A d : Get(x, leash, d) = Get(y, leash, d)
  <2>1. leash \in Fields BY <1>n DEF Fields, Level2Fields, Level2Container
  <2>2. Get(x, leash, none) = Get(y, leash, none) BY <1>n, <1>5, <1>6
  <2> QED BY ONLY <1>w, <2>1, <2>2, SameInPreview
<1>9. \A d : OwnScript(f, p, "container.startup", d) = OwnScript(f, q, "container.startup", d)
  <2>1. OwnScript(f, p, "container.startup", <<>>) = OwnScript(f, q, "container.startup", <<>>)
    BY <1>5, <1>6
  <2> QED BY <2>1, SameScriptInPreview
<1>10. \A d : OwnScript(f, p, "container.cedar", d) = OwnScript(f, q, "container.cedar", d)
  <2>1. OwnScript(f, p, "container.cedar", <<>>) = OwnScript(f, q, "container.cedar", <<>>)
    BY <1>5, <1>6
  <2> QED BY <2>1, SameScriptInPreview
<1>11. "agent.profile" \in DOMAIN x <=> "agent.profile" \in DOMAIN y
  <2>1. "agent.profile" \in Fields BY DEF Fields, Level2Fields
  <2>2. /\ "agent.profile" \in DOMAIN x => x["agent.profile"] # ""
        /\ "agent.profile" \in DOMAIN y => y["agent.profile"] # ""
    BY <1>1, <2>1 DEF Wellformed
  <2>3. Get(x, "agent.profile", "") = Get(y, "agent.profile", "") BY <1>7, <1>n
  <2> QED BY <2>2, <2>3, Zenon DEF Get
<1>12. OwnScript(f, p, "agent.install", Install(x, b)) = OwnScript(f, q, "agent.install", Install(y, b))
  <2>1. \A e : Install(x, e) = Install(y, e) BY <1>7, <1>n, <1>11 DEF Install
  <2>2. PICK k : k = "agent.install" OBVIOUS
  <2>3. PICK a, c : a = Script(f, PhaseDirs(p), x[k]) /\ c = Script(f, PhaseDirs(q), y[k]) OBVIOUS
  <2>4. \A d : OwnScript(f, p, k, d) = IF k \in DOMAIN x THEN a ELSE d
    BY <1>1, <2>3, Zenon DEF OwnScript
  <2>5. \A d : OwnScript(f, q, k, d) = IF k \in DOMAIN y THEN c ELSE d
    BY <1>1, <2>3, Zenon DEF OwnScript
  <2>6. PICK g : g = Install(x, PreviewBase) OBVIOUS
  <2>7. g # a /\ g # c
    <3>1. CASE "agent.profile" \in DOMAIN x BY <2>3, <2>6, <3>1, ScriptsAreTold DEF Install
    <3>2. CASE "agent.profile" \notin DOMAIN x BY <1>3, <2>3, <2>6, <3>2, ScriptsAreTold DEF Install
    <3> QED BY <3>1, <3>2
  <2>8. OwnScript(f, p, k, g) = OwnScript(f, q, k, g) BY <1>5, <1>6, <2>1, <2>2, <2>6
  <2>9. \A d : OwnScript(f, p, k, d) = OwnScript(f, q, k, d) BY <2>4, <2>5, <2>7, <2>8
  <2> QED BY <2>1, <2>2, <2>9
<1>13. /\ Get(x, "agent.profile", b.level2.profile) = Get(y, "agent.profile", b.level2.profile)
       /\ Get(x, "container.no-leash", b.level2.noLeash) = Get(y, "container.no-leash", b.level2.noLeash)
       /\ OwnScript(f, p, "container.startup", b.level2.startup)
             = OwnScript(f, q, "container.startup", b.level2.startup)
       /\ OwnScript(f, p, "container.cedar", b.level2.cedar)
             = OwnScript(f, q, "container.cedar", b.level2.cedar)
  BY <1>n, <1>7, <1>8, <1>9, <1>10
<1> QED BY <1>1, <1>2, <1>12, <1>13

LEMMA PreviewLevel3 ==
    ASSUME NEW f, NEW b, NEW p, NEW q, Wellformed(f, p), Wellformed(f, q),
           PhaseLevel3(f, p, PreviewBase) = PhaseLevel3(f, q, PreviewBase)
    PROVE  PhaseLevel3(f, p, b) = PhaseLevel3(f, q, b)
<1>1. PICK x, y : x = ResolvePhaseConfig(f, p) /\ y = ResolvePhaseConfig(f, q) OBVIOUS
<1>2. ASSUME NEW r, NEW s, NEW e, r = ResolvePhaseConfig(f, s)
      PROVE  PhaseLevel3(f, s, e) =
               [image |-> Get(r, "container.image", e.level3.image),
                sandbox |-> Get(r, "container.sandbox-profile", e.level3.sandbox),
                engine |-> Get(r, "container.engine", e.level3.engine),
                compose |-> Get(r, "container.compose-file", e.level3.compose)]
  BY <1>2, Zenon DEF PhaseLevel3
<1>3. /\ PreviewBase.level3.image = "" /\ PreviewBase.level3.sandbox = ""
      /\ PreviewBase.level3.engine = "" /\ PreviewBase.level3.compose = ""
  BY DEF PreviewBase
<1>4. PICK v, w : v = PhaseLevel3(f, p, PreviewBase) /\ w = PhaseLevel3(f, q, PreviewBase) OBVIOUS
<1>5. v = w BY <1>4
<1>6. /\ v.image = Get(x, "container.image", "") /\ w.image = Get(y, "container.image", "")
      /\ v.sandbox = Get(x, "container.sandbox-profile", "")
      /\ w.sandbox = Get(y, "container.sandbox-profile", "")
      /\ v.engine = Get(x, "container.engine", "") /\ w.engine = Get(y, "container.engine", "")
      /\ v.compose = Get(x, "container.compose-file", "")
      /\ w.compose = Get(y, "container.compose-file", "")
  <2>1. PICK e : e = PreviewBase OBVIOUS
  <2>2. v = [image |-> Get(x, "container.image", e.level3.image),
             sandbox |-> Get(x, "container.sandbox-profile", e.level3.sandbox),
             engine |-> Get(x, "container.engine", e.level3.engine),
             compose |-> Get(x, "container.compose-file", e.level3.compose)]
    BY <1>1, <1>2, <1>4, <2>1, Zenon
  <2>3. w = [image |-> Get(y, "container.image", e.level3.image),
             sandbox |-> Get(y, "container.sandbox-profile", e.level3.sandbox),
             engine |-> Get(y, "container.engine", e.level3.engine),
             compose |-> Get(y, "container.compose-file", e.level3.compose)]
    BY <1>1, <1>2, <1>4, <2>1, Zenon
  <2> QED BY <1>3, <2>1, <2>2, <2>3
<1>7. ASSUME NEW k \in Level3Fields PROVE \A d : Get(x, k, d) = Get(y, k, d)
  <2>1. k \in Fields BY DEF Fields
  <2>2. Get(x, k, "") = Get(y, k, "") BY <1>5, <1>6 DEF Level3Fields
  <2>3. PICK none : none = "" OBVIOUS
  <2>4. Get(x, k, none) = Get(y, k, none) BY <2>2, <2>3
  <2>5. (k \in DOMAIN x => x[k] # none) /\ (k \in DOMAIN y => y[k] # none)
    BY <1>1, <2>1, <2>3 DEF Wellformed
  <2> QED BY ONLY <2>4, <2>5, SameInPreview
<1>8. /\ Get(x, "container.image", b.level3.image) = Get(y, "container.image", b.level3.image)
      /\ Get(x, "container.sandbox-profile", b.level3.sandbox)
            = Get(y, "container.sandbox-profile", b.level3.sandbox)
      /\ Get(x, "container.engine", b.level3.engine) = Get(y, "container.engine", b.level3.engine)
      /\ Get(x, "container.compose-file", b.level3.compose)
            = Get(y, "container.compose-file", b.level3.compose)
  BY <1>7 DEF Level3Fields
<1> QED BY <1>1, <1>2, <1>8

LEMMA OrderIsWellformed ==
    ASSUME NEW f \in Features, ValidatePhasedFeature(f), NEW i \in DOMAIN EffectivePhaseOrder(f)
    PROVE  EffectivePhaseOrder(f)[i] \in f.dirs /\ Wellformed(f, EffectivePhaseOrder(f)[i])
<1>1. PICK p : p = EffectivePhaseOrder(f)[i] OBVIOUS
<1>2. Loads(f) /\ ValidatePhaseGraph(f) BY DEF ValidatePhasedFeature
<1>3. p \in f.dirs
  <2>1. p \in Range(EffectivePhaseOrder(f)) BY <1>1 DEF Range
  <2> QED BY <1>2, <2>1, OrderIsThere
<1>4. Wellformed(f, p) BY <1>2, <1>3, DeclaredIsFormed DEF Wellformed
<1> QED BY <1>1, <1>3, <1>4

\* A restart that has begun leads from one phase to the next in order.
LEMMA BetweenPhases ==
    ASSUME Known, InRestart, pc = "restart",
           NEW own, NEW N, N = Len(EffectivePhaseOrder(feature)), Owned(rows, own, feature, base, N)
    PROVE  LET order == EffectivePhaseOrder(feature) i == own[cursor - 1]
           IN  /\ i \in 1 .. N - 1 /\ i \in DOMAIN order /\ i + 1 \in DOMAIN order
               /\ own[cursor] = i + 1
               /\ cursor \in 2 .. Len(rows)
               /\ Row.restart = RequiresRestart(feature, base, i + 1)
               /\ OfPhase(rows[cursor - 1], feature, base, order[i])
               /\ OfPhase(Row, feature, base, order[i + 1])
<1>1. Len(rows) \in Nat \ {0} /\ cursor \in 1 .. Len(rows) /\ feature \in Features
  BY RowsThere DEF Known
<1>2. PICK len \in Nat \ {0}, c \in Nat : len = Len(rows) /\ c = cursor BY <1>1
<1>3. c \in 2 .. len /\ c \in 1 .. len /\ c - 1 \in 1 .. len BY <1>1, <1>2 DEF InRestart
<1>4. PICK order : order = EffectivePhaseOrder(feature) OBVIOUS
<1>5. N \in Nat /\ DOMAIN order = 1 .. N BY <1>1, <1>4, OrderTyped
<1>6. own[c - 1] \in 1 .. N /\ own[c] \in 1 .. N BY <1>2, <1>3 DEF Owned
<1>7. PICK i \in 1 .. N : i = own[c - 1] BY <1>6
<1>8. OfPhase(rows[c - 1], feature, base, order[i]) /\ OfPhase(rows[c], feature, base, order[own[c]])
  BY <1>2, <1>3, <1>4, <1>7 DEF Owned
<1>9. own[c] = i + 1 /\ rows[c].restart = RequiresRestart(feature, base, i + 1)
  <2>1. \/ own[c] = own[c - 1] /\ rows[c].restart = NoRestart
        \/ own[c] = own[c - 1] + 1 /\ rows[c].restart = RequiresRestart(feature, base, own[c])
    BY <1>2, <1>3 DEF Owned
  <2>2. rows[c].restart.level2 \/ rows[c].restart.level3
    BY <1>2 DEF InRestart, TryStartTransition
  <2>3. rows[c].restart # NoRestart BY <2>2 DEF NoRestart
  <2> QED BY <1>7, <2>1, <2>3
<1>10. i \in 1 .. N - 1 /\ i + 1 \in 1 .. N BY <1>5, <1>6, <1>7, <1>9
<1> QED BY <1>2, <1>3, <1>4, <1>5, <1>7, <1>8, <1>9, <1>10 DEF Row

\* The fields of a transition are those the two rows differ in.
LEMMA TransitionFields ==
    ASSUME NEW i \in Nat, TryStartTransition(i) # NoTransition, NEW k \in TryStartTransition(i).fields
    PROVE  k \in DetectLevel2Transition(rows[i - 1], rows[i])
                   \union DetectLevel3Transition(rows[i - 1], rows[i])
<1>1. PICK two, three : two = DetectLevel2Transition(rows[i - 1], rows[i])
                      /\ three = DetectLevel3Transition(rows[i - 1], rows[i]) OBVIOUS
<1>2. PICK t : t = TryStartTransition(i) OBVIOUS
<1>3. t = BuildTransitionSnapshot(rows[i - 1], rows[i], i) BY <1>2 DEF TryStartTransition
<1>4. \/ t = [to |-> i, cost |-> "level-2-3", fields |-> two \union three]
      \/ t = [to |-> i, cost |-> "level-2", fields |-> two]
      \/ t = [to |-> i, cost |-> "level-3", fields |-> three]
  BY <1>1, <1>2, <1>3 DEF BuildTransitionSnapshot
<1>5. t.fields \subseteq two \union three BY <1>4
<1> QED BY <1>1, <1>2, <1>5

LEMMA RestartIsForetold ==
    ASSUME Inv, pc = "restart", NEW k \in transition.fields
    PROVE  LET p == rows[cursor - 1].phase q == Row.phase announced == CheckAdjacentPhaseTransitions(feature)
           IN  \/ <<p, q, k>> \in announced
               \/ k = "agent.install" /\ <<p, q, "agent.profile">> \in announced
               \/ /\ k \in PathFields
                  /\ Get(ResolvePhaseConfig(feature, p), k, "") = Get(ResolvePhaseConfig(feature, q), k, "")
                  /\ OwnScript(feature, p, k, <<>>) # OwnScript(feature, q, k, <<>>)
<1>1. PICK f \in Features : f = feature BY DEF Inv, Known
<1>2. PICK order, N : order = EffectivePhaseOrder(f) /\ N = Len(order) OBVIOUS
<1>3. PICK own : Owned(rows, own, feature, base, N) BY <1>1, <1>2, RowsInOrder DEF Inv
<1>4. PICK i \in 1 .. N - 1 :
          /\ cursor \in 2 .. Len(rows)
          /\ OfPhase(rows[cursor - 1], f, base, order[i])
          /\ OfPhase(Row, f, base, order[i + 1])
  BY <1>1, <1>2, <1>3, BetweenPhases DEF Inv
<1>5. PICK p, q : p = order[i] /\ q = order[i + 1] OBVIOUS
<1>6. PICK x, y : x = rows[cursor - 1] /\ y = Row OBVIOUS
<1>7. /\ x.phase = p /\ y.phase = q
      /\ x.level2 = PhaseLevel2(f, p, base) /\ y.level2 = PhaseLevel2(f, q, base)
      /\ x.level3 = PhaseLevel3(f, p, base) /\ y.level3 = PhaseLevel3(f, q, base)
  BY <1>4, <1>5, <1>6, RowHas
<1>8. k \in DetectLevel2Transition(x, y) \union DetectLevel3Transition(x, y)
  <2>1. cursor \in Nat /\ transition = TryStartTransition(cursor) /\ transition # NoTransition
    BY <1>4 DEF Inv, InRestart
  <2> QED BY <1>6, <2>1, TransitionFields DEF Row
<1>9. Foretold(f, p, q, k) /\ k \in Fields
  <2>1. CASE k \in DetectLevel2Transition(x, y)
    <3>1. k \in Level2Fields /\ x.level2[LEVEL_2_FIELDS[k]] # y.level2[LEVEL_2_FIELDS[k]]
      BY <2>1, FieldNames DEF DetectLevel2Transition
    <3>2. PICK v, w : v = x.level2 /\ w = y.level2 OBVIOUS
    <3> QED BY <1>7, <3>1, <3>2, Level2Foretold DEF Fields
  <2>2. CASE k \in DetectLevel3Transition(x, y)
    <3>1. k \in Level3Fields /\ x.level3[LEVEL_3_FIELDS[k]] # y.level3[LEVEL_3_FIELDS[k]]
      BY <2>2, FieldNames DEF DetectLevel3Transition
    <3>2. PICK v, w : v = x.level3 /\ w = y.level3 OBVIOUS
    <3> QED BY <1>7, <3>1, <3>2, Level3Foretold DEF Fields
  <2> QED BY <1>8, <2>1, <2>2
<1>10. \A e \in Fields : ~SameSetting(f, p, q, e) => <<p, q, e>> \in CheckAdjacentPhaseTransitions(f)
  BY <1>2, <1>5, Announced
<1>11. "agent.profile" \in Fields BY DEF Fields, Level2Fields
<1>12. \/ <<p, q, k>> \in CheckAdjacentPhaseTransitions(f)
       \/ k = "agent.install" /\ <<p, q, "agent.profile">> \in CheckAdjacentPhaseTransitions(f)
       \/ /\ k \in PathFields
          /\ Get(ResolvePhaseConfig(f, p), k, "") = Get(ResolvePhaseConfig(f, q), k, "")
          /\ OwnScript(f, p, k, <<>>) # OwnScript(f, q, k, <<>>)
  BY <1>9, <1>10, <1>11, Zenon DEF Foretold
<1> QED BY <1>1, <1>6, <1>7, <1>12, Zenon

LEMMA FlagsAreForetold ==
    ASSUME Inv, pc = "restart", NEW row, row = Preview(feature)[cursor]
    PROVE  /\ Row.restart.level2 => row.restart.level2
           /\ Row.restart.level3 => row.restart.level3
<1>1. PICK f \in Features : f = feature BY DEF Inv, Known
<1>2. PICK order, N : order = EffectivePhaseOrder(f) /\ N = Len(order) OBVIOUS
<1>3. ~Refused /\ rows = CompilePhasesToSubtasks(f, base) BY <1>1 DEF Inv, Known
<1>4. ValidatePhasedFeature(f) /\ order # <<>> BY <1>1, <1>2, <1>3 DEF Refused, PhaseCompileError
<1>5. PICK own : /\ Owned(rows, own, f, base, N)
                 /\ Owned(Preview(f), own, f, PreviewBase, N)
  <2>1. PICK b, d : b = base /\ d = PreviewBase OBVIOUS
  <2>2. \E own : /\ Owned(CompilePhasesToSubtasks(f, b), own, f, b, N)
                 /\ Owned(CompilePhasesToSubtasks(f, d), own, f, d, N)
    BY <1>2, <1>4, RowsOwned
  <2> QED BY <1>3, <2>1, <2>2 DEF Preview
<1>6. PICK i \in 1 .. N - 1 :
          /\ i \in DOMAIN order /\ i + 1 \in DOMAIN order
          /\ i = own[cursor - 1] /\ own[cursor] = i + 1
          /\ cursor \in 2 .. Len(rows)
          /\ Row.restart = RequiresRestart(f, base, i + 1)
  BY <1>1, <1>2, <1>5, BetweenPhases DEF Inv
<1>7. row.restart = RequiresRestart(f, PreviewBase, i + 1)
  <2>1. Len(Preview(f)) = Len(rows)
    <3>1. PICK x \in Nat \ {0}, y \in Nat \ {0} : x = Len(rows) /\ y = Len(Preview(f)) BY <1>5 DEF Owned
    <3>2. 1 .. x = 1 .. y BY <1>5, <3>1 DEF Owned
    <3>3. x \in 1 .. y /\ y \in 1 .. x BY <3>2
    <3> QED BY <3>1, <3>3
  <2>2. own[cursor] # own[cursor - 1] BY <1>6
  <2>3. Preview(f)[cursor].restart = RequiresRestart(f, PreviewBase, own[cursor])
    BY <1>5, <1>6, <2>1, <2>2 DEF Owned
  <2> QED BY <1>1, <1>6, <2>3
<1>8. PICK p, q : p = order[i] /\ q = order[i + 1] OBVIOUS
<1>9. \A b : /\ RequiresRestart(f, b, i + 1).level2 <=> PhaseLevel2(f, q, b) # PhaseLevel2(f, p, b)
             /\ RequiresRestart(f, b, i + 1).level3 <=> PhaseLevel3(f, q, b) # PhaseLevel3(f, p, b)
  <2> SUFFICES ASSUME NEW b
               PROVE  /\ RequiresRestart(f, b, i + 1).level2 <=> PhaseLevel2(f, q, b) # PhaseLevel2(f, p, b)
                      /\ RequiresRestart(f, b, i + 1).level3 <=> PhaseLevel3(f, q, b) # PhaseLevel3(f, p, b)
    OBVIOUS
  <2>1. PICK j \in Nat : j = i + 1 /\ j > 1 /\ j - 1 = i OBVIOUS
  <2>2. /\ RequiresRestart(f, b, j).level2 <=>
                j > 1 /\ PhaseLevel2(f, order[j], b) # PhaseLevel2(f, order[j - 1], b)
        /\ RequiresRestart(f, b, j).level3 <=>
                j > 1 /\ PhaseLevel3(f, order[j], b) # PhaseLevel3(f, order[j - 1], b)
    BY <1>2, RestartFlags
  <2> QED BY <1>8, <2>1, <2>2
<1>10. Wellformed(f, p) /\ Wellformed(f, q)
  <2>1. \A j \in DOMAIN order : Wellformed(f, order[j]) BY <1>2, <1>4, OrderIsWellformed
  <2> QED BY <1>6, <1>8, <2>1
<1>11. PhaseLevel2(f, q, PreviewBase) = PhaseLevel2(f, p, PreviewBase)
          => PhaseLevel2(f, q, base) = PhaseLevel2(f, p, base)
  BY <1>10, PreviewLevel2
<1>12. PhaseLevel3(f, q, PreviewBase) = PhaseLevel3(f, p, PreviewBase)
          => PhaseLevel3(f, q, base) = PhaseLevel3(f, p, base)
  BY <1>10, PreviewLevel3
<1> QED BY <1>6, <1>7, <1>9, <1>11, <1>12

-----------------------------------------------------------------------------
(* How many rows a phase has *)

LEMMA FlattenedLength ==
    ASSUME NEW X, NEW q \in Seq(Seq(X)), NEW t \in [0 .. Len(q) -> Nat], t[0] = 0,
           \A n \in 1 .. Len(q) : t[n] = t[n - 1] + Len(q[n])
    PROVE  Len(FlattenSeq(q)) = t[Len(q)]
<1>1. CASE q = <<>>
  <2>1. FlattenSeq(q) = <<>> /\ Len(q) = 0 BY <1>1 DEF FlattenSeq
  <2> QED BY <2>1
<1>2. CASE q # <<>>
  <2>1. PICK N \in Nat \ {0} : N = Len(q) BY <1>2, EmptySeq
  <2>2. PICK g \in [1 .. N -> Seq(X)] : Flat(g, q) BY <1>2, <2>1, Flattened
  <2> DEFINE S == {n \in Nat : n + 1 <= N => Len(g[n + 1]) = t[n + 1]}
  <2>3. 0 \in S
    <3>1. 1 \in 1 .. N /\ 1 - 1 = 0 OBVIOUS
    <3>2. g[1] = q[1] /\ t[1] = t[0] + Len(q[1]) BY <2>1, <2>2, <3>1 DEF Flat
    <3>3. Len(g[1]) \in Nat BY <2>2, <3>1, LenProperties
    <3> QED BY <3>2, <3>3
  <2>4. ASSUME NEW n \in Nat, n \in S PROVE n + 1 \in S
    <3> SUFFICES ASSUME (n + 1) + 1 <= N PROVE Len(g[(n + 1) + 1]) = t[(n + 1) + 1] OBVIOUS
    <3>1. PICK m : m = (n + 1) + 1 OBVIOUS
    <3>2. m \in 2 .. N /\ m \in 1 .. N /\ m - 1 = n + 1 /\ m - 1 \in 1 .. N BY <3>1
    <3>3. Len(g[m - 1]) = t[m - 1] BY <2>4, <3>2
    <3>4. g[m] = g[m - 1] \o q[m] BY <2>1, <2>2, <3>2 DEF Flat
    <3>5. q[m] \in Seq(X) /\ g[m - 1] \in Seq(X) BY <2>1, <2>2, <3>2, ElementOfSeq
    <3>6. Len(g[m]) = Len(g[m - 1]) + Len(q[m]) BY <3>4, <3>5, ConcatProperties
    <3>7. t[m] = t[m - 1] + Len(q[m]) BY <2>1, <3>2
    <3> QED BY <3>1, <3>3, <3>6, <3>7
  <2>5. Nat \subseteq S
    <3> HIDE DEF S
    <3> QED BY <2>3, <2>4, Induct
  <2>6. PICK n \in Nat : n = N - 1 OBVIOUS
  <2>7. n + 1 = N /\ n + 1 <= N BY <2>6
  <2>8. Len(g[N]) = t[N]
    <3>1. n \in S
      <4> HIDE DEF S
      <4> QED BY <2>5
    <3> QED BY <2>7, <3>1
  <2>9. FlattenSeq(q) = g[N] BY <2>1, <2>2 DEF Flat
  <2> QED BY <2>1, <2>8, <2>9
<1> QED BY <1>1, <1>2

\* The rounds of one critic.
LEMMA RoundsCounted ==
    ASSUME NEW id \in STRING, NEW m \in Nat, NEW q,
           q = [r \in 1 .. m |-> <<Turn("discover", id, r), Turn("fix", id, r)>>]
    PROVE  FlattenSeq(q) \in Seq(CriticSteps) /\ Len(FlattenSeq(q)) = 2 * m
<1>1. ASSUME NEW r \in 1 .. m PROVE q[r] \in Seq(CriticSteps) /\ Len(q[r]) = 2
  <2>1. Turn("discover", id, r) \in CriticSteps BY DEF Turn, CriticSteps
  <2>2. Turn("fix", id, r) \in CriticSteps BY DEF Turn, CriticSteps
  <2>3. PICK x \in CriticSteps, y \in CriticSteps :
            x = Turn("discover", id, r) /\ y = Turn("fix", id, r) BY <2>1, <2>2
  <2>4. q[r] = <<x, y>> BY <2>3
  <2> QED BY <2>4
<1>2. q \in [1 .. m -> Seq(CriticSteps)] BY <1>1
<1>3. q \in Seq(Seq(CriticSteps)) /\ Len(q) = m BY <1>2, FunctionIsSeq
<1>4. PICK t : t = [n \in 0 .. m |-> 2 * n] OBVIOUS
<1>5. t \in [0 .. m -> Nat] /\ t[0] = 0 /\ t[m] = 2 * m BY <1>4
<1>6. \A n \in 1 .. m : t[n] = t[n - 1] + Len(q[n])
  <2> SUFFICES ASSUME NEW n \in 1 .. m PROVE t[n] = t[n - 1] + Len(q[n]) OBVIOUS
  <2>1. n \in 0 .. m /\ n - 1 \in 0 .. m OBVIOUS
  <2>2. t[n] = 2 * n /\ t[n - 1] = 2 * (n - 1) BY <1>4, <2>1
  <2> QED BY <1>1, <2>2
<1>7. Len(FlattenSeq(q)) = t[m] BY <1>3, <1>5, <1>6, FlattenedLength
<1> QED BY <1>3, <1>5, <1>7, FlattenTyped

\* countPhaseSubtasks counts the rows the compiler makes.
LEMMA SubtasksCounted ==
    ASSUME NEW list \in Seq(Reviews)
    PROVE  CountPhaseSubtasks(list) = 1 + Len(CriticTurns(list))
<1>n. PICK N \in Nat : N = Len(list) /\ DOMAIN list = 1 .. N BY LenProperties
<1> DEFINE step == [z \in Nat \X (1 .. N) |-> z[1] + 2 * list[z[2]].rounds]
           Body(f) == [n \in 0 .. N |-> IF n = 0 THEN 1 ELSE f[n - 1] + 2 * list[n].rounds]
<1>1. \A n \in 1 .. N : list[n].rounds \in Nat /\ list[n].id \in STRING
  <2> SUFFICES ASSUME NEW n \in 1 .. N PROVE list[n].rounds \in Nat /\ list[n].id \in STRING OBVIOUS
  <2>1. list[n] \in Reviews BY <1>n, ElementOfSeq
  <2> QED BY <2>1 DEF Reviews
<1>2. step \in [Nat \X (1 .. N) -> Nat] BY <1>1
<1>3. PICK f : Made(f, N, Nat, 1, step)
  <2> HIDE DEF step
  <2> QED BY <1>2, Recursion
<1>4. /\ f \in [0 .. N -> Nat] /\ f[0] = 1
      /\ \A n \in 1 .. N : f[n] = f[n - 1] + 2 * list[n].rounds
  <2>1. f \in [0 .. N -> Nat] /\ f[0] = 1 BY <1>3 DEF Made
  <2> SUFFICES ASSUME NEW n \in 1 .. N PROVE f[n] = f[n - 1] + 2 * list[n].rounds BY <2>1
  <2>2. f[n - 1] \in Nat
    <3>1. n - 1 \in 0 .. N OBVIOUS
    <3> QED BY <2>1, <3>1
  <2>3. f[n] = step[<<f[n - 1], n>>] BY <1>3 DEF Made
  <2> QED BY <2>2, <2>3
<1>5. f = Body(f)
  <2>1. ASSUME NEW n \in 0 .. N PROVE f[n] = Body(f)[n]
    <3>1. CASE n = 0 BY <1>4, <3>1
    <3>2. CASE n # 0
      <4>1. n \in 1 .. N BY <3>2
      <4> QED BY <1>4, <3>2, <4>1
    <3> QED BY <3>1, <3>2
  <2>2. f = [n \in 0 .. N |-> f[n]] BY <1>4
  <2> QED BY <2>1, <2>2
<1>6. \E h : h = Body(h) /\ CountPhaseSubtasks(list) = h[N]
  <2> DEFINE h == CHOOSE g : g = Body(g)
  <2>1. h = Body(h) BY <1>5
  <2>2. CountPhaseSubtasks(list) = h[N] BY <1>n DEF CountPhaseSubtasks
  <2> QED BY <2>1, <2>2
<1>7. PICK g : g = Body(g) /\ CountPhaseSubtasks(list) = g[N] BY <1>6
<1>8. \A n \in 0 .. N : f[n] = g[n]
  <2>1. \A n \in 0 .. N : g[n] = IF n = 0 THEN 1 ELSE g[n - 1] + 2 * list[n].rounds BY <1>7
  <2>2. f[0] = g[0] BY <1>4, <2>1
  <2>3. \A n \in 1 .. N : f[n - 1] = g[n - 1] => f[n] = g[n]
    <3> SUFFICES ASSUME NEW n \in 1 .. N, f[n - 1] = g[n - 1] PROVE f[n] = g[n] OBVIOUS
    <3>1. n \in 0 .. N /\ n # 0 OBVIOUS
    <3>2. g[n] = g[n - 1] + 2 * list[n].rounds BY <2>1, <3>1
    <3> QED BY <1>4, <3>2
  <2>4. Alike(f, g, N) BY <2>2, <2>3 DEF Alike
  <2> QED BY <2>4, MadeAlike
<1>9. CountPhaseSubtasks(list) = f[N]
  <2>1. N \in 0 .. N OBVIOUS
  <2> QED BY <1>7, <1>8, <2>1
<1> DEFINE Rounds(c) == [r \in 1 .. list[c].rounds |->
                           <<Turn("discover", list[c].id, r), Turn("fix", list[c].id, r)>>]
           All == [c \in DOMAIN list |-> FlattenSeq(Rounds(c))]
<1>10. CriticTurns(list) = FlattenSeq(All) BY DEF CriticTurns
<1>11. ASSUME NEW c \in 1 .. N
       PROVE  FlattenSeq(Rounds(c)) \in Seq(CriticSteps) /\ Len(FlattenSeq(Rounds(c))) = 2 * list[c].rounds
  <2>1. PICK m \in Nat, id \in STRING : m = list[c].rounds /\ id = list[c].id BY <1>1
  <2>2. PICK q : q = [r \in 1 .. m |-> <<Turn("discover", id, r), Turn("fix", id, r)>>] OBVIOUS
  <2>3. FlattenSeq(q) \in Seq(CriticSteps) /\ Len(FlattenSeq(q)) = 2 * m BY <2>2, RoundsCounted
  <2>4. q = Rounds(c) BY <2>1, <2>2
  <2> QED BY <2>1, <2>3, <2>4
<1> HIDE DEF Rounds
<1>12. PICK all : all = All OBVIOUS
<1>13. \A c \in 1 .. N : all[c] \in Seq(CriticSteps) /\ Len(all[c]) = 2 * list[c].rounds
  BY <1>n, <1>11, <1>12
<1>14. all \in [1 .. N -> Seq(CriticSteps)] BY <1>n, <1>11, <1>12
<1>15. all \in Seq(Seq(CriticSteps)) /\ Len(all) = N BY <1>14, FunctionIsSeq
<1>16. PICK t : t = [n \in 0 .. N |-> f[n] - 1] OBVIOUS
<1>17. \A n \in 0 .. N : f[n] \in Nat /\ f[n] >= 1
  <2> DEFINE S == {n \in Nat : n <= N => f[n] >= 1}
  <2>1. 0 \in S BY <1>4
  <2>2. ASSUME NEW n \in Nat, n \in S PROVE n + 1 \in S
    <3> SUFFICES ASSUME n + 1 <= N PROVE f[n + 1] >= 1 OBVIOUS
    <3>1. n + 1 \in 1 .. N /\ (n + 1) - 1 = n /\ n \in 0 .. N /\ n <= N OBVIOUS
    <3>2. f[n + 1] = f[n] + 2 * list[n + 1].rounds BY <1>4, <3>1
    <3>3. f[n] >= 1 /\ f[n] \in Nat /\ list[n + 1].rounds \in Nat BY <1>1, <1>4, <2>2, <3>1
    <3> QED BY <3>2, <3>3
  <2>3. Nat \subseteq S
    <3> HIDE DEF S
    <3> QED BY <2>1, <2>2, Induct
  <2> QED BY <1>4, <2>3
<1>18. t \in [0 .. N -> Nat] /\ t[0] = 0 /\ t[N] = f[N] - 1
  <2>1. \A n \in 0 .. N : f[n] - 1 \in Nat BY <1>17
  <2> QED BY <1>4, <1>16, <2>1
<1>19. \A n \in 1 .. N : t[n] = t[n - 1] + Len(all[n])
  <2> SUFFICES ASSUME NEW n \in 1 .. N PROVE t[n] = t[n - 1] + Len(all[n]) OBVIOUS
  <2>1. n \in 0 .. N /\ n - 1 \in 0 .. N OBVIOUS
  <2>2. t[n] = f[n] - 1 /\ t[n - 1] = f[n - 1] - 1 BY <1>16, <2>1
  <2>3. f[n] \in Nat /\ f[n - 1] \in Nat /\ list[n].rounds \in Nat BY <1>1, <1>17, <2>1
  <2>4. PICK a \in Nat, b \in Nat, r \in Nat : a = f[n] /\ b = f[n - 1] /\ r = list[n].rounds
    BY <2>3
  <2>5. a = b + 2 * r BY <1>4, <2>4
  <2>6. Len(all[n]) = 2 * r /\ t[n] = a - 1 /\ t[n - 1] = b - 1 BY <1>13, <2>2, <2>4
  <2> QED BY <2>5, <2>6
<1>20. Len(FlattenSeq(all)) = t[N] BY <1>15, <1>18, <1>19, FlattenedLength
<1>21. f[N] \in Nat BY <1>4
<1> QED BY <1>9, <1>10, <1>12, <1>18, <1>20, <1>21

LEMMA BudgetIsForetold ==
    ASSUME Inv, Working, IsInjective(EffectivePhaseOrder(feature)), Row.maxAttempts > 0
    PROVE  Row.phase \in CheckPhaseBudgets(feature)
              <=> Row.maxAttempts < Cardinality({i \in DOMAIN rows : rows[i].phase = Row.phase})
<1>1. PICK f \in Features : f = feature BY DEF Inv, Known
<1>2. PICK order, N : order = EffectivePhaseOrder(f) /\ N = Len(order) OBVIOUS
<1>3. N \in Nat /\ DOMAIN order = 1 .. N BY <1>2, OrderTyped
<1>4. pc = "agent" BY DEF Working
<1>5. PICK own : Owned(rows, own, f, base, N) BY <1>1, <1>2, <1>4, RowsInOrder DEF Inv
<1>6. PICK len \in Nat \ {0} : len = Len(rows) /\ DOMAIN rows = 1 .. len BY <1>5 DEF Owned
<1>7. cursor \in 1 .. len /\ ~Refused BY <1>4, <1>6 DEF Inv, Known
<1>8. own \in [1 .. len -> 1 .. N] BY <1>5, <1>6 DEF Owned
<1>9. PICK at \in 1 .. N : at = own[cursor] BY <1>7, <1>8
<1>10. PICK p : p = order[at] OBVIOUS
<1>11. \A j \in 1 .. len : OfPhase(rows[j], f, base, order[own[j]]) BY <1>2, <1>5, <1>6 DEF Owned
<1>12. \A j \in 1 .. len : rows[j].phase = order[own[j]] BY <1>11, RowHas
<1>13. Row.phase = p BY <1>7, <1>9, <1>10, <1>12 DEF Row
<1>14. \A i, j \in 1 .. N : order[i] = order[j] => i = j BY <1>1, <1>2, <1>3 DEF IsInjective
<1>15. {i \in DOMAIN rows : rows[i].phase = p} = {j \in DOMAIN own : own[j] = at}
  BY <1>6, <1>8, <1>10, <1>12, <1>14
<1>16. PICK s \in Nat : RowsOfPhase(own, at, f, s) BY <1>5 DEF Owned
<1>17. PICK config, list : config = ResolvePhaseConfig(f, p) /\ list = CriticList(f, config) OBVIOUS
<1>18. list \in Seq(Reviews) BY <1>17, CriticsTyped
<1>19. PICK m \in Nat : m = Len(ReviewRows(f, at)) BY <1>2, <1>3, PhaseCompiled
<1>20. CountPhaseSubtasks(list) = 1 + m
  BY <1>2, <1>10, <1>17, <1>18, <1>19, SubtasksCounted DEF ReviewRows
<1>21. Cardinality({i \in DOMAIN rows : rows[i].phase = p}) = 1 + m
  <2>1. {j \in DOMAIN own : own[j] = at} = s + 1 .. s + 1 + m BY <1>16, <1>19 DEF RowsOfPhase
  <2>2. PICK a \in Int, b \in Int : a = s + 1 /\ b = s + 1 + m OBVIOUS
  <2>3. Cardinality(a .. b) = 1 + m
    <3>1. ~(a > b) /\ b - a + 1 = 1 + m BY <2>2
    <3>2. Cardinality(a .. b) = IF a > b THEN 0 ELSE b - a + 1 BY FS_Interval
    <3> QED BY <3>1, <3>2
  <2> QED BY <1>15, <2>1, <2>2, <2>3
<1>22. p \in f.dirs
  <2>1. ValidatePhasedFeature(f) BY <1>1, <1>7 DEF Refused
  <2> QED BY <1>2, <1>3, <1>10, <2>1, OrderIsWellformed
<1>23. p \in CheckPhaseBudgets(f)
          <=> "limits.max-attempts" \in DOMAIN config /\ config["limits.max-attempts"] < 1 + m
  BY <1>17, <1>20, <1>22 DEF CheckPhaseBudgets
<1>24. Row.maxAttempts = Get(config, "limits.max-attempts", 0)
  <2>1. OfPhase(Row, f, base, p) BY <1>7, <1>9, <1>10, <1>11 DEF Row
  <2>2. /\ "maxAttempts" \in DOMAIN PhaseRow(f, base, p)
        /\ PhaseRow(f, base, p).maxAttempts = Get(config, "limits.max-attempts", 0)
    BY <1>17 DEF PhaseRow, PhaseLevel1_5, ++
  <2> QED BY <2>1, <2>2 DEF OfPhase
<1>25. "limits.max-attempts" \in DOMAIN config
  <2>1. Row.maxAttempts # 0 OBVIOUS
  <2> QED BY <1>24, <2>1 DEF Get
<1>26. Row.maxAttempts = config["limits.max-attempts"] BY <1>24, <1>25 DEF Get
<1> QED BY <1>1, <1>13, <1>21, <1>23, <1>25, <1>26

\* What `feat phases validate` and `feat phases compile` say of restarts and of
\* budgets is what the run does: no field makes for a restart that was not
\* announced, no row is flagged that the preview does not flag, and the phases
\* that cannot afford one failure are those the report names.
THEOREM ReportIsRight == Spec => []ReportForetells
<1>1. Inv => ReportForetells
  <2> SUFFICES ASSUME Inv PROVE ReportForetells OBVIOUS
  <2>1. PICK row : row = Preview(feature)[cursor] OBVIOUS
  <2>2. pc = "restart" => /\ Row.restart.level2 => row.restart.level2
                          /\ Row.restart.level3 => row.restart.level3
    BY <2>1, FlagsAreForetold
  <2> QED BY <2>1, <2>2, RestartIsForetold, BudgetIsForetold, Zenon DEF ReportForetells
<1> QED BY <1>1, InvHolds, PTL
=============================================================================
