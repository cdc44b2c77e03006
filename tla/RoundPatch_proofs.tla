--------------------------- MODULE RoundPatch_proofs ---------------------------
(***************************************************************************)
(* What is recorded of a round is the round: proofs for any files, any     *)
(* number of subtasks, attempts, commits and starts.                       *)
(*                                                                         *)
(* The recorded commits are diffs from which files are cut.  They apply    *)
(* one after the other as long as no section of a diff crosses from what   *)
(* is cut to what is kept: git writes a rename as one section, and cutting *)
(* it, or keeping it, takes both ends along.  Agents rename what they      *)
(* like; the invariant says of each round that crosses (crossed) only what *)
(* is left of it.                                                          *)
(***************************************************************************)
EXTENDS RoundPatch, SequenceTheorems, FiniteSetTheorems, WellFoundedInduction, TLAPS

Hunks   == [from: Paths, to: Paths, old: Contents, new: Contents]
Patches == SUBSET Hunks

-----------------------------------------------------------------------------
(* Recursive functions on the natural numbers *)

LEMMA Induct ==
    ASSUME NEW S, 0 \in S, \A n \in Nat : n \in S => n + 1 \in S
    PROVE  Nat \subseteq S
<1> DEFINE bad == {n \in Nat : n \notin S}
           R == {r \in Nat \X Nat : r[1] < r[2]}
<1> SUFFICES ASSUME bad # {} PROVE FALSE OBVIOUS
<1>1. IsWellFoundedOn(R, Nat)
  <2>1. R = OpToRel(<, Nat) BY DEF OpToRel
  <2> QED BY <2>1, NatLessThanWellFounded
<1>2. bad \subseteq Nat OBVIOUS
<1> HIDE DEF R
<1>3. PICK x \in bad : \A y \in bad : ~ (<<y, x>> \in R) BY <1>1, <1>2, WFMin
<1>4. x # 0 /\ x \in Nat OBVIOUS
<1>5. x - 1 \in Nat /\ x - 1 < x /\ (x - 1) + 1 = x BY <1>4
<1>6. <<x - 1, x>> \in R BY <1>4, <1>5 DEF R
<1>7. x - 1 \in S BY <1>3, <1>5, <1>6
<1> QED BY <1>5, <1>7

\* f is made from b in N steps.
Made(f, N, X, b, step) ==
    /\ f \in [0 .. N -> X] /\ f[0] = b
    /\ \A n \in 1 .. N : f[n] = step[<<f[n - 1], n>>]

\* There is a function for every way to make the next value from the last.
LEMMA Recursion ==
    ASSUME NEW N \in Nat, NEW X, NEW b \in X, NEW step \in [X \X (1 .. N) -> X]
    PROVE  \E f : Made(f, N, X, b, step)
<1> DEFINE S == {k \in Nat : k <= N => \E f : Made(f, k, X, b, step)}
<1>1. 0 \in S
  <2>1. Made([n \in 0 .. 0 |-> b], 0, X, b, step) BY DEF Made
  <2> QED BY <2>1
<1>2. ASSUME NEW k \in Nat, k \in S PROVE k + 1 \in S
  <2> SUFFICES ASSUME k + 1 <= N PROVE \E f : Made(f, k + 1, X, b, step) OBVIOUS
  <2>1. PICK f : Made(f, k, X, b, step) BY <1>2
  <2> DEFINE g == [n \in 0 .. k + 1 |-> IF n <= k THEN f[n] ELSE step[<<f[k], k + 1>>]]
  <2>2. f[k] \in X /\ k + 1 \in 1 .. N BY <2>1 DEF Made
  <2>3. step[<<f[k], k + 1>>] \in X BY <2>2
  <2>4. g \in [0 .. k + 1 -> X] BY <2>1, <2>3 DEF Made
  <2>5. \A n \in 0 .. k : g[n] = f[n] OBVIOUS
  <2>6. g[k + 1] = step[<<f[k], k + 1>>] OBVIOUS
  <2>7. ASSUME NEW n \in 1 .. k + 1 PROVE g[n] = step[<<g[n - 1], n>>]
    <3> HIDE DEF g
    <3>1. CASE n = k + 1 BY <2>5, <2>6, <3>1
    <3>2. CASE n # k + 1
      <4>1. n \in 1 .. k /\ n - 1 \in 0 .. k /\ n \in 0 .. k BY <3>2
      <4>2. f[n] = step[<<f[n - 1], n>>] BY <2>1, <4>1 DEF Made
      <4>3. g[n] = f[n] /\ g[n - 1] = f[n - 1] BY <2>5, <4>1
      <4> QED BY <4>2, <4>3
    <3> QED BY <3>1, <3>2
  <2>8. g[0] = b BY <2>1 DEF Made
  <2>9. Made(g, k + 1, X, b, step) BY <2>4, <2>7, <2>8 DEF Made
  <2> QED BY <2>9
<1>3. Nat \subseteq S
  <2> HIDE DEF S
  <2> QED BY <1>1, <1>2, Induct
<1> QED BY <1>3

\* And two that are made alike are the same, as far as both go.
Alike(f, g, N) ==
    f[0] = g[0] /\ \A n \in 1 .. N : f[n - 1] = g[n - 1] => f[n] = g[n]

LEMMA MadeAlike ==
    ASSUME NEW N \in Nat, NEW f, NEW g, Alike(f, g, N)
    PROVE  \A n \in 0 .. N : f[n] = g[n]
<1> DEFINE S == {k \in Nat : k <= N => f[k] = g[k]}
<1>1. 0 \in S BY DEF Alike
<1>2. ASSUME NEW k \in Nat, k \in S PROVE k + 1 \in S
  <2> SUFFICES ASSUME k + 1 <= N PROVE f[k + 1] = g[k + 1] OBVIOUS
  <2>1. k + 1 \in 1 .. N /\ (k + 1) - 1 = k /\ f[k] = g[k] BY <1>2
  <2> QED BY <2>1 DEF Alike
<1>3. Nat \subseteq S
  <2> HIDE DEF S
  <2> QED BY <1>1, <1>2, Induct
<1> QED BY <1>3

-----------------------------------------------------------------------------
(* Replay *)

LEMMA ApplyTyped ==
    ASSUME NEW t \in Trees, NEW patch \in Patches
    PROVE  ApplyPatch(t, patch) \in Trees
<1> SUFFICES ASSUME NEW p \in Paths
             PROVE  (IF \E s \in patch : s.to = p THEN (CHOOSE s \in patch : s.to = p).new
                     ELSE IF \E s \in patch : s.from = p THEN Absent ELSE t[p]) \in Contents
    BY DEF ApplyPatch, Trees
<1>1. Absent \in Contents /\ t[p] \in Contents BY DEF Contents, Trees
<1>2. CASE \E s \in patch : s.to = p
  <2>1. (CHOOSE s \in patch : s.to = p) \in patch BY <1>2
  <2> QED BY <1>2, <2>1 DEF Patches, Hunks
<1>3. CASE ~ \E s \in patch : s.to = p BY <1>1, <1>3
<1> QED BY <1>2, <1>3

\* The trees that a replay goes through.
Through(f, t, c) ==
    /\ f \in [0 .. Len(c) -> Trees] /\ f[0] = t
    /\ \A n \in 1 .. Len(c) : f[n] = ApplyPatch(f[n - 1], c[n])
    /\ Replay(t, c) = f[Len(c)]

LEMMA ReplayThrough ==
    ASSUME NEW t \in Trees, NEW c \in Seq(Patches)
    PROVE  \E f : Through(f, t, c)
<1>n. PICK N \in Nat : N = Len(c) OBVIOUS
<1> DEFINE step == [z \in Trees \X (1 .. N) |-> ApplyPatch(z[1], c[z[2]])]
           Body(f) == [n \in 0 .. N |-> IF n = 0 THEN t ELSE ApplyPatch(f[n - 1], c[n])]
<1>1. N \in Nat /\ \A n \in 1 .. N : c[n] \in Patches BY <1>n
<1>2. step \in [Trees \X (1 .. N) -> Trees] BY <1>1, ApplyTyped
<1>3. PICK f : Made(f, N, Trees, t, step)
  <2> HIDE DEF step
  <2> QED BY <1>1, <1>2, Recursion
<1>4. \A n \in 1 .. N : f[n - 1] \in Trees /\ f[n] = ApplyPatch(f[n - 1], c[n])
  <2> SUFFICES ASSUME NEW n \in 1 .. N
               PROVE f[n - 1] \in Trees /\ f[n] = ApplyPatch(f[n - 1], c[n]) OBVIOUS
  <2>1. n - 1 \in 0 .. N BY <1>1
  <2>2. f[n - 1] \in Trees BY <1>3, <2>1 DEF Made
  <2>3. f[n] = step[<<f[n - 1], n>>] BY <1>3 DEF Made
  <2> QED BY <2>2, <2>3
<1>5. f = Body(f)
  <2>1. f \in [0 .. N -> Trees] /\ f[0] = t BY <1>3 DEF Made
  <2>2. ASSUME NEW n \in 0 .. N PROVE f[n] = Body(f)[n]
    <3>1. CASE n = 0 BY <2>1, <3>1
    <3>2. CASE n # 0
      <4>1. n \in 1 .. N BY <1>1, <3>2
      <4> QED BY <1>4, <3>2, <4>1
    <3> QED BY <3>1, <3>2
  <2>3. f = [n \in 0 .. N |-> f[n]] BY <2>1
  <2> QED BY <2>2, <2>3
<1>6. \E h : h = Body(h) /\ Replay(t, c) = h[N]
  <2> DEFINE h == CHOOSE g : g = Body(g)
  <2>1. h = Body(h) BY <1>5
  <2>2. Replay(t, c) = h[N] BY <1>n DEF Replay
  <2> QED BY <2>1, <2>2
<1>7. PICK g : g = Body(g) /\ Replay(t, c) = g[N] BY <1>6
<1>8. \A n \in 0 .. N : f[n] = g[n]
  <2>1. \A n \in 0 .. N : g[n] = IF n = 0 THEN t ELSE ApplyPatch(g[n - 1], c[n]) BY <1>7
  <2>2. f[0] = g[0] BY <1>1, <1>3, <2>1 DEF Made
  <2>3. \A n \in 1 .. N : f[n - 1] = g[n - 1] => f[n] = g[n]
    <3> SUFFICES ASSUME NEW n \in 1 .. N, f[n - 1] = g[n - 1] PROVE f[n] = g[n] OBVIOUS
    <3>1. n \in 0 .. N /\ n # 0 BY <1>1
    <3>2. g[n] = ApplyPatch(g[n - 1], c[n]) BY <2>1, <3>1
    <3> QED BY <1>4, <3>2
  <2>4. Alike(f, g, N) BY <2>2, <2>3 DEF Alike
  <2> QED BY <2>4, MadeAlike
<1>9. N \in 0 .. N BY <1>1
<1>10. Replay(t, c) = f[N] BY <1>7, <1>8, <1>9
<1> QED BY <1>n, <1>3, <1>4, <1>10 DEF Made, Through

LEMMA ReplayTyped ==
    ASSUME NEW t \in Trees, NEW c \in Seq(Patches)
    PROVE  Replay(t, c) \in Trees
<1>1. PICK f : Through(f, t, c) BY ReplayThrough
<1>2. Len(c) \in 0 .. Len(c) BY LenProperties
<1> QED BY <1>1, <1>2 DEF Through

LEMMA ReplayNothing ==
    ASSUME NEW t \in Trees
    PROVE  Replay(t, <<>>) = t
<1>1. <<>> \in Seq(Patches) /\ Len(<<>>) = 0 OBVIOUS
<1>2. PICK f : Through(f, t, <<>>) BY <1>1, ReplayThrough
<1> QED BY <1>1, <1>2 DEF Through

LEMMA ReplayOneMore ==
    ASSUME NEW t \in Trees, NEW c \in Seq(Patches), NEW patch \in Patches
    PROVE  Replay(t, Append(c, patch)) = ApplyPatch(Replay(t, c), patch)
<1>1. PICK N \in Nat : N = Len(c) OBVIOUS
<1>2. PICK d \in Seq(Patches) : d = Append(c, patch) BY AppendProperties
<1>3. Len(d) = N + 1 /\ d[N + 1] = patch /\ \A n \in 1 .. N : d[n] = c[n] BY <1>1, <1>2
<1>4. PICK f : Through(f, t, c) BY ReplayThrough
<1>5. PICK g : Through(g, t, d) BY ReplayThrough
<1>6. f[0] = g[0] BY <1>4, <1>5 DEF Through
<1>7. ASSUME NEW n \in 1 .. N, f[n - 1] = g[n - 1] PROVE f[n] = g[n]
  <2>1. n \in 1 .. N + 1 OBVIOUS
  <2>2. f[n] = ApplyPatch(f[n - 1], c[n]) BY <1>1, <1>4 DEF Through
  <2>3. g[n] = ApplyPatch(g[n - 1], d[n]) BY <1>3, <1>5, <2>1 DEF Through
  <2> QED BY <1>3, <1>7, <2>2, <2>3
<1>8. Alike(f, g, N) BY <1>6, <1>7 DEF Alike
<1>9. f[N] = g[N]
  <2>1. N \in 0 .. N OBVIOUS
  <2> QED BY <1>8, <2>1, MadeAlike
<1>10. g[N + 1] = ApplyPatch(g[N], patch)
  <2>1. N + 1 \in 1 .. N + 1 /\ (N + 1) - 1 = N OBVIOUS
  <2>2. g[N + 1] = ApplyPatch(g[(N + 1) - 1], d[N + 1]) BY <1>3, <1>5, <2>1 DEF Through
  <2> QED BY <1>3, <2>1, <2>2
<1>11. Replay(t, c) = f[N] BY <1>1, <1>4 DEF Through
<1>12. Replay(t, d) = g[N + 1] BY <1>3, <1>5 DEF Through
<1> QED BY <1>2, <1>9, <1>10, <1>11, <1>12

LEMMA ReplaysOneMore ==
    ASSUME NEW t \in Trees, NEW c \in Seq(Patches), NEW patch \in Patches,
           Replays(t, c), Applies(Replay(t, c), patch)
    PROVE  Replays(t, Append(c, patch))
<1>1. PICK N \in Nat : N = Len(c) OBVIOUS
<1>2. PICK d \in Seq(Patches) : d = Append(c, patch) BY AppendProperties
<1>3. Len(d) = N + 1 /\ d[N + 1] = patch /\ \A n \in 1 .. N : d[n] = c[n] BY <1>1, <1>2
<1>4. SubSeq(d, 1, N) = c /\ \A n \in 1 .. N : SubSeq(d, 1, n - 1) = SubSeq(c, 1, n - 1)
  BY <1>1, <1>2
<1>5. ASSUME NEW i \in DOMAIN d PROVE Applies(Replay(t, SubSeq(d, 1, i - 1)), d[i])
  <2>0. i \in 1 .. N + 1 BY <1>3
  <2>1. CASE i = N + 1
    <3>1. SubSeq(d, 1, i - 1) = c BY <1>4, <2>1
    <3> QED BY <1>3, <2>1, <3>1
  <2>2. CASE i # N + 1
    <3>1. i \in 1 .. N /\ i \in DOMAIN c BY <1>1, <2>0, <2>2
    <3>2. Applies(Replay(t, SubSeq(c, 1, i - 1)), c[i]) BY <3>1 DEF Replays
    <3>3. SubSeq(d, 1, i - 1) = SubSeq(c, 1, i - 1) /\ d[i] = c[i] BY <1>3, <1>4, <3>1
    <3> QED BY <3>2, <3>3
  <2> QED BY <2>1, <2>2
<1> QED BY <1>2, <1>5 DEF Replays

-----------------------------------------------------------------------------
(* The patches that are kept *)

Keeps(g, patches) ==
    /\ g \in [0 .. Len(patches) -> Seq(Patches)] /\ g[0] = <<>>
    /\ \A n \in 1 .. Len(patches) :
          g[n] = IF patches[n] = {} THEN g[n - 1] ELSE Append(g[n - 1], patches[n])
    /\ NonEmpty(patches) = g[Len(patches)]

LEMMA NonEmptyKeeps ==
    ASSUME NEW c \in Seq(Patches)
    PROVE  \E g : Keeps(g, c)
<1>n. PICK N \in Nat : N = Len(c) OBVIOUS
<1> DEFINE Next1(s, n) == IF c[n] = {} THEN s ELSE Append(s, c[n])
           step == [z \in Seq(Patches) \X (1 .. N) |-> Next1(z[1], z[2])]
           Body(f) == [n \in 0 .. N |-> IF n = 0 THEN <<>>
                                        ELSE IF c[n] = {} THEN f[n - 1] ELSE Append(f[n - 1], c[n])]
<1>1. N \in Nat /\ \A n \in 1 .. N : c[n] \in Patches BY <1>n
<1>2. step \in [Seq(Patches) \X (1 .. N) -> Seq(Patches)]
  <2>1. ASSUME NEW s \in Seq(Patches), NEW n \in 1 .. N PROVE Next1(s, n) \in Seq(Patches)
    BY <1>1, AppendProperties
  <2> QED BY <2>1
<1>3. PICK f : Made(f, N, Seq(Patches), <<>>, step)
  <2> HIDE DEF step
  <2>1. <<>> \in Seq(Patches) OBVIOUS
  <2> QED BY <1>1, <1>2, <2>1, Recursion
<1>4. \A n \in 1 .. N : f[n - 1] \in Seq(Patches) /\ f[n] = Next1(f[n - 1], n)
  <2> SUFFICES ASSUME NEW n \in 1 .. N
               PROVE f[n - 1] \in Seq(Patches) /\ f[n] = Next1(f[n - 1], n) OBVIOUS
  <2>1. n - 1 \in 0 .. N BY <1>1
  <2>2. f[n - 1] \in Seq(Patches) BY <1>3, <2>1 DEF Made
  <2>3. f[n] = step[<<f[n - 1], n>>] BY <1>3 DEF Made
  <2> HIDE DEF Next1
  <2> QED BY <2>2, <2>3
<1>5. f = Body(f)
  <2>1. f \in [0 .. N -> Seq(Patches)] /\ f[0] = <<>> BY <1>3 DEF Made
  <2>2. ASSUME NEW n \in 0 .. N PROVE f[n] = Body(f)[n]
    <3>1. CASE n = 0 BY <2>1, <3>1
    <3>2. CASE n # 0
      <4>1. n \in 1 .. N BY <1>1, <3>2
      <4> QED BY <1>4, <3>2, <4>1
    <3> QED BY <3>1, <3>2
  <2>3. f = [n \in 0 .. N |-> f[n]] BY <2>1
  <2> QED BY <2>2, <2>3
<1>6. \E h : h = Body(h) /\ NonEmpty(c) = h[N]
  <2> DEFINE h == CHOOSE g : g = Body(g)
  <2>1. h = Body(h) BY <1>5
  <2>2. NonEmpty(c) = h[N] BY <1>n DEF NonEmpty
  <2> QED BY <2>1, <2>2
<1>7. PICK g : g = Body(g) /\ NonEmpty(c) = g[N] BY <1>6
<1>8. \A n \in 0 .. N : f[n] = g[n]
  <2>1. \A n \in 0 .. N : g[n] = IF n = 0 THEN <<>> ELSE Next1(g[n - 1], n) BY <1>7
  <2>2. f[0] = g[0] BY <1>1, <1>3, <2>1 DEF Made
  <2>3. \A n \in 1 .. N : f[n - 1] = g[n - 1] => f[n] = g[n]
    <3> SUFFICES ASSUME NEW n \in 1 .. N, f[n - 1] = g[n - 1] PROVE f[n] = g[n] OBVIOUS
    <3>1. n \in 0 .. N /\ n # 0 BY <1>1
    <3>2. g[n] = Next1(g[n - 1], n) BY <2>1, <3>1
    <3> QED BY <1>4, <3>2
  <2>4. Alike(f, g, N) BY <2>2, <2>3 DEF Alike
  <2> QED BY <2>4, MadeAlike
<1>9. N \in 0 .. N BY <1>1
<1>10. NonEmpty(c) = f[N] BY <1>7, <1>8, <1>9
<1> QED BY <1>n, <1>3, <1>4, <1>10 DEF Made, Keeps

-----------------------------------------------------------------------------
(* The files of a tree and what is cut from a diff *)

\* There is a largest set of renames, in which each file has one end at most.
LEMMA RenamesExact ==
    ASSUME NEW t, NEW u
    PROVE  Renames(t, u) \in Pairings(t, u) /\ Renames(t, u) \subseteq Exact(t, u)
<1> DEFINE E == Exact(t, u)
           Ps == Pairings(t, u)
           R == {r \in Nat \X Nat : r[1] < r[2]}
           Left == {Cardinality(E) - Cardinality(M) : M \in Ps}
<1>1. IsFiniteSet(E)
  <2>1. IsFiniteSet(Paths \X Paths) BY FS_Product, PatchAssumption
  <2>2. E \subseteq Paths \X Paths BY DEF Exact
  <2> QED BY <2>1, <2>2, FS_Subset
<1>2. {} \in Ps /\ \A M \in Ps : M \subseteq E BY DEF Pairings
<1> HIDE DEF E, Ps
<1>3. ASSUME NEW M \in Ps
      PROVE  /\ IsFiniteSet(M) /\ Cardinality(M) \in Nat /\ Cardinality(E) \in Nat
             /\ Cardinality(M) <= Cardinality(E)
  BY <1>1, <1>2, FS_Subset, FS_CardinalityType
<1>4. Left \subseteq Nat /\ Left # {}
  <2>1. ASSUME NEW M \in Ps PROVE Cardinality(E) - Cardinality(M) \in Nat BY <1>3
  <2> QED BY <1>2, <2>1
<1>5. IsWellFoundedOn(R, Nat)
  <2>1. R = OpToRel(<, Nat) BY DEF OpToRel
  <2> QED BY <2>1, NatLessThanWellFounded
<1>6. PICK x \in Left : \A y \in Left : ~ (<<y, x>> \in R)
  <2> HIDE DEF R, Left
  <2> QED BY <1>4, <1>5, WFMin
<1>7. PICK M \in Ps : x = Cardinality(E) - Cardinality(M) BY <1>6
<1>8. ASSUME NEW N \in Ps, M \subseteq N PROVE N = M
  <2>1. PICK y \in Left : y = Cardinality(E) - Cardinality(N) OBVIOUS
  <2>2. x \in Nat /\ y \in Nat /\ ~ (y < x) BY <1>4, <1>6, <2>1
  <2>3. Cardinality(M) <= Cardinality(N) BY <1>3, <1>8, FS_Subset
  <2>4. Cardinality(M) = Cardinality(N) BY <1>3, <1>7, <2>1, <2>2, <2>3
  <2> QED BY <1>3, <1>8, <2>4, FS_Subset
<1>9. Renames(t, u) \in Ps BY <1>7, <1>8 DEF Renames, Ps
<1> QED BY <1>2, <1>9 DEF Ps, E

\* t, with the files of u that may be recorded.
Over(t, u) == [p \in Paths |-> IF IsExcluded(p) THEN t[p] ELSE u[p]]

LEMMA Sections ==
    ASSUME NEW t \in Trees, NEW u \in Trees
    PROVE  /\ Diff(t, u) \in Patches
           /\ \A s \in Diff(t, u) :
                 /\ s.old = t[s.from] /\ s.new = u[s.to]
                 /\ s.to # s.from => t[s.to] = Absent /\ u[s.from] = Absent
           /\ \A p \in Paths : t[p] # u[p] => \E s \in Diff(t, u) : s.to = p \/ s.from = p
           /\ \A p \in Paths : t[p] # u[p] /\ p \notin {m[1] : m \in Renames(t, u)} =>
                 p \in ChangedPaths(t, u)
<1> DEFINE R == Renames(t, u)
           C == {p \in Paths : t[p] # u[p] /\ \A m \in R : p \notin {m[1], m[2]}}
           Renamed(m) == [from |-> m[1], to |-> m[2], old |-> t[m[1]], new |-> u[m[2]]]
           Changed(p) == [from |-> p, to |-> p, old |-> t[p], new |-> u[p]]
<1>1. Diff(t, u) = {Renamed(m) : m \in R} \union {Changed(p) : p \in C} BY DEF Diff
<1>2. \A p \in Paths : t[p] \in Contents /\ u[p] \in Contents BY DEF Trees
<1>3. ASSUME NEW m \in R
      PROVE  m[1] \in Paths /\ m[2] \in Paths /\ t[m[2]] = Absent /\ u[m[1]] = Absent
  <2>1. m \in Exact(t, u) BY RenamesExact
  <2> QED BY <2>1 DEF Exact
<1> HIDE DEF R
<1>4. \A m \in R : Renamed(m) \in Hunks BY <1>2, <1>3 DEF Hunks
<1>5. \A p \in C : Changed(p) \in Hunks BY <1>2 DEF Hunks
<1>6. Diff(t, u) \in Patches BY <1>1, <1>4, <1>5 DEF Patches
<1>7. ASSUME NEW s \in Diff(t, u)
      PROVE  /\ s.old = t[s.from] /\ s.new = u[s.to]
             /\ s.to # s.from => t[s.to] = Absent /\ u[s.from] = Absent
  <2>1. CASE \E m \in R : s = Renamed(m)
    <3>1. PICK m \in R : s = Renamed(m) BY <2>1
    <3>2. s.from = m[1] /\ s.to = m[2] /\ s.old = t[m[1]] /\ s.new = u[m[2]] BY <3>1
    <3> HIDE DEF Renamed
    <3> QED BY <1>3, <3>2
  <2>2. CASE \E p \in C : s = Changed(p) BY <2>2
  <2> QED BY <1>1, <2>1, <2>2
<1>8. ASSUME NEW p \in Paths, t[p] # u[p] PROVE \E s \in Diff(t, u) : s.to = p \/ s.from = p
  <2>1. CASE p \in C
    <3>1. Changed(p) \in Diff(t, u) /\ Changed(p).to = p BY <1>1, <2>1
    <3> QED BY <3>1
  <2>2. CASE p \notin C
    <3>1. PICK m \in R : p \in {m[1], m[2]} BY <1>8, <2>2
    <3>2. Renamed(m) \in Diff(t, u) BY <1>1
    <3>3. Renamed(m).to = p \/ Renamed(m).from = p BY <3>1
    <3> QED BY <3>2, <3>3
  <2> QED BY <2>1, <2>2
<1>9. ASSUME NEW p \in Paths, t[p] # u[p], p \notin {m[1] : m \in R} PROVE p \in ChangedPaths(t, u)
  <2>1. CASE p \in C
    <3>1. Changed(p) \in Diff(t, u) /\ Changed(p).to = p BY <1>1, <2>1
    <3> QED BY <3>1 DEF ChangedPaths
  <2>2. CASE p \notin C
    <3>1. PICK m \in R : p = m[2] BY <1>9, <2>2
    <3>2. Renamed(m) \in Diff(t, u) /\ Renamed(m).to = p BY <1>1, <3>1
    <3> QED BY <3>2 DEF ChangedPaths
  <2> QED BY <2>1, <2>2
<1>10. \A p \in Paths : t[p] # u[p] /\ p \notin {m[1] : m \in Renames(t, u)} => p \in ChangedPaths(t, u)
  BY <1>9 DEF R
<1> QED BY <1>6, <1>7, <1>8, <1>10

LEMMA KeptTyped ==
    ASSUME NEW t \in Trees, NEW u \in Trees
    PROVE  FilterPatchHunks(Diff(t, u)) \in Patches
<1>1. Diff(t, u) \in Patches BY Sections
<1> QED BY <1>1 DEF FilterPatchHunks, Patches

\* A diff from which excluded files are cut applies to every tree that has the
\* other files as they were, and makes them what they have become, if no rename
\* crosses the cut.
LEMMA KeptApplies ==
    ASSUME NEW t \in Trees, NEW u \in Trees, NEW v \in Trees, ~Crosses(t, u),
           \A p \in Paths : ~IsExcluded(p) => v[p] = t[p]
    PROVE  LET F == FilterPatchHunks(Diff(t, u))
           IN  F \in Patches /\ Applies(v, F) /\ ApplyPatch(v, F) = Over(v, u)
<1>d. PICK D : D = Diff(t, u) OBVIOUS
<1>1. /\ D \in Patches
      /\ \A p \in Paths : t[p] # u[p] => \E s \in D : s.to = p \/ s.from = p
  BY <1>d, Sections
<1>s. ASSUME NEW s \in D
      PROVE  /\ s \in Hunks
             /\ s.old = t[s.from] /\ s.new = u[s.to]
             /\ s.to # s.from => t[s.to] = Absent /\ u[s.from] = Absent
  <2>1. s \in Hunks BY <1>1 DEF Patches
  <2>2. \A r \in Diff(t, u) :
                 /\ r.old = t[r.from] /\ r.new = u[r.to]
                 /\ r.to # r.from => t[r.to] = Absent /\ u[r.from] = Absent
    BY Sections
  <2> QED BY <1>d, <2>1, <2>2
<1>2. PICK F : F = FilterPatchHunks(D) /\ F = {s \in D : ~IsExcluded(s.from)} BY DEF FilterPatchHunks
<1>3. F \in Patches BY <1>1, <1>2 DEF Patches
<1>4. ASSUME NEW s \in D PROVE s.from \in Paths /\ s.to \in Paths /\ (IsExcluded(s.from) <=> IsExcluded(s.to))
  <2>1. s.from \in Paths /\ s.to \in Paths BY <1>s DEF Hunks
  <2>2. IsExcluded(s.from) = IsExcluded(s.to) BY <1>d DEF Crosses
  <2> QED BY <2>1, <2>2
<1>5. Applies(v, F)
  <2> SUFFICES ASSUME NEW s \in F
               PROVE v[s.from] = s.old /\ (s.to # s.from => v[s.to] = Absent) BY DEF Applies
  <2>1. s \in D /\ ~IsExcluded(s.from) BY <1>2
  <2> QED BY <1>s, <1>4, <2>1
<1>6. ASSUME NEW p \in Paths PROVE ApplyPatch(v, F)[p] = Over(v, u)[p]
  <2>1. ApplyPatch(v, F)[p] = IF \E s \in F : s.to = p THEN (CHOOSE s \in F : s.to = p).new
                              ELSE IF \E s \in F : s.from = p THEN Absent ELSE v[p]
    BY DEF ApplyPatch
  <2>2. Over(v, u)[p] = IF IsExcluded(p) THEN v[p] ELSE u[p] BY DEF Over
  <2>3. CASE \E s \in F : s.to = p
    <3>1. PICK s \in F : s = (CHOOSE r \in F : r.to = p) /\ s.to = p BY <2>3
    <3>2. s \in D /\ ~IsExcluded(p) BY <1>2, <1>4, <3>1
    <3>3. s.new = u[p] BY <1>s, <3>1, <3>2
    <3> QED BY <2>1, <2>2, <2>3, <3>1, <3>2, <3>3
  <2>4. CASE ~(\E s \in F : s.to = p) /\ \E s \in F : s.from = p
    <3>1. PICK s \in F : s.from = p BY <2>4
    <3>2. s \in D /\ ~IsExcluded(p) /\ s.to # p BY <1>2, <2>4, <3>1
    <3>3. u[p] = Absent BY <1>s, <3>1, <3>2
    <3> QED BY <2>1, <2>2, <2>4, <3>2, <3>3
  <2>5. CASE ~(\E s \in F : s.to = p) /\ ~(\E s \in F : s.from = p)
    <3>1. ApplyPatch(v, F)[p] = v[p] BY <2>1, <2>5
    <3>2. CASE IsExcluded(p) BY <2>2, <3>1, <3>2
    <3>3. CASE ~IsExcluded(p)
      <4>1. t[p] = u[p]
        <5> SUFFICES ASSUME t[p] # u[p] PROVE FALSE OBVIOUS
        <5>1. PICK s \in D : s.to = p \/ s.from = p BY <1>1
        <5>2. ~IsExcluded(s.from) BY <1>4, <3>3, <5>1
        <5> QED BY <1>2, <2>5, <5>1, <5>2
      <4> QED BY <2>2, <3>1, <3>3, <4>1
    <3> QED BY <3>2, <3>3
  <2> QED BY <2>3, <2>4, <2>5
<1>7. ApplyPatch(v, F) = Over(v, u)
  <2>1. ApplyPatch(v, F) = [p \in Paths |-> ApplyPatch(v, F)[p]] BY DEF ApplyPatch
  <2>2. Over(v, u) = [p \in Paths |-> Over(v, u)[p]] BY DEF Over
  <2> QED BY <1>6, <2>1, <2>2
<1> QED BY <1>d, <1>2, <1>3, <1>5, <1>7

-----------------------------------------------------------------------------
(* The inductive invariant *)

\* Replayed in a new sandbox and on the host alike, commits give u as far as it
\* may be recorded, and leave the rest as it was.
Carries(commits, u) ==
    \A t \in {Base, HostTree} : Replays(t, commits) /\ Replay(t, commits) = Over(t, u)

AsInSandbox == \A p \in Carried : HeadTree[p] = work[p]

\* What was in the ledger before this round.
Before == SubSeq(ledger, 1, Len(ledger) - Len(got))

\* Nothing is said of the ledger once a rename has crossed what is recorded.
Ledger ==
    /\ pc \in {"agent", "failed"} => got = <<>>
    /\ pc = "verify" => Len(got) <= Len(ledger)
    /\ ~crossed.taken =>
          /\ pc \in {"agent", "failed", "reported"} => Carries(ledger, pre.tree)
          /\ pc = "verify" => Carries(Before, pre.tree)
          /\ pc # "broken"
    /\ ~Crossed =>
          /\ pc = "reported" => Carries(ledger \o got, HeadTree) /\ AsInSandbox
          /\ pc \in {"verify", "done"} => Carries(ledger, HeadTree) /\ AsInSandbox

Inv ==
    /\ TypeOK
    /\ pc \in {"agent", "failed"} => Len(history) <= MaxCommits
    /\ allow => ~catalog
    /\ Ledger

LEMMA SameRun ==
    ASSUME UNCHANGED run
    PROVE  /\ Base' = Base /\ HostTree' = HostTree
           /\ \A p : IsExcluded(p)' = IsExcluded(p)
           /\ \A t, u : Over(t, u)' = Over(t, u)
<1>1. HostTree' = HostTree BY DEF run, HostTree
<1>2. Base' = Base BY <1>1 DEF run, Base
<1>3. \A p : IsExcluded(p)' = IsExcluded(p) BY DEF run, IsExcluded
<1>4. \A t, u : Over(t, u)' = Over(t, u) BY <1>3 DEF Over
<1> QED BY <1>1, <1>2, <1>3, <1>4

LEMMA StillCarries ==
    ASSUME UNCHANGED run, NEW c, NEW u, Carries(c, u)
    PROVE  Carries(c, u)'
<1> QED BY SameRun DEF Carries

LEMMA ImportTyped == Base \in Trees /\ HostTree \in Trees
<1>1. ASSUME NEW p \in Paths PROVE HostTree[p] \in Contents /\ Base[p] \in Contents
  <2>1. HostTree[p] \in {<<p, "edited">>, <<p, "base">>, Absent} BY DEF HostTree
  <2>2. Base[p] \in {HostTree[p], Absent} BY DEF Base
  <2>3. <<p, "edited">> \in Contents /\ <<p, "base">> \in Contents /\ Absent \in Contents BY DEF Contents
  <2> QED BY <2>1, <2>2, <2>3
<1> QED BY <1>1 DEF Trees, Base, HostTree

\* The tree at the tip.
LEMMA TipTyped ==
    ASSUME TypeOK
    PROVE  HeadTree \in Trees
<1>1. pre.tree \in Trees /\ history \in Seq(Trees) BY DEF TypeOK
<1>2. CASE history = <<>> BY <1>1, <1>2 DEF HeadTree, Tip
<1>3. CASE history # <<>>
  <2>1. HeadTree = history[Len(history)] BY <1>3 DEF HeadTree, Tip, Last
  <2>2. Len(history) \in DOMAIN history /\ history[Len(history)] \in Trees BY <1>1, <1>3
  <2> QED BY <2>1, <2>2
<1> QED BY <1>2, <1>3

LEMMA StagedTyped ==
    ASSUME TypeOK
    PROVE  Staged \in Trees
<1>1. work \in Trees BY DEF TypeOK
<1>2. HeadTree \in Trees BY TipTyped
<1>3. PICK h : h = HeadTree OBVIOUS
<1>4. \A p \in Paths : Staged[p] \in {h[p], work[p]} BY <1>3 DEF Staged
<1>5. \A p \in Paths : Staged[p] \in Contents
  BY <1>1, <1>2, <1>3, <1>4 DEF Trees
<1> QED BY <1>5 DEF Staged, Trees

\* A commit that joins: what is recorded of it carries the next tree.
LEMMA OneMoreCarries ==
    ASSUME NEW t \in Trees, NEW u \in Trees, ~Crosses(t, u),
           NEW c \in Seq(Patches), Carries(c, t)
    PROVE  LET F == FilterPatchHunks(Diff(t, u))
           IN  /\ F \in Patches
               /\ Carries(IF F = {} THEN c ELSE Append(c, F), u)
               /\ F = {} => \A p \in Paths : ~IsExcluded(p) => t[p] = u[p]
<1>1. PICK F : F = FilterPatchHunks(Diff(t, u)) OBVIOUS
<1>2. F \in Patches /\ Applies(t, F) /\ ApplyPatch(t, F) = Over(t, u)
  BY <1>1, KeptApplies
<1>3. ASSUME F = {} PROVE \A p \in Paths : ~IsExcluded(p) => t[p] = u[p]
  <2>1. \A p \in Paths : ApplyPatch(t, F)[p] = t[p] BY <1>3 DEF ApplyPatch
  <2>2. \A p \in Paths : ~IsExcluded(p) => Over(t, u)[p] = u[p] BY DEF Over
  <2> QED BY <1>2, <2>1, <2>2
<1>4. ASSUME NEW b \in {Base, HostTree}
      PROVE  LET d == IF F = {} THEN c ELSE Append(c, F)
             IN  Replays(b, d) /\ Replay(b, d) = Over(b, u)
  <2>1. b \in Trees BY ImportTyped
  <2>2. PICK v : v = Replay(b, c) OBVIOUS
  <2>3. Replays(b, c) /\ v = Over(b, t) BY <2>2 DEF Carries
  <2>4. v \in Trees BY <2>1, <2>2, ReplayTyped
  <2>5. \A p \in Paths : v[p] = IF IsExcluded(p) THEN b[p] ELSE t[p] BY <2>3 DEF Over
  <2>6. CASE F = {}
    <3>1. Over(b, t) = Over(b, u) BY <1>3, <2>6 DEF Over
    <3> QED BY <2>2, <2>3, <2>6, <3>1
  <2>7. CASE F # {}
    <3>1. Applies(v, F) /\ ApplyPatch(v, F) = Over(v, u) BY <1>1, <2>4, <2>5, KeptApplies
    <3>2. Over(v, u) = Over(b, u) BY <2>5 DEF Over
    <3>3. Replays(b, Append(c, F)) BY <1>2, <2>1, <2>2, <2>3, <3>1, ReplaysOneMore
    <3>4. Replay(b, Append(c, F)) = ApplyPatch(v, F) BY <1>2, <2>1, <2>2, ReplayOneMore
    <3> QED BY <2>7, <3>1, <3>2, <3>3, <3>4
  <2> QED BY <2>6, <2>7
<1>5. Carries(IF F = {} THEN c ELSE Append(c, F), u) BY <1>4 DEF Carries
<1> QED BY <1>1, <1>2, <1>3, <1>5

LEMMA AppendLast ==
    ASSUME NEW S, NEW s \in Seq(S), NEW r \in Seq(S), NEW x \in S
    PROVE  s \o Append(r, x) = Append(s \o r, x) /\ s \o r \in Seq(S)
<1>1. <<x>> \in Seq(S) OBVIOUS
<1>2. Append(r, x) = r \o <<x>> BY AppendIsConcat
<1>3. s \o r \in Seq(S) BY ConcatProperties
<1>4. Append(s \o r, x) = (s \o r) \o <<x>> BY <1>3, AppendIsConcat
<1>5. (s \o r) \o <<x>> = s \o (r \o <<x>>) BY <1>1, ConcatAssociative
<1> QED BY <1>2, <1>3, <1>4, <1>5

\* The trees of a round, the first before it and the last as staged.
RoundTree(k) == IF k = 0 THEN pre.tree ELSE Append(history, Staged)[k]

LEMMA RoundTrees ==
    ASSUME TypeOK
    PROVE  /\ \A k \in 0 .. Len(history) + 1 : RoundTree(k) \in Trees
           /\ \A k \in 1 .. Len(history) + 1 :
                 RoundTree(k - 1) = Tip(pre.tree, SubSeq(history, 1, k - 1))
           /\ \A k \in 1 .. Len(history) : RoundTree(k) = history[k]
           /\ RoundTree(Len(history)) = HeadTree
           /\ RoundTree(Len(history) + 1) = Staged
<1>0. PICK N \in Nat : N = Len(history) BY DEF TypeOK
<1>1. /\ pre.tree \in Trees /\ history \in Seq(Trees) /\ Staged \in Trees
  BY <1>0, StagedTyped DEF TypeOK
<1>2. PICK s : s = Staged OBVIOUS
<1>3. Append(history, s)[N + 1] = s /\ \A k \in 1 .. N : Append(history, s)[k] = history[k]
  BY <1>0, <1>1, <1>2
<1>4. RoundTree(0) = pre.tree BY DEF RoundTree
<1>5. ASSUME NEW k \in 1 .. N PROVE RoundTree(k) = history[k]
  <2>1. k # 0 OBVIOUS
  <2>2. RoundTree(k) = Append(history, s)[k] BY <1>2, <2>1 DEF RoundTree
  <2> QED BY <1>3, <2>2
<1>6. RoundTree(N + 1) = Staged BY <1>2, <1>3 DEF RoundTree
<1>7. ASSUME NEW k \in 0 .. N + 1 PROVE RoundTree(k) \in Trees
  <2>1. k = 0 \/ k = N + 1 \/ k \in 1 .. N OBVIOUS
  <2>2. \A i \in 1 .. N : history[i] \in Trees BY <1>0, <1>1
  <2> QED BY <1>1, <1>4, <1>5, <1>6, <2>1, <2>2
<1>8. ASSUME NEW k \in 1 .. N + 1 PROVE RoundTree(k - 1) = Tip(pre.tree, SubSeq(history, 1, k - 1))
  <2>1. PICK h : h = SubSeq(history, 1, k - 1) OBVIOUS
  <2>2. CASE k = 1
    <3>1. h = <<>> BY <2>1, <2>2
    <3>2. k - 1 = 0 BY <2>2
    <3> QED BY <1>4, <2>1, <3>1, <3>2 DEF Tip
  <2>3. CASE k # 1
    <3>1. k - 1 \in 1 .. N BY <2>3
    <3>2. h \in Seq(Trees) /\ Len(h) = k - 1 /\ h[k - 1] = history[k - 1] /\ h # <<>>
      BY <1>0, <1>1, <2>1, <3>1
    <3>3. Tip(pre.tree, h) = history[k - 1] BY <3>2 DEF Tip, Last
    <3> QED BY <1>5, <2>1, <3>1, <3>3
  <2> QED BY <2>2, <2>3
<1>9. RoundTree(N) = HeadTree
  <2>1. N + 1 \in 1 .. N + 1 /\ (N + 1) - 1 = N OBVIOUS
  <2>2. SubSeq(history, 1, N) = history BY <1>0, <1>1
  <2>3. RoundTree(N) = Tip(pre.tree, SubSeq(history, 1, N)) BY <1>8, <2>1
  <2> QED BY <2>2, <2>3 DEF HeadTree
<1> QED BY <1>0, <1>5, <1>6, <1>7, <1>8, <1>9

LEMMA ExtractCarries ==
    ASSUME TypeOK, ExtractIncrementalRoundPatch
    PROVE  /\ got' \in Seq(Patches)
           /\ crossed' \in [taken: BOOLEAN, round: BOOLEAN] /\ crossed'.taken = crossed.taken
           /\ history' = Append(history, Staged) \/ history' = history
           /\ Carries(ledger, pre.tree) /\ ~crossed'.round =>
                 /\ Carries(ledger \o got', Staged)
                 /\ \/ history' = Append(history, Staged)
                    \/ /\ history' = history
                       /\ \A p \in Paths : ~IsExcluded(p) => HeadTree[p] = Staged[p]
<1> DEFINE made == [i \in DOMAIN history |->
                       FilterPatchHunks(Diff(Tip(pre.tree, SubSeq(history, 1, i - 1)), history[i]))]
           wip == FilterPatchHunks(Diff(HeadTree, Staged))
<1>0. PICK N \in Nat : N = Len(history) /\ DOMAIN history = 1 .. N BY DEF TypeOK
<1>1. PICK T : T = [k \in 0 .. N + 1 |-> RoundTree(k)] OBVIOUS
<1>2. /\ \A k \in 0 .. N + 1 : T[k] \in Trees
      /\ \A k \in 1 .. N : T[k - 1] = Tip(pre.tree, SubSeq(history, 1, k - 1)) /\ T[k] = history[k]
      /\ T[0] = pre.tree /\ T[N] = HeadTree /\ T[N + 1] = Staged
  <2>1. \A k \in 0 .. N + 1 : T[k] = RoundTree(k) BY <1>1
  <2>2. \A k \in 1 .. N : k - 1 \in 0 .. N + 1 /\ k \in 0 .. N + 1 /\ k \in 1 .. N + 1 OBVIOUS
  <2>3. 0 \in 0 .. N + 1 /\ N \in 0 .. N + 1 /\ N + 1 \in 0 .. N + 1 OBVIOUS
  <2>4. RoundTree(0) = pre.tree BY DEF RoundTree
  <2>5. \A k \in 1 .. N : RoundTree(k - 1) = Tip(pre.tree, SubSeq(history, 1, k - 1)) /\ RoundTree(k) = history[k]
    BY <1>0, <2>2, RoundTrees
  <2>6. RoundTree(N) = HeadTree /\ RoundTree(N + 1) = Staged BY <1>0, RoundTrees
  <2>7. \A k \in 0 .. N + 1 : RoundTree(k) \in Trees BY <1>0, RoundTrees
  <2> QED BY <2>1, <2>2, <2>3, <2>4, <2>5, <2>6, <2>7
<1>3. PICK F : F = [k \in 1 .. N + 1 |-> FilterPatchHunks(Diff(T[k - 1], T[k]))] OBVIOUS
<1>4. \A k \in 1 .. N + 1 : F[k] \in Patches
  <2>1. ASSUME NEW k \in 1 .. N + 1 PROVE F[k] \in Patches
    <3>1. k - 1 \in 0 .. N + 1 /\ k \in 0 .. N + 1 OBVIOUS
    <3>2. FilterPatchHunks(Diff(T[k - 1], T[k])) \in Patches
      BY <1>2, <3>1, KeptTyped
    <3> QED BY <1>3, <3>2
  <2> QED BY <2>1
<1>5. made \in Seq(Patches) /\ Len(made) = N /\ \A k \in 1 .. N : made[k] = F[k]
  <2>1. \A k \in 1 .. N : k \in 1 .. N + 1 OBVIOUS
  <2>2. \A k \in 1 .. N : F[k] = FilterPatchHunks(Diff(T[k - 1], T[k])) BY <1>3, <2>1
  <2>3. \A k \in 1 .. N : made[k] = FilterPatchHunks(Diff(T[k - 1], T[k])) BY <1>0, <1>2
  <2>4. \A k \in 1 .. N : made[k] = F[k] /\ made[k] \in Patches BY <1>4, <2>1, <2>2, <2>3
  <2>5. made = [k \in 1 .. N |-> made[k]] BY <1>0
  <2> HIDE DEF made
  <2>6. made \in [1 .. N -> Patches] BY <2>4, <2>5
  <2>7. made \in Seq(Patches) BY <2>6, IsASeq
  <2>8. Len(made) = N BY <2>6, <2>7, LenProperties
  <2> QED BY <2>4, <2>7, <2>8
<1>6. wip = F[N + 1] /\ wip \in Patches
  <2>1. N + 1 \in 1 .. N + 1 /\ (N + 1) - 1 = N OBVIOUS
  <2>2. F[N + 1] = FilterPatchHunks(Diff(T[N], T[N + 1])) BY <1>3, <2>1
  <2>3. F[N + 1] = wip BY <1>2, <2>2
  <2> QED BY <1>4, <2>1, <2>3
<1>7. /\ got' = NonEmpty(Append(made, wip))
      /\ history' = IF wip = {} THEN history ELSE Append(history, Staged)
  BY DEF ExtractIncrementalRoundPatch
<1> HIDE DEF made, wip
<1>8. PICK c \in Seq(Patches) : c = Append(made, wip) BY <1>5, <1>6, AppendProperties
<1>9. Len(c) = N + 1 /\ \A k \in 1 .. N + 1 : c[k] = F[k] BY <1>5, <1>6, <1>8, AppendProperties
<1>10. PICK g : Keeps(g, c) BY NonEmptyKeeps
<1>11. /\ \A k \in 0 .. N + 1 : g[k] \in Seq(Patches)
       /\ g[0] = <<>> /\ got' = g[N + 1]
       /\ \A k \in 1 .. N + 1 : g[k] = IF F[k] = {} THEN g[k - 1] ELSE Append(g[k - 1], F[k])
  <2>1. /\ g \in [0 .. N + 1 -> Seq(Patches)] /\ g[0] = <<>>
        /\ \A n \in 1 .. N + 1 : g[n] = IF c[n] = {} THEN g[n - 1] ELSE Append(g[n - 1], c[n])
        /\ NonEmpty(c) = g[N + 1]
    BY <1>9, <1>10 DEF Keeps
  <2> QED BY <1>7, <1>8, <1>9, <2>1
<1>12. PICK L \in Seq(Patches) : L = ledger BY DEF TypeOK, Patches, Hunks
<1> DEFINE CommitCrosses == \E i \in DOMAIN history :
                               Crosses(Tip(pre.tree, SubSeq(history, 1, i - 1)), history[i])
           RestCrosses == Crosses(HeadTree, Staged)
<1>c. crossed' = [crossed EXCEPT !.round = CommitCrosses \/ RestCrosses]
  BY DEF ExtractIncrementalRoundPatch
<1>t. crossed \in [taken: BOOLEAN, round: BOOLEAN] BY DEF TypeOK
<1>r. crossed'.round = (CommitCrosses \/ RestCrosses) /\ crossed'.taken = crossed.taken
  <2> HIDE DEF CommitCrosses, RestCrosses
  <2> QED BY <1>c, <1>t
<1>u. crossed' \in [taken: BOOLEAN, round: BOOLEAN]
  <2> HIDE DEF CommitCrosses, RestCrosses
  <2> QED BY <1>c, <1>t
<1>v. history' = Append(history, Staged) \/ history' = history BY <1>7
<1>w. got' \in Seq(Patches) BY <1>11
<1> SUFFICES ASSUME Carries(ledger, pre.tree), ~crossed'.round
             PROVE  /\ Carries(ledger \o got', Staged)
                    /\ \/ history' = Append(history, Staged)
                       \/ /\ history' = history
                          /\ \A p \in Paths : ~IsExcluded(p) => HeadTree[p] = Staged[p]
  BY <1>r, <1>u, <1>v, <1>w
<1>x. \A k \in 1 .. N + 1 : ~Crosses(T[k - 1], T[k])
  <2> SUFFICES ASSUME NEW k \in 1 .. N + 1 PROVE ~Crosses(T[k - 1], T[k]) OBVIOUS
  <2>1. ~CommitCrosses /\ ~RestCrosses BY <1>r
  <2>2. CASE k = N + 1
    <3>1. T[k - 1] = HeadTree /\ T[k] = Staged BY <1>2, <2>2
    <3> QED BY <2>1, <3>1
  <2>3. CASE k # N + 1
    <3>1. k \in 1 .. N BY <2>3
    <3>2. T[k - 1] = Tip(pre.tree, SubSeq(history, 1, k - 1)) /\ T[k] = history[k] BY <1>2, <3>1
    <3> QED BY <1>0, <2>1, <3>1, <3>2
  <2> QED BY <2>2, <2>3
<1> HIDE DEF CommitCrosses, RestCrosses
<1> DEFINE S == {k \in Nat : k <= N + 1 => Carries(L \o g[k], T[k])}
<1>13. 0 \in S
  <2>1. L \o <<>> = L BY ConcatEmptySeq
  <2> QED BY <1>2, <1>11, <1>12, <2>1
<1>14. ASSUME NEW k \in Nat, k \in S PROVE k + 1 \in S
  <2> SUFFICES ASSUME k + 1 <= N + 1 PROVE Carries(L \o g[k + 1], T[k + 1]) OBVIOUS
  <2>1. k + 1 \in 1 .. N + 1 /\ (k + 1) - 1 = k /\ k \in 0 .. N + 1 /\ k + 1 \in 0 .. N + 1 OBVIOUS
  <2>2. Carries(L \o g[k], T[k]) BY <1>14
  <2>3. g[k + 1] = IF F[k + 1] = {} THEN g[k] ELSE Append(g[k], F[k + 1]) BY <1>11, <2>1
  <2>4. F[k + 1] = FilterPatchHunks(Diff(T[k], T[k + 1])) BY <1>3, <2>1
  <2>5. PICK d \in Seq(Patches) : d = L \o g[k] BY <1>11, <2>1, ConcatProperties
  <2>6. T[k] \in Trees /\ T[k + 1] \in Trees BY <1>2, <2>1
  <2>7. Carries(IF F[k + 1] = {} THEN d ELSE Append(d, F[k + 1]), T[k + 1])
    <3> HIDE DEF S
    <3>1. PICK x \in Trees, y \in Trees : x = T[k] /\ y = T[k + 1] BY <2>6
    <3>2. PICK f : f = F[k + 1] OBVIOUS
    <3>3. f = FilterPatchHunks(Diff(x, y)) /\ Carries(d, x) /\ ~Crosses(x, y)
      BY <1>x, <2>1, <2>2, <2>4, <2>5, <2>6, <3>1, <3>2
    <3>4. Carries(IF f = {} THEN d ELSE Append(d, f), y) BY <3>3, OneMoreCarries
    <3> QED BY <3>1, <3>2, <3>4
  <2>8. L \o g[k + 1] = IF F[k + 1] = {} THEN d ELSE Append(d, F[k + 1])
    <3>1. g[k] \in Seq(Patches) /\ F[k + 1] \in Patches BY <1>4, <1>11, <2>1
    <3> HIDE DEF S
    <3>a. PICK r \in Seq(Patches) : r = g[k] BY <3>1
    <3>b. PICK x \in Patches : x = F[k + 1] BY <3>1
    <3>c. L \o Append(r, x) = Append(L \o r, x) BY AppendLast
    <3>2. L \o Append(g[k], F[k + 1]) = Append(L \o g[k], F[k + 1]) BY <3>a, <3>b, <3>c
    <3> QED BY <2>3, <2>5, <3>2
  <2> QED BY <2>7, <2>8
<1>15. Nat \subseteq S
  <2> HIDE DEF S
  <2> QED BY <1>13, <1>14, Induct
<1>16. Carries(ledger \o got', Staged)
  <2>1. N + 1 \in S BY <1>15
  <2> QED BY <1>2, <1>11, <1>12, <2>1
<1>18. ASSUME wip = {} PROVE \A p \in Paths : ~IsExcluded(p) => HeadTree[p] = Staged[p]
  <2>1. PICK h, s : h = HeadTree /\ s = Staged OBVIOUS
  <2>2. h \in Trees /\ s \in Trees /\ ~Crosses(h, s)
    BY <1>r, <2>1, TipTyped, StagedTyped DEF RestCrosses
  <2>3. FilterPatchHunks(Diff(h, s)) = {} BY <1>18, <2>1 DEF wip
  <2>4. ApplyPatch(h, FilterPatchHunks(Diff(h, s))) = Over(h, s) BY <2>2, KeptApplies
  <2>5. \A p \in Paths : ApplyPatch(h, {})[p] = h[p] BY DEF ApplyPatch
  <2>6. \A p \in Paths : ~IsExcluded(p) => Over(h, s)[p] = s[p] BY DEF Over
  <2> QED BY <2>1, <2>3, <2>4, <2>5, <2>6
<1> QED BY <1>7, <1>16, <1>18

-----------------------------------------------------------------------------
(* The steps *)

\* What carries a tree carries it in the next state.
LEMMA CarriesNext ==
    ASSUME UNCHANGED run, NEW c, NEW u, Carries(c, u)
    PROVE  /\ c = ledger' /\ u = pre'.tree => Carries(ledger, pre.tree)'
           /\ c = ledger' /\ u = HeadTree' => Carries(ledger, HeadTree)'
           /\ c = ledger' \o got' /\ u = HeadTree' => Carries(ledger \o got, HeadTree)'
           /\ c = Before' /\ u = pre'.tree => Carries(Before, pre.tree)'
<1>1. Carries(c, u)' BY StillCarries
<1> QED BY <1>1 DEF Carries

LEMMA SameFiles ==
    ASSUME UNCHANGED run, \A p \in Carried : HeadTree'[p] = work'[p]
    PROVE  AsInSandbox'
<1>1. Carried' = Carried BY SameRun DEF Carried
<1> QED BY <1>1 DEF AsInSandbox

\* The agent at work disturbs no tree but its own.
LEMMA AgentStep ==
    ASSUME Inv, pc = "agent", UNCHANGED <<run, config, pc, row, tries, pre, got, ledger, crossed, starts>>,
           edits' \in 0 .. MaxEdits, work' \in Trees,
           history' \in Seq(Trees), Len(history') <= MaxCommits
    PROVE  Inv'
<1>1. TypeOK' BY PatchAssumption DEF Inv, TypeOK, run
<1>2. (allow => ~catalog)' /\ pc' = "agent" BY DEF Inv, run
<1>3. crossed' = crossed OBVIOUS
<1>4. got' = <<>> /\ (~crossed.taken => Carries(ledger, pre.tree)) BY DEF Inv, Ledger
<1>5. ASSUME ~crossed.taken PROVE Carries(ledger, pre.tree)'
  <2>1. PICK c, u : c = ledger /\ u = pre.tree OBVIOUS
  <2>2. Carries(c, u) /\ c = ledger' /\ u = pre'.tree BY <1>4, <1>5, <2>1
  <2> QED BY <2>2, CarriesNext
<1>6. Ledger' BY <1>2, <1>3, <1>4, <1>5 DEF Ledger
<1> QED BY <1>1, <1>2, <1>6 DEF Inv

LEMMA EditsStep ==
    ASSUME Inv, NEW t \in Trees, Edits(t)
    PROVE  Inv'
<1>1. pc = "agent" /\ UNCHANGED <<run, config, pc, row, tries, pre, got, ledger, crossed, starts>>
      /\ work' = t /\ UNCHANGED history
  BY DEF Edits
<1>2. edits' \in 0 .. MaxEdits BY PatchAssumption DEF Edits, Inv, TypeOK
<1>3. history \in Seq(Trees) /\ Len(history) <= MaxCommits BY <1>1 DEF Inv, TypeOK
<1> QED BY <1>1, <1>2, <1>3, AgentStep

LEMMA CreatesStep ==
    ASSUME Inv, NEW p \in Paths, Creates(p)
    PROVE  Inv'
<1>1. PICK t : t = [work EXCEPT ![p] = <<p, "base">>] OBVIOUS
<1>2. work \in Trees BY DEF Inv, TypeOK
<1>3. <<p, "base">> \in Contents BY DEF Contents
<1>4. t \in Trees BY <1>1, <1>2, <1>3 DEF Trees
<1> QED BY <1>1, <1>4, EditsStep DEF Creates

LEMMA ChangesStep ==
    ASSUME Inv, NEW p \in Paths, Changes(p)
    PROVE  Inv'
<1>0. PICK x : x = <<work[p][1], IF work[p][2] = "base" THEN "edited" ELSE "base">> OBVIOUS
<1>1. PICK t : t = [work EXCEPT ![p] = x] OBVIOUS
<1>2. work \in Trees /\ work[p] # Absent BY DEF Inv, TypeOK, Changes
<1>3. x \in Contents
  <2>1. work[p] \in Paths \X {"base", "edited"} BY <1>2 DEF Trees, Contents
  <2>2. x \in Paths \X {"base", "edited"} BY <1>0, <2>1
  <2> QED BY <2>2 DEF Contents
<1>4. t \in Trees BY <1>1, <1>2, <1>3 DEF Trees
<1>5. Edits(t) BY <1>0, <1>1 DEF Changes
<1> QED BY <1>4, <1>5, EditsStep

LEMMA DeletesStep ==
    ASSUME Inv, NEW p \in Paths, Deletes(p)
    PROVE  Inv'
<1>1. PICK t : t = [work EXCEPT ![p] = Absent] OBVIOUS
<1>2. work \in Trees BY DEF Inv, TypeOK
<1>3. Absent \in Contents BY DEF Contents
<1>4. t \in Trees BY <1>1, <1>2, <1>3 DEF Trees
<1> QED BY <1>1, <1>4, EditsStep DEF Deletes

LEMMA RenamesStep ==
    ASSUME Inv, NEW p \in Paths, NEW q \in Paths, RenamesFile(p, q)
    PROVE  Inv'
<1>1. PICK t : t = [work EXCEPT ![p] = Absent, ![q] = work[p]] OBVIOUS
<1>2. work \in Trees BY DEF Inv, TypeOK
<1>3. Absent \in Contents /\ work[p] \in Contents BY <1>2 DEF Contents, Trees
<1>4. t \in Trees BY <1>1, <1>2, <1>3 DEF Trees
<1>5. Edits(t) BY <1>1 DEF RenamesFile
<1> QED BY <1>4, <1>5, EditsStep

LEMMA AgentCommitsStep ==
    ASSUME Inv, AgentCommits
    PROVE  Inv'
<1>1. PICK S, t : /\ t = [p \in Paths |-> IF p \in S THEN work[p] ELSE HeadTree[p]]
                  /\ history' = Append(history, t)
  BY DEF AgentCommits
<1>2. PICK h : h = HeadTree OBVIOUS
<1>3. h \in Trees /\ work \in Trees
  BY <1>2, TipTyped DEF Inv, TypeOK
<1>4. t \in Trees BY <1>1, <1>2, <1>3 DEF Trees
<1>5. /\ pc = "agent" /\ UNCHANGED <<run, config, pc, row, tries, pre, got, ledger, crossed, starts>>
      /\ UNCHANGED <<work, edits>> /\ Len(history) < MaxCommits
  BY DEF AgentCommits
<1>6. history \in Seq(Trees) /\ edits \in 0 .. MaxEdits BY DEF Inv, TypeOK
<1>7. history' \in Seq(Trees) /\ Len(history') <= MaxCommits
  BY <1>1, <1>4, <1>5, <1>6, AppendProperties, PatchAssumption
<1> QED BY <1>3, <1>5, <1>6, <1>7, AgentStep

\* What leaves everything alone but the configuration.
LEMMA ConfigStep ==
    ASSUME Inv, UNCHANGED <<run, pc, row, tries, pre, history, work, got, ledger, crossed, edits, starts>>,
           config' \in Configs
    PROVE  Inv'
<1>1. TypeOK' BY DEF Inv, TypeOK, run
<1>2. (allow => ~catalog)' /\ UNCHANGED pc BY DEF Inv, run
<1>3. Crossed' = Crossed /\ crossed' = crossed BY DEF Crossed
<1>4. HeadTree' = HeadTree BY DEF HeadTree
<1>5. Before' = Before BY DEF Before
<1>6. AsInSandbox => AsInSandbox'
  <2>1. ASSUME AsInSandbox PROVE \A p \in Carried : HeadTree'[p] = work'[p] BY <1>4, <2>1 DEF AsInSandbox
  <2> QED BY <2>1, SameFiles
<1>7. /\ Carries(ledger, pre.tree) => Carries(ledger, pre.tree)'
      /\ Carries(ledger, HeadTree) => Carries(ledger, HeadTree)'
      /\ Carries(ledger \o got, HeadTree) => Carries(ledger \o got, HeadTree)'
      /\ Carries(Before, pre.tree) => Carries(Before, pre.tree)'
  <2>1. PICK l, g, b, u, h : l = ledger /\ g = ledger \o got /\ b = Before /\ u = pre.tree /\ h = HeadTree
    OBVIOUS
  <2>2. l = ledger' /\ g = ledger' \o got' /\ b = Before' /\ u = pre'.tree /\ h = HeadTree'
    BY <1>4, <1>5, <2>1
  <2>3. Carries(l, u) => Carries(ledger, pre.tree)' BY <2>2, CarriesNext
  <2>4. Carries(l, h) => Carries(ledger, HeadTree)' BY <2>2, CarriesNext
  <2>5. Carries(g, h) => Carries(ledger \o got, HeadTree)' BY <2>2, CarriesNext
  <2>6. Carries(b, u) => Carries(Before, pre.tree)' BY <2>2, CarriesNext
  <2> QED BY <2>1, <2>3, <2>4, <2>5, <2>6
<1>8. Ledger' BY <1>2, <1>3, <1>6, <1>7 DEF Inv, Ledger
<1> QED BY <1>1, <1>2, <1>8 DEF Inv

LEMMA ExtractStep ==
    ASSUME Inv, ExtractIncrementalRoundPatch
    PROVE  Inv'
<1>1. /\ pc = "agent" /\ pc' = "reported"
      /\ UNCHANGED <<run, config, row, tries, pre, work, ledger, edits, starts>>
  BY DEF ExtractIncrementalRoundPatch
<1>2. TypeOK /\ (~crossed.taken => Carries(ledger, pre.tree)) /\ Len(history) <= MaxCommits
  BY <1>1 DEF Inv, Ledger
<1>3. /\ got' \in Seq(Patches)
      /\ crossed' \in [taken: BOOLEAN, round: BOOLEAN] /\ crossed'.taken = crossed.taken
      /\ history' = Append(history, Staged) \/ history' = history
  BY <1>2, ExtractCarries
<1>4. PICK s, h, g : s = Staged /\ h = HeadTree /\ g = ledger \o got' OBVIOUS
<1>5. s \in Trees /\ h \in Trees BY <1>2, <1>4, StagedTyped, TipTyped
<1>6. history \in Seq(Trees) BY <1>2 DEF TypeOK
<1>7. PICK N \in Nat : N = Len(history) BY <1>6
<1>8. history' \in Seq(Trees) /\ Len(history') <= MaxCommits + 1
  <2>1. CASE history' = Append(history, s)
    BY <1>2, <1>5, <1>6, <1>7, <2>1, AppendProperties, PatchAssumption
  <2>2. CASE history' = history BY <1>2, <1>6, <1>7, <2>2, PatchAssumption
  <2> QED BY <1>3, <1>4, <2>1, <2>2
<1>9. ASSUME ~crossed'.taken PROVE Carries(ledger, pre.tree)'
  <2>1. PICK l, u : l = ledger /\ u = pre.tree OBVIOUS
  <2>2. Carries(l, u) /\ l = ledger' /\ u = pre'.tree BY <1>1, <1>2, <1>3, <1>9, <2>1
  <2> QED BY <1>1, <2>2, CarriesNext
<1>10. ASSUME ~Crossed' PROVE (Carries(ledger \o got, HeadTree))' /\ AsInSandbox'
  <2>0. ~crossed'.taken /\ ~crossed'.round /\ ~crossed.taken BY <1>3, <1>10 DEF Crossed
  <2>1. /\ Carries(g, s)
        /\ \/ history' = Append(history, s)
           \/ history' = history /\ \A p \in Paths : ~IsExcluded(p) => h[p] = s[p]
    BY <1>2, <1>4, <2>0, ExtractCarries
  <2>2. \/ HeadTree' = s
        \/ HeadTree' = h /\ \A p \in Paths : ~IsExcluded(p) => h[p] = s[p]
    <3>1. CASE history' = Append(history, s)
      <4>1. PICK r : r = history' OBVIOUS
      <4>2. r \in Seq(Trees) /\ r # <<>> /\ r[Len(r)] = s
        BY <1>5, <1>6, <3>1, <4>1, AppendProperties
      <4>3. Tip(pre'.tree, r) = s BY <4>2 DEF Tip, Last
      <4> QED BY <4>1, <4>3 DEF HeadTree
    <3>2. CASE history' = history /\ \A p \in Paths : ~IsExcluded(p) => h[p] = s[p]
      <4>1. HeadTree' = HeadTree BY <1>1, <3>2 DEF HeadTree
      <4> QED BY <1>4, <3>2, <4>1
    <3> QED BY <2>1, <3>1, <3>2
  <2>3. (Carries(ledger \o got, HeadTree))'
    <3>1. CASE HeadTree' = s BY <1>1, <1>4, <2>1, <3>1, CarriesNext
    <3>2. CASE HeadTree' = h /\ \A p \in Paths : ~IsExcluded(p) => h[p] = s[p]
      <4>1. \A t : Over(t, h) = Over(t, s) BY <3>2 DEF Over
      <4>2. Carries(g, h) BY <2>1, <4>1 DEF Carries
      <4> QED BY <1>1, <1>4, <3>2, <4>2, CarriesNext
    <3> QED BY <2>2, <3>1, <3>2
  <2>4. AsInSandbox'
    <3>1. ASSUME NEW p \in Carried PROVE s[p] = work[p] /\ p \in Paths /\ ~IsExcluded(p)
      <4>1. p \in Paths /\ ~IsExcluded(p) /\ Place[p] # "ignored" BY DEF Carried
      <4>2. Place[p] # "workspace" BY <4>1 DEF IsExcluded
      <4> QED BY <1>4, <4>1, <4>2 DEF Staged
    <3>2. \A p \in Carried : HeadTree'[p] = work'[p] BY <1>1, <2>2, <3>1
    <3> QED BY <1>1, <3>2, SameFiles
  <2> QED BY <2>3, <2>4
<1>11. TypeOK' BY <1>1, <1>2, <1>3, <1>8 DEF TypeOK, run, Patches, Hunks
<1>12. Ledger' BY <1>1, <1>9, <1>10 DEF Ledger
<1>13. (allow => ~catalog)' BY <1>1 DEF Inv, run
<1> QED BY <1>1, <1>11, <1>12, <1>13 DEF Inv

\* Back to the tree before the round, for another attempt or none.
LEMMA AgainStep ==
    ASSUME Inv, UNCHANGED <<run, config, row, pre, edits, starts>>,
           history' = <<>>, work' \in Trees, Retry,
           ledger' \in Seq(Patches), ~crossed.taken => Carries(ledger', pre.tree)
    PROVE  Inv'
<1>1. got' = <<>> /\ pc' \in {"agent", "failed"} /\ tries' \in 1 .. MaxRuns
  BY PatchAssumption DEF Retry, Inv, TypeOK
<1>2. crossed' \in [taken: BOOLEAN, round: BOOLEAN] /\ crossed'.taken = crossed.taken
  BY DEF Retry, Inv, TypeOK
<1>3. TypeOK' BY <1>1, <1>2, PatchAssumption DEF Inv, TypeOK, run, Patches, Hunks
<1>4. ASSUME ~crossed'.taken PROVE Carries(ledger, pre.tree)'
  <2>1. PICK l, u : l = ledger' /\ u = pre.tree OBVIOUS
  <2>2. Carries(l, u) /\ u = pre'.tree BY <1>2, <1>4, <2>1
  <2> QED BY <2>1, <2>2, CarriesNext
<1>5. Ledger' BY <1>1, <1>4 DEF Ledger
<1>6. (allow => ~catalog)' BY DEF Inv, run
<1>7. Len(history') <= MaxCommits BY PatchAssumption
<1> QED BY <1>1, <1>3, <1>5, <1>6, <1>7 DEF Inv

LEMMA ResetTyped ==
    ASSUME TypeOK, ResetRound
    PROVE  history' = <<>> /\ work' \in Trees
<1>1. work \in Trees /\ pre.tree \in Trees
  BY DEF TypeOK
<1>2. PICK w : w = [p \in Paths |-> IF Place[p] = "ignored" THEN work[p] ELSE pre.tree[p]] OBVIOUS
<1>3. w \in Trees BY <1>1, <1>2 DEF Trees
<1> QED BY <1>2, <1>3 DEF ResetRound

LEMMA RejectStep ==
    ASSUME Inv, RejectRound
    PROVE  Inv'
<1>1. history' = <<>> /\ work' \in Trees BY ResetTyped DEF Inv, RejectRound
<1>2. ledger' \in Seq(Patches) BY DEF RejectRound, Inv, TypeOK, Patches, Hunks
<1>3. ASSUME ~crossed.taken PROVE Carries(ledger', pre.tree)
  <2>1. PICK l, u : l = ledger /\ u = pre.tree OBVIOUS
  <2>2. Carries(l, u) /\ ledger' = l BY <1>3, <2>1 DEF RejectRound, Inv, Ledger
  <2> QED BY <2>1, <2>2
<1> QED BY <1>1, <1>2, <1>3, AgainStep DEF RejectRound

LEMMA NoChangesStep ==
    ASSUME Inv, NoChanges
    PROVE  Inv'
<1>1. /\ pc = "reported" /\ got = <<>> /\ history = <<>>
      /\ UNCHANGED <<run, config, row, pre, history, work, ledger, edits, starts>>
  BY DEF NoChanges, HasPriorWork
<1>2. CASE Retry
  <2>1. work' \in Trees /\ history' = <<>>
    BY <1>1 DEF Inv, TypeOK
  <2>2. ledger' \in Seq(Patches) BY <1>1 DEF Inv, TypeOK, Patches, Hunks
  <2>3. ASSUME ~crossed.taken PROVE Carries(ledger', pre.tree)
    <3>1. PICK l, u : l = ledger /\ u = pre.tree OBVIOUS
    <3>2. Carries(l, u) /\ ledger' = l BY <1>1, <2>3, <3>1 DEF Inv, Ledger
    <3> QED BY <3>1, <3>2
  <2> QED BY <1>1, <1>2, <2>1, <2>2, <2>3, AgainStep
<1>3. CASE pc' = "done" /\ UNCHANGED <<tries, got, crossed>>
  <2>1. TypeOK' BY <1>1, <1>3 DEF Inv, TypeOK, run
  <2>2. Crossed' = Crossed BY <1>3 DEF Crossed
  <2>3. (allow => ~catalog)' BY <1>1 DEF Inv, run
  <2>4. ASSUME ~Crossed PROVE Carries(ledger, HeadTree)'
    <3>1. PICK l, h : l = ledger /\ h = HeadTree OBVIOUS
    <3>2. HeadTree' = h BY <1>1, <3>1 DEF HeadTree
    <3>3. ledger \o got = ledger BY <1>1 DEF Inv, TypeOK
    <3>4. Carries(l, h) BY <1>1, <2>4, <3>1, <3>3 DEF Inv, Ledger
    <3>5. ledger' = l BY <1>1, <3>1
    <3> QED BY <1>1, <3>2, <3>4, <3>5, CarriesNext
  <2>5. ASSUME ~Crossed PROVE AsInSandbox'
    <3>1. HeadTree' = HeadTree /\ work' = work BY <1>1 DEF HeadTree
    <3>2. AsInSandbox BY <1>1, <2>5 DEF Inv, Ledger
    <3>3. \A p \in Carried : HeadTree'[p] = work'[p] BY <3>1, <3>2 DEF AsInSandbox
    <3> QED BY <1>1, <3>3, SameFiles
  <2>6. Ledger' BY <1>3, <2>2, <2>4, <2>5 DEF Ledger
  <2> QED BY <1>3, <2>1, <2>3, <2>6 DEF Inv
<1> QED BY <1>2, <1>3 DEF NoChanges

LEMMA CutBack ==
    ASSUME NEW S, NEW s \in Seq(S), NEW r \in Seq(S)
    PROVE  /\ s \o r \in Seq(S) /\ Len(r) <= Len(s \o r)
           /\ SubSeq(s \o r, 1, Len(s \o r) - Len(r)) = s
<1>1. s \o r \in Seq(S) /\ Len(s \o r) = Len(s) + Len(r) BY ConcatProperties
<1>2. Len(s \o r) - Len(r) = Len(s) BY <1>1
<1>3. SubSeq(s \o r, 1, Len(s)) = s BY SubSeqOfConcat1, SubSeqFull
<1> QED BY <1>1, <1>2, <1>3

LEMMA AcceptStep ==
    ASSUME Inv, AcceptRound
    PROVE  Inv'
<1>1. /\ pc = "reported" /\ pc' = "verify" /\ ledger' = ledger \o got
      /\ UNCHANGED <<run, config, row, tries, pre, history, work, got, crossed, edits, starts>>
  BY DEF AcceptRound
<1>2. PICK l \in Seq(Patches), g \in Seq(Patches) : l = ledger /\ g = got
  BY DEF Inv, TypeOK, Patches, Hunks
<1>3. PICK u, h, d : u = pre.tree /\ h = HeadTree /\ d = l \o g OBVIOUS
<1>4. d \in Seq(Patches) /\ Len(g) <= Len(d) /\ SubSeq(d, 1, Len(d) - Len(g)) = l
  BY <1>3, CutBack
<1>5. ledger' = d /\ got' = g /\ Before' = l /\ pre'.tree = u /\ HeadTree' = h
  BY <1>1, <1>2, <1>3, <1>4 DEF Before, HeadTree
<1>6. /\ ~crossed.taken => Carries(l, u)
      /\ ~Crossed => Carries(d, h) /\ AsInSandbox
      /\ Crossed' = Crossed
  BY <1>1, <1>2, <1>3 DEF Inv, Ledger, Crossed
<1>7. /\ ~crossed.taken => Carries(Before, pre.tree)'
      /\ ~Crossed => Carries(ledger, HeadTree)'
  BY <1>1, <1>5, <1>6, CarriesNext
<1>8. ASSUME ~Crossed PROVE AsInSandbox'
  <2>1. \A p \in Carried : HeadTree'[p] = work'[p] BY <1>1, <1>3, <1>5, <1>6, <1>8 DEF AsInSandbox
  <2> QED BY <1>1, <2>1, SameFiles
<1>9. Ledger' BY <1>1, <1>4, <1>5, <1>6, <1>7, <1>8 DEF Ledger
<1>10. TypeOK' BY <1>1, <1>4, <1>5 DEF Inv, TypeOK, run, Patches, Hunks
<1>12. (allow => ~catalog)' BY <1>1 DEF Inv, run
<1> QED BY <1>1, <1>9, <1>10, <1>12 DEF Inv

LEMMA PassesStep ==
    ASSUME Inv, RoundPasses
    PROVE  Inv'
<1>1. /\ pc = "verify" /\ pc' \in {"agent", "done"}
      /\ pre' = [tree |-> HeadTree, beyond |-> HasPriorWork]
      /\ history' = <<>> /\ got' = <<>> /\ tries' = 1 /\ row' \in {row, row + 1}
      /\ row < Rows \/ row' = row
      /\ crossed' = [taken |-> crossed.taken \/ crossed.round, round |-> FALSE]
      /\ UNCHANGED <<run, config, work, ledger, edits, starts>>
  BY DEF RoundPasses
<1>2. PICK l, h : l = ledger /\ h = HeadTree OBVIOUS
<1>3. ~Crossed => Carries(l, h) /\ AsInSandbox BY <1>1, <1>2 DEF Inv, Ledger
<1>4. h \in Trees BY <1>2, TipTyped DEF Inv
<1>5. pre'.tree = h /\ HeadTree' = h /\ ledger' = l BY <1>1, <1>2 DEF HeadTree, Tip
<1>6. ASSUME ~Crossed PROVE Carries(ledger, pre.tree)' /\ Carries(ledger, HeadTree)'
  BY <1>1, <1>3, <1>5, <1>6, CarriesNext
<1>7. ASSUME ~Crossed PROVE AsInSandbox'
  <2>1. \A p \in Carried : HeadTree'[p] = work'[p] BY <1>1, <1>2, <1>3, <1>5, <1>7 DEF AsInSandbox
  <2> QED BY <1>1, <2>1, SameFiles
<1>c. crossed' \in [taken: BOOLEAN, round: BOOLEAN] /\ (crossed'.taken <=> Crossed) /\ (Crossed' <=> Crossed)
  <2>1. crossed.taken \in BOOLEAN /\ crossed.round \in BOOLEAN BY DEF Inv, TypeOK
  <2> QED BY <1>1, <2>1 DEF Crossed
<1>8. Ledger' BY <1>1, <1>6, <1>7, <1>c DEF Ledger
<1>9. HasPriorWork \in BOOLEAN
  <2>1. pre.beyond \in BOOLEAN BY DEF Inv, TypeOK
  <2> QED BY <2>1 DEF HasPriorWork
<1>10. TypeOK'
  <2>1. row' \in 1 .. Rows BY <1>1, PatchAssumption DEF Inv, TypeOK
  <2>2. tries' \in 1 .. MaxRuns BY <1>1, PatchAssumption
  <2>3. pre' \in [tree : Trees, beyond : BOOLEAN] BY <1>1, <1>2, <1>4, <1>9
  <2>4. history' \in Seq(Trees) /\ Len(history') <= MaxCommits + 1 BY <1>1, PatchAssumption
  <2> QED BY <1>1, <1>c, <2>1, <2>2, <2>3, <2>4 DEF Inv, TypeOK, run
<1>12. (allow => ~catalog)' BY <1>1 DEF Inv, run
<1>13. Len(history') <= MaxCommits BY <1>1, PatchAssumption
<1> QED BY <1>1, <1>8, <1>10, <1>12, <1>13 DEF Inv

LEMMA FailsStep ==
    ASSUME Inv, RoundFails
    PROVE  Inv'
<1>1. history' = <<>> /\ work' \in Trees BY ResetTyped DEF Inv, RoundFails
<1>2. PICK l : l = Before OBVIOUS
<1>3. ledger' = l BY <1>2 DEF RoundFails, Before
<1>4. l \in Seq(Patches)
  <2>1. PICK c \in Seq(Patches), g \in Seq(Patches) : c = ledger /\ g = got
    BY DEF Inv, TypeOK, Patches, Hunks
  <2>2. l = SubSeq(c, 1, Len(c) - Len(g)) /\ Len(g) <= Len(c)
    BY <1>2, <2>1 DEF Before, Inv, Ledger, RoundFails
  <2> QED BY <2>2
<1>5. ASSUME ~crossed.taken PROVE Carries(ledger', pre.tree)
  <2>1. PICK u : u = pre.tree OBVIOUS
  <2>2. Carries(l, u) BY <1>2, <1>5, <2>1 DEF Inv, Ledger, RoundFails
  <2> QED BY <1>3, <2>1, <2>2
<1> QED BY <1>1, <1>3, <1>4, <1>5, AgainStep DEF RoundFails

LEMMA CreateStep ==
    ASSUME Inv, CreateSandbox
    PROVE  Inv'
<1>1. PICK t : t = Replay(Base, ledger) OBVIOUS
<1>2. /\ pc = "failed" /\ starts < MaxStarts /\ starts' = starts + 1 /\ tries' = 1
      /\ UNCHANGED <<run, config, row, got, ledger, crossed, edits>>
  BY DEF CreateSandbox
<1>3. PICK l, u : l = ledger /\ u = pre.tree /\ l \in Seq(Patches) BY DEF Inv, TypeOK, Patches, Hunks
<1>4. got = <<>> /\ (~crossed.taken => Carries(l, u)) BY <1>2, <1>3 DEF Inv, Ledger
<1>5. \/ /\ Replays(Base, ledger) /\ pc' = "agent"
         /\ pre' = [tree |-> t, beyond |-> ledger # <<>>]
         /\ work' = t /\ history' = <<>>
      \/ ~Replays(Base, ledger) /\ pc' = "broken" /\ UNCHANGED <<pre, work, history>>
  BY <1>1 DEF CreateSandbox
<1>6. t \in Trees BY <1>1, <1>3, ImportTyped, ReplayTyped
<1>7. TypeOK'
  <2>1. starts' \in 1 .. MaxStarts BY <1>2, PatchAssumption DEF Inv, TypeOK
  <2>2. tries' \in 1 .. MaxRuns BY <1>2, PatchAssumption
  <2>3. /\ pre \in [tree : Trees, beyond : BOOLEAN] /\ work \in Trees
        /\ history \in Seq(Trees) /\ Len(history) <= MaxCommits + 1
    BY DEF Inv, TypeOK
  <2>4. /\ pre' \in [tree : Trees, beyond : BOOLEAN] /\ work' \in Trees
        /\ history' \in Seq(Trees) /\ Len(history') <= MaxCommits + 1
    <3>1. CASE pre' = [tree |-> t, beyond |-> ledger # <<>>] /\ work' = t /\ history' = <<>>
      <4>1. (ledger # <<>>) \in BOOLEAN OBVIOUS
      <4> QED BY <1>6, <3>1, <4>1, PatchAssumption
    <3>2. CASE UNCHANGED <<pre, work, history>> BY <2>3, <3>2
    <3> QED BY <1>5, <3>1, <3>2
  <2>5. pc' \in {"agent", "broken"} BY <1>5
  <2> QED BY <1>2, <2>1, <2>2, <2>4, <2>5 DEF Inv, TypeOK, run
<1>8. ASSUME ~crossed'.taken PROVE pc' = "agent" /\ Carries(ledger, pre.tree)'
  <2>1. Carries(l, u) BY <1>2, <1>4, <1>8
  <2>2. Replays(Base, ledger) /\ t = Over(Base, u) BY <1>1, <1>3, <2>1 DEF Carries
  <2>3. pc' = "agent" /\ pre'.tree = t /\ ledger' = l BY <1>2, <1>3, <1>5, <2>2
  <2>4. Carries(l, t)
    <3>1. \A b : Over(b, t) = Over(b, u) BY <2>2 DEF Over
    <3> QED BY <2>1, <3>1 DEF Carries
  <2> QED BY <1>2, <2>3, <2>4, CarriesNext
<1>9. Ledger' BY <1>2, <1>4, <1>5, <1>8 DEF Ledger
<1>10. (allow => ~catalog)' BY <1>2 DEF Inv, run
<1>11. pc' = "agent" => Len(history') <= MaxCommits BY <1>5, PatchAssumption
<1> QED BY <1>5, <1>7, <1>9, <1>10, <1>11 DEF Inv

LEMMA InitInv ==
    ASSUME Init
    PROVE  Inv
<1>1. /\ pc = "agent" /\ row = 1 /\ tries = 1 /\ pre = [tree |-> Base, beyond |-> FALSE]
      /\ history = <<>> /\ work = Base /\ got = <<>> /\ ledger = <<>> /\ edits = 0 /\ starts = 1
      /\ crossed = [taken |-> FALSE, round |-> FALSE]
      /\ allow \in BOOLEAN /\ dirty \in BOOLEAN /\ catalog \in BOOLEAN
      /\ (allow => ~catalog) /\ config \in Configs
  BY DEF Init
<1>2. PICK b, h : b = Base /\ h = HostTree OBVIOUS
<1>3. b \in Trees /\ h \in Trees BY <1>2, ImportTyped
<1>4. TypeOK
  <2>1. row \in 1 .. Rows /\ tries \in 1 .. MaxRuns /\ edits \in 0 .. MaxEdits /\ starts \in 1 .. MaxStarts
    BY <1>1, PatchAssumption
  <2>2. pre \in [tree : Trees, beyond : BOOLEAN] BY <1>1, <1>2, <1>3
  <2>3. history \in Seq(Trees) /\ Len(history) <= MaxCommits + 1 BY <1>1, PatchAssumption
  <2>4. work \in Trees BY <1>1, <1>2, <1>3
  <2> QED BY <1>1, <2>1, <2>2, <2>3, <2>4 DEF TypeOK
<1>6. Over(b, b) = b /\ Over(h, b) = h
  <2>1. ASSUME NEW p \in Paths, ~IsExcluded(p) PROVE b[p] = h[p]
    <3>1. CASE catalog /\ p \in Holdout
      <4>1. Place[p] \in Scoped BY <3>1, PatchAssumption
      <4>2. ~allow BY <1>1, <3>1
      <4> QED BY <2>1, <4>1, <4>2 DEF IsExcluded, Scoped
    <3>2. CASE ~(catalog /\ p \in Holdout) BY <1>2, <3>2 DEF Base
    <3> QED BY <3>1, <3>2
  <2>2. \A p \in Paths : Over(b, b)[p] = b[p] /\ Over(h, b)[p] = h[p] BY <2>1 DEF Over
  <2>3. b = [p \in Paths |-> b[p]] /\ h = [p \in Paths |-> h[p]] BY <1>3 DEF Trees
  <2> QED BY <2>2, <2>3 DEF Over
<1>7. Replay(b, <<>>) = b /\ Replay(h, <<>>) = h BY <1>3, ReplayNothing
<1>8. \A t : Replays(t, <<>>) BY DEF Replays
<1>9. Carries(<<>>, b) BY <1>2, <1>6, <1>7, <1>8 DEF Carries
<1>10. Carries(ledger, pre.tree) BY <1>1, <1>2, <1>9
<1>11. Ledger BY <1>1, <1>10 DEF Ledger
<1>12. Len(history) <= MaxCommits BY <1>1, PatchAssumption
<1> QED BY <1>1, <1>4, <1>11, <1>12 DEF Inv

LEMMA NextInv ==
    ASSUME Inv, [Next]_vars
    PROVE  Inv'
<1>1. CASE \E p \in Paths : Creates(p) \/ Changes(p) \/ Deletes(p)
  BY <1>1, CreatesStep, ChangesStep, DeletesStep
<1>2. CASE \E p, q \in Paths : RenamesFile(p, q) BY <1>2, RenamesStep
<1>3. CASE AgentCommits BY <1>3, AgentCommitsStep
<1>4. CASE UserEditsConfig BY <1>4, ConfigStep DEF UserEditsConfig
<1>5. CASE ExtractIncrementalRoundPatch BY <1>5, ExtractStep
<1>6. CASE RejectRound BY <1>6, RejectStep
<1>7. CASE NoChanges BY <1>7, NoChangesStep
<1>8. CASE AcceptRound BY <1>8, AcceptStep
<1>9. CASE RoundPasses BY <1>9, PassesStep
<1>10. CASE RoundFails BY <1>10, FailsStep
<1>11. CASE CreateSandbox BY <1>11, CreateStep
<1>12. CASE UNCHANGED vars
  <2>1. config' \in Configs BY <1>12 DEF vars, Inv, TypeOK
  <2>2. UNCHANGED <<run, pc, row, tries, pre, history, work, got, ledger, crossed, edits, starts>>
    BY <1>12 DEF vars, run
  <2> QED BY <2>1, <2>2, ConfigStep
<1> QED BY <1>1, <1>2, <1>3, <1>4, <1>5, <1>6, <1>7, <1>8, <1>9, <1>10, <1>11, <1>12 DEF Next

-----------------------------------------------------------------------------
(* Theorems *)

\* Every reachable state is well typed, for any files, any number of subtasks,
\* attempts, commits and starts, and whatever the agent does to the files.
THEOREM TypeCorrect == Spec => []TypeOK
<1>1. Init => Inv BY InitInv
<1>2. Inv /\ [Next]_vars => Inv' BY NextInv
<1>3. Inv => TypeOK BY DEF Inv
<1> QED BY <1>1, <1>2, <1>3, PTL DEF Spec

\* The recorded commits replay in a new sandbox and on the host, and give what
\* was tested, unless a rename crossed what is recorded
\* (extractIncrementalRoundPatch, onSubtaskComplete, replayRunCommits).
THEOREM LedgerDelivers == Spec => []LedgerIsTheTree
<1>1. Init => Inv BY InitInv
<1>2. Inv /\ [Next]_vars => Inv' BY NextInv
<1>3. Inv => LedgerIsTheTree
  <2> SUFFICES ASSUME Inv, ~Crossed
               PROVE  /\ Replays(Base, ledger) /\ Replays(HostTree, ledger) /\ pc # "broken"
                      /\ pc \in {"verify", "done"} =>
                            \A p \in Carried : /\ work[p] = HeadTree[p]
                                              /\ work[p] = Replay(Base, ledger)[p]
                                              /\ work[p] = Replay(HostTree, ledger)[p]
    BY DEF LedgerIsTheTree
  <2>1. ~crossed.taken BY DEF Crossed
  <2>2. \E u : Carries(ledger, u) BY <2>1 DEF Inv, TypeOK, Ledger
  <2>3. Replays(Base, ledger) /\ Replays(HostTree, ledger) BY <2>2 DEF Carries
  <2>4. pc # "broken" BY <2>1 DEF Inv, Ledger
  <2>5. ASSUME pc \in {"verify", "done"}, NEW p \in Carried
        PROVE  /\ work[p] = HeadTree[p]
               /\ work[p] = Replay(Base, ledger)[p] /\ work[p] = Replay(HostTree, ledger)[p]
    <3>1. Carries(ledger, HeadTree) /\ HeadTree[p] = work[p] BY <2>5 DEF Inv, Ledger, AsInSandbox
    <3>2. p \in Paths /\ ~IsExcluded(p) BY DEF Carried
    <3>3. \A t : Over(t, HeadTree)[p] = HeadTree[p] BY <3>2 DEF Over
    <3> QED BY <3>1, <3>3 DEF Carries
  <2> QED BY <2>3, <2>4, <2>5
<1> QED BY <1>1, <1>2, <1>3, PTL DEF Spec

\* A round that is recorded changes no immutable test that it has not renamed,
\* whatever its commits are; and unless a rename crossed what is recorded, what
\* is delivered changes none (inspectImmutableTestChanges).
THEOREM TestsStay == Spec => ImmutableTestsStay
<1> DEFINE Renamed == {m[1] : m \in Renames(pre.tree, HeadTree)}
           Stays == pc = "reported" /\ pc' = "verify" /\ got # <<>> =>
                      \A p \in Paths \ Renamed : ~IsMutable(p) =>
                         /\ HeadTree'[p] = pre.tree[p]
                         /\ Crossed \/ Replay(Base, ledger')[p] = Replay(Base, ledger)[p]
<1>1. Init => Inv BY InitInv
<1>2. Inv /\ [Next]_vars => Inv' BY NextInv
<1>3. ASSUME Inv, [Next]_vars, NEW p \in Paths \ Renamed,
             pc = "reported", pc' = "verify", got # <<>>, ~IsMutable(p)
      PROVE  /\ HeadTree'[p] = pre.tree[p]
             /\ Crossed \/ Replay(Base, ledger')[p] = Replay(Base, ledger)[p]
  <2>1. AcceptRound
    BY <1>3 DEF Next, Creates, Changes, Deletes, RenamesFile, Edits, AgentCommits, UserEditsConfig,
                ExtractIncrementalRoundPatch, RejectRound, NoChanges, Retry, RoundPasses, RoundFails,
                CreateSandbox, vars
  <2>2. PICK t, h : t = pre.tree /\ h = HeadTree OBVIOUS
  <2>3. t \in Trees /\ h \in Trees BY <1>3, <2>2, TipTyped DEF Inv, TypeOK
  <2>4. Violations(t, h) = {} BY <1>3, <2>1, <2>2 DEF AcceptRound, Rejected
  <2>5. t[p] = h[p]
    <3> SUFFICES ASSUME t[p] # h[p] PROVE FALSE OBVIOUS
    <3>1. p \in ChangedPaths(t, h) BY <2>2, <2>3, Sections
    <3>2. p \in Violations(t, h) BY <1>3, <3>1 DEF Violations
    <3> QED BY <2>4, <3>2
  <2>6. HeadTree' = h BY <2>1, <2>2 DEF AcceptRound, HeadTree
  <2>7. ASSUME ~Crossed PROVE Replay(Base, ledger')[p] = Replay(Base, ledger)[p]
    <3>1. ~crossed.taken BY <2>7 DEF Crossed
    <3>2. Replay(Base, ledger) = Over(Base, t) BY <1>3, <2>2, <3>1 DEF Inv, Ledger, Carries
    <3>3. ledger' = ledger \o got BY <2>1 DEF AcceptRound
    <3>4. Carries(ledger \o got, HeadTree) BY <1>3, <2>7 DEF Inv, Ledger
    <3>5. Replay(Base, ledger') = Over(Base, h) BY <2>2, <3>3, <3>4 DEF Carries
    <3>6. Over(Base, t)[p] = Over(Base, h)[p] BY <2>5 DEF Over
    <3> QED BY <3>2, <3>5, <3>6
  <2> QED BY <2>2, <2>5, <2>6, <2>7
<1>4. Inv /\ [Next]_vars => Stays BY <1>3
<1>5. Inv /\ Inv' /\ [Next]_vars => [Stays]_vars BY <1>4
<1>6. ImmutableTestsStay <=> [][Stays]_vars BY DEF ImmutableTestsStay
<1> QED BY <1>1, <1>2, <1>5, <1>6, PTL DEF Spec
=============================================================================
