----------------------------- MODULE TreeProofs -----------------------------
(***************************************************************************)
(* The allocation tree, for every depth: the root kept from one frontier   *)
(* node per level is the builder's root of the log, every published        *)
(* witness verifies, and nothing but a member of the log does.             *)
(*                                                                         *)
(* The recursive functions of AllocationTree all go down the levels of the *)
(* tree.  Each has a lemma that unfolds it: a function that obeys the      *)
(* recursion up to a level exists for every level, by induction, and the   *)
(* one for the last level is the fixed point that CHOOSE picks.            *)
(***************************************************************************)
EXTENDS AllocationTree, SumTheorems

Heights == 0 .. TreeDepth

LEMMA DepthIsNatural == TreeDepth \in Nat /\ TreeDepth >= 1
BY DepthAssumption

-----------------------------------------------------------------------------
(* The recursive functions *)

\* The leaves under a node, by its height.
LEMMA SpanUnfolds ==
    Span = [level \in Heights |->
             IF level = 0 THEN 1 ELSE 2 * Span[level - 1]]
<1> USE DepthIsNatural DEF Heights
<1> DEFINE body(g, level) == IF level = 0 THEN 1 ELSE 2 * g[level - 1]
           T == {n \in Nat : \E g : \A level \in Heights : level <= n => g[level] = body(g, level)}
<1>1. 0 \in T
  <2> DEFINE g == [level \in Heights |-> body(0, level)]
  <2>1. ASSUME NEW level \in Heights, level <= 0 PROVE g[level] = body(g, level)
    <3>1. level = 0
      BY <2>1
    <3> QED BY <3>1
  <2> HIDE DEF g
  <2> QED BY <2>1
<1>2. ASSUME NEW n \in Nat, n \in T PROVE n + 1 \in T
  <2>1. PICK g : \A level \in Heights : level <= n => g[level] = body(g, level)
    BY <1>2
  <2> DEFINE h == [level \in Heights |-> body(g, level)]
  <2>2. \A level \in Heights : level <= n => h[level] = g[level]
    BY <2>1
  <2>3. ASSUME NEW level \in Heights, level <= n + 1 PROVE h[level] = body(h, level)
    <3>1. level # 0 => level - 1 \in Heights /\ level - 1 <= n
      BY <2>3
    <3>2. level # 0 => h[level - 1] = g[level - 1]
      BY <2>2, <3>1
    <3>3. h[level] = body(g, level)
      OBVIOUS
    <3> HIDE DEF h
    <3> QED BY <3>2, <3>3
  <2>4. \A level \in Heights : level <= n + 1 => h[level] = body(h, level)
    BY <2>3
  <2>5. n + 1 \in Nat
    OBVIOUS
  <2> HIDE DEF h
  <2> QED BY <2>4, <2>5
<1>3. TreeDepth \in T
  <2> HIDE DEF T
  <2> QED BY <1>1, <1>2, NaturalInduction
<1>4. PICK g : \A level \in Heights : level <= TreeDepth => g[level] = body(g, level)
  BY <1>3
<1> DEFINE f == [level \in Heights |-> g[level]]
           Unfolds(h) == h = [level \in Heights |-> body(h, level)]
<1>5. \A level \in Heights : f[level] = body(f, level)
  <2> TAKE level \in Heights
  <2>1. f[level] = g[level] /\ (level # 0 => f[level - 1] = g[level - 1])
    OBVIOUS
  <2>2. g[level] = body(g, level)
    BY <1>4
  <2> HIDE DEF f
  <2> QED BY <2>1, <2>2
<1>6. Unfolds(f)
  <2>1. f = [level \in Heights |-> f[level]]
    OBVIOUS
  <2> HIDE DEF f
  <2> QED BY <1>5, <2>1
<1>7. Unfolds(CHOOSE h : Unfolds(h))
  <2> HIDE DEF f, Unfolds
  <2> QED BY <1>6
<1>8. Span = CHOOSE h : Unfolds(h)
  BY DEF Span
<1> QED BY <1>7, <1>8

\* The empty subtrees.
LEMMA EmptyTreeUnfolds ==
    EmptyTree = [level \in Heights |->
             IF level = 0 THEN EmptyLeaf ELSE NodeHash(EmptyTree[level - 1], EmptyTree[level - 1])]
<1> USE DepthIsNatural DEF Heights
<1> DEFINE body(g, level) == IF level = 0 THEN EmptyLeaf ELSE NodeHash(g[level - 1], g[level - 1])
           T == {n \in Nat : \E g : \A level \in Heights : level <= n => g[level] = body(g, level)}
<1>1. 0 \in T
  <2> DEFINE g == [level \in Heights |-> body(0, level)]
  <2>1. ASSUME NEW level \in Heights, level <= 0 PROVE g[level] = body(g, level)
    <3>1. level = 0
      BY <2>1
    <3> QED BY <3>1
  <2> HIDE DEF g
  <2> QED BY <2>1
<1>2. ASSUME NEW n \in Nat, n \in T PROVE n + 1 \in T
  <2>1. PICK g : \A level \in Heights : level <= n => g[level] = body(g, level)
    BY <1>2
  <2> DEFINE h == [level \in Heights |-> body(g, level)]
  <2>2. \A level \in Heights : level <= n => h[level] = g[level]
    BY <2>1
  <2>3. ASSUME NEW level \in Heights, level <= n + 1 PROVE h[level] = body(h, level)
    <3>1. level # 0 => level - 1 \in Heights /\ level - 1 <= n
      BY <2>3
    <3>2. level # 0 => h[level - 1] = g[level - 1]
      BY <2>2, <3>1
    <3>3. h[level] = body(g, level)
      OBVIOUS
    <3> HIDE DEF h
    <3> QED BY <3>2, <3>3
  <2>4. \A level \in Heights : level <= n + 1 => h[level] = body(h, level)
    BY <2>3
  <2>5. n + 1 \in Nat
    OBVIOUS
  <2> HIDE DEF h
  <2> QED BY <2>4, <2>5
<1>3. TreeDepth \in T
  <2> HIDE DEF T
  <2> QED BY <1>1, <1>2, NaturalInduction
<1>4. PICK g : \A level \in Heights : level <= TreeDepth => g[level] = body(g, level)
  BY <1>3
<1> DEFINE f == [level \in Heights |-> g[level]]
           Unfolds(h) == h = [level \in Heights |-> body(h, level)]
<1>5. \A level \in Heights : f[level] = body(f, level)
  <2> TAKE level \in Heights
  <2>1. f[level] = g[level] /\ (level # 0 => f[level - 1] = g[level - 1])
    OBVIOUS
  <2>2. g[level] = body(g, level)
    BY <1>4
  <2> HIDE DEF f
  <2> QED BY <2>1, <2>2
<1>6. Unfolds(f)
  <2>1. f = [level \in Heights |-> f[level]]
    OBVIOUS
  <2> HIDE DEF f
  <2> QED BY <1>5, <2>1
<1>7. Unfolds(CHOOSE h : Unfolds(h))
  <2> HIDE DEF f, Unfolds
  <2> QED BY <1>6
<1>8. EmptyTree = CHOOSE h : Unfolds(h)
  BY DEF EmptyTree
<1> QED BY <1>7, <1>8

\* The positions above a leaf.
LEMMA CursorUnfolds ==
    ASSUME NEW index
    PROVE  Cursor(index) = [level \in Heights |->
             IF level = 0 THEN index ELSE Cursor(index)[level - 1] \div 2]
<1> USE DepthIsNatural DEF Heights
<1> DEFINE body(g, level) == IF level = 0 THEN index ELSE g[level - 1] \div 2
           T == {n \in Nat : \E g : \A level \in Heights : level <= n => g[level] = body(g, level)}
<1>1. 0 \in T
  <2> DEFINE g == [level \in Heights |-> body(0, level)]
  <2>1. ASSUME NEW level \in Heights, level <= 0 PROVE g[level] = body(g, level)
    <3>1. level = 0
      BY <2>1
    <3> QED BY <3>1
  <2> HIDE DEF g
  <2> QED BY <2>1
<1>2. ASSUME NEW n \in Nat, n \in T PROVE n + 1 \in T
  <2>1. PICK g : \A level \in Heights : level <= n => g[level] = body(g, level)
    BY <1>2
  <2> DEFINE h == [level \in Heights |-> body(g, level)]
  <2>2. \A level \in Heights : level <= n => h[level] = g[level]
    BY <2>1
  <2>3. ASSUME NEW level \in Heights, level <= n + 1 PROVE h[level] = body(h, level)
    <3>1. level # 0 => level - 1 \in Heights /\ level - 1 <= n
      BY <2>3
    <3>2. level # 0 => h[level - 1] = g[level - 1]
      BY <2>2, <3>1
    <3>3. h[level] = body(g, level)
      OBVIOUS
    <3> HIDE DEF h
    <3> QED BY <3>2, <3>3
  <2>4. \A level \in Heights : level <= n + 1 => h[level] = body(h, level)
    BY <2>3
  <2>5. n + 1 \in Nat
    OBVIOUS
  <2> HIDE DEF h
  <2> QED BY <2>4, <2>5
<1>3. TreeDepth \in T
  <2> HIDE DEF T
  <2> QED BY <1>1, <1>2, NaturalInduction
<1>4. PICK g : \A level \in Heights : level <= TreeDepth => g[level] = body(g, level)
  BY <1>3
<1> DEFINE f == [level \in Heights |-> g[level]]
           Unfolds(h) == h = [level \in Heights |-> body(h, level)]
<1>5. \A level \in Heights : f[level] = body(f, level)
  <2> TAKE level \in Heights
  <2>1. f[level] = g[level] /\ (level # 0 => f[level - 1] = g[level - 1])
    OBVIOUS
  <2>2. g[level] = body(g, level)
    BY <1>4
  <2> HIDE DEF f
  <2> QED BY <2>1, <2>2
<1>6. Unfolds(f)
  <2>1. f = [level \in Heights |-> f[level]]
    OBVIOUS
  <2> HIDE DEF f
  <2> QED BY <1>5, <2>1
<1>7. Unfolds(CHOOSE h : Unfolds(h))
  <2> HIDE DEF f, Unfolds
  <2> QED BY <1>6
<1>8. Cursor(index) = CHOOSE h : Unfolds(h)
  BY DEF Cursor
<1> QED BY <1>7, <1>8

\* The builder's levels.
LEMMA TreeUnfolds ==
    ASSUME NEW leaves
    PROVE  BuildOrderedTree(leaves) = [level \in Heights |->
             IF level = 0
             THEN [i \in 0 .. TreeCapacity - 1 |->
                      IF i < Len(leaves) THEN leaves[i + 1] ELSE EmptyLeaf]
             ELSE [i \in 0 .. Width(level) - 1 |->
                      NodeHash(BuildOrderedTree(leaves)[level - 1][2 * i],
                               BuildOrderedTree(leaves)[level - 1][2 * i + 1])]]
<1> USE DepthIsNatural DEF Heights
<1> DEFINE body(g, level) == IF level = 0
                             THEN [i \in 0 .. TreeCapacity - 1 |->
                                      IF i < Len(leaves) THEN leaves[i + 1] ELSE EmptyLeaf]
                             ELSE [i \in 0 .. Width(level) - 1 |->
                                      NodeHash(g[level - 1][2 * i],
                                               g[level - 1][2 * i + 1])]
           T == {n \in Nat : \E g : \A level \in Heights : level <= n => g[level] = body(g, level)}
<1>1. 0 \in T
  <2> DEFINE g == [level \in Heights |-> body(0, level)]
  <2>1. ASSUME NEW level \in Heights, level <= 0 PROVE g[level] = body(g, level)
    <3>1. level = 0
      BY <2>1
    <3> QED BY <3>1
  <2> HIDE DEF g
  <2> QED BY <2>1
<1>2. ASSUME NEW n \in Nat, n \in T PROVE n + 1 \in T
  <2>1. PICK g : \A level \in Heights : level <= n => g[level] = body(g, level)
    BY <1>2
  <2> DEFINE h == [level \in Heights |-> body(g, level)]
  <2>2. \A level \in Heights : level <= n => h[level] = g[level]
    BY <2>1
  <2>3. ASSUME NEW level \in Heights, level <= n + 1 PROVE h[level] = body(h, level)
    <3>1. level # 0 => level - 1 \in Heights /\ level - 1 <= n
      BY <2>3
    <3>2. level # 0 => h[level - 1] = g[level - 1]
      BY <2>2, <3>1
    <3>3. h[level] = body(g, level)
      OBVIOUS
    <3> HIDE DEF h
    <3> QED BY <3>2, <3>3
  <2>4. \A level \in Heights : level <= n + 1 => h[level] = body(h, level)
    BY <2>3
  <2>5. n + 1 \in Nat
    OBVIOUS
  <2> HIDE DEF h
  <2> QED BY <2>4, <2>5
<1>3. TreeDepth \in T
  <2> HIDE DEF T
  <2> QED BY <1>1, <1>2, NaturalInduction
<1>4. PICK g : \A level \in Heights : level <= TreeDepth => g[level] = body(g, level)
  BY <1>3
<1> DEFINE f == [level \in Heights |-> g[level]]
           Unfolds(h) == h = [level \in Heights |-> body(h, level)]
<1>5. \A level \in Heights : f[level] = body(f, level)
  <2> TAKE level \in Heights
  <2>1. f[level] = g[level] /\ (level # 0 => f[level - 1] = g[level - 1])
    OBVIOUS
  <2>2. g[level] = body(g, level)
    BY <1>4
  <2> HIDE DEF f
  <2> QED BY <2>1, <2>2
<1>6. Unfolds(f)
  <2>1. f = [level \in Heights |-> f[level]]
    OBVIOUS
  <2> HIDE DEF f
  <2> QED BY <1>5, <2>1
<1>7. Unfolds(CHOOSE h : Unfolds(h))
  <2> HIDE DEF f, Unfolds
  <2> QED BY <1>6
<1>8. BuildOrderedTree(leaves) = CHOOSE h : Unfolds(h)
  BY DEF BuildOrderedTree
<1> QED BY <1>7, <1>8

\* The walk to the root.
LEMMA AscentUnfolds ==
    ASSUME NEW leaf, NEW index, NEW siblings
    PROVE  Ascent(leaf, index, siblings) = [level \in Heights |->
             IF level = 0
             THEN leaf
             ELSE IF Bit(index, level - 1) = 0
                  THEN NodeHash(Ascent(leaf, index, siblings)[level - 1], siblings[level])
                  ELSE NodeHash(siblings[level], Ascent(leaf, index, siblings)[level - 1])]
<1> USE DepthIsNatural DEF Heights
<1> DEFINE body(g, level) == IF level = 0
                             THEN leaf
                             ELSE IF Bit(index, level - 1) = 0
                                  THEN NodeHash(g[level - 1], siblings[level])
                                  ELSE NodeHash(siblings[level], g[level - 1])
           T == {n \in Nat : \E g : \A level \in Heights : level <= n => g[level] = body(g, level)}
<1>1. 0 \in T
  <2> DEFINE g == [level \in Heights |-> body(0, level)]
  <2>1. ASSUME NEW level \in Heights, level <= 0 PROVE g[level] = body(g, level)
    <3>1. level = 0
      BY <2>1
    <3> QED BY <3>1
  <2> HIDE DEF g
  <2> QED BY <2>1
<1>2. ASSUME NEW n \in Nat, n \in T PROVE n + 1 \in T
  <2>1. PICK g : \A level \in Heights : level <= n => g[level] = body(g, level)
    BY <1>2
  <2> DEFINE h == [level \in Heights |-> body(g, level)]
  <2>2. \A level \in Heights : level <= n => h[level] = g[level]
    BY <2>1
  <2>3. ASSUME NEW level \in Heights, level <= n + 1 PROVE h[level] = body(h, level)
    <3>1. level # 0 => level - 1 \in Heights /\ level - 1 <= n
      BY <2>3
    <3>2. level # 0 => h[level - 1] = g[level - 1]
      BY <2>2, <3>1
    <3>3. h[level] = body(g, level)
      OBVIOUS
    <3> HIDE DEF h
    <3> QED BY <3>2, <3>3
  <2>4. \A level \in Heights : level <= n + 1 => h[level] = body(h, level)
    BY <2>3
  <2>5. n + 1 \in Nat
    OBVIOUS
  <2> HIDE DEF h
  <2> QED BY <2>4, <2>5
<1>3. TreeDepth \in T
  <2> HIDE DEF T
  <2> QED BY <1>1, <1>2, NaturalInduction
<1>4. PICK g : \A level \in Heights : level <= TreeDepth => g[level] = body(g, level)
  BY <1>3
<1> DEFINE f == [level \in Heights |-> g[level]]
           Unfolds(h) == h = [level \in Heights |-> body(h, level)]
<1>5. \A level \in Heights : f[level] = body(f, level)
  <2> TAKE level \in Heights
  <2>1. f[level] = g[level] /\ (level # 0 => f[level - 1] = g[level - 1])
    OBVIOUS
  <2>2. g[level] = body(g, level)
    BY <1>4
  <2> HIDE DEF f
  <2> QED BY <2>1, <2>2
<1>6. Unfolds(f)
  <2>1. f = [level \in Heights |-> f[level]]
    OBVIOUS
  <2> HIDE DEF f
  <2> QED BY <1>5, <2>1
<1>7. Unfolds(CHOOSE h : Unfolds(h))
  <2> HIDE DEF f, Unfolds
  <2> QED BY <1>6
<1>8. Ascent(leaf, index, siblings) = CHOOSE h : Unfolds(h)
  BY DEF Ascent
<1> QED BY <1>7, <1>8

-----------------------------------------------------------------------------
(* Levels, widths and cursors *)

\* Induction up the levels.
LEMMA LevelInduction ==
    ASSUME NEW T, 0 \in T, \A level \in 1 .. TreeDepth : level - 1 \in T => level \in T
    PROVE  Heights \subseteq T
<1> DEFINE U == {n \in Nat : n \in Heights => n \in T}
<1>1. 0 \in U
  OBVIOUS
<1>2. ASSUME NEW n \in Nat, n \in U PROVE n + 1 \in U
  <2>1. n + 1 \in Heights => n \in Heights /\ n + 1 \in 1 .. TreeDepth /\ (n + 1) - 1 = n
    BY DepthIsNatural DEF Heights
  <2>2. n + 1 \in Heights => n + 1 \in T
    BY <1>2, <2>1
  <2> QED BY <2>2
<1>3. Nat \subseteq U
  <2> HIDE DEF U
  <2> QED BY <1>1, <1>2, NaturalInduction
<1>4. Heights \subseteq Nat
  BY DepthIsNatural DEF Heights
<1> QED BY <1>3, <1>4

\* Induction down the levels.
LEMMA LevelDescent ==
    ASSUME NEW T, TreeDepth \in T, \A level \in 1 .. TreeDepth : level \in T => level - 1 \in T
    PROVE  Heights \subseteq T
<1> DEFINE U == {n \in Nat : n \in Heights => TreeDepth - n \in T}
<1>1. 0 \in U
  BY DepthIsNatural
<1>2. ASSUME NEW n \in Nat, n \in U PROVE n + 1 \in U
  <2>1. n + 1 \in Heights => /\ n \in Heights /\ TreeDepth - n \in 1 .. TreeDepth
                             /\ (TreeDepth - n) - 1 = TreeDepth - (n + 1)
    BY DepthIsNatural DEF Heights
  <2>2. n + 1 \in Heights => TreeDepth - (n + 1) \in T
    BY <1>2, <2>1
  <2> QED BY <2>2
<1>3. Nat \subseteq U
  <2> HIDE DEF U
  <2> QED BY <1>1, <1>2, NaturalInduction
<1>4. ASSUME NEW level \in Heights PROVE level \in T
  <2>1. TreeDepth - level \in Nat /\ TreeDepth - level \in Heights
        /\ TreeDepth - (TreeDepth - level) = level
    BY DepthIsNatural DEF Heights
  <2> QED BY <1>3, <2>1
<1> QED BY <1>4

LEMMA SpanIsPositive == \A height \in Heights : Span[height] \in Nat /\ Span[height] >= 1
<1> DEFINE T == {height \in Heights : Span[height] \in Nat /\ Span[height] >= 1}
<1>1. 0 \in T
  BY SpanUnfolds, DepthIsNatural DEF Heights
<1>2. ASSUME NEW height \in 1 .. TreeDepth, height - 1 \in T PROVE height \in T
  <2>1. height \in Heights /\ height # 0
    BY DepthIsNatural DEF Heights
  <2>2. Span[height] = 2 * Span[height - 1]
    BY <2>1, SpanUnfolds
  <2> QED BY <1>2, <2>1, <2>2
<1>3. Heights \subseteq T
  <2> HIDE DEF T
  <2> QED BY <1>1, <1>2, LevelInduction
<1> QED BY <1>3

\* One node at the root, twice as many on each level below.
LEMMA Widths ==
    /\ Width(TreeDepth) = 1
    /\ \A level \in Heights : Width(level) \in Nat /\ Width(level) >= 1
    /\ \A level \in 1 .. TreeDepth : Width(level - 1) = 2 * Width(level)
    /\ TreeCapacity = Width(0)
<1>1. Width(TreeDepth) = 1
  <2>1. TreeDepth - TreeDepth = 0 /\ 0 \in Heights
    BY DepthIsNatural DEF Heights
  <2> QED BY <2>1, SpanUnfolds DEF Width
<1>2. ASSUME NEW level \in Heights PROVE Width(level) \in Nat /\ Width(level) >= 1
  <2>1. TreeDepth - level \in Heights
    BY DepthIsNatural DEF Heights
  <2> QED BY <2>1, SpanIsPositive DEF Width
<1>3. ASSUME NEW level \in 1 .. TreeDepth PROVE Width(level - 1) = 2 * Width(level)
  <2> DEFINE h == TreeDepth - (level - 1)
  <2>1. h \in Heights /\ h # 0 /\ h - 1 = TreeDepth - level
    BY DepthIsNatural DEF Heights
  <2>2. Span[h] = 2 * Span[h - 1]
    BY <2>1, SpanUnfolds
  <2> QED BY <2>1, <2>2 DEF Width
<1> QED BY <1>1, <1>2, <1>3 DEF TreeCapacity

\* A cursor starts at the index, and each halving drops a bit.
LEMMA CursorSteps ==
    ASSUME NEW index \in Nat
    PROVE  /\ Cursor(index)[0] = index
           /\ \A level \in Heights : Cursor(index)[level] \in Nat /\ Bit(index, level) \in {0, 1}
           /\ \A level \in 1 .. TreeDepth :
                 /\ Cursor(index)[level] = Cursor(index)[level - 1] \div 2
                 /\ Cursor(index)[level - 1] = 2 * Cursor(index)[level] + Bit(index, level - 1)
<1>1. Cursor(index)[0] = index
  BY CursorUnfolds, DepthIsNatural DEF Heights
<1>2. ASSUME NEW level \in 1 .. TreeDepth
      PROVE  Cursor(index)[level] = Cursor(index)[level - 1] \div 2
  <2>1. level \in Heights /\ level # 0
    BY DepthIsNatural DEF Heights
  <2> QED BY <2>1, CursorUnfolds
<1>3. \A level \in Heights : Cursor(index)[level] \in Nat
  <2> DEFINE T == {level \in Heights : Cursor(index)[level] \in Nat}
  <2>1. 0 \in T
    BY <1>1, DepthIsNatural DEF Heights
  <2>2. ASSUME NEW level \in 1 .. TreeDepth, level - 1 \in T PROVE level \in T
    <3>1. level \in Heights
      BY DepthIsNatural DEF Heights
    <3>2. \A c \in Nat : c \div 2 \in Nat
      OBVIOUS
    <3> QED BY <1>2, <2>2, <3>1, <3>2
  <2>3. Heights \subseteq T
    <3> HIDE DEF T
    <3> QED BY <2>1, <2>2, LevelInduction
  <2> QED BY <2>3
<1>4. \A c \in Nat : c % 2 \in {0, 1} /\ c = 2 * (c \div 2) + (c % 2)
  OBVIOUS
<1>5. \A level \in Heights : Bit(index, level) \in {0, 1}
  BY <1>3, <1>4 DEF Bit
<1>6. ASSUME NEW level \in 1 .. TreeDepth
      PROVE  Cursor(index)[level - 1] = 2 * Cursor(index)[level] + Bit(index, level - 1)
  <2>1. level - 1 \in Heights
    BY DepthIsNatural DEF Heights
  <2> QED BY <1>2, <1>3, <1>4, <2>1 DEF Bit
<1> QED BY <1>1, <1>2, <1>3, <1>5, <1>6

\* The path of a leaf of the tree stays inside it.
LEMMA CursorInside ==
    ASSUME NEW index \in Nat, index < TreeCapacity
    PROVE  \A level \in Heights : Cursor(index)[level] < Width(level)
<1> DEFINE T == {level \in Heights : Cursor(index)[level] < Width(level)}
<1>1. 0 \in T
  BY CursorSteps, Widths, DepthIsNatural DEF Heights
<1>2. ASSUME NEW level \in 1 .. TreeDepth, level - 1 \in T PROVE level \in T
  <2>1. level \in Heights /\ level - 1 \in Heights
    BY DepthIsNatural DEF Heights
  <2>2. /\ Cursor(index)[level - 1] = 2 * Cursor(index)[level] + Bit(index, level - 1)
        /\ Width(level - 1) = 2 * Width(level)
        /\ Bit(index, level - 1) \in {0, 1}
        /\ Cursor(index)[level] \in Nat /\ Width(level) \in Nat
    BY <2>1, CursorSteps, Widths
  <2>3. Cursor(index)[level - 1] < Width(level - 1)
    BY <1>2
  <2>4. \A c, w \in Nat : \A b \in {0, 1} : 2 * c + b < 2 * w => c < w
    OBVIOUS
  <2>5. Cursor(index)[level] < Width(level)
    BY <2>2, <2>3, <2>4
  <2> QED BY <2>1, <2>5
<1>3. Heights \subseteq T
  <2> HIDE DEF T
  <2> QED BY <1>1, <1>2, LevelInduction
<1> QED BY <1>3

\* The next leaf's path is at most one node further on every level; where it
\* is the same node, the bit is the same.
LEMMA CursorNext ==
    ASSUME NEW index \in Nat
    PROVE  \A level \in Heights :
              Cursor(index + 1)[level] \in {Cursor(index)[level], Cursor(index)[level] + 1}
<1> DEFINE T == {level \in Heights :
                    Cursor(index + 1)[level] \in {Cursor(index)[level], Cursor(index)[level] + 1}}
<1>1. 0 \in T
  BY CursorSteps, DepthIsNatural DEF Heights
<1>2. ASSUME NEW level \in 1 .. TreeDepth, level - 1 \in T PROVE level \in T
  <2>1. level \in Heights /\ level - 1 \in Heights /\ index + 1 \in Nat
    BY DepthIsNatural DEF Heights
  <2>2. Cursor(index)[level - 1] \in Nat /\ Cursor(index)[level] = Cursor(index)[level - 1] \div 2
    BY <2>1, CursorSteps
  <2>3. Cursor(index + 1)[level] = Cursor(index + 1)[level - 1] \div 2
    BY <2>1, CursorSteps
  <2>4. ASSUME NEW c \in Nat PROVE (c + 1) \div 2 \in {c \div 2, c \div 2 + 1}
    <3> DEFINE p == (c + 1) \div 2
               q == c \div 2
    <3>1. \A d \in Nat : d \div 2 \in Nat /\ 2 * (d \div 2) <= d /\ d < 2 * (d \div 2) + 2
      <4>1. \A d \in Nat : d % 2 \in {0, 1} /\ d = 2 * (d \div 2) + (d % 2) /\ d \div 2 \in Nat
        OBVIOUS
      <4> QED BY <4>1
    <3>2. p \in Nat /\ 2 * p <= c + 1 /\ c + 1 < 2 * p + 2
      BY <3>1
    <3>3. q \in Nat /\ 2 * q <= c /\ c < 2 * q + 2
      BY <3>1
    <3> HIDE DEF p, q
    <3> QED BY <3>2, <3>3
  <2> QED BY <1>2, <2>1, <2>2, <2>3, <2>4
<1>3. Heights \subseteq T
  <2> HIDE DEF T
  <2> QED BY <1>1, <1>2, LevelInduction
<1> QED BY <1>3

-----------------------------------------------------------------------------
(* The builder's tree *)

Node(leaves, level, i) == BuildOrderedTree(leaves)[level][i]

LEMMA Nodes ==
    ASSUME NEW leaves
    PROVE  /\ \A i \in 0 .. TreeCapacity - 1 :
                 Node(leaves, 0, i) = IF i < Len(leaves) THEN leaves[i + 1] ELSE EmptyLeaf
           /\ \A level \in 1 .. TreeDepth : \A i \in 0 .. Width(level) - 1 :
                 /\ 2 * i \in 0 .. Width(level - 1) - 1
                 /\ 2 * i + 1 \in 0 .. Width(level - 1) - 1
                 /\ Node(leaves, level, i) =
                       NodeHash(Node(leaves, level - 1, 2 * i), Node(leaves, level - 1, 2 * i + 1))
<1>1. ASSUME NEW i \in 0 .. TreeCapacity - 1
      PROVE  Node(leaves, 0, i) = IF i < Len(leaves) THEN leaves[i + 1] ELSE EmptyLeaf
  <2>1. 0 \in Heights
    BY DepthIsNatural DEF Heights
  <2>2. BuildOrderedTree(leaves)[0] =
           [k \in 0 .. TreeCapacity - 1 |-> IF k < Len(leaves) THEN leaves[k + 1] ELSE EmptyLeaf]
    BY <2>1, TreeUnfolds
  <2> QED BY <2>2 DEF Node
<1>2. ASSUME NEW level \in 1 .. TreeDepth, NEW i \in 0 .. Width(level) - 1
      PROVE  /\ 2 * i \in 0 .. Width(level - 1) - 1
             /\ 2 * i + 1 \in 0 .. Width(level - 1) - 1
  <2>1. level \in Heights
    BY DepthIsNatural DEF Heights
  <2>2. Width(level) \in Nat /\ Width(level - 1) = 2 * Width(level)
    BY <2>1, Widths
  <2> QED BY <2>2
<1>3. ASSUME NEW level \in 1 .. TreeDepth, NEW i \in 0 .. Width(level) - 1
      PROVE  Node(leaves, level, i) =
                NodeHash(Node(leaves, level - 1, 2 * i), Node(leaves, level - 1, 2 * i + 1))
  <2>1. level \in Heights /\ level # 0
    BY DepthIsNatural DEF Heights
  <2> DEFINE tree == BuildOrderedTree(leaves)
             base == [k \in 0 .. TreeCapacity - 1 |->
                         IF k < Len(leaves) THEN leaves[k + 1] ELSE EmptyLeaf]
  <2>2. tree = [l \in Heights |->
                  IF l = 0 THEN base
                  ELSE [k \in 0 .. Width(l) - 1 |->
                           NodeHash(tree[l - 1][2 * k], tree[l - 1][2 * k + 1])]]
    BY TreeUnfolds
  <2>3. tree[level] = [k \in 0 .. Width(level) - 1 |->
                          NodeHash(tree[level - 1][2 * k], tree[level - 1][2 * k + 1])]
    <3> HIDE DEF tree, base
    <3> QED BY <2>1, <2>2
  <2>4. tree[level][i] = NodeHash(tree[level - 1][2 * i], tree[level - 1][2 * i + 1])
    <3> HIDE DEF tree
    <3> QED BY <2>3
  <2> QED BY <2>4 DEF Node
<1> QED BY <1>1, <1>2, <1>3

\* A change of one leaf changes only the nodes above it.
LEMMA Stable ==
    ASSUME NEW old, NEW new, NEW index \in Nat,
           \A i \in 0 .. TreeCapacity - 1 : i # index => Node(old, 0, i) = Node(new, 0, i)
    PROVE  \A level \in Heights : \A i \in 0 .. Width(level) - 1 :
              i # Cursor(index)[level] => Node(old, level, i) = Node(new, level, i)
<1> DEFINE T == {level \in Heights : \A i \in 0 .. Width(level) - 1 :
                    i # Cursor(index)[level] => Node(old, level, i) = Node(new, level, i)}
<1>1. 0 \in T
  BY CursorSteps, Widths, DepthIsNatural DEF Heights
<1>2. ASSUME NEW level \in 1 .. TreeDepth, level - 1 \in T PROVE level \in T
  <2>1. level \in Heights /\ level - 1 \in Heights
    BY DepthIsNatural DEF Heights
  <2>2. ASSUME NEW i \in 0 .. Width(level) - 1, i # Cursor(index)[level]
        PROVE  Node(old, level, i) = Node(new, level, i)
    <3>1. /\ Cursor(index)[level - 1] = 2 * Cursor(index)[level] + Bit(index, level - 1)
          /\ Bit(index, level - 1) \in {0, 1}
          /\ Cursor(index)[level] \in Nat
      BY <2>1, CursorSteps
    <3>2. i \in Nat
      BY <2>1, Widths
    <3>3. 2 * i # Cursor(index)[level - 1] /\ 2 * i + 1 # Cursor(index)[level - 1]
      BY <2>2, <3>1, <3>2
    <3>4. /\ Node(old, level - 1, 2 * i) = Node(new, level - 1, 2 * i)
          /\ Node(old, level - 1, 2 * i + 1) = Node(new, level - 1, 2 * i + 1)
      BY <1>2, <3>3, Nodes
    <3> QED BY <3>4, Nodes
  <2> QED BY <2>1, <2>2
<1>3. Heights \subseteq T
  <2> HIDE DEF T
  <2> QED BY <1>1, <1>2, LevelInduction
<1> QED BY <1>3

\* Beyond the path of the last leaf every node is the root of an empty tree.
LEMMA EmptyBeyond ==
    ASSUME NEW leaves, NEW index \in Nat,
           \A i \in 0 .. TreeCapacity - 1 : i > index => Node(leaves, 0, i) = EmptyLeaf
    PROVE  \A level \in Heights : \A i \in 0 .. Width(level) - 1 :
              i > Cursor(index)[level] => Node(leaves, level, i) = EmptyTree[level]
<1> DEFINE T == {level \in Heights : \A i \in 0 .. Width(level) - 1 :
                    i > Cursor(index)[level] => Node(leaves, level, i) = EmptyTree[level]}
<1>1. 0 \in T
  BY CursorSteps, Widths, EmptyTreeUnfolds, DepthIsNatural DEF Heights
<1>2. ASSUME NEW level \in 1 .. TreeDepth, level - 1 \in T PROVE level \in T
  <2>1. level \in Heights /\ level - 1 \in Heights /\ level # 0
    BY DepthIsNatural DEF Heights
  <2>2. ASSUME NEW i \in 0 .. Width(level) - 1, i > Cursor(index)[level]
        PROVE  Node(leaves, level, i) = EmptyTree[level]
    <3>1. /\ Cursor(index)[level - 1] = 2 * Cursor(index)[level] + Bit(index, level - 1)
          /\ Bit(index, level - 1) \in {0, 1}
          /\ Cursor(index)[level] \in Nat
      BY <2>1, CursorSteps
    <3>2. i \in Nat
      BY <2>1, Widths
    <3>3. 2 * i > Cursor(index)[level - 1] /\ 2 * i + 1 > Cursor(index)[level - 1]
      BY <2>2, <3>1, <3>2
    <3>4. /\ Node(leaves, level - 1, 2 * i) = EmptyTree[level - 1]
          /\ Node(leaves, level - 1, 2 * i + 1) = EmptyTree[level - 1]
      BY <1>2, <3>3, Nodes
    <3>5. EmptyTree[level] = NodeHash(EmptyTree[level - 1], EmptyTree[level - 1])
      BY <2>1, EmptyTreeUnfolds
    <3> QED BY <3>4, <3>5, Nodes
  <2> QED BY <2>1, <2>2
<1>3. Heights \subseteq T
  <2> HIDE DEF T
  <2> QED BY <1>1, <1>2, LevelInduction
<1> QED BY <1>3

LEMMA AscentSteps ==
    ASSUME NEW leaf, NEW index, NEW siblings
    PROVE  /\ Ascent(leaf, index, siblings)[0] = leaf
           /\ \A level \in 1 .. TreeDepth :
                 Ascent(leaf, index, siblings)[level] =
                    IF Bit(index, level - 1) = 0
                    THEN NodeHash(Ascent(leaf, index, siblings)[level - 1], siblings[level])
                    ELSE NodeHash(siblings[level], Ascent(leaf, index, siblings)[level - 1])
<1>1. 0 \in Heights /\ \A level \in 1 .. TreeDepth : level \in Heights /\ level # 0
  BY DepthIsNatural DEF Heights
<1> QED BY <1>1, AscentUnfolds

\* Who walks up from a leaf of the tree with the tree's own nodes as
\* siblings meets the nodes of the tree.
LEMMA AscentFollows ==
    ASSUME NEW leaves, NEW leaf, NEW index \in Nat, NEW siblings,
           index < TreeCapacity, leaf = Node(leaves, 0, index),
           \A level \in 1 .. TreeDepth :
              siblings[level] =
                 Node(leaves, level - 1,
                      IF Bit(index, level - 1) = 0
                      THEN Cursor(index)[level - 1] + 1 ELSE Cursor(index)[level - 1] - 1)
    PROVE  \A level \in Heights :
              Ascent(leaf, index, siblings)[level] = Node(leaves, level, Cursor(index)[level])
<1> DEFINE node == Ascent(leaf, index, siblings)
           T == {level \in Heights : node[level] = Node(leaves, level, Cursor(index)[level])}
<1>1. 0 \in T
  BY AscentSteps, CursorSteps, DepthIsNatural DEF Heights
<1>2. ASSUME NEW level \in 1 .. TreeDepth, level - 1 \in T PROVE level \in T
  <2> DEFINE c == Cursor(index)[level - 1]
             up == Cursor(index)[level]
             bit == Bit(index, level - 1)
  <2>1. level \in Heights /\ level - 1 \in Heights
    BY DepthIsNatural DEF Heights
  <2>2. up \in 0 .. Width(level) - 1
    BY <2>1, CursorSteps, CursorInside, Widths
  <2>3. bit \in {0, 1} /\ c = 2 * up + bit /\ up \in Nat
    BY <2>1, CursorSteps
  <2>4. Node(leaves, level, up) =
           NodeHash(Node(leaves, level - 1, 2 * up), Node(leaves, level - 1, 2 * up + 1))
    BY <2>2, Nodes
  <2>5. node[level - 1] = Node(leaves, level - 1, c)
    BY <1>2
  <2>6. CASE bit = 0
    <3>1. siblings[level] = Node(leaves, level - 1, c + 1)
      BY <2>6
    <3>2. node[level] = NodeHash(node[level - 1], siblings[level])
      BY <2>6, AscentSteps
    <3>3. c = 2 * up
      BY <2>3, <2>6
    <3> QED BY <2>1, <2>4, <2>5, <3>1, <3>2, <3>3
  <2>7. CASE bit = 1
    <3>1. siblings[level] = Node(leaves, level - 1, c - 1)
      BY <2>7
    <3>2. node[level] = NodeHash(siblings[level], node[level - 1])
      BY <2>7, AscentSteps
    <3>3. c = 2 * up + 1 /\ c - 1 = 2 * up
      BY <2>3, <2>7
    <3> QED BY <2>1, <2>4, <2>5, <3>1, <3>2, <3>3
  <2> QED BY <2>3, <2>6, <2>7
<1>3. Heights \subseteq T
  <2> HIDE DEF T
  <2> QED BY <1>1, <1>2, LevelInduction
<1> QED BY <1>3

\* Who arrives at the root of the tree, with whatever siblings, has met the
\* nodes of the tree all the way: a hash has one pair of children.
LEMMA AscentIsUnique ==
    ASSUME NEW leaves, NEW leaf, NEW index \in Nat, NEW siblings, index < TreeCapacity,
           Ascent(leaf, index, siblings)[TreeDepth] = Node(leaves, TreeDepth, 0)
    PROVE  leaf = Node(leaves, 0, index)
<1> DEFINE node == Ascent(leaf, index, siblings)
           T == {level \in Heights : node[level] = Node(leaves, level, Cursor(index)[level])}
<1>1. TreeDepth \in T
  <2>1. TreeDepth \in Heights
    BY DepthIsNatural DEF Heights
  <2>2. Cursor(index)[TreeDepth] \in Nat /\ Cursor(index)[TreeDepth] < 1
    BY <2>1, CursorSteps, CursorInside, Widths
  <2>3. Cursor(index)[TreeDepth] = 0
    BY <2>2
  <2> QED BY <2>1, <2>3
<1>2. \A l1, r1, l2, r2 : NodeHash(l1, r1) = NodeHash(l2, r2) => l1 = l2 /\ r1 = r2
  BY DEF NodeHash
<1>3. ASSUME NEW level \in 1 .. TreeDepth, level \in T PROVE level - 1 \in T
  <2> DEFINE c == Cursor(index)[level - 1]
             up == Cursor(index)[level]
             bit == Bit(index, level - 1)
  <2>1. level \in Heights /\ level - 1 \in Heights
    BY DepthIsNatural DEF Heights
  <2>2. up \in 0 .. Width(level) - 1
    BY <2>1, CursorSteps, CursorInside, Widths
  <2>3. bit \in {0, 1} /\ c = 2 * up + bit /\ up \in Nat
    BY <2>1, CursorSteps
  <2>4. node[level] =
           NodeHash(Node(leaves, level - 1, 2 * up), Node(leaves, level - 1, 2 * up + 1))
    BY <1>3, <2>2, Nodes
  <2>5. CASE bit = 0
    <3>1. node[level] = NodeHash(node[level - 1], siblings[level])
      BY <2>5, AscentSteps
    <3>2. c = 2 * up
      BY <2>3, <2>5
    <3> QED BY <1>2, <2>1, <2>4, <3>1, <3>2
  <2>6. CASE bit = 1
    <3>1. node[level] = NodeHash(siblings[level], node[level - 1])
      BY <2>6, AscentSteps
    <3>2. c = 2 * up + 1
      BY <2>3, <2>6
    <3> QED BY <1>2, <2>1, <2>4, <3>1, <3>2
  <2> QED BY <2>3, <2>5, <2>6
<1>4. Heights \subseteq T
  <2> HIDE DEF T
  <2> QED BY <1>1, <1>3, LevelDescent
<1>5. 0 \in T
  BY <1>4, DepthIsNatural DEF Heights
<1> QED BY <1>5, AscentSteps, CursorSteps

-----------------------------------------------------------------------------
(* The log and its leaves *)

\* Leaves that are all empty make the empty tree.
LEMMA EmptyEverywhere ==
    ASSUME NEW leaves, \A i \in 0 .. TreeCapacity - 1 : Node(leaves, 0, i) = EmptyLeaf
    PROVE  Node(leaves, TreeDepth, 0) = EmptyRoot
<1> DEFINE T == {level \in Heights : \A i \in 0 .. Width(level) - 1 :
                    Node(leaves, level, i) = EmptyTree[level]}
<1>1. 0 \in T
  BY Widths, EmptyTreeUnfolds, DepthIsNatural DEF Heights
<1>2. ASSUME NEW level \in 1 .. TreeDepth, level - 1 \in T PROVE level \in T
  <2>1. level \in Heights /\ level # 0
    BY DepthIsNatural DEF Heights
  <2>2. EmptyTree[level] = NodeHash(EmptyTree[level - 1], EmptyTree[level - 1])
    BY <2>1, EmptyTreeUnfolds
  <2> QED BY <1>2, <2>1, <2>2, Nodes
<1>3. Heights \subseteq T
  <2> HIDE DEF T
  <2> QED BY <1>1, <1>2, LevelInduction
<1>4. TreeDepth \in T /\ 0 \in 0 .. Width(TreeDepth) - 1
  BY <1>3, Widths, DepthIsNatural DEF Heights
<1> QED BY <1>4 DEF EmptyRoot

LEMMA LogLeaves ==
    ASSUME NEW log \in Seq(AllocationType)
    PROVE  \A i \in 0 .. TreeCapacity - 1 :
              Node(LeavesOf(log), 0, i) = IF i < Len(log) THEN LeafHash(log[i + 1]) ELSE EmptyLeaf
<1>1. Len(log) \in Nat
  OBVIOUS
<1>2. Len(LeavesOf(log)) = Len(log)
  BY <1>1 DEF LeavesOf
<1>3. \A i \in 1 .. Len(log) : LeavesOf(log)[i] = LeafHash(log[i])
  BY DEF LeavesOf
<1>4. ASSUME NEW i \in 0 .. TreeCapacity - 1
      PROVE  Node(LeavesOf(log), 0, i) = IF i < Len(log) THEN LeafHash(log[i + 1]) ELSE EmptyLeaf
  <2>1. i \in Nat
    BY Widths, DepthIsNatural DEF Heights
  <2>2. i < Len(log) => i + 1 \in 1 .. Len(log)
    BY <1>1, <2>1
  <2> QED BY <1>2, <1>3, <2>2, Nodes
<1> QED BY <1>4

LEMMA AppendedLeaves ==
    ASSUME NEW log \in Seq(AllocationType), NEW a \in AllocationType, Len(log) < TreeCapacity
    PROVE  LET old == LeavesOf(log)
               new == LeavesOf(Append(log, a))
           IN  /\ \A i \in 0 .. TreeCapacity - 1 :
                     i # Len(log) => Node(old, 0, i) = Node(new, 0, i)
               /\ \A i \in 0 .. TreeCapacity - 1 : i > Len(log) => Node(new, 0, i) = EmptyLeaf
               /\ Node(new, 0, Len(log)) = LeafHash(a)
<1> DEFINE longer == Append(log, a)
<1>1. /\ longer \in Seq(AllocationType) /\ Len(log) \in Nat /\ Len(longer) = Len(log) + 1
      /\ longer[Len(log) + 1] = a
      /\ \A i \in 1 .. Len(log) : longer[i] = log[i]
  OBVIOUS
<1> HIDE DEF longer
<1>2. TreeCapacity \in Nat
  BY Widths, DepthIsNatural DEF Heights
<1>3. ASSUME NEW i \in 0 .. TreeCapacity - 1, i # Len(log)
      PROVE  Node(LeavesOf(log), 0, i) = Node(LeavesOf(longer), 0, i)
  <2>1. i \in Nat /\ (i < Len(log) <=> i < Len(longer)) /\ (i < Len(log) => i + 1 \in 1 .. Len(log))
    BY <1>1, <1>2, <1>3
  <2>2. i < Len(log) => longer[i + 1] = log[i + 1]
    BY <1>1, <2>1
  <2> QED BY <1>1, <2>1, <2>2, LogLeaves
<1>4. ASSUME NEW i \in 0 .. TreeCapacity - 1, i > Len(log)
      PROVE  Node(LeavesOf(longer), 0, i) = EmptyLeaf
  <2>1. ~ (i < Len(longer))
    BY <1>1, <1>2, <1>4
  <2> QED BY <1>1, <2>1, LogLeaves
<1>5. Node(LeavesOf(longer), 0, Len(log)) = LeafHash(a)
  <2>1. Len(log) \in 0 .. TreeCapacity - 1 /\ Len(log) < Len(longer)
    BY <1>1, <1>2
  <2> QED BY <1>1, <2>1, LogLeaves
<1> QED BY <1>3, <1>4, <1>5 DEF longer

-----------------------------------------------------------------------------
(* The invariant *)

\* An append walks up the new tree: the frontier and the empty subtrees are
\* the siblings of the new leaf.
LEMMA PathFollows ==
    ASSUME TreeInv, NEW a \in AllocationType, count < TreeCapacity
    PROVE  \A level \in Heights :
              Path(LeafHash(a), count)[level] =
                 Node(LeavesOf(Append(allocations, a)), level, Cursor(count)[level])
<1> DEFINE old == LeavesOf(allocations)
           new == LeavesOf(Append(allocations, a))
           siblings == [level \in 1 .. TreeDepth |->
                           IF Bit(count, level - 1) = 0
                           THEN EmptyTree[level - 1] ELSE frontier[level - 1]]
<1>1. /\ count \in Nat /\ allocations \in Seq(AllocationType) /\ Len(allocations) = count
      /\ FrontierInv
  BY Widths, DepthIsNatural DEF TreeInv, Heights
<1>2. /\ \A i \in 0 .. TreeCapacity - 1 : i # count => Node(old, 0, i) = Node(new, 0, i)
      /\ \A i \in 0 .. TreeCapacity - 1 : i > count => Node(new, 0, i) = EmptyLeaf
      /\ Node(new, 0, count) = LeafHash(a)
  BY <1>1, AppendedLeaves
<1>3. \A level \in Heights : \A i \in 0 .. Width(level) - 1 :
         /\ i # Cursor(count)[level] => Node(old, level, i) = Node(new, level, i)
         /\ i > Cursor(count)[level] => Node(new, level, i) = EmptyTree[level]
  <2> HIDE DEF old, new
  <2>1. \A level \in Heights : \A i \in 0 .. Width(level) - 1 :
           i # Cursor(count)[level] => Node(old, level, i) = Node(new, level, i)
    BY <1>1, <1>2, Stable
  <2>2. \A level \in Heights : \A i \in 0 .. Width(level) - 1 :
           i > Cursor(count)[level] => Node(new, level, i) = EmptyTree[level]
    BY <1>1, <1>2, EmptyBeyond
  <2> QED BY <2>1, <2>2
<1>4. ASSUME NEW level \in 1 .. TreeDepth
      PROVE  siblings[level] =
                Node(new, level - 1,
                     IF Bit(count, level - 1) = 0
                     THEN Cursor(count)[level - 1] + 1 ELSE Cursor(count)[level - 1] - 1)
  <2> DEFINE c == Cursor(count)[level - 1]
             up == Cursor(count)[level]
             bit == Bit(count, level - 1)
  <2>1. level \in Heights /\ level - 1 \in Heights /\ level - 1 \in Levels
    BY DepthIsNatural DEF Heights, Levels
  <2>2. /\ bit \in {0, 1} /\ c = 2 * up + bit /\ up \in Nat /\ up < Width(level)
        /\ Width(level) \in Nat /\ Width(level - 1) = 2 * Width(level)
    BY <1>1, <2>1, CursorSteps, CursorInside, Widths
  <2>3. c \in Nat
    BY <2>2
  <2>4. CASE bit = 0
    <3>1. c + 1 \in 0 .. Width(level - 1) - 1 /\ c + 1 > c
      BY <2>2, <2>4
    <3>2. Node(new, level - 1, c + 1) = EmptyTree[level - 1]
      BY <1>3, <2>1, <3>1
    <3>3. siblings[level] = EmptyTree[level - 1]
      BY <2>4
    <3> QED BY <2>4, <3>2, <3>3
  <2>5. CASE bit = 1
    <3>1. c - 1 \in 0 .. Width(level - 1) - 1 /\ c - 1 # c
      BY <2>2, <2>5
    <3>2. Node(old, level - 1, c - 1) = Node(new, level - 1, c - 1)
      BY <1>3, <2>1, <3>1
    <3>3. siblings[level] = frontier[level - 1]
      BY <2>5
    <3>4. frontier[level - 1] = Node(old, level - 1, c - 1)
      BY <1>1, <2>1, <2>5 DEF FrontierInv, Node
    <3> QED BY <2>5, <3>2, <3>3, <3>4
  <2> QED BY <2>2, <2>4, <2>5
<1> DEFINE leaf == LeafHash(a)
<1>5. Path(leaf, count) = Ascent(leaf, count, siblings)
  BY DEF Path
<1>6. leaf = Node(new, 0, count)
  BY <1>2
<1> HIDE DEF siblings, new, leaf
<1>7. \A level \in Heights :
         Ascent(leaf, count, siblings)[level] = Node(new, level, Cursor(count)[level])
  <2>1. \A index \in Nat :
           /\ index < TreeCapacity /\ leaf = Node(new, 0, index)
           /\ \A level \in 1 .. TreeDepth :
                 siblings[level] =
                    Node(new, level - 1,
                         IF Bit(index, level - 1) = 0
                         THEN Cursor(index)[level - 1] + 1 ELSE Cursor(index)[level - 1] - 1)
           => \A level \in Heights :
                 Ascent(leaf, index, siblings)[level] = Node(new, level, Cursor(index)[level])
    BY AscentFollows
  <2> QED BY <1>1, <1>4, <1>6, <2>1
<1> QED BY <1>5, <1>7 DEF new, leaf

LEMMA TreeStarts == Init => TreeInv
<1> SUFFICES ASSUME Init PROVE TreeInv
  OBVIOUS
<1>1. TreeCapacity \in Nat
  BY Widths, DepthIsNatural DEF Heights
<1>2. allocations \in Seq(AllocationType) /\ Len(allocations) = 0 /\ Numbered(allocations)
  BY DEF Init, Numbered
<1>3. FrontierInv
  <2> DEFINE T == {level \in Heights : Cursor(0)[level] = 0}
  <2>1. 0 \in T
    BY CursorSteps, DepthIsNatural DEF Heights
  <2>2. ASSUME NEW level \in 1 .. TreeDepth, level - 1 \in T PROVE level \in T
    <3>1. level \in Heights
      BY DepthIsNatural DEF Heights
    <3>2. Cursor(0)[level] = 0 \div 2
      BY <2>2, CursorSteps
    <3> QED BY <3>1, <3>2
  <2>3. Heights \subseteq T
    <3> HIDE DEF T
    <3> QED BY <2>1, <2>2, LevelInduction
  <2>4. \A level \in Levels : Bit(0, level) = 0
    BY <2>3, DepthIsNatural DEF Heights, Levels, Bit
  <2> QED BY <2>4 DEF Init, FrontierInv
<1>4. RootsInv
  BY DEF Init, RootsInv
<1>5. initialized = FALSE /\ count = 0 /\ root = ZeroWord
  BY DEF Init
<1>6. count \in 0 .. TreeCapacity /\ Len(allocations) = count
  BY <1>1, <1>2, <1>5
<1> QED BY <1>2, <1>3, <1>4, <1>5, <1>6 DEF TreeInv

LEMMA InitializeKeepsTree == TreeInv /\ Initialize => TreeInv'
<1> SUFFICES ASSUME TreeInv, Initialize PROVE TreeInv'
  OBVIOUS
<1>1. allocations \in Seq(AllocationType) /\ Len(allocations) = 0
  BY DEF TreeInv, Initialize
<1>2. \A i \in 0 .. TreeCapacity - 1 : Node(LeavesOf(allocations), 0, i) = EmptyLeaf
  <2>1. \A i \in 0 .. TreeCapacity - 1 : ~ (i < 0)
    OBVIOUS
  <2> QED BY <1>1, <2>1, LogLeaves
<1>3. root' = RebuiltRoot(allocations')
  BY <1>2, EmptyEverywhere DEF Initialize, RebuiltRoot, Node
<1>4. FrontierInv' /\ RootsInv'
  BY DEF TreeInv, Initialize, FrontierInv, RootsInv
<1> QED BY <1>3, <1>4 DEF TreeInv, Initialize

\* The frontier after an append: the node above the new leaf where it is a
\* left child, the old one where the path stays on the same node.
LEMMA FrontierFollows ==
    ASSUME TreeInv, NEW a \in AllocationType, count < TreeCapacity, NEW level \in Levels,
           Bit(count + 1, level) = 1
    PROVE  (IF Bit(count, level) = 0 THEN Path(LeafHash(a), count)[level] ELSE frontier[level]) =
              Node(LeavesOf(Append(allocations, a)), level, Cursor(count + 1)[level] - 1)
<1> DEFINE old == LeavesOf(allocations)
           new == LeavesOf(Append(allocations, a))
           c == Cursor(count)[level]
           next == Cursor(count + 1)[level]
<1>1. /\ count \in Nat /\ allocations \in Seq(AllocationType) /\ Len(allocations) = count
      /\ FrontierInv /\ level \in Heights
  BY Widths, DepthIsNatural DEF TreeInv, Heights, Levels
<1>2. c \in Nat /\ c < Width(level) /\ Width(level) \in Nat /\ Bit(count, level) \in {0, 1}
  BY <1>1, CursorSteps, CursorInside, Widths
<1>3. next \in {c, c + 1}
  BY <1>1, CursorNext
<1>4. CASE Bit(count, level) = 0
  <2>1. next # c
    BY <1>4 DEF Bit
  <2>2. next - 1 = c
    BY <1>2, <1>3, <2>1
  <2> HIDE DEF next
  <2>3. Path(LeafHash(a), count)[level] = Node(new, level, c)
    BY <1>1, PathFollows
  <2> QED BY <1>4, <2>2, <2>3 DEF next
<1>5. CASE Bit(count, level) = 1
  <2>1. next = c
    <3>1. c % 2 = 1 /\ next % 2 = 1
      BY <1>5 DEF Bit
    <3>2. \A k \in Nat : k % 2 = 1 => (k + 1) % 2 # 1
      OBVIOUS
    <3> QED BY <1>2, <1>3, <3>1, <3>2
  <2>2. c - 1 \in 0 .. Width(level) - 1 /\ c - 1 # c
    <3>1. c # 0
      BY <1>5 DEF Bit
    <3> QED BY <1>2, <3>1
  <2>3. \A i \in 0 .. TreeCapacity - 1 : i # count => Node(old, 0, i) = Node(new, 0, i)
    BY <1>1, AppendedLeaves
  <2>4. Node(old, level, c - 1) = Node(new, level, c - 1)
    <3> HIDE DEF old, new
    <3> QED BY <1>1, <2>2, <2>3, Stable
  <2>5. frontier[level] = Node(old, level, c - 1)
    BY <1>1, <1>5 DEF FrontierInv, Node
  <2> QED BY <1>5, <2>1, <2>4, <2>5
<1> QED BY <1>2, <1>4, <1>5

LEMMA AppendKeepsTree ==
    ASSUME TreeInv, NEW content \in Contents, AppendAllocation(content)
    PROVE  TreeInv'
<1> DEFINE a == Allocation(count, count + 1, content)
           path == Path(LeafHash(a), count)
<1>1. /\ count \in Nat /\ TreeCapacity \in Nat /\ count < TreeCapacity
      /\ allocations \in Seq(AllocationType) /\ Len(allocations) = count
  BY Widths, DepthIsNatural DEF TreeInv, Heights, AppendAllocation, HasRoom
<1>2. a \in AllocationType
  BY <1>1 DEF Allocation, AllocationType
<1>3. /\ allocations' = Append(allocations, a) /\ count' = count + 1
      /\ root' = path[TreeDepth] /\ roots' = Append(roots, root')
      /\ initialized' = TRUE
      /\ frontier' = [level \in Levels |->
                         IF Bit(count, level) = 0 THEN path[level] ELSE frontier[level]]
  BY DEF AppendAllocation, TreeInv
<1>4. /\ allocations' \in Seq(AllocationType) /\ Len(allocations') = count'
      /\ count' \in 0 .. TreeCapacity
      /\ allocations'[count + 1] = a
      /\ \A i \in 1 .. count : allocations'[i] = allocations[i]
  <2> HIDE DEF a
  <2> QED BY <1>1, <1>2, <1>3
<1>5. Numbered(allocations')
  <2>1. ASSUME NEW i \in 1 .. count + 1
        PROVE  \E text \in Contents : allocations'[i] = Allocation(i - 1, i, text)
    <3>1. CASE i = count + 1
      <4>1. i - 1 = count
        BY <1>1, <3>1
      <4> QED BY <1>4, <3>1, <4>1
    <3>2. CASE i # count + 1
      <4>1. i \in 1 .. count
        BY <1>1, <3>2
      <4>2. \E text \in Contents : allocations[i] = Allocation(i - 1, i, text)
        BY <1>1, <4>1 DEF TreeInv, Numbered
      <4> QED BY <1>4, <4>1, <4>2
    <3> QED BY <3>1, <3>2
  <2> QED BY <1>3, <1>4, <2>1 DEF Numbered
<1>6. root' = RebuiltRoot(allocations')
  <2>1. TreeDepth \in Heights
    BY DepthIsNatural DEF Heights
  <2>2. Cursor(count)[TreeDepth] \in Nat /\ Cursor(count)[TreeDepth] < 1
    BY <1>1, <2>1, CursorSteps, CursorInside, Widths
  <2>3. Cursor(count)[TreeDepth] = 0
    BY <2>2
  <2>4. path[TreeDepth] = Node(LeavesOf(allocations'), TreeDepth, 0)
    BY <1>1, <1>2, <1>3, <2>1, <2>3, PathFollows
  <2> QED BY <1>3, <2>4 DEF RebuiltRoot, Node
<1>7. FrontierInv'
  <2>1. ASSUME NEW level \in Levels, Bit(count', level) = 1
        PROVE  frontier'[level] = Node(LeavesOf(allocations'), level, Cursor(count')[level] - 1)
    <3>1. (IF Bit(count, level) = 0 THEN path[level] ELSE frontier[level]) =
             Node(LeavesOf(Append(allocations, a)), level, Cursor(count + 1)[level] - 1)
      BY <1>1, <1>2, <1>3, <2>1, FrontierFollows
    <3> QED BY <1>3, <3>1
  <2> QED BY <2>1 DEF FrontierInv, Node
<1>8. RootsInv'
  <2> DEFINE made(n) == RebuiltRoot(SubSeq(allocations, 1, n))
             madeNext(n) == RebuiltRoot(SubSeq(allocations', 1, n))
             S == {made(n) : n \in 1 .. count} \cup {root'}
  <2>1. roots = [n \in 1 .. count |-> made(n)]
    BY DEF TreeInv, RootsInv
  <2>2. roots \in Seq(S) /\ Len(roots) = count
    BY <1>1, <2>1
  <2>3. /\ roots' \in Seq(S) /\ Len(roots') = count + 1
        /\ roots'[count + 1] = root'
        /\ \A n \in 1 .. count : roots'[n] = roots[n]
    <3> HIDE DEF S, a, path, made
    <3>1. root' \in S
      BY DEF S
    <3> QED BY <1>1, <1>3, <2>2, <3>1
  <2>4. ASSUME NEW n \in 1 .. count PROVE SubSeq(allocations', 1, n) = SubSeq(allocations, 1, n)
    <3>1. n \in Nat /\ n <= count
      BY <1>1
    <3>2. /\ SubSeq(allocations', 1, n) = [i \in 1 .. n |-> allocations'[i]]
          /\ SubSeq(allocations, 1, n) = [i \in 1 .. n |-> allocations[i]]
      BY <1>1, <1>3, <1>4, <3>1
    <3> QED BY <1>1, <1>4, <3>1, <3>2
  <2>5. SubSeq(allocations', 1, count + 1) = allocations'
    BY <1>1, <1>3, <1>4
  <2>6. ASSUME NEW n \in 1 .. count + 1 PROVE roots'[n] = madeNext(n)
    <3>1. CASE n = count + 1
      BY <1>6, <2>3, <2>5, <3>1
    <3>2. CASE n # count + 1
      <4>1. n \in 1 .. count
        BY <1>1, <3>2
      <4> QED BY <2>1, <2>3, <2>4, <4>1
    <3> QED BY <3>1, <3>2
  <2>7. roots' = [n \in 1 .. count + 1 |-> roots'[n]]
    <3> HIDE DEF S
    <3> QED BY <1>1, <2>3
  <2> QED BY <1>3, <2>6, <2>7 DEF RootsInv
<1> QED BY <1>3, <1>4, <1>5, <1>6, <1>7, <1>8 DEF TreeInv

\* The frontier always holds the left neighbours that the next append needs,
\* and the roots are those of the builder (AllocationTree.sol, append).
THEOREM TreeInvariant == Spec => []TreeInv
<1>1. ASSUME TreeInv, [Next]_vars PROVE TreeInv'
  <2>1. CASE UNCHANGED vars
    BY <1>1, <2>1 DEF vars, TreeInv, FrontierInv, RootsInv
  <2>2. CASE Next
    BY <1>1, <2>2, InitializeKeepsTree, AppendKeepsTree DEF Next
  <2> QED BY <1>1, <2>1, <2>2
<1> QED BY <1>1, TreeStarts, PTL DEF Spec

\* The incremental root is the rebuilt root of the whole log, for every depth
\* and every log up to a full tree (AllocationTree.sol, append;
\* sdk/allocation.ts, rebuildAllocations).
THEOREM RootIsBuilt == Spec => []RootMatchesBuilder
<1>1. TreeInv => RootMatchesBuilder
  BY DEF TreeInv, RootMatchesBuilder
<1> QED BY <1>1, TreeInvariant, PTL

\* A witness made for a prefix of the log walks to the root of that prefix.
LEMMA WitnessFollows ==
    ASSUME NEW log \in Seq(AllocationType), Len(log) <= TreeCapacity, NEW index \in Nat,
           index < Len(log)
    PROVE  Climb(LeafHash(log[index + 1]), index, OrderedProof(LeavesOf(log), index)) =
              RebuiltRoot(log)
<1> DEFINE leaves == LeavesOf(log)
           leaf == LeafHash(log[index + 1])
           siblings == OrderedProof(leaves, index)
<1>1. TreeCapacity \in Nat /\ Len(log) \in Nat /\ index < TreeCapacity
  BY Widths, DepthIsNatural DEF Heights
<1>2. leaf = Node(leaves, 0, index)
  <2>1. index \in 0 .. TreeCapacity - 1
    BY <1>1
  <2> QED BY <2>1, LogLeaves
<1>3. ASSUME NEW level \in 1 .. TreeDepth
      PROVE  siblings[level] =
                Node(leaves, level - 1,
                     IF Bit(index, level - 1) = 0
                     THEN Cursor(index)[level - 1] + 1 ELSE Cursor(index)[level - 1] - 1)
  <2>1. siblings[level] = BuildOrderedTree(leaves)[level - 1][Flip(Cursor(index)[level - 1])]
    BY DEF OrderedProof
  <2> QED BY <2>1 DEF Flip, Bit, Node
<1> HIDE DEF leaves, leaf, siblings
<1>4. \A level \in Heights :
         Ascent(leaf, index, siblings)[level] = Node(leaves, level, Cursor(index)[level])
  BY <1>1, <1>2, <1>3, AscentFollows
<1>5. TreeDepth \in Heights
  BY DepthIsNatural DEF Heights
<1>6. Cursor(index)[TreeDepth] \in Nat /\ Cursor(index)[TreeDepth] < 1
  BY <1>1, <1>5, CursorSteps, CursorInside, Widths
<1>7. Cursor(index)[TreeDepth] = 0
  BY <1>6
<1>8. Climb(leaf, index, siblings) = Node(leaves, TreeDepth, 0)
  BY <1>4, <1>5, <1>7 DEF Climb
<1> QED BY <1>8 DEF RebuiltRoot, Node, leaves, leaf, siblings

\* A witness for any prefix of the log stays valid against the root published
\* for that prefix (AllocationTree.sol, verify; sdk/allocation.ts,
\* orderedProof).
THEOREM ProofsVerify == Spec => []PublishedProofsVerify
<1>1. TreeInv => PublishedProofsVerify
  <2> SUFFICES ASSUME TreeInv, NEW n \in 1 .. count, NEW i \in 1 .. n
               PROVE  Verify(allocations[i],
                             OrderedProof(LeavesOf(SubSeq(allocations, 1, n)), i - 1), n, roots[n])
    BY DEF PublishedProofsVerify
  <2> DEFINE log == SubSeq(allocations, 1, n)
             siblings == OrderedProof(LeavesOf(log), i - 1)
  <2>1. /\ count \in Nat /\ TreeCapacity \in Nat /\ count <= TreeCapacity
        /\ allocations \in Seq(AllocationType) /\ Len(allocations) = count
    BY Widths, DepthIsNatural DEF TreeInv, Heights
  <2>2. n \in Nat /\ n <= count /\ n <= TreeCapacity /\ i \in 1 .. count /\ i <= n
        /\ i - 1 \in Nat /\ i - 1 < n /\ (i - 1) + 1 = i
    BY <2>1
  <2>3. log \in Seq(AllocationType) /\ Len(log) = n /\ log[i] = allocations[i]
    BY <2>1, <2>2
  <2>4. allocations[i].treeIndex = i - 1 /\ allocations[i].allocationId = i
    <3>1. PICK content \in Contents : allocations[i] = Allocation(i - 1, i, content)
      BY <2>1, <2>2 DEF TreeInv, Numbered
    <3> QED BY <3>1 DEF Allocation
  <2>5. Len(siblings) = TreeDepth
    BY DepthIsNatural DEF OrderedProof
  <2>6. roots[n] = RebuiltRoot(log)
    BY DEF TreeInv, RootsInv
  <2>7. Climb(LeafHash(allocations[i]), i - 1, siblings) = roots[n]
    <3> HIDE DEF log
    <3> QED BY <2>2, <2>3, <2>6, WitnessFollows
  <2> HIDE DEF siblings
  <2>8. Verify(allocations[i], siblings, n, roots[n])
    BY <2>2, <2>4, <2>5, <2>7 DEF Verify
  <2> QED BY <2>8 DEF siblings
<1> QED BY <1>1, TreeInvariant, PTL

\* Whatever siblings and leaf count come with it, an allocation that verifies
\* against the current root is the one the log has at its index.
LEMMA OnlyTheLogVerifies ==
    ASSUME TreeInv, NEW a \in AllocationType, NEW siblings, NEW leafCount \in Nat,
           Verify(a, siblings, leafCount, root)
    PROVE  a.treeIndex < count /\ allocations[a.treeIndex + 1] = a
<1> DEFINE index == a.treeIndex
           leaf == LeafHash(a)
           leaves == LeavesOf(allocations)
<1>1. /\ count \in Nat /\ TreeCapacity \in Nat
      /\ allocations \in Seq(AllocationType) /\ Len(allocations) = count
  BY Widths, DepthIsNatural DEF TreeInv, Heights
<1>2. index \in Nat /\ index < TreeCapacity
  BY <1>1 DEF AllocationType, Verify
<1>3. Ascent(leaf, index, siblings)[TreeDepth] = root
  BY DEF Verify, Climb
<1> HIDE DEF leaf, index
<1>4. initialized
  <2>1. TreeDepth \in 1 .. TreeDepth
    BY DepthIsNatural
  <2>2. \E left, right : root = NodeHash(left, right)
    BY <1>3, <2>1, AscentSteps
  <2>3. \A left, right : NodeHash(left, right) # ZeroWord
    BY DEF NodeHash, ZeroWord
  <2> QED BY <2>2, <2>3 DEF TreeInv
<1>5. root = Node(leaves, TreeDepth, 0)
  BY <1>4 DEF TreeInv, RebuiltRoot, Node
<1>6. leaf = Node(leaves, 0, index)
  <2> HIDE DEF leaves
  <2> QED BY <1>2, <1>3, <1>5, AscentIsUnique
<1>7. leaf = IF index < count THEN LeafHash(allocations[index + 1]) ELSE EmptyLeaf
  <2>1. index \in 0 .. TreeCapacity - 1
    BY <1>1, <1>2
  <2> QED BY <1>1, <1>6, <2>1, LogLeaves
<1>8. index < count
  <2>1. leaf # EmptyLeaf
    BY DEF leaf, LeafHash, EmptyLeaf
  <2> QED BY <1>7, <2>1
<1>9. allocations[index + 1] = a
  BY <1>7, <1>8 DEF leaf, LeafHash
<1> QED BY <1>8, <1>9 DEF index

\* Nothing but a member of the log, at its own index and id, is accepted
\* (AllocationTree.sol, verify).
THEOREM OnlyMembers == Spec => []OnlyMembersVerify
<1>1. TreeInv => OnlyMembersVerify
  <2> SUFFICES ASSUME TreeInv, NEW index \in 0 .. TreeCapacity, NEW content \in Contents,
                      NEW witness \in Witnesses, NEW id \in {index, index + 1},
                      NEW leafCount \in count .. TreeCapacity + 1,
                      Verify(Allocation(index, id, content), witness, leafCount, root)
               PROVE  index < count /\ allocations[index + 1] = Allocation(index, id, content)
    BY DEF OnlyMembersVerify
  <2> DEFINE a == Allocation(index, id, content)
  <2>1. count \in Nat /\ TreeCapacity \in Nat
    BY Widths, DepthIsNatural DEF TreeInv, Heights
  <2>2. index \in Nat /\ id \in Nat /\ leafCount \in Nat
    BY <2>1
  <2>3. a \in AllocationType /\ a.treeIndex = index
    BY <2>2 DEF Allocation, AllocationType
  <2> HIDE DEF a
  <2>4. Verify(a, witness, leafCount, root)
    BY DEF a
  <2>5. a.treeIndex < count /\ allocations[a.treeIndex + 1] = a
    BY <2>2, <2>3, <2>4, OnlyTheLogVerifies
  <2> QED BY <2>3, <2>5 DEF a
<1> QED BY <1>1, TreeInvariant, PTL
=============================================================================
