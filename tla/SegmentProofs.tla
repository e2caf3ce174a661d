---------------------------- MODULE SegmentProofs ----------------------------
(***************************************************************************)
(* The compiler of the segment DSL is correct for every query that parses, *)
(* every database and every tenant.                                        *)
(***************************************************************************)
EXTENDS Segment, Induction

\* A sequence followed by another.
LEMMA ConcatFacts ==
    ASSUME NEW s, List(s), NEW u, List(u)
    PROVE  /\ List(s \o u) /\ Len(s \o u) = Len(s) + Len(u) /\ DOMAIN (s \o u) = 1..(Len(s) + Len(u))
           /\ \A i \in DOMAIN s : i \in DOMAIN (s \o u) /\ (s \o u)[i] = s[i]
           /\ \A i \in DOMAIN u : Len(s) + i \in DOMAIN (s \o u) /\ (s \o u)[Len(s) + i] = u[i]
           /\ \A i \in DOMAIN (s \o u) :
                i \in DOMAIN s \/ (i > Len(s) /\ i - Len(s) \in DOMAIN u)
  <1> DEFINE T == {s[i] : i \in DOMAIN s} \cup {u[i] : i \in DOMAIN u}
  <1>1. s \in Seq(T) /\ u \in Seq(T)
    BY DEF List
  <1> HIDE DEF T
  <1>2. List(s \o u)
    BY ConcatList
  <1> QED
    BY <1>1, <1>2

Elements(s) == {s[i] : i \in DOMAIN s}

\* The elements of a concatenation.
LEMMA ElementsConcat ==
    ASSUME NEW s, List(s), NEW u, List(u)
    PROVE  Elements(s \o u) = Elements(s) \cup Elements(u)
  <1>1. \A i \in DOMAIN (s \o u) :
          \/ i \in DOMAIN s /\ (s \o u)[i] = s[i]
          \/ i - Len(s) \in DOMAIN u /\ (s \o u)[i] = u[i - Len(s)]
    <2> SUFFICES ASSUME NEW i \in DOMAIN (s \o u)
                 PROVE  \/ i \in DOMAIN s /\ (s \o u)[i] = s[i]
                        \/ i - Len(s) \in DOMAIN u /\ (s \o u)[i] = u[i - Len(s)]
      OBVIOUS
    <2>1. i \in DOMAIN s \/ (i > Len(s) /\ i - Len(s) \in DOMAIN u)
      BY ConcatFacts
    <2>2. i \in Int /\ Len(s) \in Nat
      BY ConcatFacts, ListFacts
    <2>3. i - Len(s) \in DOMAIN u => (s \o u)[Len(s) + (i - Len(s))] = u[i - Len(s)]
      BY ConcatFacts
    <2> QED
      BY <2>1, <2>2, <2>3, ConcatFacts
  <1>2. {(s \o u)[i] : i \in DOMAIN (s \o u)} \subseteq {s[i] : i \in DOMAIN s} \cup {u[i] : i \in DOMAIN u}
    BY <1>1
  <1>3. {s[i] : i \in DOMAIN s} \subseteq {(s \o u)[i] : i \in DOMAIN (s \o u)}
    BY ConcatFacts
  <1>4. {u[i] : i \in DOMAIN u} \subseteq {(s \o u)[i] : i \in DOMAIN (s \o u)}
    <2> SUFFICES ASSUME NEW i \in DOMAIN u
                 PROVE  \E k \in DOMAIN (s \o u) : (s \o u)[k] = u[i]
      OBVIOUS
    <2>1. Len(s) + i \in DOMAIN (s \o u) /\ (s \o u)[Len(s) + i] = u[i]
      BY ConcatFacts
    <2> QED
      BY <2>1, Zenon
  <1> QED
    BY <1>2, <1>3, <1>4 DEF Elements

-----------------------------------------------------------------------------
(***************************************************************************)
(* Join.                                                                   *)
(***************************************************************************)
PieceOK(x) == x.ok \in BOOLEAN /\ List(x.tmpl) /\ List(x.params) /\ List(x.sources)

\* One more piece.
Added(x, y) ==
    [ok |-> x.ok /\ y.ok, tmpl |-> x.tmpl \o y.tmpl, params |-> x.params \o y.params,
     sources |-> x.sources \o y.sources]

\* Join goes from piece to piece.
LEMMA JoinSteps ==
    ASSUME NEW pieces, List(pieces), \A i \in DOMAIN pieces : PieceOK(pieces[i])
    PROVE  \E f : /\ f[0] = Piece(<<>>, <<>>)
                  /\ \A i \in 1..Len(pieces) : f[i] = Added(f[i - 1], pieces[i])
                  /\ \A i \in 0..Len(pieces) : PieceOK(f[i])
                  /\ Join(pieces) = f[Len(pieces)]
  <1> DEFINE n == Len(pieces)
             V == {x \in [ok : BOOLEAN,
                          tmpl : Seq(UNION {{pieces[i].tmpl[j] : j \in DOMAIN pieces[i].tmpl} : i \in DOMAIN pieces}),
                          params : Seq(UNION {{pieces[i].params[j] : j \in DOMAIN pieces[i].params} : i \in DOMAIN pieces}),
                          sources : Seq(UNION {{pieces[i].sources[j] : j \in DOMAIN pieces[i].sources} : i \in DOMAIN pieces})] :
                      PieceOK(x)}
             G == [i \in 1..n |-> [x \in V |-> Added(x, pieces[i])]]
             none == Piece(<<>>, <<>>)
             cat[i \in 0..Len(pieces)] ==
               IF i = 0 THEN Piece(<<>>, <<>>)
               ELSE [ok      |-> cat[i - 1].ok /\ pieces[i].ok,
                     tmpl    |-> cat[i - 1].tmpl \o pieces[i].tmpl,
                     params  |-> cat[i - 1].params \o pieces[i].params,
                     sources |-> cat[i - 1].sources \o pieces[i].sources]
  <1>1. n \in Nat /\ DOMAIN pieces = 1..n
    BY ListFacts
  <1>2. none \in V
    <2>1. \A A : <<>> \in Seq(A)
      OBVIOUS
    <2>2. List(<<>>)
      BY <2>1, IsList
    <2> QED
      BY <2>1, <2>2 DEF PieceOK, Piece
  <1>3. ASSUME NEW x \in V, NEW i \in 1..n PROVE Added(x, pieces[i]) \in V
    <2> DEFINE A == UNION {{pieces[k].tmpl[j] : j \in DOMAIN pieces[k].tmpl} : k \in DOMAIN pieces}
               B == UNION {{pieces[k].params[j] : j \in DOMAIN pieces[k].params} : k \in DOMAIN pieces}
               C == UNION {{pieces[k].sources[j] : j \in DOMAIN pieces[k].sources} : k \in DOMAIN pieces}
               y == pieces[i]
    <2>1. i \in DOMAIN pieces
      BY <1>1
    <2>2. PieceOK(y)
      BY <2>1
    <2>4. y.tmpl \in Seq(A) /\ y.params \in Seq(B) /\ y.sources \in Seq(C)
      <3>1. \A j \in DOMAIN y.tmpl : y.tmpl[j] \in A
        BY <2>1
      <3>2. \A j \in DOMAIN y.params : y.params[j] \in B
        BY <2>1
      <3>3. \A j \in DOMAIN y.sources : y.sources[j] \in C
        BY <2>1
      <3> HIDE DEF A, B, C, y
      <3> QED
        BY <2>2, <3>1, <3>2, <3>3, ListIn DEF PieceOK
    <2>5. x \in [ok : BOOLEAN, tmpl : Seq(A), params : Seq(B), sources : Seq(C)] /\ PieceOK(x)
      OBVIOUS
    <2>6. \A r : r \in V <=> r \in [ok : BOOLEAN, tmpl : Seq(A), params : Seq(B), sources : Seq(C)] /\ PieceOK(r)
      OBVIOUS
    <2> HIDE DEF A, B, C, y, V
    <2>7. /\ Added(x, y).ok \in BOOLEAN /\ Added(x, y).tmpl \in Seq(A)
          /\ Added(x, y).params \in Seq(B) /\ Added(x, y).sources \in Seq(C)
      BY <2>2, <2>4, <2>5 DEF Added, PieceOK
    <2>8. Added(x, y) \in [ok : BOOLEAN, tmpl : Seq(A), params : Seq(B), sources : Seq(C)]
      BY <2>7 DEF Added
    <2>9. PieceOK(Added(x, y))
      BY <2>7, IsList DEF PieceOK
    <2> QED
      BY <2>6, <2>8, <2>9 DEF y
  <1>4. G \in [1..n -> [V -> V]]
    <2> HIDE DEF V, n
    <2> QED
      BY <1>3
  <1>5. \A x \in V : PieceOK(x)
    OBVIOUS
  <1> HIDE DEF V
  <1>6. PICK f \in [0..n -> V] : f[0] = none /\ \A i \in 1..n : f[i] = G[i][f[i - 1]]
    <2> HIDE DEF G, none, n
    <2> QED
      BY <1>1, <1>2, <1>4, Recursion
  <1>7. ASSUME NEW i \in 1..n PROVE f[i] = Added(f[i - 1], pieces[i])
    <2>1. f[i - 1] \in V
      BY <1>1
    <2> QED
      BY <1>6, <2>1
  <1>8. f = [i \in 0..Len(pieces) |->
               IF i = 0 THEN Piece(<<>>, <<>>)
               ELSE [ok      |-> f[i - 1].ok /\ pieces[i].ok,
                     tmpl    |-> f[i - 1].tmpl \o pieces[i].tmpl,
                     params  |-> f[i - 1].params \o pieces[i].params,
                     sources |-> f[i - 1].sources \o pieces[i].sources]]
    <2>1. \A i \in 0..n : i # 0 => i \in 1..n
      BY <1>1
    <2>2. f = [i \in 0..n |-> IF i = 0 THEN none ELSE Added(f[i - 1], pieces[i])]
      <3> HIDE DEF none, G
      <3> QED
        BY <1>6, <1>7, <2>1
    <2> QED
      BY <2>2 DEF Added
  <1>9. cat = [i \in 0..Len(pieces) |->
                 IF i = 0 THEN Piece(<<>>, <<>>)
                 ELSE [ok      |-> cat[i - 1].ok /\ pieces[i].ok,
                       tmpl    |-> cat[i - 1].tmpl \o pieces[i].tmpl,
                       params  |-> cat[i - 1].params \o pieces[i].params,
                       sources |-> cat[i - 1].sources \o pieces[i].sources]]
    BY <1>8, Zenon
  <1>10. Join(pieces) = cat[n]
    BY DEF Join
  <1> HIDE DEF cat
  <1>11. 0..n \subseteq {i \in 0..n : cat[i] = f[i]}
    <2> DEFINE S == {i \in 0..n : cat[i] = f[i]}
    <2>1. 0 \in S
      BY <1>1, <1>6, <1>9
    <2>2. ASSUME NEW i \in 1..n, i - 1 \in S PROVE i \in S
      <3>1. i \in 0..n /\ i # 0 /\ cat[i - 1] = f[i - 1]
        BY <1>1, <2>2
      <3>2. cat[i] = Added(cat[i - 1], pieces[i])
        BY <1>9, <3>1 DEF Added
      <3> QED
        BY <1>7, <3>1, <3>2
    <2> HIDE DEF S, n
    <2>3. 0..n \subseteq S
      BY <1>1, <2>1, <2>2, UpTo
    <2> QED
      BY <2>3 DEF S
  <1>12. Join(pieces) = f[n]
    BY <1>1, <1>10, <1>11
  <1>13. \A i \in 0..n : PieceOK(f[i])
    BY <1>5, <1>6
  <1> QED
    BY <1>6, <1>7, <1>12, <1>13

-----------------------------------------------------------------------------
(***************************************************************************)
(* Placeholders: which parameters each template gets.                      *)
(***************************************************************************)
\* pos: where the parameters of each template begin, given how many it has.
Places(pos, T, N, P) ==
    /\ pos \in [1..(Len(T) + 1) -> 1..(Len(P) + 1)]
    /\ pos[1] = 1 /\ pos[Len(T) + 1] = Len(P) + 1
    /\ \A j \in DOMAIN T : N[j] \in Nat /\ pos[j + 1] = pos[j] + N[j]

\* The templates T use up the parameters P; B: each with its arguments.
Bound(T, N, P, B) ==
    /\ List(T) /\ List(P)
    /\ \E pos : /\ Places(pos, T, N, P)
                /\ B = {<<T[j], SubSeq(P, pos[j], pos[j + 1] - 1)>> : j \in DOMAIN T}

\* Binding from the places of the templates' first arguments.
LEMMA BoundIntro ==
    ASSUME NEW T, NEW N, NEW P, NEW pos, NEW B, List(T), List(P), Places(pos, T, N, P),
           B = {<<T[j], SubSeq(P, pos[j], pos[j + 1] - 1)>> : j \in DOMAIN T}
    PROVE  Bound(T, N, P, B)
  BY Zenon DEF Bound

\* A window that lies in one half of a concatenation is a window of that half.
LEMMA SubSeqConcat ==
    ASSUME NEW s, List(s), NEW u, List(u), NEW i \in Int, NEW j \in Int
    PROVE  /\ 1 <= i /\ j <= Len(s) => SubSeq(s \o u, i, j) = SubSeq(s, i, j)
           /\ 1 <= i /\ j <= Len(u) => SubSeq(s \o u, Len(s) + i, Len(s) + j) = SubSeq(u, i, j)
  <1> DEFINE T == {s[k] : k \in DOMAIN s} \cup {u[k] : k \in DOMAIN u}
  <1>1. s \in Seq(T) /\ u \in Seq(T)
    BY DEF List
  <1> HIDE DEF T
  <1>2. CASE 1 <= i /\ j <= Len(s)
    BY <1>1, <1>2
  <1>3. CASE 1 <= i /\ j <= Len(u)
    BY <1>1, <1>3
  <1> QED
    BY <1>2, <1>3

\* No template, no parameter.
LEMMA BoundNone == \A N : Bound(<<>>, N, <<>>, {})
  <1> TAKE N
  <1>1. <<>> \in Seq({}) /\ Len(<<>>) = 0 /\ DOMAIN <<>> = {}
    OBVIOUS
  <1>2. List(<<>>)
    BY <1>1, IsList
  <1> DEFINE pos == [i \in 1..1 |-> 1]
  <1>3. Places(pos, <<>>, N, <<>>)
    BY <1>1 DEF Places
  <1>4. {<<(<<>>)[j], SubSeq(<<>>, pos[j], pos[j + 1] - 1)>> : j \in DOMAIN <<>>} = {}
    BY <1>1
  <1> HIDE DEF pos
  <1> QED
    BY <1>2, <1>3, <1>4, Zenon DEF Bound

\* One template, with all of the parameters.
LEMMA BoundOne ==
    ASSUME NEW tm, NEW N, NEW P, List(P), N[1] = Len(P)
    PROVE  Bound(<<tm>>, N, P, {<<tm, P>>})
  <1> DEFINE T == <<tm>>
             L == Len(P)
             pos == [i \in 1..2 |-> IF i = 1 THEN 1 ELSE L + 1]
  <1>1. T \in Seq({tm}) /\ Len(T) = 1 /\ DOMAIN T = 1..1 /\ T[1] = tm
    OBVIOUS
  <1>2. List(T)
    BY <1>1, IsList
  <1>3. L \in Nat
    BY ListFacts
  <1>4. SubSeq(P, 1, L) = P
    <2> DEFINE R == {P[k] : k \in DOMAIN P}
    <2>1. P \in Seq(R)
      BY DEF List
    <2> HIDE DEF R
    <2> QED
      BY <2>1
  <1>5. pos[1] = 1 /\ pos[2] = L + 1 /\ pos \in [1..2 -> 1..(L + 1)]
    BY <1>3
  <1> HIDE DEF pos, T
  <1>6. Places(pos, T, N, P)
    BY <1>1, <1>3, <1>5 DEF Places
  <1>7. {<<T[j], SubSeq(P, pos[j], pos[j + 1] - 1)>> : j \in DOMAIN T} = {<<tm, P>>}
    <2>1. pos[1 + 1] - 1 = L
      BY <1>3, <1>5
    <2>2. \A j : j \in DOMAIN T <=> j = 1
      BY <1>1
    <2>3. <<T[1], SubSeq(P, pos[1], pos[1 + 1] - 1)>> = <<tm, P>>
      BY <1>1, <1>4, <1>5, <2>1
    <2> QED
      BY <2>2, <2>3, Zenon
  <1>8. Bound(T, N, P, {<<tm, P>>})
    BY <1>2, <1>6, <1>7, Zenon DEF Bound
  <1> QED
    BY <1>8 DEF T

\* Templates and parameters are concatenated together: no argument moves.
LEMMA BoundConcat ==
    ASSUME NEW T, NEW N, NEW P, NEW B, Bound(T, N, P, B),
           NEW U, NEW M, NEW Q, NEW C, Bound(U, M, Q, C),
           NEW K, \A j \in DOMAIN T : K[j] = N[j], \A j \in DOMAIN U : K[Len(T) + j] = M[j]
    PROVE  Bound(T \o U, K, P \o Q, B \cup C)
  <1>1. List(T) /\ List(P) /\ List(U) /\ List(Q)
    BY DEF Bound
  <1>2. PICK f : Places(f, T, N, P) /\ B = {<<T[j], SubSeq(P, f[j], f[j + 1] - 1)>> : j \in DOMAIN T}
    BY DEF Bound
  <1>3. PICK g : Places(g, U, M, Q) /\ C = {<<U[j], SubSeq(Q, g[j], g[j + 1] - 1)>> : j \in DOMAIN U}
    BY DEF Bound
  <1> DEFINE t == Len(T)
             u == Len(U)
             p == Len(P)
             q == Len(Q)
             W == T \o U
             R == P \o Q
             h == [i \in 1..(t + u + 1) |-> IF i <= t + 1 THEN f[i] ELSE p + g[i - t]]
  <1>4. t \in Nat /\ u \in Nat /\ p \in Nat /\ q \in Nat /\ DOMAIN T = 1..t /\ DOMAIN U = 1..u
    BY <1>1, ListFacts
  <1>5. /\ List(W) /\ List(R) /\ Len(W) = t + u /\ Len(R) = p + q /\ DOMAIN W = 1..(t + u)
        /\ (\A i \in 1..t : W[i] = T[i]) /\ (\A i \in 1..u : W[t + i] = U[i])
    <2>1. /\ List(W) /\ Len(W) = t + u /\ DOMAIN W = 1..(t + u)
          /\ (\A i \in DOMAIN T : W[i] = T[i]) /\ (\A i \in DOMAIN U : W[t + i] = U[i])
      BY <1>1, ConcatFacts
    <2>2. List(R) /\ Len(R) = p + q
      BY <1>1, ConcatFacts
    <2> QED
      BY <1>4, <2>1, <2>2, Zenon
  <1>6. /\ f \in [1..(t + 1) -> 1..(p + 1)] /\ f[1] = 1 /\ f[t + 1] = p + 1
        /\ \A j \in 1..t : N[j] \in Nat /\ f[j + 1] = f[j] + N[j]
    BY <1>2, <1>4 DEF Places
  <1>7. /\ g \in [1..(u + 1) -> 1..(q + 1)] /\ g[1] = 1 /\ g[u + 1] = q + 1
        /\ \A j \in 1..u : M[j] \in Nat /\ g[j + 1] = g[j] + M[j]
    BY <1>3, <1>4 DEF Places
  <1>8. (\A j \in 1..t : K[j] = N[j]) /\ (\A j \in 1..u : K[t + j] = M[j])
    BY <1>4
  <1> HIDE DEF t, u, p, q, W, R
  <1>9. \A i \in 1..(t + 1) : h[i] = f[i] /\ h[i] \in 1..(p + q + 1)
    BY <1>4, <1>6
  <1>10. \A i \in 1..(u + 1) : h[t + i] = p + g[i] /\ h[t + i] \in 1..(p + q + 1)
    <2> SUFFICES ASSUME NEW i \in 1..(u + 1) PROVE h[t + i] = p + g[i] /\ h[t + i] \in 1..(p + q + 1)
      OBVIOUS
    <2>1. g[i] \in 1..(q + 1) /\ f[t + 1] = p + 1 /\ g[1] = 1
      BY <1>6, <1>7
    <2>2. CASE i = 1
      <3>1. h[t + 1] = f[t + 1]
        BY <1>4, <1>9
      <3> QED
        BY <1>4, <2>1, <2>2, <3>1
    <2>3. CASE i > 1
      <3>1. t + i \in 1..(t + u + 1) /\ ~(t + i <= t + 1) /\ (t + i) - t = i
        BY <1>4, <2>3
      <3> QED
        BY <1>4, <2>1, <3>1
    <2> QED
      BY <2>2, <2>3
  <1>11. ASSUME NEW i \in 1..(t + u) PROVE i \in 1..t \/ \E j \in 1..u : i = t + j
    <2>1. i > t => i - t \in 1..u /\ i = t + (i - t)
      BY <1>4
    <2> QED
      BY <1>4, <2>1
  <1>12. h \in [1..(t + u + 1) -> 1..(p + q + 1)]
    <2> SUFFICES ASSUME NEW i \in 1..(t + u + 1) PROVE h[i] \in 1..(p + q + 1)
      OBVIOUS
    <2>1. i > t => i - t \in 1..(u + 1) /\ i = t + (i - t)
      BY <1>4
    <2>2. i <= t => i \in 1..(t + 1)
      BY <1>4
    <2> HIDE DEF h
    <2> QED
      BY <1>4, <1>9, <1>10, <2>1, <2>2
  <1>13. h[1] = 1 /\ h[t + u + 1] = p + q + 1
    <2>1. 1 \in 1..(t + 1) /\ u + 1 \in 1..(u + 1) /\ t + (u + 1) = t + u + 1
      BY <1>4
    <2> HIDE DEF h
    <2> QED
      BY <1>4, <1>6, <1>7, <1>9, <1>10, <2>1
  <1> HIDE DEF h
  <1>14. ASSUME NEW j \in 1..t
         PROVE  /\ K[j] \in Nat /\ h[j + 1] = h[j] + K[j]
                /\ <<W[j], SubSeq(R, h[j], h[j + 1] - 1)>> = <<T[j], SubSeq(P, f[j], f[j + 1] - 1)>>
    <2>1. h[j] = f[j] /\ h[j + 1] = f[j + 1] /\ f[j] \in 1..(p + 1) /\ f[j + 1] \in 1..(p + 1)
      BY <1>4, <1>6, <1>9
    <2>2. SubSeq(R, h[j], h[j + 1] - 1) = SubSeq(P, f[j], f[j + 1] - 1)
      <3>1. f[j] \in Int /\ f[j + 1] - 1 \in Int /\ 1 <= f[j] /\ f[j + 1] - 1 <= Len(P)
        BY <1>4, <2>1 DEF p
      <3> DEFINE a == f[j]
                 z == f[j + 1] - 1
      <3>2. a \in Int /\ z \in Int /\ 1 <= a /\ z <= Len(P)
        BY <3>1
      <3> HIDE DEF a, z
      <3>3. SubSeq(P \o Q, a, z) = SubSeq(P, a, z)
        BY <1>1, <3>2, SubSeqConcat
      <3> QED
        BY <2>1, <3>3 DEF R, a, z
    <2> QED
      BY <1>5, <1>6, <1>8, <2>1, <2>2
  <1>15. ASSUME NEW j \in 1..u
         PROVE  /\ K[t + j] \in Nat /\ h[(t + j) + 1] = h[t + j] + K[t + j]
                /\ <<W[t + j], SubSeq(R, h[t + j], h[(t + j) + 1] - 1)>> = <<U[j], SubSeq(Q, g[j], g[j + 1] - 1)>>
    <2>1. /\ j \in 1..(u + 1) /\ j + 1 \in 1..(u + 1) /\ (t + j) + 1 = t + (j + 1)
          /\ g[j] \in 1..(q + 1) /\ g[j + 1] \in 1..(q + 1)
      BY <1>4, <1>7
    <2>2. h[t + j] = p + g[j] /\ h[(t + j) + 1] = p + g[j + 1]
      BY <1>10, <2>1
    <2>3. SubSeq(R, h[t + j], h[(t + j) + 1] - 1) = SubSeq(Q, g[j], g[j + 1] - 1)
      <3>1. g[j] \in Int /\ g[j + 1] - 1 \in Int /\ 1 <= g[j] /\ g[j + 1] - 1 <= Len(Q)
        BY <1>4, <2>1 DEF q
      <3>2. SubSeq(P \o Q, Len(P) + g[j], Len(P) + (g[j + 1] - 1)) = SubSeq(Q, g[j], g[j + 1] - 1)
        <4> DEFINE a == g[j]
                   z == g[j + 1] - 1
        <4>1. a \in Int /\ z \in Int /\ 1 <= a /\ z <= Len(Q)
          BY <3>1
        <4> HIDE DEF a, z
        <4>2. SubSeq(P \o Q, Len(P) + a, Len(P) + z) = SubSeq(Q, a, z)
          BY <1>1, <4>1, SubSeqConcat
        <4> QED
          BY <4>2 DEF a, z
      <3>3. p + (g[j + 1] - 1) = h[(t + j) + 1] - 1
        BY <1>4, <2>1, <2>2
      <3> QED
        BY <2>2, <3>2, <3>3 DEF R, p
    <2>4. K[t + j] = M[j] /\ M[j] \in Nat /\ g[j + 1] = g[j] + M[j]
      BY <1>7, <1>8
    <2>5. h[(t + j) + 1] = h[t + j] + K[t + j]
      BY <1>4, <2>1, <2>2, <2>4
    <2> QED
      BY <1>5, <2>3, <2>4, <2>5
  <1>16. \A j \in 1..(t + u) : K[j] \in Nat /\ h[j + 1] = h[j] + K[j]
    BY <1>11, <1>14, <1>15
  <1>17. Places(h, W, K, R)
    BY <1>4, <1>5, <1>12, <1>13, <1>16 DEF Places
  <1>18. B \cup C = {<<W[j], SubSeq(R, h[j], h[j + 1] - 1)>> : j \in DOMAIN W}
    <2> DEFINE E(j) == <<W[j], SubSeq(R, h[j], h[j + 1] - 1)>>
               F(j) == <<T[j], SubSeq(P, f[j], f[j + 1] - 1)>>
               I(j) == <<U[j], SubSeq(Q, g[j], g[j + 1] - 1)>>
    <2>1. B = {F(j) : j \in 1..t} /\ C = {I(j) : j \in 1..u}
      BY <1>2, <1>3, <1>4
    <2>2. (\A j \in 1..t : E(j) = F(j)) /\ (\A j \in 1..u : E(t + j) = I(j))
      BY <1>14, <1>15
    <2>3. (\A j \in 1..t : j \in 1..(t + u)) /\ (\A j \in 1..u : t + j \in 1..(t + u))
      BY <1>4
    <2> HIDE DEF E, F, I
    <2>4. B \cup C = {E(j) : j \in 1..(t + u)}
      <3>1. B \cup C \subseteq {E(j) : j \in 1..(t + u)}
        BY <2>1, <2>2, <2>3
      <3>2. {E(j) : j \in 1..(t + u)} \subseteq B \cup C
        BY <1>11, <2>1, <2>2
      <3> QED
        BY <3>1, <3>2
    <2> QED
      BY <1>5, <2>4 DEF E
  <1>19. Bound(W, K, R, B \cup C)
    <2> DEFINE D == B \cup C
    <2>1. List(W) /\ List(R) /\ D = {<<W[j], SubSeq(R, h[j], h[j + 1] - 1)>> : j \in DOMAIN W}
      BY <1>5, <1>18
    <2> HIDE DEF D
    <2>2. Bound(W, K, R, D)
      BY <1>17, <2>1, BoundIntro
    <2> QED
      BY <2>2 DEF D
  <1> QED
    BY <1>19 DEF W, R

\* Only the counts of the templates matter.
LEMMA BoundSame ==
    ASSUME NEW T, NEW N, NEW P, NEW B, Bound(T, N, P, B), NEW M, \A j \in DOMAIN T : M[j] = N[j]
    PROVE  Bound(T, M, P, B)
  <1>1. PICK pos : Places(pos, T, N, P) /\ B = {<<T[j], SubSeq(P, pos[j], pos[j + 1] - 1)>> : j \in DOMAIN T}
    BY DEF Bound
  <1>2. Places(pos, T, M, P)
    BY <1>1 DEF Places
  <1>3. List(T) /\ List(P)
    BY DEF Bound
  <1> QED
    BY <1>1, <1>2, <1>3, BoundIntro

-----------------------------------------------------------------------------
\* What is in a concatenation of pieces.
LEMMA JoinFacts ==
    ASSUME NEW pieces, List(pieces), \A i \in DOMAIN pieces : PieceOK(pieces[i])
    PROVE  /\ PieceOK(Join(pieces))
           /\ Join(pieces).ok <=> \A i \in DOMAIN pieces : pieces[i].ok
           /\ Elements(Join(pieces).tmpl) = UNION {Elements(pieces[i].tmpl) : i \in DOMAIN pieces}
           /\ Elements(Join(pieces).sources) = UNION {Elements(pieces[i].sources) : i \in DOMAIN pieces}
  <1> DEFINE n == Len(pieces)
  <1>1. n \in Nat /\ DOMAIN pieces = 1..n
    BY ListFacts
  <1>2. PICK f : /\ f[0] = Piece(<<>>, <<>>)
                 /\ \A i \in 1..n : f[i] = Added(f[i - 1], pieces[i])
                 /\ \A i \in 0..n : PieceOK(f[i])
                 /\ Join(pieces) = f[n]
    BY JoinSteps
  <1> HIDE DEF n
  <1> DEFINE S == {i \in 0..n : /\ f[i].ok <=> \A k \in 1..i : pieces[k].ok
                                /\ Elements(f[i].tmpl) = UNION {Elements(pieces[k].tmpl) : k \in 1..i}
                                /\ Elements(f[i].sources) = UNION {Elements(pieces[k].sources) : k \in 1..i}}
  <1>3. 0 \in S
    <2>1. f[0].ok /\ f[0].tmpl = <<>> /\ f[0].sources = <<>> /\ 1..0 = {} /\ 0 \in 0..n
      BY <1>1, <1>2 DEF Piece
    <2>2. Elements(<<>>) = {}
      BY DEF Elements
    <2> QED
      BY <2>1, <2>2
  <1>4. ASSUME NEW i \in 1..n, i - 1 \in S PROVE i \in S
    <2>1. i \in 0..n /\ i - 1 \in 0..n /\ i \in DOMAIN pieces
      BY <1>1
    <2>2. PieceOK(f[i - 1]) /\ PieceOK(pieces[i])
      BY <1>2, <2>1
    <2>0. f[i] = Added(f[i - 1], pieces[i])
      BY <1>2
    <2>3. /\ f[i].ok <=> f[i - 1].ok /\ pieces[i].ok
          /\ f[i].tmpl = f[i - 1].tmpl \o pieces[i].tmpl
          /\ f[i].sources = f[i - 1].sources \o pieces[i].sources
      <3> DEFINE x == f[i - 1]
                 y == pieces[i]
                 z == f[i]
      <3>1. z = Added(x, y)
        BY <2>0
      <3> HIDE DEF x, y, z
      <3>2. (z.ok <=> x.ok /\ y.ok) /\ z.tmpl = x.tmpl \o y.tmpl /\ z.sources = x.sources \o y.sources
        BY <3>1 DEF Added
      <3> QED
        BY <3>2 DEF x, y, z
    <2>4. /\ Elements(f[i].tmpl) = Elements(f[i - 1].tmpl) \cup Elements(pieces[i].tmpl)
          /\ Elements(f[i].sources) = Elements(f[i - 1].sources) \cup Elements(pieces[i].sources)
      BY <2>2, <2>3, ElementsConcat DEF PieceOK
    <2>5. \A k : k \in 1..i <=> k \in 1..(i - 1) \/ k = i
      BY <1>1
    <2>6. /\ f[i - 1].ok <=> \A k \in 1..(i - 1) : pieces[k].ok
          /\ Elements(f[i - 1].tmpl) = UNION {Elements(pieces[k].tmpl) : k \in 1..(i - 1)}
          /\ Elements(f[i - 1].sources) = UNION {Elements(pieces[k].sources) : k \in 1..(i - 1)}
      BY <1>4
    <2>7. f[i].ok <=> \A k \in 1..i : pieces[k].ok
      BY <2>3, <2>5, <2>6
    <2>8. Elements(f[i].tmpl) = UNION {Elements(pieces[k].tmpl) : k \in 1..i}
      BY <2>4, <2>5, <2>6
    <2>9. Elements(f[i].sources) = UNION {Elements(pieces[k].sources) : k \in 1..i}
      BY <2>4, <2>5, <2>6
    <2> QED
      BY <2>1, <2>7, <2>8, <2>9
  <1> HIDE DEF S
  <1>5. 0..n \subseteq S
    BY <1>1, <1>3, <1>4, UpTo
  <1>6. n \in S /\ n \in 0..n
    BY <1>1, <1>5
  <1> QED
    BY <1>1, <1>2, <1>6 DEF S

\* The templates T, with the numbers of placeholders that C gives, use up P.
Uses(T, C, P, B) == Bound(T, [j \in DOMAIN T |-> C[T[j]]], P, B)

\* No argument moves when pieces are joined.
LEMMA JoinBound ==
    ASSUME NEW pieces, List(pieces), \A i \in DOMAIN pieces : PieceOK(pieces[i]), NEW C, NEW B,
           \A i \in DOMAIN pieces : Uses(pieces[i].tmpl, C, pieces[i].params, B[i]),
           NEW All, All = UNION {B[i] : i \in DOMAIN pieces}
    PROVE  Uses(Join(pieces).tmpl, C, Join(pieces).params, All)
  <1> DEFINE n == Len(pieces)
             N(T) == [j \in DOMAIN T |-> C[T[j]]]
  <1>1. n \in Nat /\ DOMAIN pieces = 1..n
    BY ListFacts
  <1>2. PICK f : /\ f[0] = Piece(<<>>, <<>>)
                 /\ \A i \in 1..n : f[i] = Added(f[i - 1], pieces[i])
                 /\ \A i \in 0..n : PieceOK(f[i])
                 /\ Join(pieces) = f[n]
    BY JoinSteps
  <1> HIDE DEF n
  <1> DEFINE D(i) == UNION {B[k] : k \in 1..i}
             S == {i \in 0..n : Bound(f[i].tmpl, N(f[i].tmpl), f[i].params, D(i))}
  <1>3. 0 \in S
    <2>1. f[0].tmpl = <<>> /\ f[0].params = <<>> /\ 0 \in 0..n /\ D(0) = {}
      BY <1>1, <1>2 DEF Piece
    <2> HIDE DEF N, D
    <2> QED
      BY <2>1, BoundNone
  <1>4. ASSUME NEW i \in 1..n, i - 1 \in S PROVE i \in S
    <2> DEFINE T == f[i - 1].tmpl
               U == pieces[i].tmpl
    <2>1. i \in 0..n /\ i - 1 \in 0..n /\ i \in DOMAIN pieces
      BY <1>1
    <2>2. List(T) /\ List(U)
      BY <1>2, <2>1 DEF PieceOK
    <2>0. f[i] = Added(f[i - 1], pieces[i])
      BY <1>2
    <2>3. f[i].tmpl = T \o U /\ f[i].params = f[i - 1].params \o pieces[i].params
      <3> DEFINE x == f[i - 1]
                 y == pieces[i]
                 z == f[i]
      <3>1. z = Added(x, y)
        BY <2>0
      <3> HIDE DEF x, y, z
      <3>2. z.tmpl = x.tmpl \o y.tmpl /\ z.params = x.params \o y.params
        BY <3>1 DEF Added
      <3> QED
        BY <3>2 DEF x, y, z
    <2>4. D(i) = D(i - 1) \cup B[i]
      <3>1. \A k : k \in 1..i <=> k \in 1..(i - 1) \/ k = i
        BY <1>1
      <3> QED
        BY <3>1
    <2>5. Bound(T, N(T), f[i - 1].params, D(i - 1)) /\ Bound(U, N(U), pieces[i].params, B[i])
      BY <1>4, <2>1 DEF Uses
    <2> HIDE DEF D, T, U
    <2>6. (\A j \in DOMAIN T : N(T \o U)[j] = N(T)[j]) /\ (\A j \in DOMAIN U : N(T \o U)[Len(T) + j] = N(U)[j])
      <3>1. \A j \in DOMAIN T : N(T \o U)[j] = N(T)[j]
        BY <2>2, ConcatFacts
      <3>2. ASSUME NEW j \in DOMAIN U PROVE N(T \o U)[Len(T) + j] = N(U)[j]
        <4> DEFINE k == Len(T) + j
        <4>1. k \in DOMAIN (T \o U) /\ (T \o U)[k] = U[j]
          BY <2>2, ConcatFacts
        <4> HIDE DEF k
        <4>2. N(T \o U)[k] = N(U)[j]
          BY <4>1
        <4> QED
          BY <4>2 DEF k
      <3> QED
        BY <3>1, <3>2
    <2> HIDE DEF N
    <2>7. Bound(T \o U, N(T \o U), f[i - 1].params \o pieces[i].params, D(i - 1) \cup B[i])
      BY <2>5, <2>6, BoundConcat
    <2> QED
      BY <2>1, <2>3, <2>4, <2>7
  <1> HIDE DEF S
  <1>5. 0..n \subseteq S
    BY <1>1, <1>3, <1>4, UpTo
  <1>6. n \in S
    BY <1>1, <1>5
  <1> QED
    BY <1>1, <1>2, <1>6 DEF S, Uses

-----------------------------------------------------------------------------
(***************************************************************************)
(* The templates of one op mean what the op means.                         *)
(***************************************************************************)
\* compile_predicate: one template, with the values as its arguments.
LEMMA PredicateCompiled ==
    ASSUME NEW p, Predicate(p), compile_predicate(p).ok
    PROVE  \E tm, ps : /\ compile_predicate(p) = Piece(<<tm>>, ps) /\ List(ps) /\ tm.n = Len(ps)
                       /\ tm.t \in {"const", "cmp", "in"} /\ (tm.t # "const" => tm.column = p.column)
                       /\ \A r : RowHolds(tm, ps, r) <=> Satisfies(p, r[p.column])
  <1> DEFINE vals == p.value.vals
             k == Len(vals)
  <1>1. List(vals) /\ k \in Nat /\ DOMAIN vals = 1..k /\ (~p.value.list => k = 1)
    BY ListFacts DEF Predicate
  <1>2. CASE p.cmp \in Binary /\ ~p.value.list
    <2> DEFINE tm == [t |-> "cmp", column |-> p.column, cmp |-> p.cmp, n |-> 1]
    <2>1. compile_predicate(p) = Piece(<<tm>>, vals)
      BY <1>2 DEF compile_predicate
    <2>2. \A r : RowHolds(tm, vals, r) <=> Satisfies(p, r[p.column])
      BY <1>2 DEF RowHolds, Satisfies, Binary
    <2>3. tm.n = k /\ tm.t = "cmp" /\ tm.column = p.column
      BY <1>1, <1>2
    <2> HIDE DEF tm
    <2> QED
      BY <1>1, <2>1, <2>2, <2>3
  <1>3. CASE p.cmp \in {"in", "notIn"} /\ p.value.list /\ k = 0
    <2> DEFINE tm == Const(p.cmp = "notIn")
    <2>1. compile_predicate(p) = Piece(<<tm>>, <<>>)
      BY <1>3 DEF compile_predicate, Binary
    <2>2. {vals[i] : i \in DOMAIN vals} = {}
      BY <1>1, <1>3
    <2>3. \A r : RowHolds(tm, <<>>, r) <=> Satisfies(p, r[p.column])
      BY <1>3, <2>2 DEF RowHolds, Satisfies, Const
    <2>4. tm.n = 0 /\ tm.t = "const"
      BY DEF Const
    <2>5. <<>> \in Seq({}) /\ Len(<<>>) = 0
      OBVIOUS
    <2>6. List(<<>>)
      BY <2>5, IsList
    <2> HIDE DEF tm
    <2> QED
      BY <2>1, <2>3, <2>4, <2>5, <2>6
  <1>4. CASE p.cmp \in {"in", "notIn"} /\ p.value.list /\ k > 0
    <2> DEFINE tm == [t |-> "in", column |-> p.column, neg |-> (p.cmp = "notIn"), n |-> k]
    <2>1. compile_predicate(p) = Piece(<<tm>>, vals)
      BY <1>4 DEF compile_predicate, Binary
    <2>2. ASSUME NEW r PROVE RowHolds(tm, vals, r) <=> Satisfies(p, r[p.column])
      <3> DEFINE x == r[p.column]
      <3>1. RowHolds(tm, vals, r) <=> IF p.cmp = "notIn" THEN \A i \in DOMAIN vals : Compare(x, "ne", vals[i])
                                      ELSE \E i \in DOMAIN vals : Compare(x, "eq", vals[i])
        BY DEF RowHolds
      <3>2. 1 \in DOMAIN vals
        BY <1>1, <1>4
      <3> HIDE DEF x
      <3>3. CASE p.cmp = "notIn"
        <4>1. Satisfies(p, x) <=> LET listed == {vals[i] : i \in DOMAIN vals}
                                  IN  x # Null /\ Null \notin listed /\ x \notin listed
          BY <3>2, <3>3 DEF Satisfies
        <4> QED
          BY <3>1, <3>2, <3>3, <4>1 DEF Compare, x
      <3>4. CASE p.cmp = "in"
        <4>1. Satisfies(p, x) <=> x # Null /\ \E i \in DOMAIN vals : x = vals[i]
          BY <3>4 DEF Satisfies
        <4> QED
          BY <3>1, <3>4, <4>1 DEF Compare, x
      <3> QED
        BY <1>4, <3>3, <3>4
    <2>3. tm.n = k /\ tm.t = "in" /\ tm.column = p.column
      OBVIOUS
    <2> HIDE DEF tm
    <2> QED
      BY <1>1, <2>1, <2>2, <2>3
  <1> QED
    BY <1>1, <1>2, <1>3, <1>4 DEF compile_predicate, Failed, Predicate

\* The tables of one tenant's own data.
LEMMA OwnFacts ==
    ASSUME NEW db, Database(db), NEW t
    PROVE  /\ \A d \in Datasets : Own(db, t).raw[d] = {r \in db.raw[d] : r.tenant_id = t}
           /\ Own(db, t).suppression = {s \in db.suppression : s.tenant_id = t}
           /\ Own(db, t).features = {f \in db.features : f.tenant_id = t}
  BY DEF Own, Database

\* The template tm with the arguments ps is the predicate of an event op, or the
\* one that always holds.
EventPred(op, tm, ps) ==
    /\ List(ps) /\ tm.n = Len(ps)
    /\ tm.t \in {"const", "cmp", "in"}
    /\ (tm.t # "const" => op.pred # NoPred /\ tm.column = op.pred.column)
    /\ \A r : RowHolds(tm, ps, r) <=> op.pred = NoPred \/ Satisfies(op.pred, r[op.pred.column])

EventPiece(op, key, t, tm, ps) ==
    [ok |-> TRUE,
     tmpl |-> IF op.kind = "recency" THEN <<Exists(op, key, tm, FALSE, "within")>>
              ELSE <<Exists(op, key, tm, FALSE, "before"), Exists(op, key, tm, TRUE, "within")>>,
     params |-> IF op.kind = "recency" THEN <<t>> \o ps ELSE (<<t>> \o ps) \o (<<t>> \o ps),
     sources |-> <<op.event>>]

\* A recency or lapsed conjunct is EXISTS or NOT EXISTS around its optional predicate.
LEMMA EventPredicate ==
    ASSUME NEW op, SegmentOp(op), op.kind \in {"recency", "lapsed"}, NEW key, NEW t,
           compile_event(op, key, t).ok
    PROVE  \E tm, ps : EventPred(op, tm, ps) /\ compile_event(op, key, t) = EventPiece(op, key, t, tm, ps)
  <1> DEFINE p == IF op.pred = NoPred THEN Piece(<<Const(TRUE)>>, <<>>) ELSE compile_predicate(op.pred)
  <1>1. p.ok
    BY DEF compile_event, Failed
  <1>2. \E tm, ps :
          /\ p = Piece(<<tm>>, ps) /\ List(ps) /\ tm.n = Len(ps)
          /\ tm.t \in {"const", "cmp", "in"}
          /\ (tm.t # "const" => op.pred # NoPred /\ tm.column = op.pred.column)
          /\ \A r : RowHolds(tm, ps, r) <=> op.pred = NoPred \/ Satisfies(op.pred, r[op.pred.column])
    <2>1. CASE op.pred = NoPred
      <3> DEFINE tm == Const(TRUE)
      <3>1. p = Piece(<<tm>>, <<>>)
        BY <2>1
      <3>2. tm.n = 0 /\ tm.t = "const" /\ \A r : RowHolds(tm, <<>>, r)
        BY DEF Const, RowHolds
      <3>3. <<>> \in Seq({}) /\ Len(<<>>) = 0
        OBVIOUS
      <3>4. List(<<>>)
        BY <3>3, IsList
      <3> HIDE DEF tm, p
      <3> QED
        BY <2>1, <3>1, <3>2, <3>3, <3>4
    <2>2. CASE op.pred # NoPred
      <3>1. Predicate(op.pred) /\ p = compile_predicate(op.pred)
        BY <2>2 DEF SegmentOp
      <3> HIDE DEF p
      <3>2. PICK tm, ps : /\ compile_predicate(op.pred) = Piece(<<tm>>, ps) /\ List(ps) /\ tm.n = Len(ps)
                          /\ tm.t \in {"const", "cmp", "in"} /\ (tm.t # "const" => tm.column = op.pred.column)
                          /\ \A r : RowHolds(tm, ps, r) <=> Satisfies(op.pred, r[op.pred.column])
        BY <1>1, <3>1, PredicateCompiled
      <3> QED
        BY <2>2, <3>1, <3>2
    <2> QED
      BY <2>1, <2>2
  <1>3. PICK tm, ps :
          /\ p = Piece(<<tm>>, ps) /\ List(ps) /\ tm.n = Len(ps)
          /\ tm.t \in {"const", "cmp", "in"}
          /\ (tm.t # "const" => op.pred # NoPred /\ tm.column = op.pred.column)
          /\ \A r : RowHolds(tm, ps, r) <=> op.pred = NoPred \/ Satisfies(op.pred, r[op.pred.column])
    BY <1>2, Zenon
  <1>4. p.params = ps /\ p.tmpl[1] = tm
    <2>1. p = Piece(<<tm>>, ps)
      BY <1>3
    <2> HIDE DEF p
    <2> QED
      BY <2>1 DEF Piece
  <1>5. compile_event(op, key, t) =
          [Piece(IF op.kind = "recency"
                 THEN <<Exists(op, key, p.tmpl[1], FALSE, "within")>>
                 ELSE <<Exists(op, key, p.tmpl[1], FALSE, "before"),
                        Exists(op, key, p.tmpl[1], TRUE, "within")>>,
                 IF op.kind = "recency" THEN <<t>> \o p.params
                 ELSE (<<t>> \o p.params) \o (<<t>> \o p.params))
           EXCEPT !.sources = <<op.event>>]
    BY <1>1, Zenon DEF compile_event
  <1> HIDE DEF p
  <1>6. compile_event(op, key, t) =
          [ok |-> TRUE,
           tmpl |-> IF op.kind = "recency" THEN <<Exists(op, key, tm, FALSE, "within")>>
                    ELSE <<Exists(op, key, tm, FALSE, "before"), Exists(op, key, tm, TRUE, "within")>>,
           params |-> IF op.kind = "recency" THEN <<t>> \o ps ELSE (<<t>> \o ps) \o (<<t>> \o ps),
           sources |-> <<op.event>>]
    BY <1>4, <1>5 DEF Piece
  <1> QED
    BY <1>3, <1>6, Zenon DEF EventPred, EventPiece

\* A parameter pushed in front comes off again.
LEMMA TailCons ==
    ASSUME NEW t, NEW ps, List(ps)
    PROVE  /\ List(<<t>> \o ps) /\ Len(<<t>> \o ps) = 1 + Len(ps)
           /\ (<<t>> \o ps)[1] = t /\ Tail(<<t>> \o ps) = ps
  <1> DEFINE R == {ps[i] : i \in DOMAIN ps} \cup {t}
  <1>1. ps \in Seq(R) /\ t \in R
    BY DEF List
  <1> HIDE DEF R
  <1>2. <<t>> \in Seq(R)
    BY <1>1
  <1> DEFINE a == <<t>> \o ps
             n == Len(ps)
  <1>3. a \in Seq(R) /\ n \in Nat /\ Len(a) = 1 + n /\ a[1] = t /\ \A i \in 1..n : a[i + 1] = ps[i]
    BY <1>1, <1>2
  <1>4. ps = [i \in 1..n |-> ps[i]]
    BY <1>1
  <1> HIDE DEF a, n
  <1>5. a # <<>>
    BY <1>3
  <1>6. Tail(a) \in Seq(R) /\ Len(Tail(a)) = n /\ \A i \in 1..n : Tail(a)[i] = a[i + 1]
    BY <1>3, <1>5
  <1>7. Tail(a) = [i \in 1..n |-> Tail(a)[i]]
    <2> DEFINE w == Tail(a)
    <2>1. w \in Seq(R) /\ Len(w) = n
      BY <1>6
    <2> HIDE DEF w
    <2>2. w = [i \in 1..n |-> w[i]]
      BY <2>1
    <2> QED
      BY <2>2 DEF w
  <1>8. Tail(a) = ps
    BY <1>3, <1>4, <1>6, <1>7
  <1> QED
    BY <1>3, <1>8, IsList DEF a, n

\* The window of an event op.
Side(side, ts, days, now) == IF side = "within" THEN ts >= now - days ELSE ts < now - days

SomeEvent(op, own, user, side, now) == \E ts \in EventTimes(op, own, user) : Side(side, ts, op.days, now)

\* An EXISTS subquery on the event table looks at the user's own events.
LEMMA ExistsHolds ==
    ASSUME NEW op, NEW key, NEW tm, NEW ps, EventPred(op, tm, ps), NEW side, NEW t,
           NEW db, Database(db), op.event \in Datasets, NEW now, NEW b
    PROVE  /\ ConjHolds(Exists(op, key, tm, FALSE, side), <<t>> \o ps, b, db, now)
                <=> SomeEvent(op, Own(db, t), b[key], side, now)
           /\ ConjHolds(Exists(op, key, tm, TRUE, side), <<t>> \o ps, b, db, now)
                <=> ~SomeEvent(op, Own(db, t), b[key], side, now)
  <1> DEFINE a == <<t>> \o ps
             user == b[key]
             x == Exists(op, key, tm, FALSE, side)
             y == Exists(op, key, tm, TRUE, side)
             own == Own(db, t)
             E == own.raw[op.event]
             M(e) == user # Null /\ e[op.user_key] = user
                       /\ (op.pred = NoPred \/ Satisfies(op.pred, e[op.pred.column]))
  <1>1. a[1] = t /\ Tail(a) = ps
    BY TailCons DEF EventPred
  <1>2. /\ x.t = "exists" /\ x.event = op.event /\ x.user_key = op.user_key /\ x.key = key
        /\ x.ts = op.ts /\ x.days = op.days /\ x.side = side /\ x.pred = tm /\ ~x.neg
        /\ y.t = "exists" /\ y.event = op.event /\ y.user_key = op.user_key /\ y.key = key
        /\ y.ts = op.ts /\ y.days = op.days /\ y.side = side /\ y.pred = tm /\ y.neg
    BY DEF Exists
  <1>3. E = {r \in db.raw[op.event] : r.tenant_id = t}
    BY OwnFacts
  <1>4. EventTimes(op, own, user) = {e[op.ts] : e \in {r \in E : M(r)}} \ {Null}
    BY DEF EventTimes
  <1> DEFINE some == \E e \in db.raw[op.event] :
                       /\ Compare(e[op.user_key], "eq", b[key])
                       /\ e.tenant_id = t
                       /\ RowHolds(tm, ps, e)
                       /\ InWindow(e[op.ts], side, op.days, now)
  <1> HIDE DEF a, x, y, own
  <1>5. (ConjHolds(x, a, b, db, now) <=> some) /\ (ConjHolds(y, a, b, db, now) <=> ~some)
    BY <1>1, <1>2 DEF ConjHolds
  <1> HIDE DEF E, user
  <1>6. (\E e \in db.raw[op.event] :
            /\ Compare(e[op.user_key], "eq", user)
            /\ e.tenant_id = t
            /\ RowHolds(tm, ps, e)
            /\ InWindow(e[op.ts], side, op.days, now))
         <=> SomeEvent(op, own, user, side, now)
    <2>1. \A e : RowHolds(tm, ps, e) <=> op.pred = NoPred \/ Satisfies(op.pred, e[op.pred.column])
      BY DEF EventPred
    <2>2. \A e : Compare(e[op.user_key], "eq", user) <=> user # Null /\ e[op.user_key] = user
      BY DEF Compare
    <2>3. \A e : InWindow(e[op.ts], side, op.days, now) <=> e[op.ts] # Null /\ Side(side, e[op.ts], op.days, now)
      BY DEF InWindow, Side
    <2>4. \A e : e \in E <=> e \in db.raw[op.event] /\ e.tenant_id = t
      BY <1>3
    <2>5. \A e : M(e) <=> Compare(e[op.user_key], "eq", user) /\ RowHolds(tm, ps, e)
      BY <2>1, <2>2
    <2> HIDE DEF M
    <2>6. \A ts : ts \in EventTimes(op, own, user) <=> ts # Null /\ \E e \in E : M(e) /\ ts = e[op.ts]
      BY <1>4
    <2> QED
      BY <2>3, <2>4, <2>5, <2>6 DEF SomeEvent
  <1> QED
    BY <1>5, <1>6 DEF user, own, x, y, a

\* The times of a user's events are finitely many numbers.
LEMMA TimesFinite ==
    ASSUME NEW op, NEW t, NEW db, Database(db), op.event \in Datasets, op.ts \in db.columns[op.event], NEW user
    PROVE  IsFiniteSet(EventTimes(op, Own(db, t), user)) /\ EventTimes(op, Own(db, t), user) \subseteq Int
  <1> DEFINE T == EventTimes(op, Own(db, t), user)
             R == db.raw[op.event]
             f == [e \in R |-> e[op.ts]]
  <1>1. Own(db, t).raw[op.event] = {r \in R : r.tenant_id = t}
    BY OwnFacts
  <1>2. IsFiniteSet(R) /\ \A r \in R : r[op.ts] \in Int \cup {Null}
    BY DEF Database
  <1>3. \A ts \in T : ts # Null /\ \E e \in R : ts = e[op.ts]
    BY <1>1 DEF EventTimes
  <1>4. DOMAIN f = R /\ \A e \in R : f[e] = e[op.ts]
    OBVIOUS
  <1> HIDE DEF T, R, f
  <1>5. T \subseteq {f[e] : e \in DOMAIN f}
    BY <1>3, <1>4
  <1>6. IsFiniteSet({f[e] : e \in DOMAIN f})
    BY <1>2, <1>4, FiniteImage
  <1>7. IsFiniteSet(T)
    BY <1>5, <1>6, FS_Subset
  <1>8. T \subseteq Int
    BY <1>2, <1>3
  <1> QED
    BY <1>7, <1>8 DEF T

\* Short sequences put together.
LEMMA Literals ==
    ASSUME NEW u, NEW v, NEW w, NEW z
    PROVE  <<u>> \o <<v>> = <<u, v>> /\ <<u, v>> \o <<w, z>> = <<u, v, w, z>>
  <1> DEFINE R == {u, v, w, z}
  <1>1. /\ <<u>> \in Seq(R) /\ <<v>> \in Seq(R) /\ <<u, v>> \in Seq(R) /\ <<w, z>> \in Seq(R)
        /\ <<u, v, w, z>> \in Seq(R)
    OBVIOUS
  <1>2. ASSUME NEW a \in Seq(R), NEW b \in Seq(R), Len(a) = Len(b), \A i \in 1..Len(a) : a[i] = b[i]
        PROVE  a = b
    <2> HIDE DEF R
    <2>1. a = [i \in 1..Len(a) |-> a[i]] /\ b = [i \in 1..Len(b) |-> b[i]]
      OBVIOUS
    <2> QED
      BY <1>2, <2>1
  <1>3. ASSUME NEW a \in Seq(R), NEW b \in Seq(R)
        PROVE  /\ a \o b \in Seq(R) /\ Len(a \o b) = Len(a) + Len(b)
               /\ \A i \in 1..Len(a) : (a \o b)[i] = a[i]
               /\ \A i \in 1..Len(b) : (a \o b)[Len(a) + i] = b[i]
    <2> HIDE DEF R
    <2> QED
      OBVIOUS
  <1>4. <<u>> \o <<v>> = <<u, v>>
    <2> DEFINE a == <<u>>
               b == <<v>>
               c == <<u, v>>
    <2>1. /\ a \in Seq(R) /\ Len(a) = 1 /\ a[1] = u /\ b \in Seq(R) /\ Len(b) = 1 /\ b[1] = v
          /\ c \in Seq(R) /\ Len(c) = 2 /\ c[1] = u /\ c[2] = v
      BY <1>1
    <2> HIDE DEF R, a, b, c
    <2>2. /\ a \o b \in Seq(R) /\ Len(a \o b) = 1 + 1
          /\ \A i \in 1..1 : (a \o b)[i] = a[i]
          /\ \A i \in 1..1 : (a \o b)[1 + i] = b[i]
      BY <1>3, <2>1
    <2>3. (a \o b)[1] = a[1] /\ (a \o b)[1 + 1] = b[1]
      BY <2>2
    <2>4. a \o b = c
      BY <1>2, <2>1, <2>2, <2>3
    <2> QED
      BY <2>4 DEF a, b, c
  <1>5. <<u, v>> \o <<w, z>> = <<u, v, w, z>>
    <2> DEFINE a == <<u, v>>
               b == <<w, z>>
               c == <<u, v, w, z>>
    <2>1. /\ a \in Seq(R) /\ Len(a) = 2 /\ a[1] = u /\ a[2] = v
          /\ b \in Seq(R) /\ Len(b) = 2 /\ b[1] = w /\ b[2] = z
          /\ c \in Seq(R) /\ Len(c) = 4 /\ c[1] = u /\ c[2] = v /\ c[3] = w /\ c[4] = z
      BY <1>1
    <2> HIDE DEF R, a, b, c
    <2>2. /\ a \o b \in Seq(R) /\ Len(a \o b) = 2 + 2
          /\ \A i \in 1..2 : (a \o b)[i] = a[i]
          /\ \A i \in 1..2 : (a \o b)[2 + i] = b[i]
      <3>1. a \in Seq(R) /\ b \in Seq(R)
        BY <2>1
      <3>2. /\ a \o b \in Seq(R) /\ Len(a \o b) = Len(a) + Len(b)
            /\ \A i \in 1..Len(a) : (a \o b)[i] = a[i]
            /\ \A i \in 1..Len(b) : (a \o b)[Len(a) + i] = b[i]
        BY <1>3, <3>1, Zenon
      <3> QED
        BY <2>1, <3>2
    <2>3. (a \o b)[1] = a[1] /\ (a \o b)[2] = a[2] /\ (a \o b)[2 + 1] = b[1] /\ (a \o b)[2 + 2] = b[2]
      BY <2>2
    <2>4. a \o b = c
      BY <1>2, <2>1, <2>2, <2>3
    <2> QED
      BY <2>4 DEF a, b, c
  <1> QED
    BY <1>4, <1>5

\* Two lists of one element, one after the other.
LEMMA Singles == ASSUME NEW u, NEW v PROVE <<u>> \o <<v>> = <<u, v>>
  BY Literals, Zenon

\* Two templates, with their parameters one after the other.
LEMMA BoundTwo ==
    ASSUME NEW x, NEW y, NEW N, NEW P, List(P), N[1] = Len(P), NEW Q, List(Q), N[2] = Len(Q)
    PROVE  Bound(<<x, y>>, N, P \o Q, {<<x, P>>, <<y, Q>>})
  <1> DEFINE M == [j \in {1} |-> Len(Q)]
             T == <<x>>
             U == <<y>>
  <1>1. M[1] = Len(Q)
    OBVIOUS
  <1>2. Bound(T, N, P, {<<x, P>>}) /\ Bound(U, M, Q, {<<y, Q>>})
    BY <1>1, BoundOne
  <1>3. Len(T) = 1 /\ DOMAIN T = 1..1 /\ DOMAIN U = 1..1 /\ T \o U = <<x, y>>
    <2>1. Len(T) = 1 /\ DOMAIN T = 1..1 /\ DOMAIN U = 1..1
      OBVIOUS
    <2> QED
      BY <2>1, Singles
  <1>4. \A j \in DOMAIN U : N[Len(T) + j] = M[j]
    BY <1>1, <1>3
  <1>5. {<<x, P>>} \cup {<<y, Q>>} = {<<x, P>>, <<y, Q>>}
    OBVIOUS
  <1> HIDE DEF M, T, U
  <1>6. Bound(T \o U, N, P \o Q, {<<x, P>>} \cup {<<y, Q>>})
    BY <1>2, <1>4, BoundConcat
  <1> QED
    BY <1>3, <1>5, <1>6

Counts(T) == [j \in DOMAIN T |-> T[j].n]

\* The names exist that a statement uses.
Present(db, X) == \A x \in X : x[1] \in Datasets /\ x[2] \in db.columns[x[1]]

\* The templates with their arguments hold for the rows that meet the op.
Means(B, op, p, db, t, now, rules) ==
    \A b : (\A y \in B : ConjHolds(y[1], y[2], b, db, now)) <=> Meets(op, p, b, Own(db, t), now, rules)

\* The greatest of a finite set of numbers is below a bound if all of it is.
LEMMA MaxBelow ==
    ASSUME NEW T \in SUBSET Int, IsFiniteSet(T), NEW k \in Int
    PROVE  (T # {} /\ Max(T) < k) <=> (\E ts \in T : ts < k) /\ ~\E ts \in T : ts >= k
  <1>1. CASE T = {}
    BY <1>1
  <1>2. CASE T # {}
    <2>1. PICK m \in T : \A x \in T : x <= m
      BY <1>2, Greatest
    <2>2. \E x \in T : \A y \in T : x >= y
      BY <2>1
    <2> DEFINE g == Max(T)
    <2>3. g \in T /\ \A y \in T : g >= y
      BY <2>2 DEF Max
    <2> HIDE DEF g
    <2>4. g < k <=> (\E ts \in T : ts < k) /\ ~\E ts \in T : ts >= k
      <3>1. g \in Int
        BY <2>3
      <3>2. ASSUME g < k PROVE (\E ts \in T : ts < k) /\ ~\E ts \in T : ts >= k
        BY <2>3, <3>1, <3>2
      <3>3. ASSUME ~(g < k) PROVE \E ts \in T : ts >= k
        BY <2>3, <3>1, <3>3
      <3> QED
        BY <3>2, <3>3
    <2> QED
      BY <1>2, <2>4 DEF g
  <1> QED
    BY <1>1, <1>2

\* What compile_recency and compile_lapsed push, bound, is true of the users the op means.
LEMMA EventMeans ==
    ASSUME NEW p, NEW op, SegmentOp(op), op.kind \in {"recency", "lapsed"}, op.days \in Nat, NEW t,
           compile_event(op, p.key, t).ok, NEW db, Database(db), op.event \in Datasets,
           op.ts \in db.columns[op.event], NEW now \in Int, NEW rules
    PROVE  \E B : /\ Bound(compile_event(op, p.key, t).tmpl, Counts(compile_event(op, p.key, t).tmpl),
                           compile_event(op, p.key, t).params, B)
                  /\ Means(B, op, p, db, t, now, rules)
  <1>0. PICK tm, ps : EventPred(op, tm, ps) /\ compile_event(op, p.key, t) = EventPiece(op, p.key, t, tm, ps)
    BY EventPredicate, Zenon
  <1>1. /\ List(ps) /\ tm.n = Len(ps)
        /\ \A r : RowHolds(tm, ps, r) <=> op.pred = NoPred \/ Satisfies(op.pred, r[op.pred.column])
    BY <1>0 DEF EventPred
  <1> DEFINE in == Exists(op, p.key, tm, FALSE, "within")
             pre == Exists(op, p.key, tm, FALSE, "before")
             no == Exists(op, p.key, tm, TRUE, "within")
             a == <<t>> \o ps
             x == compile_event(op, p.key, t)
             T(b) == EventTimes(op, Own(db, t), b[p.key])
  <1>2. List(a) /\ Len(a) = 1 + Len(ps) /\ Len(ps) \in Nat
    BY <1>1, TailCons, ListFacts
  <1>3. in.n = Len(a) /\ pre.n = Len(a) /\ no.n = Len(a)
    BY <1>1, <1>2 DEF Exists
  <1>4. /\ x.tmpl = IF op.kind = "recency" THEN <<in>> ELSE <<pre, no>>
        /\ x.params = IF op.kind = "recency" THEN a ELSE a \o a
    <2>1. x = EventPiece(op, p.key, t, tm, ps)
      BY <1>0
    <2> HIDE DEF x
    <2> QED
      BY <2>1 DEF EventPiece
  <1>5. \A b : /\ ConjHolds(in, a, b, db, now) <=> \E ts \in T(b) : ts >= now - op.days
               /\ ConjHolds(no, a, b, db, now) <=> ~\E ts \in T(b) : ts >= now - op.days
               /\ ConjHolds(pre, a, b, db, now) <=> \E ts \in T(b) : ts < now - op.days
    <2> SUFFICES ASSUME NEW b
                 PROVE  /\ ConjHolds(in, a, b, db, now) <=> \E ts \in T(b) : ts >= now - op.days
                        /\ ConjHolds(no, a, b, db, now) <=> ~\E ts \in T(b) : ts >= now - op.days
                        /\ ConjHolds(pre, a, b, db, now) <=> \E ts \in T(b) : ts < now - op.days
      OBVIOUS
    <2> DEFINE user == b[p.key]
               own == Own(db, t)
    <2>1. \A side : /\ ConjHolds(Exists(op, p.key, tm, FALSE, side), a, b, db, now) <=> SomeEvent(op, own, user, side, now)
                    /\ ConjHolds(Exists(op, p.key, tm, TRUE, side), a, b, db, now) <=> ~SomeEvent(op, own, user, side, now)
      BY <1>0, ExistsHolds
    <2>2. /\ ConjHolds(in, a, b, db, now) <=> SomeEvent(op, own, user, "within", now)
          /\ ConjHolds(no, a, b, db, now) <=> ~SomeEvent(op, own, user, "within", now)
          /\ ConjHolds(pre, a, b, db, now) <=> SomeEvent(op, own, user, "before", now)
      BY <2>1
    <2>4. \A side : SomeEvent(op, own, user, side, now) <=> \E ts \in T(b) : Side(side, ts, op.days, now)
      BY DEF SomeEvent
    <2>3. \A ts : (Side("within", ts, op.days, now) <=> ts >= now - op.days)
                  /\ (Side("before", ts, op.days, now) <=> ts < now - op.days)
      BY DEF Side
    <2> HIDE DEF in, pre, no, a, T, own, user
    <2> QED
      BY <2>2, <2>3, <2>4
  <1>6. \A b : IsFiniteSet(T(b)) /\ T(b) \subseteq Int
    BY TimesFinite
  <1>7. \A b : op.kind = "recency" =>
          (Meets(op, p, b, Own(db, t), now, rules) <=> \E ts \in T(b) : ts >= now - op.days)
    BY DEF Meets
  <1>8. \A b : op.kind = "lapsed" =>
          (Meets(op, p, b, Own(db, t), now, rules) <=> T(b) # {} /\ Max(T(b)) < now - op.days)
    BY DEF Meets
  <1> HIDE DEF in, pre, no, a, x, T
  <1>9. CASE op.kind = "recency"
    <2> DEFINE B == {<<in, a>>}
    <2>1. x.tmpl = <<in>> /\ x.params = a
      BY <1>4, <1>9
    <2>2. Counts(<<in>>)[1] = Len(a)
      BY <1>3 DEF Counts
    <2>3. Bound(x.tmpl, Counts(x.tmpl), x.params, B)
      BY <1>2, <2>1, <2>2, BoundOne
    <2>4. \A y \in B : y[1] = in /\ y[2] = a
      OBVIOUS
    <2>5. Means(B, op, p, db, t, now, rules)
      BY <1>5, <1>7, <1>9, <2>4 DEF Means
    <2> QED
      BY <2>3, <2>5 DEF x
  <1>10. CASE op.kind = "lapsed"
    <2> DEFINE B == {<<pre, a>>, <<no, a>>}
    <2>1. x.tmpl = <<pre, no>> /\ x.params = a \o a
      BY <1>4, <1>10
    <2>2. Counts(<<pre, no>>)[1] = Len(a) /\ Counts(<<pre, no>>)[2] = Len(a)
      BY <1>3 DEF Counts
    <2>3. Bound(x.tmpl, Counts(x.tmpl), x.params, B)
      BY <1>2, <2>1, <2>2, BoundTwo
    <2>4. \A b : (\A y \in B : ConjHolds(y[1], y[2], b, db, now))
                   <=> ConjHolds(pre, a, b, db, now) /\ ConjHolds(no, a, b, db, now)
      OBVIOUS
    <2>5. \A b : Meets(op, p, b, Own(db, t), now, rules)
                   <=> (\E ts \in T(b) : ts < now - op.days) /\ ~\E ts \in T(b) : ts >= now - op.days
      <3> SUFFICES ASSUME NEW b
                   PROVE  Meets(op, p, b, Own(db, t), now, rules)
                            <=> (\E ts \in T(b) : ts < now - op.days) /\ ~\E ts \in T(b) : ts >= now - op.days
        OBVIOUS
      <3> DEFINE S == T(b)
                 k == now - op.days
      <3>1. S \in SUBSET Int /\ IsFiniteSet(S) /\ k \in Int
        BY <1>6
      <3> HIDE DEF S, k
      <3>2. (S # {} /\ Max(S) < k) <=> (\E ts \in S : ts < k) /\ ~\E ts \in S : ts >= k
        BY <3>1, MaxBelow
      <3> QED
        BY <1>8, <1>10, <3>2 DEF S, k
    <2> HIDE DEF B
    <2>6. Means(B, op, p, db, t, now, rules)
      BY <1>5, <2>4, <2>5 DEF Means
    <2> QED
      BY <2>3, <2>6 DEF x
  <1> QED
    BY <1>9, <1>10

\* What compile_predicate pushes for a filter, bound, is true of the users the op means.
LEMMA FilterMeans ==
    ASSUME NEW p, NEW op, SegmentOp(op), op.kind = "filter", NEW t, compile_predicate(op.pred).ok, NEW db, NEW now, NEW rules
    PROVE  \E B : /\ Bound(compile_predicate(op.pred).tmpl, Counts(compile_predicate(op.pred).tmpl),
                           compile_predicate(op.pred).params, B)
                  /\ Means(B, op, p, db, t, now, rules)
  <1> DEFINE x == compile_predicate(op.pred)
  <1>1. Predicate(op.pred)
    BY DEF SegmentOp
  <1>2. PICK tm, ps : /\ x = Piece(<<tm>>, ps) /\ List(ps) /\ tm.n = Len(ps)
                      /\ tm.t \in {"const", "cmp", "in"} /\ (tm.t # "const" => tm.column = op.pred.column)
                      /\ \A r : RowHolds(tm, ps, r) <=> Satisfies(op.pred, r[op.pred.column])
    BY <1>1, PredicateCompiled
  <1> HIDE DEF x
  <1> DEFINE B == {<<tm, ps>>}
  <1>3. x.tmpl = <<tm>> /\ x.params = ps
    BY <1>2 DEF Piece
  <1>4. Counts(<<tm>>)[1] = Len(ps)
    BY <1>2 DEF Counts
  <1>5. Bound(x.tmpl, Counts(x.tmpl), x.params, B)
    BY <1>2, <1>3, <1>4, BoundOne
  <1>6. \A b : ConjHolds(tm, ps, b, db, now) <=> Satisfies(op.pred, b[op.pred.column])
    BY <1>2 DEF ConjHolds
  <1>7. \A b : Meets(op, p, b, Own(db, t), now, rules) <=> Satisfies(op.pred, b[op.pred.column])
    BY DEF Meets
  <1>8. \A y \in B : y[1] = tm /\ y[2] = ps
    OBVIOUS
  <1>9. Means(B, op, p, db, t, now, rules)
    BY <1>6, <1>7, <1>8 DEF Means
  <1> QED
    BY <1>5, <1>9 DEF x

\* What compile_feature pushes, bound (wide view or point in time), is true of the users the op means.
LEMMA FeatureMeans ==
    ASSUME NEW p, p.as_of \in Int \cup {Null}, NEW op, op.kind = "feature", NEW t,
           compile_feature(op, p.key, p.as_of, t).ok, NEW db, Database(db), NEW now, NEW rules
    PROVE  \E B : /\ Bound(compile_feature(op, p.key, p.as_of, t).tmpl,
                           Counts(compile_feature(op, p.key, p.as_of, t).tmpl),
                           compile_feature(op, p.key, p.as_of, t).params, B)
                  /\ Means(B, op, p, db, t, now, rules)
  <1> DEFINE x == compile_feature(op, p.key, p.as_of, t)
             F(b) == Known(Own(db, t), b[p.key], op.name, p.as_of)
  <1>1. op.cmp \in Comparison
    BY DEF compile_feature, Failed
  <1>2. \A b : Meets(op, p, b, Own(db, t), now, rules) <=> F(b) # {} /\ Compare(ArgMax(F(b)), op.cmp, op.value)
    BY DEF Meets
  <1>3. \A b : F(b) = {f \in db.features : /\ f.tenant_id = t /\ f.user_id = b[p.key] /\ f.feature_name = op.name
                                           /\ (p.as_of = Null \/ f.as_of_ts <= p.as_of)}
    BY OwnFacts DEF Known
  <1> DEFINE ps == IF p.as_of = Null THEN <<t, op.value>> ELSE <<t, op.name, p.as_of, op.value>>
             tm == IF p.as_of = Null THEN [t |-> "wide", name |-> op.name, cmp |-> op.cmp, key |-> p.key, n |-> 2]
                   ELSE [t |-> "pit", cmp |-> op.cmp, key |-> p.key, n |-> 4]
             B == {<<tm, ps>>}
  <1>4. x = Piece(<<tm>>, ps)
    BY <1>1 DEF compile_feature
  <1>5. x.tmpl = <<tm>> /\ x.params = ps
    <2> HIDE DEF x, tm, ps
    <2> QED
      BY <1>4 DEF Piece
  <1>6. List(ps) /\ tm.n = Len(ps)
    <2>1. CASE p.as_of = Null
      <3>1. <<t, op.value>> \in Seq({t, op.value})
        OBVIOUS
      <3> QED
        BY <2>1, <3>1, IsList
    <2>2. CASE p.as_of # Null
      <3>1. <<t, op.name, p.as_of, op.value>> \in Seq({t, op.name, p.as_of, op.value})
        OBVIOUS
      <3> QED
        BY <2>2, <3>1, IsList
    <2> QED
      BY <2>1, <2>2
  <1>7. ASSUME NEW b PROVE ConjHolds(tm, ps, b, db, now) <=> F(b) # {} /\ Compare(ArgMax(F(b)), op.cmp, op.value)
    <2>1. CASE p.as_of = Null
      <3> DEFINE S == {f \in db.features : /\ f.user_id = b[p.key] /\ f.tenant_id = t /\ f.feature_name = op.name}
      <3>1. ConjHolds(tm, ps, b, db, now) <=> S # {} /\ Compare(ArgMax(S), op.cmp, op.value)
        BY <2>1 DEF ConjHolds
      <3>2. S = F(b)
        BY <1>3, <2>1
      <3> HIDE DEF S, F
      <3> QED
        BY <3>1, <3>2
    <2>2. CASE p.as_of # Null
      <3> DEFINE S == {f \in db.features : /\ f.user_id = b[p.key] /\ f.tenant_id = t
                                           /\ f.feature_name = op.name
                                           /\ Compare(f.as_of_ts, "le", p.as_of)}
      <3>1. ConjHolds(tm, ps, b, db, now) <=> S # {} /\ Compare(ArgMax(S), op.cmp, op.value)
        BY <2>2 DEF ConjHolds
      <3>2. \A f \in db.features : Compare(f.as_of_ts, "le", p.as_of) <=> f.as_of_ts <= p.as_of
        BY <2>2 DEF Compare, Database
      <3>3. S = F(b)
        BY <1>3, <2>2, <3>2
      <3> HIDE DEF S, F
      <3> QED
        BY <3>1, <3>3
    <2> QED
      BY <2>1, <2>2
  <1> HIDE DEF x, tm, ps, F
  <1>8. Counts(<<tm>>)[1] = Len(ps)
    BY <1>6 DEF Counts
  <1>9. Bound(x.tmpl, Counts(x.tmpl), x.params, B)
    BY <1>5, <1>6, <1>8, BoundOne
  <1>10. \A y \in B : y[1] = tm /\ y[2] = ps
    OBVIOUS
  <1>11. Means(B, op, p, db, t, now, rules)
    BY <1>2, <1>7, <1>10 DEF Means
  <1> QED
    BY <1>9, <1>11 DEF x

RulesOK(rules) == rules.no_repeat \in BOOLEAN /\ rules.max \in Nat /\ rules.days \in Nat

\* What compile_exclude pushes for the configured rules, bound, is true of the users the op means.
LEMMA ExcludeMeans ==
    ASSUME NEW p, NEW op, op.kind = "exclude", NEW t, NEW db, Database(db), NEW now, NEW rules, RulesOK(rules)
    PROVE  \E B : /\ Bound(compile_exclude(op, p.key, t, rules).tmpl,
                           Counts(compile_exclude(op, p.key, t, rules).tmpl),
                           compile_exclude(op, p.key, t, rules).params, B)
                  /\ Means(B, op, p, db, t, now, rules)
  <1> DEFINE x == compile_exclude(op, p.key, t, rules)
             r == [t |-> "norepeat", key |-> p.key, n |-> 2]
             c == [t |-> "cap", key |-> p.key, days |-> rules.days, n |-> 2]
             P == <<t, op.campaign>>
             Q == <<t, rules.max>>
             R(b) == \A s \in Contacts(Own(db, t), b[p.key], {"targeted", "delivered"}) : s.campaign_id # op.campaign
             K(b) == Cardinality({s \in Contacts(Own(db, t), b[p.key], {"targeted"}) :
                                    s.occurred_ts >= now - rules.days}) < rules.max
             M(b) == Meets(op, p, b, Own(db, t), now, rules)
  <1>1. \A b : M(b) <=> (rules.no_repeat => R(b)) /\ (rules.max > 0 => K(b))
    BY DEF Meets
  <1>2. /\ x.tmpl = CASE rules.no_repeat /\ rules.max > 0 -> <<r>> \o <<c>>
                      [] rules.no_repeat /\ rules.max = 0 -> <<r>>
                      [] ~rules.no_repeat /\ rules.max > 0 -> <<c>>
                      [] OTHER -> <<Const(TRUE)>>
        /\ x.params = CASE rules.no_repeat /\ rules.max > 0 -> <<t, op.campaign, t, rules.max>>
                        [] rules.no_repeat /\ rules.max = 0 -> P
                        [] ~rules.no_repeat /\ rules.max > 0 -> Q
                        [] OTHER -> <<>>
    BY DEF compile_exclude, Piece
  <1>3. List(P) /\ Len(P) = 2 /\ P[1] = t /\ P[2] = op.campaign /\ List(Q) /\ Len(Q) = 2 /\ Q[1] = t /\ Q[2] = rules.max
    <2>1. <<t, op.campaign>> \in Seq({t, op.campaign}) /\ <<t, rules.max>> \in Seq({t, rules.max})
      OBVIOUS
    <2> QED
      BY <2>1, IsList
  <1>4. ASSUME NEW b PROVE ConjHolds(r, P, b, db, now) <=> R(b)
    BY OwnFacts DEF ConjHolds, Contacts
  <1>5. ASSUME NEW b, rules.max > 0 PROVE ConjHolds(c, Q, b, db, now) <=> K(b)
    <2> DEFINE S == {s \in db.suppression : /\ s.user_id = b[p.key] /\ s.tenant_id = t
                                            /\ s.action = "targeted"
                                            /\ s.occurred_ts >= now - rules.days}
               U == {s \in Contacts(Own(db, t), b[p.key], {"targeted"}) : s.occurred_ts >= now - rules.days}
    <2>1. S = U
      BY OwnFacts DEF Contacts
    <2>2. ConjHolds(c, Q, b, db, now) <=> S = {} \/ ~Compare(Cardinality(S), "ge", rules.max)
      BY DEF ConjHolds
    <2>3. IsFiniteSet(db.suppression)
      BY DEF Database
    <2>4. S \subseteq db.suppression
      OBVIOUS
    <2>5. K(b) <=> Cardinality(U) < rules.max
      OBVIOUS
    <2> HIDE DEF S, U, c, Q, K
    <2>6. IsFiniteSet(S)
      BY <2>3, <2>4, FS_Subset
    <2>7. Cardinality(S) \in Nat /\ (S = {} <=> Cardinality(S) = 0)
      BY <2>6, FS_CardinalityType, FS_EmptySet
    <2> QED
      BY <1>5, <2>1, <2>2, <2>5, <2>7 DEF Compare, RulesOK
  <1>6. r.n = 2 /\ c.n = 2
    OBVIOUS
  <1>11. <<t, op.campaign, t, rules.max>> = P \o Q /\ <<r>> \o <<c>> = <<r, c>>
    <2> HIDE DEF r, c
    <2> QED
      BY Singles, Literals
  <1> HIDE DEF x, r, c, P, Q, R, K, M
  <1>12. SUFFICES \E B : /\ Bound(x.tmpl, Counts(x.tmpl), x.params, B)
                         /\ \A b : (\A y \in B : ConjHolds(y[1], y[2], b, db, now)) <=> M(b)
    BY DEF x, M, Means
  <1>7. CASE rules.no_repeat /\ rules.max > 0
    <2> DEFINE B == {<<r, P>>, <<c, Q>>}
    <2>1. x.tmpl = <<r, c>> /\ x.params = P \o Q
      BY <1>2, <1>7, <1>11
    <2>2. Counts(<<r, c>>)[1] = Len(P) /\ Counts(<<r, c>>)[2] = Len(Q)
      BY <1>3, <1>6 DEF Counts
    <2>6. Bound(<<r, c>>, Counts(<<r, c>>), P \o Q, B)
      BY <1>3, <2>2, BoundTwo
    <2>3. Bound(x.tmpl, Counts(x.tmpl), x.params, B)
      BY <2>1, <2>6
    <2>4. \A b : (\A y \in B : ConjHolds(y[1], y[2], b, db, now))
                   <=> ConjHolds(r, P, b, db, now) /\ ConjHolds(c, Q, b, db, now)
      OBVIOUS
    <2> HIDE DEF B
    <2>5. \A b : (\A y \in B : ConjHolds(y[1], y[2], b, db, now)) <=> M(b)
      BY <1>1, <1>4, <1>5, <1>7, <2>4
    <2> QED
      BY <2>3, <2>5
  <1>8. CASE rules.no_repeat /\ rules.max = 0
    <2> DEFINE B == {<<r, P>>}
    <2>1. x.tmpl = <<r>> /\ x.params = P
      BY <1>2, <1>8
    <2>2. Counts(<<r>>)[1] = Len(P)
      BY <1>3, <1>6 DEF Counts
    <2>3. Bound(x.tmpl, Counts(x.tmpl), x.params, B)
      BY <1>3, <2>1, <2>2, BoundOne
    <2>4. \A b : (\A y \in B : ConjHolds(y[1], y[2], b, db, now)) <=> ConjHolds(r, P, b, db, now)
      OBVIOUS
    <2> HIDE DEF B
    <2>5. \A b : (\A y \in B : ConjHolds(y[1], y[2], b, db, now)) <=> M(b)
      BY <1>1, <1>4, <1>8, <2>4
    <2> QED
      BY <2>3, <2>5
  <1>9. CASE ~rules.no_repeat /\ rules.max > 0
    <2> DEFINE B == {<<c, Q>>}
    <2>1. x.tmpl = <<c>> /\ x.params = Q
      BY <1>2, <1>9
    <2>2. Counts(<<c>>)[1] = Len(Q)
      BY <1>3, <1>6 DEF Counts
    <2>3. Bound(x.tmpl, Counts(x.tmpl), x.params, B)
      BY <1>3, <2>1, <2>2, BoundOne
    <2>4. \A b : (\A y \in B : ConjHolds(y[1], y[2], b, db, now)) <=> ConjHolds(c, Q, b, db, now)
      OBVIOUS
    <2> HIDE DEF B
    <2>5. \A b : (\A y \in B : ConjHolds(y[1], y[2], b, db, now)) <=> M(b)
      BY <1>1, <1>5, <1>9, <2>4
    <2> QED
      BY <2>3, <2>5
  <1>10. CASE ~rules.no_repeat /\ rules.max = 0
    <2> DEFINE B == {<<Const(TRUE), <<>>>>}
    <2>1. x.tmpl = <<Const(TRUE)>> /\ x.params = <<>>
      <3>1. ~(rules.max > 0)
        BY <1>10
      <3> QED
        BY <1>2, <1>10, <3>1, Zenon
    <2>2. <<>> \in Seq({}) /\ Len(<<>>) = 0
      OBVIOUS
    <2>3. List(<<>>)
      BY <2>2, IsList
    <2>4. Counts(<<Const(TRUE)>>)[1] = Len(<<>>)
      BY <2>2 DEF Counts, Const
    <2>5. Bound(x.tmpl, Counts(x.tmpl), x.params, B)
      BY <2>1, <2>3, <2>4, BoundOne
    <2>6. \A b : ConjHolds(Const(TRUE), <<>>, b, db, now)
      BY DEF ConjHolds, RowHolds, Const
    <2>8. \A b : \A y \in B : ConjHolds(y[1], y[2], b, db, now)
      <3> DEFINE k == Const(TRUE)
                 e == <<>>
      <3> HIDE DEF k, e
      <3>1. \A y \in {<<k, e>>} : y[1] = k /\ y[2] = e
        OBVIOUS
      <3>2. B = {<<k, e>>}
        BY DEF k, e
      <3>3. \A b : ConjHolds(k, e, b, db, now)
        BY <2>6 DEF k, e
      <3> HIDE DEF B
      <3> QED
        BY <3>1, <3>2, <3>3
    <2>9. \A b : M(b)
      BY <1>1, <1>10
    <2>7. \A b : (\A y \in B : ConjHolds(y[1], y[2], b, db, now)) <=> M(b)
      BY <2>8, <2>9
    <2> QED
      BY <2>5, <2>7
  <1> QED
    BY <1>7, <1>8, <1>9, <1>10 DEF RulesOK

\* Lists of no, one and two elements.
LEMMA ElementsShort ==
    /\ List(<<>>) /\ Elements(<<>>) = {}
    /\ \A u : List(<<u>>) /\ Elements(<<u>>) = {u} /\ Len(<<u>>) = 1
    /\ \A u, v : List(<<u, v>>) /\ Elements(<<u, v>>) = {u, v}
  <1>1. <<>> \in Seq({}) /\ DOMAIN <<>> = {}
    OBVIOUS
  <1>2. ASSUME NEW u PROVE List(<<u>>) /\ Elements(<<u>>) = {u} /\ Len(<<u>>) = 1
    <2> DEFINE s == <<u>>
    <2>1. s \in Seq({u}) /\ DOMAIN s = 1..1 /\ s[1] = u /\ Len(s) = 1
      OBVIOUS
    <2> HIDE DEF s
    <2>2. \A i : i \in DOMAIN s <=> i = 1
      BY <2>1
    <2>3. Elements(s) = {u}
      BY <2>1, <2>2 DEF Elements
    <2> QED
      BY <2>1, <2>3, IsList DEF s
  <1>3. ASSUME NEW u, NEW v PROVE List(<<u, v>>) /\ Elements(<<u, v>>) = {u, v}
    <2> DEFINE s == <<u, v>>
    <2>1. s \in Seq({u, v}) /\ DOMAIN s = 1..2 /\ s[1] = u /\ s[2] = v
      OBVIOUS
    <2> HIDE DEF s
    <2>2. \A i : i \in DOMAIN s <=> i = 1 \/ i = 2
      BY <2>1
    <2>3. Elements(s) = {u, v}
      BY <2>1, <2>2 DEF Elements
    <2> QED
      BY <2>1, <2>3, IsList DEF s
  <1> QED
    BY <1>1, <1>2, <1>3, IsList DEF Elements

\* What the piece x of an op names, and that the op's names are in it.
Names(p, op, x) ==
    /\ \A tm \in Elements(x.tmpl) : TmplColumns(p.source, tm) \subseteq OpColumns(p, op) \cup {<<p.source, p.key>>}
    /\ \A tm \in Elements(x.tmpl) : tm.t = "wide" => op.kind = "feature" /\ tm.name = op.name
    /\ op.kind \in {"recency", "lapsed"} =>
         /\ op.event \in Elements(x.sources)
         /\ \E tm \in Elements(x.tmpl) : <<op.event, op.ts>> \in TmplColumns(p.source, tm)

\* A failed piece has the shape of a piece.
LEMMA FailedOK == PieceOK(Failed) /\ ~Failed.ok
  BY ElementsShort DEF PieceOK, Failed

\* A compiled filter names only columns the op refers to.
LEMMA PredicateNames ==
    ASSUME NEW p, NEW op, SegmentOp(op), op.kind = "filter"
    PROVE  LET x == compile_predicate(op.pred) IN PieceOK(x) /\ (x.ok => Names(p, op, x))
  <1> DEFINE x == compile_predicate(op.pred)
  <1>1. Predicate(op.pred)
    BY DEF SegmentOp
  <1>2. CASE x.ok
    <2>1. PICK tm, ps : /\ x = Piece(<<tm>>, ps) /\ List(ps) /\ tm.n = Len(ps)
                        /\ tm.t \in {"const", "cmp", "in"} /\ (tm.t # "const" => tm.column = op.pred.column)
      BY <1>1, <1>2, PredicateCompiled
    <2> HIDE DEF x
    <2>2. x.ok /\ x.tmpl = <<tm>> /\ x.params = ps /\ x.sources = <<>>
      BY <2>1 DEF Piece
    <2>3. Elements(x.tmpl) = {tm}
      BY <2>2, ElementsShort
    <2>4. PieceOK(x)
      BY <2>1, <2>2, ElementsShort DEF PieceOK
    <2>5. TmplColumns(p.source, tm) \subseteq {<<p.source, op.pred.column>>}
      BY <2>1 DEF TmplColumns
    <2>6. OpColumns(p, op) = {<<p.source, op.pred.column>>}
      BY DEF OpColumns
    <2>7. Names(p, op, x)
      BY <2>1, <2>3, <2>5, <2>6 DEF Names
    <2> QED
      BY <2>4, <2>7 DEF x
  <1>3. CASE ~x.ok
    <2>1. x = Failed
      BY <1>3 DEF compile_predicate, Piece
    <2> HIDE DEF x
    <2> QED
      BY <1>3, <2>1, FailedOK DEF x
  <1> QED
    BY <1>2, <1>3

\* A compiled recency or lapsed names only the table and columns the op refers to.
LEMMA EventNames ==
    ASSUME NEW p, NEW op, SegmentOp(op), op.kind \in {"recency", "lapsed"}, NEW t
    PROVE  LET x == compile_event(op, p.key, t) IN PieceOK(x) /\ (x.ok => Names(p, op, x))
  <1> DEFINE x == compile_event(op, p.key, t)
  <1>2. CASE x.ok
    <2>1. PICK tm, ps : EventPred(op, tm, ps) /\ x = EventPiece(op, p.key, t, tm, ps)
      BY <1>2, EventPredicate, Zenon
    <2> HIDE DEF x
    <2> DEFINE in == Exists(op, p.key, tm, FALSE, "within")
               pre == Exists(op, p.key, tm, FALSE, "before")
               no == Exists(op, p.key, tm, TRUE, "within")
               a == <<t>> \o ps
    <2>2. /\ x.ok = TRUE /\ x.tmpl = IF op.kind = "recency" THEN <<in>> ELSE <<pre, no>>
          /\ x.params = (IF op.kind = "recency" THEN a ELSE a \o a) /\ x.sources = <<op.event>>
      BY <2>1 DEF EventPiece
    <2>3. List(a) /\ List(a \o a)
      BY <2>1, TailCons, ConcatList DEF EventPred
    <2>4. \A y \in {in, pre, no} : /\ y.t = "exists" /\ y.event = op.event /\ y.user_key = op.user_key
                                   /\ y.ts = op.ts /\ y.key = p.key /\ y.pred = tm
      BY DEF Exists
    <2> HIDE DEF in, pre, no, a
    <2>5. PieceOK(x)
      <3>1. List(<<in>>) /\ List(<<pre, no>>) /\ List(<<op.event>>)
        BY ElementsShort
      <3> QED
        BY <2>2, <2>3, <3>1 DEF PieceOK
    <2>6. Elements(x.tmpl) \subseteq {in, pre, no} /\ \E y : y \in Elements(x.tmpl)
      BY <2>2, ElementsShort
    <2>7. op.event \in Elements(x.sources)
      BY <2>2, ElementsShort
    <2>8. ASSUME NEW y \in {in, pre, no}
          PROVE  TmplColumns(p.source, y) =
                   {<<op.event, op.user_key>>, <<op.event, op.ts>>, <<p.source, p.key>>}
                     \cup (IF tm.t = "const" THEN {} ELSE {<<op.event, tm.column>>})
      BY <2>4 DEF TmplColumns
    <2>9. OpColumns(p, op) = {<<op.event, c>> : c \in {op.user_key, op.ts}
                                \cup (IF op.pred = NoPred THEN {} ELSE {op.pred.column})}
      BY DEF OpColumns
    <2>10. tm.t # "const" => op.pred # NoPred /\ tm.column = op.pred.column
      BY <2>1 DEF EventPred
    <2>11. \A y \in {in, pre, no} : /\ TmplColumns(p.source, y) \subseteq OpColumns(p, op) \cup {<<p.source, p.key>>}
                                    /\ <<op.event, op.ts>> \in TmplColumns(p.source, y)
                                    /\ y.t # "wide"
      BY <2>4, <2>8, <2>9, <2>10
    <2>12. Names(p, op, x)
      BY <2>6, <2>7, <2>11 DEF Names
    <2> QED
      BY <2>5, <2>12 DEF x
  <1>3. CASE ~x.ok
    <2>1. x = Failed
      BY <1>3 DEF compile_event, Piece
    <2> HIDE DEF x
    <2> QED
      BY <1>3, <2>1, FailedOK DEF x
  <1> QED
    BY <1>2, <1>3

\* A compiled feature names only the feature the op refers to.
LEMMA FeatureNames ==
    ASSUME NEW p, NEW op, op.kind = "feature", NEW t
    PROVE  LET x == compile_feature(op, p.key, p.as_of, t) IN PieceOK(x) /\ (x.ok => Names(p, op, x))
  <1> DEFINE x == compile_feature(op, p.key, p.as_of, t)
             wide == [t |-> "wide", name |-> op.name, cmp |-> op.cmp, key |-> p.key, n |-> 2]
             pit == [t |-> "pit", cmp |-> op.cmp, key |-> p.key, n |-> 4]
             four == <<t, op.name, p.as_of, op.value>>
  <1>1. CASE op.cmp \notin Comparison
    <2>1. x = Failed
      BY <1>1 DEF compile_feature
    <2> HIDE DEF x
    <2> QED
      BY <2>1, FailedOK DEF x
  <1>2. CASE op.cmp \in Comparison
    <2>1. x = IF p.as_of = Null THEN Piece(<<wide>>, <<t, op.value>>) ELSE Piece(<<pit>>, four)
      BY <1>2 DEF compile_feature
    <2>2. List(four)
      <3>1. four \in Seq({t, op.name, p.as_of, op.value})
        OBVIOUS
      <3> QED
        BY <3>1, IsList
    <2>3. /\ TmplColumns(p.source, wide) = {<<p.source, p.key>>} /\ wide.name = op.name
          /\ TmplColumns(p.source, pit) = {<<p.source, p.key>>} /\ pit.t # "wide"
      BY DEF TmplColumns
    <2> HIDE DEF x, wide, pit, four
    <2>4. /\ x.ok = TRUE /\ x.sources = <<>> /\ x.tmpl \in {<<wide>>, <<pit>>} /\ x.params \in {<<t, op.value>>, four}
      BY <2>1 DEF Piece
    <2>5. PieceOK(x)
      <3>1. List(<<wide>>) /\ List(<<pit>>) /\ List(<<t, op.value>>) /\ List(<<>>)
        BY ElementsShort
      <3> QED
        BY <2>2, <2>4, <3>1 DEF PieceOK
    <2>6. Elements(x.tmpl) \subseteq {wide, pit}
      BY <2>4, ElementsShort
    <2>7. Names(p, op, x)
      BY <2>3, <2>6 DEF Names
    <2> QED
      BY <2>5, <2>7 DEF x
  <1> QED
    BY <1>1, <1>2

\* A compiled exclude names none of the tenant's tables or features.
LEMMA ExcludeNames ==
    ASSUME NEW p, NEW op, op.kind = "exclude", NEW t, NEW rules
    PROVE  LET x == compile_exclude(op, p.key, t, rules) IN PieceOK(x) /\ x.ok /\ Names(p, op, x)
  <1> DEFINE x == compile_exclude(op, p.key, t, rules)
             r == [t |-> "norepeat", key |-> p.key, n |-> 2]
             c == [t |-> "cap", key |-> p.key, days |-> rules.days, n |-> 2]
             k == Const(TRUE)
             four == <<t, op.campaign, t, rules.max>>
  <1>1. x \in {Piece(<<r>> \o <<c>>, four), Piece(<<r>>, <<t, op.campaign>>), Piece(<<c>>, <<t, rules.max>>),
               Piece(<<k>>, <<>>)}
    BY DEF compile_exclude
  <1>2. List(four)
    <2>1. four \in Seq({t, op.campaign, t, rules.max})
      OBVIOUS
    <2> QED
      BY <2>1, IsList
  <1>3. \A y \in {r, c, k} : TmplColumns(p.source, y) \subseteq {<<p.source, p.key>>} /\ y.t # "wide"
    BY DEF TmplColumns, Const
  <1> HIDE DEF x, r, c, k, four
  <1>4. <<r>> \o <<c>> = <<r, c>>
    BY Singles
  <1>5. /\ x.ok = TRUE /\ x.sources = <<>> /\ x.tmpl \in {<<r, c>>, <<r>>, <<c>>, <<k>>}
        /\ x.params \in {four, <<t, op.campaign>>, <<t, rules.max>>, <<>>}
    <2>1. \A T, P : /\ Piece(T, P).ok = TRUE /\ Piece(T, P).sources = <<>>
                    /\ Piece(T, P).tmpl = T /\ Piece(T, P).params = P
      BY DEF Piece
    <2>2. \E T \in {<<r, c>>, <<r>>, <<c>>, <<k>>}, P \in {four, <<t, op.campaign>>, <<t, rules.max>>, <<>>} :
            x = Piece(T, P)
      BY <1>1, <1>4
    <2>3. PICK T \in {<<r, c>>, <<r>>, <<c>>, <<k>>}, P \in {four, <<t, op.campaign>>, <<t, rules.max>>, <<>>} :
            x = Piece(T, P)
      BY <2>2
    <2>4. x.ok = TRUE /\ x.sources = <<>> /\ x.tmpl = T /\ x.params = P
      BY <2>1, <2>3
    <2> QED
      BY <2>4
  <1>6. PieceOK(x)
    <2>1. /\ List(<<r, c>>) /\ List(<<r>>) /\ List(<<c>>) /\ List(<<k>>)
          /\ List(<<t, op.campaign>>) /\ List(<<t, rules.max>>) /\ List(<<>>)
      BY ElementsShort
    <2>2. List(x.tmpl)
      BY <1>5, <2>1
    <2>3. List(x.params)
      BY <1>2, <1>5, <2>1
    <2> QED
      BY <1>5, <2>1, <2>2, <2>3 DEF PieceOK
  <1>7. Elements(x.tmpl) \subseteq {r, c, k}
    BY <1>5, ElementsShort
  <1>8. Names(p, op, x)
    BY <1>3, <1>7 DEF Names
  <1> QED
    BY <1>5, <1>6, <1>8 DEF x

\* compile_op names what the op refers to.
LEMMA OpNames ==
    ASSUME NEW p, NEW op, SegmentOp(op), NEW t, NEW rules
    PROVE  LET x == compile_op(p, op, t, rules)
           IN  PieceOK(x) /\ (x.ok => op.kind \in Narrowing /\ Names(p, op, x))
  <1> DEFINE x == compile_op(p, op, t, rules)
  <1>1. CASE op.kind = "filter"
    <2>1. x = compile_predicate(op.pred)
      BY <1>1 DEF compile_op
    <2> QED
      BY <1>1, <2>1, PredicateNames DEF Narrowing
  <1>2. CASE op.kind \in {"recency", "lapsed"}
    <2>1. x = compile_event(op, p.key, t)
      BY <1>2 DEF compile_op
    <2> QED
      BY <1>2, <2>1, EventNames DEF Narrowing
  <1>3. CASE op.kind = "feature"
    <2>1. x = compile_feature(op, p.key, p.as_of, t)
      BY <1>3 DEF compile_op
    <2> QED
      BY <1>3, <2>1, FeatureNames DEF Narrowing
  <1>4. CASE op.kind = "exclude"
    <2>1. x = compile_exclude(op, p.key, t, rules)
      BY <1>4 DEF compile_op
    <2> QED
      BY <1>4, <2>1, ExcludeNames DEF Narrowing
  <1>5. CASE op.kind \notin Narrowing
    <2>1. x = Failed
      BY <1>5 DEF compile_op, Narrowing
    <2> QED
      BY <2>1, FailedOK
  <1> QED
    BY <1>1, <1>2, <1>3, <1>4, <1>5 DEF Narrowing

\* compile_op: the templates of an op with their arguments mean what the op means.
LEMMA OpMeans ==
    ASSUME NEW p, p.as_of \in Int \cup {Null}, NEW op, SegmentOp(op), validate_op(op), NEW t,
           NEW rules, RulesOK(rules), compile_op(p, op, t, rules).ok, NEW db, Database(db),
           \A tm \in Elements(compile_op(p, op, t, rules).tmpl) : Present(db, TmplColumns(p.source, tm)),
           NEW now \in Int
    PROVE  LET x == compile_op(p, op, t, rules)
           IN  \E B : Bound(x.tmpl, Counts(x.tmpl), x.params, B) /\ Means(B, op, p, db, t, now, rules)
  <1> DEFINE x == compile_op(p, op, t, rules)
  <1>0. op.kind \in Narrowing /\ Names(p, op, x)
    BY OpNames
  <1>1. CASE op.kind = "filter"
    <2>1. x = compile_predicate(op.pred)
      BY <1>1 DEF compile_op
    <2> QED
      BY <1>1, <2>1, FilterMeans
  <1>2. CASE op.kind \in {"recency", "lapsed"}
    <2>1. x = compile_event(op, p.key, t)
      BY <1>2 DEF compile_op
    <2>2. PICK tm \in Elements(x.tmpl) : <<op.event, op.ts>> \in TmplColumns(p.source, tm)
      BY <1>0, <1>2 DEF Names
    <2>3. op.event \in Datasets /\ op.ts \in db.columns[op.event]
      BY <2>2 DEF Present
    <2>4. op.days \in Nat
      <3>1. op.days \in 1..MaxWithinDays
        BY <1>2 DEF validate_op
      <3>2. MaxWithinDays \in Nat
        BY SegmentAssumption
      <3> QED
        BY <3>1, <3>2
    <2> QED
      BY <1>2, <2>1, <2>3, <2>4, EventMeans
  <1>3. CASE op.kind = "feature"
    <2>1. x = compile_feature(op, p.key, p.as_of, t)
      BY <1>3 DEF compile_op
    <2> QED
      BY <1>3, <2>1, FeatureMeans
  <1>4. CASE op.kind = "exclude"
    <2>1. x = compile_exclude(op, p.key, t, rules)
      BY <1>4 DEF compile_op
    <2> QED
      BY <1>4, <2>1, ExcludeMeans
  <1> QED
    BY <1>0, <1>1, <1>2, <1>3, <1>4 DEF Narrowing

-----------------------------------------------------------------------------
(***************************************************************************)
(* compile_part.                                                           *)
(***************************************************************************)
LEMMA ListFn ==
    ASSUME NEW n \in Nat, NEW f, f = [j \in 1..n |-> f[j]]
    PROVE  List(f) /\ Len(f) = n /\ DOMAIN f = 1..n
  <1> DEFINE T == {f[j] : j \in 1..n}
  <1>1. \A j \in 1..n : f[j] \in T
    OBVIOUS
  <1> HIDE DEF T
  <1>2. f \in Seq(T) /\ Len(f) = n /\ DOMAIN f = 1..n
    BY <1>1
  <1> QED
    BY <1>2, IsList

\* A list without its last element.
LEMMA CutList ==
    ASSUME NEW s, List(s), s # <<>>
    PROVE  LET u == SubSeq(s, 1, Len(s) - 1)
           IN  /\ List(u) /\ DOMAIN u = 1..(Len(s) - 1) /\ Len(s) \in Nat \ {0} /\ Len(u) = Len(s) - 1
               /\ \A j \in DOMAIN u : j \in DOMAIN s /\ u[j] = s[j]
               /\ \A j \in DOMAIN s : j \in DOMAIN u \/ j = Len(s)
  <1> DEFINE R == {s[i] : i \in DOMAIN s}
             u == SubSeq(s, 1, Len(s) - 1)
  <1>1. s \in Seq(R)
    BY DEF List
  <1> HIDE DEF R
  <1>2. Len(s) \in Nat \ {0} /\ DOMAIN s = 1..Len(s)
    BY <1>1
  <1>3. u \in Seq(R) /\ Len(u) = Len(s) - 1 /\ \A j \in 1..(Len(s) - 1) : u[j] = s[j]
    <2> DEFINE k == Len(s) - 1
    <2>1. k \in Nat /\ k <= Len(s)
      BY <1>2
    <2> HIDE DEF k
    <2>2. SubSeq(s, 1, k) \in Seq(R) /\ Len(SubSeq(s, 1, k)) = k /\ \A j \in 1..k : SubSeq(s, 1, k)[j] = s[j]
      BY <1>1, <2>1
    <2> QED
      BY <2>2 DEF k
  <1>4. DOMAIN u = 1..(Len(s) - 1)
    BY <1>3
  <1> HIDE DEF u
  <1>5. List(u)
    BY <1>3, IsList
  <1>6. \A j \in DOMAIN u : j \in DOMAIN s /\ u[j] = s[j]
    BY <1>2, <1>3, <1>4
  <1>7. \A j \in DOMAIN s : j \in DOMAIN u \/ j = Len(s)
    BY <1>2, <1>4
  <1> QED
    BY <1>2, <1>3, <1>4, <1>5, <1>6, <1>7, Zenon DEF u

\* The templates are renamed one by one.
LEMMA BoundTag ==
    ASSUME NEW T, NEW N, NEW P, NEW B, Bound(T, N, P, B), NEW i,
           NEW U, U = [j \in DOMAIN T |-> [part |-> i, tmpl |-> T[j]]],
           NEW D, D = {<<[part |-> i, tmpl |-> y[1]], y[2]>> : y \in B}
    PROVE  Bound(U, N, P, D)
  <1>1. PICK pos : Places(pos, T, N, P) /\ B = {<<T[j], SubSeq(P, pos[j], pos[j + 1] - 1)>> : j \in DOMAIN T}
    BY DEF Bound
  <1>2. List(T) /\ List(P)
    BY DEF Bound
  <1>3. Len(T) \in Nat /\ DOMAIN T = 1..Len(T)
    BY <1>2, ListFacts
  <1>4. List(U) /\ Len(U) = Len(T) /\ DOMAIN U = DOMAIN T
    <2> DEFINE n == Len(T)
    <2>1. n \in Nat /\ U = [j \in 1..n |-> U[j]]
      BY <1>3
    <2> HIDE DEF n
    <2>2. List(U) /\ Len(U) = n
      BY <2>1, ListFn
    <2> QED
      BY <2>2 DEF n
  <1>5. Places(pos, U, N, P)
    BY <1>1, <1>4 DEF Places
  <1> DEFINE A(j) == SubSeq(P, pos[j], pos[j + 1] - 1)
  <1>6. D = {<<U[j], A(j)>> : j \in DOMAIN U}
    <2> DEFINE tag(x) == [part |-> i, tmpl |-> x]
    <2>1. \A j \in DOMAIN T : U[j] = tag(T[j])
      OBVIOUS
    <2>2. B = {<<T[j], A(j)>> : j \in DOMAIN T} /\ D = {<<tag(y[1]), y[2]>> : y \in B}
      BY <1>1
    <2> HIDE DEF tag, A
    <2>3. \A j \in DOMAIN T : <<T[j], A(j)>>[1] = T[j] /\ <<T[j], A(j)>>[2] = A(j)
      OBVIOUS
    <2>4. D \subseteq {<<U[j], A(j)>> : j \in DOMAIN U}
      <3> SUFFICES ASSUME NEW y \in B PROVE \E j \in DOMAIN U : <<tag(y[1]), y[2]>> = <<U[j], A(j)>>
        BY <2>2
      <3>1. PICK j \in DOMAIN T : y = <<T[j], A(j)>>
        BY <2>2
      <3> QED
        BY <1>4, <2>1, <3>1
    <2>5. {<<U[j], A(j)>> : j \in DOMAIN U} \subseteq D
      <3> SUFFICES ASSUME NEW j \in DOMAIN U PROVE <<U[j], A(j)>> \in D
        OBVIOUS
      <3>1. <<T[j], A(j)>> \in B
        BY <1>4, <2>2
      <3>2. <<tag(<<T[j], A(j)>>[1]), <<T[j], A(j)>>[2]>> \in D
        BY <2>2, <3>1
      <3> QED
        BY <1>4, <2>1, <3>2
    <2> QED
      BY <2>4, <2>5
  <1> QED
    BY <1>2, <1>4, <1>5, <1>6, BoundIntro

\* The ops of part i that are compiled to conjuncts.
Conjunctive(q, i) ==
    IF EndsIn(q[i], {"setOp"} \cup (IF i = 1 THEN Terminal ELSE {}))
    THEN SubSeq(q[i].ops, 1, Len(q[i].ops) - 1) ELSE q[i].ops

\* The ops compiled to conjuncts are all ops of the part but the terminal and set ones.
LEMMA ConjunctiveOps ==
    ASSUME NEW q, NEW i, List(q[i].ops)
    PROVE  LET ops == Conjunctive(q, i)
           IN  /\ List(ops)
               /\ \A j \in DOMAIN ops : j \in DOMAIN q[i].ops /\ ops[j] = q[i].ops[j]
               /\ \A j \in DOMAIN q[i].ops : j \in DOMAIN ops \/ q[i].ops[j].kind \in Terminal \cup {"setOp"}
  <1> DEFINE s == q[i].ops
             K == {"setOp"} \cup (IF i = 1 THEN Terminal ELSE {})
  <1>1. CASE EndsIn(q[i], K)
    <2>1. s # <<>> /\ s[Len(s)].kind \in K
      BY <1>1 DEF EndsIn
    <2>2. Conjunctive(q, i) = SubSeq(s, 1, Len(s) - 1)
      BY <1>1 DEF Conjunctive
    <2>3. K \subseteq Terminal \cup {"setOp"}
      OBVIOUS
    <2> HIDE DEF s, K
    <2>4. List(s)
      BY DEF s
    <2>5. LET u == SubSeq(s, 1, Len(s) - 1)
          IN  /\ List(u)
              /\ \A j \in DOMAIN u : j \in DOMAIN s /\ u[j] = s[j]
              /\ \A j \in DOMAIN s : j \in DOMAIN u \/ j = Len(s)
      BY <2>1, <2>4, CutList
    <2> QED
      BY <2>1, <2>2, <2>3, <2>5 DEF s
  <1>2. CASE ~EndsIn(q[i], K)
    <2>1. Conjunctive(q, i) = s
      BY <1>2 DEF Conjunctive
    <2> QED
      BY <2>1
  <1> QED
    BY <1>1, <1>2

\* Joining pieces gives a piece.
LEMMA JoinShape ==
    ASSUME NEW pieces, List(pieces), \A i \in DOMAIN pieces : PieceOK(pieces[i])
    PROVE  \E a, b, c, d : Join(pieces) = [ok |-> a, tmpl |-> b, params |-> c, sources |-> d]
  <1> DEFINE n == Len(pieces)
  <1>1. n \in Nat
    BY ListFacts
  <1>2. PICK f : /\ f[0] = Piece(<<>>, <<>>)
                 /\ \A i \in 1..n : f[i] = Added(f[i - 1], pieces[i])
                 /\ Join(pieces) = f[n]
    BY JoinSteps
  <1> HIDE DEF n
  <1>3. CASE n = 0
    BY <1>2, <1>3 DEF Piece
  <1>4. CASE n # 0
    <2>1. n \in 1..n
      BY <1>1, <1>4
    <2>2. Join(pieces) = Added(f[n - 1], pieces[n])
      BY <1>2, <2>1
    <2> DEFINE x == f[n - 1]
               y == pieces[n]
    <2> HIDE DEF x, y
    <2>3. Join(pieces) = Added(x, y)
      BY <2>2 DEF x, y
    <2> QED
      BY <2>3, Zenon DEF Added
  <1> QED
    BY <1>3, <1>4

TenantTmpl  == [t |-> "tenant", n |-> 1]
TenantPiece(t) == Piece(<<TenantTmpl>>, <<t>>)

OpPieces(q, i, t, rules) ==
    [j \in DOMAIN Conjunctive(q, i) |-> compile_op(q[i], Conjunctive(q, i)[j], t, rules)]

PartPieces(q, i, t, rules) == <<TenantPiece(t)>> \o OpPieces(q, i, t, rules)

\* The pieces of a part, and the part made of them.
PartIs(p, i, t, rules, ops, pcs, all, x) ==
    /\ List(pcs) /\ \A k \in DOMAIN pcs : PieceOK(pcs[k])
    /\ 1 \in DOMAIN pcs /\ pcs[1] = TenantPiece(t)
    /\ \A j \in DOMAIN ops : 1 + j \in DOMAIN pcs /\ pcs[1 + j] = compile_op(p, ops[j], t, rules)
    /\ \A k \in DOMAIN pcs : k = 1 \/ \E j \in DOMAIN ops : k = 1 + j
    /\ PieceOK(all)
    /\ x.ok = all.ok /\ x.tmpl = [j \in DOMAIN all.tmpl |-> [part |-> i, tmpl |-> all.tmpl[j]]]
    /\ x.params = all.params /\ x.sources = <<p.source>> \o all.sources

\* The cases of compile_at: a failed op, an unknown combination, or the joined conjuncts.
LEMMA PartShape ==
    ASSUME NEW q, NEW i, List(q[i].ops), \A j \in DOMAIN q[i].ops : SegmentOp(q[i].ops[j]), NEW t, NEW rules,
           NEW ops, ops = Conjunctive(q, i), NEW pcs, pcs = PartPieces(q, i, t, rules),
           NEW all, all = Join(pcs), NEW x, x = compile_part(q, i, t, rules)
    PROVE  PartIs(q[i], i, t, rules, ops, pcs, all, x)
  <1> DEFINE w == OpPieces(q, i, t, rules)
             one == <<TenantPiece(t)>>
  <1>1. List(ops) /\ \A j \in DOMAIN ops : j \in DOMAIN q[i].ops /\ ops[j] = q[i].ops[j]
    BY ConjunctiveOps
  <1>2. \A j \in DOMAIN ops : SegmentOp(ops[j])
    BY <1>1
  <1>3. \A j \in DOMAIN ops : w[j] = compile_op(q[i], ops[j], t, rules) /\ PieceOK(w[j])
    <2>1. \A j \in DOMAIN ops : w[j] = compile_op(q[i], ops[j], t, rules)
      BY DEF OpPieces
    <2> QED
      BY <1>2, <2>1, OpNames
  <1>4. List(w) /\ DOMAIN w = DOMAIN ops
    <2> DEFINE n == Len(ops)
    <2>1. n \in Nat /\ DOMAIN ops = 1..n
      BY <1>1, ListFacts
    <2>2. w = [j \in 1..n |-> compile_op(q[i], ops[j], t, rules)]
      BY <2>1 DEF OpPieces
    <2> HIDE DEF n, w
    <2>3. w = [j \in 1..n |-> w[j]] /\ DOMAIN w = 1..n
      BY <2>2
    <2>4. List(w)
      BY <2>1, <2>3, ListFn
    <2> QED
      BY <2>1, <2>3, <2>4
  <1>5. PieceOK(TenantPiece(t))
    BY ElementsShort DEF PieceOK, TenantPiece, Piece
  <1>6. List(one) /\ Len(one) = 1 /\ one[1] = TenantPiece(t) /\ DOMAIN one = {1}
    <2>1. List(one) /\ Len(one) = 1
      BY ElementsShort
    <2> QED
      BY <2>1
  <1>7. pcs = one \o w
    BY DEF PartPieces
  <1> HIDE DEF w, one
  <1>8. /\ List(pcs)
        /\ \A k \in DOMAIN one : k \in DOMAIN pcs /\ pcs[k] = one[k]
        /\ \A k \in DOMAIN w : 1 + k \in DOMAIN pcs /\ pcs[1 + k] = w[k]
        /\ \A k \in DOMAIN pcs : k \in DOMAIN one \/ (k > 1 /\ k - 1 \in DOMAIN w)
    <2>1. List(one) /\ List(w)
      BY <1>4, <1>6
    <2>2. /\ List(pcs)
          /\ \A k \in DOMAIN one : k \in DOMAIN pcs /\ pcs[k] = one[k]
          /\ \A k \in DOMAIN w : Len(one) + k \in DOMAIN pcs /\ pcs[Len(one) + k] = w[k]
          /\ \A k \in DOMAIN pcs : k \in DOMAIN one \/ (k > Len(one) /\ k - Len(one) \in DOMAIN w)
      <3>1. List(one \o w)
        BY <2>1, ConcatFacts
      <3>2. \A k \in DOMAIN one : k \in DOMAIN (one \o w) /\ (one \o w)[k] = one[k]
        BY <2>1, ConcatFacts
      <3>3. \A k \in DOMAIN w : Len(one) + k \in DOMAIN (one \o w) /\ (one \o w)[Len(one) + k] = w[k]
        BY <2>1, ConcatFacts
      <3>4. \A k \in DOMAIN (one \o w) : k \in DOMAIN one \/ (k > Len(one) /\ k - Len(one) \in DOMAIN w)
        BY <2>1, ConcatFacts
      <3> QED
        BY <1>7, <3>1, <3>2, <3>3, <3>4
    <2> QED
      BY <1>6, <2>2
  <1>9. 1 \in DOMAIN pcs /\ pcs[1] = TenantPiece(t)
    BY <1>6, <1>8
  <1>10. \A j \in DOMAIN ops : 1 + j \in DOMAIN pcs /\ pcs[1 + j] = compile_op(q[i], ops[j], t, rules)
    BY <1>3, <1>4, <1>8
  <1>11. \A k \in DOMAIN pcs : k = 1 \/ \E j \in DOMAIN ops : k = 1 + j
    <2> SUFFICES ASSUME NEW k \in DOMAIN pcs, k # 1 PROVE \E j \in DOMAIN ops : k = 1 + j
      OBVIOUS
    <2>1. k - 1 \in DOMAIN ops
      BY <1>4, <1>6, <1>8
    <2>2. k \in Int
      BY <1>8, ListFacts
    <2>3. k = 1 + (k - 1)
      BY <2>2
    <2> QED
      BY <2>1, <2>3, Zenon
  <1>12. \A k \in DOMAIN pcs : PieceOK(pcs[k])
    BY <1>3, <1>5, <1>9, <1>10, <1>11
  <1>13. PieceOK(all)
    BY <1>8, <1>12, JoinFacts
  <1>14. PICK a, b, c, d : all = [ok |-> a, tmpl |-> b, params |-> c, sources |-> d]
    BY <1>8, <1>12, JoinShape
  <1>15. x = [all EXCEPT !.tmpl = [j \in DOMAIN @ |-> [part |-> i, tmpl |-> @[j]]],
                         !.sources = <<q[i].source>> \o @]
    <2> DEFINE y == Join(<<Piece(<<[t |-> "tenant", n |-> 1]>>, <<t>>)>>
                            \o [j \in DOMAIN Conjunctive(q, i) |-> compile_op(q[i], Conjunctive(q, i)[j], t, rules)])
    <2>1. compile_part(q, i, t, rules) =
            [y EXCEPT !.tmpl = [j \in DOMAIN @ |-> [part |-> i, tmpl |-> @[j]]],
                      !.sources = <<q[i].source>> \o @]
      BY DEF compile_part, Conjunctive
    <2>2. y = all
      BY DEF PartPieces, OpPieces, TenantPiece, TenantTmpl
    <2> HIDE DEF y
    <2> QED
      BY <2>1, <2>2
  <1>16. /\ x.ok = all.ok /\ x.tmpl = [j \in DOMAIN all.tmpl |-> [part |-> i, tmpl |-> all.tmpl[j]]]
         /\ x.params = all.params /\ x.sources = <<q[i].source>> \o all.sources
    BY <1>14, <1>15
  <1> QED
    BY <1>8, <1>9, <1>10, <1>11, <1>12, <1>13, <1>16 DEF PartIs

PartColumns(p) == {<<p.source, p.key>>} \cup UNION {OpColumns(p, p.ops[j]) : j \in DOMAIN p.ops}

\* What part i names: its templates only what its ops refer to, its sources all
\* of the tables.
PartNamed(p, i, x) ==
    /\ \A y \in Elements(x.tmpl) : y.part = i
    /\ x.ok => /\ \A y \in Elements(x.tmpl) :
                    /\ TmplColumns(p.source, y.tmpl) \subseteq PartColumns(p)
                    /\ \A c \in TmplColumns(p.source, y.tmpl) : c[1] \in Elements(x.sources)
                    /\ y.tmpl.t = "wide" => \E j \in DOMAIN p.ops : /\ p.ops[j].kind = "feature"
                                                                    /\ y.tmpl.name = p.ops[j].name
               /\ p.source \in Elements(x.sources)

\* A compiled part names what its ops refer to, and lists its tables.
LEMMA PartNames ==
    ASSUME NEW q, NEW i, List(q[i].ops), \A j \in DOMAIN q[i].ops : SegmentOp(q[i].ops[j]), NEW t, NEW rules,
           NEW x, x = compile_part(q, i, t, rules)
    PROVE  PieceOK(x) /\ DOMAIN x.tmpl = 1..Len(x.tmpl) /\ PartNamed(q[i], i, x)
  <1> DEFINE p == q[i]
             ops == Conjunctive(q, i)
             pcs == PartPieces(q, i, t, rules)
             all == Join(pcs)
  <1>0. PartIs(q[i], i, t, rules, ops, pcs, all, x)
    BY PartShape
  <1>1. /\ List(pcs) /\ \A k \in DOMAIN pcs : PieceOK(pcs[k])
        /\ 1 \in DOMAIN pcs /\ pcs[1] = TenantPiece(t)
        /\ \A j \in DOMAIN ops : 1 + j \in DOMAIN pcs /\ pcs[1 + j] = compile_op(q[i], ops[j], t, rules)
        /\ \A k \in DOMAIN pcs : k = 1 \/ \E j \in DOMAIN ops : k = 1 + j
        /\ PieceOK(all)
        /\ x.ok = all.ok /\ x.tmpl = [j \in DOMAIN all.tmpl |-> [part |-> i, tmpl |-> all.tmpl[j]]]
        /\ x.params = all.params /\ x.sources = <<q[i].source>> \o all.sources
    BY <1>0 DEF PartIs
  <1>2. /\ all.ok <=> \A k \in DOMAIN pcs : pcs[k].ok
        /\ Elements(all.tmpl) = UNION {Elements(pcs[k].tmpl) : k \in DOMAIN pcs}
        /\ Elements(all.sources) = UNION {Elements(pcs[k].sources) : k \in DOMAIN pcs}
    BY <1>1, JoinFacts
  <1>3. \A j \in DOMAIN ops : j \in DOMAIN p.ops /\ ops[j] = p.ops[j]
    BY ConjunctiveOps
  <1> HIDE DEF ops, pcs, all
  <1>4. DOMAIN x.tmpl = DOMAIN all.tmpl /\ \A j \in DOMAIN all.tmpl : x.tmpl[j] = [part |-> i, tmpl |-> all.tmpl[j]]
    BY <1>1
  <1>5. List(x.tmpl) /\ DOMAIN x.tmpl = 1..Len(x.tmpl)
    <2> DEFINE n == Len(all.tmpl)
               u == x.tmpl
    <2>1. n \in Nat /\ DOMAIN all.tmpl = 1..n
      BY <1>1, ListFacts DEF PieceOK
    <2>2. u = [j \in 1..n |-> u[j]]
      BY <1>1, <2>1
    <2> HIDE DEF n, u
    <2>3. List(u) /\ Len(u) = n /\ DOMAIN u = 1..n
      BY <2>1, <2>2, ListFn
    <2> QED
      BY <2>3 DEF u
  <1>6. List(x.sources) /\ Elements(x.sources) = {p.source} \cup Elements(all.sources)
    <2>1. List(<<q[i].source>>) /\ Elements(<<q[i].source>>) = {p.source} /\ List(all.sources)
      BY <1>1, ElementsShort DEF PieceOK
    <2> DEFINE one == <<q[i].source>>
               rest == all.sources
    <2>2. x.sources = one \o rest /\ List(one) /\ List(rest) /\ Elements(one) = {p.source}
      BY <1>1, <2>1
    <2> HIDE DEF one, rest
    <2>4. List(one \o rest)
      BY <2>2, ConcatList
    <2>5. Elements(one \o rest) = Elements(one) \cup Elements(rest)
      BY <2>2, ElementsConcat
    <2>3. List(x.sources) /\ Elements(x.sources) = Elements(one) \cup Elements(rest)
      BY <2>2, <2>4, <2>5
    <2> QED
      BY <2>2, <2>3 DEF rest
  <1>7. PieceOK(x)
    <2>1. x.ok \in BOOLEAN /\ List(x.params)
      BY <1>1 DEF PieceOK
    <2> QED
      BY <1>5, <1>6, <2>1 DEF PieceOK
  <1>8. \A y \in Elements(x.tmpl) : y.part = i /\ y.tmpl \in Elements(all.tmpl)
    <2> SUFFICES ASSUME NEW y \in Elements(x.tmpl) PROVE y.part = i /\ y.tmpl \in Elements(all.tmpl)
      OBVIOUS
    <2>1. PICK j \in DOMAIN x.tmpl : y = x.tmpl[j]
      BY DEF Elements
    <2>2. y = [part |-> i, tmpl |-> all.tmpl[j]] /\ j \in DOMAIN all.tmpl
      BY <1>4, <2>1
    <2>3. all.tmpl[j] \in Elements(all.tmpl)
      BY <2>2 DEF Elements
    <2> QED
      BY <2>2, <2>3
  <1>9. ASSUME x.ok, NEW tm \in Elements(all.tmpl)
        PROVE  /\ TmplColumns(p.source, tm) \subseteq PartColumns(p)
               /\ \A c \in TmplColumns(p.source, tm) : c[1] \in Elements(x.sources)
               /\ tm.t = "wide" => \E j \in DOMAIN p.ops : p.ops[j].kind = "feature" /\ tm.name = p.ops[j].name
    <2>1. PICK k \in DOMAIN pcs : tm \in Elements(pcs[k].tmpl)
      BY <1>2
    <2>2. CASE k = 1
      <3>1. pcs[1].tmpl = <<TenantTmpl>>
        BY <1>1 DEF TenantPiece, Piece
      <3>2. tm = TenantTmpl
        BY <2>1, <2>2, <3>1, ElementsShort
      <3>3. TmplColumns(p.source, tm) = {} /\ tm.t # "wide"
        BY <3>2 DEF TenantTmpl, TmplColumns
      <3> QED
        BY <3>3
    <2>3. ASSUME NEW j \in DOMAIN ops, k = 1 + j
          PROVE  /\ TmplColumns(p.source, tm) \subseteq PartColumns(p)
                 /\ \A c \in TmplColumns(p.source, tm) : c[1] \in Elements(x.sources)
                 /\ tm.t = "wide" => \E n \in DOMAIN p.ops : p.ops[n].kind = "feature" /\ tm.name = p.ops[n].name
      <3> DEFINE op == p.ops[j]
                 y == compile_op(p, op, t, rules)
      <3>1. j \in DOMAIN p.ops /\ ops[j] = op /\ SegmentOp(op)
        BY <1>3, <2>3
      <3>2. y = pcs[k] /\ y.ok
        <4>1. pcs[k].ok
          BY <1>1, <1>2, <1>9
        <4> QED
          BY <1>1, <2>3, <3>1, <4>1
      <3>3. op.kind \in Narrowing /\ Names(p, op, y)
        BY <3>1, <3>2, OpNames
      <3> HIDE DEF p, op, y
      <3>4. /\ TmplColumns(p.source, tm) \subseteq OpColumns(p, op) \cup {<<p.source, p.key>>}
            /\ tm.t = "wide" => op.kind = "feature" /\ tm.name = op.name
            /\ op.kind \in {"recency", "lapsed"} => op.event \in Elements(y.sources)
        BY <2>1, <3>2, <3>3 DEF Names
      <3>5. Elements(y.sources) \subseteq Elements(x.sources) /\ p.source \in Elements(x.sources)
        BY <1>2, <1>6, <3>2 DEF p
      <3>6. \A c \in OpColumns(p, op) :
               c[1] = p.source \/ (op.kind \in {"recency", "lapsed"} /\ c[1] = op.event)
        BY <3>3 DEF OpColumns, Narrowing
      <3>7. OpColumns(p, op) \subseteq PartColumns(p) /\ <<p.source, p.key>> \in PartColumns(p)
        BY <3>1 DEF PartColumns, op
      <3>8. \A c \in TmplColumns(p.source, tm) : c[1] \in Elements(x.sources)
        BY <3>4, <3>5, <3>6
      <3>9. TmplColumns(p.source, tm) \subseteq PartColumns(p)
        BY <3>4, <3>7
      <3>10. tm.t = "wide" => \E n \in DOMAIN p.ops : p.ops[n].kind = "feature" /\ tm.name = p.ops[n].name
        BY <3>1, <3>4 DEF op
      <3> QED
        BY <3>8, <3>9, <3>10
    <2> QED
      BY <1>1, <2>2, <2>3
  <1>10. x.ok => \A y \in Elements(x.tmpl) :
                   /\ TmplColumns(p.source, y.tmpl) \subseteq PartColumns(p)
                   /\ \A c \in TmplColumns(p.source, y.tmpl) : c[1] \in Elements(x.sources)
                   /\ y.tmpl.t = "wide" => \E j \in DOMAIN p.ops : /\ p.ops[j].kind = "feature"
                                                                   /\ y.tmpl.name = p.ops[j].name
    BY <1>8, <1>9
  <1> QED
    BY <1>5, <1>6, <1>7, <1>8, <1>10 DEF PartNamed

\* The rows of a part's scan: the tenant's, and those that meet its ops.
Kept(p, b, db, t, now, rules) ==
    b.tenant_id = t /\ \A j \in DOMAIN p.ops : Meets(p.ops[j], p, b, Own(db, t), now, rules)

TenantConj(S, t, db, now) ==
    /\ Bound(TenantPiece(t).tmpl, Counts(TenantPiece(t).tmpl), TenantPiece(t).params, S)
    /\ \A b : (\A y \in S : ConjHolds(y[1], y[2], b, db, now)) <=> b.tenant_id = t

\* The conjunct tenant_id = ? bound to the tenant is true of the tenant's rows.
LEMMA TenantMeans ==
    ASSUME NEW t, NEW db, NEW now
    PROVE  \E S : TenantConj(S, t, db, now)
  <1> DEFINE a == <<t>>
             tt == TenantTmpl
             S == {<<tt, a>>}
  <1>1. TenantPiece(t).tmpl = <<tt>> /\ TenantPiece(t).params = a
    BY DEF TenantPiece, Piece
  <1>2. List(a) /\ Len(a) = 1 /\ a[1] = t
    BY ElementsShort
  <1>3. tt.n = 1 /\ tt.t = "tenant"
    BY DEF TenantTmpl
  <1> HIDE DEF a, tt
  <1>4. Counts(<<tt>>)[1] = Len(a)
    BY <1>2, <1>3 DEF Counts
  <1>5. Bound(<<tt>>, Counts(<<tt>>), a, S)
    BY <1>2, <1>4, BoundOne
  <1>6. \A b : ConjHolds(tt, a, b, db, now) <=> b.tenant_id = t
    BY <1>2, <1>3 DEF ConjHolds
  <1>7. \A y \in S : y[1] = tt /\ y[2] = a
    OBVIOUS
  <1>8. \A b : (\A y \in S : ConjHolds(y[1], y[2], b, db, now)) <=> b.tenant_id = t
    BY <1>6, <1>7
  <1>9. TenantConj(S, t, db, now)
    BY <1>1, <1>5, <1>8 DEF TenantConj
  <1> QED
    BY <1>9

\* A part that parse::validate accepts.
PartOK(p) ==
    /\ p.as_of \in Int \cup {Null} /\ List(p.ops)
    /\ \A j \in DOMAIN p.ops : SegmentOp(p.ops[j]) /\ validate_op(p.ops[j])

\* D: the templates of the compiled part x with their arguments, which keep the
\* rows that part i, p, stands for.
Serves(x, D, i, p, db, t, now, rules) ==
    /\ Bound(x.tmpl, [j \in DOMAIN x.tmpl |-> x.tmpl[j].tmpl.n], x.params, D)
    /\ \A y \in D : y[1].part = i
    /\ \A b : (\A y \in D : ConjHolds(y[1].tmpl, y[2], b, db, now)) <=> Kept(p, b, db, t, now, rules)

\* A compiled part means what the part means.
LEMMA PartMeans ==
    ASSUME NEW q, NEW i, PartOK(q[i]), NEW t, NEW rules, RulesOK(rules),
           NEW x, x = compile_part(q, i, t, rules), x.ok, NEW db, Database(db),
           \A y \in Elements(x.tmpl) : Present(db, TmplColumns(q[i].source, y.tmpl)), NEW now \in Int
    PROVE  \E D : Serves(x, D, i, q[i], db, t, now, rules)
  <1> /\ q[i].as_of \in Int \cup {Null} /\ List(q[i].ops)
      /\ \A j \in DOMAIN q[i].ops : SegmentOp(q[i].ops[j]) /\ validate_op(q[i].ops[j])
    BY DEF PartOK
  <1> DEFINE p == q[i]
             ops == Conjunctive(q, i)
             pcs == PartPieces(q, i, t, rules)
             all == Join(pcs)
             Meant(op, b) == Meets(op, p, b, Own(db, t), now, rules)
             Hold(S, b) == \A y \in S : ConjHolds(y[1], y[2], b, db, now)
             Good(k, S) == /\ Bound(pcs[k].tmpl, Counts(pcs[k].tmpl), pcs[k].params, S)
                           /\ k = 1 => \A b : Hold(S, b) <=> b.tenant_id = t
                           /\ \A j \in DOMAIN ops : k = 1 + j => \A b : Hold(S, b) <=> Meant(ops[j], b)
  <1>0. PartIs(q[i], i, t, rules, ops, pcs, all, x)
    <2>1. \A j \in DOMAIN q[i].ops : SegmentOp(q[i].ops[j])
      OBVIOUS
    <2> HIDE DEF Good, Hold, Meant
    <2> QED
      BY <2>1, PartShape
  <1>1. /\ List(pcs) /\ \A k \in DOMAIN pcs : PieceOK(pcs[k])
        /\ 1 \in DOMAIN pcs /\ pcs[1] = TenantPiece(t)
        /\ \A j \in DOMAIN ops : 1 + j \in DOMAIN pcs /\ pcs[1 + j] = compile_op(q[i], ops[j], t, rules)
        /\ \A k \in DOMAIN pcs : k = 1 \/ \E j \in DOMAIN ops : k = 1 + j
        /\ PieceOK(all)
        /\ x.ok = all.ok /\ x.tmpl = [j \in DOMAIN all.tmpl |-> [part |-> i, tmpl |-> all.tmpl[j]]]
        /\ x.params = all.params
    BY <1>0 DEF PartIs
  <1>2. /\ all.ok <=> \A k \in DOMAIN pcs : pcs[k].ok
        /\ Elements(all.tmpl) = UNION {Elements(pcs[k].tmpl) : k \in DOMAIN pcs}
    BY <1>1, JoinFacts
  <1>3. /\ \A j \in DOMAIN ops : j \in DOMAIN p.ops /\ ops[j] = p.ops[j]
        /\ \A j \in DOMAIN p.ops : j \in DOMAIN ops \/ p.ops[j].kind \in Terminal \cup {"setOp"}
        /\ DOMAIN ops \subseteq Nat \ {0}
    <2>1. List(ops) /\ \A j \in DOMAIN ops : j \in DOMAIN p.ops /\ ops[j] = p.ops[j]
      BY ConjunctiveOps
    <2>2. \A j \in DOMAIN p.ops : j \in DOMAIN ops \/ p.ops[j].kind \in Terminal \cup {"setOp"}
      BY ConjunctiveOps
    <2>3. Len(ops) \in Nat /\ DOMAIN ops = 1..Len(ops)
      BY <2>1, ListFacts
    <2> QED
      BY <2>1, <2>2, <2>3
  <1> HIDE DEF ops, pcs, all
  <1>4. \A tm \in Elements(all.tmpl) : Present(db, TmplColumns(p.source, tm))
    <2> SUFFICES ASSUME NEW tm \in Elements(all.tmpl) PROVE Present(db, TmplColumns(p.source, tm))
      OBVIOUS
    <2>1. PICK j \in DOMAIN all.tmpl : tm = all.tmpl[j]
      BY DEF Elements
    <2> DEFINE y == [part |-> i, tmpl |-> tm]
    <2>2. y = x.tmpl[j] /\ j \in DOMAIN x.tmpl
      BY <1>1, <2>1
    <2>3. y \in Elements(x.tmpl) /\ y.tmpl = tm
      BY <2>2 DEF Elements
    <2> QED
      BY <2>3
  <1>5. ASSUME NEW k \in DOMAIN pcs PROVE \E S : Good(k, S)
    <2>1. CASE k = 1
      <3>0. PICK S : TenantConj(S, t, db, now)
        BY TenantMeans
      <3>1. /\ Bound(TenantPiece(t).tmpl, Counts(TenantPiece(t).tmpl), TenantPiece(t).params, S)
            /\ \A b : Hold(S, b) <=> b.tenant_id = t
        BY <3>0, Zenon DEF TenantConj
      <3>2. \A j \in DOMAIN ops : k # 1 + j
        BY <1>3, <2>1
      <3> HIDE DEF Hold, Meant
      <3>3. Good(k, S)
        BY <1>1, <2>1, <3>1, <3>2
      <3> QED
        BY <3>3, Zenon
    <2>2. ASSUME NEW j \in DOMAIN ops, k = 1 + j PROVE \E S : Good(k, S)
      <3> DEFINE op == ops[j]
                 y == compile_op(p, op, t, rules)
      <3>1. SegmentOp(op) /\ validate_op(op)
        BY <1>3
      <3>2. y = pcs[k] /\ y.ok
        <4>1. pcs[k].ok
          BY <1>1, <1>2
        <4> QED
          BY <1>1, <2>2, <4>1
      <3>3. \A tm \in Elements(y.tmpl) : Present(db, TmplColumns(p.source, tm))
        BY <1>2, <1>4, <3>2
      <3>4. PICK S : Bound(y.tmpl, Counts(y.tmpl), y.params, S) /\ Means(S, op, p, db, t, now, rules)
        BY <3>1, <3>2, <3>3, OpMeans
      <3>5. \A b : Hold(S, b) <=> Meant(op, b)
        BY <3>4 DEF Means
      <3>6. k # 1 /\ \A n \in DOMAIN ops : k = 1 + n => n = j
        BY <1>3, <2>2
      <3> HIDE DEF Hold, Meant, y
      <3>7. Good(k, S)
        BY <3>2, <3>4, <3>5, <3>6
      <3> QED
        BY <3>7, Zenon
    <2> QED
      BY <1>1, <2>1, <2>2
  <1> DEFINE B == [k \in DOMAIN pcs |-> CHOOSE S : Good(k, S)]
             C == [tm \in Elements(all.tmpl) |-> tm.n]
             E == UNION {B[k] : k \in DOMAIN pcs}
  <1>6. \A k \in DOMAIN pcs : Good(k, B[k])
    <2> HIDE DEF Good
    <2> QED
      BY <1>5
  <1>7. Uses(all.tmpl, C, all.params, E)
    <2>1. ASSUME NEW k \in DOMAIN pcs
          PROVE  Uses(pcs[k].tmpl, C, pcs[k].params, B[k])
      <3> DEFINE T == pcs[k].tmpl
                 M == [j \in DOMAIN T |-> C[T[j]]]
      <3>1. Bound(T, Counts(T), pcs[k].params, B[k])
        BY <1>6
      <3>2. \A j \in DOMAIN T : T[j] \in Elements(all.tmpl)
        <4>1. \A j \in DOMAIN T : T[j] \in Elements(T)
          BY DEF Elements
        <4> QED
          BY <1>2, <4>1
      <3>3. \A j \in DOMAIN T : M[j] = Counts(T)[j]
        BY <3>2 DEF Counts
      <3> HIDE DEF T, M, B
      <3>4. Bound(T, M, pcs[k].params, B[k])
        BY <3>1, <3>3, BoundSame
      <3> QED
        BY <3>4 DEF T, M, Uses
    <2>2. List(pcs) /\ \A k \in DOMAIN pcs : PieceOK(pcs[k])
      BY <1>1
    <2> HIDE DEF B, C
    <2>4. \A k \in DOMAIN pcs : Uses(pcs[k].tmpl, C, pcs[k].params, B[k])
      BY <2>1
    <2>3. Uses(Join(pcs).tmpl, C, Join(pcs).params, E)
      <3>1. E = UNION {B[k] : k \in DOMAIN pcs}
        OBVIOUS
      <3> HIDE DEF E
      <3> QED
        BY <2>2, <2>4, <3>1, JoinBound
    <2> QED
      BY <2>3 DEF all
  <1> HIDE DEF B
  <1>8. Bound(all.tmpl, Counts(all.tmpl), all.params, E)
    <2> DEFINE T == all.tmpl
               N == [j \in DOMAIN T |-> C[T[j]]]
    <2>1. \A j \in DOMAIN T : Counts(T)[j] = N[j]
      BY DEF Counts, Elements
    <2>2. Bound(T, N, all.params, E)
      BY <1>7 DEF Uses
    <2> HIDE DEF T, N, E
    <2>3. Bound(T, Counts(T), all.params, E)
      BY <2>1, <2>2, BoundSame
    <2> QED
      BY <2>3 DEF T
  <1> DEFINE D == {<<[part |-> i, tmpl |-> y[1]], y[2]>> : y \in E}
  <1>9. Bound(x.tmpl, [j \in DOMAIN x.tmpl |-> x.tmpl[j].tmpl.n], x.params, D)
    <2>1. Bound(x.tmpl, Counts(all.tmpl), x.params, D)
      <3> DEFINE T == all.tmpl
                 U == x.tmpl
      <3>1. U = [j \in DOMAIN T |-> [part |-> i, tmpl |-> T[j]]] /\ x.params = all.params
        BY <1>1
      <3>2. Bound(T, Counts(T), all.params, E)
        BY <1>8
      <3>3. D = {<<[part |-> i, tmpl |-> y[1]], y[2]>> : y \in E}
        OBVIOUS
      <3> HIDE DEF E, D, T, U
      <3>4. Bound(U, Counts(T), all.params, D)
        BY <3>1, <3>2, <3>3, BoundTag
      <3> QED
        BY <3>1, <3>4 DEF T, U
    <2> DEFINE M == [j \in DOMAIN x.tmpl |-> x.tmpl[j].tmpl.n]
    <2>2. \A j \in DOMAIN x.tmpl : M[j] = Counts(all.tmpl)[j]
      BY <1>1 DEF Counts
    <2> HIDE DEF M, D
    <2>3. Bound(x.tmpl, M, x.params, D)
      BY <2>1, <2>2, BoundSame
    <2> QED
      BY <2>3 DEF M
  <1>10. \A y \in D : y[1].part = i
    OBVIOUS
  <1>11. ASSUME NEW b PROVE (\A y \in D : ConjHolds(y[1].tmpl, y[2], b, db, now)) <=> Kept(p, b, db, t, now, rules)
    <2>1. (\A y \in D : ConjHolds(y[1].tmpl, y[2], b, db, now)) <=> Hold(E, b)
      <3> HIDE DEF E
      <3>1. \A y \in E : LET z == <<[part |-> i, tmpl |-> y[1]], y[2]>>
                         IN  z \in D /\ (ConjHolds(z[1].tmpl, z[2], b, db, now) <=> ConjHolds(y[1], y[2], b, db, now))
        OBVIOUS
      <3>2. \A z \in D : \E y \in E : ConjHolds(z[1].tmpl, z[2], b, db, now) <=> ConjHolds(y[1], y[2], b, db, now)
        OBVIOUS
      <3>3. \A z \in D : \E y \in E : z[1].tmpl = y[1] /\ z[2] = y[2]
        OBVIOUS
      <3> HIDE DEF D
      <3>4. ASSUME Hold(E, b) PROVE \A y \in D : ConjHolds(y[1].tmpl, y[2], b, db, now)
        BY <3>3, <3>4
      <3>5. ASSUME \A y \in D : ConjHolds(y[1].tmpl, y[2], b, db, now) PROVE Hold(E, b)
        BY <3>1, <3>5
      <3> QED
        BY <3>4, <3>5
    <2>2. Hold(E, b) <=> \A k \in DOMAIN pcs : Hold(B[k], b)
      OBVIOUS
    <2>3. \A k \in DOMAIN pcs : /\ k = 1 => (Hold(B[k], b) <=> b.tenant_id = t)
                                /\ \A j \in DOMAIN ops : k = 1 + j => (Hold(B[k], b) <=> Meant(ops[j], b))
      <3> HIDE DEF Hold, Meant
      <3> QED
        BY <1>6
    <2>4. (\A k \in DOMAIN pcs : Hold(B[k], b)) <=> b.tenant_id = t /\ \A j \in DOMAIN ops : Meant(ops[j], b)
      <3> HIDE DEF Hold, Meant
      <3> QED
        BY <1>1, <2>3
    <2>5. \A j \in DOMAIN p.ops : p.ops[j].kind \in Terminal \cup {"setOp"} => Meant(p.ops[j], b)
      BY DEF Meets, Terminal
    <2>6. (\A j \in DOMAIN ops : Meant(ops[j], b)) <=> \A j \in DOMAIN p.ops : Meant(p.ops[j], b)
      <3> HIDE DEF Meant
      <3> QED
        BY <1>3, <2>5
    <2> HIDE DEF Hold, D, E
    <2> QED
      BY <2>1, <2>2, <2>4, <2>6 DEF Kept
  <1> HIDE DEF D
  <1> QED
    BY <1>9, <1>10, <1>11, Zenon DEF Serves

-----------------------------------------------------------------------------
(***************************************************************************)
(* The set operators, from the last part to the first.                     *)
(***************************************************************************)
Kinds == {"intersect", "union", "minus"}

Combined(g, n, K, k) == g[n] = K[n] /\ \A i \in 1..(n - 1) : g[i] = Combine(k[i], K[i], g[i + 1])

\* A set operator stays within the users of its operands.
LEMMA CombineIn ==
    ASSUME NEW U, NEW A \in SUBSET U, NEW B \in SUBSET U, NEW k \in Kinds
    PROVE  Combine(k, A, B) \in SUBSET U
  BY DEF Combine, Kinds

\* The parts of a query can be combined from the last one back.
LEMMA CombinedExists ==
    ASSUME NEW n \in Nat \ {0}, NEW U, NEW K, \A i \in 1..n : K[i] \in SUBSET U,
           NEW k, \A i \in 1..(n - 1) : k[i] \in Kinds
    PROVE  \E g \in [1..n -> SUBSET U] : Combined(g, n, K, k)
  <1> DEFINE V == SUBSET U
             m == n - 1
             G == [i \in 1..m |-> [x \in V |-> Combine(k[n - i], K[n - i], x)]]
             v == K[n]
  <1>1. m \in Nat /\ v \in V
    OBVIOUS
  <1>2. ASSUME NEW i \in 1..m PROVE n - i \in 1..(n - 1) /\ n - i \in 1..n
    OBVIOUS
  <1>3. G \in [1..m -> [V -> V]]
    <2> SUFFICES ASSUME NEW i \in 1..m, NEW x \in V PROVE Combine(k[n - i], K[n - i], x) \in V
      BY Zenon
    <2> QED
      BY <1>2, CombineIn
  <1> HIDE DEF G, v
  <1>4. PICK f \in [0..m -> V] : f[0] = v /\ \A i \in 1..m : f[i] = G[i][f[i - 1]]
    <2> HIDE DEF V, m
    <2> QED
      BY <1>1, <1>3, Recursion
  <1>5. ASSUME NEW i \in 1..m PROVE f[i] = Combine(k[n - i], K[n - i], f[i - 1])
    <2>1. i - 1 \in 0..m
      OBVIOUS
    <2>2. f[i - 1] \in V
      BY <2>1
    <2>3. G[i][f[i - 1]] = Combine(k[n - i], K[n - i], f[i - 1])
      BY <2>2 DEF G
    <2> QED
      BY <1>4, <2>3
  <1> DEFINE g == [i \in 1..n |-> f[n - i]]
  <1>6. \A i \in 1..n : n - i \in 0..m /\ g[i] = f[n - i]
    OBVIOUS
  <1>7. g \in [1..n -> V]
    BY <1>6
  <1>8. g[n] = K[n]
    <2>1. n \in 1..n /\ n - n = 0
      OBVIOUS
    <2> HIDE DEF g
    <2> QED
      BY <1>4, <1>6, <2>1 DEF v
  <1>9. ASSUME NEW i \in 1..(n - 1) PROVE g[i] = Combine(k[i], K[i], g[i + 1])
    <2>1. n - i \in 1..m /\ n - (n - i) = i /\ i \in 1..n /\ i + 1 \in 1..n /\ n - (i + 1) = (n - i) - 1
      OBVIOUS
    <2> HIDE DEF g, m
    <2>2. f[n - i] = Combine(k[i], K[i], f[(n - i) - 1])
      BY <1>5, <2>1
    <2> QED
      BY <1>6, <2>1, <2>2
  <1> HIDE DEF g
  <1>10. Combined(g, n, K, k)
    BY <1>8, <1>9 DEF Combined
  <1> QED
    BY <1>7, <1>10

\* Two ways of combining the same parts give the same users.
LEMMA CombinedUnique ==
    ASSUME NEW n \in Nat \ {0}, NEW K, NEW k, NEW f, Combined(f, n, K, k), NEW g, Combined(g, n, K, k)
    PROVE  f[1] = g[1]
  <1> DEFINE S == {m \in 0..(n - 1) : f[n - m] = g[n - m]}
  <1>1. 0 \in S
    BY DEF Combined
  <1>2. ASSUME NEW m \in 1..(n - 1), m - 1 \in S PROVE m \in S
    <2>1. n - m \in 1..(n - 1) /\ n - (m - 1) = (n - m) + 1
      OBVIOUS
    <2>2. f[(n - m) + 1] = g[(n - m) + 1]
      BY <1>2, <2>1
    <2>3. f[n - m] = g[n - m]
      BY <2>1, <2>2 DEF Combined
    <2> QED
      BY <2>3
  <1> HIDE DEF S
  <1>3. 0..(n - 1) \subseteq S
    <2> DEFINE l == n - 1
    <2>1. l \in Nat
      OBVIOUS
    <2>2. \A i \in 1..l : i - 1 \in S => i \in S
      BY <1>2
    <2> HIDE DEF l
    <2>3. 0..l \subseteq S
      BY <1>1, <2>1, <2>2, UpTo
    <2> QED
      BY <2>3 DEF l
  <1>4. n - 1 \in S /\ n - (n - 1) = 1
    BY <1>3
  <1> QED
    BY <1>4 DEF S

\* pos is where the parameters of each template of c begin.
PlacesOf(c, T, pos, N, P) ==
    T = c.conj /\ List(T) /\ Places(pos, T, N, P) /\ \A j \in DOMAIN T : N[j] = T[j].tmpl.n

\* Start is where the parameters of each template begin.
LEMMA StartIs ==
    ASSUME NEW c, NEW T, NEW P, NEW pos, NEW N, PlacesOf(c, T, pos, N, P)
    PROVE  \A j \in 1..(Len(T) + 1) : Start(c)[j] = pos[j]
  <1> T = c.conj /\ List(c.conj) /\ Places(pos, c.conj, N, P) /\ \A j \in DOMAIN c.conj : N[j] = c.conj[j].tmpl.n
    BY DEF PlacesOf
  <1> DEFINE n == Len(c.conj)
             st[j \in 1..(Len(c.conj) + 1)] == IF j = 1 THEN 1 ELSE st[j - 1] + c.conj[j - 1].tmpl.n
  <1>1. n \in Nat /\ DOMAIN c.conj = 1..n
    BY ListFacts
  <1>2. pos = [j \in 1..(Len(c.conj) + 1) |-> IF j = 1 THEN 1 ELSE pos[j - 1] + c.conj[j - 1].tmpl.n]
    <2>1. pos = [j \in 1..(n + 1) |-> pos[j]] /\ pos[1] = 1
      BY DEF Places
    <2>2. ASSUME NEW j \in 1..(n + 1), j # 1 PROVE pos[j] = pos[j - 1] + c.conj[j - 1].tmpl.n
      <3>1. j - 1 \in DOMAIN c.conj /\ (j - 1) + 1 = j
        BY <1>1, <2>2
      <3>2. pos[(j - 1) + 1] = pos[j - 1] + N[j - 1] /\ N[j - 1] = c.conj[j - 1].tmpl.n
        BY <3>1 DEF Places
      <3> QED
        BY <3>1, <3>2
    <2> QED
      BY <2>1, <2>2
  <1>3. st = [j \in 1..(Len(c.conj) + 1) |-> IF j = 1 THEN 1 ELSE st[j - 1] + c.conj[j - 1].tmpl.n]
    BY <1>2, Zenon
  <1>4. Start(c) = st
    BY DEF Start
  <1> HIDE DEF st
  <1> DEFINE S == {m \in 0..n : st[m + 1] = pos[m + 1]}
  <1>5. 0 \in S
    <2>1. 1 \in 1..(n + 1) /\ pos[1] = 1
      BY <1>1 DEF Places
    <2>2. st[1] = 1
      BY <1>3, <2>1
    <2> QED
      BY <1>1, <2>1, <2>2
  <1>6. ASSUME NEW m \in 1..n, m - 1 \in S PROVE m \in S
    <2>1. m + 1 \in 1..(n + 1) /\ m + 1 # 1 /\ (m + 1) - 1 = m /\ (m - 1) + 1 = m /\ m \in 0..n
      BY <1>1
    <2>2. st[m] = pos[m]
      BY <1>6, <2>1
    <2>3. st[m + 1] = st[m] + c.conj[m].tmpl.n
      BY <1>3, <2>1
    <2>4. pos[m + 1] = pos[m] + c.conj[m].tmpl.n
      BY <1>2, <2>1
    <2> QED
      BY <2>1, <2>2, <2>3, <2>4
  <1> HIDE DEF S, n
  <1>7. 0..n \subseteq S
    BY <1>1, <1>5, <1>6, UpTo
  <1>8. ASSUME NEW j \in 1..(n + 1) PROVE st[j] = pos[j]
    <2>1. j - 1 \in S /\ (j - 1) + 1 = j
      BY <1>1, <1>7
    <2> QED
      BY <2>1 DEF S
  <1> QED
    BY <1>4, <1>8 DEF n

-----------------------------------------------------------------------------
(***************************************************************************)
(* compile_with_opts.                                                      *)
(***************************************************************************)
Valid(q) == Query(q) /\ validate(q)

Parts(q, t, rules) == [i \in DOMAIN q |-> compile_part(q, i, t, rules)]

\* What validate guarantees of the parts and ops of a query.
LEMMA ValidFacts ==
    ASSUME NEW q, Valid(q)
    PROVE  /\ List(q) /\ Len(q) \in Nat \ {0} /\ DOMAIN q = 1..Len(q)
           /\ \A i \in DOMAIN q : /\ q[i].as_of \in Int \cup {Null} /\ List(q[i].ops)
                                  /\ \A j \in DOMAIN q[i].ops : SegmentOp(q[i].ops[j]) /\ validate_op(q[i].ops[j])
           /\ \A i \in DOMAIN q : EndsIn(q[i], {"setOp"}) <=> i # Len(q)
           /\ \A i \in 1..(Len(q) - 1) : q[i].ops[Len(q[i].ops)].set \in Kinds
  <1>1. List(q) /\ Len(q) \in Nat /\ DOMAIN q = 1..Len(q) /\ q # <<>>
    BY ListFacts DEF Valid, Query
  <1>2. Len(q) # 0
    <2> DEFINE R == {q[i] : i \in DOMAIN q}
    <2>1. q \in Seq(R)
      BY <1>1 DEF List
    <2> HIDE DEF R
    <2> QED
      BY <1>1, <2>1
  <1>3. ASSUME NEW i \in DOMAIN q
        PROVE  /\ q[i].as_of \in Int \cup {Null} /\ List(q[i].ops)
               /\ \A j \in DOMAIN q[i].ops : SegmentOp(q[i].ops[j]) /\ validate_op(q[i].ops[j])
    BY DEF Valid, Query, validate
  <1>4. ASSUME NEW i \in DOMAIN q
        PROVE  /\ EndsIn(q[i], {"setOp"}) <=> i # Len(q)
               /\ i # Len(q) => q[i].ops[Len(q[i].ops)].set \in Kinds
    <2> DEFINE s == q[i].ops
               l == Len(s)
    <2>1. List(s) /\ l \in Nat /\ DOMAIN s = 1..l
      BY <1>3, ListFacts
    <2>2. i # Len(q) <=> \E j \in DOMAIN s : s[j].kind = "setOp"
      BY <1>1 DEF Valid, Query
    <2>3. \A j \in DOMAIN s : s[j].kind = "setOp" => j = l
      BY DEF Valid, validate, validate_positions
    <2>4. s # <<>> <=> l \in DOMAIN s
      <3> DEFINE R == {s[j] : j \in DOMAIN s}
      <3>1. s \in Seq(R)
        BY <2>1 DEF List
      <3> HIDE DEF R, s
      <3> QED
        BY <3>1
    <2>5. EndsIn(q[i], {"setOp"}) <=> s # <<>> /\ s[l].kind = "setOp"
      BY DEF EndsIn
    <2>6. \A j \in DOMAIN s : SegmentOp(s[j])
      BY <1>3
    <2> HIDE DEF s, l
    <2>7. EndsIn(q[i], {"setOp"}) <=> i # Len(q)
      BY <2>2, <2>3, <2>4, <2>5
    <2>8. i # Len(q) => s[l].set \in Kinds
      BY <2>2, <2>3, <2>6 DEF SegmentOp, Kinds
    <2> QED
      BY <2>7, <2>8 DEF s, l
  <1> QED
    BY <1>1, <1>2, <1>3, <1>4

\* The parts of a compiled query.
CompiledIs(c, q, t, parts, body) ==
    /\ List(parts) /\ Len(parts) = Len(q) /\ DOMAIN parts = DOMAIN q
    /\ \A i \in DOMAIN q : PieceOK(parts[i])
    /\ PieceOK(body)
    /\ body.ok <=> \A i \in DOMAIN q : parts[i].ok
    /\ Elements(body.tmpl) = UNION {Elements(parts[i].tmpl) : i \in DOMAIN q}
    /\ Elements(body.sources) = UNION {Elements(parts[i].sources) : i \in DOMAIN q}
    /\ c.ok => body.ok
    /\ DOMAIN c.heads = DOMAIN q /\ Len(c.heads) = Len(q)
    /\ \A i \in DOMAIN q : c.heads[i].source = q[i].source /\ c.heads[i].key = q[i].key
    /\ \A i \in 1..(Len(q) - 1) : c.kinds[i] = q[i].ops[Len(q[i].ops)].set
    /\ c.conj = body.tmpl
    /\ c.last = LastOp(q)
    /\ List(TailParams(c.last, t)) /\ c.params = body.params \o TailParams(c.last, t)
    /\ List(TailTables(c.last)) /\ c.sources = body.sources \o TailTables(c.last)

\* The statement made of a joined body.
CompiledRecord(q, body, t, limit) ==
    [ok      |-> /\ body.ok /\ Len(q) - 1 <= MaxNesting
                 /\ LastOp(q).kind = "derive" => limit # Null,
     heads   |-> [i \in DOMAIN q |-> [source |-> q[i].source, key |-> q[i].key]],
     kinds   |-> [i \in 1..(Len(q) - 1) |-> q[i].ops[Len(q[i].ops)].set],
     conj    |-> body.tmpl,
     last    |-> LastOp(q), limit |-> limit,
     params  |-> body.params \o TailParams(LastOp(q), t),
     sources |-> body.sources \o TailTables(LastOp(q))]

\* compile_with_opts in terms of the parts.
LEMMA CompiledRecords ==
    ASSUME NEW q, NEW t, NEW rules, NEW limit, NEW c, c = compile_with_opts(q, t, rules, limit),
           NEW body, body = Join(Parts(q, t, rules))
    PROVE  c = CompiledRecord(q, body, t, limit)
  BY Zenon DEF compile_with_opts, Parts, LastOp, TailParams, TailTables, CompiledRecord

\* A compiled query is made of its compiled parts.
LEMMA CompiledShape ==
    ASSUME NEW q, Valid(q), NEW t, NEW rules, NEW limit, NEW c, c = compile_with_opts(q, t, rules, limit),
           NEW parts, parts = Parts(q, t, rules), NEW body, body = Join(parts)
    PROVE  CompiledIs(c, q, t, parts, body)
  <1> DEFINE n == Len(q)
  <1>1. /\ List(q) /\ n \in Nat /\ DOMAIN q = 1..n
        /\ \A i \in DOMAIN q : /\ List(q[i].ops)
                               /\ \A j \in DOMAIN q[i].ops : SegmentOp(q[i].ops[j])
    BY ValidFacts
  <1>2. DOMAIN parts = DOMAIN q /\ \A i \in DOMAIN q : parts[i] = compile_part(q, i, t, rules)
    BY DEF Parts
  <1>3. \A i \in DOMAIN q : PieceOK(parts[i])
    BY <1>1, <1>2, PartNames
  <1>4. List(parts) /\ Len(parts) = n
    <2>1. parts = [i \in 1..n |-> parts[i]]
      BY <1>1 DEF Parts
    <2> HIDE DEF n
    <2> QED
      BY <1>1, <2>1, ListFn
  <1>5. PieceOK(body) /\ (body.ok <=> \A i \in DOMAIN q : parts[i].ok)
    BY <1>2, <1>3, <1>4, JoinFacts
  <1>6. /\ Elements(body.tmpl) = UNION {Elements(parts[i].tmpl) : i \in DOMAIN q}
        /\ Elements(body.sources) = UNION {Elements(parts[i].sources) : i \in DOMAIN q}
    <2>1. \A i \in DOMAIN parts : PieceOK(parts[i])
      BY <1>2, <1>3
    <2>2. /\ Elements(Join(parts).tmpl) = UNION {Elements(parts[i].tmpl) : i \in DOMAIN parts}
          /\ Elements(Join(parts).sources) = UNION {Elements(parts[i].sources) : i \in DOMAIN parts}
      BY ONLY <1>4, <2>1, JoinFacts
    <2> QED
      BY ONLY <1>2, <2>2, Zenon, body = Join(parts)
  <1> DEFINE last == LastOp(q)
             tail == TailParams(last, t)
             end == TailTables(last)
  <1>7. c = CompiledRecord(q, body, t, limit)
    BY CompiledRecords
  <1>8. List(tail) /\ List(end)
    <2>1. List(<<last.metric, t>>) /\ List(<<t>>) /\ List(<<>>) /\ List(<<last.event>>)
      BY ElementsShort
    <2> QED
      BY <2>1 DEF TailParams, TailTables
  <1> HIDE DEF last, tail, end
  <1>9. /\ c.ok => body.ok
        /\ c.heads = [i \in DOMAIN q |-> [source |-> q[i].source, key |-> q[i].key]]
        /\ c.kinds = [i \in 1..(Len(q) - 1) |-> q[i].ops[Len(q[i].ops)].set]
        /\ c.conj = body.tmpl /\ c.last = last
        /\ c.params = body.params \o tail /\ c.sources = body.sources \o end
    BY <1>7 DEF CompiledRecord, last, tail, end
  <1>10. DOMAIN c.heads = DOMAIN q /\ Len(c.heads) = n
    <2> DEFINE h == c.heads
    <2>1. h = [i \in 1..n |-> h[i]] /\ DOMAIN h = DOMAIN q
      BY <1>1, <1>9
    <2> HIDE DEF h, n
    <2>2. Len(h) = n
      BY <1>1, <2>1, ListFn
    <2> QED
      BY <2>1, <2>2 DEF h
  <1>11. \A i \in DOMAIN q : c.heads[i].source = q[i].source /\ c.heads[i].key = q[i].key
    BY <1>9
  <1>12. \A i \in 1..(Len(q) - 1) : c.kinds[i] = q[i].ops[Len(q[i].ops)].set
    BY <1>9
  <1>13. /\ c.last = LastOp(q)
         /\ List(TailParams(c.last, t)) /\ c.params = body.params \o TailParams(c.last, t)
         /\ List(TailTables(c.last)) /\ c.sources = body.sources \o TailTables(c.last)
    BY <1>8, <1>9, Zenon DEF last, tail, end
  <1> QED
    BY <1>2, <1>3, <1>4, <1>5, <1>6, <1>9, <1>10, <1>11, <1>12, <1>13 DEF CompiledIs

\* The text of a query names only what the query refers to, so that a guardrail
\* that checks referenced_columns and referenced_features has checked all of it
\* (enforce_catalogue), and its sources list every table it names, so that a label
\* made from them covers all of it (FreshnessRegistry::worst).
THEOREM QueryNames ==
    ASSUME NEW q, Valid(q), NEW t, NEW rules, NEW limit, NEW c, c = compile_with_opts(q, t, rules, limit), c.ok
    PROVE  /\ SqlColumns(c) \subseteq referenced_columns(q)
           /\ SqlFeatures(c) \subseteq referenced_features(q)
           /\ SqlTables(c) \subseteq Elements(c.sources)
  <1> DEFINE parts == Parts(q, t, rules)
             body == Join(parts)
             last == c.last
  <1>1. CompiledIs(c, q, t, parts, body)
    BY CompiledShape
  <1>2. /\ Len(q) \in Nat \ {0} /\ DOMAIN q = 1..Len(q)
        /\ \A i \in DOMAIN q : List(q[i].ops) /\ \A j \in DOMAIN q[i].ops : SegmentOp(q[i].ops[j])
    BY ValidFacts
  <1>3. /\ DOMAIN parts = DOMAIN q /\ (\A i \in DOMAIN q : parts[i].ok)
        /\ Elements(body.tmpl) = UNION {Elements(parts[i].tmpl) : i \in DOMAIN q}
        /\ Elements(body.sources) = UNION {Elements(parts[i].sources) : i \in DOMAIN q}
        /\ List(body.sources)
    BY <1>1 DEF CompiledIs, PieceOK
  <1>4. ASSUME NEW i \in DOMAIN q
        PROVE  /\ \A y \in Elements(parts[i].tmpl) :
                    /\ y.part = i
                    /\ TmplColumns(q[i].source, y.tmpl) \subseteq PartColumns(q[i])
                    /\ \A x \in TmplColumns(q[i].source, y.tmpl) : x[1] \in Elements(parts[i].sources)
                    /\ y.tmpl.t = "wide" => \E j \in DOMAIN q[i].ops : /\ q[i].ops[j].kind = "feature"
                                                                       /\ y.tmpl.name = q[i].ops[j].name
               /\ q[i].source \in Elements(parts[i].sources)
    <2>1. parts[i] = compile_part(q, i, t, rules)
      BY DEF Parts
    <2>2. List(q[i].ops) /\ (\A j \in DOMAIN q[i].ops : SegmentOp(q[i].ops[j])) /\ parts[i].ok
      BY <1>2, <1>3
    <2> HIDE DEF parts
    <2>3. PartNamed(q[i], i, parts[i])
      BY <2>1, <2>2, PartNames
    <2> DEFINE p == q[i]
               x == parts[i]
    <2>4. PartNamed(p, i, x) /\ x.ok
      BY <2>2, <2>3
    <2> HIDE DEF p, x
    <2>5. /\ \A y \in Elements(x.tmpl) :
               /\ y.part = i
               /\ TmplColumns(p.source, y.tmpl) \subseteq PartColumns(p)
               /\ \A z \in TmplColumns(p.source, y.tmpl) : z[1] \in Elements(x.sources)
               /\ y.tmpl.t = "wide" => \E j \in DOMAIN p.ops : p.ops[j].kind = "feature" /\ y.tmpl.name = p.ops[j].name
          /\ p.source \in Elements(x.sources)
      BY <2>4 DEF PartNamed
    <2> QED
      BY <2>5 DEF p, x
  <1> HIDE DEF parts, body
  <1>5. /\ DOMAIN c.heads = DOMAIN q /\ c.conj = body.tmpl /\ last = LastOp(q)
        /\ \A i \in DOMAIN q : c.heads[i].source = q[i].source /\ c.heads[i].key = q[i].key
        /\ List(TailTables(last)) /\ c.sources = body.sources \o TailTables(last)
    BY <1>1 DEF CompiledIs
  <1>6. Elements(c.sources) = Elements(body.sources) \cup Elements(TailTables(last))
    BY <1>3, <1>5, ElementsConcat
  <1>7. ASSUME NEW j \in DOMAIN c.conj
        PROVE  LET i == c.conj[j].part  tm == c.conj[j].tmpl
               IN  /\ i \in DOMAIN q /\ TmplColumns(c.heads[i].source, tm) \subseteq PartColumns(q[i])
                   /\ \A x \in TmplColumns(c.heads[i].source, tm) : x[1] \in Elements(c.sources)
                   /\ tm.t = "wide" => \E k \in DOMAIN q[i].ops : q[i].ops[k].kind = "feature" /\ tm.name = q[i].ops[k].name
    <2>1. c.conj[j] \in Elements(body.tmpl)
      BY <1>5 DEF Elements
    <2>2. PICK i \in DOMAIN q : c.conj[j] \in Elements(parts[i].tmpl)
      BY <1>3, <2>1
    <2>3. c.conj[j].part = i /\ c.heads[i].source = q[i].source
      BY <1>4, <1>5, <2>2
    <2>4. Elements(parts[i].sources) \subseteq Elements(c.sources)
      BY <1>3, <1>6
    <2> QED
      BY <1>4, <2>2, <2>3, <2>4
  <1>8. referenced_columns(q) = UNION {PartColumns(q[i]) : i \in DOMAIN q}
    BY DEF referenced_columns, PartColumns
  <1>9. \A i \in DOMAIN q : <<q[i].source, q[i].key>> \in PartColumns(q[i])
    BY DEF PartColumns
  <1>10. TailColumns(c) \subseteq PartColumns(q[1]) /\ \A x \in TailColumns(c) : x[1] \in Elements(c.sources)
    <2>1. CASE last.kind \in Terminal
      <3>1. q[1].ops # <<>> /\ last = q[1].ops[Len(q[1].ops)]
        BY <1>5, <2>1 DEF LastOp, Terminal
      <3>2. Len(q[1].ops) \in DOMAIN q[1].ops
        BY <1>2, <3>1, CutList, ListFacts
      <3>3. OpColumns(q[1], last) \subseteq PartColumns(q[1])
        BY <3>1, <3>2 DEF PartColumns
      <3>4. last.event \in Elements(c.sources)
        BY <1>6, <2>1, ElementsShort DEF TailTables
      <3>5. TailColumns(c) = OpColumns(q[1], last) /\ \A x \in TailColumns(c) : x[1] = last.event
        <4>1. CASE last.kind = "derive"
          BY <4>1 DEF TailColumns, OpColumns
        <4>2. CASE last.kind = "characterize"
          BY <4>2 DEF TailColumns, OpColumns
        <4> QED
          BY <2>1, <4>1, <4>2 DEF Terminal
      <3> QED
        BY <3>3, <3>4, <3>5
    <2>2. CASE last.kind \notin Terminal
      BY <2>2 DEF Terminal, TailColumns
    <2> QED
      BY <2>1, <2>2
  <1>11. ASSUME NEW x \in SqlColumns(c) PROVE x \in referenced_columns(q) /\ x[1] \in Elements(c.sources)
    <2>1. CASE \E i \in DOMAIN c.heads : x = <<c.heads[i].source, c.heads[i].key>>
      <3>1. PICK i \in DOMAIN q : x = <<q[i].source, q[i].key>>
        BY <1>5, <2>1
      <3>2. q[i].source \in Elements(c.sources)
        BY <1>3, <1>4, <1>6
      <3> QED
        BY <1>8, <1>9, <3>1, <3>2
    <2>2. CASE \E j \in DOMAIN c.conj : x \in TmplColumns(c.heads[c.conj[j].part].source, c.conj[j].tmpl)
      BY <1>7, <1>8, <2>2
    <2>3. CASE x \in TailColumns(c)
      BY <1>2, <1>8, <1>10, <2>3
    <2> DEFINE A == {<<c.heads[i].source, c.heads[i].key>> : i \in DOMAIN c.heads}
               B == {TmplColumns(c.heads[c.conj[j].part].source, c.conj[j].tmpl) : j \in DOMAIN c.conj}
    <2>4. x \in A \/ (\E b \in B : x \in b) \/ x \in TailColumns(c)
      <3>1. SqlColumns(c) = (A \cup UNION B) \cup TailColumns(c)
        BY Zenon DEF SqlColumns
      <3> HIDE DEF A, B
      <3> QED
        BY <3>1
    <2> QED
      BY <2>1, <2>2, <2>3, <2>4
  <1>12. ASSUME NEW f \in SqlFeatures(c) PROVE f \in referenced_features(q)
    <2>1. PICK j \in DOMAIN c.conj : c.conj[j].tmpl.t = "wide" /\ f = c.conj[j].tmpl.name
      BY DEF SqlFeatures
    <2>2. PICK i \in DOMAIN q : \E k \in DOMAIN q[i].ops : q[i].ops[k].kind = "feature" /\ f = q[i].ops[k].name
      BY <1>7, <2>1
    <2> QED
      BY <2>2 DEF referenced_features
  <1> QED
    BY <1>11, <1>12 DEF SqlTables

\* What the parts of a query stand for: the keys of the rows they keep.
PartKeys(p, db, t, now, rules) == {b[p.key] : b \in {r \in db.raw[p.source] : Kept(p, r, db, t, now, rules)}}

\* Arg[j]: the parameters that are found at the place of template j.
ArgsOf(c) == [j \in DOMAIN c.conj |-> SubSeq(c.params, Start(c)[j], Start(c)[j + 1] - 1)]

\* Every part keeps the rows that it means.
Selects(c, q, db, t, now, rules) ==
    \A i \in DOMAIN q : \A b :
        (\A j \in DOMAIN c.conj : c.conj[j].part = i => ConjHolds(c.conj[j].tmpl, ArgsOf(c)[j], b, db, now))
          <=> Kept(q[i], b, db, t, now, rules)

\* Every part keeps the rows that it means, with the parameters that its
\* templates find at their places.
LEMMA QueryParts ==
    ASSUME NEW q, Valid(q), NEW t, NEW rules, RulesOK(rules), NEW limit, NEW c, c = compile_with_opts(q, t, rules, limit),
           c.ok, NEW db, Database(db), Bindable(c, db), NEW now \in Int
    PROVE  /\ Start(c)[Len(c.conj) + 1] = Len(Join(Parts(q, t, rules)).params) + 1
           /\ Selects(c, q, db, t, now, rules)
  <1> DEFINE parts == Parts(q, t, rules)
             body == Join(parts)
             Hold(y, b) == ConjHolds(y[1].tmpl, y[2], b, db, now)
             N(T) == [j \in DOMAIN T |-> T[j].tmpl.n]
             Good(i, D) == Serves(parts[i], D, i, q[i], db, t, now, rules)
  <1>1. CompiledIs(c, q, t, parts, body)
    BY CompiledShape
  <1>2. \A i \in DOMAIN q : /\ q[i].as_of \in Int \cup {Null} /\ List(q[i].ops)
                            /\ \A j \in DOMAIN q[i].ops : SegmentOp(q[i].ops[j]) /\ validate_op(q[i].ops[j])
    BY ValidFacts
  <1>3. /\ List(parts) /\ DOMAIN parts = DOMAIN q /\ \A i \in DOMAIN q : parts[i].ok /\ PieceOK(parts[i])
        /\ PieceOK(body) /\ Elements(body.tmpl) = UNION {Elements(parts[i].tmpl) : i \in DOMAIN q}
        /\ DOMAIN c.heads = DOMAIN q /\ \A i \in DOMAIN q : c.heads[i].source = q[i].source
        /\ c.conj = body.tmpl
        /\ List(TailParams(c.last, t)) /\ c.params = body.params \o TailParams(c.last, t)
    BY <1>1 DEF CompiledIs
  <1>4. \A i \in DOMAIN q : parts[i] = compile_part(q, i, t, rules)
    BY DEF Parts
  <1> HIDE DEF parts, body, Hold
  <1>5. ASSUME NEW i \in DOMAIN q PROVE \E D : Good(i, D)
    <2>1. ASSUME NEW y \in Elements(parts[i].tmpl) PROVE Present(db, TmplColumns(q[i].source, y.tmpl))
      <3>1. y \in Elements(body.tmpl)
        BY <1>3
      <3>2. PICK j \in DOMAIN c.conj : y = c.conj[j]
        BY <1>3, <3>1 DEF Elements
      <3>3. PartNamed(q[i], i, parts[i])
        <4>1. List(q[i].ops) /\ \A j2 \in DOMAIN q[i].ops : SegmentOp(q[i].ops[j2])
          BY <1>2
        <4> QED
          BY <1>4, <4>1, PartNames
      <3>4. y.part = i
        BY <3>3 DEF PartNamed
      <3>5. TmplColumns(c.heads[i].source, y.tmpl) \subseteq SqlColumns(c)
        BY <3>2, <3>4 DEF SqlColumns
      <3>6. \A x \in SqlColumns(c) : x[1] \in Datasets /\ x[2] \in db.columns[x[1]]
        BY DEF Bindable
      <3> QED
        BY <1>3, <3>5, <3>6 DEF Present
    <2> DEFINE x == parts[i]
    <2>2. PartOK(q[i])
      BY <1>2 DEF PartOK
    <2>3. /\ x = compile_part(q, i, t, rules) /\ x.ok
          /\ \A y \in Elements(x.tmpl) : Present(db, TmplColumns(q[i].source, y.tmpl))
      BY <1>3, <1>4, <2>1
    <2> HIDE DEF x
    <2>4. \E D : Serves(x, D, i, q[i], db, t, now, rules)
      BY <2>2, <2>3, PartMeans
    <2> QED
      BY <2>4 DEF x
  <1> DEFINE D == [i \in DOMAIN q |-> CHOOSE S : Good(i, S)]
  <1>60. \A i \in DOMAIN q : Good(i, D[i])
    <2> HIDE DEF Good
    <2> QED
      BY <1>5
  <1>6. \A i \in DOMAIN q : /\ Bound(parts[i].tmpl, N(parts[i].tmpl), parts[i].params, D[i])
                            /\ \A y \in D[i] : y[1].part = i
                            /\ \A b : (\A y \in D[i] : Hold(y, b)) <=> Kept(q[i], b, db, t, now, rules)
    <2> SUFFICES ASSUME NEW i \in DOMAIN q
                 PROVE  /\ Bound(parts[i].tmpl, N(parts[i].tmpl), parts[i].params, D[i])
                        /\ \A y \in D[i] : y[1].part = i
                        /\ \A b : (\A y \in D[i] : Hold(y, b)) <=> Kept(q[i], b, db, t, now, rules)
      OBVIOUS
    <2>1. Serves(parts[i], D[i], i, q[i], db, t, now, rules)
      BY <1>60
    <2> HIDE DEF D
    <2> QED
      BY <2>1, Zenon DEF Serves, Hold
  <1> HIDE DEF D
  <1> DEFINE C == [y \in Elements(body.tmpl) |-> y.tmpl.n]
             All == UNION {D[i] : i \in DOMAIN parts}
  <1>7. \A i \in DOMAIN parts : Uses(parts[i].tmpl, C, parts[i].params, D[i])
    <2> SUFFICES ASSUME NEW i \in DOMAIN parts PROVE Uses(parts[i].tmpl, C, parts[i].params, D[i])
      OBVIOUS
    <2> DEFINE T == parts[i].tmpl
               M == [j \in DOMAIN T |-> C[T[j]]]
    <2>1. \A j \in DOMAIN T : T[j] \in Elements(body.tmpl)
      <3>1. \A j \in DOMAIN T : T[j] \in Elements(T)
        BY DEF Elements
      <3> QED
        BY <1>3, <3>1
    <2>2. \A j \in DOMAIN T : M[j] = N(T)[j]
      BY <2>1
    <2>3. Bound(T, N(T), parts[i].params, D[i])
      BY <1>3, <1>6
    <2> HIDE DEF N, T, M
    <2>4. Bound(T, M, parts[i].params, D[i])
      BY <2>2, <2>3, BoundSame
    <2> HIDE DEF C
    <2> QED
      BY <2>4, Zenon DEF T, M, Uses
  <1>8. Uses(body.tmpl, C, body.params, All)
    <2> HIDE DEF C, All
    <2>1. All = UNION {D[i] : i \in DOMAIN parts}
      BY DEF All
    <2>2. List(parts) /\ \A i \in DOMAIN parts : PieceOK(parts[i])
      BY <1>3
    <2>3. Uses(Join(parts).tmpl, C, Join(parts).params, All)
      BY <1>7, <2>1, <2>2, JoinBound, Zenon
    <2> QED
      BY <2>3 DEF body
  <1> DEFINE T == body.tmpl
             M == [j \in DOMAIN T |-> C[T[j]]]
             P == body.params
  <1>9. PICK pos : Places(pos, T, M, P) /\ All = {<<T[j], SubSeq(P, pos[j], pos[j + 1] - 1)>> : j \in DOMAIN T}
    <2>1. Bound(T, M, P, All)
      <3> HIDE DEF C, All
      <3> QED
        BY <1>8, Zenon DEF Uses
    <2> HIDE DEF T, M, P, All
    <2> QED
      BY <2>1 DEF Bound
  <1>10. \A j \in DOMAIN T : M[j] = T[j].tmpl.n
    BY DEF Elements
  <1>11. \A j \in 1..(Len(T) + 1) : Start(c)[j] = pos[j]
    <2>1. List(c.conj) /\ c.conj = T
      BY <1>3 DEF PieceOK
    <2> HIDE DEF T, M, All, P
    <2>2. PlacesOf(c, T, pos, M, P)
      BY <1>9, <1>10, <2>1 DEF PlacesOf
    <2> QED
      BY <2>2, StartIs
  <1>12. ASSUME NEW j \in DOMAIN T PROVE <<T[j], ArgsOf(c)[j]>> \in All
    <2>1. List(T) /\ List(P) /\ Len(T) \in Nat /\ DOMAIN T = 1..Len(T) /\ Len(P) \in Nat
      BY <1>3, ListFacts DEF PieceOK
    <2> HIDE DEF T, M, P
    <2>2. /\ j \in 1..(Len(T) + 1) /\ j + 1 \in 1..(Len(T) + 1)
          /\ pos[j] \in 1..(Len(P) + 1) /\ pos[j + 1] \in 1..(Len(P) + 1)
      BY <1>9, <2>1 DEF Places
    <2>3. ArgsOf(c)[j] = SubSeq(c.params, pos[j], pos[j + 1] - 1)
      BY <1>3, <1>11, <2>2 DEF ArgsOf, T
    <2>4. SubSeq(c.params, pos[j], pos[j + 1] - 1) = SubSeq(P, pos[j], pos[j + 1] - 1)
      <3>1. c.params = P \o TailParams(c.last, t)
        BY <1>3 DEF P
      <3>2. pos[j] \in Int /\ pos[j + 1] - 1 \in Int /\ 1 <= pos[j] /\ pos[j + 1] - 1 <= Len(P)
        BY <2>1, <2>2
      <3> DEFINE a == pos[j]
                 z == pos[j + 1] - 1
                 tail == TailParams(c.last, t)
      <3>3. List(P) /\ List(tail) /\ c.params = P \o tail /\ a \in Int /\ z \in Int /\ 1 <= a /\ z <= Len(P)
        BY <1>3, <2>1, <3>1, <3>2
      <3> HIDE DEF a, z, tail
      <3>4. SubSeq(P \o tail, a, z) = SubSeq(P, a, z)
        BY <3>3, SubSeqConcat
      <3> QED
        BY <3>3, <3>4 DEF a, z
    <2> HIDE DEF All
    <2> QED
      BY <1>9, <2>3, <2>4
  <1>13. ASSUME NEW i \in DOMAIN q, NEW y \in D[i] PROVE \E j \in DOMAIN T : y = <<T[j], ArgsOf(c)[j]>> /\ T[j].part = i
    <2>1. y \in All
      BY <1>3
    <2> HIDE DEF T, M, P, All
    <2>2. PICK j \in DOMAIN T : y = <<T[j], SubSeq(P, pos[j], pos[j + 1] - 1)>>
      BY <1>9, <2>1
    <2>3. y[1].part = i
      BY <1>6
    <2>4. List(T) /\ List(P) /\ Len(T) \in Nat /\ DOMAIN T = 1..Len(T) /\ Len(P) \in Nat
      BY <1>3, ListFacts DEF PieceOK, T, P
    <2>5. /\ j \in 1..(Len(T) + 1) /\ j + 1 \in 1..(Len(T) + 1)
          /\ pos[j] \in 1..(Len(P) + 1) /\ pos[j + 1] \in 1..(Len(P) + 1)
      BY <1>9, <2>4 DEF Places
    <2>6. ArgsOf(c)[j] = SubSeq(c.params, pos[j], pos[j + 1] - 1)
      BY <1>3, <1>11, <2>5 DEF ArgsOf, T
    <2>7. SubSeq(c.params, pos[j], pos[j + 1] - 1) = SubSeq(P, pos[j], pos[j + 1] - 1)
      <3>1. c.params = P \o TailParams(c.last, t)
        BY <1>3 DEF P
      <3>2. pos[j] \in Int /\ pos[j + 1] - 1 \in Int /\ 1 <= pos[j] /\ pos[j + 1] - 1 <= Len(P)
        BY <2>4, <2>5
      <3> DEFINE a == pos[j]
                 z == pos[j + 1] - 1
                 tail == TailParams(c.last, t)
      <3>3. List(P) /\ List(tail) /\ c.params = P \o tail /\ a \in Int /\ z \in Int /\ 1 <= a /\ z <= Len(P)
        BY <1>3, <2>4, <3>1, <3>2
      <3> HIDE DEF a, z, tail
      <3>4. SubSeq(P \o tail, a, z) = SubSeq(P, a, z)
        BY <3>3, SubSeqConcat
      <3> QED
        BY <3>3, <3>4 DEF a, z
    <2>8. y[1] = T[j]
      BY <2>2
    <2> QED
      BY <2>2, <2>3, <2>6, <2>7, <2>8
  <1>14. ASSUME NEW i \in DOMAIN q, NEW y \in All, y[1].part = i PROVE y \in D[i]
    <2>1. PICK k \in DOMAIN q : y \in D[k]
      BY <1>3
    <2>2. y[1].part = k
      BY <1>6, <2>1
    <2> QED
      BY <1>14, <2>1, <2>2
  <1> SUFFICES ASSUME NEW i \in DOMAIN q, NEW b
               PROVE  (\A j \in DOMAIN T : T[j].part = i => ConjHolds(T[j].tmpl, ArgsOf(c)[j], b, db, now))
                        <=> Kept(q[i], b, db, t, now, rules)
    <2>1. Start(c)[Len(T) + 1] = Len(P) + 1
      <3>1. Len(T) \in Nat
        BY <1>3, ListFacts DEF PieceOK
      <3>2. pos[Len(T) + 1] = Len(P) + 1
        BY <1>9 DEF Places
      <3> HIDE DEF T, P, M, All
      <3> QED
        BY <1>11, <3>1, <3>2
    <2>2. Start(c)[Len(c.conj) + 1] = Len(body.params) + 1
      BY <1>3, <2>1
    <2>3. Start(c)[Len(c.conj) + 1] = Len(Join(Parts(q, t, rules)).params) + 1
      BY <2>2 DEF body, parts
    <2> QED
      BY <1>3, <2>3 DEF Selects
  <1> HIDE DEF T, M, P, All, C, N
  <1>15. (\A y \in D[i] : Hold(y, b)) <=> Kept(q[i], b, db, t, now, rules)
    BY <1>6
  <1>16. \A j \in DOMAIN T : /\ <<T[j], ArgsOf(c)[j]>>[1] = T[j] /\ <<T[j], ArgsOf(c)[j]>>[2] = ArgsOf(c)[j]
                             /\ Hold(<<T[j], ArgsOf(c)[j]>>, b) <=> ConjHolds(T[j].tmpl, ArgsOf(c)[j], b, db, now)
    BY DEF Hold
  <1>17. ASSUME \A y \in D[i] : Hold(y, b), NEW j \in DOMAIN T, T[j].part = i
         PROVE  ConjHolds(T[j].tmpl, ArgsOf(c)[j], b, db, now)
    <2>1. <<T[j], ArgsOf(c)[j]>> \in D[i]
      BY <1>12, <1>14, <1>16, <1>17
    <2> QED
      BY <1>16, <1>17, <2>1
  <1>18. ASSUME \A j \in DOMAIN T : T[j].part = i => ConjHolds(T[j].tmpl, ArgsOf(c)[j], b, db, now), NEW y \in D[i]
         PROVE  Hold(y, b)
    <2>1. PICK j \in DOMAIN T : y = <<T[j], ArgsOf(c)[j]>> /\ T[j].part = i
      BY <1>13
    <2> QED
      BY <1>16, <1>18, <2>1
  <1> QED
    BY <1>15, <1>17, <1>18

\* The keys and the operators of the parts of a query.
KeySets(q, db, t, now, rules) == [i \in DOMAIN q |-> PartKeys(q[i], db, t, now, rules)]
Operators(q) == [i \in 1..(Len(q) - 1) |-> q[i].ops[Len(q[i].ops)].set]

\* g combines them, from the last part to the first.
Result(g, q, db, t, now, rules) ==
    /\ g = [i \in DOMAIN q |-> g[i]]
    /\ Combined(g, Len(q), KeySets(q, db, t, now, rules), Operators(q))

\* There is such a g, and its values are keys of the parts.
LEMMA ResultExists ==
    ASSUME NEW q, Valid(q), NEW db, NEW t, NEW now, NEW rules
    PROVE  \E g : /\ Result(g, q, db, t, now, rules)
                  /\ g[1] \subseteq UNION {PartKeys(q[i], db, t, now, rules) : i \in DOMAIN q}
  <1> DEFINE n == Len(q)
             K == KeySets(q, db, t, now, rules)
             k == Operators(q)
             U == UNION {PartKeys(q[i], db, t, now, rules) : i \in DOMAIN q}
  <1>1. n \in Nat \ {0} /\ DOMAIN q = 1..n
    BY ValidFacts
  <1>2. \A i \in 1..n : K[i] \in SUBSET U
    BY <1>1 DEF KeySets
  <1>3. \A i \in 1..(n - 1) : k[i] \in Kinds
    <2>1. \A i \in 1..(n - 1) : q[i].ops[Len(q[i].ops)].set \in Kinds
      BY ValidFacts
    <2> QED
      BY <2>1 DEF Operators
  <1> HIDE DEF n, K, k, U
  <1>4. PICK g \in [1..n -> SUBSET U] : Combined(g, n, K, k)
    BY <1>1, <1>2, <1>3, CombinedExists
  <1>5. g = [i \in DOMAIN q |-> g[i]]
    BY <1>1
  <1>6. g[1] \subseteq U
    BY <1>1
  <1>7. Result(g, q, db, t, now, rules)
    BY <1>4, <1>5 DEF Result, n, K, k
  <1> QED
    BY <1>6, <1>7 DEF U

\* Two such functions agree.
LEMMA ResultUnique ==
    ASSUME NEW q, Valid(q), NEW db, NEW t, NEW now, NEW rules,
           NEW f, Result(f, q, db, t, now, rules), NEW g, Result(g, q, db, t, now, rules)
    PROVE  f[1] = g[1]
  <1>1. Len(q) \in Nat \ {0}
    BY ValidFacts
  <1> QED
    BY <1>1, CombinedUnique DEF Result

\* What a query means is such a result.
LEMMA DenotationIs ==
    ASSUME NEW q, Valid(q), NEW db, Database(db), NEW t, NEW now, NEW rules,
           \A i \in DOMAIN q : q[i].source \in Datasets,
           NEW g, Result(g, q, db, t, now, rules)
    PROVE  Denotation(q, db, t, now, rules) = g[1]
  <1> DEFINE own == Own(db, t)
             Of(p) == {b[p.key] : b \in {r \in own.raw[p.source] :
                                           \A j \in DOMAIN p.ops : Meets(p.ops[j], p, r, own, now, rules)}}
             n == Len(q)
             K == KeySets(q, db, t, now, rules)
             k == Operators(q)
             from[i \in DOMAIN q] ==
               IF EndsIn(q[i], {"setOp"}) THEN Combine(q[i].ops[Len(q[i].ops)].set, Of(q[i]), from[i + 1])
               ELSE Of(q[i])
  <1>1. n \in Nat \ {0} /\ DOMAIN q = 1..n /\ \A i \in DOMAIN q : EndsIn(q[i], {"setOp"}) <=> i # n
    BY ValidFacts
  <1>2. \A i \in DOMAIN q : K[i] = Of(q[i])
    <2> SUFFICES ASSUME NEW i \in DOMAIN q PROVE K[i] = Of(q[i])
      OBVIOUS
    <2> DEFINE p == q[i]
    <2>1. p.source \in Datasets
      OBVIOUS
    <2> HIDE DEF p
    <2>2. own.raw[p.source] = {r \in db.raw[p.source] : r.tenant_id = t}
      BY <2>1, OwnFacts
    <2>3. {r \in own.raw[p.source] : \A j \in DOMAIN p.ops : Meets(p.ops[j], p, r, own, now, rules)}
            = {r \in db.raw[p.source] : Kept(p, r, db, t, now, rules)}
      BY <2>2 DEF Kept
    <2>4. Of(p) = PartKeys(p, db, t, now, rules)
      BY <2>3, Zenon DEF PartKeys
    <2>5. K[i] = PartKeys(q[i], db, t, now, rules)
      BY DEF KeySets
    <2> QED
      BY <2>4, <2>5, Zenon DEF p
  <1>3. \A i \in 1..(n - 1) : k[i] = q[i].ops[Len(q[i].ops)].set
    BY DEF Operators
  <1>4. Combined(g, n, K, k) /\ g = [i \in DOMAIN q |-> g[i]]
    BY DEF Result
  <1> DEFINE Step(h, i) == IF EndsIn(q[i], {"setOp"}) THEN Combine(q[i].ops[Len(q[i].ops)].set, Of(q[i]), h[i + 1])
                           ELSE Of(q[i])
  <1>5. \A i \in DOMAIN q : g[i] = Step(g, i)
    <2> SUFFICES ASSUME NEW i \in DOMAIN q PROVE g[i] = Step(g, i)
      OBVIOUS
    <2> HIDE DEF Of, K, k, n, from
    <2>1. CASE i = n
      <3>1. g[i] = K[i] /\ ~EndsIn(q[i], {"setOp"})
        BY <1>1, <1>4, <2>1 DEF Combined
      <3> QED
        BY <1>2, <3>1
    <2>2. CASE i # n
      <3>1. i \in 1..(n - 1) /\ EndsIn(q[i], {"setOp"})
        BY <1>1, <2>2
      <3>2. g[i] = Combine(k[i], K[i], g[i + 1])
        BY <1>4, <3>1 DEF Combined
      <3> QED
        BY <1>2, <1>3, <3>1, <3>2
    <2> QED
      BY <2>1, <2>2
  <1>6. g = [i \in DOMAIN q |-> Step(g, i)]
    <2> HIDE DEF Step
    <2> QED
      BY <1>4, <1>5
  <1>7. from = [i \in DOMAIN q |-> Step(from, i)]
    <2> HIDE DEF Of
    <2> QED
      BY <1>6, Zenon
  <1>8. Denotation(q, db, t, now, rules) = from[1]
    BY Zenon DEF Denotation
  <1> HIDE DEF from
  <1>9. \A i \in DOMAIN q : from[i] = Step(from, i)
    <2> HIDE DEF Step
    <2> QED
      BY <1>7
  <1>10. Combined(from, n, K, k)
    <2> HIDE DEF Of, K, k, n
    <2>1. from[n] = K[n]
      BY <1>1, <1>2, <1>9
    <2>2. ASSUME NEW i \in 1..(n - 1) PROVE from[i] = Combine(k[i], K[i], from[i + 1])
      <3>1. i \in DOMAIN q /\ EndsIn(q[i], {"setOp"})
        BY <1>1
      <3> QED
        BY <1>2, <1>3, <1>9, <3>1
    <2> QED
      BY <2>1, <2>2 DEF Combined
  <1>11. from = [i \in DOMAIN q |-> from[i]]
    <2> HIDE DEF Step
    <2> QED
      BY <1>7
  <1>12. Result(from, q, db, t, now, rules)
    BY <1>10, <1>11, Zenon DEF Result
  <1> HIDE DEF n, K, k, Step, Of, own
  <1>13. from[1] = g[1]
    BY <1>12, ResultUnique
  <1> QED
    BY <1>8, <1>13

\* What the database answers to a compiled query is such a result as well.
LEMMA SegmentsAre ==
    ASSUME NEW q, Valid(q), NEW t, NEW rules, RulesOK(rules), NEW limit, NEW c, c = compile_with_opts(q, t, rules, limit),
           c.ok, NEW db, Database(db), Bindable(c, db), NEW now \in Int, NEW g, Result(g, q, db, t, now, rules)
    PROVE  Segments(c, c.params, db, now) = g[1]
  <1> DEFINE pos == Start(c)
             Arg(j) == SubSeq(c.params, pos[j], pos[j + 1] - 1)
             Keys(i) == {b[c.heads[i].key] :
                           b \in {r \in db.raw[c.heads[i].source] :
                                    \A j \in DOMAIN c.conj : c.conj[j].part = i =>
                                       ConjHolds(c.conj[j].tmpl, Arg(j), r, db, now)}}
             n == Len(q)
             K == KeySets(q, db, t, now, rules)
             k == Operators(q)
             rest[i \in DOMAIN c.heads] ==
               IF i = Len(c.heads) THEN Keys(i) ELSE Combine(c.kinds[i], Keys(i), rest[i + 1])
  <1>1. CompiledIs(c, q, t, Parts(q, t, rules), Join(Parts(q, t, rules)))
    BY CompiledShape
  <1>2. /\ DOMAIN c.heads = DOMAIN q /\ Len(c.heads) = n
        /\ \A i \in DOMAIN q : c.heads[i].source = q[i].source /\ c.heads[i].key = q[i].key
        /\ \A i \in 1..(n - 1) : c.kinds[i] = q[i].ops[Len(q[i].ops)].set
    BY <1>1 DEF CompiledIs
  <1>3. n \in Nat \ {0} /\ DOMAIN q = 1..n
    BY ValidFacts
  <1>4. \A i \in DOMAIN q : K[i] = Keys(i)
    <2> SUFFICES ASSUME NEW i \in DOMAIN q PROVE K[i] = Keys(i)
      OBVIOUS
    <2> DEFINE p == q[i]
               Cond(r) == \A j \in DOMAIN c.conj : c.conj[j].part = i => ConjHolds(c.conj[j].tmpl, Arg(j), r, db, now)
    <2>1. \A r : Cond(r) <=> Kept(p, r, db, t, now, rules)
      <3>1. \A j \in DOMAIN c.conj : Arg(j) = ArgsOf(c)[j]
        BY DEF ArgsOf
      <3> HIDE DEF Arg
      <3>2. \A r : (\A j \in DOMAIN c.conj : c.conj[j].part = i => ConjHolds(c.conj[j].tmpl, ArgsOf(c)[j], r, db, now))
                     <=> Kept(p, r, db, t, now, rules)
        <4>1. Selects(c, q, db, t, now, rules)
          BY QueryParts
        <4> QED
          BY <4>1 DEF Selects
      <3> QED
        BY <3>1, <3>2
    <2>2. c.heads[i].source = p.source /\ c.heads[i].key = p.key
      BY <1>2
    <2>3. Keys(i) = {b[p.key] : b \in {r \in db.raw[p.source] : Cond(r)}}
      BY <2>2
    <2>4. K[i] = PartKeys(p, db, t, now, rules)
      BY DEF KeySets
    <2> HIDE DEF Cond, p, Keys
    <2>5. {r \in db.raw[p.source] : Cond(r)} = {r \in db.raw[p.source] : Kept(p, r, db, t, now, rules)}
      BY <2>1
    <2> QED
      BY <2>3, <2>4, <2>5 DEF PartKeys
  <1>5. \A i \in 1..(n - 1) : k[i] = c.kinds[i]
    BY <1>2 DEF Operators
  <1>6. Combined(g, n, K, k) /\ g = [i \in DOMAIN q |-> g[i]]
    BY DEF Result
  <1> DEFINE Step(h, i) == IF i = Len(c.heads) THEN Keys(i) ELSE Combine(c.kinds[i], Keys(i), h[i + 1])
  <1>7. \A i \in DOMAIN q : g[i] = Step(g, i)
    <2> SUFFICES ASSUME NEW i \in DOMAIN q PROVE g[i] = Step(g, i)
      OBVIOUS
    <2> HIDE DEF Keys, K, k, n, rest
    <2>1. CASE i = n
      BY <1>2, <1>4, <1>6, <2>1 DEF Combined
    <2>2. CASE i # n
      <3>1. i \in 1..(n - 1)
        BY <1>3, <2>2
      <3>2. g[i] = Combine(k[i], K[i], g[i + 1])
        BY <1>6, <3>1 DEF Combined
      <3> QED
        BY <1>2, <1>4, <1>5, <2>2, <3>1, <3>2
    <2> QED
      BY <2>1, <2>2
  <1>8. g = [i \in DOMAIN c.heads |-> Step(g, i)]
    <2> HIDE DEF Step
    <2> QED
      BY <1>2, <1>6, <1>7
  <1>9. rest = [i \in DOMAIN c.heads |-> Step(rest, i)]
    <2> HIDE DEF Keys
    <2> QED
      BY <1>8, Zenon
  <1>10. Segments(c, c.params, db, now) = rest[1]
    BY Zenon DEF Segments
  <1> HIDE DEF rest
  <1>11. \A i \in DOMAIN q : rest[i] = Step(rest, i)
    <2> HIDE DEF Step
    <2> QED
      BY <1>2, <1>9
  <1>12. Combined(rest, n, K, k)
    <2> HIDE DEF Keys, K, k, n
    <2>1. rest[n] = K[n]
      BY <1>2, <1>3, <1>4, <1>11
    <2>2. ASSUME NEW i \in 1..(n - 1) PROVE rest[i] = Combine(k[i], K[i], rest[i + 1])
      <3>1. i \in DOMAIN q /\ i # n
        BY <1>3
      <3> QED
        BY <1>2, <1>4, <1>5, <1>11, <3>1
    <2> QED
      BY <2>1, <2>2 DEF Combined
  <1>13. rest = [i \in DOMAIN q |-> rest[i]]
    <2> HIDE DEF Step
    <2> QED
      BY <1>2, <1>9
  <1>14. Result(rest, q, db, t, now, rules)
    BY <1>12, <1>13, Zenon DEF Result
  <1> HIDE DEF n, K, k, Step, Keys, Arg, pos
  <1>15. rest[1] = g[1]
    BY <1>14, ResultUnique
  <1> QED
    BY <1>10, <1>15

\* A statement that can be bound reads tables that exist.
LEMMA SourcesExist ==
    ASSUME NEW q, Valid(q), NEW t, NEW rules, NEW limit, NEW c, c = compile_with_opts(q, t, rules, limit),
           NEW db, Bindable(c, db)
    PROVE  \A i \in DOMAIN q : q[i].source \in Datasets
  <1>1. CompiledIs(c, q, t, Parts(q, t, rules), Join(Parts(q, t, rules)))
    BY CompiledShape
  <1>2. DOMAIN c.heads = DOMAIN q /\ \A i \in DOMAIN q : c.heads[i].source = q[i].source
    BY <1>1 DEF CompiledIs
  <1> SUFFICES ASSUME NEW i \in DOMAIN q PROVE q[i].source \in Datasets
    OBVIOUS
  <1> DEFINE x == <<c.heads[i].source, c.heads[i].key>>
  <1>3. x \in SqlColumns(c)
    BY <1>2 DEF SqlColumns
  <1>4. x[1] = c.heads[i].source
    OBVIOUS
  <1> HIDE DEF x
  <1> QED
    BY <1>2, <1>3, <1>4 DEF Bindable

\* The compiler is correct (compiler::compile_with_opts with parse::validate):
\* whatever query is accepted, whatever the database holds, the statement with
\* its parameters bound from left to right selects what the query means on the
\* data of the caller's tenant alone.
THEOREM CompilerCorrect ==
    ASSUME NEW q, Valid(q), NEW t, NEW rules, RulesOK(rules), NEW limit, NEW c, c = compile_with_opts(q, t, rules, limit),
           c.ok, NEW db, Database(db), Bindable(c, db), NEW now \in Int
    PROVE  Segments(c, c.params, db, now) = Denotation(q, db, t, now, rules)
  <1>1. PICK g : Result(g, q, db, t, now, rules)
    BY ResultExists
  <1>2. Segments(c, c.params, db, now) = g[1]
    BY <1>1, SegmentsAre
  <1>3. \A i \in DOMAIN q : q[i].source \in Datasets
    BY SourcesExist
  <1>4. Denotation(q, db, t, now, rules) = g[1]
    BY <1>1, <1>3, DenotationIs
  <1> QED
    BY <1>2, <1>4

\* It selects finitely many users.
LEMMA SegmentsFinite ==
    ASSUME NEW q, Valid(q), NEW t, NEW rules, RulesOK(rules), NEW limit, NEW c, c = compile_with_opts(q, t, rules, limit),
           c.ok, NEW db, Database(db), Bindable(c, db), NEW now \in Int
    PROVE  IsFiniteSet(Segments(c, c.params, db, now))
  <1> DEFINE K(i) == PartKeys(q[i], db, t, now, rules)
             U == UNION {K(i) : i \in DOMAIN q}
  <1>1. PICK g : Result(g, q, db, t, now, rules) /\ g[1] \subseteq U
    BY ResultExists
  <1>2. Segments(c, c.params, db, now) = g[1]
    BY <1>1, SegmentsAre
  <1>3. \A i \in DOMAIN q : q[i].source \in Datasets
    BY SourcesExist
  <1>4. ASSUME NEW i \in DOMAIN q PROVE IsFiniteSet(K(i))
    <2> DEFINE p == q[i]
               S == {r \in db.raw[p.source] : Kept(p, r, db, t, now, rules)}
               f == [b \in S |-> b[p.key]]
    <2>1. p.source \in Datasets
      BY <1>3
    <2> HIDE DEF p
    <2>2. IsFiniteSet(db.raw[p.source])
      BY <2>1 DEF Database
    <2>3. IsFiniteSet(S)
      BY <2>2, FS_Subset
    <2>4. K(i) = {f[b] : b \in DOMAIN f} /\ DOMAIN f = S
      BY DEF PartKeys, p
    <2> HIDE DEF f, S, K
    <2> QED
      BY <2>3, <2>4, FiniteImage
  <1>5. DOMAIN q = 1..Len(q) /\ Len(q) \in Nat
    BY ValidFacts
  <1> DEFINE F == [i \in DOMAIN q |-> K(i)]
  <1>6. IsFiniteSet(DOMAIN q)
    BY <1>5, FS_Interval
  <1>7. IsFiniteSet({F[i] : i \in DOMAIN F})
    <2>1. DOMAIN F = DOMAIN q
      OBVIOUS
    <2> HIDE DEF F
    <2> QED
      BY <1>6, <2>1, FiniteImage
  <1>8. IsFiniteSet(U)
    <2> DEFINE W == {F[i] : i \in DOMAIN F}
    <2>1. U = UNION W
      <3> HIDE DEF K
      <3> QED
        OBVIOUS
    <2>2. \A T \in W : IsFiniteSet(T)
      <3> HIDE DEF K
      <3> QED
        BY <1>4
    <2> HIDE DEF W, U
    <2> QED
      BY <1>7, <2>1, <2>2, FS_UNION DEF W
  <1> HIDE DEF U
  <1> QED
    BY <1>1, <1>2, <1>8, FS_Subset

-----------------------------------------------------------------------------
(***************************************************************************)
(* Metrics and profiles: an op that ends the outer segment, and the        *)
(* segment without it.                                                     *)
(***************************************************************************)
\* A metric or a profile ends a query of one part.
LEMMA TerminalFacts ==
    ASSUME NEW q, Valid(q)
    PROVE  /\ has_derive(q) <=> LastOp(q).kind = "derive"
           /\ has_characterize(q) <=> LastOp(q).kind = "characterize"
           /\ LastOp(q).kind \in Terminal =>
                /\ Len(q) = 1 /\ q[1].ops # <<>> /\ LastOp(q) = q[1].ops[Len(q[1].ops)]
                /\ \A j \in DOMAIN q[1].ops : j # Len(q[1].ops) => q[1].ops[j].kind \notin Terminal \cup {"setOp"}
  <1> DEFINE s == q[1].ops
             l == Len(s)
  <1>1. 1 \in DOMAIN q /\ List(s)
    BY ValidFacts
  <1>2. l \in Nat /\ DOMAIN s = 1..l
    BY <1>1, ListFacts
  <1>3. \A j \in DOMAIN s : s[j].kind \in Terminal \cup {"setOp"} => j = l
    BY <1>1 DEF Valid, validate, validate_positions
  <1>4. EndsIn(q[1], {"setOp"}) <=> 1 # Len(q)
    BY <1>1, ValidFacts
  <1>5. s # <<>> <=> l \in DOMAIN s
    <2> DEFINE R == {s[j] : j \in DOMAIN s}
    <2>1. s \in Seq(R)
      BY <1>1 DEF List
    <2> HIDE DEF R, s
    <2> QED
      BY <2>1
  <1>6. LastOp(q) = IF s = <<>> THEN [kind |-> "none"] ELSE s[l]
    BY DEF LastOp
  <1>7. (\E j \in DOMAIN s : s[j].kind = "derive") <=> LastOp(q).kind = "derive"
    <2> HIDE DEF s, l
    <2> QED
      BY <1>3, <1>5, <1>6 DEF Terminal
  <1>8. (\E j \in DOMAIN s : s[j].kind = "characterize") <=> LastOp(q).kind = "characterize"
    <2> HIDE DEF s, l
    <2> QED
      BY <1>3, <1>5, <1>6 DEF Terminal
  <1>9. ASSUME LastOp(q).kind \in Terminal PROVE s # <<>> /\ LastOp(q) = s[l] /\ 1 = Len(q)
    <2>1. s # <<>> /\ LastOp(q) = s[l]
      BY <1>6, <1>9 DEF Terminal
    <2>2. ~EndsIn(q[1], {"setOp"})
      BY <1>9, <2>1 DEF EndsIn, Terminal
    <2> QED
      BY <1>4, <2>1, <2>2
  <1>10. \A j \in DOMAIN s : j # l => s[j].kind \notin Terminal \cup {"setOp"}
    BY <1>3
  <1> QED
    BY <1>7, <1>8, <1>9, <1>10 DEF has_derive, has_characterize

\* s is q without its last op.
Narrowed(s, q) ==
    /\ DOMAIN s = {1} /\ DOMAIN q = {1} /\ Len(s) = 1 /\ Len(q) = 1
    /\ s[1].source = q[1].source /\ s[1].key = q[1].key /\ s[1].as_of = q[1].as_of
    /\ List(s[1].ops) /\ List(q[1].ops) /\ s[1].ops = SubSeq(q[1].ops, 1, Len(q[1].ops) - 1)
    /\ \A j \in DOMAIN s[1].ops : j \in DOMAIN q[1].ops /\ s[1].ops[j] = q[1].ops[j]
    /\ \A j \in DOMAIN q[1].ops : j \in DOMAIN s[1].ops \/ q[1].ops[j].kind \in Terminal
    /\ \A j \in DOMAIN s[1].ops : s[1].ops[j].kind \notin Terminal \cup {"setOp"}

\* strip_last_op: what is left is a query of its own.
LEMMA Stripped ==
    ASSUME NEW q, Valid(q), LastOp(q).kind \in Terminal, NEW s, s = strip_last_op(q)
    PROVE  Narrowed(s, q) /\ Valid(s) /\ LastOp(s).kind \notin Terminal
  <1> DEFINE p == q[1]
             u == SubSeq(p.ops, 1, Len(p.ops) - 1)
             x == [p EXCEPT !.ops = u]
  <1>1. /\ Len(q) = 1 /\ p.ops # <<>> /\ LastOp(q) = p.ops[Len(p.ops)]
        /\ \A j \in DOMAIN p.ops : j # Len(p.ops) => p.ops[j].kind \notin Terminal \cup {"setOp"}
    BY TerminalFacts
  <1>2. DOMAIN q = {1} /\ 1 \in DOMAIN q
    BY <1>1, ValidFacts
  <1>3. /\ DOMAIN p = {"source", "key", "as_of", "ops"} /\ p.as_of \in Int \cup {Null, BadTime}
        /\ List(p.ops) /\ (\A j \in DOMAIN p.ops : SegmentOp(p.ops[j]))
        /\ {p.source, p.key} \subseteq Idents /\ p.as_of # BadTime /\ Len(p.ops) <= MaxOps
        /\ \A j \in DOMAIN p.ops : validate_op(p.ops[j])
    BY <1>2 DEF Valid, Query, validate
  <1>4. /\ List(u) /\ DOMAIN u = 1..(Len(p.ops) - 1) /\ Len(p.ops) \in Nat \ {0} /\ Len(u) = Len(p.ops) - 1
        /\ \A j \in DOMAIN u : j \in DOMAIN p.ops /\ u[j] = p.ops[j]
        /\ \A j \in DOMAIN p.ops : j \in DOMAIN u \/ j = Len(p.ops)
    BY <1>1, <1>3, CutList
  <1>5. s = [q EXCEPT ![1] = x]
    BY DEF strip_last_op
  <1> HIDE DEF u
  <1>6. /\ x.ops = u /\ x.source = p.source /\ x.key = p.key /\ x.as_of = p.as_of
        /\ DOMAIN x = {"source", "key", "as_of", "ops"}
    <2> HIDE DEF p
    <2> QED
      BY <1>3
  <1> HIDE DEF p, x
  <1>7. s[1] = x /\ DOMAIN s = {1}
    BY <1>2, <1>5
  <1>8. List(s) /\ Len(s) = 1
    <2>1. s = [i \in {1} |-> s[i]]
      <3>1. s = [i \in DOMAIN q |-> IF i = 1 THEN x ELSE q[i]]
        BY <1>5, Zenon
      <3>2. s = [i \in {1} |-> IF i = 1 THEN x ELSE q[i]]
        BY <1>2, <3>1
      <3> QED
        BY <3>2
    <2>2. {1} = 1..1
      OBVIOUS
    <2>3. s = [i \in 1..1 |-> s[i]]
      BY <2>1, <2>2
    <2> QED
      BY <2>3, ListFn
  <1>9. \A j \in DOMAIN u : u[j].kind \notin Terminal \cup {"setOp"}
    <2> SUFFICES ASSUME NEW j \in DOMAIN u PROVE u[j].kind \notin Terminal \cup {"setOp"}
      OBVIOUS
    <2>1. j \in DOMAIN p.ops /\ u[j] = p.ops[j] /\ j # Len(p.ops)
      BY <1>4
    <2> QED
      BY <1>1, <2>1
  <1>10. \A j \in DOMAIN p.ops : j \in DOMAIN u \/ p.ops[j].kind \in Terminal
    BY <1>1, <1>4
  <1>11. Narrowed(s, q)
    <2>1. /\ s[1].ops = u /\ q[1].ops = p.ops
          /\ s[1].source = q[1].source /\ s[1].key = q[1].key /\ s[1].as_of = q[1].as_of
      BY <1>6, <1>7 DEF p
    <2>2. u = SubSeq(q[1].ops, 1, Len(q[1].ops) - 1)
      BY DEF u, p
    <2> QED
      BY <1>1, <1>2, <1>3, <1>4, <1>7, <1>8, <1>9, <1>10, <2>1, <2>2 DEF Narrowed
  <1>12. Query(s)
    <2>1. \A j \in DOMAIN u : SegmentOp(u[j])
      BY <1>3, <1>4
    <2>2. s # <<>>
      BY <1>7
    <2>3. ~\E j \in DOMAIN u : u[j].kind = "setOp"
      BY <1>9
    <2>4. \A i \in DOMAIN s : i = 1 /\ s[i] = x
      BY <1>7
    <2> QED
      BY <1>3, <1>4, <1>6, <1>8, <2>1, <2>2, <2>3, <2>4 DEF Query
  <1>13. validate(s)
    <2>1. \A j \in DOMAIN u : validate_op(u[j])
      BY <1>3, <1>4
    <2>2. validate_positions(u)
      BY <1>9 DEF validate_positions
    <2>3. \A i \in DOMAIN s : i = 1 /\ s[i] = x
      BY <1>7
    <2>4. Len(u) <= MaxOps
      BY <1>3, <1>4, SegmentAssumption
    <2> QED
      BY <1>3, <1>6, <2>1, <2>2, <2>3, <2>4 DEF validate
  <1>14. LastOp(s).kind \notin Terminal
    <2>0. s[1].ops = u
      BY <1>6, <1>7
    <2>1. LastOp(s) = IF u = <<>> THEN [kind |-> "none"] ELSE u[Len(u)]
      BY <2>0, Zenon DEF LastOp
    <2>2. CASE u = <<>>
      BY <2>1, <2>2 DEF Terminal
    <2>3. CASE u # <<>>
      <3>1. Len(u) \in DOMAIN u
        BY <1>4, <2>3, CutList
      <3> QED
        BY <1>9, <2>1, <2>3, <3>1
    <2> QED
      BY <2>2, <2>3
  <1> QED
    BY <1>11, <1>12, <1>13, <1>14 DEF Valid

\* It compiles to the text and the parameters that the query begins with.
LEMMA SameParts ==
    ASSUME NEW q, Valid(q), LastOp(q).kind \in Terminal, NEW s, s = strip_last_op(q), NEW t, NEW rules
    PROVE  Parts(s, t, rules) = Parts(q, t, rules)
  <1> DEFINE C == Conjunctive(q, 1)
  <1>1. Narrowed(s, q)
    BY Stripped
  <1>2. q[1].ops # <<>> /\ LastOp(q) = q[1].ops[Len(q[1].ops)]
    BY TerminalFacts
  <1>3. C = s[1].ops
    BY <1>1, <1>2 DEF Narrowed, Conjunctive, EndsIn
  <1>4. ~EndsIn(s[1], {"setOp"} \cup Terminal)
    <2> DEFINE u == s[1].ops
    <2>1. List(u) /\ \A j \in DOMAIN u : u[j].kind \notin Terminal \cup {"setOp"}
      BY <1>1 DEF Narrowed
    <2> HIDE DEF u
    <2>2. u # <<>> => Len(u) \in DOMAIN u
      <3> SUFFICES ASSUME u # <<>> PROVE Len(u) \in DOMAIN u
        OBVIOUS
      <3> DEFINE R == {u[j] : j \in DOMAIN u}
      <3>1. u \in Seq(R)
        BY <2>1 DEF List
      <3> HIDE DEF R
      <3> QED
        BY <3>1
    <2> QED
      BY <2>1, <2>2 DEF EndsIn, u
  <1>5. Conjunctive(s, 1) = s[1].ops
    BY <1>4 DEF Conjunctive
  <1>6. \A op : compile_op(s[1], op, t, rules) = compile_op(q[1], op, t, rules)
    BY <1>1 DEF Narrowed, compile_op
  <1>7. OpPieces(s, 1, t, rules) = OpPieces(q, 1, t, rules)
    <2>1. Conjunctive(s, 1) = C
      BY <1>3, <1>5
    <2> HIDE DEF C
    <2> QED
      BY <1>6, <2>1 DEF OpPieces, C
  <1>8. Join(PartPieces(s, 1, t, rules)) = Join(PartPieces(q, 1, t, rules))
    BY <1>7 DEF PartPieces
  <1>9. \A x : compile_part(x, 1, t, rules)
           = [Join(PartPieces(x, 1, t, rules)) EXCEPT
                !.tmpl = [j \in DOMAIN @ |-> [part |-> 1, tmpl |-> @[j]]],
                !.sources = <<x[1].source>> \o @]
    <2> SUFFICES ASSUME NEW x
                 PROVE  compile_part(x, 1, t, rules)
                          = [Join(PartPieces(x, 1, t, rules)) EXCEPT
                               !.tmpl = [j \in DOMAIN @ |-> [part |-> 1, tmpl |-> @[j]]],
                               !.sources = <<x[1].source>> \o @]
      OBVIOUS
    <2> DEFINE y == Join(<<Piece(<<[t |-> "tenant", n |-> 1]>>, <<t>>)>>
                            \o [j \in DOMAIN Conjunctive(x, 1) |-> compile_op(x[1], Conjunctive(x, 1)[j], t, rules)])
    <2>1. compile_part(x, 1, t, rules) =
            [y EXCEPT !.tmpl = [j \in DOMAIN @ |-> [part |-> 1, tmpl |-> @[j]]],
                      !.sources = <<x[1].source>> \o @]
      BY DEF compile_part, Conjunctive
    <2>2. y = Join(PartPieces(x, 1, t, rules))
      BY DEF PartPieces, OpPieces, TenantPiece, TenantTmpl
    <2> HIDE DEF y
    <2> QED
      BY <2>1, <2>2
  <1>10. s[1].source = q[1].source
    BY <1>1 DEF Narrowed
  <1>11. compile_part(s, 1, t, rules) = compile_part(q, 1, t, rules)
    <2> DEFINE y == Join(PartPieces(s, 1, t, rules))
               z == Join(PartPieces(q, 1, t, rules))
    <2>1. y = z
      BY <1>8
    <2>2. compile_part(s, 1, t, rules) = [y EXCEPT !.tmpl = [j \in DOMAIN @ |-> [part |-> 1, tmpl |-> @[j]]],
                                                   !.sources = <<s[1].source>> \o @]
      BY <1>9
    <2>3. compile_part(q, 1, t, rules) = [z EXCEPT !.tmpl = [j \in DOMAIN @ |-> [part |-> 1, tmpl |-> @[j]]],
                                                   !.sources = <<q[1].source>> \o @]
      BY <1>9
    <2> HIDE DEF y, z
    <2> QED
      BY <1>10, <2>1, <2>2, <2>3
  <1>12. DOMAIN s = {1} /\ DOMAIN q = {1}
    BY <1>1 DEF Narrowed
  <1> QED
    BY <1>11, <1>12 DEF Parts

\* It means the same users: a metric and a profile narrow nothing.
LEMMA SameMeaning ==
    ASSUME NEW q, Valid(q), LastOp(q).kind \in Terminal, NEW s, s = strip_last_op(q),
           NEW db, Database(db), NEW t, NEW now, NEW rules, q[1].source \in Datasets
    PROVE  Denotation(s, db, t, now, rules) = Denotation(q, db, t, now, rules)
  <1>1. Narrowed(s, q) /\ Valid(s)
    BY Stripped
  <1>2. ASSUME NEW b PROVE Kept(s[1], b, db, t, now, rules) <=> Kept(q[1], b, db, t, now, rules)
    <2> DEFINE own == Own(db, t)
    <2>1. \A op : Meets(op, s[1], b, own, now, rules) = Meets(op, q[1], b, own, now, rules)
      BY <1>1 DEF Narrowed, Meets
    <2>2. \A op : op.kind \in Terminal => Meets(op, q[1], b, own, now, rules)
      BY DEF Meets, Terminal
    <2> HIDE DEF own
    <2>3. (\A j \in DOMAIN s[1].ops : Meets(s[1].ops[j], s[1], b, own, now, rules))
            <=> \A j \in DOMAIN q[1].ops : Meets(q[1].ops[j], q[1], b, own, now, rules)
      BY <1>1, <2>1, <2>2 DEF Narrowed
    <2> QED
      BY <2>3 DEF Kept, own
  <1>3. PartKeys(s[1], db, t, now, rules) = PartKeys(q[1], db, t, now, rules)
    BY <1>1, <1>2 DEF PartKeys, Narrowed
  <1>4. KeySets(s, db, t, now, rules) = KeySets(q, db, t, now, rules) /\ Operators(s) = Operators(q)
    BY <1>1, <1>3 DEF KeySets, Operators, Narrowed
  <1>5. PICK g : Result(g, q, db, t, now, rules)
    BY ResultExists
  <1>6. Result(g, s, db, t, now, rules)
    BY <1>1, <1>4, <1>5 DEF Result, Narrowed
  <1>7. \A i \in DOMAIN q : q[i].source \in Datasets
    BY <1>1 DEF Narrowed
  <1>8. \A i \in DOMAIN s : s[i].source \in Datasets
    BY <1>1, <1>7 DEF Narrowed
  <1> QED
    BY <1>1, <1>5, <1>6, <1>7, <1>8, DenotationIs

\* When it compiles, the query does, once its survivors are counted; both have
\* the same text before the metric.
LEMMA StrippedOk ==
    ASSUME NEW q, Valid(q), LastOp(q).kind \in Terminal, NEW s, s = strip_last_op(q), NEW t, NEW rules,
           NEW c, c = compile_with_opts(s, t, rules, Null), c.ok,
           NEW limit, LastOp(q).kind = "derive" => limit # Null,
           NEW d, d = compile_with_opts(q, t, rules, limit)
    PROVE  d.ok /\ d.limit = limit
  <1> DEFINE body == Join(Parts(q, t, rules))
  <1>1. Parts(s, t, rules) = Parts(q, t, rules)
    BY SameParts
  <1>2. c = CompiledRecord(s, body, t, Null)
    BY <1>1, CompiledRecords
  <1>3. d = CompiledRecord(q, body, t, limit)
    BY CompiledRecords
  <1>4. Narrowed(s, q)
    BY Stripped
  <1>5. Len(s) = Len(q)
    BY <1>4 DEF Narrowed
  <1> HIDE DEF body
  <1>6. body.ok /\ Len(q) - 1 <= MaxNesting
    BY <1>2, <1>5 DEF CompiledRecord
  <1> QED
    BY <1>3, <1>6 DEF CompiledRecord

\* A Derive computes its metric over as many of the users that the narrowing
\* means as its limit says, and over the rows of the caller's tenant.
LEMMA DeriveMeans ==
    ASSUME NEW q, Valid(q), LastOp(q).kind = "derive", NEW t, NEW rules, RulesOK(rules), NEW limit,
           NEW c, c = compile_with_opts(q, t, rules, limit), c.ok,
           NEW db, Database(db), Bindable(c, db), NEW now \in Int,
           NEW x \in DeriveResults(c, db, now)
    PROVE  /\ x.over \in Limited(Denotation(strip_last_op(q), db, t, now, rules), limit)
           /\ IsFiniteSet(Denotation(strip_last_op(q), db, t, now, rules))
           /\ x.value = MetricOver(LastOp(q), db, t, x.over)
  <1> DEFINE body == Join(Parts(q, t, rules))
             last == LastOp(q)
             k == Start(c)[Len(c.conj) + 1]
             S == Denotation(strip_last_op(q), db, t, now, rules)
             Rows(T, u) == {e \in db.raw[c.last.event] : e.user_id \in T \ {Null} /\ e.tenant_id = u}
  <1>1. CompiledIs(c, q, t, Parts(q, t, rules), body)
    BY CompiledShape
  <1>2. c = CompiledRecord(q, body, t, limit)
    BY CompiledRecords
  <1>3. c.limit = limit /\ c.last = last
    BY <1>2 DEF CompiledRecord
  <1>4. last.kind \in Terminal
    BY DEF Terminal
  <1>5. last.event \in Datasets
    <2> DEFINE y == <<c.last.event, "user_id">>
    <2>1. y \in TailColumns(c)
      BY <1>3 DEF TailColumns
    <2>2. y[1] = c.last.event
      OBVIOUS
    <2> HIDE DEF y
    <2> QED
      BY <1>3, <2>1, <2>2 DEF Bindable, SqlColumns
  <1>6. Segments(c, c.params, db, now) = S
    <2>1. q[1].source \in Datasets
      BY SourcesExist, ValidFacts
    <2>2. Segments(c, c.params, db, now) = Denotation(q, db, t, now, rules)
      BY CompilerCorrect
    <2>3. S = Denotation(q, db, t, now, rules)
      BY <1>4, <2>1, SameMeaning
    <2> QED
      BY <2>2, <2>3
  <1>7. IsFiniteSet(S)
    BY <1>6, SegmentsFinite
  <1>8. c.params[k + 1] = t
    <2> DEFINE m == last.metric
    <2>1. k = Len(body.params) + 1
      BY QueryParts
    <2>2. c.params = body.params \o <<m, t>>
      BY <1>1, <1>3 DEF CompiledIs, TailParams
    <2>3. List(body.params) /\ List(<<m, t>>)
      BY <1>1, ElementsShort DEF CompiledIs, PieceOK
    <2> HIDE DEF m, k, body
    <2>4. \A j \in DOMAIN <<m, t>> : (body.params \o <<m, t>>)[Len(body.params) + j] = <<m, t>>[j]
      BY <2>3, ConcatFacts
    <2>5. 2 \in DOMAIN <<m, t>> /\ <<m, t>>[2] = t
      OBVIOUS
    <2>6. Len(body.params) \in Nat
      BY <2>3, ListFacts
    <2>7. k + 1 = Len(body.params) + 2
      BY <2>1, <2>6
    <2> QED
      BY <2>2, <2>4, <2>5, <2>7
  <1>9. PICK T \in Limited(S, limit) :
          x = [name |-> c.params[k], over |-> T,
               value |-> Aggregate(c.last.metric, c.last.column, Rows(T, c.params[k + 1]))]
    <2>1. DeriveResults(c, db, now)
            = {[name |-> c.params[k], over |-> T,
                value |-> Aggregate(c.last.metric, c.last.column, Rows(T, c.params[k + 1]))]
                 : T \in Limited(Segments(c, c.params, db, now), c.limit)}
      BY Zenon DEF DeriveResults
    <2> HIDE DEF Rows, k, S
    <2> QED
      BY <1>3, <1>6, <2>1
  <1> HIDE DEF k, S, Rows
  <1>10. x.over = T /\ x.value = Aggregate(last.metric, last.column, Rows(T, t))
    BY <1>3, <1>8, <1>9
  <1>11. Rows(T, t) = UNION {{e \in Own(db, t).raw[last.event] : e.user_id = u} : u \in T \ {Null}}
    <2>1. Own(db, t).raw[last.event] = {e \in db.raw[last.event] : e.tenant_id = t}
      BY <1>5, OwnFacts
    <2> QED
      BY <1>3, <2>1 DEF Rows
  <1>12. MetricOver(last, db, t, T) = Aggregate(last.metric, last.column, Rows(T, t))
    BY <1>11, Zenon DEF MetricOver
  <1> QED
    BY <1>7, <1>9, <1>10, <1>12 DEF S

-----------------------------------------------------------------------------
(***************************************************************************)
(* Profiles: what the category counts of a segment add up to.              *)
(***************************************************************************)
\* The sum that MapThenSumSet makes of p[k][side] over the keys of S.
SumOver(p, side, S) ==
    LET iter[s \in SUBSET S] ==
          IF s = {} THEN 0
          ELSE LET x == CHOOSE x \in s : TRUE IN p[x][side] + iter[s \ {x}]
    IN  iter[S]

\* The rows whose col is in K, and those whose col is x.
RowsIn(E, col, K) == {e \in E : e[col] \in K}
Group(E, col, x)  == {e \in E : e[col] = x}

\* One key more adds its rows.
LEMMA OneKeyMore ==
    ASSUME NEW E, IsFiniteSet(E), NEW col, NEW K, NEW x \in K
    PROVE  /\ Cardinality(RowsIn(E, col, K)) \in Nat
           /\ Cardinality(RowsIn(E, col, K))
                = Cardinality(Group(E, col, x)) + Cardinality(RowsIn(E, col, K \ {x}))
  <1> DEFINE A == Group(E, col, x)
             B == RowsIn(E, col, K \ {x})
             C == RowsIn(E, col, K)
  <1>1. A \cup B = C /\ A \cap B = {}
    BY DEF RowsIn, Group
  <1>2. A \in SUBSET E /\ B \in SUBSET E
    BY DEF RowsIn, Group
  <1> HIDE DEF A, B, C
  <1>3. IsFiniteSet(A) /\ IsFiniteSet(B)
    BY <1>2, FS_Subset
  <1>4. Cardinality(A) \in Nat /\ Cardinality(B) \in Nat /\ Cardinality(A \cap B) = 0
    BY <1>1, <1>3, FS_CardinalityType, FS_EmptySet
  <1>5. Cardinality(C) = Cardinality(A) + Cardinality(B) - Cardinality(A \cap B)
    BY <1>1, <1>3, FS_Union
  <1>6. Cardinality(C) = Cardinality(A) + Cardinality(B)
    BY <1>4, <1>5
  <1> QED
    BY <1>4, <1>6 DEF A, B, C

\* The counts of the keys of a set add up to the rows with such a key.
LEMMA CountsAddUp ==
    ASSUME NEW E, IsFiniteSet(E), NEW col, NEW S, IsFiniteSet(S), NEW p, NEW side,
           \A k \in S : p[k][side] = Cardinality(Group(E, col, k))
    PROVE  SumOver(p, side, S) = Cardinality(RowsIn(E, col, S))
  <1> DEFINE Next1(h, s) == IF s = {} THEN 0
                            ELSE LET x == CHOOSE x \in s : TRUE IN p[x][side] + h[s \ {x}]
             iter[s \in SUBSET S] == Next1(iter, s)
             f == [s \in SUBSET S |-> Cardinality(RowsIn(E, col, s))]
  <1>1. SumOver(p, side, S) = iter[S]
    BY Zenon DEF SumOver
  <1>2. f = [s \in SUBSET S |-> Next1(f, s)]
    <2>1. ASSUME NEW s \in SUBSET S PROVE Cardinality(RowsIn(E, col, s)) = Next1(f, s)
      <3>1. CASE s = {}
        <4>1. RowsIn(E, col, s) = {}
          BY <3>1 DEF RowsIn
        <4> QED
          BY <3>1, <4>1, FS_EmptySet
      <3>2. CASE s # {}
        <4> DEFINE x == CHOOSE x \in s : TRUE
        <4>1. x \in s
          BY <3>2
        <4>2. Next1(f, s) = p[x][side] + f[s \ {x}]
          BY <3>2
        <4> HIDE DEF x, Next1
        <4>3. f[s \ {x}] = Cardinality(RowsIn(E, col, s \ {x})) /\ x \in S
          BY <4>1
        <4>4. p[x][side] = Cardinality(Group(E, col, x))
          BY <4>3
        <4>5. Cardinality(RowsIn(E, col, s))
                = Cardinality(Group(E, col, x)) + Cardinality(RowsIn(E, col, s \ {x}))
          BY <4>1, OneKeyMore
        <4> DEFINE a == Cardinality(Group(E, col, x))
                   b == Cardinality(RowsIn(E, col, s \ {x}))
        <4>6. Next1(f, s) = a + b
          <5> HIDE DEF a, b, f
          <5> QED
            BY <4>2, <4>3, <4>4 DEF a, b
        <4> HIDE DEF f
        <4> QED
          BY <4>5, <4>6
      <3> QED
        BY <3>1, <3>2
    <2> HIDE DEF Next1
    <2>2. f = [s \in SUBSET S |-> f[s]] /\ \A s \in SUBSET S : f[s] = Next1(f, s)
      <3> DEFINE g == f
      <3>1. \A s \in SUBSET S : g[s] = Cardinality(RowsIn(E, col, s))
        OBVIOUS
      <3>2. \A s \in SUBSET S : g[s] = Next1(g, s)
        <4> HIDE DEF g
        <4> QED
          BY <2>1, <3>1 DEF g
      <3> QED
        BY <3>2
    <2> HIDE DEF f
    <2> QED
      BY <2>2
  <1>3. iter = [s \in SUBSET S |-> Next1(iter, s)]
    <2> HIDE DEF f, Next1
    <2> QED
      BY <1>2, Zenon
  <1> HIDE DEF iter, f
  <1>4. /\ iter[{}] = 0
        /\ \A s \in SUBSET S : s # {} =>
             \E x \in s : iter[s] = p[x][side] + iter[s \ {x}]
    <2>1. \A s \in SUBSET S : iter[s] = Next1(iter, s)
      BY <1>3
    <2> QED
      BY <2>1
  <1> HIDE DEF Next1
  <1> DEFINE N == {n \in Nat : \A s \in SUBSET S : Cardinality(s) = n =>
                                  iter[s] = Cardinality(RowsIn(E, col, s))}
  <1>5. 0 \in N
    <2> SUFFICES ASSUME NEW s \in SUBSET S, Cardinality(s) = 0
                 PROVE  iter[s] = Cardinality(RowsIn(E, col, s))
      OBVIOUS
    <2>1. s = {}
      BY FS_Subset, FS_EmptySet
    <2>2. RowsIn(E, col, s) = {}
      BY <2>1 DEF RowsIn
    <2> QED
      BY <1>4, <2>1, <2>2, FS_EmptySet
  <1>6. ASSUME NEW n \in Nat, n \in N PROVE n + 1 \in N
    <2> SUFFICES ASSUME NEW s \in SUBSET S, Cardinality(s) = n + 1
                 PROVE  iter[s] = Cardinality(RowsIn(E, col, s))
      OBVIOUS
    <2>1. IsFiniteSet(s)
      BY FS_Subset
    <2>2. s # {}
      BY FS_EmptySet
    <2>3. PICK x \in s : iter[s] = p[x][side] + iter[s \ {x}]
      BY <1>4, <2>2
    <2>4. Cardinality(s \ {x}) = n
      <3>1. Cardinality(s \ {x}) = Cardinality(s) - 1
        BY <2>1, <2>3, FS_RemoveElement, Zenon
      <3> QED
        BY <3>1
    <2>5. iter[s \ {x}] = Cardinality(RowsIn(E, col, s \ {x}))
      BY <1>6, <2>4
    <2>6. p[x][side] = Cardinality(Group(E, col, x))
      BY <2>3
    <2>7. Cardinality(RowsIn(E, col, s))
            = Cardinality(Group(E, col, x)) + Cardinality(RowsIn(E, col, s \ {x}))
      BY <2>3, OneKeyMore
    <2> DEFINE a == Cardinality(Group(E, col, x))
               b == Cardinality(RowsIn(E, col, s \ {x}))
    <2>8. p[x][side] = a /\ iter[s \ {x}] = b /\ Cardinality(RowsIn(E, col, s)) = a + b
      BY <2>5, <2>6, <2>7
    <2> HIDE DEF a, b
    <2> QED
      BY <2>3, <2>8
  <1> HIDE DEF N
  <1>7. Nat \subseteq N
    BY <1>5, <1>6, SetInduction
  <1>8. Cardinality(S) \in N
    BY <1>7, FS_CardinalityType
  <1> QED
    BY <1>1, <1>8 DEF N

\* The smaller of two numbers.
LEMMA MinOfTwo ==
    ASSUME NEW a \in Nat, NEW b \in Nat
    PROVE  Min({a, b}) = IF a <= b THEN a ELSE b
  <1> DEFINE m == IF a <= b THEN a ELSE b
  <1>1. m \in {a, b} /\ \A k \in {a, b} : m <= k
    OBVIOUS
  <1>2. \A i \in {a, b} : (\A k \in {a, b} : i <= k) => i = m
    OBVIOUS
  <1> QED
    BY <1>1, <1>2 DEF Min

\* The categories that rows of ev have.
CategoriesOf(ev, col) == {e[col] : e \in ev}

\* The categories a profile shows, with the counts of each: as many as the
\* limit says, none ranked below one that is left out.
LEMMA TopFacts ==
    ASSUME NEW ev, IsFiniteSet(ev), NEW In \in SUBSET ev, NEW col,
           NEW k \in Top(CategoryCounts(In, ev, col))
    PROVE  /\ DOMAIN k \subseteq CategoriesOf(ev, col) /\ IsFiniteSet(DOMAIN k)
           /\ \A x \in DOMAIN k : /\ k[x].seg = Cardinality(Group(In, col, x))
                                  /\ k[x].base = Cardinality(Group(ev, col, x))
           /\ Cardinality(CategoriesOf(ev, col)) <= TopCategories => DOMAIN k = CategoriesOf(ev, col)
           /\ \A x \in CategoriesOf(ev, col) \ DOMAIN k : \A y \in DOMAIN k :
                Cardinality(Group(In, col, x)) <= k[y].seg
  <1> DEFINE all == CategoriesOf(ev, col)
             counts == [x \in all |-> [seg  |-> Cardinality(Group(In, col, x)),
                                       base |-> Cardinality(Group(ev, col, x))]]
  <1>1. CategoryCounts(In, ev, col) = counts
    BY DEF CategoryCounts, CategoriesOf, Group
  <1>2. IsFiniteSet(all)
    <2> DEFINE f == [e \in ev |-> e[col]]
    <2>1. DOMAIN f = ev /\ all = {f[e] : e \in DOMAIN f}
      BY DEF CategoriesOf
    <2> HIDE DEF f, all
    <2> QED
      BY <2>1, FiniteImage
  <1>3. /\ DOMAIN counts = all
        /\ \A x \in all : /\ counts[x].seg = Cardinality(Group(In, col, x))
                          /\ counts[x].base = Cardinality(Group(ev, col, x))
    OBVIOUS
  <1>4. \A x : Cardinality(Group(In, col, x)) \in Nat
    <2> SUFFICES ASSUME NEW x PROVE Cardinality(Group(In, col, x)) \in Nat
      OBVIOUS
    <2>1. Group(In, col, x) \in SUBSET ev
      BY DEF Group
    <2>2. IsFiniteSet(Group(In, col, x))
      BY <2>1, FS_Subset
    <2> QED
      BY <2>2, FS_CardinalityType
  <1> HIDE DEF counts, all
  <1>5. PICK T \in SUBSET all :
          /\ k = [x \in T |-> counts[x]]
          /\ Cardinality(T) = Min({TopCategories, Cardinality(all)})
          /\ \A x \in T : \A y \in all \ T : counts[x].seg >= counts[y].seg
    BY <1>1, <1>3 DEF Top
  <1>6. DOMAIN k = T /\ \A x \in T : k[x] = counts[x]
    BY <1>5
  <1>7. IsFiniteSet(T) /\ Cardinality(all) \in Nat /\ TopCategories \in Nat
    BY <1>2, FS_Subset, FS_CardinalityType, SegmentAssumption
  <1>8. Cardinality(all) <= TopCategories => T = all
    <2>1. Cardinality(all) <= TopCategories => Cardinality(T) = Cardinality(all)
      BY <1>5, <1>7, MinOfTwo
    <2> QED
      BY <1>2, <2>1, FS_Subset
  <1>9. ASSUME NEW x \in all \ T, NEW y \in T PROVE Cardinality(Group(In, col, x)) <= k[y].seg
    <2>1. counts[y].seg >= counts[x].seg
      BY <1>5
    <2>2. counts[x].seg \in Nat /\ counts[y].seg \in Nat
      BY <1>3, <1>4
    <2> QED
      BY <1>3, <1>6, <2>1, <2>2
  <1> QED
    BY <1>3, <1>6, <1>7, <1>8, <1>9 DEF all

\* The counts of a profile's categories are part of its totals, and all of them
\* when no category was cut off.
LEMMA CategoriesAddUp ==
    ASSUME NEW ev, IsFiniteSet(ev), NEW In \in SUBSET ev, NEW col,
           NEW k \in Top(CategoryCounts(In, ev, col)), NEW side \in {"seg", "base"},
           NEW rows, rows = IF side = "seg" THEN In ELSE ev
    PROVE  /\ SumOver(k, side, DOMAIN k) <= Cardinality(rows)
           /\ Cardinality(CategoriesOf(ev, col)) <= TopCategories =>
                SumOver(k, side, DOMAIN k) = Cardinality(rows)
           /\ \A x \in DOMAIN k : k[x][side] \in Nat /\ k[x][side] <= Cardinality(rows)
  <1>1. rows \in SUBSET ev
    OBVIOUS
  <1>2. IsFiniteSet(rows)
    BY <1>1, FS_Subset
  <1>3. IsFiniteSet(DOMAIN k) /\ \A x \in DOMAIN k : k[x][side] = Cardinality(Group(rows, col, x))
    <2>1. /\ IsFiniteSet(DOMAIN k)
          /\ \A x \in DOMAIN k : /\ k[x].seg = Cardinality(Group(In, col, x))
                                 /\ k[x].base = Cardinality(Group(ev, col, x))
      BY TopFacts
    <2>2. CASE side = "seg"
      BY <2>1, <2>2
    <2>3. CASE side = "base"
      BY <2>1, <2>3
    <2> QED
      BY <2>2, <2>3
  <1>4. SumOver(k, side, DOMAIN k) = Cardinality(RowsIn(rows, col, DOMAIN k))
    BY <1>2, <1>3, CountsAddUp
  <1>5. RowsIn(rows, col, DOMAIN k) \in SUBSET rows
    BY DEF RowsIn
  <1>6. Cardinality(RowsIn(rows, col, DOMAIN k)) <= Cardinality(rows)
    BY <1>2, <1>5, FS_Subset
  <1>7. ASSUME Cardinality(CategoriesOf(ev, col)) <= TopCategories
        PROVE  RowsIn(rows, col, DOMAIN k) = rows
    <2>1. DOMAIN k = CategoriesOf(ev, col)
      BY <1>7, TopFacts
    <2> QED
      BY <1>1, <2>1 DEF RowsIn, CategoriesOf
  <1>8. ASSUME NEW x \in DOMAIN k
        PROVE  k[x][side] \in Nat /\ k[x][side] <= Cardinality(rows)
    <2>1. Group(rows, col, x) \in SUBSET rows
      BY DEF Group
    <2>2. IsFiniteSet(Group(rows, col, x)) /\ Cardinality(Group(rows, col, x)) <= Cardinality(rows)
      BY <1>2, <2>1, FS_Subset
    <2>3. Cardinality(Group(rows, col, x)) \in Nat
      BY <2>2, FS_CardinalityType
    <2> QED
      BY <1>3, <2>2, <2>3
  <1> QED
    BY <1>4, <1>6, <1>7, <1>8

\* The orders that users of S made.
OrdersOfUsers(ev, S) == {e \in ev : e.user_id # Null /\ e.user_id \in S}

\* The parts of a profile are about the orders of the caller's tenant, and those
\* of them that the users of the narrowing made.
LEMMA ProfileMeans ==
    ASSUME NEW q, Valid(q), LastOp(q).kind = "characterize", NEW t, NEW rules, RulesOK(rules), NEW limit,
           NEW c, c = compile_with_opts(q, t, rules, limit), c.ok,
           NEW db, Database(db), Bindable(c, db), NEW now \in Int,
           NEW ev, ev = Own(db, t).raw[LastOp(q).event],
           NEW In, In = OrdersOfUsers(ev, Denotation(strip_last_op(q), db, t, now, rules))
    PROVE  /\ IsFiniteSet(ev)
           /\ ProfileParts(c, db, now).metrics.seg.orders = Cardinality(In)
           /\ ProfileParts(c, db, now).metrics.base.orders = Cardinality(ev)
           /\ ProfileParts(c, db, now).categories = CategoryCounts(In, ev, LastOp(q).category)
  <1> DEFINE body == Join(Parts(q, t, rules))
             last == LastOp(q)
             k == Start(c)[Len(c.conj) + 1]
             S == Denotation(strip_last_op(q), db, t, now, rules)
             orders == {e \in db.raw[c.last.event] : e.tenant_id = c.params[k]}
             ours == {e \in orders : e.user_id \in Segments(c, c.params, db, now) \ {Null}}
  <1>1. CompiledIs(c, q, t, Parts(q, t, rules), body)
    BY CompiledShape
  <1>2. c = CompiledRecord(q, body, t, limit)
    BY CompiledRecords
  <1>3. c.last = last
    BY <1>2 DEF CompiledRecord
  <1>4. last.kind \in Terminal
    BY DEF Terminal
  <1>5. last.event \in Datasets
    <2> DEFINE y == <<c.last.event, "user_id">>
    <2>1. y \in TailColumns(c)
      BY <1>3 DEF TailColumns
    <2>2. y[1] = c.last.event
      OBVIOUS
    <2> HIDE DEF y
    <2> QED
      BY <1>3, <2>1, <2>2 DEF Bindable, SqlColumns
  <1>6. Segments(c, c.params, db, now) = S
    <2>1. q[1].source \in Datasets
      BY SourcesExist, ValidFacts
    <2>2. Segments(c, c.params, db, now) = Denotation(q, db, t, now, rules)
      BY CompilerCorrect
    <2>3. S = Denotation(q, db, t, now, rules)
      BY <1>4, <2>1, SameMeaning
    <2> QED
      BY <2>2, <2>3
  <1>7. c.params[k] = t
    <2>1. k = Len(body.params) + 1
      BY QueryParts
    <2>2. c.params = body.params \o <<t>>
      BY <1>1, <1>3 DEF CompiledIs, TailParams
    <2>3. List(body.params) /\ List(<<t>>)
      BY <1>1, ElementsShort DEF CompiledIs, PieceOK
    <2> HIDE DEF k, body
    <2>4. \A j \in DOMAIN <<t>> : (body.params \o <<t>>)[Len(body.params) + j] = <<t>>[j]
      BY <2>3, ConcatFacts
    <2>5. 1 \in DOMAIN <<t>> /\ <<t>>[1] = t
      OBVIOUS
    <2> QED
      BY <2>1, <2>2, <2>4, <2>5
  <1> HIDE DEF k, S, body
  <1>8. orders = ev
    <2>1. Own(db, t).raw[last.event] = {e \in db.raw[last.event] : e.tenant_id = t}
      BY <1>5, OwnFacts
    <2> QED
      BY <1>3, <1>7, <2>1
  <1>9. ours = In
    BY <1>6, <1>8 DEF S, OrdersOfUsers
  <1>10. IsFiniteSet(ev)
    <2>1. IsFiniteSet(db.raw[last.event])
      BY <1>5 DEF Database
    <2>2. ev \in SUBSET db.raw[last.event]
      BY <1>5, OwnFacts
    <2> QED
      BY <2>1, <2>2, FS_Subset
  <1>11. /\ ProfileParts(c, db, now).metrics.seg = Stats(ours)
         /\ ProfileParts(c, db, now).metrics.base = Stats(orders)
         /\ ProfileParts(c, db, now).categories = CategoryCounts(ours, orders, c.last.category)
    BY DEF ProfileParts, k, MapThenSumSet, MapThenFoldSet
  <1> HIDE DEF orders, ours
  <1>12. Stats(In).orders = Cardinality(In) /\ Stats(ev).orders = Cardinality(ev)
    BY DEF Stats
  <1> QED
    BY <1>3, <1>8, <1>9, <1>10, <1>11, <1>12
=============================================================================
