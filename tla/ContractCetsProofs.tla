------------------------- MODULE ContractCetsProofs -------------------------
(***************************************************************************)
(* Theorems about the ranges of ContractCets for every set of contracts:   *)
(* any payout function and rounding that validates, any number of digits.  *)
(* The ranges follow the curve by induction over the outcomes of a piece   *)
(* (FollowsTo) and over the pieces (CurveInv).                             *)
(***************************************************************************)
EXTENDS ContractCets, SumLemmas

----------------------------------------------------------------------------
(* The loop of compute_range_payouts.                                      *)

\* One turn of the loop: the n-th outcome after the first of piece p.
Turn(p, iv, tot, rs, n) == AddOutcome(p, iv, tot, rs, get_first_outcome(p) + n)

\* f holds the ranges after every number of turns in D.
IsLoop(p, iv, tot, rs, D, f) ==
    \A n \in D : f[n] = IF n = 0 THEN get_cur_range(p, iv, tot, rs)
                        ELSE Turn(p, iv, tot, f[n - 1], n)

\* The first turns of two loops over the same piece agree.
LEMMA LoopsAgree ==
    ASSUME NEW p, NEW iv, NEW tot, NEW rs, NEW m \in Nat, NEW f, NEW g,
           IsLoop(p, iv, tot, rs, 0 .. m, f), IsLoop(p, iv, tot, rs, 0 .. m, g)
    PROVE  \A n \in 0 .. m : f[n] = g[n]
<1> DEFINE G == {n \in Nat : n <= m => f[n] = g[n]}
<1>1. 0 \in G
  BY DEF IsLoop
<1>2. ASSUME NEW n \in Nat, n \in G PROVE n + 1 \in G
  <2> SUFFICES ASSUME n + 1 <= m PROVE f[n + 1] = g[n + 1]
    OBVIOUS
  <2>1. f[n] = g[n]
    BY <1>2
  <2>2. n + 1 \in 0 .. m /\ n + 1 # 0 /\ (n + 1) - 1 = n
    OBVIOUS
  <2>3. f[n + 1] = Turn(p, iv, tot, f[n], n + 1) /\ g[n + 1] = Turn(p, iv, tot, g[n], n + 1)
    BY <2>2 DEF IsLoop
  <2> QED
    BY <2>1, <2>3
<1> HIDE DEF G
<1>3. \A n \in Nat : n \in G
  BY <1>1, <1>2, SetInduction
<1> QED
  BY <1>3 DEF G

\* There is a loop of every length.
LEMMA LoopOfLength ==
    ASSUME NEW p, NEW iv, NEW tot, NEW rs
    PROVE  \A m \in Nat : \E f : IsLoop(p, iv, tot, rs, 0 .. m, f)
<1> DEFINE G == {m \in Nat : \E f : IsLoop(p, iv, tot, rs, 0 .. m, f)}
<1>1. 0 \in G
  <2> DEFINE f == [n \in {0} |-> get_cur_range(p, iv, tot, rs)]
  <2>1. f[0] = get_cur_range(p, iv, tot, rs)
    OBVIOUS
  <2> HIDE DEF f
  <2>2. IsLoop(p, iv, tot, rs, 0 .. 0, f)
    BY <2>1 DEF IsLoop
  <2> QED
    BY <2>2
<1>2. ASSUME NEW m \in Nat, m \in G PROVE m + 1 \in G
  <2>1. PICK f : IsLoop(p, iv, tot, rs, 0 .. m, f)
    BY <1>2
  <2> DEFINE last == Turn(p, iv, tot, f[m], m + 1)
             g == [n \in 0 .. (m + 1) |-> IF n = m + 1 THEN last ELSE f[n]]
  <2>2. \A n \in 0 .. m : g[n] = f[n]
    OBVIOUS
  <2>3. g[m + 1] = Turn(p, iv, tot, g[m], m + 1)
    <3>1. g[m + 1] = last /\ g[m] = f[m]
      OBVIOUS
    <3> QED
      BY <3>1
  <2>4. \A n \in 0 .. m : g[n] = IF n = 0 THEN get_cur_range(p, iv, tot, rs)
                                 ELSE Turn(p, iv, tot, g[n - 1], n)
    <3>1. SUFFICES ASSUME NEW n \in 0 .. m
                   PROVE  g[n] = IF n = 0 THEN get_cur_range(p, iv, tot, rs)
                                 ELSE Turn(p, iv, tot, g[n - 1], n)
      OBVIOUS
    <3>2. n # 0 => n - 1 \in 0 .. m
      OBVIOUS
    <3>3. g[n] = f[n] /\ (n # 0 => g[n - 1] = f[n - 1])
      BY <2>2, <3>2
    <3> HIDE DEF g
    <3> QED
      BY <2>1, <3>3 DEF IsLoop
  <2> HIDE DEF g
  <2>5. IsLoop(p, iv, tot, rs, 0 .. (m + 1), g)
    <3>1. \A n \in 0 .. (m + 1) : n \in 0 .. m \/ n = m + 1
      OBVIOUS
    <3>2. m + 1 # 0 /\ (m + 1) - 1 = m
      OBVIOUS
    <3> QED
      BY <2>3, <2>4, <3>1, <3>2 DEF IsLoop
  <2> QED
    BY <2>5
<1> HIDE DEF G
<1>3. \A m \in Nat : m \in G
  BY <1>1, <1>2, SetInduction
<1> QED
  BY <1>3 DEF G

\* The recursion equation of the loop has a solution.
LEMMA LoopExists ==
    ASSUME NEW p, NEW iv, NEW tot, NEW rs
    PROVE  \E f : f = [n \in Nat |-> IF n = 0 THEN get_cur_range(p, iv, tot, rs)
                                     ELSE Turn(p, iv, tot, f[n - 1], n)]
<1> DEFINE Of(m) == CHOOSE f : IsLoop(p, iv, tot, rs, 0 .. m, f)
           h == [n \in Nat |-> Of(n)[n]]
<1>1. \A m \in Nat : IsLoop(p, iv, tot, rs, 0 .. m, Of(m))
  BY LoopOfLength
<1> HIDE DEF Of
<1>2. ASSUME NEW n \in Nat
      PROVE  h[n] = IF n = 0 THEN get_cur_range(p, iv, tot, rs)
                    ELSE Turn(p, iv, tot, h[n - 1], n)
  <2>1. h[n] = Of(n)[n]
    OBVIOUS
  <2>2. n \in 0 .. n
    OBVIOUS
  <2>3. IsLoop(p, iv, tot, rs, 0 .. n, Of(n))
    BY <1>1
  <2>4. CASE n = 0
    BY <2>1, <2>2, <2>3, <2>4 DEF IsLoop
  <2>5. CASE n # 0
    <3>1. n - 1 \in Nat /\ n - 1 \in 0 .. (n - 1)
      BY <2>5
    <3>2. IsLoop(p, iv, tot, rs, 0 .. (n - 1), Of(n - 1))
      BY <1>1, <3>1
    <3>3. IsLoop(p, iv, tot, rs, 0 .. (n - 1), Of(n))
      <4>1. \A k \in 0 .. (n - 1) : k \in 0 .. n
        BY <3>1
      <4> QED
        BY <2>3, <4>1 DEF IsLoop
    <3>4. Of(n)[n - 1] = Of(n - 1)[n - 1]
      BY <3>1, <3>2, <3>3, LoopsAgree
    <3>5. h[n - 1] = Of(n - 1)[n - 1]
      BY <3>1
    <3>6. Of(n)[n] = Turn(p, iv, tot, Of(n)[n - 1], n)
      BY <2>2, <2>3, <2>5 DEF IsLoop
    <3> QED
      BY <2>1, <2>5, <3>4, <3>5, <3>6
  <2> QED
    BY <2>4, <2>5
<1> DEFINE again == [n \in Nat |-> IF n = 0 THEN get_cur_range(p, iv, tot, rs)
                                   ELSE Turn(p, iv, tot, h[n - 1], n)]
<1>3. h = again
  <2>1. \A n \in Nat : h[n] = again[n]
    BY <1>2
  <2> QED
    BY <2>1
<1> HIDE DEF h
<1> QED
  BY <1>3

\* What compute_range_payouts computes, turn by turn.
LEMMA ComputeIsLoop ==
    ASSUME NEW p, NEW iv, NEW tot, NEW rs
    PROVE  \E f : /\ IsLoop(p, iv, tot, rs, Nat, f)
                  /\ compute_range_payouts(p, iv, tot, rs)
                        = f[get_last_outcome(p) - get_first_outcome(p)]
<1> DEFINE Eq(f) == f = [n \in Nat |-> IF n = 0 THEN get_cur_range(p, iv, tot, rs)
                                       ELSE Turn(p, iv, tot, f[n - 1], n)]
           u == CHOOSE f : Eq(f)
<1>0. \E f : Eq(f)
  BY LoopExists
<1>1. Eq(u)
  <2> HIDE DEF Eq
  <2> QED
    BY <1>0
<1>2. compute_range_payouts(p, iv, tot, rs) = u[get_last_outcome(p) - get_first_outcome(p)]
  BY Zenon DEF compute_range_payouts, Turn
<1>3. IsLoop(p, iv, tot, rs, Nat, u)
  <2>1. PICK w : w = u
    OBVIOUS
  <2>2. Eq(w)
    BY <1>1, <2>1
  <2>3. IsLoop(p, iv, tot, rs, Nat, w)
    BY <2>2 DEF IsLoop
  <2> QED
    BY <2>1, <2>3
<1> HIDE DEF u
<1> QED
  BY <1>2, <1>3

----------------------------------------------------------------------------
(* The pieces of a validated payout function.                              *)

First(c, i) == get_first_outcome(c.pieces[i])
Latest(c, i) == get_last_outcome(c.pieces[i])

\* What the constructors guarantee of a piece.
LEMMA PieceOutcomes ==
    ASSUME NEW c \in NumericalContracts, NEW i \in DOMAIN c.pieces
    PROVE  First(c, i) \in Nat /\ Latest(c, i) \in Nat /\ First(c, i) < Latest(c, i)
<1>1. c.pieces \in Seq(Pieces)
  BY DEF NumericalContracts
<1>2. c.pieces[i] \in Pieces
  BY <1>1
<1>3. PICK pts : pts = c.pieces[i].points
  OBVIOUS
<1>4. /\ pts \in Points /\ Len(pts) >= 2
      /\ \A k, l \in DOMAIN pts : k < l => pts[k].outcome < pts[l].outcome
  <2>1. PICK q : q = c.pieces[i]
    OBVIOUS
  <2>2. q.points \in Points
    BY <1>2, <2>1 DEF Pieces
  <2>3. Len(q.points) >= 2
        /\ \A k, l \in DOMAIN q.points : k < l => q.points[k].outcome < q.points[l].outcome
    BY <1>2, <2>1, Zenon DEF Pieces
  <2> QED
    BY <1>3, <2>1, <2>2, <2>3
<1>5. First(c, i) = pts[1].outcome /\ Latest(c, i) = pts[Len(pts)].outcome
  <2>1. Head(pts) = pts[1] /\ Last(pts) = pts[Len(pts)]
    BY <1>4 DEF Last, Points
  <2> QED
    BY <1>3, <2>1 DEF First, Latest, get_first_outcome, get_last_outcome, get_first_point,
                      get_last_point
<1>6. 1 \in DOMAIN pts /\ Len(pts) \in DOMAIN pts /\ 1 < Len(pts)
  BY <1>4 DEF Points
<1>7. pts[1].outcome \in Nat /\ pts[Len(pts)].outcome \in Nat
  <2>1. PICK X : X = [outcome : Nat, payout : Nat, extra : Nat]
    OBVIOUS
  <2>2. pts \in Seq(X)
    BY <1>4, <2>1 DEF Points
  <2>3. pts[1] \in X /\ pts[Len(pts)] \in X
    BY <1>6, <2>2
  <2> QED
    BY <2>1, <2>3
<1>8. pts[1].outcome < pts[Len(pts)].outcome
  BY <1>4, <1>6
<1> QED
  BY <1>5, <1>7, <1>8

\* A validated function is continuous: a piece begins where the one before ends.
LEMMA PiecesMeet ==
    ASSUME NEW c \in NumericalContracts, numerical_validate(c),
           NEW i \in DOMAIN c.pieces, i + 1 \in DOMAIN c.pieces
    PROVE  Latest(c, i) = First(c, i + 1)
<1>1. c.pieces \in Seq(Pieces)
  BY DEF NumericalContracts
<1>2. i \in 1 .. (Len(c.pieces) - 1)
  BY <1>1
<1>3. get_last_point(c.pieces[i]) = get_first_point(c.pieces[i + 1])
  BY <1>2 DEF numerical_validate, payout_function_validate, is_continuous
<1> QED
  BY <1>3 DEF First, Latest, get_first_outcome, get_last_outcome

\* Later pieces end later.
LEMMA PiecesAscend ==
    ASSUME NEW c \in NumericalContracts, numerical_validate(c),
           NEW i \in DOMAIN c.pieces
    PROVE  \A j \in DOMAIN c.pieces : i <= j => Latest(c, i) <= Latest(c, j)
<1>1. c.pieces \in Seq(Pieces)
  BY DEF NumericalContracts
<1>2. PICK N \in Nat : DOMAIN c.pieces = 1 .. N
  BY <1>1
<1> DEFINE G == {j \in Nat : i <= j /\ j <= N => Latest(c, i) <= Latest(c, j)}
<1>3. 0 \in G
  BY <1>2
<1>4. ASSUME NEW j \in Nat, j \in G PROVE j + 1 \in G
  <2> SUFFICES ASSUME i <= j + 1, j + 1 <= N PROVE Latest(c, i) <= Latest(c, j + 1)
    OBVIOUS
  <2>1. j + 1 \in DOMAIN c.pieces /\ i \in Nat
    BY <1>2
  <2>2. Latest(c, i) \in Nat /\ Latest(c, j + 1) \in Nat
    BY <2>1, PieceOutcomes
  <2>3. CASE i = j + 1
    BY <2>2, <2>3
  <2>4. CASE i # j + 1
    <3>1. i <= j /\ j <= N /\ j \in DOMAIN c.pieces
      BY <1>2, <2>1, <2>4
    <3>2. Latest(c, i) <= Latest(c, j)
      BY <1>4, <3>1
    <3>3. Latest(c, j) = First(c, j + 1)
      BY <2>1, <3>1, PiecesMeet
    <3>4. First(c, j + 1) < Latest(c, j + 1) /\ First(c, j + 1) \in Nat
      BY <2>1, PieceOutcomes
    <3> QED
      BY <2>2, <3>2, <3>3, <3>4
  <2> QED
    BY <2>3, <2>4
<1> HIDE DEF G
<1>5. \A j \in Nat : j \in G
  BY <1>3, <1>4, SetInduction
<1> QED
  BY <1>2, <1>5 DEF G

\* The least element of a set of numbers.
LEMMA MinIs ==
    ASSUME NEW S, S \subseteq Int, NEW m \in S, \A x \in S : m <= x
    PROVE  Min(S) = m
<1>1. \A x \in S : (\A y \in S : x <= y) => x = m
  OBVIOUS
<1>2. Min(S) \in S /\ \A y \in S : Min(S) <= y
  BY DEF Min
<1> QED
  BY <1>1, <1>2

\* The piece of an outcome after the first of a piece is that piece.
LEMMA PieceOfOutcome ==
    ASSUME NEW c \in NumericalContracts, numerical_validate(c), NEW i \in DOMAIN c.pieces,
           NEW o \in Nat, o <= Latest(c, i), First(c, i) < o \/ i = 1
    PROVE  PieceOf(c, o) = c.pieces[i]
<1>1. c.pieces \in Seq(Pieces)
  BY DEF NumericalContracts
<1> DEFINE S == {j \in DOMAIN c.pieces : o <= Latest(c, j)}
<1>2. S \subseteq Int /\ i \in S
  BY <1>1
<1>3. ASSUME NEW j \in S PROVE i <= j
  <2> SUFFICES ASSUME j < i PROVE FALSE
    BY <1>2
  <2>1. i # 1 /\ i - 1 \in DOMAIN c.pieces /\ j <= i - 1 /\ j \in DOMAIN c.pieces
    BY <1>1, <1>2
  <2>3. (i - 1) + 1 = i
    BY <1>2
  <2>2. Latest(c, i - 1) = First(c, (i - 1) + 1)
    <3>1. PICK h : h = i - 1
      OBVIOUS
    <3>2. h \in DOMAIN c.pieces /\ h + 1 \in DOMAIN c.pieces
      BY <2>1, <2>3, <3>1
    <3> QED
      BY <3>1, <3>2, PiecesMeet
  <2>4. Latest(c, j) <= Latest(c, i - 1)
    BY <2>1, PiecesAscend
  <2>5. Latest(c, j) \in Nat /\ First(c, i) \in Nat
    BY <2>1, PieceOutcomes
  <2> QED
    BY <2>1, <2>2, <2>3, <2>4, <2>5
<1>4. Min(S) = i
  <2> HIDE DEF S
  <2> QED
    BY <1>2, <1>3, MinIs
<1>5. PieceOf(c, o) = c.pieces[Min(S)]
  BY DEF PieceOf, Latest
<1> QED
  BY <1>4, <1>5

----------------------------------------------------------------------------
(* The ranges follow the curve.                                            *)

\* The payouts a contract can have, without a look at what evaluating a piece gives.
Payouts(c) ==
    {get_rounded_payout(q, o, c.intervals, c.total) : q \in Range(c.pieces), o \in Nat}

Ranges(c) == Seq([start : Nat, count : Nat \ {0}, payout : Payouts(c)]) \ {<<>>}

\* The ranges follow each other from one outcome to another, and no neighbours pay the same.
Chained(rs, from, to) ==
    /\ rs[1].start = from
    /\ rs[Len(rs)].start + rs[Len(rs)].count - 1 = to
    /\ \A r \in 1 .. (Len(rs) - 1) :
          /\ rs[r + 1].start = rs[r].start + rs[r].count
          /\ rs[r + 1].payout # rs[r].payout

PaysCurve(c, rs) ==
    \A r \in DOMAIN rs : \A o \in rs[r].start .. (rs[r].start + rs[r].count - 1) :
        rs[r].payout = CurvePayout(c, o)

\* The invariant of the conversion: the ranges are right up to outcome to.
FollowsTo(c, rs, to) ==
    /\ rs \in Ranges(c)
    /\ Chained(rs, First(c, 1), to)
    /\ FlatNeedsNoRounding(c) => PaysCurve(c, rs)

\* The last of ranges that are right.
LEMMA LastRange ==
    ASSUME NEW c, NEW rs \in Ranges(c)
    PROVE  /\ Last(rs) = rs[Len(rs)] /\ Len(rs) \in Nat \ {0} /\ DOMAIN rs = 1 .. Len(rs)
           /\ \A r \in 1 .. Len(rs) : /\ rs[r].start \in Nat /\ rs[r].count \in Nat \ {0}
                                      /\ rs[r].payout \in Payouts(c)
                                      /\ rs[r] = [start |-> rs[r].start, count |-> rs[r].count,
                                                  payout |-> rs[r].payout]
<1>1. PICK X : X = [start : Nat, count : Nat \ {0}, payout : Payouts(c)]
  OBVIOUS
<1>2. rs \in Seq(X) /\ rs # <<>>
  BY <1>1 DEF Ranges
<1>3. Last(rs) = rs[Len(rs)] /\ Len(rs) \in Nat \ {0} /\ DOMAIN rs = 1 .. Len(rs)
  BY <1>2 DEF Last
<1>4. \A r \in 1 .. Len(rs) : rs[r] \in X
  BY <1>2
<1>5. \A x \in X : /\ x.start \in Nat /\ x.count \in Nat \ {0} /\ x.payout \in Payouts(c)
                   /\ x = [start |-> x.start, count |-> x.count, payout |-> x.payout]
  BY <1>1
<1> QED
  BY <1>3, <1>4, <1>5

\* The last range made longer.
Longer(rs, n) == [rs EXCEPT ![Len(rs)].count = @ + n]

\* Ranges stay right when the last one takes in outcomes that pay what it pays.
LEMMA LongerFollows ==
    ASSUME NEW c, NEW rs, NEW to \in Nat, NEW n \in Nat, FollowsTo(c, rs, to),
           FlatNeedsNoRounding(c) =>
               \A o \in (to + 1) .. (to + n) : CurvePayout(c, o) = rs[Len(rs)].payout
    PROVE  FollowsTo(c, Longer(rs, n), to + n)
<1> DEFINE new == Longer(rs, n)
           N == Len(rs)
<1>1. rs \in Ranges(c) /\ Chained(rs, First(c, 1), to)
  BY DEF FollowsTo
<1>2. /\ N \in Nat \ {0} /\ DOMAIN rs = 1 .. N
      /\ \A r \in 1 .. N : rs[r].start \in Nat /\ rs[r].count \in Nat \ {0}
                           /\ rs[r].payout \in Payouts(c)
  BY <1>1, LastRange
<1>3. /\ new \in Ranges(c) /\ Len(new) = N
      /\ \A r \in 1 .. (N - 1) : new[r] = rs[r]
      /\ new[N].start = rs[N].start /\ new[N].payout = rs[N].payout
      /\ new[N].count = rs[N].count + n
  <2>1. PICK X : X = [start : Nat, count : Nat \ {0}, payout : Payouts(c)]
    OBVIOUS
  <2>2. rs \in Seq(X) /\ rs # <<>>
    BY <1>1, <2>1 DEF Ranges
  <2>3. PICK x : x = [rs[N] EXCEPT !.count = @ + n]
    OBVIOUS
  <2>4. rs[N] = [start |-> rs[N].start, count |-> rs[N].count, payout |-> rs[N].payout]
    BY <1>1, <1>2, LastRange
  <2>5. x.start = rs[N].start /\ x.payout = rs[N].payout /\ x.count = rs[N].count + n
    BY <2>3, <2>4
  <2>6. x \in X
    <3>1. x = [start |-> rs[N].start, count |-> rs[N].count + n, payout |-> rs[N].payout]
      BY <2>3, <2>4
    <3>2. rs[N].count + n \in Nat \ {0}
      BY <1>2
    <3> QED
      BY <1>2, <2>1, <3>1, <3>2
  <2>7. new = [rs EXCEPT ![N] = x]
    BY <2>3, Zenon DEF Longer
  <2>8. new \in Seq(X) /\ Len(new) = N /\ new[N] = x /\ \A r \in 1 .. (N - 1) : new[r] = rs[r]
    <3> HIDE DEF new
    <3> QED
      BY <1>2, <2>2, <2>6, <2>7
  <2>9. new # <<>>
    <3> HIDE DEF new
    <3> QED
      BY <1>2, <2>8
  <2> QED
    BY <2>1, <2>5, <2>8, <2>9 DEF Ranges
<1> HIDE DEF new
<1>4. Chained(new, First(c, 1), to + n)
  <2>1. new[1].start = First(c, 1)
    BY <1>1, <1>2, <1>3 DEF Chained
  <2>2. new[N].start + new[N].count - 1 = to + n
    <3>1. rs[N].start + rs[N].count - 1 = to
      BY <1>1 DEF Chained
    <3>2. rs[N].start \in Nat /\ rs[N].count \in Nat
      BY <1>2
    <3>3. new[N].start = rs[N].start /\ new[N].count = rs[N].count + n
      BY <1>3
    <3>4. PICK a, b : a = rs[N].start /\ b = rs[N].count
      OBVIOUS
    <3>5. a \in Nat /\ b \in Nat /\ a + b - 1 = to
      BY <3>1, <3>2, <3>4
    <3>6. a + (b + n) - 1 = to + n
      BY <3>5
    <3> QED
      BY <3>3, <3>4, <3>6
  <2>3. ASSUME NEW r \in 1 .. (N - 1)
        PROVE  /\ new[r + 1].start = new[r].start + new[r].count
               /\ new[r + 1].payout # new[r].payout
    <3>1. new[r] = rs[r] /\ rs[r + 1].start = rs[r].start + rs[r].count
          /\ rs[r + 1].payout # rs[r].payout
      BY <1>1, <1>3 DEF Chained
    <3>2. r + 1 = N \/ r + 1 \in 1 .. (N - 1)
      <4>1. PICK M : M = N
        OBVIOUS
      <4>2. M \in Nat /\ r \in 1 .. (M - 1)
        BY <1>2, <4>1
      <4>3. r + 1 = M \/ r + 1 \in 1 .. (M - 1)
        BY <4>2
      <4> QED
        BY <4>1, <4>3
    <3>3. new[r + 1].start = rs[r + 1].start /\ new[r + 1].payout = rs[r + 1].payout
      BY <1>3, <3>2
    <3> QED
      BY <3>1, <3>3
  <2> QED
    BY <1>3, <2>1, <2>2, <2>3 DEF Chained
<1>5. ASSUME FlatNeedsNoRounding(c) PROVE PaysCurve(c, new)
  <2>1. PaysCurve(c, rs)
    BY <1>5 DEF FollowsTo
  <2>2. DOMAIN new = 1 .. N
    BY <1>3, LastRange
  <2>3. SUFFICES ASSUME NEW r \in 1 .. N,
                        NEW o \in new[r].start .. (new[r].start + new[r].count - 1)
                 PROVE  new[r].payout = CurvePayout(c, o)
    BY <2>2 DEF PaysCurve
  <2>4. CASE r # N
    <3>0. r \in 1 .. (N - 1)
      BY <2>4
    <3>1. new[r] = rs[r]
      BY <1>3, <3>0
    <3> QED
      BY <1>2, <2>1, <3>1 DEF PaysCurve
  <2>5. CASE r = N
    <3>1. rs[N].start + rs[N].count - 1 = to
      BY <1>1 DEF Chained
    <3>2. o \in rs[N].start .. (rs[N].start + rs[N].count - 1) \/ o \in (to + 1) .. (to + n)
      <4>1. PICK a, b : a = rs[N].start /\ b = rs[N].count
        OBVIOUS
      <4>2. a \in Nat /\ b \in Nat /\ a + b - 1 = to
        BY <1>2, <3>1, <4>1
      <4>3. new[r].start = a /\ new[r].count = b + n
        BY <1>3, <2>5, <4>1
      <4>4. o \in a .. (a + (b + n) - 1)
        BY <4>3
      <4>5. o \in a .. (a + b - 1) \/ o \in (to + 1) .. (to + n)
        BY <4>2, <4>4
      <4> QED
        BY <4>1, <4>5
    <3>3. N \in DOMAIN rs
      BY <1>2
    <3>4. rs[N].payout = CurvePayout(c, o)
      BY <1>5, <2>1, <3>2, <3>3 DEF PaysCurve
    <3> QED
      BY <1>3, <2>5, <3>4
  <2> QED
    BY <2>4, <2>5
<1> QED
  BY <1>3, <1>4, <1>5 DEF FollowsTo, new

\* Ranges stay right when a range of one outcome follows that pays something else.
LEMMA NextFollows ==
    ASSUME NEW c, NEW rs, NEW to \in Nat, FollowsTo(c, rs, to),
           NEW pay \in Payouts(c), pay # rs[Len(rs)].payout, pay = CurvePayout(c, to + 1)
    PROVE  FollowsTo(c, Append(rs, RangePayout(to + 1, 1, pay)), to + 1)
<1> DEFINE x == RangePayout(to + 1, 1, pay)
           new == Append(rs, x)
           N == Len(rs)
<1>1. rs \in Ranges(c) /\ Chained(rs, First(c, 1), to)
  BY DEF FollowsTo
<1>2. /\ N \in Nat \ {0} /\ DOMAIN rs = 1 .. N
      /\ \A r \in 1 .. N : rs[r].start \in Nat /\ rs[r].count \in Nat \ {0}
                           /\ rs[r].payout \in Payouts(c)
  BY <1>1, LastRange
<1>3. x.start = to + 1 /\ x.count = 1 /\ x.payout = pay
  BY DEF RangePayout
<1>4. /\ new \in Ranges(c) /\ Len(new) = N + 1 /\ new[N + 1] = x
      /\ \A r \in 1 .. N : new[r] = rs[r]
  <2>1. PICK X : X = [start : Nat, count : Nat \ {0}, payout : Payouts(c)]
    OBVIOUS
  <2>2. rs \in Seq(X) /\ x \in X
    BY <1>1, <2>1 DEF Ranges, RangePayout
  <2> HIDE DEF x
  <2>3. new \in Seq(X) /\ Len(new) = N + 1 /\ new[N + 1] = x /\ \A r \in 1 .. N : new[r] = rs[r]
    BY <2>2
  <2>4. new # <<>>
    BY <1>2, <2>3
  <2> QED
    BY <2>1, <2>3, <2>4 DEF Ranges
<1> HIDE DEF x, new
<1>5. Chained(new, First(c, 1), to + 1)
  <2>1. new[1].start = First(c, 1)
    BY <1>1, <1>2, <1>4 DEF Chained
  <2>2. rs[N].start + rs[N].count - 1 = to
    BY <1>1 DEF Chained
  <2>3. ASSUME NEW r \in 1 .. N
        PROVE  /\ new[r + 1].start = new[r].start + new[r].count
               /\ new[r + 1].payout # new[r].payout
    <3>0. N \in Nat /\ r \in Nat
      BY <1>2
    <3>1. CASE r = N
      <4>1. new[r + 1].start = to + 1 /\ new[r + 1].payout = pay /\ new[r] = rs[N]
        BY <1>3, <1>4, <3>1
      <4>2. rs[N].start \in Nat /\ rs[N].count \in Nat
        BY <1>2
      <4>3. rs[N].start + rs[N].count = to + 1
        BY <2>2, <4>2
      <4> QED
        BY <4>1, <4>3
    <3>2. CASE r # N
      <4>1. r \in 1 .. (N - 1) /\ r + 1 \in 1 .. N
        BY <3>0, <3>2
      <4> QED
        BY <1>1, <1>4, <4>1 DEF Chained
    <3> QED
      BY <3>1, <3>2
  <2>4. new[N + 1].start + new[N + 1].count - 1 = to + 1
    BY <1>3, <1>4
  <2>5. (N + 1) - 1 = N
    BY <1>2
  <2> QED
    BY <1>4, <2>1, <2>3, <2>4, <2>5 DEF Chained
<1>6. ASSUME FlatNeedsNoRounding(c) PROVE PaysCurve(c, new)
  <2>1. PaysCurve(c, rs)
    BY <1>6 DEF FollowsTo
  <2>2. DOMAIN new = 1 .. (N + 1)
    BY <1>4, LastRange
  <2>3. SUFFICES ASSUME NEW r \in 1 .. (N + 1),
                        NEW o \in new[r].start .. (new[r].start + new[r].count - 1)
                 PROVE  new[r].payout = CurvePayout(c, o)
    BY <2>2 DEF PaysCurve
  <2>4. CASE r \in 1 .. N
    BY <1>2, <1>4, <2>1, <2>4 DEF PaysCurve
  <2>5. CASE r \notin 1 .. N
    <3>1. r = N + 1
      BY <1>2, <2>5
    <3>2. o = to + 1
      BY <1>3, <1>4, <3>1
    <3> QED
      BY <1>3, <1>4, <3>1, <3>2
  <2> QED
    BY <2>4, <2>5
<1> QED
  BY <1>4, <1>5, <1>6 DEF FollowsTo, new, x

\* One more outcome of a piece.
LEMMA AddOutcomeFollows ==
    ASSUME NEW c \in NumericalContracts, numerical_validate(c), NEW i \in DOMAIN c.pieces,
           NEW rs, NEW to \in Nat, FollowsTo(c, rs, to), First(c, i) <= to, to < Latest(c, i)
    PROVE  FollowsTo(c, AddOutcome(c.pieces[i], c.intervals, c.total, rs, to + 1), to + 1)
<1> DEFINE pay == get_rounded_payout(c.pieces[i], to + 1, c.intervals, c.total)
<1>1. First(c, i) \in Nat /\ Latest(c, i) \in Nat
  BY PieceOutcomes
<1>2. to + 1 \in Nat /\ to + 1 <= Latest(c, i) /\ First(c, i) < to + 1
  BY <1>1
<1>3. pay = CurvePayout(c, to + 1)
  <2>1. PICK o : o = to + 1
    OBVIOUS
  <2>2. PieceOf(c, o) = c.pieces[i]
    BY <1>2, <2>1, PieceOfOutcome
  <2> QED
    BY <2>1, <2>2 DEF CurvePayout
<1>4. pay \in Payouts(c)
  <2>1. c.pieces[i] \in Range(c.pieces)
    BY DEF Range
  <2> QED
    BY <1>2, <2>1 DEF Payouts
<1>5. Last(rs) = rs[Len(rs)]
  BY LastRange DEF FollowsTo
<1> HIDE DEF pay
<1>6. CASE rs[Len(rs)].payout = pay
  <2>1. AddOutcome(c.pieces[i], c.intervals, c.total, rs, to + 1) = Longer(rs, 1)
    BY <1>5, <1>6, Zenon DEF AddOutcome, Longer, pay
  <2>2. \A o \in (to + 1) .. (to + 1) : CurvePayout(c, o) = rs[Len(rs)].payout
    <3>1. \A o \in (to + 1) .. (to + 1) : o = to + 1
      OBVIOUS
    <3> QED
      BY <1>3, <1>6, <3>1
  <2>3. FollowsTo(c, Longer(rs, 1), to + 1)
    BY <2>2, LongerFollows
  <2> QED
    BY <2>1, <2>3
<1>7. CASE rs[Len(rs)].payout # pay
  <2>1. AddOutcome(c.pieces[i], c.intervals, c.total, rs, to + 1)
            = Append(rs, RangePayout(to + 1, 1, pay))
    BY <1>5, <1>7, Zenon DEF AddOutcome, pay
  <2>2. FollowsTo(c, Append(rs, RangePayout(to + 1, 1, pay)), to + 1)
    BY <1>3, <1>4, <1>7, NextFollows
  <2> QED
    BY <2>1, <2>2
<1> QED
  BY <1>6, <1>7

\* The range that the first piece begins with.
LEMMA FirstFollows ==
    ASSUME NEW c \in NumericalContracts, numerical_validate(c)
    PROVE  FollowsTo(c, get_cur_range(c.pieces[1], c.intervals, c.total, <<>>), First(c, 1))
<1> DEFINE o == First(c, 1)
           pay == get_rounded_payout(c.pieces[1], o, c.intervals, c.total)
           new == get_cur_range(c.pieces[1], c.intervals, c.total, <<>>)
<1>1. 1 \in DOMAIN c.pieces
  BY DEF NumericalContracts
<1>2. o \in Nat /\ o <= Latest(c, 1)
  BY <1>1, PieceOutcomes
<1>3. pay = CurvePayout(c, o)
  <2>1. PieceOf(c, o) = c.pieces[1]
    BY <1>1, <1>2, PieceOfOutcome
  <2> QED
    BY <2>1 DEF CurvePayout
<1>4. pay \in Payouts(c)
  <2>1. c.pieces[1] \in Range(c.pieces)
    BY <1>1 DEF Range
  <2> QED
    BY <1>2, <2>1 DEF Payouts
<1>5. new = <<RangePayout(o, 1, pay)>>
  BY DEF get_cur_range, First
<1> HIDE DEF o, pay, new
<1>6. PICK x : x = RangePayout(o, 1, pay)
  OBVIOUS
<1>7. x.start = o /\ x.count = 1 /\ x.payout = pay
      /\ x \in [start : Nat, count : Nat \ {0}, payout : Payouts(c)]
  BY <1>2, <1>4, <1>6 DEF RangePayout
<1>8. new = <<x>> /\ Len(new) = 1 /\ new[1] = x /\ DOMAIN new = {1}
  BY <1>5, <1>6
<1>9. new \in Ranges(c)
  <2>1. PICK X : X = [start : Nat, count : Nat \ {0}, payout : Payouts(c)]
    OBVIOUS
  <2>2. x \in X
    BY <1>7, <2>1
  <2>3. new \in Seq(X) /\ new # <<>>
    BY <1>8, <2>2
  <2> QED
    BY <2>1, <2>3 DEF Ranges
<1>10. Chained(new, o, o)
  BY <1>2, <1>7, <1>8 DEF Chained
<1>11. PaysCurve(c, new)
  <2>1. ASSUME NEW r \in DOMAIN new, NEW q \in new[r].start .. (new[r].start + new[r].count - 1)
        PROVE  new[r].payout = CurvePayout(c, q)
    <3>1. new[r] = x
      BY <1>8
    <3>2. q = o
      BY <1>2, <1>7, <3>1
    <3> QED
      BY <1>3, <1>7, <3>1, <3>2
  <2> QED
    BY <2>1 DEF PaysCurve
<1> QED
  BY <1>9, <1>10, <1>11 DEF FollowsTo, new, o

\* A piece that is evaluated outcome by outcome.
LEMMA ComputeFollows ==
    ASSUME NEW c \in NumericalContracts, numerical_validate(c), NEW i \in DOMAIN c.pieces,
           NEW rs, FollowsTo(c, get_cur_range(c.pieces[i], c.intervals, c.total, rs), First(c, i))
    PROVE  FollowsTo(c, compute_range_payouts(c.pieces[i], c.intervals, c.total, rs),
                     Latest(c, i))
<1>1. PICK f : /\ IsLoop(c.pieces[i], c.intervals, c.total, rs, Nat, f)
               /\ compute_range_payouts(c.pieces[i], c.intervals, c.total, rs)
                     = f[Latest(c, i) - First(c, i)]
  BY ComputeIsLoop DEF First, Latest
<1>2. First(c, i) \in Nat /\ Latest(c, i) \in Nat /\ First(c, i) < Latest(c, i)
  BY PieceOutcomes
<1>3. PICK a, b \in Nat : a = First(c, i) /\ b = Latest(c, i)
  BY <1>2
<1> DEFINE G == {n \in Nat : a + n <= b => FollowsTo(c, f[n], a + n)}
<1>4. 0 \in G
  <2>1. f[0] = get_cur_range(c.pieces[i], c.intervals, c.total, rs)
    BY <1>1 DEF IsLoop
  <2>2. a + 0 = a
    BY <1>3
  <2>3. FollowsTo(c, f[0], a + 0)
    BY <1>3, <2>1, <2>2
  <2> QED
    BY <2>3
<1>5. ASSUME NEW n \in Nat, n \in G PROVE n + 1 \in G
  <2> SUFFICES ASSUME a + (n + 1) <= b PROVE FollowsTo(c, f[n + 1], a + (n + 1))
    OBVIOUS
  <2>1. PICK to \in Nat : to = a + n
    OBVIOUS
  <2>2. to < b /\ a <= to /\ to + 1 = a + (n + 1) /\ n + 1 # 0 /\ (n + 1) - 1 = n
    BY <2>1
  <2>3. FollowsTo(c, f[n], to)
    BY <1>5, <2>1, <2>2
  <2>4. f[n + 1] = Turn(c.pieces[i], c.intervals, c.total, f[n], n + 1)
    BY <1>1, <2>2 DEF IsLoop
  <2>5. f[n + 1] = AddOutcome(c.pieces[i], c.intervals, c.total, f[n], to + 1)
    BY <1>3, <2>2, <2>4 DEF Turn, First
  <2>6. FollowsTo(c, f[n + 1], to + 1)
    BY <1>3, <2>2, <2>3, <2>5, AddOutcomeFollows
  <2> QED
    BY <2>2, <2>6
<1> HIDE DEF G
<1>6. \A n \in Nat : n \in G
  BY <1>4, <1>5, SetInduction
<1>7. b - a \in Nat /\ a + (b - a) = b
  BY <1>2, <1>3
<1>8. FollowsTo(c, f[b - a], a + (b - a))
  BY <1>6, <1>7 DEF G
<1> QED
  BY <1>1, <1>3, <1>7, <1>8

\* A flat piece.
LEMMA FlatFollows ==
    ASSUME NEW c \in NumericalContracts, numerical_validate(c), NEW i \in DOMAIN c.pieces,
           NEW cur, FollowsTo(c, cur, First(c, i)), IsFlat(c.pieces[i])
    PROVE  FollowsTo(c, [cur EXCEPT ![Len(cur)].count = @ + Latest(c, i) - First(c, i)],
                     Latest(c, i))
<1>1. First(c, i) \in Nat /\ Latest(c, i) \in Nat /\ First(c, i) < Latest(c, i)
  BY PieceOutcomes
<1>2. PICK a, b, n \in Nat : a = First(c, i) /\ b = Latest(c, i) /\ n = b - a
  BY <1>1
<1>3. a + n = b
  BY <1>2
<1>4. cur \in Ranges(c) /\ cur[Len(cur)].start + cur[Len(cur)].count - 1 = a
  BY <1>2 DEF FollowsTo, Chained
<1>5. Len(cur) \in DOMAIN cur /\ cur[Len(cur)].start \in Nat
      /\ cur[Len(cur)].count \in Nat \ {0}
  <2>1. PICK N : N = Len(cur)
    OBVIOUS
  <2>2. /\ N \in Nat \ {0} /\ DOMAIN cur = 1 .. N
        /\ \A r \in 1 .. N : cur[r].start \in Nat /\ cur[r].count \in Nat \ {0}
    BY <1>4, <2>1, LastRange
  <2>3. N \in 1 .. N
    BY <2>2
  <2> QED
    BY <2>1, <2>2, <2>3
<1>6. ASSUME FlatNeedsNoRounding(c)
      PROVE  \A o \in (a + 1) .. (a + n) : CurvePayout(c, o) = cur[Len(cur)].payout
  <2>1. \A o \in (a + 1) .. (a + n) : CurvePayout(c, o) = CurvePayout(c, a)
    BY <1>2, <1>3, <1>6 DEF FlatNeedsNoRounding, First, Latest
  <2>2. PICK s, k : s = cur[Len(cur)].start /\ k = cur[Len(cur)].count
    OBVIOUS
  <2>3. a \in s .. (s + k - 1)
    <3>1. s \in Nat /\ k \in Nat \ {0} /\ s + k - 1 = a
      BY <1>4, <1>5, <2>2
    <3> QED
      BY <3>1
  <2>4. PaysCurve(c, cur)
    BY <1>6 DEF FollowsTo
  <2>5. cur[Len(cur)].payout = CurvePayout(c, a)
    BY <1>5, <2>2, <2>3, <2>4 DEF PaysCurve
  <2> QED
    BY <2>1, <2>5
<1>7. FollowsTo(c, Longer(cur, n), a + n)
  BY <1>2, <1>6, LongerFollows
<1>8. [cur EXCEPT ![Len(cur)].count = @ + b - a] = Longer(cur, n)
  <2>1. PICK k \in Nat : k = cur[Len(cur)].count
    BY <1>5
  <2>2. k + b - a = k + n
    BY <1>2
  <2>3. cur[Len(cur)].count + b - a = cur[Len(cur)].count + n
    BY <2>1, <2>2
  <2> QED
    BY <2>3, Zenon DEF Longer
<1> QED
  BY <1>2, <1>3, <1>7, <1>8

\* The ranges before piece i: none, or those of the pieces before.
Before(c, rs, i) ==
    \/ i = 1 /\ rs = <<>>
    \/ i # 1 /\ i - 1 \in DOMAIN c.pieces /\ FollowsTo(c, rs, Latest(c, i - 1))

\* to_range_payouts of a piece goes on from the ranges of the pieces before.
LEMMA PieceFollows ==
    ASSUME NEW c \in NumericalContracts, numerical_validate(c), NEW i \in DOMAIN c.pieces,
           NEW rs, Before(c, rs, i)
    PROVE  FollowsTo(c, to_range_payouts(c.pieces[i], c.intervals, c.total, rs), Latest(c, i))
<1> DEFINE cur == get_cur_range(c.pieces[i], c.intervals, c.total, rs)
<1>1. FollowsTo(c, cur, First(c, i))
  <2>1. CASE i = 1 /\ rs = <<>>
    BY <2>1, FirstFollows
  <2>2. CASE i # 1 /\ i - 1 \in DOMAIN c.pieces /\ FollowsTo(c, rs, Latest(c, i - 1))
    <3>1. PICK h : h = i - 1
      OBVIOUS
    <3>2. h + 1 = i
      <4>1. c.pieces \in Seq(Pieces)
        BY DEF NumericalContracts
      <4> QED
        BY <3>1, <4>1
    <3>3. Latest(c, h) = First(c, h + 1)
      BY <2>2, <3>1, <3>2, PiecesMeet
    <3>4. rs # <<>>
      BY <2>2 DEF FollowsTo, Ranges
    <3>5. cur = rs
      BY <3>4 DEF get_cur_range
    <3> QED
      BY <2>2, <3>1, <3>2, <3>3, <3>5
  <2> QED
    BY <2>1, <2>2 DEF Before
<1>2. CASE IsFlat(c.pieces[i])
  <2>1. to_range_payouts(c.pieces[i], c.intervals, c.total, rs)
            = [cur EXCEPT ![Len(cur)].count = @ + Latest(c, i) - First(c, i)]
    BY <1>2, Zenon DEF to_range_payouts, First, Latest
  <2> HIDE DEF cur
  <2> QED
    BY <1>1, <1>2, <2>1, FlatFollows
<1>3. CASE ~IsFlat(c.pieces[i])
  <2>1. to_range_payouts(c.pieces[i], c.intervals, c.total, rs)
            = compute_range_payouts(c.pieces[i], c.intervals, c.total, rs)
    BY <1>3, Zenon DEF to_range_payouts
  <2> QED
    BY <1>1, <2>1, ComputeFollows
<1> QED
  BY <1>2, <1>3

----------------------------------------------------------------------------
(* The inductive invariant.                                                *)

\* The ranges are those of the pieces converted so far.
CurveInv ==
    /\ contract \in Contracts
    /\ status \in Statuses
    /\ piece \in Nat
    /\ status = "new" => piece = 0 /\ ranges = <<>>
    /\ IsEnum(contract) => status \in {"new", "rejected", "trie", "done", "attested"}
    /\ ~IsEnum(contract) =>
          /\ status \notin {"new", "rejected"} => numerical_validate(contract)
          /\ status = "curve" => /\ piece + 1 \in DOMAIN contract.pieces
                                 /\ Before(contract, ranges, piece + 1)
          /\ status \in {"trie", "done", "attested", "panicked"} =>
                FollowsTo(contract, ranges, Latest(contract, Len(contract.pieces)))

\* Every outcome from the first of the curve to the maximum is in a range that pays what
\* the curve pays there.
EveryOutcomeHasACet ==
    ~IsEnum(contract) /\ status \in {"trie", "done", "attested"} =>
        \A o \in get_first_outcome(contract.pieces[1]) .. MaxValue(contract) :
            \E r \in DOMAIN ranges :
                /\ InRange(ranges[r], o)
                /\ FlatNeedsNoRounding(contract) => ranges[r].payout = CurvePayout(contract, o)

\* What the constructors give of a contract.
LEMMA ContractType ==
    ASSUME NEW c \in Contracts
    PROVE  /\ IsEnum(c) => c \in EnumContracts
           /\ ~IsEnum(c) => c \in NumericalContracts
           /\ NbOracles(c) \in Nat \ {0}
           /\ c.threshold \in Nat \ {0} /\ c.threshold <= NbOracles(c)
<1>1. c \in NumericalContracts \cup EnumContracts /\ c.threshold <= NbOracles(c)
  BY ContractsAssumption
<1>2. CASE c \in NumericalContracts
  <2>1. ~IsEnum(c) /\ c.threshold \in Nat \ {0}
    BY <1>2 DEF NumericalContracts, IsEnum
  <2>2. c.nbDigits \in Seq(Nat \ {0}) /\ c.nbDigits # <<>>
    BY <1>2 DEF NumericalContracts
  <2>3. Len(c.nbDigits) \in Nat \ {0}
    BY <2>2
  <2> QED
    BY <1>1, <1>2, <2>1, <2>3 DEF NbOracles
<1>3. CASE c \in EnumContracts
  <2>1. IsEnum(c) /\ c.threshold \in Nat \ {0}
    BY <1>3 DEF EnumContracts, IsEnum
  <2>2. c.events \in Seq(Seq(STRING)) /\ c.events # <<>>
    BY <1>3 DEF EnumContracts
  <2>3. Len(c.events) \in Nat \ {0}
    BY <2>2
  <2> QED
    BY <1>1, <1>3, <2>1, <2>3 DEF NbOracles
<1> QED
  BY <1>1, <1>2, <1>3

\* No piece is converted at first.
LEMMA InitCurve == Init => CurveInv
BY DEF Init, CurveInv, Statuses

\* Validation: a contract that goes on has a payout function that begins.
LEMMA ValidateCurve == CurveInv /\ Validate => CurveInv'
<1> SUFFICES ASSUME CurveInv, Validate PROVE CurveInv'
  OBVIOUS
<1>1. status = "new" /\ UNCHANGED <<contract, piece, ranges>>
  BY DEF Validate
<1>2. status' \in {"trie", "rejected", "curve"}
      /\ (IsEnum(contract) => status' \in {"trie", "rejected"})
      /\ (~IsEnum(contract) => \/ status' = "rejected"
                               \/ status' = "curve" /\ numerical_validate(contract))
  BY Zenon DEF Validate
<1>3. ~IsEnum(contract) => 0 + 1 \in DOMAIN contract.pieces /\ Before(contract, <<>>, 0 + 1)
  <2>1. ASSUME ~IsEnum(contract) PROVE 1 \in DOMAIN contract.pieces
    <3>1. contract \in NumericalContracts
      BY <2>1, ContractType DEF CurveInv
    <3> QED
      BY <3>1 DEF NumericalContracts
  <2> QED
    BY <2>1 DEF Before
<1> QED
  BY <1>1, <1>2, <1>3 DEF CurveInv, Statuses

\* A piece of the payout function goes on where the ranges end.
LEMMA AddPieceCurve == CurveInv /\ AddPiece => CurveInv'
<1> SUFFICES ASSUME CurveInv, AddPiece PROVE CurveInv'
  OBVIOUS
<1> DEFINE p == contract.pieces[piece + 1]
<1>1. status = "curve" /\ UNCHANGED contract
  BY DEF AddPiece
<1>2. \/ status' = "error" /\ UNCHANGED <<piece, ranges>>
      \/ /\ ranges' = to_range_payouts(p, contract.intervals, contract.total, ranges)
         /\ piece' = piece + 1
         /\ status' = IF piece' = Len(contract.pieces) THEN "trie" ELSE "curve"
  BY Zenon DEF AddPiece
<1>3. /\ ~IsEnum(contract) /\ numerical_validate(contract) /\ contract \in Contracts
      /\ piece \in Nat /\ piece + 1 \in DOMAIN contract.pieces
      /\ Before(contract, ranges, piece + 1)
  BY <1>1 DEF CurveInv
<1>4. contract \in NumericalContracts
  BY <1>3, ContractType
<1>5. CurveInv'
  <2>1. CASE status' = "error" /\ UNCHANGED <<piece, ranges>>
    BY <1>1, <2>1 DEF CurveInv, Statuses
  <2>2. CASE /\ ranges' = to_range_payouts(p, contract.intervals, contract.total, ranges)
             /\ piece' = piece + 1
             /\ status' = IF piece' = Len(contract.pieces) THEN "trie" ELSE "curve"
    <3>1. FollowsTo(contract, ranges', Latest(contract, piece'))
      <4>1. PICK i : i = piece + 1
        OBVIOUS
      <4>2. FollowsTo(contract, to_range_payouts(contract.pieces[i], contract.intervals,
                                                 contract.total, ranges), Latest(contract, i))
        BY <1>3, <1>4, <4>1, PieceFollows
      <4> QED
        BY <2>2, <4>1, <4>2
    <3>2. status' = "curve" =>
              piece' + 1 \in DOMAIN contract.pieces /\ Before(contract, ranges', piece' + 1)
      <4> SUFFICES ASSUME status' = "curve"
                   PROVE  piece' + 1 \in DOMAIN contract.pieces
                          /\ Before(contract, ranges', piece' + 1)
        OBVIOUS
      <4>1. piece' # Len(contract.pieces)
        BY <2>2
      <4>2. contract.pieces \in Seq(Pieces)
        BY <1>4 DEF NumericalContracts
      <4>3. PICK n \in Nat : n = Len(contract.pieces) /\ DOMAIN contract.pieces = 1 .. n
        BY <4>2
      <4>4. piece' \in Nat /\ piece' \in 1 .. n /\ piece' # n
        BY <1>3, <2>2, <4>1, <4>3
      <4>5. piece' + 1 \in 1 .. n /\ piece' + 1 # 1 /\ (piece' + 1) - 1 = piece'
        <5>1. PICK q : q = piece'
          OBVIOUS
        <5>2. q \in 1 .. n /\ q # n
          BY <4>4, <5>1
        <5>3. q + 1 \in 1 .. n /\ q + 1 # 1 /\ (q + 1) - 1 = q
          BY <5>2
        <5> QED
          BY <5>1, <5>3
      <4> QED
        BY <3>1, <4>3, <4>4, <4>5 DEF Before
    <3>3. status' = "trie" => FollowsTo(contract, ranges', Latest(contract, Len(contract.pieces)))
      BY <2>2, <3>1
    <3>4. piece' \in Nat /\ status' \in {"trie", "curve"}
      BY <1>3, <2>2
    <3> QED
      BY <1>1, <1>3, <3>2, <3>3, <3>4 DEF CurveInv, Statuses
  <2> QED
    BY <1>2, <2>1, <2>2
<1> QED
  BY <1>5

\* The other steps come after the curve and leave the ranges of a numerical contract alone.
LEMMA LaterCurve ==
    CurveInv /\ (ListRange \/ ListMaximum \/ ListOutcomes \/ Attest \/ Close \/ UNCHANGED cetVars)
        => CurveInv'
<1> SUFFICES ASSUME CurveInv,
                    ListRange \/ ListMaximum \/ ListOutcomes \/ Attest \/ Close \/ UNCHANGED cetVars
             PROVE  CurveInv'
  OBVIOUS
<1>1. CASE ListRange
  <2>1. /\ status = "trie" /\ ~IsEnum(contract) /\ status' \in {"trie", "panicked"}
        /\ UNCHANGED <<contract, piece, ranges>>
    BY <1>1, Zenon DEF ListRange
  <2> QED
    BY <2>1 DEF CurveInv, Statuses
<1>2. CASE ListMaximum
  <2>1. /\ status = "trie" /\ ~IsEnum(contract) /\ status' = "done"
        /\ UNCHANGED <<contract, piece, ranges>>
    BY <1>2 DEF ListMaximum
  <2> QED
    BY <2>1 DEF CurveInv, Statuses
<1>3. CASE ListOutcomes
  <2>1. status = "trie" /\ IsEnum(contract) /\ status' = "done" /\ UNCHANGED <<contract, piece>>
    BY <1>3 DEF ListOutcomes
  <2> QED
    BY <2>1 DEF CurveInv, Statuses
<1>4. CASE Attest
  <2>1. UNCHANGED <<contract, status, piece, ranges>>
    BY <1>4 DEF Attest
  <2> QED
    BY <2>1 DEF CurveInv
<1>5. CASE Close
  <2>1. status = "done" /\ status' = "attested" /\ UNCHANGED <<contract, piece, ranges>>
    BY <1>5 DEF Close
  <2> QED
    BY <2>1 DEF CurveInv, Statuses
<1>6. CASE UNCHANGED cetVars
  <2>1. UNCHANGED <<contract, status, piece, ranges>>
    BY <1>6 DEF cetVars
  <2> QED
    BY <2>1 DEF CurveInv
<1> QED
  BY <1>1, <1>2, <1>3, <1>4, <1>5, <1>6

\* The invariant of the whole specification.
THEOREM CurveInvariant == Spec => []CurveInv
<1>1. CurveInv /\ [Next]_cetVars => CurveInv'
  BY ValidateCurve, AddPieceCurve, LaterCurve DEF Next
<1> QED
  BY InitCurve, <1>1, PTL DEF Spec

----------------------------------------------------------------------------
(* What the invariant says of the ranges.                                  *)

\* The curve ends at the maximum of the oracle with the fewest digits.
LEMMA CurveEnds ==
    ASSUME NEW c \in NumericalContracts, numerical_validate(c)
    PROVE  Latest(c, Len(c.pieces)) = MaxValue(c) /\ MaxValue(c) \in Nat
<1>1. c.pieces \in Seq(Pieces) /\ c.pieces # <<>>
  BY DEF NumericalContracts
<1>2. Last(c.pieces) = c.pieces[Len(c.pieces)] /\ Len(c.pieces) \in DOMAIN c.pieces
  BY <1>1 DEF Last
<1>3. get_last_outcome(Last(c.pieces)) = MaxValue(c)
  BY DEF numerical_validate, payout_function_validate
<1>4. Latest(c, Len(c.pieces)) \in Nat
  BY <1>2, PieceOutcomes
<1> QED
  BY <1>2, <1>3, <1>4 DEF Latest

\* Once all pieces are converted the ranges end at the maximum.
LEMMA InvImpliesCurve == CurveInv => RangesFollowTheCurve
<1> SUFFICES ASSUME CurveInv, ~IsEnum(contract), status \in {"trie", "done", "attested"}
             PROVE  /\ ranges[1].start = get_first_outcome(contract.pieces[1])
                    /\ Last(ranges).start + Last(ranges).count - 1 = MaxValue(contract)
                    /\ \A r \in 1 .. (Len(ranges) - 1) :
                          /\ ranges[r + 1].start = ranges[r].start + ranges[r].count
                          /\ ranges[r + 1].payout # ranges[r].payout
                    /\ FlatNeedsNoRounding(contract) =>
                          \A r \in DOMAIN ranges :
                              \A o \in ranges[r].start .. (ranges[r].start + ranges[r].count - 1) :
                                  ranges[r].payout = CurvePayout(contract, o)
  BY DEF RangesFollowTheCurve
<1>1. /\ contract \in NumericalContracts /\ numerical_validate(contract)
      /\ FollowsTo(contract, ranges, Latest(contract, Len(contract.pieces)))
  BY ContractType DEF CurveInv
<1>2. FollowsTo(contract, ranges, MaxValue(contract))
  BY <1>1, CurveEnds
<1>3. Last(ranges) = ranges[Len(ranges)]
  BY <1>2, LastRange DEF FollowsTo
<1> QED
  BY <1>2, <1>3 DEF FollowsTo, Chained, PaysCurve, First

\* Only the last range reaches the end, and an outcome up to the end is in a range.
LEMMA RangesCover ==
    ASSUME NEW c, NEW rs \in Ranges(c), NEW from \in Nat, NEW to \in Nat, Chained(rs, from, to)
    PROVE  /\ \A r \in 1 .. (Len(rs) - 1) : rs[r].start + rs[r].count <= to
           /\ \A o \in from .. to : \E r \in 1 .. Len(rs) : InRange(rs[r], o)
<1>1. PICK N \in Nat \ {0} : N = Len(rs)
  BY LastRange
<1>2. \A r \in 1 .. N : rs[r].start \in Nat /\ rs[r].count \in Nat \ {0}
  BY <1>1, LastRange
<1>3. PICK end : end = [r \in 1 .. N |-> rs[r].start + rs[r].count]
  OBVIOUS
<1>4. \A r \in 1 .. N : end[r] \in Nat /\ end[r] = rs[r].start + rs[r].count
  BY <1>2, <1>3
<1>5. \A r \in 1 .. (N - 1) : end[r] = rs[r + 1].start /\ end[r] < end[r + 1]
  <2> SUFFICES ASSUME NEW r \in 1 .. (N - 1)
               PROVE  end[r] = rs[r + 1].start /\ end[r] < end[r + 1]
    OBVIOUS
  <2>1. r \in 1 .. N /\ r + 1 \in 1 .. N
    OBVIOUS
  <2>2. rs[r + 1].start = rs[r].start + rs[r].count
    BY <1>1 DEF Chained
  <2>3. PICK a, b \in Nat : a = rs[r + 1].start /\ b = rs[r + 1].count /\ b # 0
    BY <1>2, <2>1
  <2>4. end[r] = a /\ end[r + 1] = a + b
    BY <1>4, <2>1, <2>2, <2>3
  <2> QED
    BY <2>3, <2>4
<1>6. end[N] = to + 1
  <2>1. PICK a, b \in Nat : a = rs[N].start /\ b = rs[N].count
    <3>1. N \in 1 .. N
      OBVIOUS
    <3> QED
      BY <1>2, <3>1
  <2>2. a + b - 1 = to
    BY <1>1, <2>1 DEF Chained
  <2>3. end[N] = a + b
    <3>1. N \in 1 .. N
      OBVIOUS
    <3> QED
      BY <1>4, <2>1, <3>1
  <2> QED
    BY <2>1, <2>2, <2>3
<1>7. \A k \in Nat : k < N => end[N - k] + k <= to + 1
  <2> DEFINE G == {k \in Nat : k < N => end[N - k] + k <= to + 1}
  <2>1. 0 \in G
    BY <1>6
  <2>2. ASSUME NEW k \in Nat, k \in G PROVE k + 1 \in G
    <3> SUFFICES ASSUME k + 1 < N PROVE end[N - (k + 1)] + (k + 1) <= to + 1
      OBVIOUS
    <3>1. PICK r : r = N - (k + 1)
      OBVIOUS
    <3>2. r \in 1 .. (N - 1) /\ r + 1 = N - k /\ r \in 1 .. N /\ r + 1 \in 1 .. N /\ k < N
      BY <3>1
    <3>3. end[r] < end[r + 1] /\ end[r] \in Nat /\ end[r + 1] \in Nat
      BY <1>4, <1>5, <3>2
    <3>4. end[r + 1] + k <= to + 1
      BY <2>2, <3>2
    <3>5. PICK x, y \in Nat : x = end[r] /\ y = end[r + 1]
      BY <3>3
    <3>6. x + (k + 1) <= to + 1
      BY <3>3, <3>4, <3>5
    <3> QED
      BY <3>1, <3>5, <3>6
  <2> HIDE DEF G
  <2>3. \A k \in Nat : k \in G
    BY <2>1, <2>2, SetInduction
  <2> QED
    BY <2>3 DEF G
<1>8. \A r \in 1 .. (N - 1) : rs[r].start + rs[r].count <= to
  <2> SUFFICES ASSUME NEW r \in 1 .. (N - 1) PROVE rs[r].start + rs[r].count <= to
    OBVIOUS
  <2>1. PICK k : k = N - r
    OBVIOUS
  <2>2. k \in Nat /\ k < N /\ k >= 1 /\ N - k = r /\ r \in 1 .. N
    BY <2>1
  <2>3. end[r] + k <= to + 1 /\ end[r] \in Nat
    BY <1>4, <1>7, <2>2
  <2>4. PICK x \in Nat : x = end[r]
    BY <2>3
  <2>5. x <= to
    BY <2>2, <2>3, <2>4
  <2> QED
    BY <1>4, <2>2, <2>4, <2>5
<1>9. ASSUME NEW o \in from .. to PROVE \E r \in 1 .. N : InRange(rs[r], o)
  <2> DEFINE S == {r \in 1 .. N : o < end[r]}
  <2>1. S \subseteq Nat /\ N \in S
    BY <1>6
  <2>2. PICK m \in S : \A x \in S : m <= x
    BY <2>1, SmallestExists
  <2>3. m \in 1 .. N /\ o < end[m] /\ o \in Nat
    BY <2>2
  <2>4. rs[m].start <= o
    <3>1. CASE m = 1
      BY <3>1 DEF Chained
    <3>2. CASE m # 1
      <4>1. PICK h : h = m - 1
        OBVIOUS
      <4>2. h \in 1 .. (N - 1) /\ h + 1 = m /\ h \in 1 .. N /\ h < m
        BY <2>3, <3>2, <4>1
      <4>3. ~(o < end[h])
        <5>1. o < end[h] => h \in S
          BY <4>2
        <5>2. h \in S => m <= h
          BY <2>2
        <5> HIDE DEF S
        <5> QED
          BY <2>3, <4>2, <5>1, <5>2
      <4>4. end[h] = rs[m].start /\ end[h] \in Nat
        BY <1>4, <1>5, <4>2
      <4> QED
        BY <2>3, <4>3, <4>4
    <3> QED
      BY <3>1, <3>2
  <2>5. PICK a, b \in Nat : a = rs[m].start /\ b = rs[m].count
    BY <1>2, <2>3
  <2>6. a <= o /\ o < a + b
    BY <1>4, <2>3, <2>4, <2>5
  <2>7. o \in a .. (a + b - 1)
    BY <2>3, <2>5, <2>6
  <2> QED
    BY <2>3, <2>5, <2>7 DEF InRange
<1> QED
  BY <1>1, <1>8, <1>9

\* Once all pieces are converted every outcome has a range: its CET.
LEMMA InvImpliesCet == CurveInv => EveryOutcomeHasACet
<1> SUFFICES ASSUME CurveInv, ~IsEnum(contract), status \in {"trie", "done", "attested"},
                    NEW o \in get_first_outcome(contract.pieces[1]) .. MaxValue(contract)
             PROVE  \E r \in DOMAIN ranges :
                       /\ InRange(ranges[r], o)
                       /\ FlatNeedsNoRounding(contract) => ranges[r].payout = CurvePayout(contract, o)
  BY DEF EveryOutcomeHasACet
<1>1. /\ contract \in NumericalContracts /\ numerical_validate(contract)
      /\ FollowsTo(contract, ranges, Latest(contract, Len(contract.pieces)))
  BY ContractType DEF CurveInv
<1>2. FollowsTo(contract, ranges, MaxValue(contract)) /\ MaxValue(contract) \in Nat
  BY <1>1, CurveEnds
<1>3. /\ ranges \in Ranges(contract) /\ First(contract, 1) \in Nat
      /\ Chained(ranges, First(contract, 1), MaxValue(contract))
      /\ First(contract, 1) = get_first_outcome(contract.pieces[1])
  <2>1. 1 \in DOMAIN contract.pieces
    BY <1>1 DEF NumericalContracts
  <2> QED
    BY <1>1, <1>2, <2>1, PieceOutcomes DEF FollowsTo, First
<1>4. DOMAIN ranges = 1 .. Len(ranges)
  BY <1>3, LastRange
<1>5. PICK r \in 1 .. Len(ranges) : InRange(ranges[r], o)
  BY <1>2, <1>3, RangesCover
<1>6. FlatNeedsNoRounding(contract) => ranges[r].payout = CurvePayout(contract, o)
  BY <1>2, <1>4, <1>5 DEF FollowsTo, PaysCurve, InRange
<1> QED
  BY <1>4, <1>5, <1>6

----------------------------------------------------------------------------
(* The theorems.                                                           *)

\* to_range_payouts turns every validated payout function into ranges that follow each other
\* from its first outcome to the maximum, merge equal neighbours and pay the rounded curve.
THEOREM CurveFollowed == Spec => []RangesFollowTheCurve
  BY CurveInvariant, InvImpliesCurve, PTL

\* No outcome from the first point of the curve to the maximum of the smallest oracle is
\* without a range, and so without a CET, and that CET pays the rounded curve there.
THEOREM EveryOutcomePaid == Spec => []EveryOutcomeHasACet
  BY CurveInvariant, InvImpliesCet, PTL

=============================================================================
