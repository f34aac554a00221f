---------------------------- MODULE ControlProofs ----------------------------
(***************************************************************************)
(* The control applications of the legacy firmware, for any number of      *)
(* inverters and of H bridges, any currents, and any jitter of the control *)
(* interrupt of one tick: the list of controllers is intact between any    *)
(* two stores of the main loop, every interrupt serves the applications    *)
(* that are on, and their axes stay together.                              *)
(*                                                                         *)
(* The main loop is described by an agenda of operations.  Roster is what  *)
(* they are about: the list, and what an application is set up with.       *)
(* Good is what holds between any two operations, Does what one of them    *)
(* changes, and Leads that an agenda leads from one good state to another. *)
(* ListInv says that the agenda leads from where the main loop stands, at  *)
(* most half an operation ahead, to where no command is in progress.  The  *)
(* interrupt is a fold over the list; what its controllers leave to each   *)
(* other is an invariant of that fold.                                     *)
(***************************************************************************)
EXTENDS MCBasic, SequenceTheorems, FiniteSetTheorems, WellFoundedInduction, TLAPS

(* A set of numbers that is not empty has a least one.                     *)
LEMMA Least ==
  ASSUME NEW T \in SUBSET Nat, T # {} PROVE \E x \in T : \A y \in T : x <= y
<1> DEFINE R == OpToRel(<, Nat)
<1>1. IsWellFoundedOn(R, Nat)
  BY NatLessThanWellFounded
<1>2. \A a, b \in Nat : a < b => <<a, b>> \in R
  BY DEF OpToRel
<1> HIDE DEF R
<1>3. PICK x \in T : \A y \in T : ~(<<y, x>> \in R)
  BY <1>1, WFMin
<1>4. ASSUME NEW y \in T PROVE x <= y
  <2>1. x \in Nat /\ y \in Nat /\ ~(<<y, x>> \in R)
    BY <1>3
  <2>2. ~(y < x)
    BY <1>2, <2>1
  <2> QED BY <2>1, <2>2
<1> QED BY <1>4

-----------------------------------------------------------------------------
(* What a group of stores leaves.                                          *)
LEMMA StoredNone == ASSUME NEW m PROVE Stored(m, << >>) = m
<1> DEFINE e(f) == f = [k \in 0 .. Len(<< >>) |-> IF k = 0 THEN m ELSE Put(f[k - 1], << >>[k])]
           after == CHOOSE f : e(f)
<1>1. e([k \in 0 .. Len(<< >>) |-> m])
  OBVIOUS
<1>2. e(after)
  BY <1>1
<1>3. after[0] = m /\ Len(<< >>) = 0
  BY <1>2
<1> QED BY <1>3 DEF Stored

(* Three stores, two and one.                                              *)
LEMMA StoredThree ==
  ASSUME NEW m, NEW a, NEW b, NEW c PROVE Stored(m, <<a, b, c>>) = Put(Put(Put(m, a), b), c)
<1> DEFINE s == <<a, b, c>>
           e(f) == f = [k \in 0 .. Len(s) |-> IF k = 0 THEN m ELSE Put(f[k - 1], s[k])]
           after == CHOOSE f : e(f)
           one == Put(m, a)
           two == Put(one, b)
           three == Put(two, c)
           g == [k \in 0 .. 3 |-> IF k = 0 THEN m ELSE IF k = 1 THEN one ELSE IF k = 2 THEN two ELSE three]
<1>1. Len(s) = 3 /\ s[1] = a /\ s[2] = b /\ s[3] = c
  OBVIOUS
<1>2. e(g)
  <2>1. ASSUME NEW k \in 0 .. 3 PROVE g[k] = IF k = 0 THEN m ELSE Put(g[k - 1], s[k])
    <3> HIDE DEF one, two, three
    <3>1. g[0] = m /\ g[1] = one /\ g[2] = two /\ g[3] = three
      OBVIOUS
    <3> HIDE DEF g, s
    <3>2. k = 0 \/ k = 1 \/ k = 2 \/ k = 3
      OBVIOUS
    <3>3. g[1] = Put(g[0], s[1]) /\ g[2] = Put(g[1], s[2]) /\ g[3] = Put(g[2], s[3])
      BY <1>1, <3>1 DEF one, two, three
    <3>4. CASE k = 1
      BY <3>3, <3>4
    <3>5. CASE k = 2
      BY <3>3, <3>5
    <3>6. CASE k = 3
      BY <3>3, <3>6
    <3> QED BY <3>1, <3>2, <3>4, <3>5, <3>6
  <2> HIDE DEF s
  <2> QED BY <1>1, <2>1
<1>3. e(after)
  BY <1>2
<1>4. after[3] = three
  <2> HIDE DEF after, s
  <2>1. \A k \in 0 .. 3 : after[k] = IF k = 0 THEN m ELSE Put(after[k - 1], s[k])
    BY <1>1, <1>3
  <2>2. after[0] = m /\ after[1] = Put(after[0], s[1]) /\ after[2] = Put(after[1], s[2]) /\ after[3] = Put(after[2], s[3])
    BY <2>1
  <2> QED BY <1>1, <2>2
<1> QED BY <1>1, <1>4 DEF Stored

LEMMA StoredTwo ==
  ASSUME NEW m, NEW a, NEW b PROVE Stored(m, <<a, b>>) = Put(Put(m, a), b)
<1> DEFINE s == <<a, b>>
           e(f) == f = [k \in 0 .. Len(s) |-> IF k = 0 THEN m ELSE Put(f[k - 1], s[k])]
           after == CHOOSE f : e(f)
           one == Put(m, a)
           two == Put(one, b)
           g == [k \in 0 .. 2 |-> IF k = 0 THEN m ELSE IF k = 1 THEN one ELSE two]
<1>1. Len(s) = 2 /\ s[1] = a /\ s[2] = b
  OBVIOUS
<1>2. e(g)
  <2>1. ASSUME NEW k \in 0 .. 2 PROVE g[k] = IF k = 0 THEN m ELSE Put(g[k - 1], s[k])
    <3> HIDE DEF one, two
    <3>1. g[0] = m /\ g[1] = one /\ g[2] = two
      OBVIOUS
    <3> HIDE DEF g, s
    <3>2. k = 0 \/ k = 1 \/ k = 2
      OBVIOUS
    <3>3. g[1] = Put(g[0], s[1]) /\ g[2] = Put(g[1], s[2])
      BY <1>1, <3>1 DEF one, two
    <3>4. CASE k = 1
      BY <3>3, <3>4
    <3>5. CASE k = 2
      BY <3>3, <3>5
    <3> QED BY <3>1, <3>2, <3>4, <3>5
  <2> HIDE DEF s
  <2> QED BY <1>1, <2>1
<1>3. e(after)
  BY <1>2
<1>4. after[2] = two
  <2> HIDE DEF after, s
  <2>1. \A k \in 0 .. 2 : after[k] = IF k = 0 THEN m ELSE Put(after[k - 1], s[k])
    BY <1>1, <1>3
  <2>2. after[0] = m /\ after[1] = Put(after[0], s[1]) /\ after[2] = Put(after[1], s[2])
    BY <2>1
  <2> QED BY <1>1, <2>2
<1> QED BY <1>1, <1>4 DEF Stored

LEMMA StoredOne ==
  ASSUME NEW m, NEW a PROVE Stored(m, <<a>>) = Put(m, a)
<1> DEFINE s == <<a>>
           e(f) == f = [k \in 0 .. Len(s) |-> IF k = 0 THEN m ELSE Put(f[k - 1], s[k])]
           after == CHOOSE f : e(f)
           one == Put(m, a)
           g == [k \in 0 .. 1 |-> IF k = 0 THEN m ELSE one]
<1>1. Len(s) = 1 /\ s[1] = a
  OBVIOUS
<1>2. e(g)
  <2>1. ASSUME NEW k \in 0 .. 1 PROVE g[k] = IF k = 0 THEN m ELSE Put(g[k - 1], s[k])
    <3> HIDE DEF one
    <3>1. g[0] = m /\ g[1] = one
      OBVIOUS
    <3> HIDE DEF g, s
    <3>2. k = 0 \/ k = 1
      OBVIOUS
    <3>3. g[1] = Put(g[0], s[1])
      BY <1>1, <3>1 DEF one
    <3> QED BY <3>1, <3>2, <3>3
  <2> HIDE DEF s
  <2> QED BY <1>1, <2>1
<1>3. e(after)
  BY <1>2
<1>4. after[1] = one
  <2> HIDE DEF after, s
  <2>1. \A k \in 0 .. 1 : after[k] = IF k = 0 THEN m ELSE Put(after[k - 1], s[k])
    BY <1>1, <1>3
  <2>2. after[0] = m /\ after[1] = Put(after[0], s[1])
    BY <2>1
  <2> QED BY <1>1, <2>2
<1> QED BY <1>1, <1>4 DEF Stored

-----------------------------------------------------------------------------
(* The walk of the list.                                                   *)

(* No item has the name of an end of the list.                             *)
LEMMA Names ==
  /\ NIL \notin Item /\ C0s \notin Item /\ NIL # C0s
BY DEF NIL, C0s, Item, Position

(* There are finitely many items, so a list without repetition is bounded. *)
LEMMA ItemsFinite == IsFiniteSet(Item) /\ Cardinality(Item) \in Nat
<1> DEFINE three == {"d", "q", "zero"}
<1>1. 0 \in Int /\ 3 \in Int /\ NUM_VSI - 1 \in Int /\ NUM_HBRIDGE - 1 \in Int
  BY BasicControlAssumption
<1>2. IsFiniteSet(0 .. 3) /\ IsFiniteSet(Inv) /\ IsFiniteSet(Bridge)
  BY <1>1, FS_Interval DEF Inv, Bridge
<1>3. IsFiniteSet({"P"}) /\ IsFiniteSet({"H"}) /\ IsFiniteSet({"d"}) /\ IsFiniteSet({"q"}) /\ IsFiniteSet({"zero"})
  BY FS_Singleton
<1>4. IsFiniteSet({"d"} \cup {"q"}) /\ IsFiniteSet(({"d"} \cup {"q"}) \cup {"zero"})
  BY <1>3, FS_Union
<1>5. three = ({"d"} \cup {"q"}) \cup {"zero"}
  OBVIOUS
<1>6. IsFiniteSet(three)
  BY <1>4, <1>5
<1> HIDE DEF three
<1>7. IsFiniteSet({"P"} \X (0 .. 3)) /\ IsFiniteSet(three \X Inv) /\ IsFiniteSet({"H"} \X Bridge)
  BY <1>2, <1>3, <1>6, FS_Product
<1>8. IsFiniteSet((({"P"} \X (0 .. 3)) \cup (three \X Inv)) \cup ({"H"} \X Bridge))
  BY <1>7, FS_Union
<1>9. IsFiniteSet(Item)
  BY <1>8 DEF Item, Position, three
<1> QED BY <1>9, FS_CardinalityType

LEMMA Pigeonholes ==
  ASSUME NEW w \in Seq(Item), IsInjective(w) PROVE Len(w) <= Cardinality(Item)
<1>1. Len(w) \in Nat /\ DOMAIN w = 1 .. Len(w) /\ w \in [1 .. Len(w) -> Item]
  OBVIOUS
<1>2. w \in Injection(1 .. Len(w), Item)
  BY <1>1 DEF IsInjective, Injection
<1>3. Cardinality(1 .. Len(w)) <= Cardinality(Item)
  BY <1>2, ItemsFinite, FS_Injection
<1>4. Cardinality(1 .. Len(w)) = Len(w)
  <2>1. 1 \in Int /\ Len(w) \in Int
    BY <1>1
  <2>2. Cardinality(1 .. Len(w)) = IF 1 > Len(w) THEN 0 ELSE Len(w) - 1 + 1
    BY <2>1, FS_Interval
  <2> QED BY <1>1, <2>2
<1> QED BY <1>3, <1>4

(* w is what is linked from C0s to the end. *)
Linked(next, w) ==
  /\ w \in Seq(Item)
  /\ next[C0s] = IF w = << >> THEN NIL ELSE w[1]
  /\ \A k \in 1 .. Len(w) : next[w[k]] = IF k = Len(w) THEN NIL ELSE w[k + 1]

(* The walk visits what is linked, and ends.                               *)
LEMMA WalkIs ==
  ASSUME NEW next, NEW w, Linked(next, w), IsInjective(w)
  PROVE  Walk(next) = w /\ Len(w) < Bound
<1> DEFINE n == Len(w)
           Up(k) == IF k < n THEN k ELSE n
           part(k) == [j \in 1 .. Up(k) |-> w[j]]
           step(s) == LET m == next[IF s = << >> THEN C0s ELSE Last(s)] IN IF m = NIL THEN s ELSE Append(s, m)
           e(f) == f = [k \in 0 .. Bound |-> IF k = 0 THEN << >> ELSE step(f[k - 1])]
           walked == CHOOSE f : e(f)
           g == [k \in 0 .. Bound |-> part(k)]
<1>1. n \in Nat /\ w \in Seq(Item) /\ \A k \in 1 .. n : w[k] \in Item
  BY DEF Linked
<1>2. Bound \in Nat /\ n < Bound
  BY <1>1, Pigeonholes, ItemsFinite DEF Bound
<1>3. ASSUME NEW k \in Nat PROVE part(k) \in Seq(Item) /\ Len(part(k)) = Up(k) /\ \A j \in 1 .. Up(k) : part(k)[j] = w[j]
  <2>1. Up(k) \in Nat /\ Up(k) <= n
    BY <1>1
  <2> HIDE DEF n, Up
  <2> QED BY <1>1, <2>1
<1>4. ASSUME NEW k \in Nat, k > 0 PROVE step(part(k - 1)) = part(k)
  <2> DEFINE s == part(k - 1)
             m == next[IF s = << >> THEN C0s ELSE Last(s)]
             i == Up(k - 1)
  <2>1. i \in 0 .. n /\ (i < n => Up(k) = i + 1) /\ (i = n => Up(k) = n) /\ k - 1 \in Nat
    BY <1>1, <1>4
  <2>2. s \in Seq(Item) /\ Len(s) = i /\ \A j \in 1 .. i : s[j] = w[j]
    BY <1>3, <2>1
  <2>3. part(k) \in Seq(Item) /\ Len(part(k)) = Up(k) /\ \A j \in 1 .. Up(k) : part(k)[j] = w[j]
    BY <1>3
  <2> HIDE DEF part, Up, s, i
  <2>4. m = IF i = n THEN NIL ELSE w[i + 1]
    <3>1. CASE i = 0
      <4>1. s = << >>
        BY <2>2, <3>1
      <4>2. w = << >> <=> n = 0
        BY <1>1
      <4> QED BY <3>1, <4>1, <4>2, <1>1, <2>1 DEF Linked
    <3>2. CASE i # 0
      <4>1. s # << >> /\ Last(s) = w[i] /\ i \in 1 .. n
        BY <2>1, <2>2, <3>2, <1>1 DEF Last
      <4> QED BY <4>1 DEF Linked
    <3> QED BY <3>1, <3>2
  <2> HIDE DEF m
  <2>5. CASE i = n
    <3>1. s = part(k)
      BY <2>1, <2>2, <2>3, <2>5, SeqEqual
    <3>2. step(s) = s
      BY <2>4, <2>5 DEF m
    <3> QED BY <3>1, <3>2 DEF s
  <2>6. CASE i # n
    <3>1. w[i + 1] \in Item /\ Up(k) = i + 1
      BY <1>1, <2>1, <2>6
    <3>2. step(s) = Append(s, w[i + 1])
      BY <2>4, <2>6, <3>1, Names DEF m
    <3>3. /\ Append(s, w[i + 1]) \in Seq(Item) /\ Len(Append(s, w[i + 1])) = i + 1
          /\ \A j \in 1 .. i : Append(s, w[i + 1])[j] = s[j]
          /\ Append(s, w[i + 1])[i + 1] = w[i + 1]
      BY <2>2, <3>1, AppendProperties
    <3>4. Append(s, w[i + 1]) = part(k)
      <4> DEFINE a == Append(s, w[i + 1])
      <4>1. a \in Seq(Item) /\ Len(a) = Len(part(k)) /\ Len(a) = i + 1
        BY <2>3, <3>1, <3>3
      <4>2. \A j \in 1 .. Len(a) : a[j] = part(k)[j]
        <5> HIDE DEF a
        <5> SUFFICES ASSUME NEW j \in 1 .. Len(a) PROVE a[j] = part(k)[j]
          OBVIOUS
        <5>1. j \in 1 .. i \/ j = i + 1
          BY <2>1, <4>1
        <5> QED BY <5>1, <2>1, <2>2, <2>3, <3>1, <3>3 DEF a
      <4> HIDE DEF a
      <4>3. a = part(k)
        BY <2>3, <4>1, <4>2, SeqEqual
      <4> QED BY <4>3 DEF a
    <3> QED BY <3>2, <3>4 DEF s
  <2> QED BY <2>5, <2>6
<1>5. part(0) = << >> /\ part(Bound) = w
  <2>1. part(0) \in Seq(Item) /\ Len(part(0)) = 0
    BY <1>1, <1>3
  <2>2. Up(Bound) = n
    BY <1>1, <1>2
  <2>3. part(Bound) \in Seq(Item) /\ Len(part(Bound)) = n /\ \A j \in 1 .. n : part(Bound)[j] = w[j]
    BY <1>2, <1>3, <2>2
  <2> HIDE DEF part
  <2>4. part(0) = << >>
    BY <2>1
  <2>5. part(Bound) = w
    BY <1>1, <2>3, SeqEqual
  <2> QED BY <2>4, <2>5
<1>6. e(g)
  <2>1. ASSUME NEW k \in 0 .. Bound PROVE g[k] = IF k = 0 THEN << >> ELSE step(g[k - 1])
    <3> HIDE DEF part, step
    <3>1. CASE k = 0
      BY <1>2, <1>5, <3>1
    <3>2. CASE k # 0
      <4>1. k \in Nat /\ k > 0 /\ k - 1 \in 0 .. Bound
        BY <1>2, <3>2
      <4> QED BY <1>4, <3>2, <4>1
    <3> QED BY <3>1, <3>2
  <2> HIDE DEF part, step
  <2> QED BY <2>1
<1>7. e(walked)
  <2> HIDE DEF e, g
  <2> QED BY <1>6
<1>8. walked[Bound] = w
  <2> HIDE DEF walked, part, step
  <2> DEFINE T == {k \in 0 .. Bound : walked[k] # part(k)}
  <2>1. \A k \in 0 .. Bound : walked[k] = IF k = 0 THEN << >> ELSE step(walked[k - 1])
    BY <1>7
  <2>2. CASE T = {}
    BY <1>2, <1>5, <2>2
  <2>3. CASE T # {}
    <3>1. T \in SUBSET Nat
      BY <1>2
    <3>2. PICK x \in T : \A y \in T : x <= y
      <4> HIDE DEF T
      <4> QED BY <2>3, <3>1, Least
    <3>3. x \in 0 .. Bound /\ walked[x] # part(x) /\ x \in Nat
      BY <1>2, <3>2
    <3>4. x # 0
      BY <1>2, <1>5, <2>1, <3>3
    <3>5. x - 1 \in 0 .. Bound /\ x - 1 < x /\ x > 0
      BY <1>2, <3>3, <3>4
    <3>6. x - 1 \notin T
      <4> HIDE DEF T
      <4> QED BY <3>2, <3>3, <3>5
    <3>7. walked[x - 1] = part(x - 1)
      BY <3>5, <3>6
    <3>8. walked[x] = step(part(x - 1))
      BY <2>1, <3>3, <3>4, <3>7
    <3> QED BY <1>4, <3>3, <3>5, <3>8
  <2> QED BY <2>2, <2>3
<1> QED BY <1>2, <1>8 DEF Walk

-----------------------------------------------------------------------------
(* The pointers of the list.                                               *)
Links == [Item \cup {C0s} -> Item \cup {NIL}]
BackLinks == [Item -> Item \cup {NIL}]

(* The links and flags of a list w.                                        *)
Shaped(next, prev, reg, w) ==
  /\ next \in Links /\ prev \in BackLinks /\ reg \in [Item -> BOOLEAN]
  /\ Linked(next, w) /\ IsInjective(w)
  /\ \A k \in 1 .. Len(w) : prev[w[k]] = IF k = 1 THEN NIL ELSE w[k - 1]
  /\ \A n \in Item : /\ reg[n] <=> \E k \in 1 .. Len(w) : w[k] = n
                     /\ reg[n] \/ (next[n] = NIL /\ prev[n] = NIL)

(* Where the list ends; m comes before n in w, or is n.                    *)
At1(w) == IF w = << >> THEN C0s ELSE Last(w)
Ahead(w, n, m) == \A k \in 1 .. Len(w) : w[k] = n => \E j \in 1 .. k : w[j] = m

(* No item twice, and an item that is in the list, by their places.        *)
LEMMA Injective ==
  ASSUME NEW w \in Seq(Item)
  PROVE  IsInjective(w) <=> \A j, k \in 1 .. Len(w) : w[j] = w[k] => j = k
BY DEF IsInjective

LEMMA InRange ==
  ASSUME NEW w \in Seq(Item), NEW n PROVE n \in Range(w) <=> \E k \in 1 .. Len(w) : w[k] = n
BY DEF Range

(* Both groups of stores that add an item at the end: after the first it   *)
(* is linked, and after the second all pointers are in order.              *)
LEMMA Adding ==
  ASSUME NEW next, NEW prev, NEW reg, NEW w, Shaped(next, prev, reg, w), NEW n \in Item, n \notin Range(w),
         NEW next2, next2 = [next EXCEPT ![At1(w)] = n]
  PROVE  /\ next2 \in Links /\ Linked(next2, Append(w, n)) /\ IsInjective(Append(w, n))
         /\ Shaped([next2 EXCEPT ![n] = NIL], [prev EXCEPT ![n] = IF w = << >> THEN NIL ELSE At1(w)],
                   [reg EXCEPT ![n] = TRUE], Append(w, n))
<1> DEFINE v == Append(w, n)
           l == Len(w)
           at == At1(w)
           prev3 == [prev EXCEPT ![n] = IF w = << >> THEN NIL ELSE at]
           reg3 == [reg EXCEPT ![n] = TRUE]
<1>1. w \in Seq(Item) /\ l \in Nat /\ \A k \in 1 .. l : w[k] \in Item /\ w[k] # n
  BY InRange DEF Shaped, Linked
<1>2. v \in Seq(Item) /\ Len(v) = l + 1 /\ v[l + 1] = n /\ v # << >> /\ \A k \in 1 .. l : v[k] = w[k]
  BY <1>1, AppendProperties
<1>3. w = << >> <=> l = 0
  BY <1>1
<1>4. at \in Item \cup {C0s} /\ (l = 0 => at = C0s) /\ (l # 0 => at = w[l] /\ at \in Item)
  BY <1>1, <1>3 DEF At1, Last
<1>5. /\ \A j, k \in 1 .. l : w[j] = w[k] => j = k
      /\ next[C0s] = IF l = 0 THEN NIL ELSE w[1]
      /\ \A k \in 1 .. l : next[w[k]] = IF k = l THEN NIL ELSE w[k + 1]
      /\ \A k \in 1 .. l : prev[w[k]] = IF k = 1 THEN NIL ELSE w[k - 1]
      /\ \A m \in Item : reg[m] <=> \E k \in 1 .. l : w[k] = m
      /\ \A m \in Item : reg[m] \/ (next[m] = NIL /\ prev[m] = NIL)
  BY <1>1, <1>3, Injective DEF Shaped, Linked
<1>6. next \in Links /\ prev \in BackLinks /\ reg \in [Item -> BOOLEAN]
  BY DEF Shaped
<1>7. next2 \in Links /\ next2 = [next EXCEPT ![at] = n]
  BY <1>4, <1>6 DEF Links
<1>8. prev3 \in BackLinks /\ reg3 \in [Item -> BOOLEAN]
  BY <1>3, <1>4, <1>6 DEF BackLinks
<1> HIDE DEF v, l, at
<1>9. next2[n] = NIL /\ ~reg[n] /\ n # at /\ n # C0s
  BY <1>1, <1>4, <1>5, <1>6, <1>7, Names DEF Links
<1>10. next2[C0s] = v[1]
  <2>1. CASE l = 0
    BY <1>2, <1>4, <1>6, <1>7, <2>1 DEF Links
  <2>2. CASE l # 0
    <3>1. at # C0s /\ v[1] = w[1]
      BY <1>1, <1>2, <1>4, <2>2, Names
    <3> QED BY <1>5, <1>6, <1>7, <2>2, <3>1 DEF Links
  <2> QED BY <2>1, <2>2
<1>11. \A k \in 1 .. l + 1 : next2[v[k]] = IF k = l + 1 THEN NIL ELSE v[k + 1]
  <2> SUFFICES ASSUME NEW k \in 1 .. l + 1 PROVE next2[v[k]] = IF k = l + 1 THEN NIL ELSE v[k + 1]
    OBVIOUS
  <2>1. CASE k = l + 1
    BY <1>2, <1>9, <2>1
  <2>2. CASE k = l /\ l # 0
    <3>1. v[k] = at /\ at \in Item
      BY <1>1, <1>2, <1>4, <2>2
    <3>2. next2[at] = n
      BY <1>4, <1>6, <1>7 DEF Links
    <3> QED BY <1>1, <1>2, <2>2, <3>1, <3>2
  <2>3. CASE k \in 1 .. l /\ k # l
    <3>1. v[k] = w[k] /\ w[k] # at /\ v[k + 1] = w[k + 1] /\ w[k] \in Item /\ k + 1 \in 1 .. l
      BY <1>1, <1>2, <1>4, <1>5, <2>3
    <3>2. next2[w[k]] = next[w[k]]
      BY <1>6, <1>7, <3>1 DEF Links
    <3> QED BY <1>1, <1>5, <2>3, <3>1, <3>2
  <2>4. k = l + 1 \/ (k = l /\ l # 0) \/ (k \in 1 .. l /\ k # l)
    BY <1>1
  <2> QED BY <2>1, <2>2, <2>3, <2>4
<1>12. Linked(next2, v)
  BY <1>2, <1>10, <1>11 DEF Linked
<1>13. IsInjective(v)
  <2>1. \A j, k \in 1 .. l + 1 : v[j] = v[k] => j = k
    <3> SUFFICES ASSUME NEW j \in 1 .. l + 1, NEW k \in 1 .. l + 1, v[j] = v[k] PROVE j = k
      OBVIOUS
    <3>1. CASE j \in 1 .. l /\ k \in 1 .. l
      BY <1>2, <1>5, <3>1
    <3>2. CASE j = l + 1 /\ k \in 1 .. l
      BY <1>1, <1>2, <1>5, <3>2
    <3>3. CASE j \in 1 .. l /\ k = l + 1
      BY <1>1, <1>2, <1>5, <3>3
    <3>4. CASE j = l + 1 /\ k = l + 1
      BY <3>4
    <3> QED BY <1>1, <3>1, <3>2, <3>3, <3>4
  <2> QED BY <1>2, <2>1, Injective
<1>14. [next2 EXCEPT ![n] = NIL] = next2
  BY <1>7, <1>9 DEF Links
<1>15. \A k \in 1 .. l + 1 : prev3[v[k]] = IF k = 1 THEN NIL ELSE v[k - 1]
  <2> SUFFICES ASSUME NEW k \in 1 .. l + 1 PROVE prev3[v[k]] = IF k = 1 THEN NIL ELSE v[k - 1]
    OBVIOUS
  <2>1. CASE k = l + 1
    <3>1. prev3[n] = IF l = 0 THEN NIL ELSE at
      BY <1>3, <1>6 DEF BackLinks
    <3> HIDE DEF prev3
    <3>2. l # 0 => v[l] = at
      BY <1>1, <1>2, <1>4
    <3>3. k - 1 = l /\ (k = 1 <=> l = 0) /\ v[k] = n
      BY <1>1, <1>2, <2>1
    <3> QED BY <3>1, <3>2, <3>3
  <2>2. CASE k \in 1 .. l
    <3>1. v[k] = w[k] /\ w[k] # n /\ w[k] \in Item /\ (k # 1 => k - 1 \in 1 .. l /\ v[k - 1] = w[k - 1])
      BY <1>1, <1>2, <2>2
    <3>2. prev3[w[k]] = prev[w[k]]
      BY <1>6, <3>1 DEF BackLinks
    <3> HIDE DEF prev3
    <3> QED BY <1>5, <2>2, <3>1, <3>2
  <2>3. k = l + 1 \/ k \in 1 .. l
    BY <1>1
  <2> QED BY <2>1, <2>2, <2>3
<1>16. ASSUME NEW m \in Item
       PROVE  /\ reg3[m] <=> \E k \in 1 .. Len(v) : v[k] = m
              /\ reg3[m] \/ (next2[m] = NIL /\ prev3[m] = NIL)
  <2>1. CASE m = n
    <3>1. reg3[n]
      BY <1>6
    <3> HIDE DEF reg3, prev3
    <3>2. l + 1 \in 1 .. Len(v)
      BY <1>1, <1>2
    <3> QED BY <1>2, <2>1, <3>1, <3>2
  <2>2. CASE m # n
    <3>1. reg3[m] = reg[m] /\ prev3[m] = prev[m]
      BY <1>6, <2>2 DEF BackLinks
    <3> HIDE DEF reg3, prev3
    <3>2. (\E k \in 1 .. Len(v) : v[k] = m) <=> \E k \in 1 .. l : w[k] = m
      <4>1. \A k \in 1 .. Len(v) : k \in 1 .. l \/ k = l + 1
        BY <1>1, <1>2
      <4>2. \A k \in 1 .. l : k \in 1 .. Len(v)
        BY <1>1, <1>2
      <4> QED BY <1>2, <2>2, <4>1, <4>2
    <3>3. ~reg[m] => m # at
      <4>1. l # 0 => reg[at]
        BY <1>1, <1>4, <1>5
      <4> QED BY <1>4, <4>1, Names
    <3>4. ~reg[m] => next2[m] = next[m]
      BY <1>6, <1>7, <3>3 DEF Links
    <3> QED BY <1>5, <3>1, <3>2, <3>4
  <2> QED BY <2>1, <2>2
<1>17. Shaped(next2, prev3, reg3, v)
  <2> HIDE DEF prev3, reg3
  <2> QED BY <1>2, <1>7, <1>8, <1>12, <1>13, <1>15, <1>16 DEF Shaped
<1> QED BY <1>7, <1>12, <1>13, <1>14, <1>17 DEF v, at

(* What is linked does not depend on the link of an item that is not.      *)
LEMMA LinkedApart ==
  ASSUME NEW next \in Links, NEW w, Linked(next, w), NEW n \in Item, \A k \in 1 .. Len(w) : w[k] # n
  PROVE  [next EXCEPT ![n] = NIL] \in Links /\ Linked([next EXCEPT ![n] = NIL], w)
<1> DEFINE next3 == [next EXCEPT ![n] = NIL]
<1>1. next3 \in Links /\ next3[C0s] = next[C0s]
  BY Names DEF Links
<1>2. \A k \in 1 .. Len(w) : next3[w[k]] = next[w[k]]
  <2>1. \A k \in 1 .. Len(w) : w[k] \in Item
    BY DEF Linked
  <2> QED BY <2>1 DEF Links
<1> HIDE DEF next3
<1> QED BY <1>1, <1>2 DEF Linked, next3

(* v is w without n. *)
Cut(w, k) == [j \in 1 .. Len(w) - 1 |-> w[IF j < k THEN j ELSE j + 1]]
Drops(w, n, v) ==
  \/ /\ n \notin Range(w) /\ v = w
  \/ \E k \in 1 .. Len(w) : w[k] = n /\ v = Cut(w, k)

(* Dropping an item takes it alone out, and keeps the order of the others. *)
LEMMA DropsIs ==
  ASSUME NEW w \in Seq(Item), IsInjective(w), NEW n, NEW v, Drops(w, n, v)
  PROVE  /\ v \in Seq(Item) /\ IsInjective(v)
         /\ Range(v) = Range(w) \ {n}
         /\ \A a, m : Ahead(w, a, m) /\ m # n => Ahead(v, a, m)
<1>1. CASE n \notin Range(w) /\ v = w
  BY <1>1
<1>2. CASE \E k \in 1 .. Len(w) : w[k] = n /\ v = Cut(w, k)
  <2>1. PICK k \in 1 .. Len(w) : w[k] = n /\ v = Cut(w, k)
    BY <1>2
  <2> DEFINE l == Len(w)
  <2>2. l \in Nat /\ k \in 1 .. l /\ l - 1 \in Nat /\ (\A j \in 1 .. l : w[j] \in Item)
        /\ \A j \in 1 .. l : w[j] = n => j = k
    BY <2>1, Injective
  <2> HIDE DEF l
  <2>3. \A j \in 1 .. l - 1 : j \in 1 .. l /\ j + 1 \in 1 .. l
    BY <2>2
  <2>4. v = [j \in 1 .. l - 1 |-> w[IF j < k THEN j ELSE j + 1]]
    BY <2>1 DEF l, Cut
  <2>5. v \in Seq(Item) /\ Len(v) = l - 1 /\ DOMAIN v = 1 .. l - 1
    BY <2>2, <2>3, <2>4
  <2>6. /\ \A j \in 1 .. l - 1 : j < k => v[j] = w[j]
        /\ \A j \in 1 .. l - 1 : j >= k => v[j] = w[j + 1]
    BY <2>2, <2>4
  <2>7. /\ \A j \in 1 .. l : j < k => j \in 1 .. l - 1 /\ w[j] = v[j]
        /\ \A j \in 1 .. l : j > k => j - 1 \in 1 .. l - 1 /\ w[j] = v[j - 1]
    <3> SUFFICES ASSUME NEW j \in 1 .. l
                 PROVE  /\ j < k => j \in 1 .. l - 1 /\ w[j] = v[j]
                        /\ j > k => j - 1 \in 1 .. l - 1 /\ w[j] = v[j - 1]
      OBVIOUS
    <3>1. ASSUME j < k PROVE j \in 1 .. l - 1 /\ w[j] = v[j]
      BY <2>2, <2>6, <3>1
    <3>2. ASSUME j > k PROVE j - 1 \in 1 .. l - 1 /\ w[j] = v[j - 1]
      <4>1. j - 1 \in 1 .. l - 1 /\ j - 1 >= k /\ (j - 1) + 1 = j
        BY <2>2, <3>2
      <4> QED BY <2>6, <4>1
    <3> QED BY <3>1, <3>2
  <2> HIDE DEF l
  <2>8. IsInjective(v)
    <3>1. \A i, j \in 1 .. l : w[i] = w[j] => i = j
      BY Injective DEF l
    <3>2. ASSUME NEW i \in 1 .. l - 1, NEW j \in 1 .. l - 1, v[i] = v[j] PROVE i = j
      <4>1. i \in 1 .. l /\ j \in 1 .. l /\ i + 1 \in 1 .. l /\ j + 1 \in 1 .. l
        BY <2>3
      <4>2. CASE i < k /\ j < k
        BY <2>6, <3>1, <3>2, <4>1, <4>2
      <4>3. CASE i < k /\ j >= k
        <5>1. w[i] = w[j + 1]
          BY <2>6, <3>2, <4>3
        <5>2. i = j + 1
          BY <3>1, <4>1, <5>1
        <5> QED BY <2>2, <4>3, <5>2
      <4>4. CASE i >= k /\ j < k
        <5>1. w[i + 1] = w[j]
          BY <2>6, <3>2, <4>4
        <5>2. i + 1 = j
          BY <3>1, <4>1, <5>1
        <5> QED BY <2>2, <4>4, <5>2
      <4>5. CASE i >= k /\ j >= k
        <5>1. w[i + 1] = w[j + 1]
          BY <2>6, <3>2, <4>5
        <5>2. i + 1 = j + 1
          BY <3>1, <4>1, <5>1
        <5> QED BY <5>2
      <4> QED BY <2>2, <4>2, <4>3, <4>4, <4>5
    <3> QED BY <2>5, <3>2, Injective
  <2>9. Range(v) = Range(w) \ {n}
    <3>1. ASSUME NEW x \in Range(v) PROVE x \in Range(w) /\ x # n
      <4>1. PICK j \in 1 .. l - 1 : v[j] = x
        BY <2>5, <3>1, InRange
      <4>2. CASE j < k
        <5>1. x = w[j] /\ j \in 1 .. l /\ j # k
          BY <2>3, <2>6, <4>1, <4>2
        <5> QED BY <2>2, <5>1, InRange DEF l
      <4>3. CASE j >= k
        <5>1. x = w[j + 1] /\ j + 1 \in 1 .. l /\ j + 1 # k
          BY <2>2, <2>3, <2>6, <4>1, <4>3
        <5> QED BY <2>2, <5>1, InRange DEF l
      <4> QED BY <2>2, <4>2, <4>3
    <3>2. ASSUME NEW x \in Range(w), x # n PROVE x \in Range(v)
      <4>1. PICK j \in 1 .. l : w[j] = x
        BY <3>2, InRange DEF l
      <4>2. j # k
        BY <2>1, <3>2, <4>1
      <4>3. \E i \in 1 .. l - 1 : v[i] = x
        BY <2>2, <2>7, <4>1, <4>2
      <4> QED BY <2>5, <4>3, InRange
    <3> QED BY <3>1, <3>2
  <2>10. ASSUME NEW a, NEW m, Ahead(w, a, m), m # n PROVE Ahead(v, a, m)
    <3> SUFFICES ASSUME NEW i \in 1 .. l - 1, v[i] = a PROVE \E j \in 1 .. i : v[j] = m
      BY <2>5 DEF Ahead
    <3>1. PICK i2 \in 1 .. l : w[i2] = a /\ i2 = IF i < k THEN i ELSE i + 1
      BY <2>2, <2>3, <2>6
    <3>2. PICK j2 \in 1 .. i2 : w[j2] = m
      BY <2>10, <3>1 DEF Ahead, l
    <3>3. j2 # k /\ j2 \in 1 .. l
      BY <2>1, <2>2, <2>10, <3>1, <3>2
    <3>4. CASE j2 < k
      <4>1. j2 \in 1 .. i
        BY <2>2, <3>1, <3>2, <3>4
      <4> QED BY <2>7, <3>2, <3>3, <3>4, <4>1
    <3>5. CASE j2 > k
      <4>1. j2 - 1 \in 1 .. i
        BY <2>2, <3>1, <3>2, <3>5
      <4> QED BY <2>7, <3>2, <3>3, <3>5, <4>1
    <3> QED BY <2>2, <3>2, <3>3, <3>4, <3>5
  <2> QED BY <2>5, <2>8, <2>9, <2>10
<1> QED BY <1>1, <1>2 DEF Drops

LEMMA DropsSome ==
  ASSUME NEW w \in Seq(Item), NEW n PROVE \E v : Drops(w, n, v)
<1>1. CASE n \notin Range(w)
  BY <1>1 DEF Drops
<1>2. CASE n \in Range(w)
  <2>1. PICK k \in 1 .. Len(w) : w[k] = n
    BY <1>2, InRange
  <2> QED BY <2>1 DEF Drops
<1> QED BY <1>1, <1>2

(* What unlinking the k-th of a list stores. *)
Around(next, w, k) == [next EXCEPT ![IF k = 1 THEN C0s ELSE w[k - 1]] = next[w[k]]]
Back(prev, w, k) == IF k < Len(w) THEN [prev EXCEPT ![w[k + 1]] = prev[w[k]]] ELSE prev

(* Both groups of stores that take an item out: after the first the walk   *)
(* passes it by, and after the second all pointers are in order.           *)
LEMMA Removing ==
  ASSUME NEW next, NEW prev, NEW reg, NEW w, Shaped(next, prev, reg, w), NEW k \in 1 .. Len(w), NEW n, n = w[k],
         NEW v, v = Cut(w, k),
         NEW next2, next2 = Around(next, w, k), NEW prev2, prev2 = Back(prev, w, k)
  PROVE  /\ next2 \in Links /\ Linked(next2, v) /\ prev2 \in BackLinks
         /\ Shaped([next2 EXCEPT ![n] = NIL], [prev2 EXCEPT ![n] = NIL], [reg EXCEPT ![n] = FALSE], v)
<1> DEFINE l == Len(w)
           prev3 == [prev2 EXCEPT ![n] = NIL]
           reg3 == [reg EXCEPT ![n] = FALSE]
           before == IF k = 1 THEN C0s ELSE w[k - 1]
<1>1. w \in Seq(Item) /\ l \in Nat /\ (\A j \in 1 .. l : w[j] \in Item) /\ IsInjective(w) /\ k \in 1 .. l
  BY DEF Shaped, Linked
<1>2. Drops(w, n, v)
  BY DEF Drops
<1>3. v \in Seq(Item) /\ IsInjective(v) /\ Range(v) = Range(w) \ {n}
  BY <1>1, <1>2, DropsIs
<1>4. w # << >> /\ l # 0 /\ n \in Item
  BY <1>1
<1>5. /\ \A i, j \in 1 .. l : w[i] = w[j] => i = j
      /\ next[C0s] = w[1]
      /\ \A j \in 1 .. l : next[w[j]] = IF j = l THEN NIL ELSE w[j + 1]
      /\ \A j \in 1 .. l : prev[w[j]] = IF j = 1 THEN NIL ELSE w[j - 1]
      /\ \A m \in Item : reg[m] <=> \E j \in 1 .. l : w[j] = m
      /\ \A m \in Item : reg[m] \/ (next[m] = NIL /\ prev[m] = NIL)
  BY <1>1, <1>4, Injective DEF Shaped, Linked
<1>6. next \in Links /\ prev \in BackLinks /\ reg \in [Item -> BOOLEAN]
  BY DEF Shaped
<1>7. next2 = [next EXCEPT ![before] = next[n]]
  BY DEF Around
<1>8. prev2 = IF k < l THEN [prev EXCEPT ![w[k + 1]] = prev[n]] ELSE prev
  BY DEF Back
<1> HIDE DEF l
<1>30. v = [j \in 1 .. l - 1 |-> w[IF j < k THEN j ELSE j + 1]]
  BY DEF Cut, l
<1>9. Len(v) = l - 1 /\ l - 1 \in Nat
  BY <1>1, <1>4, <1>30
<1>10. \A j \in 1 .. l - 1 : (j < k => v[j] = w[j]) /\ (j >= k => v[j] = w[j + 1]) /\ j \in 1 .. l /\ j + 1 \in 1 .. l
  BY <1>1, <1>30
<1>11. before \in Item \cup {C0s} /\ (k = 1 => before = C0s) /\ (k # 1 => before = w[k - 1] /\ k - 1 \in 1 .. l /\ before \in Item)
  BY <1>1
<1> HIDE DEF before
<1>12. next[n] = IF k = l THEN NIL ELSE w[k + 1]
  BY <1>1, <1>5
<1>13. next[n] \in Item \cup {NIL} /\ prev[n] \in Item \cup {NIL}
  BY <1>4, <1>6 DEF Links, BackLinks
<1>14. next2 \in Links
  BY <1>6, <1>7, <1>11, <1>13 DEF Links
<1>15. prev2 \in BackLinks
  BY <1>6, <1>8, <1>13 DEF BackLinks
<1>16. next2[C0s] = IF v = << >> THEN NIL ELSE v[1]
  <2>1. v = << >> <=> l = 1
    <3>1. v = << >> <=> Len(v) = 0
      BY <1>3
    <3> QED BY <1>1, <1>9, <3>1
  <2>2. CASE k = 1
    <3>1. next2[C0s] = next[n]
      BY <1>6, <1>7, <1>11, <2>2 DEF Links
    <3>2. l # 1 => v[1] = w[2] /\ k # l
      BY <1>1, <1>9, <1>10, <2>2
    <3>3. CASE l = 1
      BY <1>1, <1>12, <2>1, <2>2, <3>1, <3>3
    <3>4. CASE l # 1
      <4>1. next[n] = w[k + 1]
        BY <1>12, <3>2, <3>4
      <4> QED BY <2>1, <2>2, <3>1, <3>2, <3>4, <4>1
    <3> QED BY <3>3, <3>4
  <2>3. CASE k # 1
    <3>1. next2[C0s] = next[C0s] /\ l # 1
      BY <1>1, <1>6, <1>7, <1>11, <2>3, Names DEF Links
    <3>3. 1 \in 1 .. l - 1 /\ 1 < k
      BY <1>1, <2>3, <3>1
    <3>2. v[1] = w[1]
      BY <1>10, <3>3
    <3> QED BY <1>5, <2>1, <3>1, <3>2
  <2> QED BY <2>2, <2>3
<1>17. \A j \in 1 .. l - 1 : next2[v[j]] = IF j = l - 1 THEN NIL ELSE v[j + 1]
  <2> SUFFICES ASSUME NEW j \in 1 .. l - 1 PROVE next2[v[j]] = IF j = l - 1 THEN NIL ELSE v[j + 1]
    OBVIOUS
  <2>1. CASE j < k - 1
    <3>1. v[j] = w[j] /\ v[j + 1] = w[j + 1] /\ j # l /\ j # l - 1 /\ w[j] # before /\ w[j] \in Item
      BY <1>1, <1>5, <1>10, <1>11, <2>1
    <3>2. next2[w[j]] = next[w[j]]
      BY <1>6, <1>7, <3>1 DEF Links
    <3> QED BY <1>5, <1>10, <3>1, <3>2
  <2>2. CASE j = k - 1
    <3>1. v[j] = before /\ before \in Item
      BY <1>1, <1>10, <1>11, <2>2
    <3>2. next2[before] = next[n]
      BY <1>6, <1>7, <1>11 DEF Links
    <3>3. ASSUME j # l - 1 PROVE v[j + 1] = w[k + 1]
      <4>1. j + 1 = k /\ k \in 1 .. l - 1 /\ k >= k
        BY <1>1, <2>2, <3>3
      <4> QED BY <1>10, <4>1
    <3> QED BY <1>1, <1>12, <2>2, <3>1, <3>2, <3>3
  <2>3. CASE j >= k
    <3>1. v[j] = w[j + 1] /\ w[j + 1] # before /\ w[j + 1] \in Item /\ j + 1 \in 1 .. l
      <4>1. v[j] = w[j + 1] /\ j + 1 \in 1 .. l /\ w[j + 1] \in Item
        BY <1>1, <1>10, <2>3
      <4>2. j + 1 # k - 1
        BY <1>1, <2>3
      <4>3. w[j + 1] # before
        BY <1>5, <1>11, <4>1, <4>2, Names
      <4> QED BY <4>1, <4>3
    <3>2. next2[w[j + 1]] = next[w[j + 1]]
      BY <1>6, <1>7, <3>1 DEF Links
    <3>3. next[w[j + 1]] = IF j + 1 = l THEN NIL ELSE w[j + 1 + 1]
      BY <1>5, <3>1
    <3>4. j # l - 1 => v[j + 1] = w[j + 1 + 1]
      <4>1. ASSUME j # l - 1 PROVE v[j + 1] = w[j + 1 + 1]
        <5>1. j + 1 \in 1 .. l - 1 /\ j + 1 >= k
          BY <1>1, <2>3, <4>1
        <5> QED BY <1>10, <5>1
      <4> QED BY <4>1
    <3>5. j + 1 = l <=> j = l - 1
      BY <1>1
    <3> QED BY <3>1, <3>2, <3>3, <3>4, <3>5
  <2>4. j < k - 1 \/ j = k - 1 \/ j >= k
    BY <1>1
  <2> QED BY <2>1, <2>2, <2>3, <2>4
<1>18. Linked(next2, v)
  BY <1>3, <1>9, <1>16, <1>17 DEF Linked
<1>19. \A j \in 1 .. Len(v) : v[j] # n
  BY <1>3, InRange
<1>20. [next2 EXCEPT ![n] = NIL] \in Links /\ Linked([next2 EXCEPT ![n] = NIL], v)
  BY <1>4, <1>14, <1>18, <1>19, LinkedApart
<1>21. prev3 \in BackLinks /\ reg3 \in [Item -> BOOLEAN]
  BY <1>4, <1>6, <1>15 DEF BackLinks
<1>22. \A j \in 1 .. Len(v) : prev3[v[j]] = IF j = 1 THEN NIL ELSE v[j - 1]
  <2> SUFFICES ASSUME NEW j \in 1 .. l - 1 PROVE prev3[v[j]] = IF j = 1 THEN NIL ELSE v[j - 1]
    BY <1>9
  <2>1. v[j] # n /\ v[j] \in Item
    BY <1>1, <1>9, <1>10, <1>19
  <2>2. prev3[v[j]] = prev2[v[j]]
    BY <1>15, <2>1 DEF BackLinks
  <2> HIDE DEF prev3
  <2>3. CASE j < k
    <3>1. v[j] = w[j] /\ j \in 1 .. l /\ (j # 1 => v[j - 1] = w[j - 1])
      BY <1>1, <1>10, <2>3
    <3>2. k < l => w[j] # w[k + 1]
      BY <1>1, <1>5, <2>3, <3>1
    <3>3. prev2[w[j]] = prev[w[j]]
      BY <1>1, <1>6, <1>8, <3>1, <3>2 DEF BackLinks
    <3> QED BY <1>5, <2>2, <3>1, <3>3
  <2>4. CASE j = k
    <3>1. v[j] = w[k + 1] /\ k < l /\ w[k + 1] \in Item
      BY <1>1, <1>10, <2>4
    <3>2. prev2[w[k + 1]] = prev[n]
      BY <1>6, <1>8, <3>1 DEF BackLinks
    <3>3. prev[n] = IF k = 1 THEN NIL ELSE w[k - 1]
      BY <1>1, <1>5
    <3>4. k # 1 => v[j - 1] = w[k - 1]
      BY <1>1, <1>10, <2>4
    <3> QED BY <2>2, <2>4, <3>1, <3>2, <3>3, <3>4
  <2>5. CASE j > k
    <3>1. v[j] = w[j + 1] /\ j + 1 \in 1 .. l /\ v[j - 1] = w[j] /\ j # 1
      <4>1. j - 1 \in 1 .. l - 1 /\ j - 1 >= k /\ (j - 1) + 1 = j
        BY <1>1, <2>5
      <4>2. v[j - 1] = w[j]
        BY <1>10, <4>1
      <4> QED BY <1>1, <1>10, <2>5, <4>2
    <3>2. k < l => w[j + 1] # w[k + 1]
      BY <1>1, <1>5, <2>5, <3>1
    <3>3. prev2[w[j + 1]] = prev[w[j + 1]]
      BY <1>1, <1>6, <1>8, <3>1, <3>2 DEF BackLinks
    <3>4. prev[w[j + 1]] = w[j]
      BY <1>1, <1>5, <3>1, <2>5
    <3> QED BY <2>2, <3>1, <3>3, <3>4
  <2> QED BY <1>1, <2>3, <2>4, <2>5
<1>23. ASSUME NEW m \in Item
       PROVE  /\ reg3[m] <=> \E j \in 1 .. Len(v) : v[j] = m
              /\ reg3[m] \/ ([next2 EXCEPT ![n] = NIL][m] = NIL /\ prev3[m] = NIL)
  <2>1. CASE m = n
    <3>1. ~reg3[n] /\ [next2 EXCEPT ![n] = NIL][n] = NIL /\ prev3[n] = NIL
      BY <1>4, <1>6, <1>14, <1>15 DEF Links, BackLinks
    <3> HIDE DEF reg3, prev3
    <3> QED BY <1>19, <2>1, <3>1
  <2>2. CASE m # n
    <3>1. reg3[m] = reg[m] /\ [next2 EXCEPT ![n] = NIL][m] = next2[m] /\ prev3[m] = prev2[m]
      BY <1>6, <1>14, <1>15, <2>2 DEF Links, BackLinks
    <3> HIDE DEF reg3, prev3
    <3>2. (\E j \in 1 .. Len(v) : v[j] = m) <=> \E j \in 1 .. l : w[j] = m
      <4>1. m \in Range(v) <=> m \in Range(w)
        BY <1>3, <2>2
      <4> QED BY <1>1, <1>3, <4>1, InRange DEF l
    <3>3. ASSUME ~reg[m] PROVE next2[m] = NIL /\ prev2[m] = NIL
      <4>1. \A j \in 1 .. l : w[j] # m
        BY <1>5, <3>3
      <4>2. m # before /\ (k < l => m # w[k + 1])
        BY <1>1, <1>11, <4>1, Names
      <4>3. next2[m] = next[m]
        BY <1>6, <1>7, <4>2 DEF Links
      <4>4. prev2[m] = prev[m]
        BY <1>6, <1>8, <4>2 DEF BackLinks
      <4> QED BY <1>5, <3>3, <4>3, <4>4
    <3> QED BY <1>5, <3>1, <3>2, <3>3
  <2> QED BY <2>1, <2>2
<1> DEFINE next3 == [next2 EXCEPT ![n] = NIL]
<1>24. Shaped(next3, prev3, reg3, v)
  <2> HIDE DEF prev3, reg3, next3
  <2>1. next3 \in Links /\ Linked(next3, v)
    BY <1>20 DEF next3
  <2>2. \A m \in Item : /\ reg3[m] <=> \E j \in 1 .. Len(v) : v[j] = m
                        /\ reg3[m] \/ (next3[m] = NIL /\ prev3[m] = NIL)
    BY <1>23 DEF next3
  <2> QED BY <1>3, <1>21, <1>22, <2>1, <2>2 DEF Shaped
<1> QED BY <1>14, <1>15, <1>18, <1>24

(* Clearing one that is not in the list. *)
LEMMA Clearing ==
  ASSUME NEW next, NEW prev, NEW reg, NEW w, Shaped(next, prev, reg, w), NEW n \in Item, n \notin Range(w)
  PROVE  Shaped([next EXCEPT ![n] = NIL], [prev EXCEPT ![n] = NIL], [reg EXCEPT ![n] = FALSE], w)
<1>1. w \in Seq(Item) /\ next \in Links /\ prev \in BackLinks /\ reg \in [Item -> BOOLEAN]
  BY DEF Shaped, Linked
<1>2. ~reg[n]
  BY <1>1, InRange DEF Shaped
<1>3. next[n] = NIL /\ prev[n] = NIL
  BY <1>2 DEF Shaped
<1>4. [next EXCEPT ![n] = NIL] = next /\ [prev EXCEPT ![n] = NIL] = prev /\ [reg EXCEPT ![n] = FALSE] = reg
  BY <1>1, <1>2, <1>3 DEF Links, BackLinks
<1> QED BY <1>4

-----------------------------------------------------------------------------
(* The list and the settings without the pointers, and what the main loop  *)
(* does to them.                                                           *)

(* The callbacks that a bridge may have, the answers to the host, and what *)
(* an operation of the main loop leads to.                                 *)
Owners == {"none", "example", "pos", "torque"}
Answers == {"never", "busy", "on", "off"}
Roster == [list : Seq(Item), ready : [Unit \cup Position -> BOOLEAN], own : [Unit -> Owners],
           useZero : [Inv -> BOOLEAN], asked : [1 .. 2 -> Answers], stopped : [1 .. 2 -> BOOLEAN]]

Does(op, s, t) ==
  \/ \E n \in Item : /\ op = Register(n) /\ n \notin Range(s.list) /\ s.ready[UnitOf(n)]
                     /\ t = [s EXCEPT !.list = Append(@, n)]
  \/ \E m, n \in Item : /\ op = Unregister(m, n)
                        /\ \/ m \notin Range(s.list) /\ t = s
                           \/ m \in Range(s.list) /\ \E v : Drops(s.list, n, v) /\ t = [s EXCEPT !.list = v]
  \/ \E i \in Inv, z \in BOOLEAN : op = Stores(<< <<"useZero", i, z>> >>) /\ t = [s EXCEPT !.useZero[i] = z]
  \/ \E u \in Unit, o \in Owners : op = Stores(<< <<"own", u, o>> >>) /\ t = [s EXCEPT !.own[u] = o]
  \/ \E u \in Unit : /\ op = Stores(<< <<"own", u, "example">>, <<"ready", u, TRUE>> >>)
                     /\ t = [s EXCEPT !.own[u] = "example", !.ready[u] = TRUE]
  \/ \E p \in Position : /\ op = Stores(<< <<"updated", p, FALSE>>, <<"ready", p, TRUE>> >>)
                         /\ t = [s EXCEPT !.ready[p] = TRUE]
  \/ \E w \in {"xy", "dq"}, f \in BOOLEAN : op = Stores(<< <<"force", w, f>> >>) /\ t = s
  \/ op = Stores(<< <<"sent", "torque", 0>> >>) /\ t = s
  \/ \E a \in 1 .. 2, ans \in {"on", "off"} : op = Stores(<< <<"asked", a, ans>> >>) /\ t = [s EXCEPT !.asked[a] = ans]

(* The loops that the application starts for an inverter, the one that it  *)
(* starts last, and what it has to find there to serve it.                 *)
LoopsIn(b, i) == {<<"d", i>>, <<"q", i>>} \cup (IF b = "common" /\ i = TOP THEN {<<"zero", i>>} ELSE {})
LastIn(b, i) == IF b = "common" /\ i = TOP THEN <<"zero", i>> ELSE <<"q", i>>
InList(s, S) == Range(s.list) \cap S
Bridged(b, s, i, o) == InList(s, Used(i)) = LoopsIn(b, i) /\ s.useZero[i] = (b = "common" /\ i = TOP) /\ s.own[<<"V", i>>] = o
Serving(b, s, a) ==
  CASE a = 2 -> b # "vsi" /\ Bridged(b, s, TORQUE, "torque")
    [] a = 1 /\ b = "vsi" -> InList(s, Used(BOT)) = LoopsIn(b, BOT)
    [] a = 1 /\ b = "bridge" -> /\ Position \subseteq Range(s.list)
                                /\ \A h \in Bridge : <<"H", h>> \in Range(s.list) /\ s.own[<<"H", h>>] = "pos"
    [] OTHER -> Position \subseteq Range(s.list) /\ \A i \in {BOT, TOP} : Bridged(b, s, i, "pos")
InvOf(b, a) ==
  CASE a = 2 -> IF b = "vsi" THEN {} ELSE {TORQUE}
    [] a = 1 /\ b = "vsi" -> {BOT}
    [] a = 1 /\ b = "bridge" -> {}
    [] OTHER -> {BOT, TOP}

(* What holds between any two operations: of the list, of what the main    *)
(* loop does not start twice, and of an application that was answered.     *)
ListGood(s) ==
  /\ s \in Roster /\ IsInjective(s.list)
  /\ \A n \in Range(s.list) : s.ready[UnitOf(n)]
ZeroGood(b, s) ==
  /\ \A i \in Inv : <<"zero", i>> \in Range(s.list) \/ s.useZero[i] => b = "common" /\ i = TOP
  /\ b = "common" /\ ~s.stopped[1] /\ InList(s, Used(TOP)) # {} => s.useZero[TOP]
FirstGood(b, s) ==
  /\ s.asked[1] \in {"never", "off"} => InList(s, Position) = {}
  /\ b = "vsi" => InList(s, Position) = {} /\ (s.asked[1] = "never" => Range(s.list) = {})
  /\ b \in {"isolated", "common"} =>
       /\ s.asked[1] \in {"on", "off"} => \A i \in Inv : s.ready[<<"V", i>>]
       /\ s.asked[1] # "busy" => \A i \in {BOT, TOP} : InList(s, Used(i)) \in {{}, LoopsIn(b, i)}
       /\ s.asked[1] = "never" => \A i \in {BOT, TOP} : InList(s, Used(i)) = {}
AppGood(b, s) ==
  /\ b = "vsi" => s.asked[2] = "never"
  /\ b # "vsi" /\ s.asked[2] = "never" => InList(s, Used(TORQUE)) = {}
  /\ \A a \in 1 .. 2 : s.asked[a] = "on" => Serving(b, s, a)
  /\ \A a \in 1 .. 2 : s.asked[a] = "off" => s.stopped[a]
OrderGood(b, s) ==
  \A a \in 1 .. 2 : ~s.stopped[a] => \A i \in InvOf(b, a) : \A m \in LoopsIn(b, i) : Ahead(s.list, LastIn(b, i), m)
Good(b, s) == ListGood(s) /\ ZeroGood(b, s) /\ FirstGood(b, s) /\ AppGood(b, s) /\ OrderGood(b, s)

IsSeq(ops) == ops \in Seq(Range(ops))

(* The operations ops lead from s to t, over states that are good. *)
Leads(b, ops, s, t) ==
  /\ IsSeq(ops)
  /\ \E sg \in [0 .. Len(ops) -> Roster] :
       /\ sg[0] = s /\ sg[Len(ops)] = t
       /\ \A k \in 0 .. Len(ops) : Good(b, sg[k])
       /\ \A k \in 1 .. Len(ops) : Does(ops[k], sg[k - 1], sg[k])

(* From each of A they may lead to one of C. *)
Reaches(b, ops, A, C) == \A s \in A : \E t \in C : Leads(b, ops, s, t)

(* Sequences of operations, and joining two of them.                       *)
LEMMA IsSeqIs ==
  ASSUME NEW S, NEW ops \in Seq(S) PROVE IsSeq(ops)
BY SeqOfRange DEF IsSeq

LEMMA Joined ==
  ASSUME NEW p, IsSeq(p), NEW q, IsSeq(q)
  PROVE  /\ IsSeq(p \o q) /\ Len(p) \in Nat /\ Len(q) \in Nat /\ Len(p \o q) = Len(p) + Len(q)
         /\ \A i \in 1 .. Len(p) : (p \o q)[i] = p[i]
         /\ \A i \in 1 .. Len(q) : (p \o q)[Len(p) + i] = q[i]
<1> DEFINE S == Range(p) \cup Range(q)
<1>1. p \in Seq(S) /\ q \in Seq(S)
  <2>1. p \in Seq(Range(p)) /\ q \in Seq(Range(q)) /\ Range(p) \subseteq S /\ Range(q) \subseteq S
    BY DEF IsSeq
  <2> HIDE DEF S
  <2> QED BY <2>1, SeqMonotonic
<1> HIDE DEF S
<1>2. Len(p) \in Nat /\ Len(q) \in Nat
  BY <1>1
<1> DEFINE m == Len(p)
           n == Len(q)
           r == p \o q
<1>3. r \in Seq(S) /\ Len(r) = m + n /\ \A i \in 1 .. m + n : r[i] = IF i <= m THEN p[i] ELSE q[i - m]
  BY <1>1, ConcatProperties
<1>4. IsSeq(r)
  BY <1>3, IsSeqIs
<1>5. m \in Nat /\ n \in Nat
  BY <1>2
<1> HIDE DEF r, m, n
<1>6. \A i \in 1 .. m : r[i] = p[i]
  <2>1. \A i \in 1 .. m : i \in 1 .. m + n /\ i <= m
    BY <1>5
  <2> QED BY <1>3, <2>1
<1>7. \A i \in 1 .. n : r[m + i] = q[i]
  <2> SUFFICES ASSUME NEW i \in 1 .. n PROVE r[m + i] = q[i]
    OBVIOUS
  <2> DEFINE k == m + i
  <2>1. k \in 1 .. m + n /\ ~(k <= m) /\ k - m = i
    BY <1>5
  <2> HIDE DEF k
  <2>2. r[k] = q[i]
    BY <1>3, <2>1
  <2> QED BY <2>2 DEF k
<1> QED BY <1>3, <1>4, <1>5, <1>6, <1>7 DEF r, m, n

(* No operation leads nowhere; one, by what it does; two sequences, one    *)
(* after the other; and the first operation of a sequence.                 *)
LEMMA LeadsNone ==
  ASSUME NEW b, NEW s, Good(b, s) PROVE Leads(b, << >>, s, s)
<1>1. s \in Roster
  BY DEF Good, ListGood
<1>2. IsSeq(<< >>) /\ Len(<< >>) = 0
  BY DEF IsSeq
<1> DEFINE sg == [k \in 0 .. 0 |-> s]
<1>3. sg \in [0 .. 0 -> Roster] /\ sg[0] = s /\ \A k \in 0 .. 0 : sg[k] = s
  BY <1>1
<1> HIDE DEF sg
<1> QED BY <1>2, <1>3 DEF Leads

LEMMA LeadsOne ==
  ASSUME NEW b, NEW op, NEW s, NEW t, Good(b, s), Good(b, t), Does(op, s, t) PROVE Leads(b, <<op>>, s, t)
<1>1. s \in Roster /\ t \in Roster
  BY DEF Good, ListGood
<1>2. IsSeq(<<op>>) /\ Len(<<op>>) = 1 /\ <<op>>[1] = op
  <2>1. <<op>> \in Seq({op})
    OBVIOUS
  <2> QED BY <2>1, IsSeqIs
<1> DEFINE sg == [k \in 0 .. 1 |-> IF k = 0 THEN s ELSE t]
<1>3. sg \in [0 .. 1 -> Roster] /\ sg[0] = s /\ sg[1] = t /\ \A k \in 0 .. 1 : sg[k] = s \/ sg[k] = t
  BY <1>1
<1> HIDE DEF sg
<1>4. \A k \in 1 .. 1 : Does(<<op>>[k], sg[k - 1], sg[k])
  <2> SUFFICES ASSUME NEW k \in 1 .. 1 PROVE Does(<<op>>[k], sg[k - 1], sg[k])
    OBVIOUS
  <2>1. k = 1 /\ k - 1 = 0
    OBVIOUS
  <2> QED BY <1>2, <1>3, <2>1
<1> QED BY <1>2, <1>3, <1>4 DEF Leads

LEMMA LeadsJoin ==
  ASSUME NEW b, NEW p, NEW q, NEW s, NEW t, NEW r, Leads(b, p, s, t), Leads(b, q, t, r)
  PROVE  Leads(b, p \o q, s, r)
<1> DEFINE m == Len(p)
           n == Len(q)
           e == p \o q
<1>1. PICK f \in [0 .. m -> Roster] :
        /\ f[0] = s /\ f[m] = t
        /\ \A k \in 0 .. m : Good(b, f[k])
        /\ \A k \in 1 .. m : Does(p[k], f[k - 1], f[k])
  BY DEF Leads
<1>2. PICK g \in [0 .. n -> Roster] :
        /\ g[0] = t /\ g[n] = r
        /\ \A k \in 0 .. n : Good(b, g[k])
        /\ \A k \in 1 .. n : Does(q[k], g[k - 1], g[k])
  BY DEF Leads
<1>3. /\ IsSeq(e) /\ m \in Nat /\ n \in Nat /\ Len(e) = m + n
      /\ \A i \in 1 .. m : e[i] = p[i]
      /\ \A i \in 1 .. n : e[m + i] = q[i]
  BY Joined DEF Leads
<1> HIDE DEF m, n, e
<1> DEFINE h == [k \in 0 .. m + n |-> IF k <= m THEN f[k] ELSE g[k - m]]
<1>4. \A k \in 0 .. m : h[k] = f[k]
  BY <1>3
<1>5. \A k \in 0 .. n : h[m + k] = g[k]
  <2> SUFFICES ASSUME NEW k \in 0 .. n PROVE h[m + k] = g[k]
    OBVIOUS
  <2>1. CASE k = 0
    BY <1>1, <1>2, <1>3, <2>1
  <2>2. CASE k # 0
    BY <1>3, <2>2
  <2> QED BY <2>1, <2>2
<1>6. h \in [0 .. m + n -> Roster]
  BY <1>1, <1>2, <1>3
<1> HIDE DEF h
<1>7. h[0] = s /\ h[m + n] = r
  BY <1>1, <1>2, <1>3, <1>4, <1>5
<1>8. ASSUME NEW k \in 0 .. m + n PROVE Good(b, h[k])
  <2>1. CASE k <= m
    BY <1>1, <1>3, <1>4, <2>1
  <2>2. CASE k > m
    <3>1. PICK j \in 0 .. n : k = m + j
      <4>1. k - m \in 0 .. n /\ k = m + (k - m)
        BY <1>3, <2>2
      <4> QED BY <4>1
    <3> QED BY <1>2, <1>5, <3>1
  <2> QED BY <1>3, <2>1, <2>2
<1>9. ASSUME NEW k \in 1 .. m + n PROVE Does(e[k], h[k - 1], h[k])
  <2>1. CASE k <= m
    <3>1. k \in 1 .. m /\ k - 1 \in 0 .. m /\ k \in 0 .. m
      BY <1>3, <2>1
    <3> QED BY <1>1, <1>3, <1>4, <3>1
  <2>2. CASE k > m
    <3>1. PICK j \in 1 .. n : k = m + j
      <4>1. k - m \in 1 .. n /\ k = m + (k - m)
        BY <1>3, <2>2
      <4> QED BY <4>1
    <3>2. k - 1 = m + (j - 1) /\ j - 1 \in 0 .. n /\ j \in 0 .. n
      BY <1>3, <3>1
    <3>3. e[k] = q[j] /\ h[k] = g[j] /\ h[k - 1] = g[j - 1]
      BY <1>3, <1>5, <3>1, <3>2
    <3> QED BY <1>2, <3>3
  <2> QED BY <1>3, <2>1, <2>2
<1>10. Leads(b, e, s, r)
  BY <1>3, <1>6, <1>7, <1>8, <1>9 DEF Leads
<1> QED BY <1>10 DEF e

LEMMA LeadsFirst ==
  ASSUME NEW b, NEW ops, NEW s, NEW t, Leads(b, ops, s, t), ops # << >>
  PROVE  \E r : Good(b, s) /\ Good(b, r) /\ Does(Head(ops), s, r) /\ Leads(b, Tail(ops), r, t)
<1> DEFINE n == Len(ops)
<1>1. PICK f \in [0 .. n -> Roster] :
        /\ f[0] = s /\ f[n] = t
        /\ \A k \in 0 .. n : Good(b, f[k])
        /\ \A k \in 1 .. n : Does(ops[k], f[k - 1], f[k])
  BY DEF Leads
<1>2. ops \in Seq(Range(ops))
  BY DEF Leads, IsSeq
<1>3. n \in Nat /\ n # 0 /\ Head(ops) = ops[1]
  BY <1>2
<1>4. /\ Tail(ops) \in Seq(Range(ops)) /\ Len(Tail(ops)) = n - 1
      /\ \A k \in 1 .. n - 1 : Tail(ops)[k] = ops[k + 1]
  BY <1>2, HeadTailProperties
<1>5. IsSeq(Tail(ops))
  BY <1>4, IsSeqIs
<1> DEFINE e == Tail(ops)
<1> HIDE DEF n, e
<1> DEFINE g == [k \in 0 .. n - 1 |-> f[k + 1]]
<1>6. /\ g \in [0 .. n - 1 -> Roster] /\ g[0] = f[1] /\ g[n - 1] = t
      /\ \A k \in 0 .. n - 1 : g[k] = f[k + 1] /\ k + 1 \in 0 .. n
  BY <1>1, <1>3
<1> HIDE DEF g
<1>7. \A k \in 1 .. n - 1 : Does(e[k], g[k - 1], g[k])
  <2> SUFFICES ASSUME NEW k \in 1 .. n - 1 PROVE Does(e[k], g[k - 1], g[k])
    OBVIOUS
  <2>1. k \in 0 .. n - 1 /\ k - 1 \in 0 .. n - 1 /\ k - 1 + 1 = k /\ k + 1 \in 1 .. n /\ (k + 1) - 1 = k
    BY <1>3
  <2>2. g[k] = f[k + 1] /\ g[k - 1] = f[k] /\ e[k] = ops[k + 1]
    <3>1. g[k - 1] = f[k - 1 + 1]
      BY <1>6, <2>1
    <3> QED BY <1>4, <1>6, <2>1, <3>1 DEF e
  <2>3. Does(ops[k + 1], f[(k + 1) - 1], f[k + 1])
    BY <1>1, <2>1
  <2> QED BY <2>1, <2>2, <2>3
<1>8. Leads(b, e, f[1], t)
  <2>1. \A k \in 0 .. n - 1 : Good(b, g[k])
    BY <1>1, <1>6
  <2> QED BY <1>4, <1>5, <1>6, <1>7, <2>1 DEF Leads, e
<1>9. Good(b, s) /\ Good(b, f[1]) /\ Does(ops[1], s, f[1])
  <2>1. 0 \in 0 .. n /\ 1 \in 0 .. n /\ 1 \in 1 .. n /\ 1 - 1 = 0
    BY <1>3
  <2> QED BY <1>1, <2>1
<1> QED BY <1>3, <1>8, <1>9 DEF e

(* From one set of states to another, and on to a third.                   *)
LEMMA ReachesJoin ==
  ASSUME NEW b, NEW p, NEW q, NEW A, NEW B, NEW C, Reaches(b, p, A, B), Reaches(b, q, B, C)
  PROVE  Reaches(b, p \o q, A, C)
<1>1. ASSUME NEW s \in A PROVE \E r \in C : Leads(b, p \o q, s, r)
  <2>1. PICK t \in B : Leads(b, p, s, t)
    BY DEF Reaches
  <2>2. PICK r \in C : Leads(b, q, t, r)
    BY DEF Reaches
  <2> QED BY <2>1, <2>2, LeadsJoin
<1> QED BY <1>1 DEF Reaches

(* The parts of a long command one after the other. *)
Flattens(seqs, n, f) ==
  /\ FlattenSeq(seqs) = f[n] /\ f[1] = seqs[1]
  /\ \A k \in 2 .. n : f[k] = f[k - 1] \o seqs[k]

(* The joined sequence is a fold over its parts, so leading over each      *)
(* leads over all.                                                         *)
LEMMA FlattenIs ==
  ASSUME NEW n \in Nat, n # 0, NEW seqs, Len(seqs) = n
  PROVE  \E f : Flattens(seqs, n, f)
<1> DEFINE e(m, f) == f = [k \in 1 .. m |-> IF k = 1 THEN seqs[k] ELSE f[k - 1] \o seqs[k]]
           T == {m \in Nat : ~\E f : e(m, f)}
           flat == CHOOSE f : e(n, f)
<1>1. T = {}
  <2> SUFFICES ASSUME T # {} PROVE FALSE
    OBVIOUS
  <2>1. PICK m \in T : \A y \in T : m <= y
    <3>1. T \in SUBSET Nat
      OBVIOUS
    <3> HIDE DEF T
    <3> QED BY <3>1, Least
  <2>2. m \in Nat /\ ~\E f : e(m, f)
    BY <2>1
  <2>3. m # 0
    <3>1. e(0, [k \in 1 .. 0 |-> 0])
      OBVIOUS
    <3> HIDE DEF e
    <3> QED BY <2>2, <3>1
  <2>4. m - 1 \in Nat /\ m - 1 \notin T
    <3> HIDE DEF T
    <3> QED BY <2>1, <2>2, <2>3
  <2>5. PICK f : e(m - 1, f)
    BY <2>4
  <2> DEFINE g == [k \in 1 .. m |-> IF k = 1 THEN seqs[k] ELSE f[k - 1] \o seqs[k]]
  <2>6. \A k \in 1 .. m : g[k] = IF k = 1 THEN seqs[k] ELSE g[k - 1] \o seqs[k]
    <3> SUFFICES ASSUME NEW k \in 1 .. m, k # 1 PROVE g[k] = g[k - 1] \o seqs[k]
      OBVIOUS
    <3>1. k - 1 \in 1 .. m - 1 /\ k - 1 \in 1 .. m
      BY <2>2
    <3>2. f[k - 1] = g[k - 1]
      <4>1. f[k - 1] = IF k - 1 = 1 THEN seqs[k - 1] ELSE f[(k - 1) - 1] \o seqs[k - 1]
        BY <2>5, <3>1
      <4> QED BY <3>1, <4>1
    <3> QED BY <3>1, <3>2
  <2>7. e(m, g)
    <3>1. g = [k \in 1 .. m |-> IF k = 1 THEN seqs[k] ELSE f[k - 1] \o seqs[k]]
      OBVIOUS
    <3> HIDE DEF g
    <3> QED BY <2>6, <3>1
  <2> HIDE DEF g, e
  <2> QED BY <2>2, <2>7
<1>2. e(n, flat)
  <2> HIDE DEF e
  <2>1. \E f : e(n, f)
    BY <1>1
  <2> QED BY <2>1
<1>3. FlattenSeq(seqs) = flat[n]
  BY DEF FlattenSeq
<1> HIDE DEF flat
<1>4. \A k \in 1 .. n : flat[k] = IF k = 1 THEN seqs[k] ELSE flat[k - 1] \o seqs[k]
  BY <1>2
<1>5. flat[1] = seqs[1]
  BY <1>4
<1>6. ASSUME NEW k \in 2 .. n PROVE flat[k] = flat[k - 1] \o seqs[k]
  <2>1. k \in 1 .. n /\ k # 1
    OBVIOUS
  <2> QED BY <1>4, <2>1
<1>7. Flattens(seqs, n, flat)
  BY <1>3, <1>5, <1>6 DEF Flattens
<1> QED BY <1>7

LEMMA ReachesFlat ==
  ASSUME NEW b, NEW n \in Nat, n # 0, NEW seqs, Len(seqs) = n, NEW A,
         \A k \in 1 .. n : Reaches(b, seqs[k], A[k - 1], A[k])
  PROVE  Reaches(b, FlattenSeq(seqs), A[0], A[n])
<1>0. PICK f : Flattens(seqs, n, f)
  BY FlattenIs
<1>1. /\ FlattenSeq(seqs) = f[n] /\ f[1] = seqs[1]
      /\ \A k \in 2 .. n : f[k] = f[k - 1] \o seqs[k]
  BY <1>0 DEF Flattens
<1> DEFINE T == {m \in 1 .. n : ~Reaches(b, f[m], A[0], A[m])}
<1>2. T = {}
  <2> SUFFICES ASSUME T # {} PROVE FALSE
    OBVIOUS
  <2>1. PICK m \in T : \A y \in T : m <= y
    <3>1. T \in SUBSET Nat
      OBVIOUS
    <3> HIDE DEF T
    <3> QED BY <3>1, Least
  <2>2. m \in 1 .. n /\ ~Reaches(b, f[m], A[0], A[m])
    BY <2>1
  <2>3. m # 1
    <3>1. 1 \in 1 .. n /\ 1 - 1 = 0
      OBVIOUS
    <3>2. Reaches(b, seqs[1], A[0], A[1])
      BY <3>1
    <3> QED BY <1>1, <2>2, <3>2
  <2>4. m - 1 \in 1 .. n /\ m \in 2 .. n /\ ~(m <= m - 1)
    BY <2>2, <2>3
  <2>5. m - 1 \notin T
    <3> HIDE DEF T
    <3> QED BY <2>1, <2>4
  <2>6. Reaches(b, f[m - 1], A[0], A[m - 1]) /\ Reaches(b, seqs[m], A[m - 1], A[m])
    BY <2>2, <2>4, <2>5
  <2>7. f[m] = f[m - 1] \o seqs[m]
    BY <1>1, <2>4
  <2> QED BY <2>2, <2>6, <2>7, ReachesJoin
<1> QED BY <1>1, <1>2

-----------------------------------------------------------------------------
(* The operations keep what is good.                                       *)
LEMMA Numbers ==
  /\ NUM_VSI \in Nat /\ NUM_VSI > 2 /\ NUM_HBRIDGE \in Nat /\ NUM_HBRIDGE > 0
  /\ BOT \in Inv /\ TOP \in Inv /\ TORQUE \in Inv /\ BOT = 0 /\ TOP = 1 /\ TORQUE = 2
  /\ Inv \subseteq Nat /\ Bridge \subseteq Nat
BY BasicControlAssumption DEF BOT, TOP, TORQUE, Inv, Bridge

(* The items of an inverter by their numbers in cont_items.                *)
LEMMA VsiItemIs ==
  ASSUME NEW i \in Nat
  PROVE  VsiItem(3 * i) = <<"d", i>> /\ VsiItem(3 * i + 1) = <<"q", i>> /\ VsiItem(3 * i + 2) = <<"zero", i>>
<1>1. (3 * i) % 3 = 0 /\ (3 * i) \div 3 = i
  OBVIOUS
<1>2. (3 * i + 1) % 3 = 1 /\ (3 * i + 1) \div 3 = i
  OBVIOUS
<1>3. (3 * i + 2) % 3 = 2 /\ (3 * i + 2) \div 3 = i
  OBVIOUS
<1> QED BY <1>1, <1>2, <1>3 DEF VsiItem

(* The names of items, units and position controllers.                     *)
LEMMA Items ==
  /\ \A i \in Inv : /\ <<"d", i>> \in Item /\ <<"q", i>> \in Item /\ <<"zero", i>> \in Item
                    /\ UnitOf(<<"d", i>>) = <<"V", i>> /\ UnitOf(<<"q", i>>) = <<"V", i>> /\ UnitOf(<<"zero", i>>) = <<"V", i>>
                    /\ <<"V", i>> \in Unit
  /\ \A h \in Bridge : <<"H", h>> \in Item /\ UnitOf(<<"H", h>>) = <<"H", h>> /\ <<"H", h>> \in Unit
  /\ \A p \in Position : p \in Item /\ UnitOf(p) = p /\ p[1] = "P"
  /\ \A j \in 0 .. 3 : <<"P", j>> \in Position
  /\ \A n \in Item : UnitOf(n) \in Unit \cup Position
BY DEF Item, Position, UnitOf, Unit

(* What an item at the end of a list changes: the items, their order, and  *)
(* that none is there twice.                                               *)
LEMMA AppendRange ==
  ASSUME NEW w \in Seq(Item), NEW n \in Item
  PROVE  Append(w, n) \in Seq(Item) /\ Range(Append(w, n)) = Range(w) \cup {n}
<1> DEFINE v == Append(w, n)
           l == Len(w)
<1>1. v \in Seq(Item) /\ Len(v) = l + 1 /\ (\A i \in 1 .. l : v[i] = w[i]) /\ v[l + 1] = n /\ l \in Nat
  BY AppendProperties
<1> HIDE DEF v, l
<1>2. ASSUME NEW x PROVE x \in Range(v) <=> x \in Range(w) \cup {n}
  <2>1. x \in Range(v) <=> \E i \in 1 .. l + 1 : v[i] = x
    BY <1>1, InRange
  <2>2. x \in Range(w) <=> \E i \in 1 .. l : w[i] = x
    BY InRange DEF l
  <2>3. \A i \in 1 .. l + 1 : i \in 1 .. l \/ i = l + 1
    BY <1>1
  <2>4. l + 1 \in 1 .. l + 1 /\ \A i \in 1 .. l : i \in 1 .. l + 1
    BY <1>1
  <2> QED BY <1>1, <2>1, <2>2, <2>3, <2>4
<1> QED BY <1>1, <1>2 DEF v

LEMMA AppendAhead ==
  ASSUME NEW w \in Seq(Item), NEW n \in Item, NEW a, NEW m, Ahead(w, a, m), a # n \/ m = n \/ m \in Range(w)
  PROVE  Ahead(Append(w, n), a, m)
<1> DEFINE v == Append(w, n)
           l == Len(w)
<1>1. v \in Seq(Item) /\ Len(v) = l + 1 /\ (\A i \in 1 .. l : v[i] = w[i]) /\ v[l + 1] = n /\ l \in Nat
  BY AppendProperties
<1> HIDE DEF v
<1> SUFFICES ASSUME NEW k \in 1 .. l + 1, v[k] = a PROVE \E j \in 1 .. k : v[j] = m
  BY <1>1 DEF Ahead, v
<1>2. CASE k \in 1 .. l
  <2>1. PICK j \in 1 .. k : w[j] = m
    BY <1>1, <1>2 DEF Ahead
  <2>2. j \in 1 .. l
    BY <1>1, <1>2, <2>1
  <2> QED BY <1>1, <2>1, <2>2
<1>3. CASE k = l + 1
  <2>1. CASE m = n
    BY <1>1, <1>3, <2>1
  <2>2. CASE m \in Range(w)
    <3>1. PICK j \in 1 .. l : w[j] = m
      BY <2>2, InRange
    <3> QED BY <1>1, <1>3, <3>1
  <2> QED BY <1>1, <1>3, <2>1, <2>2
<1> HIDE DEF l
<1>4. k \in 1 .. l \/ k = l + 1
  BY <1>1
<1> QED BY <1>2, <1>3, <1>4

LEMMA AppendOnce ==
  ASSUME NEW w \in Seq(Item), IsInjective(w), NEW n \in Item, n \notin Range(w)
  PROVE  IsInjective(Append(w, n))
<1> DEFINE v == Append(w, n)
           l == Len(w)
<1>1. v \in Seq(Item) /\ Len(v) = l + 1 /\ (\A i \in 1 .. l : v[i] = w[i]) /\ v[l + 1] = n /\ l \in Nat
  BY AppendProperties
<1>2. \A j, k \in 1 .. l : w[j] = w[k] => j = k
  BY Injective
<1>3. \A k \in 1 .. l : w[k] # n
  BY InRange
<1> HIDE DEF v, l
<1>4. ASSUME NEW j \in 1 .. l + 1, NEW k \in 1 .. l + 1, v[j] = v[k] PROVE j = k
  <2>1. (j \in 1 .. l \/ j = l + 1) /\ (k \in 1 .. l \/ k = l + 1)
    BY <1>1
  <2>2. CASE j \in 1 .. l /\ k \in 1 .. l
    BY <1>1, <1>2, <1>4, <2>2
  <2>3. CASE j = l + 1 /\ k \in 1 .. l
    BY <1>1, <1>3, <1>4, <2>3
  <2>4. CASE k = l + 1 /\ j \in 1 .. l
    BY <1>1, <1>3, <1>4, <2>4
  <2> QED BY <2>1, <2>2, <2>3, <2>4
<1> QED BY <1>1, <1>4, Injective DEF v

(* The loops by their names. *)
LEMMA LoopNames ==
  ASSUME NEW b, NEW i \in Inv
  PROVE  /\ LoopsIn(b, i) \subseteq Used(i) /\ Used(i) \subseteq Item /\ LastIn(b, i) \in LoopsIn(b, i)
         /\ \A n \in Used(i) : n[2] = i /\ n \notin Position /\ n[1] # "H"
<1>1. Used(i) \subseteq Item
  BY Items DEF Used
<1>2. LoopsIn(b, i) \subseteq Used(i) /\ LastIn(b, i) \in LoopsIn(b, i)
  BY DEF Used, LoopsIn, LastIn
<1>3. ASSUME NEW n \in Used(i) PROVE n[2] = i /\ n \notin Position /\ n[1] # "H"
  <2>1. n = <<"d", i>> \/ n = <<"q", i>> \/ n = <<"zero", i>>
    BY DEF Used
  <2>2. n[2] = i /\ n[1] \in {"d", "q", "zero"}
    BY <2>1
  <2>3. n \notin Position
    BY <2>2, Items
  <2> QED BY <2>2, <2>3
<1> QED BY <1>1, <1>2, <1>3

(* Two inverters have no loop in common.                                   *)
LEMMA UsedApart ==
  ASSUME NEW i \in Inv, NEW j \in Inv, i # j PROVE Used(i) \cap Used(j) = {}
BY DEF Used

(* An item joins the list for the application a. *)
Fits(b, s, a, n) ==
  /\ n \in Item /\ n \notin Range(s.list) /\ s.ready[UnitOf(n)]
  /\ IF a = 2 THEN n \in Used(TORQUE) ELSE b = "vsi" \/ n \notin Used(TORQUE)
  /\ n[1] = "zero" => b = "common" /\ n = <<"zero", TOP>>
  /\ n[1] = "P" => b # "vsi"
  /\ n \in Used(TOP) /\ b = "common" => s.useZero[TOP]
  /\ \A i \in InvOf(b, a) : n = LastIn(b, i) => LoopsIn(b, i) \ {n} \subseteq Range(s.list)

(* The command of application a is in progress. *)
Busy(b, s, a) == a \in 1 .. 2 /\ s.asked[a] = "busy" /\ (a = 2 => b # "vsi")

(* Registering a fitting item keeps what is good.                          *)
LEMMA AddIsGood ==
  ASSUME NEW b \in Build, NEW s, Good(b, s), NEW a, Busy(b, s, a), NEW n, Fits(b, s, a, n)
  PROVE  \E t : /\ Good(b, t) /\ Does(Register(n), s, t)
                /\ Range(t.list) = Range(s.list) \cup {n}
                /\ t.ready = s.ready /\ t.own = s.own /\ t.useZero = s.useZero /\ t.asked = s.asked /\ t.stopped = s.stopped
<1> SUFFICES ASSUME NEW t, t = [s EXCEPT !.list = Append(@, n)]
             PROVE  /\ Good(b, t) /\ Does(Register(n), s, t)
                    /\ Range(t.list) = Range(s.list) \cup {n}
                    /\ t.ready = s.ready /\ t.own = s.own /\ t.useZero = s.useZero /\ t.asked = s.asked /\ t.stopped = s.stopped
  <2> DEFINE t0 == [s EXCEPT !.list = Append(@, n)]
  <2>1. \E t : t = t0
    OBVIOUS
  <2> HIDE DEF t0
  <2> QED BY <2>1 DEF t0
<1>0. a \in 1 .. 2 /\ s.asked[a] = "busy" /\ (a = 2 => b # "vsi")
  BY DEF Busy
<1> USE <1>0
<1>1. s \in Roster /\ s.list \in Seq(Item) /\ n \in Item /\ n \notin Range(s.list) /\ s.ready[UnitOf(n)]
  BY DEF Good, ListGood, Roster, Fits
<1> DEFINE v == Append(s.list, n)
<1>2. v \in Seq(Item) /\ Range(v) = Range(s.list) \cup {n} /\ IsInjective(v)
  BY <1>1, AppendRange, AppendOnce DEF Good, ListGood
<1>3. /\ t \in Roster /\ t.list = v
      /\ t.ready = s.ready /\ t.own = s.own /\ t.useZero = s.useZero /\ t.asked = s.asked /\ t.stopped = s.stopped
  <2> HIDE DEF v
  <2>1. t = [s EXCEPT !.list = v]
    BY DEF v
  <2> QED BY <1>1, <1>2, <2>1 DEF Roster
<1>4. Does(Register(n), s, t)
  BY <1>1 DEF Does
<1> HIDE DEF v
<1> DEFINE R == Range(s.list)
<1>5. Range(t.list) = R \cup {n}
  BY <1>2, <1>3
<1> HIDE DEF R
<1>6. ListGood(t)
  <2>1. \A m \in R : s.ready[UnitOf(m)]
    BY DEF Good, ListGood, R
  <2> QED BY <1>1, <1>2, <1>3, <1>5, <2>1 DEF ListGood
<1>7. \A S : InList(t, S) = InList(s, S) \cup ({n} \cap S)
  BY <1>5 DEF InList, R
<1>15. ASSUME NEW S, n \notin S PROVE InList(t, S) = InList(s, S)
  <2>1. {n} \cap S = {}
    BY <1>15
  <2> QED BY <1>7, <2>1
<1>8. ZeroGood(b, t)
  <2>1. ASSUME NEW i \in Inv, <<"zero", i>> \in R \cup {n} \/ s.useZero[i] PROVE b = "common" /\ i = TOP
    <3>1. CASE <<"zero", i>> \in R \/ s.useZero[i]
      BY <3>1 DEF Good, ZeroGood, R
    <3>2. CASE <<"zero", i>> = n
      <4>1. n[1] = "zero" /\ n[2] = i
        BY <3>2
      <4>2. n = <<"zero", TOP>> /\ b = "common"
        BY <4>1 DEF Fits
      <4> QED BY <4>1, <4>2
    <3> QED BY <2>1, <3>1, <3>2
  <2>2. ASSUME b = "common", ~s.stopped[1], InList(t, Used(TOP)) # {} PROVE s.useZero[TOP]
    <3>1. CASE n \in Used(TOP)
      BY <2>2, <3>1 DEF Fits
    <3>2. CASE n \notin Used(TOP)
      BY <1>7, <2>2, <3>2 DEF Good, ZeroGood
    <3> QED BY <3>1, <3>2
  <2> QED BY <1>3, <1>5, <2>1, <2>2 DEF ZeroGood
<1>9. a = 1 \/ a = 2
  BY <1>0
<1>91. a = 2 => n \in Used(TORQUE)
  BY DEF Fits
<1>10. a = 2 => n \notin Position /\ n \notin Used(BOT) /\ n \notin Used(TOP)
  <2>1. TORQUE \in Inv /\ BOT \in Inv /\ TOP \in Inv /\ BOT # TORQUE /\ TOP # TORQUE
    BY Numbers
  <2>2. Used(BOT) \cap Used(TORQUE) = {} /\ Used(TOP) \cap Used(TORQUE) = {}
    BY <2>1, UsedApart
  <2>3. \A m \in Used(TORQUE) : m \notin Position
    BY <2>1, LoopNames
  <2> QED BY <1>91, <2>2, <2>3
<1>11. a = 1 => b = "vsi" \/ n \notin Used(TORQUE)
  BY DEF Fits
<1>12. FirstGood(b, t)
  <2>1. FirstGood(b, s)
    BY DEF Good
  <2>2. CASE a = 1
    <3>1. s.asked[1] = "busy"
      BY <2>2
    <3>2. b = "vsi" => n \notin Position
      BY Items DEF Fits
    <3>3. b = "vsi" => InList(t, Position) = {}
      BY <1>15, <2>1, <3>2 DEF FirstGood
    <3> QED BY <1>3, <3>1, <3>3 DEF FirstGood
  <2>3. CASE a = 2
    <3>1. b # "vsi" /\ InList(t, Position) = InList(s, Position)
      BY <1>15, <1>10, <2>3
    <3>2. \A i \in {BOT, TOP} : InList(t, Used(i)) = InList(s, Used(i))
      BY <1>15, <1>10, <2>3
    <3> QED BY <1>3, <2>1, <3>1, <3>2 DEF FirstGood
  <2> QED BY <1>9, <2>2, <2>3
<1>13. AppGood(b, t)
  <2>1. AppGood(b, s)
    BY DEF Good
  <2>2. CASE a = 1
    <3>1. s.asked[1] = "busy"
      BY <2>2
    <3>2. b # "vsi" => InList(t, Used(TORQUE)) = InList(s, Used(TORQUE))
      BY <1>15, <1>11, <2>2
    <3>3. s.asked[2] = "on" => Serving(b, t, 2)
      BY <1>3, <2>1, <3>2 DEF AppGood, Serving, Bridged
    <3> QED BY <1>3, <2>1, <3>1, <3>2, <3>3 DEF AppGood
  <2>3. CASE a = 2
    <3>1. s.asked[2] = "busy" /\ b # "vsi"
      BY <2>3
    <3>2. \A i \in {BOT, TOP} : InList(t, Used(i)) = InList(s, Used(i))
      BY <1>15, <1>10, <2>3
    <3>3. s.asked[1] = "on" => Serving(b, t, 1)
      <4>1. s.asked[1] = "on" => Serving(b, s, 1)
        BY <2>1 DEF AppGood
      <4> QED BY <1>3, <1>5, <3>1, <3>2, <4>1 DEF Serving, Bridged, R
    <3> QED BY <1>3, <2>1, <3>1, <3>3 DEF AppGood
  <2> QED BY <1>9, <2>2, <2>3
<1>14. OrderGood(b, t)
  <2> SUFFICES ASSUME NEW c \in 1 .. 2, ~s.stopped[c], NEW i \in InvOf(b, c), NEW m \in LoopsIn(b, i)
               PROVE  Ahead(v, LastIn(b, i), m)
    BY <1>3 DEF OrderGood
  <2>1. Ahead(s.list, LastIn(b, i), m)
    BY DEF Good, OrderGood
  <2>2. i \in Inv /\ LastIn(b, i) \in Used(i) /\ (c = 2 => i = TORQUE) /\ (c = 1 => i # TORQUE)
        /\ (b = "vsi" => c = 1)
    <3>1. i \in Inv /\ (c = 2 => i = TORQUE) /\ (c = 1 => i # TORQUE) /\ (b = "vsi" => c = 1)
      BY Numbers DEF InvOf
    <3> QED BY <3>1, LoopNames
  <2>3. LastIn(b, i) # n \/ m = n \/ m \in Range(s.list)
    <3>1. CASE c = a
      BY <3>1 DEF Fits
    <3>2. CASE c = 1 /\ a = 2
      <4>1. n \in Used(TORQUE) /\ Used(i) \cap Used(TORQUE) = {}
        BY <2>2, <3>2, UsedApart, Numbers DEF Fits
      <4> QED BY <2>2, <4>1
    <3>3. CASE c = 2 /\ a = 1
      <4>1. n \notin Used(TORQUE) /\ i = TORQUE
        BY <1>11, <2>2, <3>3
      <4> QED BY <2>2, <4>1
    <3> QED BY <1>9, <3>1, <3>2, <3>3
  <2> QED BY <1>1, <2>1, <2>3, AppendAhead DEF v
<1> QED BY <1>3, <1>4, <1>5, <1>6, <1>8, <1>12, <1>13, <1>14 DEF Good, R

(* What is left alone but the list. *)
Same(s, t) == t.ready = s.ready /\ t.own = s.own /\ t.useZero = s.useZero /\ t.asked = s.asked /\ t.stopped = s.stopped

(* So does taking one out for an application that is being stopped.        *)
LEMMA RemoveIsGood ==
  ASSUME NEW b \in Build, NEW s, Good(b, s), NEW a, Busy(b, s, a), s.stopped[a],
         NEW m \in Item, NEW n \in Item, IF a = 2 THEN n \in Used(TORQUE) ELSE b = "vsi" \/ n \notin Used(TORQUE)
  PROVE  \E t : /\ Good(b, t) /\ Does(Unregister(m, n), s, t) /\ Same(s, t)
                /\ Range(t.list) = IF m \in Range(s.list) THEN Range(s.list) \ {n} ELSE Range(s.list)
<1>0. a \in 1 .. 2 /\ s.asked[a] = "busy" /\ (a = 2 => b # "vsi")
  BY DEF Busy
<1> USE <1>0
<1>1. s \in Roster /\ s.list \in Seq(Item)
  BY DEF Good, ListGood, Roster
<1>2. CASE m \notin Range(s.list)
  <2>1. Does(Unregister(m, n), s, s)
    BY <1>2 DEF Does
  <2> QED BY <1>2, <2>1 DEF Same
<1>3. CASE m \in Range(s.list)
  <2>1. PICK v : Drops(s.list, n, v)
    BY <1>1, DropsSome
  <2>2. /\ v \in Seq(Item) /\ IsInjective(v) /\ Range(v) = Range(s.list) \ {n}
        /\ \A x, y : Ahead(s.list, x, y) /\ y # n => Ahead(v, x, y)
    BY <1>1, <2>1, DropsIs DEF Good, ListGood
  <2> DEFINE t == [s EXCEPT !.list = v]
             R == Range(s.list)
  <2>3. Does(Unregister(m, n), s, t)
    BY <1>3, <2>1 DEF Does
  <2>4. t \in Roster /\ t.list = v /\ Same(s, t)
    BY <1>1, <2>2 DEF Roster, Same
  <2> HIDE DEF t, R
  <2>5. Range(t.list) = R \ {n}
    BY <2>2, <2>4 DEF R
  <2>6. ListGood(t)
    <3>1. \A x \in R : s.ready[UnitOf(x)]
      BY DEF Good, ListGood, R
    <3> QED BY <2>2, <2>4, <2>5, <3>1 DEF ListGood, Same
  <2>7. \A S : InList(t, S) = InList(s, S) \ {n}
    BY <2>5 DEF InList, R
  <2>8. ASSUME NEW S, n \notin S PROVE InList(t, S) = InList(s, S)
    BY <2>5, <2>8 DEF InList, R
  <2>9. ZeroGood(b, t)
    <3>1. ZeroGood(b, s)
      BY DEF Good
    <3>2. InList(t, Used(TOP)) # {} => InList(s, Used(TOP)) # {}
      BY <2>7
    <3>3. \A i \in Inv : <<"zero", i>> \in Range(t.list) => <<"zero", i>> \in Range(s.list)
      BY <2>5 DEF R
    <3> QED BY <2>4, <3>1, <3>2, <3>3 DEF ZeroGood, Same
  <2>10. a = 1 \/ a = 2
    OBVIOUS
  <2>11. a = 2 => n \notin Position /\ n \notin Used(BOT) /\ n \notin Used(TOP) /\ n[1] # "H"
    BY Numbers, LoopNames, UsedApart
  <2>12. FirstGood(b, t)
    <3>1. FirstGood(b, s)
      BY DEF Good
    <3>2. CASE a = 1
      <4>1. s.asked[1] = "busy"
        BY <3>2
      <4>2. b = "vsi" => InList(t, Position) = {}
        BY <2>7, <3>1 DEF FirstGood
      <4> QED BY <2>4, <4>1, <4>2 DEF FirstGood, Same
    <3>3. CASE a = 2
      <4>1. b # "vsi" /\ InList(t, Position) = InList(s, Position)
        BY <2>8, <2>11, <3>3
      <4>2. \A i \in {BOT, TOP} : InList(t, Used(i)) = InList(s, Used(i))
        BY <2>8, <2>11, <3>3
      <4> QED BY <2>4, <3>1, <4>1, <4>2 DEF FirstGood, Same
    <3> QED BY <2>10, <3>2, <3>3
  <2>13. AppGood(b, t)
    <3>1. AppGood(b, s)
      BY DEF Good
    <3>2. CASE a = 1
      <4>1. s.asked[1] = "busy"
        BY <3>2
      <4>2. b # "vsi" => InList(t, Used(TORQUE)) = InList(s, Used(TORQUE))
        BY <2>8, <3>2
      <4>3. s.asked[2] = "on" => Serving(b, t, 2)
        BY <2>4, <3>1, <4>2 DEF AppGood, Serving, Bridged, Same
      <4> QED BY <2>4, <3>1, <4>1, <4>2, <4>3 DEF AppGood, Same
    <3>3. CASE a = 2
      <4>1. s.asked[2] = "busy" /\ b # "vsi"
        BY <3>3
      <4>2. \A i \in {BOT, TOP} : InList(t, Used(i)) = InList(s, Used(i))
        BY <2>8, <2>11, <3>3
      <4>3. s.asked[1] = "on" => Serving(b, t, 1)
        <5>1. s.asked[1] = "on" => Serving(b, s, 1)
          BY <3>1 DEF AppGood
        <5>2. \A h \in Bridge : n # <<"H", h>>
          BY <2>11, <3>3
        <5> QED BY <2>4, <2>5, <2>11, <3>3, <4>1, <4>2, <5>1, <5>2 DEF Serving, Bridged, R, Same
      <4> QED BY <2>4, <3>1, <4>1, <4>3 DEF AppGood, Same
    <3> QED BY <2>10, <3>2, <3>3
  <2>14. OrderGood(b, t)
    <3> SUFFICES ASSUME NEW c \in 1 .. 2, ~s.stopped[c], NEW i \in InvOf(b, c), NEW k \in LoopsIn(b, i)
                 PROVE  Ahead(v, LastIn(b, i), k)
      BY <2>4 DEF OrderGood, Same
    <3>1. Ahead(s.list, LastIn(b, i), k)
      BY DEF Good, OrderGood
    <3>2. i \in Inv /\ k \in Used(i) /\ (c = 2 => i = TORQUE) /\ (c = 1 => i # TORQUE) /\ (b = "vsi" => c = 1)
      <4>1. i \in Inv /\ (c = 2 => i = TORQUE) /\ (c = 1 => i # TORQUE) /\ (b = "vsi" => c = 1)
        BY Numbers DEF InvOf
      <4> QED BY <4>1, LoopNames
    <3>3. c # a
      OBVIOUS
    <3>4. k # n
      <4>1. CASE c = 1 /\ a = 2
        <5>1. n \in Used(TORQUE) /\ Used(i) \cap Used(TORQUE) = {}
          BY <3>2, <4>1, UsedApart, Numbers
        <5> QED BY <3>2, <5>1
      <4>2. CASE c = 2 /\ a = 1
        BY <3>2, <4>2
      <4> QED BY <2>10, <3>3, <4>1, <4>2
    <3> QED BY <2>2, <3>1, <3>4
  <2> QED BY <1>3, <2>3, <2>4, <2>5, <2>6, <2>9, <2>12, <2>13, <2>14 DEF Good, R
<1> QED BY <1>2, <1>3

(* The settings change. *)
WithZero(s, i, z) == [s EXCEPT !.useZero[i] = z]
WithOwn(s, u, o) == [s EXCEPT !.own[u] = o]
WithContext(s, u, o) == [s EXCEPT !.own[u] = o, !.ready[u] = TRUE]
WithReady(s, p) == [s EXCEPT !.ready[p] = TRUE]
WithAnswer(s, a, ans) == [s EXCEPT !.asked[a] = ans]
WithBusy(s, a, off) == [s EXCEPT !.asked[a] = "busy", !.stopped[a] = @ \/ off]

(* A change of settings keeps what is good if the zero loops and the       *)
(* running applications agree with it.                                     *)
LEMMA SetIsGood ==
  ASSUME NEW b \in Build, NEW s, Good(b, s), NEW t \in Roster,
         t.list = s.list, t.asked = s.asked, t.stopped = s.stopped,
         \A u \in Unit \cup Position : s.ready[u] => t.ready[u],
         ZeroGood(b, t), \A a \in 1 .. 2 : s.asked[a] = "on" => Serving(b, t, a)
  PROVE  Good(b, t)
<1>1. ListGood(t)
  <2>1. s \in Roster /\ \A n \in Range(s.list) : n \in Item /\ s.ready[UnitOf(n)]
    BY RangeOfSeq DEF Good, ListGood, Roster
  <2> QED BY <2>1, Items DEF Good, ListGood
<1>2. \A S : InList(t, S) = InList(s, S)
  BY DEF InList
<1>3. FirstGood(b, t)
  <2>1. FirstGood(b, s)
    BY DEF Good
  <2>2. (\A i \in Inv : s.ready[<<"V", i>>]) => \A i \in Inv : t.ready[<<"V", i>>]
    BY Items
  <2> QED BY <1>2, <2>1, <2>2 DEF FirstGood
<1>4. AppGood(b, t)
  BY <1>2 DEF Good, AppGood
<1>5. OrderGood(b, t)
  BY DEF Good, OrderGood
<1> QED BY <1>1, <1>3, <1>4, <1>5 DEF Good

(* useZero of an inverter is stored.                                       *)
LEMMA UseZeroIsGood ==
  ASSUME NEW b \in Build, NEW s, Good(b, s), s.asked[1] = "busy" \/ b = "bridge",
         NEW i \in Inv, NEW z \in BOOLEAN, z => b = "common" /\ i = TOP,
         b = "common" /\ i = TOP /\ ~z => s.stopped[1] \/ InList(s, Used(TOP)) = {},
         NEW t, t = WithZero(s, i, z)
  PROVE  /\ Good(b, t) /\ Does(Stores(<< <<"useZero", i, z>> >>), s, t)
         /\ t.list = s.list /\ t.ready = s.ready /\ t.own = s.own /\ t.asked = s.asked /\ t.stopped = s.stopped
         /\ \A j \in Inv : t.useZero[j] = IF j = i THEN z ELSE s.useZero[j]
<1> USE DEF WithZero
<1>1. s \in Roster
  BY DEF Good, ListGood
<1>2. /\ t \in Roster /\ t.list = s.list /\ t.ready = s.ready /\ t.own = s.own /\ t.asked = s.asked /\ t.stopped = s.stopped
      /\ \A j \in Inv : t.useZero[j] = IF j = i THEN z ELSE s.useZero[j]
  BY <1>1 DEF Roster
<1>3. Does(Stores(<< <<"useZero", i, z>> >>), s, t)
  BY DEF Does
<1>4. \A S : InList(t, S) = InList(s, S)
  BY <1>2 DEF InList
<1>5. ZeroGood(b, t)
  <2>1. ZeroGood(b, s)
    BY DEF Good
  <2> QED BY <1>2, <1>4, <2>1, Numbers DEF ZeroGood
<1>6. ASSUME NEW a \in 1 .. 2, s.asked[a] = "on" PROVE Serving(b, t, a)
  <2>1. Serving(b, s, a)
    BY <1>6 DEF Good, AppGood
  <2>2. CASE a = 1
    <3>1. b = "bridge"
      BY <1>6, <2>2
    <3> QED BY <1>2, <2>1, <2>2, <3>1 DEF Serving
  <2>3. CASE a = 2
    <3>1. t.useZero[TORQUE] = s.useZero[TORQUE]
      BY <1>2, <2>1, <2>3, Numbers DEF Serving, Bridged
    <3> QED BY <1>2, <1>4, <2>1, <2>3, <3>1 DEF Serving, Bridged
  <2> QED BY <2>2, <2>3
<1>7. Good(b, t)
  BY <1>2, <1>5, <1>6, SetIsGood
<1> QED BY <1>2, <1>3, <1>7

(* The callbacks of a unit are stored, and its context set up or not. *)
LEMMA OwnIsGood ==
  ASSUME NEW b \in Build, NEW s, Good(b, s), NEW u \in Unit, NEW o \in Owners, s.asked[2] # "on",
         s.asked[1] = "busy" \/ (b = "bridge" /\ u[1] = "V") \/ u = <<"V", TORQUE>>,
         NEW t, t = WithOwn(s, u, o) \/ t = WithContext(s, u, o)
  PROVE  /\ Good(b, t)
         /\ t.list = s.list /\ t.useZero = s.useZero /\ t.asked = s.asked /\ t.stopped = s.stopped
         /\ \A v \in Unit \cup Position : s.ready[v] => t.ready[v]
         /\ \A v \in Unit : t.own[v] = IF v = u THEN o ELSE s.own[v]
<1> USE DEF WithOwn, WithContext
<1>1. s \in Roster
  BY DEF Good, ListGood
<1>2. /\ t \in Roster /\ t.list = s.list /\ t.useZero = s.useZero /\ t.asked = s.asked /\ t.stopped = s.stopped
      /\ \A v \in Unit \cup Position : s.ready[v] => t.ready[v]
      /\ \A v \in Unit : t.own[v] = IF v = u THEN o ELSE s.own[v]
  <2>1. CASE t = [s EXCEPT !.own[u] = o]
    BY <1>1, <2>1 DEF Roster
  <2>2. CASE t = [s EXCEPT !.own[u] = o, !.ready[u] = TRUE]
    BY <1>1, <2>2 DEF Roster
  <2> QED BY <2>1, <2>2
<1>3. \A S : InList(t, S) = InList(s, S)
  BY <1>2 DEF InList
<1>4. ZeroGood(b, t)
  BY <1>2, <1>3 DEF Good, ZeroGood
<1>5. ASSUME NEW a \in 1 .. 2, s.asked[a] = "on" PROVE Serving(b, t, a)
  <2>1. a = 1
    BY <1>5
  <2>2. Serving(b, s, 1)
    BY <1>5, <2>1 DEF Good, AppGood
  <2>3. (b = "bridge" /\ u[1] = "V") \/ u = <<"V", TORQUE>>
    BY <1>5, <2>1
  <2>4. ASSUME NEW h \in Bridge PROVE t.own[<<"H", h>>] = s.own[<<"H", h>>]
    <3>1. u[1] = "V" /\ <<"H", h>>[1] = "H"
      BY <2>3
    <3>2. u # <<"H", h>> /\ <<"H", h>> \in Unit
      BY <3>1, Items
    <3> QED BY <1>2, <3>2
  <2>5. ASSUME b # "bridge", NEW i \in {BOT, TOP} PROVE t.own[<<"V", i>>] = s.own[<<"V", i>>]
    <3>1. u[2] = TORQUE /\ <<"V", i>>[2] = i
      BY <2>3, <2>5
    <3>2. i # TORQUE /\ i \in Inv
      BY Numbers
    <3>3. u # <<"V", i>>
      BY <3>1, <3>2
    <3>4. <<"V", i>> \in Unit
      BY <3>2, Items
    <3> QED BY <1>2, <3>3, <3>4
  <2> QED BY <1>2, <1>3, <2>1, <2>2, <2>4, <2>5 DEF Serving, Bridged
<1>6. Good(b, t)
  BY <1>2, <1>4, <1>5, SetIsGood
<1> QED BY <1>2, <1>6

(* A position controller is set up.                                        *)
LEMMA ReadyIsGood ==
  ASSUME NEW b \in Build, NEW s, Good(b, s), NEW p \in Position, NEW t, t = WithReady(s, p)
  PROVE  /\ Good(b, t)
         /\ t.list = s.list /\ t.own = s.own /\ t.useZero = s.useZero /\ t.asked = s.asked /\ t.stopped = s.stopped
         /\ t.ready[p] /\ \A v \in Unit \cup Position : s.ready[v] => t.ready[v]
<1> USE DEF WithReady
<1>1. s \in Roster
  BY DEF Good, ListGood
<1>2. /\ t \in Roster /\ t.list = s.list /\ t.own = s.own /\ t.useZero = s.useZero /\ t.asked = s.asked /\ t.stopped = s.stopped
      /\ t.ready[p] /\ \A v \in Unit \cup Position : s.ready[v] => t.ready[v]
  BY <1>1 DEF Roster
<1>3. \A S : InList(t, S) = InList(s, S)
  BY <1>2 DEF InList
<1>4. ZeroGood(b, t)
  BY <1>2, <1>3 DEF Good, ZeroGood
<1>5. ASSUME NEW a \in 1 .. 2, s.asked[a] = "on" PROVE Serving(b, t, a)
  <2>1. Serving(b, s, a)
    BY <1>5 DEF Good, AppGood
  <2>2. InList(t, Used(BOT)) = InList(s, Used(BOT)) /\ InList(t, Used(TOP)) = InList(s, Used(TOP))
        /\ InList(t, Used(TORQUE)) = InList(s, Used(TORQUE))
    BY <1>3
  <2>3. CASE a = 1
    BY <1>2, <2>1, <2>2, <2>3 DEF Serving, Bridged
  <2>4. CASE a = 2
    BY <1>2, <2>1, <2>2, <2>4 DEF Serving, Bridged
  <2> QED BY <2>3, <2>4
<1>6. Good(b, t)
  BY <1>2, <1>4, <1>5, SetIsGood
<1> QED BY <1>2, <1>6

(* A command is answered: what the application promises has to hold by     *)
(* then.                                                                   *)
LEMMA AnswerIsGood ==
  ASSUME NEW b \in Build, NEW s, Good(b, s), NEW a \in 1 .. 2, s.asked[a] = "busy", NEW ans \in {"on", "off"},
         ans = "on" => Serving(b, s, a), ans = "off" => s.stopped[a],
         a = 1 /\ ans = "off" => InList(s, Position) = {},
         a = 1 /\ b \in {"isolated", "common"} =>
           /\ \A i \in Inv : s.ready[<<"V", i>>]
           /\ \A i \in {BOT, TOP} : InList(s, Used(i)) \in {{}, LoopsIn(b, i)},
         NEW t, t = WithAnswer(s, a, ans)
  PROVE  /\ Good(b, t) /\ Does(Stores(<< <<"asked", a, ans>> >>), s, t)
         /\ \A c \in 1 .. 2 : t.asked[c] = IF c = a THEN ans ELSE s.asked[c]
<1> USE DEF WithAnswer
<1>1. s \in Roster
  BY DEF Good, ListGood
<1>2. /\ t \in Roster /\ t.list = s.list /\ t.ready = s.ready /\ t.own = s.own /\ t.useZero = s.useZero /\ t.stopped = s.stopped
      /\ \A c \in 1 .. 2 : t.asked[c] = IF c = a THEN ans ELSE s.asked[c]
  BY <1>1 DEF Roster, Answers
<1>3. Does(Stores(<< <<"asked", a, ans>> >>), s, t)
  BY DEF Does
<1>4. \A S : InList(t, S) = InList(s, S)
  BY <1>2 DEF InList
<1>5. ListGood(t) /\ ZeroGood(b, t) /\ OrderGood(b, t)
  BY <1>2, <1>4 DEF Good, ListGood, ZeroGood, OrderGood
<1>6. a = 1 \/ a = 2
  OBVIOUS
<1>7. FirstGood(b, t)
  <2>1. FirstGood(b, s)
    BY DEF Good
  <2>2. CASE a = 1
    <3>1. t.asked[1] = ans /\ ans # "never" /\ ans # "busy"
      BY <1>2, <2>2
    <3> QED BY <1>2, <1>4, <2>1, <2>2, <3>1 DEF FirstGood
  <2>3. CASE a = 2
    <3>1. t.asked[1] = s.asked[1]
      BY <1>2, <2>3
    <3> QED BY <1>2, <1>4, <2>1, <3>1 DEF FirstGood
  <2> QED BY <1>6, <2>2, <2>3
<1>8. AppGood(b, t)
  <2>1. AppGood(b, s)
    BY DEF Good
  <2>2. \A c \in 1 .. 2 : Serving(b, s, c) <=> Serving(b, t, c)
    BY <1>2, <1>4 DEF Serving, Bridged
  <2>3. ASSUME NEW c \in 1 .. 2 PROVE (t.asked[c] = "on" => Serving(b, t, c)) /\ (t.asked[c] = "off" => t.stopped[c])
    BY <1>2, <2>1, <2>2 DEF AppGood
  <2>4. a = 2 => b # "vsi"
    BY <2>1 DEF AppGood
  <2>5. t.asked[2] = IF a = 2 THEN ans ELSE s.asked[2]
    BY <1>2
  <2> QED BY <1>4, <2>1, <2>3, <2>4, <2>5 DEF AppGood
<1> QED BY <1>2, <1>3, <1>5, <1>7, <1>8 DEF Good

(* A command begins.                                                       *)
LEMMA BusyIsGood ==
  ASSUME NEW b \in Build, NEW s, Good(b, s), NEW a \in 1 .. 2, a = 2 => b # "vsi", NEW off \in BOOLEAN,
         NEW t, t = WithBusy(s, a, off)
  PROVE  /\ Good(b, t)
         /\ t.list = s.list /\ t.ready = s.ready /\ t.own = s.own /\ t.useZero = s.useZero
         /\ \A c \in 1 .. 2 : t.asked[c] = IF c = a THEN "busy" ELSE s.asked[c]
         /\ \A c \in 1 .. 2 : t.stopped[c] <=> s.stopped[c] \/ (c = a /\ off)
<1> USE DEF WithBusy
<1>1. s \in Roster
  BY DEF Good, ListGood
<1>2. /\ t \in Roster /\ t.list = s.list /\ t.ready = s.ready /\ t.own = s.own /\ t.useZero = s.useZero
      /\ \A c \in 1 .. 2 : t.asked[c] = IF c = a THEN "busy" ELSE s.asked[c]
      /\ \A c \in 1 .. 2 : t.stopped[c] <=> s.stopped[c] \/ (c = a /\ off)
  BY <1>1 DEF Roster, Answers
<1>4. \A S : InList(t, S) = InList(s, S)
  BY <1>2 DEF InList
<1>5. ListGood(t) /\ ZeroGood(b, t) /\ OrderGood(b, t)
  BY <1>2, <1>4 DEF Good, ListGood, ZeroGood, OrderGood
<1>6. a = 1 \/ a = 2
  OBVIOUS
<1>7. FirstGood(b, t)
  <2>1. FirstGood(b, s)
    BY DEF Good
  <2>2. CASE a = 1
    <3>1. t.asked[1] = "busy"
      BY <1>2, <2>2
    <3> QED BY <1>2, <1>4, <2>1, <3>1 DEF FirstGood
  <2>3. CASE a = 2
    <3>1. t.asked[1] = s.asked[1]
      BY <1>2, <2>3
    <3> QED BY <1>2, <1>4, <2>1, <3>1 DEF FirstGood
  <2> QED BY <1>6, <2>2, <2>3
<1>8. AppGood(b, t)
  <2>1. AppGood(b, s)
    BY DEF Good
  <2>2. \A c \in 1 .. 2 : Serving(b, s, c) <=> Serving(b, t, c)
    BY <1>2, <1>4 DEF Serving, Bridged
  <2>3. ASSUME NEW c \in 1 .. 2 PROVE (t.asked[c] = "on" => Serving(b, t, c)) /\ (t.asked[c] = "off" => t.stopped[c])
    BY <1>2, <2>1, <2>2 DEF AppGood
  <2>5. t.asked[2] = IF a = 2 THEN "busy" ELSE s.asked[2]
    BY <1>2
  <2> QED BY <1>4, <2>1, <2>3, <2>5 DEF AppGood
<1> QED BY <1>2, <1>5, <1>7, <1>8 DEF Good

(* The states at both ends are good; and two operations one after the      *)
(* other.                                                                  *)
LEMMA LeadsGood ==
  ASSUME NEW b, NEW ops, NEW s, NEW t, Leads(b, ops, s, t) PROVE Good(b, s) /\ Good(b, t)
<1>1. Len(ops) \in Nat
  BY DEF Leads, IsSeq
<1> DEFINE n == Len(ops)
<1>2. 0 \in 0 .. n /\ n \in 0 .. n
  BY <1>1
<1> HIDE DEF n
<1>3. PICK sg \in [0 .. n -> Roster] : sg[0] = s /\ sg[n] = t /\ \A k \in 0 .. n : Good(b, sg[k])
  BY DEF Leads, n
<1> QED BY <1>2, <1>3

LEMMA TwoJoined == ASSUME NEW p, NEW q PROVE <<p>> \o <<q>> = <<p, q>>
<1> DEFINE S == {p, q}
           u == <<p>>
           v == <<q>>
           w == <<p, q>>
<1>1. u \in Seq(S) /\ v \in Seq(S) /\ w \in Seq(S) /\ Len(u) = 1 /\ Len(v) = 1 /\ Len(w) = 2
      /\ u[1] = p /\ v[1] = q /\ w[1] = p /\ w[2] = q
  OBVIOUS
<1> HIDE DEF S, u, v, w
<1> DEFINE x == u \o v
<1>2. x \in Seq(S) /\ Len(x) = 2 /\ x[1] = p /\ x[2] = q
  BY <1>1, ConcatProperties
<1> HIDE DEF x
<1>3. \A k \in 1 .. 2 : x[k] = w[k]
  BY <1>1, <1>2
<1>4. x = w
  BY <1>1, <1>2, <1>3, SeqEqual
<1> QED BY <1>4 DEF x, u, v, w

LEMMA LeadsTwo ==
  ASSUME NEW b, NEW p, NEW q, NEW s, NEW r, NEW t, Leads(b, <<p>>, s, r), Leads(b, <<q>>, r, t)
  PROVE  Leads(b, <<p, q>>, s, t)
<1>1. Leads(b, <<p>> \o <<q>>, s, t)
  BY LeadsJoin
<1>2. <<p>> \o <<q>> = <<p, q>>
  BY TwoJoined
<1> QED BY <1>1, <1>2

(* AddIsGood, as a sequence of one operation.                              *)
LEMMA RegisterIsGood ==
  ASSUME NEW b \in Build, NEW s, Good(b, s), NEW a, Busy(b, s, a),
         NEW n, Fits(b, s, a, n)
  PROVE  \E t : /\ Leads(b, <<Register(n)>>, s, t) /\ Good(b, t) /\ Same(s, t)
                /\ Range(t.list) = Range(s.list) \cup {n}
<1>2. PICK t : /\ Good(b, t) /\ Does(Register(n), s, t)
               /\ Range(t.list) = Range(s.list) \cup {n}
               /\ t.ready = s.ready /\ t.own = s.own /\ t.useZero = s.useZero /\ t.asked = s.asked /\ t.stopped = s.stopped
  BY AddIsGood
<1>3. Same(s, t)
  BY <1>2 DEF Same
<1> QED BY <1>2, <1>3, LeadsOne

(* The loops of an inverter are registered, the one that makes the pair    *)
(* last.                                                                   *)
LoopsFor(i, z) == <<Register(<<"d", i>>), Register(<<"q", i>>)>> \o (IF z THEN <<Register(<<"zero", i>>)>> ELSE << >>)

LEMMA LoopsRegistered ==
  ASSUME NEW b \in Build, NEW s, Good(b, s), NEW a, Busy(b, s, a),
         NEW i \in Inv, IF a = 2 THEN i = TORQUE ELSE b = "vsi" \/ i # TORQUE,
         s.ready[<<"V", i>>], InList(s, Used(i)) = {},
         NEW z \in BOOLEAN, z <=> (b = "common" /\ i = TOP), z => s.useZero[TOP]
  PROVE  \E t : /\ Leads(b, LoopsFor(i, z), s, t)
                /\ Same(s, t) /\ Range(t.list) = Range(s.list) \cup LoopsIn(b, i)
<1> DEFINE d == <<"d", i>>
           q == <<"q", i>>
           o == <<"zero", i>>
<1>1. /\ d \in Item /\ q \in Item /\ o \in Item /\ UnitOf(d) = <<"V", i>> /\ UnitOf(q) = <<"V", i>> /\ UnitOf(o) = <<"V", i>>
      /\ d[1] = "d" /\ q[1] = "q" /\ o[1] = "zero" /\ d # q /\ d # o /\ q # o /\ d[2] = i /\ q[2] = i /\ o[2] = i
      /\ Used(i) = {d, q, o}
  BY Items DEF Used
<1>2. d \notin Range(s.list) /\ q \notin Range(s.list) /\ o \notin Range(s.list)
  BY <1>1 DEF InList
<1>3. /\ LastIn(b, i) = (IF z THEN o ELSE q)
      /\ LoopsIn(b, i) = {d, q} \cup (IF z THEN {o} ELSE {})
      /\ \A j \in InvOf(b, a) : LastIn(b, j)[2] = j
      /\ \A j \in InvOf(b, a) : LastIn(b, j)[1] # "d"
  BY DEF LastIn, LoopsIn
<1>4. \A n \in {d, q, o} : n \in Used(TORQUE) => i = TORQUE
  BY <1>1 DEF Used
<1>41. i = TORQUE => \A n \in {d, q, o} : n \in Used(TORQUE)
  BY <1>1
<1>42. \A n \in {d, q, o} : n \in Used(TOP) => i = TOP
  BY <1>1 DEF Used
<1>43. \A j : j # i => LastIn(b, j) # q /\ LastIn(b, j) # o
  BY <1>1 DEF LastIn
<1> HIDE DEF d, q, o
<1>5. Fits(b, s, a, d)
  BY <1>1, <1>2, <1>3, <1>4, <1>41, <1>42 DEF Fits
<1>6. PICK s1 : /\ Leads(b, <<Register(d)>>, s, s1) /\ Good(b, s1) /\ Same(s, s1)
                /\ Range(s1.list) = Range(s.list) \cup {d}
  BY <1>5, RegisterIsGood
<1>61. Busy(b, s1, a)
  BY <1>6 DEF Same, Busy
<1>7. Fits(b, s1, a, q)
  <2>1. q \notin Range(s1.list) /\ s1.ready[UnitOf(q)] /\ (q \in Used(TOP) /\ b = "common" => s1.useZero[TOP])
    BY <1>1, <1>2, <1>6, <1>42 DEF Same
  <2>2. ASSUME NEW j \in InvOf(b, a), q = LastIn(b, j) PROVE LoopsIn(b, j) \ {q} \subseteq Range(s1.list)
    <3>1. j = i /\ ~z
      BY <1>1, <1>3, <1>43, <2>2
    <3> QED BY <1>3, <1>6, <3>1
  <2> QED BY <1>1, <1>3, <1>4, <1>41, <1>42, <2>1, <2>2 DEF Fits
<1>8. PICK s2 : /\ Leads(b, <<Register(q)>>, s1, s2) /\ Good(b, s2) /\ Same(s1, s2)
                /\ Range(s2.list) = Range(s1.list) \cup {q}
  BY <1>6, <1>61, <1>7, RegisterIsGood
<1>9. Leads(b, <<Register(d), Register(q)>>, s, s2)
  BY <1>6, <1>8, LeadsTwo
<1>10. Same(s, s2) /\ Range(s2.list) = Range(s.list) \cup {d, q}
  BY <1>6, <1>8 DEF Same
<1>11. CASE ~z
  <2>1. Leads(b, <<Register(d), Register(q)>> \o << >>, s, s2)
    BY <1>8, <1>9, LeadsNone, LeadsJoin
  <2>2. LoopsFor(i, z) = <<Register(d), Register(q)>> \o << >>
    BY <1>11 DEF LoopsFor, d, q
  <2> QED BY <1>3, <1>10, <1>11, <2>1, <2>2
<1>12. CASE z
  <2>1. Fits(b, s2, a, o)
    <3>1. o \notin Range(s2.list) /\ s2.ready[UnitOf(o)] /\ s2.useZero[TOP]
      BY <1>1, <1>2, <1>10, <1>12 DEF Same
    <3>2. ASSUME NEW j \in InvOf(b, a), o = LastIn(b, j) PROVE LoopsIn(b, j) \ {o} \subseteq Range(s2.list)
      <4>1. j = i
        BY <1>43, <3>2
      <4> QED BY <1>3, <1>10, <4>1
    <3>3. b = "common" /\ o = <<"zero", TOP>>
      BY <1>12 DEF o
    <3> QED BY <1>1, <1>3, <1>4, <1>41, <3>1, <3>2, <3>3 DEF Fits
  <2>2. PICK s3 : /\ Leads(b, <<Register(o)>>, s2, s3) /\ Good(b, s3) /\ Same(s2, s3)
                  /\ Range(s3.list) = Range(s2.list) \cup {o}
    <3>1. Busy(b, s2, a)
      BY <1>10 DEF Same, Busy
    <3> QED BY <1>8, <2>1, <3>1, RegisterIsGood
  <2>4. Leads(b, <<Register(d), Register(q)>> \o <<Register(o)>>, s, s3)
    BY <1>9, <2>2, LeadsJoin
  <2>5. Same(s, s3) /\ Range(s3.list) = Range(s.list) \cup LoopsIn(b, i)
    BY <1>3, <1>10, <1>12, <2>2 DEF Same
  <2>6. LoopsFor(i, z) = <<Register(d), Register(q)>> \o <<Register(o)>>
    BY <1>12 DEF LoopsFor, d, q, o
  <2> QED BY <2>4, <2>5, <2>6
<1> QED BY <1>11, <1>12

(* The code's guard against starting twice: the loops are there, or are registered. *)
Startable(b, s, a, i, z) ==
  /\ IF a = 2 THEN i = TORQUE ELSE b = "vsi" \/ i # TORQUE
  /\ s.ready[<<"V", i>>] /\ InList(s, Used(i)) \in {{}, LoopsIn(b, i)}
  /\ z <=> (b = "common" /\ i = TOP)
  /\ z => s.useZero[TOP]

(* Start_VSI leaves all loops of the inverter in the list, whether it      *)
(* finds them there or not.                                                *)
LEMMA StartsLoops ==
  ASSUME build \in Build, NEW s, Good(build, s), NEW a, Busy(build, s, a),
         NEW i \in Inv, NEW z \in BOOLEAN, Startable(build, s, a, i, z),
         \A n \in Used(i) : mem.reg[n] <=> n \in Range(s.list)
  PROVE  \E t : /\ Leads(build, Start_VSI(i, z), s, t)
                /\ Same(s, t) /\ Range(t.list) = Range(s.list) \cup LoopsIn(build, i)
<1>0. /\ IF a = 2 THEN i = TORQUE ELSE build = "vsi" \/ i # TORQUE
      /\ s.ready[<<"V", i>>] /\ InList(s, Used(i)) \in {{}, LoopsIn(build, i)}
      /\ z <=> (build = "common" /\ i = TOP)
      /\ z => s.useZero[TOP]
  BY DEF Startable
<1>1. VsiItem(3*i) = <<"d", i>> /\ VsiItem(3*i + 1) = <<"q", i>> /\ VsiItem(3*i + 2) = <<"zero", i>>
  BY Numbers, VsiItemIs
<1>2. <<"d", i>> \in Used(i) /\ <<"q", i>> \in Used(i) /\ <<"zero", i>> \in Used(i)
  BY DEF Used
<1>3. CASE InList(s, Used(i)) = {}
  <2>1. \A n \in Used(i) : ~mem.reg[n]
    BY <1>3 DEF InList
  <2>2. Start_VSI(i, z) = LoopsFor(i, z)
    BY <1>1, <1>2, <2>1 DEF Start_VSI, LoopsFor
  <2>3. PICK t : /\ Leads(build, LoopsFor(i, z), s, t)
                 /\ Same(s, t) /\ Range(t.list) = Range(s.list) \cup LoopsIn(build, i)
    BY <1>0, <1>3, LoopsRegistered
  <2> QED BY <2>2, <2>3
<1>4. CASE InList(s, Used(i)) = LoopsIn(build, i)
  <2>1. mem.reg[<<"d", i>>]
    BY <1>2, <1>4 DEF InList, LoopsIn
  <2>2. Start_VSI(i, z) = << >>
    BY <1>1, <2>1 DEF Start_VSI
  <2>3. Leads(build, << >>, s, s)
    BY LeadsNone
  <2>4. Same(s, s) /\ Range(s.list) = Range(s.list) \cup LoopsIn(build, i)
    BY <1>4 DEF Same, InList
  <2> QED BY <2>2, <2>3, <2>4
<1> QED BY <1>0, <1>3, <1>4

(* What a command in progress leaves alone, and which settings it may      *)
(* change.                                                                 *)
Kept(s, t) == t.asked = s.asked /\ t.stopped = s.stopped
Readier(s, t) == \A v \in Unit \cup Position : s.ready[v] => t.ready[v]
MayZero(b, s, i, z) ==
  /\ s.asked[1] = "busy" \/ b = "bridge"
  /\ z => b = "common" /\ i = TOP
  /\ b = "common" /\ i = TOP /\ ~z => s.stopped[1] \/ InList(s, Used(TOP)) = {}
MayOwn(b, s, u) ==
  /\ s.asked[2] # "on"
  /\ s.asked[1] = "busy" \/ (b = "bridge" /\ u[1] = "V") \/ u = <<"V", TORQUE>>

(* The operations of the applications one by one: a setting is stored, a   *)
(* context set up, an item registered or taken out.                        *)
LEMMA ZeroStored ==
  ASSUME NEW b \in Build, NEW s, Good(b, s), NEW i \in Inv, NEW z \in BOOLEAN, MayZero(b, s, i, z)
  PROVE  \E t : /\ Leads(b, <<Stores(<< <<"useZero", i, z>> >>)>>, s, t) /\ Good(b, t)
                /\ t.list = s.list /\ t.ready = s.ready /\ t.own = s.own /\ Kept(s, t)
                /\ \A j \in Inv : t.useZero[j] = IF j = i THEN z ELSE s.useZero[j]
<1>1. PICK t : t = WithZero(s, i, z)
  OBVIOUS
<1>2. /\ s.asked[1] = "busy" \/ b = "bridge"
      /\ z => b = "common" /\ i = TOP
      /\ b = "common" /\ i = TOP /\ ~z => s.stopped[1] \/ InList(s, Used(TOP)) = {}
  BY DEF MayZero
<1>3. /\ Good(b, t) /\ Does(Stores(<< <<"useZero", i, z>> >>), s, t)
      /\ t.list = s.list /\ t.ready = s.ready /\ t.own = s.own /\ t.asked = s.asked /\ t.stopped = s.stopped
      /\ \A j \in Inv : t.useZero[j] = IF j = i THEN z ELSE s.useZero[j]
  BY <1>1, <1>2, UseZeroIsGood
<1>4. Kept(s, t)
  BY <1>3 DEF Kept
<1> QED BY <1>3, <1>4, LeadsOne

LEMMA OwnStored ==
  ASSUME NEW b \in Build, NEW s, Good(b, s), NEW u \in Unit, NEW o \in Owners, MayOwn(b, s, u)
  PROVE  \E t : /\ Leads(b, <<Stores(<< <<"own", u, o>> >>)>>, s, t) /\ Good(b, t)
                /\ t.list = s.list /\ t.ready = s.ready /\ t.useZero = s.useZero /\ Kept(s, t)
                /\ \A v \in Unit : t.own[v] = IF v = u THEN o ELSE s.own[v]
<1>1. PICK t : t = WithOwn(s, u, o)
  OBVIOUS
<1>2. /\ s.asked[2] # "on"
      /\ s.asked[1] = "busy" \/ (b = "bridge" /\ u[1] = "V") \/ u = <<"V", TORQUE>>
  BY DEF MayOwn
<1>3. /\ Good(b, t)
      /\ t.list = s.list /\ t.useZero = s.useZero /\ t.asked = s.asked /\ t.stopped = s.stopped
      /\ \A v \in Unit : t.own[v] = IF v = u THEN o ELSE s.own[v]
  BY <1>1, <1>2, OwnIsGood
<1>4. Does(Stores(<< <<"own", u, o>> >>), s, t)
  BY <1>1 DEF Does, WithOwn
<1>5. Kept(s, t)
  BY <1>3 DEF Kept
<1>6. t.ready = s.ready
  BY <1>1 DEF WithOwn, Good, ListGood, Roster
<1> QED BY <1>3, <1>4, <1>5, <1>6, LeadsOne

LEMMA ContextSet ==
  ASSUME NEW b \in Build, NEW s, Good(b, s), NEW u \in Unit, MayOwn(b, s, u)
  PROVE  \E t : /\ Leads(b, <<Stores(<< <<"own", u, "example">>, <<"ready", u, TRUE>> >>)>>, s, t) /\ Good(b, t)
                /\ t.list = s.list /\ t.useZero = s.useZero /\ Kept(s, t) /\ Readier(s, t) /\ t.ready[u]
<1>1. PICK t : t = WithContext(s, u, "example")
  OBVIOUS
<1>2. /\ s.asked[2] # "on" /\ "example" \in Owners
      /\ s.asked[1] = "busy" \/ (b = "bridge" /\ u[1] = "V") \/ u = <<"V", TORQUE>>
  BY DEF MayOwn, Owners
<1>3. /\ Good(b, t)
      /\ t.list = s.list /\ t.useZero = s.useZero /\ t.asked = s.asked /\ t.stopped = s.stopped
      /\ \A v \in Unit \cup Position : s.ready[v] => t.ready[v]
  BY <1>1, <1>2, OwnIsGood
<1>4. Does(Stores(<< <<"own", u, "example">>, <<"ready", u, TRUE>> >>), s, t)
  BY <1>1 DEF Does, WithContext
<1>5. Kept(s, t) /\ Readier(s, t)
  BY <1>3 DEF Kept, Readier
<1>6. t.ready[u]
  BY <1>1 DEF WithContext, Good, ListGood, Roster
<1> QED BY <1>3, <1>4, <1>5, <1>6, LeadsOne

LEMMA PositionAdded ==
  ASSUME NEW b \in Build, NEW s, Good(b, s), b # "vsi", Busy(b, s, 1), NEW p \in Position, p \notin Range(s.list)
  PROVE  \E t : /\ Leads(b, Init_Position(p), s, t)
                /\ Range(t.list) = Range(s.list) \cup {p} /\ t.own = s.own /\ t.useZero = s.useZero
                /\ Kept(s, t) /\ Readier(s, t)
<1>1. PICK r : r = WithReady(s, p)
  OBVIOUS
<1>2. /\ Good(b, r)
      /\ r.list = s.list /\ r.own = s.own /\ r.useZero = s.useZero /\ r.asked = s.asked /\ r.stopped = s.stopped
      /\ r.ready[p] /\ \A v \in Unit \cup Position : s.ready[v] => r.ready[v]
  BY <1>1, ReadyIsGood
<1>3. Leads(b, <<Stores(<< <<"updated", p, FALSE>>, <<"ready", p, TRUE>> >>)>>, s, r)
  <2>1. Does(Stores(<< <<"updated", p, FALSE>>, <<"ready", p, TRUE>> >>), s, r)
    BY <1>1 DEF Does, WithReady
  <2> QED BY <1>2, <2>1, LeadsOne
<1>4. Fits(b, r, 1, p)
  <2>1. p \in Item /\ UnitOf(p) = p /\ p[1] = "P"
    BY Items
  <2>2. \A i \in Inv : p \notin Used(i)
    BY LoopNames
  <2>3. \A i : LastIn(b, i)[1] # "P"
    BY DEF LastIn
  <2> QED BY <1>2, <2>1, <2>2, <2>3, Numbers DEF Fits
<1>5. Busy(b, r, 1)
  BY <1>2 DEF Busy
<1>6. PICK t : /\ Leads(b, <<Register(p)>>, r, t) /\ Good(b, t) /\ Same(r, t)
               /\ Range(t.list) = Range(r.list) \cup {p}
  BY <1>2, <1>4, <1>5, RegisterIsGood
<1>7. Leads(b, Init_Position(p), s, t)
  BY <1>3, <1>6, LeadsTwo DEF Init_Position
<1> QED BY <1>2, <1>6, <1>7 DEF Same, Kept, Readier

LEMMA BridgeAdded ==
  ASSUME NEW b \in Build, NEW s, Good(b, s), b = "bridge", Busy(b, s, 1), NEW h \in Bridge, s.ready[<<"H", h>>],
         <<"H", h>> \notin Range(s.list)
  PROVE  \E t : /\ Leads(b, <<Register(<<"H", h>>)>>, s, t) /\ Good(b, t)
                /\ Range(t.list) = Range(s.list) \cup {<<"H", h>>} /\ Same(s, t)
<1> DEFINE n == <<"H", h>>
<1>1. n \in Item /\ UnitOf(n) = n /\ n[1] = "H"
  BY Items
<1>2. \A i : LastIn(b, i)[1] # "H"
  BY DEF LastIn
<1>3. \A i \in Inv : n \notin Used(i)
  BY <1>1, LoopNames
<1> HIDE DEF n
<1>4. Fits(b, s, 1, n)
  <2>1. n \notin Range(s.list) /\ s.ready[n]
    BY DEF n
  <2> QED BY <1>1, <1>2, <1>3, <2>1, Numbers DEF Fits
<1>5. PICK t : /\ Leads(b, <<Register(n)>>, s, t) /\ Good(b, t) /\ Same(s, t)
               /\ Range(t.list) = Range(s.list) \cup {n}
  BY <1>4, RegisterIsGood
<1> QED BY <1>5 DEF n

LEMMA Unregistered ==
  ASSUME NEW b \in Build, NEW s, Good(b, s), NEW a, Busy(b, s, a), s.stopped[a],
         NEW m \in Item, NEW n \in Item, IF a = 2 THEN n \in Used(TORQUE) ELSE b = "vsi" \/ n \notin Used(TORQUE)
  PROVE  \E t : /\ Leads(b, <<Unregister(m, n)>>, s, t) /\ Same(s, t)
                /\ Range(t.list) = IF m \in Range(s.list) THEN Range(s.list) \ {n} ELSE Range(s.list)
<1>1. PICK t : /\ Good(b, t) /\ Does(Unregister(m, n), s, t) /\ Same(s, t)
               /\ Range(t.list) = IF m \in Range(s.list) THEN Range(s.list) \ {n} ELSE Range(s.list)
  BY RemoveIsGood
<1> QED BY <1>1, LeadsOne

LEMMA ForceStored ==
  ASSUME NEW b \in Build, NEW s, Good(b, s), NEW w \in {"xy", "dq"}, NEW f \in BOOLEAN
  PROVE  Leads(b, <<Stores(<< <<"force", w, f>> >>)>>, s, s)
<1>1. Does(Stores(<< <<"force", w, f>> >>), s, s)
  BY DEF Does
<1> QED BY <1>1, LeadsOne

LEMMA SentStored ==
  ASSUME NEW b \in Build, NEW s, Good(b, s)
  PROVE  Leads(b, <<Stores(<< <<"sent", "torque", 0>> >>)>>, s, s)
<1>1. Does(Stores(<< <<"sent", "torque", 0>> >>), s, s)
  BY DEF Does
<1> QED BY <1>1, LeadsOne

(* Starting the loops of an inverter tells nothing of the items that are   *)
(* not its own.                                                            *)
LEMMA LoopsUp ==
  ASSUME NEW b, NEW s, NEW t, NEW i \in Inv, Range(t.list) = Range(s.list) \cup LoopsIn(b, i)
  PROVE  /\ InList(t, Used(i)) = InList(s, Used(i)) \cup LoopsIn(b, i)
         /\ \A j \in Inv : j # i => InList(t, Used(j)) = InList(s, Used(j))
         /\ InList(t, Position) = InList(s, Position)
<1> DEFINE L == LoopsIn(b, i)
           R == Range(s.list)
           R2 == Range(t.list)
<1>1. L \subseteq Used(i) /\ L \cap Position = {}
  BY LoopNames
<1>2. \A j \in Inv : j # i => L \cap Used(j) = {}
  BY <1>1, UsedApart
<1>3. R2 = R \cup L
  OBVIOUS
<1> HIDE DEF L, R, R2
<1>4. /\ R2 \cap Used(i) = (R \cap Used(i)) \cup L
      /\ \A j \in Inv : j # i => R2 \cap Used(j) = R \cap Used(j)
      /\ R2 \cap Position = R \cap Position
  BY <1>1, <1>2, <1>3
<1> QED BY <1>4 DEF InList, L, R, R2

LEMMA SameList ==
  ASSUME NEW s, NEW t, t.list = s.list PROVE \A S : InList(t, S) = InList(s, S)
BY DEF InList

(* Init_VSI of one inverter, without its start.                            *)
LEMMA InverterSet ==
  ASSUME NEW b \in Build, NEW s, Good(b, s), NEW i \in Inv, MayZero(b, s, i, FALSE), MayOwn(b, s, <<"V", i>>)
  PROVE  \E t : /\ Leads(b, <<Stores(<< <<"useZero", i, FALSE>> >>),
                             Stores(<< <<"own", <<"V", i>>, "example">>, <<"ready", <<"V", i>>, TRUE>> >>)>>, s, t)
                /\ Good(b, t) /\ t.list = s.list /\ Kept(s, t) /\ Readier(s, t) /\ t.ready[<<"V", i>>]
<1>1. PICK r : /\ Leads(b, <<Stores(<< <<"useZero", i, FALSE>> >>)>>, s, r) /\ Good(b, r)
               /\ r.list = s.list /\ r.ready = s.ready /\ r.own = s.own /\ Kept(s, r)
               /\ \A j \in Inv : r.useZero[j] = IF j = i THEN FALSE ELSE s.useZero[j]
  <2>1. PICK z \in BOOLEAN : z = FALSE
    OBVIOUS
  <2>2. MayZero(b, s, i, z)
    BY <2>1
  <2>3. PICK r : /\ Leads(b, <<Stores(<< <<"useZero", i, z>> >>)>>, s, r) /\ Good(b, r)
                 /\ r.list = s.list /\ r.ready = s.ready /\ r.own = s.own /\ Kept(s, r)
                 /\ \A j \in Inv : r.useZero[j] = IF j = i THEN z ELSE s.useZero[j]
    BY <2>2, ZeroStored
  <2> QED BY <2>1, <2>3
<1>2. MayOwn(b, r, <<"V", i>>) /\ <<"V", i>> \in Unit
  BY <1>1, Items DEF MayOwn, Kept
<1>3. PICK t : /\ Leads(b, <<Stores(<< <<"own", <<"V", i>>, "example">>, <<"ready", <<"V", i>>, TRUE>> >>)>>, r, t) /\ Good(b, t)
               /\ t.list = r.list /\ t.useZero = r.useZero /\ Kept(r, t) /\ Readier(r, t) /\ t.ready[<<"V", i>>]
  BY <1>1, <1>2, ContextSet
<1>4. Leads(b, <<Stores(<< <<"useZero", i, FALSE>> >>),
                 Stores(<< <<"own", <<"V", i>>, "example">>, <<"ready", <<"V", i>>, TRUE>> >>)>>, s, t)
  BY <1>1, <1>3, LeadsTwo
<1>5. t.list = s.list /\ Kept(s, t) /\ Readier(s, t)
  BY <1>1, <1>3 DEF Kept, Readier
<1> QED BY <1>3, <1>4, <1>5

(* The states over which a command leads that began with c. *)
Path(b, c) == {s \in Roster : Good(b, s) /\ Kept(c, s)}

LEMMA OnPath ==
  ASSUME NEW b, NEW c, NEW s \in Path(b, c), NEW t, Good(b, t), Kept(s, t) PROVE t \in Path(b, c)
BY DEF Path, Kept, Good, ListGood

(* Init_VSI of one inverter, with its start.                               *)
InverterOn(i) ==
  <<Stores(<< <<"useZero", i, FALSE>> >>),
    Stores(<< <<"own", <<"V", i>>, "example">>, <<"ready", <<"V", i>>, TRUE>> >>)>> \o Start_VSI(i, FALSE)

LEMMA InverterStarted ==
  ASSUME build = "vsi", NEW s, Good(build, s), Busy(build, s, 1), s.asked[2] # "on",
         NEW i \in Inv, InList(s, Used(i)) = {}, \A n \in Item : ~mem.reg[n]
  PROVE  \E t : /\ Leads(build, InverterOn(i), s, t) /\ Good(build, t) /\ Kept(s, t)
                /\ InList(t, Used(i)) = LoopsIn(build, i)
                /\ \A j \in Inv : j # i => InList(t, Used(j)) = InList(s, Used(j))
<1>1. MayZero(build, s, i, FALSE) /\ MayOwn(build, s, <<"V", i>>) /\ build \in Build
  BY DEF MayZero, MayOwn, Busy, Build
<1>2. PICK r : /\ Leads(build, <<Stores(<< <<"useZero", i, FALSE>> >>),
                                 Stores(<< <<"own", <<"V", i>>, "example">>, <<"ready", <<"V", i>>, TRUE>> >>)>>, s, r)
               /\ Good(build, r) /\ r.list = s.list /\ Kept(s, r) /\ Readier(s, r) /\ r.ready[<<"V", i>>]
  BY <1>1, InverterSet
<1>3. \A S : InList(r, S) = InList(s, S)
  BY <1>2, SameList
<1>4. Busy(build, r, 1)
  BY <1>2 DEF Busy, Kept
<1>5. \A n \in Used(i) : mem.reg[n] <=> n \in Range(r.list)
  <2>1. \A n \in Used(i) : n \in Item /\ n \notin Range(r.list)
    BY <1>3, LoopNames DEF InList
  <2> QED BY <2>1
<1>6. PICK t : /\ Leads(build, Start_VSI(i, FALSE), r, t)
               /\ Same(r, t) /\ Range(t.list) = Range(r.list) \cup LoopsIn(build, i)
  <2>1. PICK z \in BOOLEAN : z = FALSE
    OBVIOUS
  <2>2. Startable(build, r, 1, i, z)
    BY <1>2, <1>3, <2>1 DEF Startable
  <2>3. PICK t : /\ Leads(build, Start_VSI(i, z), r, t)
                 /\ Same(r, t) /\ Range(t.list) = Range(r.list) \cup LoopsIn(build, i)
    BY <1>1, <1>2, <1>4, <1>5, <2>2, StartsLoops
  <2> QED BY <2>1, <2>3
<1>7. Leads(build, InverterOn(i), s, t)
  BY <1>2, <1>6, LeadsJoin DEF InverterOn
<1>8. Good(build, t)
  BY <1>6, LeadsGood
<1>9. Kept(s, t)
  BY <1>2, <1>6 DEF Kept, Same
<1>10. /\ InList(t, Used(i)) = InList(r, Used(i)) \cup LoopsIn(build, i)
       /\ \A j \in Inv : j # i => InList(t, Used(j)) = InList(r, Used(j))
  BY <1>6, LoopsUp
<1>11. /\ InList(t, Used(i)) = LoopsIn(build, i)
       /\ \A j \in Inv : j # i => InList(t, Used(j)) = InList(s, Used(j))
  BY <1>3, <1>10
<1> QED BY <1>7, <1>8, <1>9, <1>11

(* The inverters before k are started and the others are not.              *)
VsiAt(c, k) ==
  {s \in Path(build, c) : /\ \A i \in 0 .. k - 1 : InList(s, Used(i)) = LoopsIn(build, i)
                          /\ \A i \in k .. NUM_VSI - 1 : InList(s, Used(i)) = {}}

(* The start of the build with inverters alone.                            *)
LEMMA StartVsi ==
  ASSUME build = "vsi", NEW c, Good(build, c), Busy(build, c, 1), c.asked[2] # "on", Range(c.list) = {},
         \A n \in Item : ~mem.reg[n], NEW f \in BOOLEAN
  PROVE  \E t : /\ Leads(build, VSI_StartCommand(f), c, t) /\ Kept(c, t)
                /\ InList(t, Used(BOT)) = LoopsIn(build, BOT)
<1> DEFINE num == NUM_VSI
           A == [k \in 0 .. num |-> VsiAt(c, k)]
           seqs == [n \in 1 .. num |-> InverterOn(n - 1)]
<1>1. num \in Nat /\ num > 2 /\ num # 0 /\ Len(seqs) = num
  BY Numbers
<1>2. ASSUME NEW k \in 1 .. num PROVE Reaches(build, InverterOn(k - 1), VsiAt(c, k - 1), VsiAt(c, k))
  <2> DEFINE i == k - 1
  <2>1. /\ i \in Inv /\ k \in Nat /\ i \in (k - 1) .. num - 1
        /\ k .. num - 1 \subseteq (k - 1) .. num - 1
        /\ \A j \in 0 .. k - 1 : j = i \/ (j \in 0 .. (k - 1) - 1 /\ j # i)
        /\ \A j \in k .. num - 1 : j # i
        /\ 0 .. k - 1 \subseteq Inv
        /\ k .. num - 1 \subseteq Inv
    BY <1>1 DEF Inv
  <2> SUFFICES ASSUME NEW s \in VsiAt(c, i) PROVE \E t \in VsiAt(c, k) : Leads(build, InverterOn(i), s, t)
    BY DEF Reaches
  <2>2. /\ Good(build, s) /\ s \in Path(build, c) /\ Kept(c, s) /\ InList(s, Used(i)) = {}
        /\ \A j \in 0 .. (k - 1) - 1 : InList(s, Used(j)) = LoopsIn(build, j)
        /\ \A j \in (k - 1) .. num - 1 : InList(s, Used(j)) = {}
    BY <2>1 DEF Path, VsiAt
  <2>3. Busy(build, s, 1) /\ s.asked[2] # "on"
    BY <2>2 DEF Busy, Kept
  <2> HIDE DEF i
  <2>4. PICK t : /\ Leads(build, InverterOn(i), s, t) /\ Good(build, t) /\ Kept(s, t)
                 /\ InList(t, Used(i)) = LoopsIn(build, i)
                 /\ \A j \in Inv : j # i => InList(t, Used(j)) = InList(s, Used(j))
    BY <2>1, <2>2, <2>3, InverterStarted
  <2>5. t \in Path(build, c)
    BY <2>2, <2>4, OnPath
  <2>6. \A j \in 0 .. k - 1 : InList(t, Used(j)) = LoopsIn(build, j)
    BY <2>1, <2>2, <2>4
  <2>7. \A j \in k .. num - 1 : InList(t, Used(j)) = {}
    BY <2>1, <2>2, <2>4
  <2>8. t \in VsiAt(c, k)
    BY <2>5, <2>6, <2>7 DEF VsiAt
  <2> QED BY <2>4, <2>8
<1>3. Reaches(build, FlattenSeq(seqs), A[0], A[num])
  <2>1. \A k \in 1 .. num : Reaches(build, seqs[k], A[k - 1], A[k])
    <3> SUFFICES ASSUME NEW k \in 1 .. num PROVE Reaches(build, seqs[k], A[k - 1], A[k])
      OBVIOUS
    <3>1. k - 1 \in 0 .. num /\ k \in 0 .. num
      BY <1>1
    <3> QED BY <1>2, <3>1
  <2> HIDE DEF A, seqs, num
  <2> QED BY <1>1, <2>1, ReachesFlat
<1>4. c \in VsiAt(c, 0)
  <2>1. c \in Path(build, c)
    BY DEF Path, Kept, Good, ListGood
  <2>2. \A S : InList(c, S) = {}
    BY DEF InList
  <2>3. 0 .. 0 - 1 = {}
    OBVIOUS
  <2> QED BY <2>1, <2>2, <2>3 DEF VsiAt
<1>5. VSI_StartCommand(f) = <<Stores(<< <<"force", "dq", f>> >>)>> \o FlattenSeq(seqs)
  <2>1. Init_VSI(TRUE) = FlattenSeq(seqs)
    BY DEF Init_VSI, InverterOn
  <2> QED BY <2>1 DEF VSI_StartCommand
<1>6. PICK t \in VsiAt(c, num) : Leads(build, FlattenSeq(seqs), c, t)
  <2>1. A[0] = VsiAt(c, 0) /\ A[num] = VsiAt(c, num)
    BY <1>1
  <2> QED BY <1>3, <1>4, <2>1 DEF Reaches
<1>7. Leads(build, <<Stores(<< <<"force", "dq", f>> >>)>>, c, c)
  BY ForceStored DEF Build
<1>8. Leads(build, VSI_StartCommand(f), c, t)
  <2> HIDE DEF seqs
  <2> QED BY <1>5, <1>6, <1>7, LeadsJoin
<1>9. 0 \in 0 .. num - 1 /\ BOT = 0
  BY <1>1, Numbers
<1>10. InList(t, Used(BOT)) = LoopsIn(build, BOT) /\ Kept(c, t)
  BY <1>6, <1>9 DEF VsiAt, Path
<1> QED BY <1>8, <1>10

(* The position controllers are set up one after the other: those before k *)
(* are in the list.                                                        *)
AllPositions == FlattenSeq([n \in 1 .. 4 |-> Init_Position(<<"P", n - 1>>)])
PosAt(b, c, k) ==
  {s \in Path(b, c) : /\ Readier(c, s) /\ s.own = c.own /\ s.useZero = c.useZero
                      /\ Range(s.list) = Range(c.list) \cup ({"P"} \X (0 .. k - 1))}

LEMMA PositionsStarted ==
  ASSUME NEW b \in Build, b # "vsi", NEW c, Good(b, c), Busy(b, c, 1), InList(c, Position) = {}
  PROVE  \E t : /\ Leads(b, AllPositions, c, t) /\ Good(b, t) /\ Kept(c, t) /\ Readier(c, t)
                /\ t.own = c.own /\ t.useZero = c.useZero
                /\ Range(t.list) = Range(c.list) \cup Position
<1> DEFINE A == [k \in 0 .. 4 |-> PosAt(b, c, k)]
           seqs == [n \in 1 .. 4 |-> Init_Position(<<"P", n - 1>>)]
<1>1. 4 \in Nat /\ 4 # 0 /\ Len(seqs) = 4
  OBVIOUS
<1>2. ASSUME NEW k \in 1 .. 4 PROVE Reaches(b, Init_Position(<<"P", k - 1>>), PosAt(b, c, k - 1), PosAt(b, c, k))
  <2> DEFINE p == <<"P", k - 1>>
  <2> SUFFICES ASSUME NEW s \in PosAt(b, c, k - 1) PROVE \E t \in PosAt(b, c, k) : Leads(b, Init_Position(p), s, t)
    BY DEF Reaches
  <2>1. /\ Good(b, s) /\ s \in Path(b, c) /\ Kept(c, s) /\ Readier(c, s) /\ s.own = c.own /\ s.useZero = c.useZero
        /\ Range(s.list) = Range(c.list) \cup ({"P"} \X (0 .. (k - 1) - 1))
    BY DEF Path, PosAt
  <2>2. Busy(b, s, 1)
    BY <2>1 DEF Busy, Kept
  <2>3. p \in Position /\ p[2] = k - 1
    BY Items
  <2>4. p \notin Range(s.list)
    <3>1. p \notin Range(c.list)
      BY <2>3 DEF InList
    <3>2. \A x \in {"P"} \X (0 .. (k - 1) - 1) : x[2] # k - 1
      OBVIOUS
    <3> QED BY <2>1, <2>3, <3>1, <3>2
  <2>5. {"P"} \X (0 .. k - 1) = ({"P"} \X (0 .. (k - 1) - 1)) \cup {p}
    <3>1. \A j : j \in 0 .. k - 1 <=> (j \in 0 .. (k - 1) - 1 \/ j = k - 1)
      OBVIOUS
    <3>2. ASSUME NEW x PROVE x \in {"P"} \X (0 .. k - 1) <=> x \in ({"P"} \X (0 .. (k - 1) - 1)) \cup {p}
      BY <3>1
    <3> QED BY <3>2
  <2> HIDE DEF p
  <2>6. PICK t : /\ Leads(b, Init_Position(p), s, t)
                 /\ Range(t.list) = Range(s.list) \cup {p} /\ t.own = s.own /\ t.useZero = s.useZero
                 /\ Kept(s, t) /\ Readier(s, t)
    BY <2>1, <2>2, <2>3, <2>4, PositionAdded
  <2>7. t \in Path(b, c)
    BY <2>1, <2>6, LeadsGood, OnPath
  <2>8. Readier(c, t) /\ t.own = c.own /\ t.useZero = c.useZero
    BY <2>1, <2>6 DEF Readier
  <2>9. Range(t.list) = Range(c.list) \cup ({"P"} \X (0 .. k - 1))
    <3> DEFINE X == {"P"} \X (0 .. (k - 1) - 1)
               Y == {"P"} \X (0 .. k - 1)
    <3>1. Range(s.list) = Range(c.list) \cup X /\ Y = X \cup {p} /\ Range(t.list) = Range(s.list) \cup {p}
      BY <2>1, <2>5, <2>6
    <3> HIDE DEF X, Y
    <3>2. Range(t.list) = Range(c.list) \cup Y
      BY <3>1
    <3> QED BY <3>2 DEF Y
  <2> QED BY <2>6, <2>7, <2>8, <2>9 DEF PosAt
<1>3. Reaches(b, FlattenSeq(seqs), A[0], A[4])
  <2>1. \A k \in 1 .. 4 : Reaches(b, seqs[k], A[k - 1], A[k])
    <3> SUFFICES ASSUME NEW k \in 1 .. 4 PROVE Reaches(b, seqs[k], A[k - 1], A[k])
      OBVIOUS
    <3>1. k - 1 \in 0 .. 4 /\ k \in 0 .. 4
      OBVIOUS
    <3> QED BY <1>2, <3>1
  <2> HIDE DEF A, seqs
  <2> QED BY <1>1, <2>1, ReachesFlat
<1>4. c \in PosAt(b, c, 0)
  <2>1. c \in Path(b, c) /\ Readier(c, c)
    BY DEF Path, Kept, Readier, Good, ListGood
  <2>2. {"P"} \X (0 .. 0 - 1) = {}
    OBVIOUS
  <2> QED BY <2>1, <2>2 DEF PosAt
<1>5. A[0] = PosAt(b, c, 0) /\ A[4] = PosAt(b, c, 4) /\ AllPositions = FlattenSeq(seqs)
  BY DEF AllPositions
<1> HIDE DEF A, seqs
<1>6. PICK t \in PosAt(b, c, 4) : Leads(b, AllPositions, c, t)
  BY <1>3, <1>4, <1>5 DEF Reaches
<1>7. Position = {"P"} \X (0 .. 4 - 1)
  BY DEF Position
<1> QED BY <1>6, <1>7 DEF PosAt, Path

(* Init_VSI of all inverters: those before k are ready.                    *)
SetAt(b, c, k) ==
  {s \in Path(b, c) : s.list = c.list /\ Readier(c, s) /\ \A i \in 0 .. k - 1 : s.ready[<<"V", i>>]}

LEMMA InvertersSet ==
  ASSUME NEW c, build \in Build, Good(build, c), \A i \in Inv : MayZero(build, c, i, FALSE) /\ MayOwn(build, c, <<"V", i>>)
  PROVE  \E t : /\ Leads(build, Init_VSI(FALSE), c, t) /\ Good(build, t) /\ Kept(c, t) /\ Readier(c, t) /\ t.list = c.list
                /\ \A i \in Inv : t.ready[<<"V", i>>]
<1> DEFINE num == NUM_VSI
           part(i) == <<Stores(<< <<"useZero", i, FALSE>> >>),
                        Stores(<< <<"own", <<"V", i>>, "example">>, <<"ready", <<"V", i>>, TRUE>> >>)>>
           A == [k \in 0 .. num |-> SetAt(build, c, k)]
           seqs == [n \in 1 .. num |-> part(n - 1)]
<1>1. num \in Nat /\ num > 2 /\ num # 0 /\ Len(seqs) = num
  BY Numbers
<1>2. ASSUME NEW k \in 1 .. num PROVE Reaches(build, part(k - 1), SetAt(build, c, k - 1), SetAt(build, c, k))
  <2> DEFINE i == k - 1
  <2>1. /\ i \in Inv
        /\ \A j \in 0 .. k - 1 : j = i \/ j \in 0 .. (k - 1) - 1
        /\ 0 .. k - 1 \subseteq Inv
    BY <1>1 DEF Inv
  <2> SUFFICES ASSUME NEW s \in SetAt(build, c, i) PROVE \E t \in SetAt(build, c, k) : Leads(build, part(i), s, t)
    BY DEF Reaches
  <2>2. /\ Good(build, s) /\ s \in Path(build, c) /\ Kept(c, s) /\ s.list = c.list /\ Readier(c, s)
        /\ \A j \in 0 .. (k - 1) - 1 : s.ready[<<"V", j>>]
    BY DEF Path, SetAt
  <2> HIDE DEF i
  <2>3. MayZero(build, s, i, FALSE) /\ MayOwn(build, s, <<"V", i>>)
    <3>1. MayZero(build, c, i, FALSE) /\ MayOwn(build, c, <<"V", i>>)
      BY <2>1
    <3>2. InList(s, Used(TOP)) = InList(c, Used(TOP))
      BY <2>2 DEF InList
    <3> QED BY <2>2, <3>1, <3>2 DEF MayZero, MayOwn, Kept
  <2>4. PICK t : /\ Leads(build, part(i), s, t)
                 /\ Good(build, t) /\ t.list = s.list /\ Kept(s, t) /\ Readier(s, t) /\ t.ready[<<"V", i>>]
    BY <2>1, <2>2, <2>3, InverterSet
  <2>5. t \in Path(build, c) /\ t.list = c.list
    BY <2>2, <2>4, OnPath
  <2>6. Readier(c, t)
    BY <2>2, <2>4 DEF Readier
  <2>7. \A j \in 0 .. k - 1 : t.ready[<<"V", j>>]
    <3>1. \A j \in Inv : <<"V", j>> \in Unit
      BY Items
    <3> QED BY <2>1, <2>2, <2>4, <3>1 DEF Readier
  <2>8. t \in SetAt(build, c, k)
    BY <2>5, <2>6, <2>7 DEF SetAt
  <2> QED BY <2>4, <2>8
<1>3. Reaches(build, FlattenSeq(seqs), A[0], A[num])
  <2>1. \A k \in 1 .. num : Reaches(build, seqs[k], A[k - 1], A[k])
    <3> SUFFICES ASSUME NEW k \in 1 .. num PROVE Reaches(build, seqs[k], A[k - 1], A[k])
      OBVIOUS
    <3>1. k - 1 \in 0 .. num /\ k \in 0 .. num
      BY <1>1
    <3>2. seqs[k] = part(k - 1) /\ A[k - 1] = SetAt(build, c, k - 1) /\ A[k] = SetAt(build, c, k)
      BY <3>1
    <3> HIDE DEF A, seqs, num, part
    <3> QED BY <1>2, <3>2
  <2> HIDE DEF A, seqs, num
  <2> QED BY <1>1, <2>1, ReachesFlat
<1>4. c \in SetAt(build, c, 0)
  <2>1. c \in Path(build, c) /\ Readier(c, c)
    BY DEF Path, Kept, Readier, Good, ListGood
  <2>2. 0 .. 0 - 1 = {}
    OBVIOUS
  <2> QED BY <2>1, <2>2 DEF SetAt
<1>5. Init_VSI(FALSE) = FlattenSeq(seqs)
  <2>1. \A n \in 1 .. num : part(n - 1) \o << >> = part(n - 1)
    <3> SUFFICES ASSUME NEW i PROVE part(i) \o << >> = part(i)
      OBVIOUS
    <3> DEFINE x == Stores(<< <<"useZero", i, FALSE>> >>)
               y == Stores(<< <<"own", <<"V", i>>, "example">>, <<"ready", <<"V", i>>, TRUE>> >>)
               e == <<x, y>>
    <3>1. e \in Seq({x, y})
      OBVIOUS
    <3> HIDE DEF x, y, e
    <3>2. e \o << >> = e
      BY <3>1, ConcatEmptySeq
    <3> QED BY <3>2 DEF x, y, e
  <2> DEFINE long == [n \in 1 .. num |-> part(n - 1) \o << >>]
  <2>2. long = seqs
    BY <2>1
  <2>3. Init_VSI(FALSE) = FlattenSeq(long)
    BY DEF Init_VSI
  <2> QED BY <2>2, <2>3
<1>6. PICK t \in SetAt(build, c, num) : Leads(build, Init_VSI(FALSE), c, t)
  <2>1. A[0] = SetAt(build, c, 0) /\ A[num] = SetAt(build, c, num)
    BY <1>1
  <2> QED BY <1>3, <1>4, <1>5, <2>1 DEF Reaches
<1>7. Inv = 0 .. num - 1
  BY DEF Inv
<1> QED BY <1>6, <1>7 DEF SetAt, Path

(* The position controllers are no loops; the flags that the code tests    *)
(* are those of the list while nothing of an inverter moved; and the names *)
(* of the callbacks.                                                       *)
LEMMA PositionsApart ==
  ASSUME NEW s, NEW t, Range(t.list) = Range(s.list) \cup Position
  PROVE  \A i \in Inv : InList(t, Used(i)) = InList(s, Used(i))
<1> SUFFICES ASSUME NEW i \in Inv PROVE InList(t, Used(i)) = InList(s, Used(i))
  OBVIOUS
<1>1. Used(i) \cap Position = {}
  BY LoopNames
<1> QED BY <1>1 DEF InList

LEMMA SameFlags ==
  ASSUME NEW c, \A n \in Item : mem.reg[n] <=> n \in Range(c.list), NEW s, NEW i \in Inv, InList(s, Used(i)) = InList(c, Used(i))
  PROVE  \A n \in Used(i) : mem.reg[n] <=> n \in Range(s.list)
<1>1. \A n \in Used(i) : n \in Item /\ (n \in Range(s.list) <=> n \in Range(c.list))
  BY LoopNames DEF InList
<1> QED BY <1>1

LEMMA Owning == "pos" \in Owners /\ "torque" \in Owners /\ "example" \in Owners
BY DEF Owners

(* The start of the position controllers with inverters: at the end the    *)
(* list serves both of them.                                               *)
LEMMA StartPositions ==
  ASSUME build \in {"isolated", "common"}, NEW c, Good(build, c), Busy(build, c, 1), c.asked[2] # "on",
         InList(c, Position) = {}, c.stopped[1] \/ InList(c, Used(TOP)) = {},
         \A i \in {BOT, TOP} : InList(c, Used(i)) \in {{}, LoopsIn(build, i)},
         \A n \in Item : mem.reg[n] <=> n \in Range(c.list), NEW f \in BOOLEAN
  PROVE  \E t : /\ Leads(build, PosContTry1_StartCommand(f), c, t) /\ Kept(c, t) /\ Serving(build, t, 1)
                /\ \A i \in Inv : t.ready[<<"V", i>>]
<1>1. /\ build \in Build /\ build # "vsi" /\ build # "bridge" /\ BOT \in Inv /\ TOP \in Inv /\ BOT # TOP /\ BOT # TORQUE /\ TOP # TORQUE
      /\ <<"V", BOT>> \in Unit /\ <<"V", TOP>> \in Unit /\ <<"V", BOT>> # <<"V", TOP>>
  <2>1. BOT \in Inv /\ TOP \in Inv /\ BOT # TOP /\ BOT # TORQUE /\ TOP # TORQUE
    BY Numbers
  <2>2. <<"V", BOT>>[2] = BOT /\ <<"V", TOP>>[2] = TOP
    OBVIOUS
  <2>3. <<"V", BOT>> # <<"V", TOP>>
    BY <2>1, <2>2
  <2>4. <<"V", BOT>> \in Unit /\ <<"V", TOP>> \in Unit
    BY <2>1, Items
  <2>5. build \in Build /\ build # "vsi" /\ build # "bridge"
    BY DEF Build
  <2> QED BY <2>1, <2>3, <2>4, <2>5
<1> DEFINE op1 == <<Stores(<< <<"force", "xy", f>> >>)>>
           op2 == <<Stores(<< <<"own", <<"V", BOT>>, "pos">> >>)>>
           op3 == <<Stores(<< <<"useZero", TOP, build = "common">> >>), Stores(<< <<"own", <<"V", TOP>>, "pos">> >>)>>
<1>2. Leads(build, op1, c, c)
  BY <1>1, ForceStored
<1>3. PICK s1 : /\ Leads(build, AllPositions, c, s1) /\ Good(build, s1) /\ Kept(c, s1) /\ Readier(c, s1)
                /\ s1.own = c.own /\ s1.useZero = c.useZero
                /\ Range(s1.list) = Range(c.list) \cup Position
  BY <1>1, PositionsStarted
<1>4. \A i \in Inv : InList(s1, Used(i)) = InList(c, Used(i))
  BY <1>3, PositionsApart
<1>5. \A i \in Inv : MayZero(build, s1, i, FALSE) /\ MayOwn(build, s1, <<"V", i>>)
  BY <1>1, <1>3, <1>4 DEF MayZero, MayOwn, Kept, Busy
<1>6. PICK s2 : /\ Leads(build, Init_VSI(FALSE), s1, s2) /\ Good(build, s2) /\ Kept(s1, s2) /\ Readier(s1, s2) /\ s2.list = s1.list
                /\ \A i \in Inv : s2.ready[<<"V", i>>]
  BY <1>1, <1>3, <1>5, InvertersSet
<1>7. Busy(build, s2, 1) /\ s2.asked[2] # "on" /\ Kept(c, s2)
  BY <1>3, <1>6 DEF Busy, Kept
<1>8. MayOwn(build, s2, <<"V", BOT>>)
  BY <1>7 DEF MayOwn, Busy
<1>9. PICK s3 : /\ Leads(build, op2, s2, s3) /\ Good(build, s3)
                /\ s3.list = s2.list /\ s3.ready = s2.ready /\ s3.useZero = s2.useZero /\ Kept(s2, s3)
                /\ \A v \in Unit : s3.own[v] = IF v = <<"V", BOT>> THEN "pos" ELSE s2.own[v]
  BY <1>1, <1>6, <1>8, Owning, OwnStored
<1>10. /\ \A i \in Inv : InList(s3, Used(i)) = InList(c, Used(i))
       /\ Busy(build, s3, 1) /\ Kept(c, s3) /\ s3.asked[2] # "on"
       /\ Position \subseteq Range(s3.list)
  BY <1>3, <1>4, <1>6, <1>7, <1>9 DEF InList, Busy, Kept
<1>11. PICK s4 : /\ Leads(build, Start_VSI(BOT, FALSE), s3, s4)
                 /\ Same(s3, s4) /\ Range(s4.list) = Range(s3.list) \cup LoopsIn(build, BOT)
  <2>1. PICK z \in BOOLEAN : z = FALSE
    OBVIOUS
  <2>2. Startable(build, s3, 1, BOT, z)
    BY <1>1, <1>6, <1>9, <1>10, <2>1 DEF Startable
  <2>3. \A n \in Used(BOT) : mem.reg[n] <=> n \in Range(s3.list)
    BY <1>1, <1>10, SameFlags
  <2>4. PICK s4 : /\ Leads(build, Start_VSI(BOT, z), s3, s4)
                  /\ Same(s3, s4) /\ Range(s4.list) = Range(s3.list) \cup LoopsIn(build, BOT)
    BY <1>1, <1>9, <1>10, <2>2, <2>3, StartsLoops
  <2> QED BY <2>1, <2>4
<1>12. /\ Good(build, s4) /\ Busy(build, s4, 1) /\ Kept(c, s4) /\ s4.asked[2] # "on"
       /\ s4.own[<<"V", BOT>>] = "pos" /\ \A i \in Inv : s4.ready[<<"V", i>>]
  <2>1. s3.own[<<"V", BOT>>] = "pos"
    BY <1>1, <1>9
  <2> QED BY <1>6, <1>9, <1>10, <1>11, <2>1, LeadsGood DEF Same, Busy, Kept
<1>13. /\ InList(s4, Used(BOT)) = LoopsIn(build, BOT)
       /\ InList(s4, Used(TOP)) = InList(c, Used(TOP))
       /\ Position \subseteq Range(s4.list)
  <2>1. /\ InList(s4, Used(BOT)) = InList(s3, Used(BOT)) \cup LoopsIn(build, BOT)
        /\ \A j \in Inv : j # BOT => InList(s4, Used(j)) = InList(s3, Used(j))
    <3>1. BOT \in Inv
      BY Numbers
    <3>2. Range(s4.list) = Range(s3.list) \cup LoopsIn(build, BOT)
      BY <1>11
    <3> QED BY <3>1, <3>2, LoopsUp
  <2>2. InList(s3, Used(BOT)) \in {{}, LoopsIn(build, BOT)}
    BY <1>1, <1>10
  <2> QED BY <1>1, <1>10, <1>11, <2>1, <2>2
<1>14. PICK z \in BOOLEAN : z = (build = "common")
  OBVIOUS
<1>15. MayZero(build, s4, TOP, z)
  BY <1>12, <1>14 DEF MayZero, Busy
<1>16. PICK s5 : /\ Leads(build, <<Stores(<< <<"useZero", TOP, z>> >>)>>, s4, s5) /\ Good(build, s5)
                 /\ s5.list = s4.list /\ s5.ready = s4.ready /\ s5.own = s4.own /\ Kept(s4, s5)
                 /\ \A j \in Inv : s5.useZero[j] = IF j = TOP THEN z ELSE s4.useZero[j]
  BY <1>1, <1>12, <1>15, ZeroStored
<1>17. MayOwn(build, s5, <<"V", TOP>>)
  BY <1>12, <1>16 DEF MayOwn, Busy, Kept
<1>18. PICK s6 : /\ Leads(build, <<Stores(<< <<"own", <<"V", TOP>>, "pos">> >>)>>, s5, s6) /\ Good(build, s6)
                 /\ s6.list = s5.list /\ s6.ready = s5.ready /\ s6.useZero = s5.useZero /\ Kept(s5, s6)
                 /\ \A v \in Unit : s6.own[v] = IF v = <<"V", TOP>> THEN "pos" ELSE s5.own[v]
  BY <1>1, <1>16, <1>17, Owning, OwnStored
<1>19. Leads(build, <<Stores(<< <<"useZero", TOP, z>> >>), Stores(<< <<"own", <<"V", TOP>>, "pos">> >>)>>, s4, s6)
  BY <1>16, <1>18, LeadsTwo
<1>20. /\ s6.own[<<"V", TOP>>] = "pos" /\ s6.own[<<"V", BOT>>] = "pos" /\ s6.useZero[TOP] = z
       /\ s6.list = s4.list /\ s6.ready = s4.ready /\ Busy(build, s6, 1) /\ Kept(c, s6)
  <2>1. s5.own[<<"V", BOT>>] = "pos" /\ s5.useZero[TOP] = z
    BY <1>1, <1>12, <1>16
  <2> QED BY <1>1, <1>12, <1>16, <1>18, <2>1 DEF Busy, Kept
<1>21. \A S : InList(s6, S) = InList(s4, S)
  BY <1>20, SameList
<1>22. PICK s7 : /\ Leads(build, Start_VSI(TOP, z), s6, s7)
                 /\ Same(s6, s7) /\ Range(s7.list) = Range(s6.list) \cup LoopsIn(build, TOP)
  <2>1. Startable(build, s6, 1, TOP, z)
    <3>1. InList(s6, Used(TOP)) \in {{}, LoopsIn(build, TOP)}
      BY <1>13, <1>21
    <3>2. s6.ready[<<"V", TOP>>]
      BY <1>1, <1>12, <1>20
    <3>3. z <=> (build = "common" /\ TOP = TOP)
      BY <1>14
    <3>4. z => s6.useZero[TOP]
      BY <1>20
    <3> QED BY <1>1, <3>1, <3>2, <3>3, <3>4 DEF Startable
  <2>2. \A n \in Used(TOP) : mem.reg[n] <=> n \in Range(s6.list)
    BY <1>1, <1>13, <1>21, SameFlags
  <2> QED BY <1>1, <1>18, <1>20, <2>1, <2>2, StartsLoops
<1>23. Good(build, s7) /\ Kept(c, s7) /\ \A i \in Inv : s7.ready[<<"V", i>>]
  BY <1>12, <1>20, <1>22, LeadsGood DEF Same, Kept
<1>24. Serving(build, s7, 1)
  <2>1. /\ InList(s7, Used(TOP)) = InList(s6, Used(TOP)) \cup LoopsIn(build, TOP)
        /\ \A j \in Inv : j # TOP => InList(s7, Used(j)) = InList(s6, Used(j))
    BY <1>1, <1>22, LoopsUp
  <2>2. InList(s7, Used(TOP)) = LoopsIn(build, TOP) /\ InList(s7, Used(BOT)) = LoopsIn(build, BOT)
    BY <1>1, <1>13, <1>21, <2>1
  <2>3. Position \subseteq Range(s7.list)
    BY <1>13, <1>20, <1>22
  <2>4. s7.useZero[BOT] = FALSE
    <3>1. ~s7.useZero[BOT] /\ s7.useZero[BOT] \in BOOLEAN
      BY <1>1, <1>23 DEF Good, ZeroGood, ListGood, Roster
    <3> QED BY <3>1
  <2>5. s7.useZero[TOP] = (build = "common") /\ s7.own[<<"V", TOP>>] = "pos" /\ s7.own[<<"V", BOT>>] = "pos"
    BY <1>14, <1>20, <1>22 DEF Same
  <2>6. Bridged(build, s7, BOT, "pos")
    BY <1>1, <2>2, <2>4, <2>5 DEF Bridged
  <2>7. Bridged(build, s7, TOP, "pos")
    BY <1>1, <2>2, <2>5 DEF Bridged
  <2>8. \A i \in {BOT, TOP} : Bridged(build, s7, i, "pos")
    BY <2>6, <2>7
  <2> QED BY <1>1, <2>3, <2>8 DEF Serving
<1>25. PosContTry1_StartCommand(f)
       = op1 \o (AllPositions \o ((((Init_VSI(FALSE) \o op2) \o Start_VSI(BOT, FALSE)) \o op3) \o Start_VSI(TOP, build = "common")))
  BY <1>1 DEF PosContTry1_StartCommand, Init_PosContTry1, AllPositions
<1>26. Leads(build, op3, s4, s6) /\ Leads(build, Start_VSI(TOP, build = "common"), s6, s7)
  <2>1. op3 = <<Stores(<< <<"useZero", TOP, z>> >>), Stores(<< <<"own", <<"V", TOP>>, "pos">> >>)>>
    BY <1>14
  <2>2. Start_VSI(TOP, build = "common") = Start_VSI(TOP, z)
    BY <1>14
  <2> HIDE DEF op3
  <2> QED BY <1>19, <1>22, <2>1, <2>2
<1> HIDE DEF op1, op2, op3
<1>27. Leads(build, Init_VSI(FALSE) \o op2, s1, s3)
  BY <1>6, <1>9, LeadsJoin
<1>28. Leads(build, (Init_VSI(FALSE) \o op2) \o Start_VSI(BOT, FALSE), s1, s4)
  BY <1>11, <1>27, LeadsJoin
<1>29. Leads(build, ((Init_VSI(FALSE) \o op2) \o Start_VSI(BOT, FALSE)) \o op3, s1, s6)
  BY <1>26, <1>28, LeadsJoin
<1>30. Leads(build, (((Init_VSI(FALSE) \o op2) \o Start_VSI(BOT, FALSE)) \o op3) \o Start_VSI(TOP, build = "common"), s1, s7)
  BY <1>26, <1>29, LeadsJoin
<1>31. Leads(build, AllPositions \o ((((Init_VSI(FALSE) \o op2) \o Start_VSI(BOT, FALSE)) \o op3) \o Start_VSI(TOP, build = "common")), c, s7)
  BY <1>3, <1>30, LeadsJoin
<1>32. Leads(build, PosContTry1_StartCommand(f), c, s7)
  <2> DEFINE rest == AllPositions \o ((((Init_VSI(FALSE) \o op2) \o Start_VSI(BOT, FALSE)) \o op3) \o Start_VSI(TOP, build = "common"))
  <2>1. Leads(build, rest, c, s7) /\ PosContTry1_StartCommand(f) = op1 \o rest
    BY <1>25, <1>31
  <2> HIDE DEF rest
  <2>2. Leads(build, op1 \o rest, c, s7)
    BY <1>2, <2>1, LeadsJoin
  <2> QED BY <2>1, <2>2
<1> QED BY <1>23, <1>24, <1>32

(* The start of the torque inverter.                                       *)
LEMMA StartTorque ==
  ASSUME build \in Build, build # "vsi", NEW c, Good(build, c), Busy(build, c, 2), InList(c, Used(TORQUE)) = {},
         build \in {"isolated", "common"} => c.ready[<<"V", TORQUE>>],
         mem.useZero[TORQUE] = FALSE,
         \A n \in Item : mem.reg[n] <=> n \in Range(c.list)
  PROVE  \E t : Leads(build, Init_TorqueVSI, c, t) /\ Kept(c, t) /\ Serving(build, t, 2)
<1>1. TORQUE \in Inv /\ BOT # TORQUE /\ TOP # TORQUE /\ <<"V", TORQUE>> \in Unit /\ <<"V", TORQUE>>[1] = "V"
  <2>1. TORQUE \in Inv /\ BOT # TORQUE /\ TOP # TORQUE
    BY Numbers
  <2>2. <<"V", TORQUE>> \in Unit
    BY <2>1, Items
  <2>3. <<"V", TORQUE>>[1] = "V"
    OBVIOUS
  <2> QED BY <2>1, <2>2, <2>3
<1> DEFINE op1 == IF build = "bridge" THEN Init_VSI(FALSE) ELSE << >>
           sent == Stores(<< <<"sent", "torque", 0>> >>)
           own == Stores(<< <<"own", <<"V", TORQUE>>, "torque">> >>)
           op2 == <<sent, own>>
<1>2. c.asked[2] = "busy"
  BY DEF Busy
<1>3. PICK s1 : /\ Leads(build, op1, c, s1) /\ Good(build, s1) /\ Kept(c, s1) /\ s1.list = c.list
                /\ s1.ready[<<"V", TORQUE>>]
  <2>1. CASE build = "bridge"
    <3>1. \A i \in Inv : MayZero(build, c, i, FALSE) /\ MayOwn(build, c, <<"V", i>>)
      BY <1>2, <2>1 DEF MayZero, MayOwn
    <3>2. PICK t : /\ Leads(build, Init_VSI(FALSE), c, t) /\ Good(build, t) /\ Kept(c, t) /\ Readier(c, t) /\ t.list = c.list
                   /\ \A i \in Inv : t.ready[<<"V", i>>]
      BY <3>1, InvertersSet
    <3> QED BY <1>1, <2>1, <3>2
  <2>2. CASE build # "bridge"
    <3>1. c.ready[<<"V", TORQUE>>]
      BY <2>2 DEF Build
    <3>2. Leads(build, << >>, c, c)
      BY LeadsNone
    <3> QED BY <2>2, <3>1, <3>2 DEF Kept
  <2> QED BY <2>1, <2>2
<1>4. MayOwn(build, s1, <<"V", TORQUE>>)
  BY <1>2, <1>3 DEF MayOwn, Kept
<1>5. Leads(build, <<sent>>, s1, s1)
  BY <1>3, SentStored
<1>6. PICK s2 : /\ Leads(build, <<own>>, s1, s2) /\ Good(build, s2)
                /\ s2.list = s1.list /\ s2.ready = s1.ready /\ s2.useZero = s1.useZero /\ Kept(s1, s2)
                /\ \A v \in Unit : s2.own[v] = IF v = <<"V", TORQUE>> THEN "torque" ELSE s1.own[v]
  BY <1>1, <1>3, <1>4, Owning, OwnStored
<1>7. Leads(build, op2, s1, s2)
  <2> HIDE DEF sent, own
  <2> QED BY <1>5, <1>6, LeadsTwo
<1>8. /\ Busy(build, s2, 2) /\ Kept(c, s2) /\ s2.own[<<"V", TORQUE>>] = "torque" /\ s2.ready[<<"V", TORQUE>>]
      /\ s2.list = c.list
  BY <1>1, <1>3, <1>6 DEF Busy, Kept
<1>9. \A S : InList(s2, S) = InList(c, S)
  BY <1>8, SameList
<1>10. PICK s3 : /\ Leads(build, Start_VSI(TORQUE, mem.useZero[TORQUE]), s2, s3)
                 /\ Same(s2, s3) /\ Range(s3.list) = Range(s2.list) \cup LoopsIn(build, TORQUE)
  <2>1. PICK z \in BOOLEAN : z = FALSE
    OBVIOUS
  <2>2. Startable(build, s2, 2, TORQUE, z)
    BY <1>1, <1>8, <1>9, <2>1 DEF Startable
  <2>3. \A n \in Used(TORQUE) : mem.reg[n] <=> n \in Range(s2.list)
    BY <1>1, <1>9, SameFlags
  <2>4. PICK t : /\ Leads(build, Start_VSI(TORQUE, z), s2, t)
                 /\ Same(s2, t) /\ Range(t.list) = Range(s2.list) \cup LoopsIn(build, TORQUE)
    BY <1>1, <1>6, <1>8, <2>2, <2>3, StartsLoops
  <2>5. z = mem.useZero[TORQUE]
    BY <2>1
  <2> QED BY <2>4, <2>5
<1>11. Good(build, s3) /\ Kept(c, s3) /\ s3.own[<<"V", TORQUE>>] = "torque"
  BY <1>8, <1>10, LeadsGood DEF Same, Kept
<1>12. Serving(build, s3, 2)
  <2>1. InList(s3, Used(TORQUE)) = InList(s2, Used(TORQUE)) \cup LoopsIn(build, TORQUE)
    BY <1>1, <1>10, LoopsUp
  <2>2. InList(s3, Used(TORQUE)) = LoopsIn(build, TORQUE)
    BY <1>9, <2>1
  <2>3. s3.useZero[TORQUE] = FALSE
    <3>1. ~s3.useZero[TORQUE] /\ s3.useZero[TORQUE] \in BOOLEAN
      BY <1>1, <1>11 DEF Good, ZeroGood, ListGood, Roster
    <3> QED BY <3>1
  <2>4. Bridged(build, s3, TORQUE, "torque")
    BY <1>1, <1>11, <2>2, <2>3 DEF Bridged
  <2> QED BY <2>4 DEF Serving
<1>13. Init_TorqueVSI = (op1 \o op2) \o Start_VSI(TORQUE, mem.useZero[TORQUE])
  BY DEF Init_TorqueVSI
<1> HIDE DEF op1, op2
<1>14. Leads(build, op1 \o op2, c, s2)
  BY <1>3, <1>7, LeadsJoin
<1>15. Leads(build, (op1 \o op2) \o Start_VSI(TORQUE, mem.useZero[TORQUE]), c, s3)
  BY <1>10, <1>14, LeadsJoin
<1> QED BY <1>11, <1>12, <1>13, <1>15

(* Init_HB of all bridges: those before k are ready.                       *)
HbSetAt(c, k) ==
  {s \in Path(build, c) : s.list = c.list /\ \A h \in 0 .. k - 1 : s.ready[<<"H", h>>]}

LEMMA BridgesSet ==
  ASSUME NEW c, build = "bridge", Good(build, c), Busy(build, c, 1), c.asked[2] # "on"
  PROVE  \E t : /\ Leads(build, Init_HB, c, t) /\ Good(build, t) /\ Kept(c, t) /\ t.list = c.list
                /\ \A h \in Bridge : t.ready[<<"H", h>>]
<1> DEFINE num == NUM_HBRIDGE
           part(h) == <<Stores(<< <<"own", <<"H", h>>, "example">>, <<"ready", <<"H", h>>, TRUE>> >>)>>
           A == [k \in 0 .. num |-> HbSetAt(c, k)]
           seqs == [n \in 1 .. num |-> part(n - 1)]
<1>1. num \in Nat /\ num # 0 /\ Len(seqs) = num /\ build \in Build
  BY Numbers DEF Build
<1>2. ASSUME NEW k \in 1 .. num PROVE Reaches(build, part(k - 1), HbSetAt(c, k - 1), HbSetAt(c, k))
  <2> DEFINE i == k - 1
  <2>1. /\ i \in Bridge
        /\ \A j \in 0 .. k - 1 : j = i \/ j \in 0 .. (k - 1) - 1
        /\ 0 .. k - 1 \subseteq Bridge
    BY <1>1 DEF Bridge
  <2> SUFFICES ASSUME NEW s \in HbSetAt(c, i) PROVE \E t \in HbSetAt(c, k) : Leads(build, part(i), s, t)
    BY DEF Reaches
  <2>2. /\ Good(build, s) /\ s \in Path(build, c) /\ Kept(c, s) /\ s.list = c.list
        /\ \A j \in 0 .. (k - 1) - 1 : s.ready[<<"H", j>>]
    BY DEF Path, HbSetAt
  <2> HIDE DEF i
  <2>3. MayOwn(build, s, <<"H", i>>)
    BY <2>2 DEF MayOwn, Kept, Busy
  <2>31. \A j \in Bridge : <<"H", j>> \in Unit
    BY Items
  <2>4. PICK t : /\ Leads(build, part(i), s, t)
                 /\ Good(build, t) /\ t.list = s.list /\ t.useZero = s.useZero /\ Kept(s, t) /\ Readier(s, t) /\ t.ready[<<"H", i>>]
    BY <1>1, <2>1, <2>2, <2>3, <2>31, ContextSet
  <2>5. t \in Path(build, c) /\ t.list = c.list
    BY <2>2, <2>4, OnPath
  <2>7. \A j \in 0 .. k - 1 : t.ready[<<"H", j>>]
    BY <2>1, <2>2, <2>4, <2>31 DEF Readier
  <2>8. t \in HbSetAt(c, k)
    BY <2>5, <2>7 DEF HbSetAt
  <2> QED BY <2>4, <2>8
<1>3. Reaches(build, FlattenSeq(seqs), A[0], A[num])
  <2>1. \A k \in 1 .. num : Reaches(build, seqs[k], A[k - 1], A[k])
    <3> SUFFICES ASSUME NEW k \in 1 .. num PROVE Reaches(build, seqs[k], A[k - 1], A[k])
      OBVIOUS
    <3>1. k - 1 \in 0 .. num /\ k \in 0 .. num
      BY <1>1
    <3>2. seqs[k] = part(k - 1) /\ A[k - 1] = HbSetAt(c, k - 1) /\ A[k] = HbSetAt(c, k)
      BY <3>1
    <3> HIDE DEF A, seqs, num, part
    <3> QED BY <1>2, <3>2
  <2> HIDE DEF A, seqs, num
  <2> QED BY <1>1, <2>1, ReachesFlat
<1>4. c \in HbSetAt(c, 0)
  <2>1. c \in Path(build, c)
    BY DEF Path, Kept, Good, ListGood
  <2>2. 0 .. 0 - 1 = {}
    OBVIOUS
  <2> QED BY <2>1, <2>2 DEF HbSetAt
<1>5. Init_HB = FlattenSeq(seqs)
  BY DEF Init_HB
<1>6. PICK t \in HbSetAt(c, num) : Leads(build, Init_HB, c, t)
  <2>1. A[0] = HbSetAt(c, 0) /\ A[num] = HbSetAt(c, num)
    BY <1>1
  <2> QED BY <1>3, <1>4, <1>5, <2>1 DEF Reaches
<1>7. Bridge = 0 .. num - 1
  BY DEF Bridge
<1> QED BY <1>6, <1>7 DEF HbSetAt, Path

(* The bridges before k are there; of the others the list holds those that it held. *)
HbAt(c, k) ==
  {s \in Path(build, c) : /\ \A h \in Bridge : s.ready[<<"H", h>>]
                          /\ Position \subseteq Range(s.list)
                          /\ \A h \in 0 .. k - 1 : <<"H", h>> \in Range(s.list) /\ s.own[<<"H", h>>] = "pos"
                          /\ \A h \in k .. NUM_HBRIDGE - 1 : <<"H", h>> \in Range(s.list) <=> <<"H", h>> \in Range(c.list)}

(* One bridge gets its callbacks and is registered.                        *)
BridgeOn(h) == <<Stores(<< <<"own", <<"H", h>>, "pos">> >>)>> \o Start_HB(h + 1)

LEMMA BridgeStarted ==
  ASSUME NEW c, build = "bridge", Good(build, c), Busy(build, c, 1), c.asked[2] # "on",
         \A h \in Bridge : c.ready[<<"H", h>>], NEW i \in Bridge,
         mem.reg[<<"H", i>>] <=> <<"H", i>> \in Range(c.list)
  PROVE  \E t : /\ Leads(build, BridgeOn(i), c, t) /\ Good(build, t) /\ Kept(c, t) /\ t.ready = c.ready
                /\ Range(t.list) = Range(c.list) \cup {<<"H", i>>}
                /\ t.own[<<"H", i>>] = "pos"
                /\ \A j \in Bridge : j # i => t.own[<<"H", j>>] = c.own[<<"H", j>>]
<1> DEFINE u == <<"H", i>>
<1>1. build \in Build /\ u \in Unit /\ \A j \in Bridge : <<"H", j>> \in Unit /\ (j # i => <<"H", j>> # u)
  BY Items DEF Build
<1>2. MayOwn(build, c, u)
  BY DEF MayOwn, Busy
<1>3. PICK s : /\ Leads(build, <<Stores(<< <<"own", u, "pos">> >>)>>, c, s) /\ Good(build, s)
               /\ s.list = c.list /\ s.ready = c.ready /\ s.useZero = c.useZero /\ Kept(c, s)
               /\ \A v \in Unit : s.own[v] = IF v = u THEN "pos" ELSE c.own[v]
  BY <1>1, <1>2, Owning, OwnStored
<1>4. /\ s.own[u] = "pos" /\ Busy(build, s, 1)
      /\ \A j \in Bridge : j # i => s.own[<<"H", j>>] = c.own[<<"H", j>>]
  BY <1>1, <1>3 DEF Busy, Kept
<1>5. i + 1 - 1 = i /\ (i + 1) - 1 = i
  BY Numbers
<1>6. CASE u \in Range(c.list)
  <2>1. Start_HB(i + 1) = << >>
    BY <1>5, <1>6 DEF Start_HB
  <2>2. Leads(build, << >>, s, s)
    BY <1>3, LeadsNone
  <2>3. Leads(build, BridgeOn(i), c, s)
    BY <1>3, <2>1, <2>2, LeadsJoin DEF BridgeOn
  <2> QED BY <1>3, <1>4, <1>6, <2>3
<1>7. CASE u \notin Range(c.list)
  <2>1. Start_HB(i + 1) = <<Register(u)>>
    BY <1>5, <1>7 DEF Start_HB
  <2>2. PICK t : /\ Leads(build, <<Register(u)>>, s, t) /\ Good(build, t)
                 /\ Range(t.list) = Range(s.list) \cup {u} /\ Same(s, t)
    BY <1>1, <1>3, <1>4, <1>7, BridgeAdded
  <2>3. Leads(build, BridgeOn(i), c, t)
    BY <1>3, <2>1, <2>2, LeadsJoin DEF BridgeOn
  <2> QED BY <1>3, <1>4, <2>2, <2>3 DEF Same, Kept
<1> QED BY <1>6, <1>7

(* All bridges, one after the other.                                       *)
BridgesOn == FlattenSeq([n \in 1 .. NUM_HBRIDGE |-> <<Stores(<< <<"own", <<"H", n - 1>>, "pos">> >>)>> \o Start_HB(n)])

LEMMA BridgesStarted ==
  ASSUME NEW c, build = "bridge", Good(build, c), Busy(build, c, 1), c.asked[2] # "on",
         \A h \in Bridge : c.ready[<<"H", h>>], Position \subseteq Range(c.list),
         \A h \in Bridge : mem.reg[<<"H", h>>] <=> <<"H", h>> \in Range(c.list)
  PROVE  \E t : /\ Leads(build, BridgesOn, c, t) /\ Kept(c, t) /\ Serving(build, t, 1)
<1> DEFINE num == NUM_HBRIDGE
           A == [k \in 0 .. num |-> HbAt(c, k)]
           seqs == [n \in 1 .. num |-> BridgeOn(n - 1)]
<1>1. num \in Nat /\ num # 0 /\ Len(seqs) = num
  BY Numbers
<1>2. ASSUME NEW k \in 1 .. num PROVE Reaches(build, BridgeOn(k - 1), HbAt(c, k - 1), HbAt(c, k))
  <2> DEFINE i == k - 1
  <2>1. /\ i \in Bridge /\ i \in (k - 1) .. num - 1
        /\ \A j \in 0 .. k - 1 : j = i \/ (j \in 0 .. (k - 1) - 1 /\ j # i)
        /\ \A j \in k .. num - 1 : j # i /\ j \in (k - 1) .. num - 1
        /\ 0 .. k - 1 \subseteq Bridge
        /\ k .. num - 1 \subseteq Bridge
    BY <1>1 DEF Bridge
  <2> SUFFICES ASSUME NEW s \in HbAt(c, i) PROVE \E t \in HbAt(c, k) : Leads(build, BridgeOn(i), s, t)
    BY DEF Reaches
  <2>2. /\ Good(build, s) /\ s \in Path(build, c) /\ Kept(c, s)
        /\ \A h \in Bridge : s.ready[<<"H", h>>]
        /\ Position \subseteq Range(s.list)
        /\ \A h \in 0 .. (k - 1) - 1 : <<"H", h>> \in Range(s.list) /\ s.own[<<"H", h>>] = "pos"
        /\ \A h \in (k - 1) .. num - 1 : <<"H", h>> \in Range(s.list) <=> <<"H", h>> \in Range(c.list)
    BY DEF Path, HbAt
  <2> HIDE DEF i
  <2>3. Busy(build, s, 1) /\ s.asked[2] # "on"
    BY <2>2 DEF Kept, Busy
  <2>4. mem.reg[<<"H", i>>] <=> <<"H", i>> \in Range(s.list)
    BY <2>1, <2>2
  <2>5. PICK t : /\ Leads(build, BridgeOn(i), s, t) /\ Good(build, t) /\ Kept(s, t) /\ t.ready = s.ready
                 /\ Range(t.list) = Range(s.list) \cup {<<"H", i>>}
                 /\ t.own[<<"H", i>>] = "pos"
                 /\ \A j \in Bridge : j # i => t.own[<<"H", j>>] = s.own[<<"H", j>>]
    BY <2>1, <2>2, <2>3, <2>4, BridgeStarted
  <2>6. t \in Path(build, c)
    BY <2>2, <2>5, OnPath
  <2>7. ASSUME NEW h \in 0 .. k - 1 PROVE <<"H", h>> \in Range(t.list) /\ t.own[<<"H", h>>] = "pos"
    <3>1. CASE h = i
      BY <2>5, <3>1
    <3>2. CASE h # i
      <4>1. h \in 0 .. (k - 1) - 1 /\ h \in Bridge
        BY <2>1, <3>2
      <4> QED BY <2>2, <2>5, <3>2, <4>1
    <3> QED BY <3>1, <3>2
  <2>8. ASSUME NEW h \in k .. num - 1 PROVE <<"H", h>> \in Range(t.list) <=> <<"H", h>> \in Range(c.list)
    <3>1. h # i /\ h \in (k - 1) .. num - 1
      BY <2>1
    <3>2. <<"H", h>> # <<"H", i>>
      BY <3>1
    <3> QED BY <2>2, <2>5, <3>1, <3>2
  <2>9. t \in HbAt(c, k)
    BY <2>2, <2>5, <2>6, <2>7, <2>8 DEF HbAt
  <2> QED BY <2>5, <2>9
<1>3. Reaches(build, FlattenSeq(seqs), A[0], A[num])
  <2>1. \A k \in 1 .. num : Reaches(build, seqs[k], A[k - 1], A[k])
    <3> SUFFICES ASSUME NEW k \in 1 .. num PROVE Reaches(build, seqs[k], A[k - 1], A[k])
      OBVIOUS
    <3>1. k - 1 \in 0 .. num /\ k \in 0 .. num
      BY <1>1
    <3>2. seqs[k] = BridgeOn(k - 1) /\ A[k - 1] = HbAt(c, k - 1) /\ A[k] = HbAt(c, k)
      BY <3>1
    <3> HIDE DEF A, seqs, num
    <3> QED BY <1>2, <3>2
  <2> HIDE DEF A, seqs, num
  <2> QED BY <1>1, <2>1, ReachesFlat
<1>4. c \in HbAt(c, 0)
  <2>1. c \in Path(build, c)
    BY DEF Path, Kept, Good, ListGood
  <2>2. 0 .. 0 - 1 = {}
    OBVIOUS
  <2> QED BY <2>1, <2>2 DEF HbAt
<1>5. BridgesOn = FlattenSeq(seqs)
  <2>1. \A n \in 1 .. num : n - 1 + 1 = n
    OBVIOUS
  <2>2. seqs = [n \in 1 .. num |-> <<Stores(<< <<"own", <<"H", n - 1>>, "pos">> >>)>> \o Start_HB(n)]
    BY <2>1 DEF BridgeOn
  <2> QED BY <2>2 DEF BridgesOn
<1>6. PICK t \in HbAt(c, num) : Leads(build, BridgesOn, c, t)
  <2>1. A[0] = HbAt(c, 0) /\ A[num] = HbAt(c, num)
    BY <1>1
  <2> QED BY <1>3, <1>4, <1>5, <2>1 DEF Reaches
<1>7. Bridge = 0 .. num - 1
  BY DEF Bridge
<1>8. Serving(build, t, 1) /\ Kept(c, t)
  BY <1>6, <1>7 DEF HbAt, Path, Serving
<1> QED BY <1>6, <1>8

(* The start of the position controllers with H bridges.                   *)
LEMMA StartBridges ==
  ASSUME build = "bridge", NEW c, Good(build, c), Busy(build, c, 1), c.asked[2] # "on",
         InList(c, Position) = {},
         \A n \in Item : mem.reg[n] <=> n \in Range(c.list), NEW f \in BOOLEAN
  PROVE  \E t : /\ Leads(build, PosContTry1_StartCommand(f), c, t) /\ Kept(c, t) /\ Serving(build, t, 1)
<1>1. build \in Build /\ build # "vsi"
  BY DEF Build
<1> DEFINE op1 == <<Stores(<< <<"force", "xy", f>> >>)>>
<1>2. Leads(build, op1, c, c)
  BY <1>1, ForceStored
<1>3. PICK s1 : /\ Leads(build, AllPositions, c, s1) /\ Good(build, s1) /\ Kept(c, s1) /\ Readier(c, s1)
                /\ s1.own = c.own /\ s1.useZero = c.useZero
                /\ Range(s1.list) = Range(c.list) \cup Position
  BY <1>1, PositionsStarted
<1>4. Busy(build, s1, 1) /\ s1.asked[2] # "on"
  BY <1>3 DEF Busy, Kept
<1>5. PICK s2 : /\ Leads(build, Init_HB, s1, s2) /\ Good(build, s2) /\ Kept(s1, s2) /\ s2.list = s1.list
                /\ \A h \in Bridge : s2.ready[<<"H", h>>]
  BY <1>3, <1>4, BridgesSet
<1>6. Busy(build, s2, 1) /\ s2.asked[2] # "on" /\ Position \subseteq Range(s2.list)
  BY <1>3, <1>4, <1>5 DEF Busy, Kept
<1>7. \A h \in Bridge : mem.reg[<<"H", h>>] <=> <<"H", h>> \in Range(s2.list)
  <2> SUFFICES ASSUME NEW h \in Bridge PROVE mem.reg[<<"H", h>>] <=> <<"H", h>> \in Range(s2.list)
    OBVIOUS
  <2>1. <<"H", h>> \in Item /\ <<"H", h>>[1] = "H"
    BY Items
  <2>2. <<"H", h>> \notin Position
    BY <2>1, Items
  <2> QED BY <1>3, <1>5, <2>1, <2>2
<1>8. PICK s3 : /\ Leads(build, BridgesOn, s2, s3) /\ Kept(s2, s3) /\ Serving(build, s3, 1)
  BY <1>5, <1>6, <1>7, BridgesStarted
<1>9. Kept(c, s3)
  BY <1>3, <1>5, <1>8 DEF Kept
<1>10. PosContTry1_StartCommand(f) = op1 \o (AllPositions \o (Init_HB \o BridgesOn))
  BY DEF PosContTry1_StartCommand, Init_PosContTry1, AllPositions, BridgesOn
<1> HIDE DEF op1
<1> DEFINE r1 == Init_HB \o BridgesOn
           r2 == AllPositions \o r1
<1>11. Leads(build, r1, s1, s3)
  BY <1>5, <1>8, LeadsJoin
<1>12. PosContTry1_StartCommand(f) = op1 \o r2
  BY <1>10
<1> HIDE DEF r1
<1>13. Leads(build, r2, c, s3)
  BY <1>3, <1>11, LeadsJoin
<1> HIDE DEF r2
<1>14. Leads(build, op1 \o r2, c, s3)
  BY <1>2, <1>13, LeadsJoin
<1> QED BY <1>8, <1>9, <1>12, <1>14

(* Three operations one after the other.                                   *)
LEMMA LeadsThree ==
  ASSUME NEW b, NEW p, NEW q, NEW o, NEW s, NEW r1, NEW r2, NEW t,
         Leads(b, <<p>>, s, r1), Leads(b, <<q>>, r1, r2), Leads(b, <<o>>, r2, t)
  PROVE  Leads(b, <<p, q, o>>, s, t)
<1>1. Leads(b, <<p, q>>, s, r2)
  BY LeadsTwo
<1>2. Leads(b, <<p, q>> \o <<o>>, s, t)
  BY <1>1, LeadsJoin
<1>3. <<p, q>> \o <<o>> = <<p, q, o>>
  <2> DEFINE S == {p, q, o}
             u == <<p, q>>
             v == <<o>>
             w == <<p, q, o>>
  <2>1. u \in Seq(S) /\ v \in Seq(S) /\ w \in Seq(S) /\ Len(u) = 2 /\ Len(v) = 1 /\ Len(w) = 3
        /\ u[1] = p /\ u[2] = q /\ v[1] = o /\ w[1] = p /\ w[2] = q /\ w[3] = o
    OBVIOUS
  <2> HIDE DEF S, u, v, w
  <2> DEFINE x == u \o v
  <2>2. x \in Seq(S) /\ Len(x) = 3 /\ \A i \in 1 .. 3 : x[i] = IF i <= 2 THEN u[i] ELSE v[i - 2]
    <3>1. /\ x \in Seq(S) /\ Len(x) = Len(u) + Len(v)
          /\ \A i \in 1 .. Len(u) + Len(v) : x[i] = IF i <= Len(u) THEN u[i] ELSE v[i - Len(u)]
      <4>1. u \in Seq(S) /\ v \in Seq(S)
        BY <2>1
      <4> QED BY <4>1, ConcatProperties
    <3> HIDE DEF x
    <3> QED BY <2>1, <3>1
  <2> HIDE DEF x
  <2>3. x[1] = p /\ x[2] = q /\ x[3] = o
    BY <2>1, <2>2
  <2>4. \A i \in 1 .. 3 : x[i] = w[i]
    BY <2>1, <2>3
  <2>5. x = w
    BY <2>1, <2>2, <2>4, SeqEqual
  <2> QED BY <2>5 DEF x, u, v, w
<1> QED BY <1>2, <1>3

(* What a stop leaves: a part of the list. *)
Fewer(s, t) == Same(s, t) /\ Range(t.list) \subseteq Range(s.list)

(* An item that application a may take out; a stop goes on as it began.    *)
Its(b, a, n) == IF a = 2 THEN n \in Used(TORQUE) ELSE b = "vsi" \/ n \notin Used(TORQUE)

LEMMA FewerMore ==
  ASSUME NEW s, NEW r, NEW t, Fewer(s, r), Fewer(r, t) PROVE Fewer(s, t)
BY DEF Fewer, Same

(* A command that stops application a is in progress; m was tested and n   *)
(* taken out.                                                              *)
Stopping(b, s, a) == Busy(b, s, a) /\ s.stopped[a]
Unlisted(s, t, m, n) == Range(t.list) = IF m \in Range(s.list) THEN Range(s.list) \ {n} ELSE Range(s.list)

(* One item is taken out, and three are.                                   *)
LEMMA OneStopped ==
  ASSUME NEW b \in Build, NEW s, Good(b, s), NEW a, Stopping(b, s, a),
         NEW m \in Item, NEW n \in Item, Its(b, a, n)
  PROVE  \E t : /\ Leads(b, <<Unregister(m, n)>>, s, t) /\ Good(b, t) /\ Stopping(b, t, a) /\ Fewer(s, t)
                /\ Unlisted(s, t, m, n)
<1>1. IF a = 2 THEN n \in Used(TORQUE) ELSE b = "vsi" \/ n \notin Used(TORQUE)
  BY DEF Its
<1>2. PICK t : /\ Leads(b, <<Unregister(m, n)>>, s, t) /\ Same(s, t)
               /\ Unlisted(s, t, m, n)
  BY <1>1, Unregistered DEF Stopping, Unlisted
<1>3. Fewer(s, t)
  BY <1>2 DEF Fewer, Unlisted
<1>4. Stopping(b, t, a)
  BY <1>2 DEF Same, Busy, Stopping
<1>5. Good(b, t)
  BY <1>2, LeadsGood
<1> QED BY <1>2, <1>3, <1>4, <1>5

Emptied(s, t, m1, n1, m2, n2, m3, n3) ==
  m1 = n1 /\ m2 = n2 /\ m3 = n3 => Range(t.list) = Range(s.list) \ {n1, n2, n3}
LEMMA ThreeStopped ==
  ASSUME NEW b \in Build, NEW s, Good(b, s), NEW a, Stopping(b, s, a),
         NEW m1 \in Item, NEW n1 \in Item, Its(b, a, n1), NEW m2 \in Item, NEW n2 \in Item, Its(b, a, n2),
         NEW m3 \in Item, NEW n3 \in Item, Its(b, a, n3)
  PROVE  \E t : /\ Leads(b, <<Unregister(m1, n1), Unregister(m2, n2), Unregister(m3, n3)>>, s, t)
                /\ Good(b, t) /\ Stopping(b, t, a) /\ Fewer(s, t)
                /\ Emptied(s, t, m1, n1, m2, n2, m3, n3)
<1>1. PICK r1 : /\ Leads(b, <<Unregister(m1, n1)>>, s, r1) /\ Good(b, r1) /\ Stopping(b, r1, a) /\ Fewer(s, r1)
                /\ Unlisted(s, r1, m1, n1)
  BY OneStopped
<1>2. PICK r2 : /\ Leads(b, <<Unregister(m2, n2)>>, r1, r2) /\ Good(b, r2) /\ Stopping(b, r2, a) /\ Fewer(r1, r2)
                /\ Unlisted(r1, r2, m2, n2)
  BY <1>1, OneStopped
<1>3. PICK t : /\ Leads(b, <<Unregister(m3, n3)>>, r2, t) /\ Good(b, t) /\ Stopping(b, t, a) /\ Fewer(r2, t)
               /\ Unlisted(r2, t, m3, n3)
  BY <1>2, OneStopped
<1>4. Leads(b, <<Unregister(m1, n1), Unregister(m2, n2), Unregister(m3, n3)>>, s, t)
  BY <1>1, <1>2, <1>3, LeadsThree
<1>5. Fewer(s, t)
  BY <1>1, <1>2, <1>3, FewerMore
<1> DEFINE R == Range(s.list)
           R1 == Range(r1.list)
           R2 == Range(r2.list)
           R3 == Range(t.list)
<1>6. /\ R1 = IF m1 \in R THEN R \ {n1} ELSE R
      /\ R2 = IF m2 \in R1 THEN R1 \ {n2} ELSE R1
      /\ R3 = IF m3 \in R2 THEN R2 \ {n3} ELSE R2
  BY <1>1, <1>2, <1>3 DEF Unlisted
<1> HIDE DEF R, R1, R2, R3
<1>7. ((m1 = n1 /\ m2 = n2 /\ m3 = n3) => R3 = R \ {n1, n2, n3})
  BY <1>6
<1> QED BY <1>3, <1>4, <1>5, <1>7 DEF R, R3, Emptied

(* What Stop_VSI tests and takes out are items, whatever the number.       *)
LEMMA VsiItems ==
  ASSUME NEW i \in Inv
  PROVE  /\ VsiItem(3*i) = <<"d", i>> /\ VsiItem(3*i + 1) = <<"q", i>> /\ VsiItem(3*i + 2) = <<"zero", i>>
         /\ VsiItem(2*i) \in Item /\ VsiItem(2*i + 1) \in Item
<1>1. i \in Nat /\ NUM_VSI \in Nat /\ i < NUM_VSI
  BY Numbers DEF Inv
<1>2. ASSUME NEW k \in Nat, k <= 3*i + 2 PROVE VsiItem(k) \in Item
  <2> DEFINE e == k \div 3
             r == k % 3
             names == <<"d", "q", "zero">>
  <2>1. r \in 0 .. 2 /\ e \in Int /\ k = 3 * e + r
    OBVIOUS
  <2> HIDE DEF e, r
  <2>2. e \in 0 .. NUM_VSI - 1
    BY <1>1, <1>2, <2>1
  <2>3. e \in Inv
    BY <2>2 DEF Inv
  <2>4. names[r + 1] \in {"d", "q", "zero"}
    BY <2>1
  <2> HIDE DEF names
  <2>5. <<names[r + 1], e>> \in {"d", "q", "zero"} \X Inv
    BY <2>3, <2>4
  <2>6. VsiItem(k) = <<names[r + 1], e>>
    BY DEF VsiItem, names, r, e
  <2> QED BY <2>5, <2>6 DEF Item
<1>3. 2*i \in Nat /\ 2*i + 1 \in Nat /\ 2*i <= 3*i + 2 /\ 2*i + 1 <= 3*i + 2
  BY <1>1
<1> QED BY <1>1, <1>2, <1>3, VsiItemIs

(* The states that a stop passes.                                          *)
Below(b, c) == {s \in Path(b, c) : Fewer(c, s)}

LEMMA BelowFewer ==
  ASSUME NEW b, NEW c, NEW s \in Below(b, c), NEW t, Good(b, t), Fewer(s, t) PROVE t \in Below(b, c)
<1>1. Fewer(c, t) /\ Kept(s, t)
  BY FewerMore DEF Below, Fewer, Same, Kept
<1> QED BY <1>1, OnPath DEF Below

LEMMA BelowFirst == ASSUME NEW b, NEW c, Good(b, c) PROVE c \in Below(b, c)
BY DEF Below, Path, Kept, Fewer, Same, Good, ListGood

LEMMA BelowStops ==
  ASSUME NEW b, NEW c, NEW a, Stopping(b, c, a), NEW s \in Below(b, c)
  PROVE  Good(b, s) /\ Stopping(b, s, a) /\ Kept(c, s) /\ Fewer(c, s)
BY DEF Below, Path, Kept, Stopping, Busy

(* Stopping inverters by the calls of Stop_VSI: a part of what was there is left. *)
LEMMA VsiStopped ==
  ASSUME build \in Build, NEW c, Good(build, c), NEW a, Stopping(build, c, a), NEW v \in Int,
         a = 2 => v = TORQUE + 1, a = 1 => build = "vsi"
  PROVE  Reaches(build, Stop_VSI(v), Below(build, c), Below(build, c))
<1> SUFFICES ASSUME NEW s \in Below(build, c) PROVE \E t \in Below(build, c) : Leads(build, Stop_VSI(v), s, t)
  BY DEF Reaches
<1>1. Good(build, s) /\ Stopping(build, s, a)
  BY BelowStops
<1> DEFINE i == v - 1
<1>2. CASE i \notin Inv
  <2>1. Stop_VSI(v) = << >>
    BY <1>2 DEF Stop_VSI
  <2>2. Leads(build, << >>, s, s)
    BY <1>1, LeadsNone
  <2> QED BY <2>1, <2>2
<1>3. CASE i \in Inv
  <2> DEFINE m1 == VsiItem(2*i)
             m2 == VsiItem(2*i + 1)
             n1 == VsiItem(3*i)
             n2 == VsiItem(3*i + 1)
             n3 == VsiItem(3*i + 2)
  <2>1. m1 \in Item /\ m2 \in Item /\ n1 = <<"d", i>> /\ n2 = <<"q", i>> /\ n3 = <<"zero", i>>
    BY <1>3, VsiItems
  <2>2. n1 \in Item /\ n2 \in Item /\ n3 \in Item
    BY <1>3, <2>1, Items
  <2>3. Its(build, a, n1) /\ Its(build, a, n2) /\ Its(build, a, n3)
    <3>1. CASE a = 2
      <4>1. i = TORQUE
        BY <3>1, Numbers
      <4> QED BY <2>1, <3>1, <4>1 DEF Its, Used
    <3>2. CASE a = 1
      BY <3>2 DEF Its
    <3>3. a = 1 \/ a = 2
      BY DEF Stopping, Busy
    <3> QED BY <3>1, <3>2, <3>3
  <2>4. Stop_VSI(v) = <<Unregister(m1, n1), Unregister(m2, n2), Unregister(n3, n3)>>
    BY <1>3 DEF Stop_VSI
  <2> HIDE DEF i, m1, m2, n1, n2, n3
  <2>5. PICK t : /\ Leads(build, <<Unregister(m1, n1), Unregister(m2, n2), Unregister(n3, n3)>>, s, t)
                 /\ Good(build, t) /\ Fewer(s, t)
    BY <1>1, <2>1, <2>2, <2>3, ThreeStopped
  <2>6. t \in Below(build, c)
    BY <2>5, BelowFewer
  <2> QED BY <2>4, <2>5, <2>6
<1> QED BY <1>2, <1>3

(* The stops of the torque inverter and of the build with inverters alone. *)
LEMMA StopTorque ==
  ASSUME build \in Build, NEW c, Good(build, c), Stopping(build, c, 2)
  PROVE  \E t : Leads(build, Stop_TorqueVSI(1), c, t) /\ Kept(c, t)
<1>1. TORQUE + 1 \in Int /\ Stop_TorqueVSI(1) = Stop_VSI(TORQUE + 1)
  BY Numbers DEF Stop_TorqueVSI
<1>2. Reaches(build, Stop_VSI(TORQUE + 1), Below(build, c), Below(build, c))
  BY <1>1, VsiStopped
<1>3. PICK t \in Below(build, c) : Leads(build, Stop_VSI(TORQUE + 1), c, t)
  BY <1>2, BelowFirst DEF Reaches
<1>4. Kept(c, t)
  BY DEF Below, Path
<1> QED BY <1>1, <1>3, <1>4

LEMMA StopVsi ==
  ASSUME build = "vsi", NEW c, Good(build, c), Stopping(build, c, 1)
  PROVE  \E t : Leads(build, VSI_StopCommand, c, t) /\ Kept(c, t)
<1> DEFINE num == NUM_VSI
           B == Below(build, c)
           A == [k \in 0 .. num |-> B]
           seqs == [n \in 1 .. num |-> Stop_VSI(n)]
<1>1. num \in Nat /\ num # 0 /\ Len(seqs) = num /\ build \in Build
  BY Numbers DEF Build
<1>2. \A k \in 1 .. num : Reaches(build, seqs[k], A[k - 1], A[k])
  <2> SUFFICES ASSUME NEW k \in 1 .. num PROVE Reaches(build, seqs[k], A[k - 1], A[k])
    OBVIOUS
  <2>1. k - 1 \in 0 .. num /\ k \in 0 .. num /\ k \in Int
    BY <1>1
  <2>2. Reaches(build, Stop_VSI(k), B, B)
    BY <1>1, <2>1, VsiStopped
  <2>3. seqs[k] = Stop_VSI(k) /\ A[k - 1] = B /\ A[k] = B
    BY <2>1
  <2> HIDE DEF A, seqs, num, B
  <2> QED BY <2>2, <2>3
<1>3. A[0] = B /\ A[num] = B /\ VSI_StopCommand = FlattenSeq(seqs)
  BY <1>1 DEF VSI_StopCommand
<1>4. Reaches(build, FlattenSeq(seqs), A[0], A[num])
  <2> HIDE DEF A, seqs, num
  <2> QED BY <1>1, <1>2, ReachesFlat
<1>5. PICK t \in B : Leads(build, VSI_StopCommand, c, t)
  BY <1>3, <1>4, BelowFirst DEF Reaches
<1>6. Kept(c, t)
  BY DEF Below, Path
<1> QED BY <1>5, <1>6

(* The position controllers are taken out one after the other.             *)
PosStopAt(b, c, k) == {s \in Below(b, c) : Range(s.list) = Range(c.list) \ ({"P"} \X (0 .. k - 1))}
AllStops == FlattenSeq([n \in 1 .. 4 |-> Stop_Position(<<"P", n - 1>>)])

LEMMA PositionsStopped ==
  ASSUME NEW b \in Build, NEW c, Good(b, c), Stopping(b, c, 1)
  PROVE  \E t \in Below(b, c) : Leads(b, AllStops, c, t) /\ Range(t.list) = Range(c.list) \ Position
<1> DEFINE A == [k \in 0 .. 4 |-> PosStopAt(b, c, k)]
           seqs == [n \in 1 .. 4 |-> Stop_Position(<<"P", n - 1>>)]
<1>1. 4 \in Nat /\ 4 # 0 /\ Len(seqs) = 4
  OBVIOUS
<1>2. ASSUME NEW k \in 1 .. 4 PROVE Reaches(b, Stop_Position(<<"P", k - 1>>), PosStopAt(b, c, k - 1), PosStopAt(b, c, k))
  <2> DEFINE p == <<"P", k - 1>>
  <2> SUFFICES ASSUME NEW s \in PosStopAt(b, c, k - 1) PROVE \E t \in PosStopAt(b, c, k) : Leads(b, Stop_Position(p), s, t)
    BY DEF Reaches
  <2>1. s \in Below(b, c) /\ Range(s.list) = Range(c.list) \ ({"P"} \X (0 .. (k - 1) - 1))
    BY DEF PosStopAt
  <2>2. Good(b, s) /\ Stopping(b, s, 1)
    BY <2>1, BelowStops
  <2>3. p \in Position /\ p \in Item
    BY Items
  <2>4. Its(b, 1, p)
    <3>1. p \notin Used(TORQUE)
      BY <2>3, Numbers, LoopNames
    <3> QED BY <3>1 DEF Its
  <2>5. {"P"} \X (0 .. k - 1) = ({"P"} \X (0 .. (k - 1) - 1)) \cup {p}
    <3>1. \A j : j \in 0 .. k - 1 <=> (j \in 0 .. (k - 1) - 1 \/ j = k - 1)
      OBVIOUS
    <3>2. ASSUME NEW x PROVE x \in {"P"} \X (0 .. k - 1) <=> x \in ({"P"} \X (0 .. (k - 1) - 1)) \cup {p}
      BY <3>1
    <3> QED BY <3>2
  <2>6. Stop_Position(p) = <<Unregister(p, p)>>
    BY DEF Stop_Position
  <2> HIDE DEF p
  <2>7. PICK t : /\ Leads(b, <<Unregister(p, p)>>, s, t) /\ Good(b, t) /\ Fewer(s, t)
                 /\ Unlisted(s, t, p, p)
    BY <2>2, <2>3, <2>4, OneStopped
  <2>8. t \in Below(b, c)
    BY <2>1, <2>7, BelowFewer
  <2>9. Range(t.list) = Range(c.list) \ ({"P"} \X (0 .. k - 1))
    <3> DEFINE X == {"P"} \X (0 .. (k - 1) - 1)
               Y == {"P"} \X (0 .. k - 1)
               R == Range(c.list)
    <3>1. Range(s.list) = R \ X /\ Y = X \cup {p} /\ Range(t.list) = IF p \in Range(s.list) THEN Range(s.list) \ {p} ELSE Range(s.list)
      BY <2>1, <2>5, <2>7 DEF Unlisted
    <3> HIDE DEF X, Y, R
    <3>2. Range(t.list) = R \ Y
      BY <3>1
    <3> QED BY <3>2 DEF Y, R
  <2> QED BY <2>6, <2>7, <2>8, <2>9 DEF PosStopAt
<1>3. Reaches(b, FlattenSeq(seqs), A[0], A[4])
  <2>1. \A k \in 1 .. 4 : Reaches(b, seqs[k], A[k - 1], A[k])
    <3> SUFFICES ASSUME NEW k \in 1 .. 4 PROVE Reaches(b, seqs[k], A[k - 1], A[k])
      OBVIOUS
    <3>1. k - 1 \in 0 .. 4 /\ k \in 0 .. 4
      OBVIOUS
    <3> QED BY <1>2, <3>1
  <2> HIDE DEF A, seqs
  <2> QED BY <1>1, <2>1, ReachesFlat
<1>4. c \in PosStopAt(b, c, 0)
  <2>1. {"P"} \X (0 .. 0 - 1) = {}
    OBVIOUS
  <2> QED BY <2>1, BelowFirst DEF PosStopAt
<1>5. A[0] = PosStopAt(b, c, 0) /\ A[4] = PosStopAt(b, c, 4) /\ AllStops = FlattenSeq(seqs)
  BY DEF AllStops
<1> HIDE DEF A, seqs
<1>6. PICK t \in PosStopAt(b, c, 4) : Leads(b, AllStops, c, t)
  BY <1>3, <1>4, <1>5 DEF Reaches
<1>7. Position = {"P"} \X (0 .. 4 - 1)
  BY DEF Position
<1> QED BY <1>6, <1>7 DEF PosStopAt

(* The stop of the position controllers with H bridges, and with           *)
(* inverters.                                                              *)
LEMMA StopBridges ==
  ASSUME build = "bridge", NEW c, Good(build, c), Stopping(build, c, 1)
  PROVE  \E t : Leads(build, PosContTry1_StopCommand, c, t) /\ Kept(c, t) /\ InList(t, Position) = {}
<1> DEFINE num == NUM_HBRIDGE
           B == Below(build, c)
           A == [k \in 0 .. num |-> B]
           seqs == [n \in 1 .. num |-> Stop_HB(n - 1)]
<1>1. num \in Nat /\ num # 0 /\ Len(seqs) = num /\ build \in Build
  BY Numbers DEF Build
<1>2. PICK r \in B : Leads(build, AllStops, c, r) /\ Range(r.list) = Range(c.list) \ Position
  BY <1>1, PositionsStopped
<1>3. ASSUME NEW hb \in Int PROVE Reaches(build, Stop_HB(hb), Below(build, r), Below(build, r))
  <2> SUFFICES ASSUME NEW s \in Below(build, r) PROVE \E t \in Below(build, r) : Leads(build, Stop_HB(hb), s, t)
    BY DEF Reaches
  <2>1. Stopping(build, r, 1)
    BY <1>2, BelowStops
  <2>2. Good(build, s) /\ Stopping(build, s, 1)
    BY <2>1, BelowStops
  <2> DEFINE h == hb - 1
  <2>3. CASE h \notin Bridge
    <3>1. Stop_HB(hb) = << >>
      BY <2>3 DEF Stop_HB
    <3>2. Leads(build, << >>, s, s)
      BY <2>2, LeadsNone
    <3> QED BY <3>1, <3>2
  <2>4. CASE h \in Bridge
    <3> DEFINE n == <<"H", h>>
    <3>1. n \in Item /\ n[1] = "H"
      BY <2>4, Items
    <3>2. Its(build, 1, n)
      <4>1. n \notin Used(TORQUE)
        BY <3>1, Numbers, LoopNames
      <4> QED BY <4>1 DEF Its
    <3>3. Stop_HB(hb) = <<Unregister(n, n)>>
      BY <2>4 DEF Stop_HB
    <3> HIDE DEF n, h
    <3>4. PICK t : /\ Leads(build, <<Unregister(n, n)>>, s, t) /\ Good(build, t) /\ Fewer(s, t)
      BY <1>1, <2>2, <3>1, <3>2, OneStopped
    <3>5. t \in Below(build, r)
      BY <3>4, BelowFewer
    <3> QED BY <3>3, <3>4, <3>5
  <2> QED BY <2>3, <2>4
<1> DEFINE D == Below(build, r)
           AD == [k \in 0 .. num |-> D]
<1>4. \A k \in 1 .. num : Reaches(build, seqs[k], AD[k - 1], AD[k])
  <2> SUFFICES ASSUME NEW k \in 1 .. num PROVE Reaches(build, seqs[k], AD[k - 1], AD[k])
    OBVIOUS
  <2>1. k - 1 \in 0 .. num /\ k \in 0 .. num /\ k - 1 \in Int
    BY <1>1
  <2>2. Reaches(build, Stop_HB(k - 1), D, D)
    BY <1>3, <2>1
  <2>3. seqs[k] = Stop_HB(k - 1) /\ AD[k - 1] = D /\ AD[k] = D
    BY <2>1
  <2> HIDE DEF AD, seqs, num, D
  <2> QED BY <2>2, <2>3
<1>5. AD[0] = D /\ AD[num] = D /\ PosContTry1_StopCommand = AllStops \o FlattenSeq(seqs)
  BY <1>1 DEF PosContTry1_StopCommand, AllStops
<1>6. Reaches(build, FlattenSeq(seqs), AD[0], AD[num])
  <2> HIDE DEF AD, seqs, num
  <2> QED BY <1>1, <1>4, ReachesFlat
<1>7. r \in D
  <2>1. Good(build, r)
    BY <1>2, LeadsGood
  <2> QED BY <2>1, BelowFirst
<1> HIDE DEF AD, seqs
<1>8. PICK t \in D : Leads(build, FlattenSeq(seqs), r, t)
  BY <1>5, <1>6, <1>7 DEF Reaches
<1>9. Leads(build, PosContTry1_StopCommand, c, t)
  BY <1>2, <1>5, <1>8, LeadsJoin
<1>10. Kept(c, t)
  BY <1>2, <1>8 DEF Below, Path, Kept
<1>11. InList(t, Position) = {}
  <2>1. Range(t.list) \subseteq Range(r.list)
    BY <1>8 DEF Below, Fewer
  <2> QED BY <1>2, <2>1 DEF InList
<1> QED BY <1>9, <1>10, <1>11

LEMMA StopPositions ==
  ASSUME build \in {"isolated", "common"}, NEW c, Good(build, c), Stopping(build, c, 1),
         \A i \in Inv : c.ready[<<"V", i>>],
         \A i \in {BOT, TOP} : InList(c, Used(i)) \in {{}, LoopsIn(build, i)}
  PROVE  \E t : /\ Leads(build, PosContTry1_StopCommand, c, t) /\ Kept(c, t) /\ InList(t, Position) = {}
                /\ \A i \in Inv : t.ready[<<"V", i>>]
                /\ \A i \in {BOT, TOP} : InList(t, Used(i)) \in {{}, LoopsIn(build, i)}
<1>1. build \in Build /\ build # "bridge" /\ BOT \in Inv /\ TOP \in Inv /\ BOT # TORQUE /\ TORQUE \in Inv /\ BOT # TOP /\ BOT = 0 /\ TOP = 1
  BY Numbers DEF Build
<1>2. PICK r \in Below(build, c) : Leads(build, AllStops, c, r) /\ Range(r.list) = Range(c.list) \ Position
  BY <1>1, PositionsStopped
<1>3. Good(build, r) /\ Stopping(build, r, 1) /\ Kept(c, r) /\ Fewer(c, r)
  BY <1>2, BelowStops
<1>4. /\ VsiItem(2*BOT) = <<"d", BOT>> /\ VsiItem(2*BOT + 1) = <<"q", BOT>>
      /\ VsiItem(3*BOT) = <<"d", BOT>> /\ VsiItem(3*BOT + 1) = <<"q", BOT>> /\ VsiItem(3*BOT + 2) = <<"zero", BOT>>
  <2>1. /\ VsiItem(3*BOT) = <<"d", BOT>> /\ VsiItem(3*BOT + 1) = <<"q", BOT>> /\ VsiItem(3*BOT + 2) = <<"zero", BOT>>
    BY <1>1, VsiItems
  <2>2. 2*BOT = 3*BOT /\ 2*BOT + 1 = 3*BOT + 1
    BY <1>1
  <2> QED BY <2>1, <2>2
<1> DEFINE d == <<"d", BOT>>
           q == <<"q", BOT>>
           o == <<"zero", BOT>>
<1>5. d \in Item /\ q \in Item /\ o \in Item /\ Used(BOT) = {d, q, o}
  BY <1>1, Items DEF Used
<1>6. Its(build, 1, d) /\ Its(build, 1, q) /\ Its(build, 1, o)
  <2>1. Used(BOT) \cap Used(TORQUE) = {}
    BY <1>1, UsedApart
  <2> HIDE DEF d, q, o
  <2> QED BY <1>5, <2>1 DEF Its
<1>7. Stop_VSI(BOT) = << >> /\ Stop_VSI(TOP) = <<Unregister(d, d), Unregister(q, q), Unregister(o, o)>>
  <2>1. BOT - 1 \notin Inv /\ TOP - 1 = BOT
    BY <1>1, Numbers DEF Inv
  <2>2. Stop_VSI(BOT) = << >>
    BY <2>1 DEF Stop_VSI
  <2>3. Stop_VSI(TOP) = <<Unregister(VsiItem(2*BOT), VsiItem(3*BOT)), Unregister(VsiItem(2*BOT + 1), VsiItem(3*BOT + 1)),
             Unregister(VsiItem(3*BOT + 2), VsiItem(3*BOT + 2))>>
    BY <1>1, <2>1 DEF Stop_VSI
  <2> QED BY <1>4, <2>2, <2>3
<1> HIDE DEF d, q, o
<1>8. PICK t : /\ Leads(build, <<Unregister(d, d), Unregister(q, q), Unregister(o, o)>>, r, t)
               /\ Good(build, t) /\ Fewer(r, t)
               /\ Emptied(r, t, d, d, q, q, o, o)
  BY <1>1, <1>3, <1>5, <1>6, ThreeStopped
<1>9. Leads(build, PosContTry1_StopCommand, c, t)
  <2>1. PosContTry1_StopCommand = AllStops \o (Stop_VSI(BOT) \o Stop_VSI(TOP))
    BY <1>1 DEF PosContTry1_StopCommand, AllStops
  <2>2. Leads(build, Stop_VSI(BOT), r, r) /\ Leads(build, Stop_VSI(TOP), r, t)
    BY <1>3, <1>7, <1>8, LeadsNone
  <2>3. Leads(build, Stop_VSI(BOT) \o Stop_VSI(TOP), r, t)
    BY <2>2, LeadsJoin
  <2>4. Leads(build, AllStops \o (Stop_VSI(BOT) \o Stop_VSI(TOP)), c, t)
    BY <1>2, <2>3, LeadsJoin
  <2> QED BY <2>1, <2>4
<1>10. Kept(c, t) /\ t.ready = c.ready
  BY <1>3, <1>8 DEF Fewer, Same, Kept
<1>11. Range(t.list) = (Range(c.list) \ Position) \ Used(BOT)
  BY <1>2, <1>5, <1>8 DEF Emptied
<1>12. InList(t, Position) = {} /\ InList(t, Used(BOT)) = {}
  BY <1>11 DEF InList
<1>13. InList(t, Used(TOP)) = InList(c, Used(TOP))
  <2>1. Used(TOP) \cap Used(BOT) = {} /\ \A n \in Used(TOP) : n \notin Position
    BY <1>1, UsedApart, LoopNames
  <2> QED BY <1>11, <2>1 DEF InList
<1> QED BY <1>9, <1>10, <1>12, <1>13

(* What has to hold when a command is answered, and whose command is in    *)
(* progress.                                                               *)
Answerable(b, s, a, ans) ==
  /\ ans = "on" => Serving(b, s, a)
  /\ ans = "off" => s.stopped[a]
  /\ a = 1 /\ ans = "off" => InList(s, Position) = {}
  /\ a = 1 /\ b \in {"isolated", "common"} =>
       /\ \A i \in Inv : s.ready[<<"V", i>>]
       /\ \A i \in {BOT, TOP} : InList(s, Used(i)) \in {{}, LoopsIn(b, i)}
NoneBusy(s) == \A x \in 1 .. 2 : s.asked[x] # "busy"
OnlyBusy(s, a) == a \in 1 .. 2 /\ s.asked[a] = "busy" /\ \A x \in 1 .. 2 : x # a => s.asked[x] # "busy"

(* A command that leads to where it may be answered leads on to where it   *)
(* is.                                                                     *)
LEMMA Answered ==
  ASSUME NEW b \in Build, NEW c, NEW a, OnlyBusy(c, a), NEW ops, NEW t, Leads(b, ops, c, t), Kept(c, t),
         NEW ans \in {"on", "off"}, Answerable(b, t, a, ans)
  PROVE  \E u : Leads(b, ops \o <<Stores(<< <<"asked", a, ans>> >>)>>, c, u) /\ NoneBusy(u)
<1>1. Good(b, t)
  BY LeadsGood
<1>2. PICK u : u = WithAnswer(t, a, ans)
  OBVIOUS
<1>3. a \in 1 .. 2 /\ t.asked[a] = "busy" /\ \A x \in 1 .. 2 : x # a => t.asked[x] # "busy"
  BY DEF OnlyBusy, Kept
<1>4. /\ ans = "on" => Serving(b, t, a)
      /\ ans = "off" => t.stopped[a]
      /\ a = 1 /\ ans = "off" => InList(t, Position) = {}
      /\ a = 1 /\ b \in {"isolated", "common"} =>
           /\ \A i \in Inv : t.ready[<<"V", i>>]
           /\ \A i \in {BOT, TOP} : InList(t, Used(i)) \in {{}, LoopsIn(b, i)}
  BY DEF Answerable
<1>5. Good(b, u) /\ Does(Stores(<< <<"asked", a, ans>> >>), t, u)
      /\ \A x \in 1 .. 2 : u.asked[x] = IF x = a THEN ans ELSE t.asked[x]
  BY <1>1, <1>2, <1>3, <1>4, AnswerIsGood
<1>6. Leads(b, <<Stores(<< <<"asked", a, ans>> >>)>>, t, u)
  BY <1>1, <1>5, LeadsOne
<1>7. Leads(b, ops \o <<Stores(<< <<"asked", a, ans>> >>)>>, c, u)
  BY <1>6, LeadsJoin
<1>8. NoneBusy(u)
  BY <1>3, <1>5 DEF NoneBusy
<1> QED BY <1>7, <1>8

(* The state of the list, in which a command finds the memory. *)
Rostered(s) == s.ready = mem.ready /\ s.own = mem.own /\ s.useZero = mem.useZero /\ s.asked = mem.asked /\ s.stopped = mem.stopped
Clean(s) == Rostered(s) /\ Shaped(mem.next, mem.prev, mem.reg, s.list)

(* The flags are those of the list.                                        *)
LEMMA CleanFlags ==
  ASSUME NEW s, Good(build, s), Clean(s) PROVE \A n \in Item : mem.reg[n] <=> n \in Range(s.list)
<1>1. s.list \in Seq(Item)
  BY DEF Good, ListGood, Roster
<1> QED BY <1>1, InRange DEF Clean, Shaped

(* The state after a command began.                                        *)
LEMMA BusyIs ==
  ASSUME build \in Build, NEW s, Good(build, s), NoneBusy(s), NEW a \in 1 .. 2, a = 2 => build # "vsi", NEW off \in BOOLEAN
  PROVE  \E c : /\ c = WithBusy(s, a, off) /\ Good(build, c) /\ OnlyBusy(c, a) /\ Busy(build, c, a)
                /\ c.list = s.list /\ c.ready = s.ready /\ c.own = s.own /\ c.useZero = s.useZero
                /\ \A x \in 1 .. 2 : c.asked[x] = IF x = a THEN "busy" ELSE s.asked[x]
                /\ \A x \in 1 .. 2 : c.stopped[x] <=> s.stopped[x] \/ (x = a /\ off)
<1>1. PICK c : c = WithBusy(s, a, off)
  OBVIOUS
<1>2. /\ Good(build, c)
      /\ c.list = s.list /\ c.ready = s.ready /\ c.own = s.own /\ c.useZero = s.useZero
      /\ \A x \in 1 .. 2 : c.asked[x] = IF x = a THEN "busy" ELSE s.asked[x]
      /\ \A x \in 1 .. 2 : c.stopped[x] <=> s.stopped[x] \/ (x = a /\ off)
  BY <1>1, BusyIsGood
<1>3. OnlyBusy(c, a) /\ Busy(build, c, a)
  BY <1>2 DEF OnlyBusy, Busy, NoneBusy
<1> QED BY <1>1, <1>2, <1>3

(* A command that stops. *)
Stops(off) == off = TRUE

(* Between two commands each application was answered or never asked.      *)
LEMMA IdleAnswers ==
  ASSUME NEW b, NEW s, Good(b, s), NoneBusy(s) PROVE \A x \in 1 .. 2 : s.asked[x] \in {"never", "on", "off"}
<1>1. \A x \in 1 .. 2 : s.asked[x] \in Answers
  BY DEF Good, ListGood, Roster
<1> QED BY <1>1 DEF NoneBusy, Answers

(* The four commands, each from a state between two commands to the next   *)
(* such state.                                                             *)
LEMMA FirstStarts ==
  ASSUME build \in Build, NEW s, Good(build, s), NoneBusy(s), Clean(s), MayStart(1), NEW f \in BOOLEAN,
         NEW off \in BOOLEAN, off = FALSE
  PROVE  \E c, u : /\ c = WithBusy(s, 1, off) /\ Good(build, c)
                   /\ Leads(build, ControlStartApp(f) \o <<Stores(<< <<"asked", 1, "on">> >>)>>, c, u) /\ NoneBusy(u)
<1>1. PICK c : /\ c = WithBusy(s, 1, off) /\ Good(build, c) /\ OnlyBusy(c, 1) /\ Busy(build, c, 1)
               /\ c.list = s.list /\ c.ready = s.ready /\ c.own = s.own /\ c.useZero = s.useZero
               /\ \A x \in 1 .. 2 : c.asked[x] = IF x = 1 THEN "busy" ELSE s.asked[x]
               /\ \A x \in 1 .. 2 : c.stopped[x] <=> s.stopped[x] \/ (x = 1 /\ off)
  <2>1. 1 \in 1 .. 2 /\ (1 = 2 => build # "vsi")
    OBVIOUS
  <2> QED BY <2>1, BusyIs
<1>2. \A S : InList(c, S) = InList(s, S)
  BY <1>1, SameList
<1>3. \A n \in Item : mem.reg[n] <=> n \in Range(c.list)
  BY <1>1, CleanFlags
<1>4. /\ s.asked[1] # "on" /\ s.asked[2] # "on" /\ (build = "vsi" => s.asked[1] = "never")
      /\ s.asked[1] \in {"never", "off"}
  BY IdleAnswers DEF MayStart, Clean, Rostered
<1>5. c.asked[2] # "on"
  BY <1>1, <1>4
<1>6. FirstGood(build, s) /\ AppGood(build, s)
  BY DEF Good
<1>7. InList(c, Position) = {}
  BY <1>2, <1>4, <1>6 DEF FirstGood
<1>8. "on" \in {"on", "off"} /\ "on" # "off"
  OBVIOUS
<1>9. CASE build = "vsi"
  <2>1. Range(c.list) = {}
    BY <1>1, <1>4, <1>6, <1>9 DEF FirstGood
  <2>2. \A n \in Item : ~mem.reg[n]
    BY <1>3, <2>1
  <2>3. PICK t : /\ Leads(build, VSI_StartCommand(f), c, t) /\ Kept(c, t)
                 /\ InList(t, Used(BOT)) = LoopsIn(build, BOT)
    BY <1>1, <1>5, <1>9, <2>1, <2>2, StartVsi
  <2>4. Answerable(build, t, 1, "on")
    BY <1>9, <2>3 DEF Answerable, Serving
  <2>5. ControlStartApp(f) = VSI_StartCommand(f)
    BY <1>9 DEF ControlStartApp
  <2> QED BY <1>1, <1>8, <2>3, <2>4, <2>5, Answered
<1>10. CASE build = "bridge"
  <2>3. PICK t : /\ Leads(build, PosContTry1_StartCommand(f), c, t) /\ Kept(c, t) /\ Serving(build, t, 1)
    BY <1>1, <1>3, <1>5, <1>7, <1>10, StartBridges
  <2>4. Answerable(build, t, 1, "on")
    BY <1>10, <2>3 DEF Answerable
  <2>5. ControlStartApp(f) = PosContTry1_StartCommand(f)
    BY <1>10 DEF ControlStartApp
  <2> QED BY <1>1, <1>8, <2>3, <2>4, <2>5, Answered
<1>11. CASE build \in {"isolated", "common"}
  <2>1. \A i \in {BOT, TOP} : InList(c, Used(i)) \in {{}, LoopsIn(build, i)}
    BY <1>2, <1>4, <1>6, <1>11 DEF FirstGood
  <2>2. c.stopped[1] \/ InList(c, Used(TOP)) = {}
    <3>1. CASE s.asked[1] = "never"
      BY <1>2, <1>6, <1>11, <3>1 DEF FirstGood
    <3>2. CASE s.asked[1] = "off"
      BY <1>1, <1>6, <3>2 DEF AppGood
    <3> QED BY <1>4, <3>1, <3>2
  <2>3. PICK t : /\ Leads(build, PosContTry1_StartCommand(f), c, t) /\ Kept(c, t) /\ Serving(build, t, 1)
                 /\ \A i \in Inv : t.ready[<<"V", i>>]
    BY <1>1, <1>3, <1>5, <1>7, <1>11, <2>1, <2>2, StartPositions
  <2>4. Answerable(build, t, 1, "on")
    BY <1>11, <2>3 DEF Answerable, Serving, Bridged
  <2>5. ControlStartApp(f) = PosContTry1_StartCommand(f)
    BY <1>11 DEF ControlStartApp
  <2> QED BY <1>1, <1>8, <2>3, <2>4, <2>5, Answered
<1> QED BY <1>9, <1>10, <1>11 DEF Build

LEMMA SecondStarts ==
  ASSUME build \in Build, NEW s, Good(build, s), NoneBusy(s), Clean(s), MayStart(2),
         NEW off \in BOOLEAN, off = FALSE
  PROVE  \E c, u : /\ c = WithBusy(s, 2, off) /\ Good(build, c)
                   /\ Leads(build, Init_TorqueVSI \o <<Stores(<< <<"asked", 2, "on">> >>)>>, c, u) /\ NoneBusy(u)
<1>0. build # "vsi" /\ s.asked[2] = "never" /\ (build = "bridge" \/ s.asked[1] # "never")
  BY DEF MayStart, Clean, Rostered
<1>1. PICK c : /\ c = WithBusy(s, 2, off) /\ Good(build, c) /\ OnlyBusy(c, 2) /\ Busy(build, c, 2)
               /\ c.list = s.list /\ c.ready = s.ready /\ c.own = s.own /\ c.useZero = s.useZero
               /\ \A x \in 1 .. 2 : c.asked[x] = IF x = 2 THEN "busy" ELSE s.asked[x]
               /\ \A x \in 1 .. 2 : c.stopped[x] <=> s.stopped[x] \/ (x = 2 /\ off)
  <2>1. 2 \in 1 .. 2 /\ (2 = 2 => build # "vsi")
    BY <1>0
  <2> QED BY <2>1, BusyIs
<1>2. \A S : InList(c, S) = InList(s, S)
  BY <1>1, SameList
<1>3. \A n \in Item : mem.reg[n] <=> n \in Range(c.list)
  BY <1>1, CleanFlags
<1>4. InList(c, Used(TORQUE)) = {}
  BY <1>0, <1>2 DEF Good, AppGood
<1>5. build \in {"isolated", "common"} => c.ready[<<"V", TORQUE>>]
  <2>1. build \in {"isolated", "common"} => s.asked[1] \in {"on", "off"}
    BY <1>0, IdleAnswers
  <2> QED BY <1>1, <2>1, Numbers DEF Good, FirstGood
<1>6. mem.useZero[TORQUE] = FALSE
  <2>1. TORQUE \in Inv /\ TORQUE # TOP
    BY Numbers
  <2>2. ~s.useZero[TORQUE]
    BY <2>1 DEF Good, ZeroGood
  <2>3. s.useZero[TORQUE] \in BOOLEAN
    BY <2>1 DEF Good, ListGood, Roster
  <2> QED BY <2>2, <2>3 DEF Clean, Rostered
<1>7. PICK t : Leads(build, Init_TorqueVSI, c, t) /\ Kept(c, t) /\ Serving(build, t, 2)
  BY <1>0, <1>1, <1>3, <1>4, <1>5, <1>6, StartTorque
<1>8. Answerable(build, t, 2, "on") /\ "on" \in {"on", "off"}
  BY <1>7 DEF Answerable
<1> QED BY <1>1, <1>7, <1>8, Answered

LEMMA FirstStops ==
  ASSUME build \in Build, NEW s, Good(build, s), NoneBusy(s), Clean(s), mem.asked[1] = "on",
         NEW off \in BOOLEAN, Stops(off)
  PROVE  \E c, u : /\ c = WithBusy(s, 1, off) /\ Good(build, c)
                   /\ Leads(build, ControlStopApp \o <<Stores(<< <<"asked", 1, "off">> >>)>>, c, u) /\ NoneBusy(u)
<1>1. PICK c : /\ c = WithBusy(s, 1, off) /\ Good(build, c) /\ OnlyBusy(c, 1) /\ Busy(build, c, 1)
               /\ c.list = s.list /\ c.ready = s.ready /\ c.own = s.own /\ c.useZero = s.useZero
               /\ \A x \in 1 .. 2 : c.asked[x] = IF x = 1 THEN "busy" ELSE s.asked[x]
               /\ \A x \in 1 .. 2 : c.stopped[x] <=> s.stopped[x] \/ (x = 1 /\ off)
  <2>1. 1 \in 1 .. 2 /\ (1 = 2 => build # "vsi")
    OBVIOUS
  <2> QED BY <2>1, BusyIs
<1>2. \A S : InList(c, S) = InList(s, S)
  BY <1>1, SameList
<1>3. Stopping(build, c, 1)
  <2>0. 1 \in 1 .. 2
    OBVIOUS
  <2>1. off => c.stopped[1]
    BY <1>1, <2>0, Zenon
  <2>2. off
    BY DEF Stops
  <2> QED BY <1>1, <2>1, <2>2 DEF Stopping
<1>4. s.asked[1] = "on" /\ FirstGood(build, s)
  BY DEF Good, Clean, Rostered
<1>5. "off" \in {"on", "off"} /\ "on" # "off"
  OBVIOUS
<1>6. CASE build = "vsi"
  <2>1. PICK t : Leads(build, VSI_StopCommand, c, t) /\ Kept(c, t)
    BY <1>1, <1>3, <1>6, StopVsi
  <2>2. InList(t, Position) = {}
    BY <1>6, <2>1, LeadsGood DEF Good, FirstGood
  <2>3. t.stopped[1]
    BY <1>3, <2>1 DEF Stopping, Kept
  <2>4. Answerable(build, t, 1, "off")
    BY <1>5, <1>6, <2>2, <2>3 DEF Answerable
  <2>5. ControlStopApp = VSI_StopCommand
    BY <1>6 DEF ControlStopApp
  <2> QED BY <1>1, <1>5, <2>1, <2>4, <2>5, Answered
<1>7. CASE build = "bridge"
  <2>1. PICK t : Leads(build, PosContTry1_StopCommand, c, t) /\ Kept(c, t) /\ InList(t, Position) = {}
    BY <1>1, <1>3, <1>7, StopBridges
  <2>3. t.stopped[1]
    BY <1>3, <2>1 DEF Stopping, Kept
  <2>4. Answerable(build, t, 1, "off")
    BY <1>5, <1>7, <2>1, <2>3 DEF Answerable
  <2>5. ControlStopApp = PosContTry1_StopCommand
    BY <1>7 DEF ControlStopApp
  <2> QED BY <1>1, <1>5, <2>1, <2>4, <2>5, Answered
<1>8. CASE build \in {"isolated", "common"}
  <2>1. /\ \A i \in Inv : c.ready[<<"V", i>>]
        /\ \A i \in {BOT, TOP} : InList(c, Used(i)) \in {{}, LoopsIn(build, i)}
    BY <1>1, <1>2, <1>4, <1>8 DEF FirstGood
  <2>2. PICK t : /\ Leads(build, PosContTry1_StopCommand, c, t) /\ Kept(c, t) /\ InList(t, Position) = {}
                 /\ \A i \in Inv : t.ready[<<"V", i>>]
                 /\ \A i \in {BOT, TOP} : InList(t, Used(i)) \in {{}, LoopsIn(build, i)}
    BY <1>1, <1>3, <1>8, <2>1, StopPositions
  <2>3. t.stopped[1]
    BY <1>3, <2>2 DEF Stopping, Kept
  <2>4. Answerable(build, t, 1, "off")
    BY <1>5, <2>2, <2>3 DEF Answerable
  <2>5. ControlStopApp = PosContTry1_StopCommand
    BY <1>8 DEF ControlStopApp
  <2> QED BY <1>1, <1>5, <2>2, <2>4, <2>5, Answered
<1> QED BY <1>6, <1>7, <1>8 DEF Build

LEMMA SecondStops ==
  ASSUME build \in Build, NEW s, Good(build, s), NoneBusy(s), Clean(s), mem.asked[2] = "on",
         NEW off \in BOOLEAN, Stops(off)
  PROVE  \E c, u : /\ c = WithBusy(s, 2, off) /\ Good(build, c)
                   /\ Leads(build, Stop_TorqueVSI(1) \o <<Stores(<< <<"asked", 2, "off">> >>)>>, c, u) /\ NoneBusy(u)
<1>0. build # "vsi"
  BY DEF Good, AppGood, Clean, Rostered
<1>1. PICK c : /\ c = WithBusy(s, 2, off) /\ Good(build, c) /\ OnlyBusy(c, 2) /\ Busy(build, c, 2)
               /\ c.list = s.list /\ c.ready = s.ready /\ c.own = s.own /\ c.useZero = s.useZero
               /\ \A x \in 1 .. 2 : c.asked[x] = IF x = 2 THEN "busy" ELSE s.asked[x]
               /\ \A x \in 1 .. 2 : c.stopped[x] <=> s.stopped[x] \/ (x = 2 /\ off)
  <2>1. 2 \in 1 .. 2 /\ (2 = 2 => build # "vsi")
    BY <1>0
  <2> QED BY <2>1, BusyIs
<1>2. Stopping(build, c, 2)
  <2>0. 2 \in 1 .. 2
    OBVIOUS
  <2>1. off => c.stopped[2]
    BY <1>1, <2>0, Zenon
  <2>2. off
    BY DEF Stops
  <2> QED BY <1>1, <2>1, <2>2 DEF Stopping
<1>3. PICK t : Leads(build, Stop_TorqueVSI(1), c, t) /\ Kept(c, t)
  BY <1>1, <1>2, StopTorque
<1>4. t.stopped[2]
  BY <1>2, <1>3 DEF Stopping, Kept
<1>5. Answerable(build, t, 2, "off") /\ "off" \in {"on", "off"}
  BY <1>4 DEF Answerable
<1> QED BY <1>1, <1>3, <1>5, Answered

-----------------------------------------------------------------------------
(* The interrupt walks the list once: the states it works on.              *)
Serves(f, w, gap) == f[0] = Before(gap) /\ \A k \in 1 .. Len(w) : f[k] = ServiceController(f[k - 1], w[k])

(* What holds at first and is kept at each step of a fold holds at each of *)
(* them.                                                                   *)
LEMMA Along ==
  ASSUME NEW n \in Nat, NEW P \in [0 .. n -> BOOLEAN], P[0], \A k \in 1 .. n : P[k - 1] => P[k]
  PROVE  \A k \in 0 .. n : P[k]
<1> DEFINE T == {k \in 0 .. n : ~P[k]}
<1>1. CASE T = {}
  BY <1>1
<1>2. CASE T # {}
  <2>1. T \in SUBSET Nat
    OBVIOUS
  <2> HIDE DEF T
  <2>2. PICK x \in T : \A y \in T : x <= y
    BY <1>2, <2>1, Least
  <2>3. x \in 0 .. n /\ ~P[x]
    BY <2>2 DEF T
  <2>4. x # 0
    BY <2>3
  <2>5. x \in 1 .. n /\ x - 1 \in 0 .. n /\ ~(x <= x - 1)
    BY <2>3, <2>4
  <2>6. ~P[x - 1]
    BY <2>3, <2>5
  <2>7. x - 1 \in T
    BY <2>5, <2>6 DEF T
  <2> QED BY <2>2, <2>5, <2>7
<1> QED BY <1>1, <1>2

(* The states of the interrupt are the fold of ServiceController over the  *)
(* list.                                                                   *)
FoldOf(f, gap, w) == f = [k \in 0 .. Len(w) |-> IF k = 0 THEN Before(gap) ELSE ServiceController(f[k - 1], w[k])]
LEMMA Folded == ASSUME NEW gap, NEW w \in Seq(Item) PROVE \E f : FoldOf(f, gap, w)
<1> DEFINE n == Len(w)
           start == Before(gap)
           next(r, k) == ServiceController(r, w[k])
           has(m) == \E f : f = [k \in 0 .. m |-> IF k = 0 THEN start ELSE next(f[k - 1], k)]
           P == [k \in 0 .. n |-> has(k)]
<1>0. n \in Nat
  OBVIOUS
<1> HIDE DEF n, start, next
<1>1. has(0)
  <2> DEFINE g == [k \in 0 .. 0 |-> start]
  <2>1. g = [k \in 0 .. 0 |-> IF k = 0 THEN start ELSE next(g[k - 1], k)]
    OBVIOUS
  <2> QED BY <2>1
<1>2. ASSUME NEW x \in 1 .. n, has(x - 1) PROVE has(x)
  <2>1. PICK f : f = [k \in 0 .. x - 1 |-> IF k = 0 THEN start ELSE next(f[k - 1], k)]
    BY <1>2
  <2> DEFINE last == next(f[x - 1], x)
             g == [k \in 0 .. x |-> IF k = x THEN last ELSE f[k]]
  <2>2. \A k \in 0 .. x : g[k] = IF k = x THEN last ELSE f[k]
    OBVIOUS
  <2>3. ASSUME NEW k \in 0 .. x PROVE g[k] = IF k = 0 THEN start ELSE next(g[k - 1], k)
    <3>1. CASE k = x
      <4>1. k # 0 /\ k - 1 \in 0 .. x /\ k - 1 # x
        BY <1>0, <3>1
      <4>2. g[k - 1] = f[k - 1]
        BY <2>2, <4>1
      <4> HIDE DEF g
      <4> QED BY <2>2, <3>1, <4>1, <4>2
    <3>2. CASE k # x /\ k = 0
      <4>1. k \in 0 .. x - 1
        BY <1>0, <3>2
      <4>2. f[k] = start
        BY <2>1, <3>2, <4>1
      <4> QED BY <2>2, <3>2, <4>2
    <3>3. CASE k # x /\ k # 0
      <4>1. k \in 0 .. x - 1 /\ k - 1 \in 0 .. x - 1 /\ k - 1 \in 0 .. x /\ k - 1 # x
        BY <1>0, <3>3
      <4>2. f[k] = next(f[k - 1], k)
        BY <2>1, <3>3, <4>1
      <4>3. g[k - 1] = f[k - 1] /\ g[k] = f[k]
        BY <2>2, <3>3, <4>1
      <4> HIDE DEF g
      <4> QED BY <3>3, <4>2, <4>3
    <3> QED BY <3>1, <3>2, <3>3
  <2>4. g = [k \in 0 .. x |-> g[k]]
    OBVIOUS
  <2> HIDE DEF g
  <2>5. g = [k \in 0 .. x |-> IF k = 0 THEN start ELSE next(g[k - 1], k)]
    BY <2>3, <2>4
  <2> QED BY <2>5
<1> HIDE DEF has
<1>3. P \in [0 .. n -> BOOLEAN] /\ \A k \in 0 .. n : P[k] <=> has(k)
  <2>1. \A k \in 0 .. n : has(k) \in BOOLEAN
    BY DEF has
  <2> QED BY <2>1
<1> HIDE DEF P
<1>4. \A k \in 1 .. n : P[k - 1] => P[k]
  <2> SUFFICES ASSUME NEW k \in 1 .. n, P[k - 1] PROVE P[k]
    OBVIOUS
  <2>1. k - 1 \in 0 .. n /\ k \in 0 .. n
    BY <1>0
  <2> QED BY <1>2, <1>3, <2>1
<1>5. \A k \in 0 .. n : P[k]
  <2>1. 0 \in 0 .. n
    BY <1>0
  <2>2. P[0]
    BY <1>1, <1>3, <2>1
  <2> QED BY <1>0, <1>3, <1>4, <2>2, Along
<1>6. has(n)
  <2>1. n \in 0 .. n
    BY <1>0
  <2> QED BY <1>3, <1>5, <2>1
<1>7. PICK f : f = [k \in 0 .. n |-> IF k = 0 THEN start ELSE next(f[k - 1], k)]
  BY <1>6 DEF has
<1>8. f = [k \in 0 .. Len(w) |-> IF k = 0 THEN Before(gap) ELSE ServiceController(f[k - 1], w[k])]
  BY <1>7 DEF n, start, next
<1> QED BY <1>8 DEF FoldOf

LEMMA Served ==
  ASSUME NEW gap, NEW w \in Seq(Item), Walk(mem.next) = w
  PROVE  \E f : Serves(f, w, gap) /\ ServiceControllers(gap) = f[Len(w)]
<1> DEFINE served == CHOOSE f : FoldOf(f, gap, w)
<1>1. FoldOf(served, gap, w)
  BY Folded
<1>2. ServiceControllers(gap) = served[Len(w)]
  BY DEF ServiceControllers, FoldOf
<1> HIDE DEF served
<1>3. Serves(served, w, gap)
  <2> DEFINE n == Len(w)
             start == Before(gap)
             next(r, k) == ServiceController(r, w[k])
  <2>0. n \in Nat
    OBVIOUS
  <2>1. served = [k \in 0 .. n |-> IF k = 0 THEN start ELSE next(served[k - 1], k)]
    BY <1>1 DEF FoldOf
  <2> HIDE DEF n, start, next
  <2>2. served[0] = start
    BY <2>0, <2>1
  <2>3. \A k \in 1 .. n : served[k] = next(served[k - 1], k)
    BY <2>0, <2>1
  <2> QED BY <2>2, <2>3 DEF n, start, next, Serves
<1> QED BY <1>2, <1>3

(* The types of what an interrupt works on and of what the main loop       *)
(* stores.                                                                 *)
Origins == {"zero", "position", "forced", "torque"}
Refs == [of : Origins, val : Int, less : Int]
Work == [updated : [Item -> BOOLEAN], ran : SUBSET Item, wrote : [Unit -> Nat], ixy : Refs, top : Int,
         ref : [Unit -> Refs], skewed : SUBSET Inv, age : [Unit \cup {C0s} -> 0 .. MaxAge]]
Memory == [next : Links, prev : BackLinks, reg : [Item -> BOOLEAN], ready : [Unit \cup Position -> BOOLEAN],
           updated : [Item -> BOOLEAN], own : [Unit -> Owners], useZero : [Inv -> BOOLEAN],
           force : [{"xy", "dq"} -> BOOLEAN], sent : [{"xy", "dq", "torque"} -> Int],
           asked : [1 .. 2 -> Answers], stopped : [1 .. 2 -> BOOLEAN]]
Typed == mem \in Memory

(* What a bridge is told, whose callbacks are those of the position controllers. *)
Follows(ref, u, ixy, top) == IF u[1] = "V" /\ u[2] = TOP THEN ref = [ixy EXCEPT !.less = top] ELSE ref = ixy

(* The reference that a position controller computes.                      *)
LEMMA NewRef ==
  ASSUME NEW o \in Origins, NEW v \in Int
  PROVE  \E e \in Refs : e = [Nothing EXCEPT !.of = o, !.val = v] /\ e.of = o /\ e.val = v
<1>1. Nothing \in Refs
  BY DEF Nothing, Refs, Origins
<1>2. PICK n : n = [Nothing EXCEPT !.of = o]
  OBVIOUS
<1>3. n \in Refs /\ n.of = o
  BY <1>1, <1>2 DEF Refs
<1>4. PICK e : e = [n EXCEPT !.val = v]
  OBVIOUS
<1>5. e \in Refs /\ e.of = o /\ e.val = v
  BY <1>3, <1>4 DEF Refs
<1> QED BY <1>2, <1>4, <1>5

(* The input callback of a bridge, by whose it is.                         *)
LEMMA InputIs ==
  ASSUME Typed, NEW r \in Work, NEW u \in Unit
  PROVE  \E g \in Work :
           /\ g = GetInput(r, u)
           /\ g.updated = r.updated /\ g.ran = r.ran /\ g.wrote = r.wrote /\ g.ixy = r.ixy /\ g.skewed = r.skewed
           /\ g.age = r.age
           /\ \A v \in Unit : v # u => g.ref[v] = r.ref[v]
           /\ g.top \in {r.top, mem.sent["torque"]}
           /\ mem.own[u] = "pos" => Follows(g.ref[u], u, r.ixy, r.top)
           /\ mem.own[u] = "torque" => g.ref[u].val = mem.sent["torque"] /\ (build # "bridge" => g.top = mem.sent["torque"])
<1>1. mem.own[u] \in Owners /\ mem.sent["torque"] \in Int
  BY DEF Typed, Memory
<1>2. u[1] \in {"V", "H"}
  BY DEF Unit
<1>3. CASE mem.own[u] = "pos" /\ u[1] = "H"
  <2>1. GetInput(r, u) = [r EXCEPT !.ref[u] = r.ixy]
    BY <1>3 DEF GetInput, POS_HB_Input, HBridge_CC_SetCurrentRef
  <2>2. PICK g : g = [r EXCEPT !.ref[u] = r.ixy]
    OBVIOUS
  <2>3. g \in Work /\ g.ref[u] = r.ixy /\ \A v \in Unit : v # u => g.ref[v] = r.ref[v]
    BY <2>2 DEF Work
  <2>4. /\ g.updated = r.updated /\ g.ran = r.ran /\ g.wrote = r.wrote /\ g.ixy = r.ixy /\ g.skewed = r.skewed
        /\ g.age = r.age /\ g.top = r.top
    BY <2>2 DEF Work
  <2>5. Follows(g.ref[u], u, r.ixy, r.top)
    BY <1>3, <2>3 DEF Follows
  <2> QED BY <1>3, <2>1, <2>2, <2>3, <2>4, <2>5
<1>4. CASE mem.own[u] = "pos" /\ u[1] = "V"
  <2> DEFINE e == IF u[2] = TOP THEN [r.ixy EXCEPT !.less = r.top] ELSE r.ixy
  <2>1. GetInput(r, u) = [r EXCEPT !.ref[u] = e]
    BY <1>4 DEF GetInput, POS_VSI_Input
  <2>2. e \in Refs /\ Follows(e, u, r.ixy, r.top)
    BY <1>4 DEF Work, Refs, Follows
  <2> HIDE DEF e
  <2>3. PICK g : g = [r EXCEPT !.ref[u] = e]
    OBVIOUS
  <2>4. g \in Work /\ g.ref[u] = e /\ \A v \in Unit : v # u => g.ref[v] = r.ref[v]
    BY <2>2, <2>3 DEF Work
  <2>5. /\ g.updated = r.updated /\ g.ran = r.ran /\ g.wrote = r.wrote /\ g.ixy = r.ixy /\ g.skewed = r.skewed
        /\ g.age = r.age /\ g.top = r.top
    BY <2>3 DEF Work
  <2> QED BY <1>4, <2>1, <2>2, <2>3, <2>4, <2>5
<1>5. CASE mem.own[u] = "torque"
  <2> DEFINE e == [Nothing EXCEPT !.of = "torque", !.val = mem.sent["torque"]]
             t == IF build = "bridge" THEN r.top ELSE mem.sent["torque"]
  <2>1. GetInput(r, u) = [r EXCEPT !.ref[u] = e, !.top = t]
    BY <1>5 DEF GetInput, T_VSI_Input
  <2>2. e \in Refs /\ e.val = mem.sent["torque"]
    <3>1. \E o \in Origins : o = "torque"
      BY DEF Origins
    <3>2. PICK o \in Origins, v \in Int : o = "torque" /\ v = mem.sent["torque"]
      BY <1>1, <3>1
    <3>3. PICK x \in Refs : x = [Nothing EXCEPT !.of = o, !.val = v] /\ x.of = o /\ x.val = v
      BY NewRef
    <3>4. x = e
      BY <3>2, <3>3, Zenon
    <3> HIDE DEF e
    <3> QED BY <3>2, <3>3, <3>4
  <2>3. t \in Int /\ t \in {r.top, mem.sent["torque"]} /\ (build # "bridge" => t = mem.sent["torque"])
    BY <1>1 DEF Work
  <2> HIDE DEF e, t
  <2>4. PICK g : g = [r EXCEPT !.ref[u] = e, !.top = t]
    OBVIOUS
  <2>5. g \in Work /\ g.ref[u] = e /\ g.top = t /\ \A v \in Unit : v # u => g.ref[v] = r.ref[v]
    BY <2>2, <2>3, <2>4 DEF Work
  <2>6. /\ g.updated = r.updated /\ g.ran = r.ran /\ g.wrote = r.wrote /\ g.ixy = r.ixy /\ g.skewed = r.skewed
        /\ g.age = r.age
    BY <2>4 DEF Work
  <2> QED BY <1>5, <2>1, <2>2, <2>3, <2>4, <2>5, <2>6
<1>6. CASE mem.own[u] \in {"none", "example"}
  <2>1. GetInput(r, u) = r
    BY <1>6 DEF GetInput
  <2> QED BY <1>6, <2>1
<1> QED BY <1>1, <1>2, <1>3, <1>4, <1>5, <1>6 DEF Owners

(* The output callback of a bridge: those of an application write its duty *)
(* ratio once.                                                             *)
LEMMA OutputIs ==
  ASSUME Typed, NEW r \in Work, NEW u \in Unit
  PROVE  \E g \in Work :
           /\ g = WriteOutput(r, u)
           /\ g.updated = r.updated /\ g.ran = r.ran /\ g.ref = r.ref /\ g.ixy = r.ixy /\ g.top = r.top
           /\ g.skewed = r.skewed /\ g.age = r.age
           /\ \A v \in Unit : v # u => g.wrote[v] = r.wrote[v]
           /\ mem.own[u] \in {"pos", "torque"} \/ u[2] = 0 => g.wrote[u] = r.wrote[u] + 1
<1>1. mem.own[u] \in Owners
  BY DEF Typed, Memory
<1>2. u[1] \in {"V", "H"}
  BY DEF Unit
<1>3. WriteOutput(r, u) \in {r, Wrote(r, u)}
  BY <1>1, <1>2 DEF WriteOutput, Owners, POS_HB_Output, POS_VSI_Output, T_VSI_Output, ExampleHB_WriteOutput,
                    ExampleVSI_WriteOutput
<1>4. mem.own[u] \in {"pos", "torque"} \/ u[2] = 0 => WriteOutput(r, u) = Wrote(r, u)
  BY <1>1, <1>2 DEF WriteOutput, Owners, POS_HB_Output, POS_VSI_Output, T_VSI_Output, ExampleHB_WriteOutput,
                    ExampleVSI_WriteOutput
<1>5. PICK g : g = Wrote(r, u)
  OBVIOUS
<1>6. g \in Work /\ g.wrote[u] = r.wrote[u] + 1 /\ \A v \in Unit : v # u => g.wrote[v] = r.wrote[v]
  BY <1>5 DEF Work, Wrote
<1>7. /\ g.updated = r.updated /\ g.ran = r.ran /\ g.ref = r.ref /\ g.ixy = r.ixy /\ g.top = r.top
      /\ g.skewed = r.skewed /\ g.age = r.age
  BY <1>5 DEF Work, Wrote
<1>8. CASE WriteOutput(r, u) = r /\ ~(mem.own[u] \in {"pos", "torque"} \/ u[2] = 0)
  BY <1>8
<1>9. CASE WriteOutput(r, u) = Wrote(r, u)
  BY <1>5, <1>6, <1>7, <1>9
<1>10. r = Wrote(r, u) => WriteOutput(r, u) = Wrote(r, u)
  BY <1>3
<1> QED BY <1>3, <1>4, <1>8, <1>9

(* The bridges of items.                                                   *)
LEMMA Units0 ==
  /\ C0s \notin Unit /\ Position \subseteq Item /\ \A p \in Position : p[1] = "P"
  /\ \A i \in Inv : <<"V", i>> \in Unit /\ Used(i) \subseteq Item /\ Used(i) \cap Position = {} /\ LoopsOf(i) \subseteq Used(i)
  /\ \A i \in Inv : \A n \in Used(i) : UnitOf(n) = <<"V", i>> /\ n[2] = i /\ n[1] \in {"d", "q", "zero"}
BY DEF C0s, Unit, Position, Item, Used, UnitOf, LoopsOf

(* The currents that the position controllers compute, forced or not.      *)
LEMMA CurrentsAre ==
  ASSUME Typed
  PROVE  /\ OutputCurrents \in Refs
         /\ mem.force["xy"] => OutputCurrents.of = "forced" /\ OutputCurrents.val = mem.sent["xy"]
         /\ ~mem.force["xy"] => OutputCurrents.of = "position"
<1>1. mem.sent["xy"] \in Int
  BY DEF Typed, Memory
<1>2. (\E o \in Origins : o = "forced") /\ (\E o \in Origins : o = "position")
  BY DEF Origins
<1>3. CASE mem.force["xy"]
  <2>1. PICK o \in Origins, v \in Int : o = "forced" /\ v = mem.sent["xy"]
    BY <1>1, <1>2
  <2>2. PICK x \in Refs : x = [Nothing EXCEPT !.of = o, !.val = v] /\ x.of = o /\ x.val = v
    BY NewRef
  <2>3. x = OutputCurrents
    BY <1>3, <2>1, <2>2 DEF OutputCurrents
  <2> QED BY <1>3, <2>1, <2>2, <2>3
<1>4. CASE ~mem.force["xy"]
  <2>1. Nothing \in Refs
    BY DEF Nothing, Refs, Origins
  <2>2. PICK x : x = [Nothing EXCEPT !.of = "position"]
    OBVIOUS
  <2>3. x \in Refs /\ x.of = "position"
    BY <2>1, <2>2 DEF Refs, Origins
  <2>4. x = OutputCurrents
    BY <1>4, <2>2 DEF OutputCurrents
  <2> QED BY <1>4, <2>3, <2>4
<1> QED BY <1>3, <1>4

(* A position controller runs: it makes the currents if all the others are *)
(* up to date.                                                             *)
LEMMA PositionServed ==
  ASSUME Typed, NEW r \in Work, NEW p \in Position
  PROVE  \E g \in Work :
           /\ g = ServiceController(r, p) /\ g.ran = r.ran \cup {p}
           /\ g.wrote = r.wrote /\ g.top = r.top /\ g.ref = r.ref /\ g.skewed = r.skewed
           /\ \A u \in Unit : g.age[u] = r.age[u]
           /\ g.age[C0s] <= 5
           /\ \A n \in Item \ Position : g.updated[n] = r.updated[n]
           /\ \/ /\ \E q \in Position : q # p /\ ~r.updated[q]
                 /\ g.ixy = r.ixy
                 /\ \A n \in Item : g.updated[n] <=> n = p \/ r.updated[n]
              \/ g.ixy = OutputCurrents
<1>0. p \in Item /\ p[1] = "P"
  BY Units0
<1>1. PICK a : a = [r EXCEPT !.ran = @ \cup {p}]
  OBVIOUS
<1>2. /\ a \in Work /\ a.ran = r.ran \cup {p}
      /\ a.updated = r.updated /\ a.wrote = r.wrote /\ a.ixy = r.ixy /\ a.top = r.top /\ a.ref = r.ref
      /\ a.skewed = r.skewed /\ a.age = r.age
  BY <1>0, <1>1 DEF Work
<1>3. PICK c : c = POS_Input(a)
  OBVIOUS
<1>4. /\ c \in Work /\ c.ran = a.ran
      /\ c.updated = a.updated /\ c.wrote = a.wrote /\ c.ixy = a.ixy /\ c.top = a.top /\ c.ref = a.ref /\ c.skewed = a.skewed
      /\ \A u \in Unit : c.age[u] = a.age[u]
      /\ c.age[C0s] <= 5
  <2>1. a.age \in [Unit \cup {C0s} -> 0 .. 6]
    BY <1>2 DEF Work, MaxAge
  <2>2. a.age[C0s] \in 0 .. 6
    BY <2>1
  <2>3. CASE a.age[C0s] > 5
    <3>1. c = [a EXCEPT !.age[C0s] = 0]
      BY <1>3, <2>3 DEF POS_Input
    <3>2. c \in Work /\ c.age = [a.age EXCEPT ![C0s] = 0]
      BY <1>2, <2>1, <3>1 DEF Work, MaxAge
    <3>3. (\A u \in Unit : c.age[u] = a.age[u]) /\ c.age[C0s] <= 5
      BY <2>1, <3>2, Units0
    <3>4. c.ran = a.ran /\ c.updated = a.updated /\ c.wrote = a.wrote /\ c.ixy = a.ixy /\ c.top = a.top
          /\ c.ref = a.ref /\ c.skewed = a.skewed
      BY <1>2, <3>1 DEF Work
    <3> QED BY <3>2, <3>3, <3>4
  <2>4. CASE ~(a.age[C0s] > 5)
    <3>1. c = a
      BY <1>3, <2>4 DEF POS_Input
    <3>2. a.age[C0s] <= 5
      BY <2>2, <2>4
    <3> QED BY <1>2, <3>1, <3>2
  <2> QED BY <2>3, <2>4
<1>5. PICK up : up = [c.updated EXCEPT ![p] = TRUE]
  OBVIOUS
<1>6. up \in [Item -> BOOLEAN] /\ \A n \in Item : up[n] <=> n = p \/ c.updated[n]
  BY <1>0, <1>4, <1>5 DEF Work
<1>7. ServiceController(r, p) = POS_Output(c, p)
  BY <1>0, <1>1, <1>3 DEF ServiceController
<1>8. CASE \E q \in Position : ~up[q]
  <2>1. PICK g : g = [c EXCEPT !.updated = up]
    OBVIOUS
  <2>2. POS_Output(c, p) = g
    BY <1>5, <1>8, <2>1 DEF POS_Output
  <2>3. /\ g \in Work /\ g.ran = c.ran
        /\ g.updated = up /\ g.wrote = c.wrote /\ g.ixy = c.ixy /\ g.top = c.top /\ g.ref = c.ref
        /\ g.skewed = c.skewed /\ g.age = c.age
    BY <1>4, <1>6, <2>1 DEF Work
  <2>4. \E q \in Position : q # p /\ ~r.updated[q]
    BY <1>2, <1>4, <1>6, <1>8, Units0
  <2>5. \A n \in Item : g.updated[n] <=> n = p \/ r.updated[n]
    BY <1>2, <1>4, <1>6, <2>3
  <2>6. \A n \in Item \ Position : g.updated[n] = r.updated[n]
    <3>1. \A n \in Item \ Position : n # p
      OBVIOUS
    <3>2. r.updated \in [Item -> BOOLEAN] /\ g.updated \in [Item -> BOOLEAN]
      BY <2>3 DEF Work
    <3> QED BY <2>5, <3>1, <3>2
  <2>7. /\ g = ServiceController(r, p) /\ g.ran = r.ran \cup {p}
        /\ g.wrote = r.wrote /\ g.top = r.top /\ g.ref = r.ref /\ g.skewed = r.skewed /\ g.ixy = r.ixy
        /\ (\A u \in Unit : g.age[u] = r.age[u])
        /\ g.age[C0s] <= 5
    BY <1>2, <1>4, <1>7, <2>2, <2>3
  <2> QED BY <2>3, <2>4, <2>5, <2>6, <2>7
<1>9. CASE ~\E q \in Position : ~up[q]
  <2>0. PICK none : none = [n \in Item |-> up[n] /\ n \notin Position]
    OBVIOUS
  <2>1. PICK g : g = [c EXCEPT !.updated = none, !.ixy = OutputCurrents]
    OBVIOUS
  <2>2. POS_Output(c, p) = g
    BY <1>5, <1>9, <2>0, <2>1 DEF POS_Output
  <2>21. none \in [Item -> BOOLEAN] /\ \A n \in Item \ Position : none[n] = up[n]
    BY <1>6, <2>0
  <2>3. /\ g \in Work /\ g.ran = c.ran
        /\ g.updated = none /\ g.wrote = c.wrote /\ g.ixy = OutputCurrents /\ g.top = c.top /\ g.ref = c.ref
        /\ g.skewed = c.skewed /\ g.age = c.age
    BY <1>4, <2>1, <2>21, CurrentsAre DEF Work
  <2>6. \A n \in Item \ Position : g.updated[n] = r.updated[n]
    <3>1. \A n \in Item \ Position : n # p
      OBVIOUS
    <3>2. r.updated \in [Item -> BOOLEAN] /\ g.updated \in [Item -> BOOLEAN]
      BY <2>3 DEF Work
    <3> QED BY <1>2, <1>4, <1>6, <2>21, <2>3, <3>1, <3>2
  <2>7. /\ g = ServiceController(r, p) /\ g.ran = r.ran \cup {p}
        /\ g.wrote = r.wrote /\ g.top = r.top /\ g.ref = r.ref /\ g.skewed = r.skewed
        /\ (\A u \in Unit : g.age[u] = r.age[u])
        /\ g.age[C0s] <= 5
    BY <1>2, <1>4, <1>7, <2>2, <2>3
  <2> QED BY <2>3, <2>6, <2>7
<1> QED BY <1>8, <1>9

(* What the input callback of a bridge does, when it is called. *)
Told0(r, g, u) ==
  /\ mem.own[u] = "pos" => Follows(g.ref[u], u, r.ixy, r.top)
  /\ mem.own[u] = "torque" => g.ref[u].val = mem.sent["torque"] /\ (build # "bridge" => g.top = mem.sent["torque"])

(* The controller of an H bridge runs: it asks for its reference, and      *)
(* writes.                                                                 *)
LEMMA BridgeServed ==
  ASSUME Typed, NEW r \in Work, NEW h \in Bridge, NEW u, u = <<"H", h>>
  PROVE  \E g \in Work :
           /\ g = ServiceController(r, u) /\ g.ran = r.ran \cup {u} /\ g.updated = r.updated /\ g.ixy = r.ixy
           /\ g.skewed = r.skewed
           /\ \A v \in Unit \cup {C0s} : v # u => g.age[v] = r.age[v]
           /\ \A v \in Unit : v # u => g.wrote[v] = r.wrote[v] /\ g.ref[v] = r.ref[v]
           /\ g.top \in {r.top, mem.sent["torque"]}
           /\ g.age[u] = 0 /\ Told0(r, g, u)
           /\ mem.own[u] \in {"pos", "torque"} => g.wrote[u] = r.wrote[u] + 1
<1>0. u \in Item /\ u \in Unit /\ UnitOf(u) = u /\ u[1] = "H"
  BY Items
<1>1. PICK a : a = [r EXCEPT !.ran = @ \cup {u}]
  OBVIOUS
<1>2. /\ a \in Work /\ a.ran = r.ran \cup {u}
      /\ a.updated = r.updated /\ a.wrote = r.wrote /\ a.ixy = r.ixy /\ a.top = r.top /\ a.ref = r.ref
      /\ a.skewed = r.skewed /\ a.age = r.age
  BY <1>0, <1>1 DEF Work
<1>3. PICK c : c = [a EXCEPT !.age[u] = 0]
  OBVIOUS
<1>4. /\ c \in Work /\ c.age[u] = 0 /\ \A v \in Unit \cup {C0s} : v # u => c.age[v] = a.age[v]
  <2>1. PICK x : x = [a.age EXCEPT ![u] = 0]
    OBVIOUS
  <2>2. a.age \in [Unit \cup {C0s} -> 0 .. MaxAge] /\ 0 \in 0 .. MaxAge
    BY <1>2 DEF Work, MaxAge
  <2>3. /\ x \in [Unit \cup {C0s} -> 0 .. MaxAge]
        /\ x[u] = 0 /\ \A v \in Unit \cup {C0s} : v # u => x[v] = a.age[v]
    BY <1>0, <2>1, <2>2
  <2>4. c = [a EXCEPT !.age = x]
    BY <1>3, <2>1
  <2>5. c \in Work /\ c.age = x
    BY <1>2, <2>3, <2>4 DEF Work
  <2> QED BY <2>3, <2>5
<1>5. /\ c.ran = a.ran /\ c.updated = a.updated /\ c.wrote = a.wrote /\ c.ixy = a.ixy /\ c.top = a.top /\ c.ref = a.ref
      /\ c.skewed = a.skewed
  BY <1>2, <1>3 DEF Work
<1>6. PICK i \in Work :
        /\ i = GetInput(c, u)
        /\ i.updated = c.updated /\ i.ran = c.ran /\ i.wrote = c.wrote /\ i.ixy = c.ixy /\ i.skewed = c.skewed
        /\ i.age = c.age
        /\ \A v \in Unit : v # u => i.ref[v] = c.ref[v]
        /\ i.top \in {c.top, mem.sent["torque"]}
        /\ mem.own[u] = "pos" => Follows(i.ref[u], u, c.ixy, c.top)
        /\ mem.own[u] = "torque" => i.ref[u].val = mem.sent["torque"] /\ (build # "bridge" => i.top = mem.sent["torque"])
  BY <1>0, <1>4, InputIs
<1>7. PICK g \in Work :
        /\ g = WriteOutput(i, u)
        /\ g.updated = i.updated /\ g.ran = i.ran /\ g.ref = i.ref /\ g.ixy = i.ixy /\ g.top = i.top
        /\ g.skewed = i.skewed /\ g.age = i.age
        /\ \A v \in Unit : v # u => g.wrote[v] = i.wrote[v]
        /\ mem.own[u] \in {"pos", "torque"} \/ u[2] = 0 => g.wrote[u] = i.wrote[u] + 1
  BY <1>0, OutputIs
<1>8. ServiceController(r, u) = HB_Output(HB_Input(a, u), u)
  BY <1>0, <1>1 DEF ServiceController
<1>9. g = ServiceController(r, u)
  BY <1>3, <1>6, <1>7, <1>8 DEF HB_Input, HB_Output
<1>10. Told0(r, g, u)
  <2>1. i.ref[u] = g.ref[u] /\ i.top = g.top /\ c.ixy = r.ixy /\ c.top = r.top
    BY <1>2, <1>5, <1>7
  <2> QED BY <1>6, <2>1 DEF Told0
<1>11. /\ g.ran = r.ran \cup {u} /\ g.updated = r.updated /\ g.ixy = r.ixy
       /\ g.skewed = r.skewed
       /\ g.top \in {r.top, mem.sent["torque"]}
       /\ g.age[u] = 0
  BY <1>2, <1>4, <1>5, <1>6, <1>7
<1>12. /\ \A v \in Unit \cup {C0s} : v # u => g.age[v] = r.age[v]
       /\ \A v \in Unit : v # u => g.wrote[v] = r.wrote[v] /\ g.ref[v] = r.ref[v]
  BY <1>2, <1>4, <1>5, <1>6, <1>7
<1>13. mem.own[u] \in {"pos", "torque"} => g.wrote[u] = r.wrote[u] + 1
  BY <1>2, <1>5, <1>6, <1>7
<1> QED BY <1>9, <1>10, <1>11, <1>12, <1>13

(* A loop of an inverter runs: the first one of an interrupt asks for the  *)
(* reference, and the one that completes the pair writes.                  *)
LEMMA LoopServed ==
  ASSUME Typed, NEW r \in Work, NEW i \in Inv, NEW it \in Used(i), NEW u, u = <<"V", i>>
  PROVE  \E g \in Work :
           /\ g = ServiceController(r, it) /\ g.ran = r.ran \cup {it} /\ g.ixy = r.ixy
           /\ \A v \in Unit \cup {C0s} : v # u => g.age[v] = r.age[v]
           /\ \A v \in Unit : v # u => g.wrote[v] = r.wrote[v] /\ g.ref[v] = r.ref[v]
           /\ g.top \in {r.top, mem.sent["torque"]}
           /\ \A n \in Item \ Used(i) : g.updated[n] = r.updated[n]
           /\ \A j \in Inv \ {i} : j \in g.skewed <=> j \in r.skewed
           /\ r.age[u] <= 3 => g.age[u] = r.age[u] /\ g.ref[u] = r.ref[u] /\ g.top = r.top
           /\ r.age[u] > 3 => g.age[u] = 0 /\ Told0(r, g, u)
           /\ \/ /\ \E l \in LoopsOf(i) : l # it /\ ~r.updated[l]
                 /\ \A n \in Item : g.updated[n] <=> n = it \/ r.updated[n]
                 /\ g.wrote[u] = r.wrote[u] /\ g.skewed = r.skewed
              \/ /\ \A l \in LoopsOf(i) : l = it \/ r.updated[l]
                 /\ \A n \in Used(i) : ~g.updated[n]
                 /\ mem.own[u] \in {"pos", "torque"} \/ i = 0 => g.wrote[u] = r.wrote[u] + 1
                 /\ LoopsOf(i) \subseteq r.ran \cup {it} => g.skewed = r.skewed \ {i}
<1>0. /\ it \in Item /\ u \in Unit /\ UnitOf(it) = u /\ it[1] \notin {"P", "H"} /\ it[2] = i /\ u # C0s /\ u[2] = i
      /\ Used(i) \subseteq Item /\ LoopsOf(i) \subseteq Item /\ LoopsOf(i) \subseteq Used(i)
  BY Units0
<1>1. PICK a : a = [r EXCEPT !.ran = @ \cup {it}]
  OBVIOUS
<1>2. /\ a \in Work /\ a.ran = r.ran \cup {it}
      /\ a.updated = r.updated /\ a.wrote = r.wrote /\ a.ixy = r.ixy /\ a.top = r.top /\ a.ref = r.ref
      /\ a.skewed = r.skewed /\ a.age = r.age
  BY <1>0, <1>1 DEF Work
<1>3. PICK c \in Work :
        /\ c = VSI_Input(a, u)
        /\ c.updated = r.updated /\ c.ran = a.ran /\ c.wrote = r.wrote /\ c.ixy = r.ixy /\ c.skewed = r.skewed
        /\ \A v \in Unit \cup {C0s} : v # u => c.age[v] = r.age[v]
        /\ \A v \in Unit : v # u => c.ref[v] = r.ref[v]
        /\ c.top \in {r.top, mem.sent["torque"]}
        /\ r.age[u] <= 3 => c.age[u] = r.age[u] /\ c.ref[u] = r.ref[u] /\ c.top = r.top
        /\ r.age[u] > 3 => c.age[u] = 0 /\ Told0(r, c, u)
  <2>0. r.age[u] \in 0 .. MaxAge
    BY <1>0 DEF Work
  <2>1. CASE r.age[u] > 3
    <3>1. PICK b : b = [a EXCEPT !.age[u] = 0]
      OBVIOUS
    <3>2. b \in Work /\ b.age[u] = 0 /\ \A v \in Unit \cup {C0s} : v # u => b.age[v] = a.age[v]
      <4>1. PICK x : x = [a.age EXCEPT ![u] = 0]
        OBVIOUS
      <4>2. a.age \in [Unit \cup {C0s} -> 0 .. MaxAge] /\ 0 \in 0 .. MaxAge /\ u \in Unit
        BY <1>0, <1>2 DEF Work, MaxAge
      <4>3. /\ x \in [Unit \cup {C0s} -> 0 .. MaxAge] /\ x[u] = 0
            /\ \A v \in Unit \cup {C0s} : v # u => x[v] = a.age[v]
        BY <4>1, <4>2
      <4>4. b = [a EXCEPT !.age = x]
        BY <3>1, <4>1
      <4>5. b \in Work /\ b.age = x
        BY <1>2, <4>3, <4>4 DEF Work
      <4> QED BY <4>3, <4>5
    <3>3. /\ b.ran = a.ran /\ b.updated = a.updated /\ b.wrote = a.wrote /\ b.ixy = a.ixy /\ b.top = a.top /\ b.ref = a.ref
          /\ b.skewed = a.skewed
      BY <1>2, <3>1 DEF Work
    <3>4. PICK c \in Work :
            /\ c = GetInput(b, u)
            /\ c.updated = b.updated /\ c.ran = b.ran /\ c.wrote = b.wrote /\ c.ixy = b.ixy /\ c.skewed = b.skewed
            /\ c.age = b.age
            /\ \A v \in Unit : v # u => c.ref[v] = b.ref[v]
            /\ c.top \in {b.top, mem.sent["torque"]}
            /\ mem.own[u] = "pos" => Follows(c.ref[u], u, b.ixy, b.top)
            /\ mem.own[u] = "torque" => c.ref[u].val = mem.sent["torque"] /\ (build # "bridge" => c.top = mem.sent["torque"])
      BY <1>0, <3>2, InputIs
    <3>5. c = VSI_Input(a, u)
      BY <1>2, <2>1, <3>1, <3>4 DEF VSI_Input
    <3>6. Told0(r, c, u)
      <4>1. b.ixy = r.ixy /\ b.top = r.top
        BY <1>2, <3>3
      <4> QED BY <3>4, <4>1 DEF Told0
    <3>7. /\ c.updated = r.updated /\ c.ran = a.ran /\ c.wrote = r.wrote /\ c.ixy = r.ixy /\ c.skewed = r.skewed
          /\ c.top \in {r.top, mem.sent["torque"]}
      BY <1>2, <3>3, <3>4
    <3>8. /\ \A v \in Unit \cup {C0s} : v # u => c.age[v] = r.age[v]
          /\ \A v \in Unit : v # u => c.ref[v] = r.ref[v]
          /\ c.age[u] = 0
      BY <1>2, <3>2, <3>3, <3>4
    <3>9. ~(r.age[u] <= 3)
      BY <2>0, <2>1 DEF MaxAge
    <3> QED BY <3>5, <3>6, <3>7, <3>8, <3>9
  <2>2. CASE ~(r.age[u] > 3)
    <3>1. VSI_Input(a, u) = a
      BY <1>2, <2>2 DEF VSI_Input
    <3> QED BY <1>2, <2>2, <3>1
  <2> QED BY <2>1, <2>2
<1>4. PICK up : up = [c.updated EXCEPT ![it] = TRUE]
  OBVIOUS
<1>5. up \in [Item -> BOOLEAN] /\ \A n \in Item : up[n] <=> n = it \/ r.updated[n]
  BY <1>0, <1>3, <1>4 DEF Work
<1>6. ServiceController(r, it) = VSI_Output(c, it)
  BY <1>0, <1>1, <1>3 DEF ServiceController
<1>7. CASE \E l \in LoopsOf(i) : ~up[l]
  <2>1. PICK g : g = [c EXCEPT !.updated = up]
    OBVIOUS
  <2>2. VSI_Output(c, it) = g
    BY <1>0, <1>4, <1>7, <2>1 DEF VSI_Output
  <2>3. /\ g \in Work /\ g.ran = c.ran
        /\ g.updated = up /\ g.wrote = c.wrote /\ g.ixy = c.ixy /\ g.top = c.top /\ g.ref = c.ref
        /\ g.skewed = c.skewed /\ g.age = c.age
    BY <1>3, <1>5, <2>1 DEF Work
  <2>4. \E l \in LoopsOf(i) : l # it /\ ~r.updated[l]
    BY <1>0, <1>5, <1>7
  <2>5. \A n \in Item : g.updated[n] <=> n = it \/ r.updated[n]
    BY <1>5, <2>3
  <2>6. \A n \in Item \ Used(i) : g.updated[n] = r.updated[n]
    <3>1. \A n \in Item \ Used(i) : n # it
      OBVIOUS
    <3>2. r.updated \in [Item -> BOOLEAN] /\ g.updated \in [Item -> BOOLEAN]
      BY <2>3 DEF Work
    <3> QED BY <2>5, <3>1, <3>2
  <2>7. r.age[u] > 3 => g.age[u] = 0 /\ Told0(r, g, u)
    BY <1>3, <2>3 DEF Told0
  <2>8. /\ g = ServiceController(r, it) /\ g.ran = r.ran \cup {it} /\ g.ixy = r.ixy
        /\ g.top \in {r.top, mem.sent["torque"]}
        /\ r.age[u] <= 3 => g.age[u] = r.age[u] /\ g.ref[u] = r.ref[u] /\ g.top = r.top
        /\ g.wrote = r.wrote /\ g.skewed = r.skewed
    BY <1>2, <1>3, <1>6, <2>2, <2>3
  <2>9. /\ \A v \in Unit \cup {C0s} : v # u => g.age[v] = r.age[v]
        /\ \A v \in Unit : v # u => g.ref[v] = r.ref[v]
    BY <1>3, <2>3
  <2> QED BY <2>3, <2>4, <2>5, <2>6, <2>7, <2>8, <2>9
<1>8. CASE ~\E l \in LoopsOf(i) : ~up[l]
  <2>1. PICK none : none = [n \in Item |-> up[n] /\ n \notin Used(i)]
    OBVIOUS
  <2>2. none \in [Item -> BOOLEAN] /\ (\A n \in Item \ Used(i) : none[n] = up[n]) /\ \A n \in Used(i) : ~none[n]
    BY <1>0, <1>5, <2>1
  <2>3. PICK sk : sk = IF LoopsOf(i) \subseteq c.ran THEN c.skewed \ {i} ELSE c.skewed \cup {i}
    OBVIOUS
  <2>4. sk \in SUBSET Inv /\ (\A j \in Inv \ {i} : j \in sk <=> j \in r.skewed)
        /\ (LoopsOf(i) \subseteq r.ran \cup {it} => sk = r.skewed \ {i})
    BY <1>2, <1>3, <2>3 DEF Work
  <2>5. PICK e : e = [c EXCEPT !.updated = none, !.skewed = sk]
    OBVIOUS
  <2>6. /\ e \in Work /\ e.ran = c.ran
        /\ e.updated = none /\ e.wrote = c.wrote /\ e.ixy = c.ixy /\ e.top = c.top /\ e.ref = c.ref
        /\ e.skewed = sk /\ e.age = c.age
    BY <1>3, <2>2, <2>4, <2>5 DEF Work
  <2>7. PICK g \in Work :
          /\ g = WriteOutput(e, u)
          /\ g.updated = e.updated /\ g.ran = e.ran /\ g.ref = e.ref /\ g.ixy = e.ixy /\ g.top = e.top
          /\ g.skewed = e.skewed /\ g.age = e.age
          /\ \A v \in Unit : v # u => g.wrote[v] = e.wrote[v]
          /\ mem.own[u] \in {"pos", "torque"} \/ u[2] = 0 => g.wrote[u] = e.wrote[u] + 1
    BY <1>0, <2>6, OutputIs
  <2>8. VSI_Output(c, it) = g
    BY <1>0, <1>4, <1>8, <2>1, <2>3, <2>5, <2>7 DEF VSI_Output
  <2>9. \A l \in LoopsOf(i) : l = it \/ r.updated[l]
    BY <1>0, <1>5, <1>8
  <2>10. \A n \in Item \ Used(i) : g.updated[n] = r.updated[n]
    <3>1. \A n \in Item \ Used(i) : n # it
      OBVIOUS
    <3>2. r.updated \in [Item -> BOOLEAN] /\ up \in [Item -> BOOLEAN]
      BY <1>5 DEF Work
    <3>3. \A n \in Item \ Used(i) : up[n] = r.updated[n]
      BY <1>5, <3>1, <3>2
    <3> QED BY <2>2, <2>6, <2>7, <3>3
  <2>11. r.age[u] > 3 => g.age[u] = 0 /\ Told0(r, g, u)
    BY <1>3, <2>6, <2>7 DEF Told0
  <2>12. /\ g = ServiceController(r, it) /\ g.ran = r.ran \cup {it} /\ g.ixy = r.ixy
         /\ g.top \in {r.top, mem.sent["torque"]}
         /\ r.age[u] <= 3 => g.age[u] = r.age[u] /\ g.ref[u] = r.ref[u] /\ g.top = r.top
    BY <1>2, <1>3, <1>6, <2>6, <2>7, <2>8
  <2>13. /\ \A v \in Unit \cup {C0s} : v # u => g.age[v] = r.age[v]
         /\ \A v \in Unit : v # u => g.wrote[v] = r.wrote[v] /\ g.ref[v] = r.ref[v]
    BY <1>3, <2>6, <2>7
  <2>14. /\ \A j \in Inv \ {i} : j \in g.skewed <=> j \in r.skewed
         /\ LoopsOf(i) \subseteq r.ran \cup {it} => g.skewed = r.skewed \ {i}
         /\ \A n \in Used(i) : ~g.updated[n]
         /\ mem.own[u] \in {"pos", "torque"} \/ i = 0 => g.wrote[u] = r.wrote[u] + 1
    BY <1>0, <1>3, <2>2, <2>4, <2>6, <2>7
  <2> QED BY <2>9, <2>10, <2>11, <2>12, <2>13, <2>14
<1> QED BY <1>7, <1>8

(* What the interrupts keep; the kinds of items; and that each controller  *)
(* keeps the types and counts itself as run.                               *)
Io == [age : [Unit \cup {C0s} -> 0 .. MaxAge], ixy : Refs, top : Int, ref : [Unit -> Refs], skewed : SUBSET Inv, since : 0 .. 2]
IoTyped == io \in Io

LEMMA Kinds ==
  ASSUME NEW it \in Item
  PROVE  it \in Position \/ (\E h \in Bridge : it = <<"H", h>>) \/ \E i \in Inv : it \in Used(i)
BY DEF Item, Used

LEMMA ServedOne ==
  ASSUME Typed, NEW r \in Work, NEW it \in Item
  PROVE  ServiceController(r, it) \in Work /\ ServiceController(r, it).ran = r.ran \cup {it}
<1>1. CASE it \in Position
  BY <1>1, PositionServed
<1>2. CASE \E h \in Bridge : it = <<"H", h>>
  BY <1>2, BridgeServed
<1>3. CASE \E i \in Inv : it \in Used(i)
  <2>1. PICK i \in Inv : it \in Used(i)
    BY <1>3
  <2>2. PICK u : u = <<"V", i>>
    OBVIOUS
  <2>3. PICK g \in Work : g = ServiceController(r, it) /\ g.ran = r.ran \cup {it}
    BY <2>1, <2>2, LoopServed
  <2> QED BY <2>3
<1> QED BY <1>1, <1>2, <1>3, Kinds

(* The state before the first controller: no duty ratio is written, and    *)
(* enough time has passed since the last time that each ran.               *)
LEMMA BeforeIs ==
  ASSUME Typed, IoTyped, NEW gap \in Gaps
  PROVE  \E r \in Work :
           /\ r = Before(gap) /\ r.updated = mem.updated /\ r.ran = {} /\ r.ixy = io.ixy /\ r.top = io.top
           /\ r.ref = io.ref /\ r.skewed = io.skewed
           /\ \A u \in Unit : r.wrote[u] = 0
           /\ \A u \in Unit \cup {C0s} : r.age[u] >= 4
<1>0. gap \in 4 .. 6
  BY BasicControlAssumption
<1>1. /\ io.age \in [Unit \cup {C0s} -> 0 .. 6] /\ io.ixy \in Refs /\ io.top \in Int /\ io.ref \in [Unit -> Refs]
      /\ io.skewed \in SUBSET Inv /\ mem.updated \in [Item -> BOOLEAN] /\ DOMAIN io.age = Unit \cup {C0s}
  BY DEF IoTyped, Io, Typed, Memory, MaxAge
<1>2. PICK age : age = [u \in Unit \cup {C0s} |-> IF io.age[u] + gap > 6 THEN 6 ELSE io.age[u] + gap]
  OBVIOUS
<1>3. age \in [Unit \cup {C0s} -> 0 .. 6] /\ \A u \in Unit \cup {C0s} : age[u] >= 4
  <2> SUFFICES ASSUME NEW u \in Unit \cup {C0s}
               PROVE  /\ (IF io.age[u] + gap > 6 THEN 6 ELSE io.age[u] + gap) \in 0 .. 6
                      /\ (IF io.age[u] + gap > 6 THEN 6 ELSE io.age[u] + gap) >= 4
    BY <1>2
  <2>1. io.age[u] \in 0 .. 6
    BY <1>1
  <2> QED BY <1>0, <2>1
<1>4. PICK wr : wr = [u \in Unit |-> 0]
  OBVIOUS
<1>5. wr \in [Unit -> Nat] /\ \A u \in Unit : wr[u] = 0
  BY <1>4
<1>6. PICK r : r = [updated |-> mem.updated, ran |-> {}, wrote |-> wr, ixy |-> io.ixy, top |-> io.top, ref |-> io.ref,
                    skewed |-> io.skewed, age |-> age]
  OBVIOUS
<1>7. r \in Work /\ r.wrote = wr /\ r.age = age
  BY <1>1, <1>3, <1>5, <1>6 DEF Work, MaxAge
<1>8. r.updated = mem.updated /\ r.ran = {} /\ r.ixy = io.ixy /\ r.top = io.top /\ r.ref = io.ref /\ r.skewed = io.skewed
  BY <1>6
<1>9. r = Before(gap)
  BY <1>1, <1>2, <1>4, <1>6 DEF Before, MaxAge
<1> QED BY <1>3, <1>5, <1>7, <1>8, <1>9

(* The states of an interrupt are of their type, and the controllers that  *)
(* ran are a prefix of the list.                                           *)
LEMMA Worked ==
  ASSUME Typed, IoTyped, NEW gap \in Gaps, NEW w \in Seq(Item), NEW f, Serves(f, w, gap)
  PROVE  \A k \in 0 .. Len(w) : f[k] \in Work /\ f[k].ran = {w[j] : j \in 1 .. k}
<1> DEFINE n == Len(w)
           good(k) == f[k] \in Work /\ f[k].ran = {w[j] : j \in 1 .. k}
           P == [k \in 0 .. n |-> good(k)]
<1>0. n \in Nat /\ \A k \in 1 .. n : w[k] \in Item
  OBVIOUS
<1>1. good(0)
  BY BeforeIs DEF Serves
<1>2. ASSUME NEW k \in 1 .. n, good(k - 1) PROVE good(k)
  <2>1. f[k] = ServiceController(f[k - 1], w[k])
    BY DEF Serves
  <2>2. f[k] \in Work /\ f[k].ran = f[k - 1].ran \cup {w[k]}
    BY <1>0, <1>2, <2>1, ServedOne
  <2>3. 1 .. k = (1 .. k - 1) \cup {k}
    BY <1>0
  <2>4. {w[j] : j \in 1 .. k} = {w[j] : j \in 1 .. k - 1} \cup {w[k]}
    BY <2>3
  <2> QED BY <1>2, <2>2, <2>4
<1> HIDE DEF n, good
<1>3. P \in [0 .. n -> BOOLEAN] /\ \A k \in 0 .. n : P[k] <=> good(k)
  <2>1. \A k \in 0 .. n : good(k) \in BOOLEAN
    BY DEF good
  <2> QED BY <2>1
<1> HIDE DEF P
<1>4. P[0] /\ \A k \in 1 .. n : P[k - 1] => P[k]
  <2>1. 0 \in 0 .. n /\ \A k \in 1 .. n : k \in 0 .. n /\ k - 1 \in 0 .. n
    BY <1>0
  <2> QED BY <1>1, <1>2, <1>3, <2>1
<1>5. \A k \in 0 .. n : P[k]
  BY <1>0, <1>3, <1>4, Along
<1> QED BY <1>3, <1>5 DEF n, good

(* Between the two groups of stores of an operation on the list: the walk  *)
(* is already that of the list s.list, and the second group sets the flag  *)
(* and the pointers of the item right. And where the main loop stands: at  *)
(* a clean list, or halfway.                                               *)
Halfway(s, t) ==
  /\ agenda # << >> /\ Good(build, s)
  /\ \E n \in Item, p \in Item \cup {NIL}, b \in BOOLEAN :
       /\ Head(agenda) = Stores(<< <<"prev", n, p>>, <<"next", n, NIL>>, <<"reg", n, b>> >>)
       /\ Linked(mem.next, s.list)
       /\ Shaped([mem.next EXCEPT ![n] = NIL], [mem.prev EXCEPT ![n] = p], [mem.reg EXCEPT ![n] = b], s.list)
  /\ Leads(build, Tail(agenda), s, t)

Onward(s, t) == \/ Clean(s) /\ Leads(build, agenda, s, t)
                \/ Rostered(s) /\ Halfway(s, t)

(* What a store leaves alone. *)
SameLinks(m, m2) == m2.next = m.next /\ m2.prev = m.prev /\ m2.reg = m.reg
Quiet(m, m2) == m2.stopped = m.stopped /\ \A n \in Item : m2.updated[n] => m.updated[n]
SameState(m, m2) == m2.asked = m.asked /\ Quiet(m, m2)
SameUnits(m, m2) == m2.ready = m.ready /\ m2.own = m.own /\ m2.useZero = m.useZero

(* A store to a link, to a pointer back, to a flag.                        *)
LEMMA PutLinks ==
  ASSUME NEW m \in Memory
  PROVE  /\ \A n \in Item \cup {C0s}, v \in Item \cup {NIL} : \E m2 \in Memory :
              /\ m2 = Put(m, <<"next", n, v>>) /\ m2.next = [m.next EXCEPT ![n] = v] /\ m2.prev = m.prev /\ m2.reg = m.reg
              /\ SameUnits(m, m2) /\ SameState(m, m2)
         /\ \A n \in Item, v \in Item \cup {NIL} : \E m2 \in Memory :
              /\ m2 = Put(m, <<"prev", n, v>>) /\ m2.prev = [m.prev EXCEPT ![n] = v] /\ m2.next = m.next /\ m2.reg = m.reg
              /\ SameUnits(m, m2) /\ SameState(m, m2)
         /\ \A n \in Item, b \in BOOLEAN : \E m2 \in Memory :
              /\ m2 = Put(m, <<"reg", n, b>>) /\ m2.reg = [m.reg EXCEPT ![n] = b] /\ m2.next = m.next /\ m2.prev = m.prev
              /\ SameUnits(m, m2) /\ SameState(m, m2)
<1>1. ASSUME NEW n \in Item \cup {C0s}, NEW v \in Item \cup {NIL}
      PROVE  \E m2 \in Memory :
              /\ m2 = Put(m, <<"next", n, v>>) /\ m2.next = [m.next EXCEPT ![n] = v] /\ m2.prev = m.prev /\ m2.reg = m.reg
              /\ SameUnits(m, m2) /\ SameState(m, m2)
  <2>1. PICK x : x = [m.next EXCEPT ![n] = v]
    OBVIOUS
  <2>2. x \in Links
    BY <2>1 DEF Memory, Links
  <2>3. PICK m2 : m2 = [m EXCEPT !.next = x]
    OBVIOUS
  <2>4. m2 = Put(m, <<"next", n, v>>)
    BY <2>1, <2>3 DEF Put
  <2>5. m2 \in Memory /\ m2.next = x /\ m2.prev = m.prev /\ m2.reg = m.reg /\ SameUnits(m, m2) /\ SameState(m, m2)
    BY <2>2, <2>3 DEF Memory, SameUnits, SameState, Quiet
  <2> QED BY <2>1, <2>4, <2>5
<1>2. ASSUME NEW n \in Item, NEW v \in Item \cup {NIL}
      PROVE  \E m2 \in Memory :
              /\ m2 = Put(m, <<"prev", n, v>>) /\ m2.prev = [m.prev EXCEPT ![n] = v] /\ m2.next = m.next /\ m2.reg = m.reg
              /\ SameUnits(m, m2) /\ SameState(m, m2)
  <2>1. PICK x : x = [m.prev EXCEPT ![n] = v]
    OBVIOUS
  <2>2. x \in BackLinks
    BY <2>1 DEF Memory, BackLinks
  <2>3. PICK m2 : m2 = [m EXCEPT !.prev = x]
    OBVIOUS
  <2>4. m2 = Put(m, <<"prev", n, v>>)
    BY <2>1, <2>3 DEF Put
  <2>5. m2 \in Memory /\ m2.prev = x /\ m2.next = m.next /\ m2.reg = m.reg /\ SameUnits(m, m2) /\ SameState(m, m2)
    BY <2>2, <2>3 DEF Memory, SameUnits, SameState, Quiet
  <2> QED BY <2>1, <2>4, <2>5
<1>3. ASSUME NEW n \in Item, NEW b \in BOOLEAN
      PROVE  \E m2 \in Memory :
              /\ m2 = Put(m, <<"reg", n, b>>) /\ m2.reg = [m.reg EXCEPT ![n] = b] /\ m2.next = m.next /\ m2.prev = m.prev
              /\ SameUnits(m, m2) /\ SameState(m, m2)
  <2>1. PICK x : x = [m.reg EXCEPT ![n] = b]
    OBVIOUS
  <2>2. x \in [Item -> BOOLEAN]
    BY <2>1 DEF Memory
  <2>3. PICK m2 : m2 = [m EXCEPT !.reg = x]
    OBVIOUS
  <2>4. m2 = Put(m, <<"reg", n, b>>)
    BY <2>1, <2>3 DEF Put
  <2>5. m2 \in Memory /\ m2.reg = x /\ m2.next = m.next /\ m2.prev = m.prev /\ SameUnits(m, m2) /\ SameState(m, m2)
    BY <2>2, <2>3 DEF Memory, SameUnits, SameState, Quiet
  <2> QED BY <2>1, <2>4, <2>5
<1> QED BY <1>1, <1>2, <1>3

(* The last group of stores of what changes the list. *)
LastGroup(n, p, b) == << <<"prev", n, p>>, <<"next", n, NIL>>, <<"reg", n, b>> >>

LEMMA GroupStored ==
  ASSUME NEW m \in Memory, NEW n \in Item, NEW p \in Item \cup {NIL}, NEW b \in BOOLEAN
  PROVE  \E m2 \in Memory :
           /\ m2 = Stored(m, LastGroup(n, p, b))
           /\ m2.next = [m.next EXCEPT ![n] = NIL] /\ m2.prev = [m.prev EXCEPT ![n] = p] /\ m2.reg = [m.reg EXCEPT ![n] = b]
           /\ SameUnits(m, m2) /\ SameState(m, m2)
<1>1. PICK m3 \in Memory :
        /\ m3 = Put(m, <<"prev", n, p>>) /\ m3.prev = [m.prev EXCEPT ![n] = p] /\ m3.next = m.next /\ m3.reg = m.reg
        /\ SameUnits(m, m3) /\ SameState(m, m3)
  BY PutLinks
<1>2. PICK m4 \in Memory :
        /\ m4 = Put(m3, <<"next", n, NIL>>) /\ m4.next = [m3.next EXCEPT ![n] = NIL] /\ m4.prev = m3.prev /\ m4.reg = m3.reg
        /\ SameUnits(m3, m4) /\ SameState(m3, m4)
  BY PutLinks
<1>3. PICK m2 \in Memory :
        /\ m2 = Put(m4, <<"reg", n, b>>) /\ m2.reg = [m4.reg EXCEPT ![n] = b] /\ m2.next = m4.next /\ m2.prev = m4.prev
        /\ SameUnits(m4, m2) /\ SameState(m4, m2)
  BY PutLinks
<1>4. m2 = Stored(m, << <<"prev", n, p>>, <<"next", n, NIL>>, <<"reg", n, b>> >>)
  BY <1>1, <1>2, <1>3, StoredThree
<1>41. m2 = Stored(m, LastGroup(n, p, b))
  BY <1>4 DEF LastGroup
<1>5. m2.next = [m.next EXCEPT ![n] = NIL] /\ m2.prev = [m.prev EXCEPT ![n] = p] /\ m2.reg = [m.reg EXCEPT ![n] = b]
  BY <1>1, <1>2, <1>3
<1>6. SameUnits(m, m2) /\ SameState(m, m2)
  BY <1>1, <1>2, <1>3 DEF SameUnits, SameState, Quiet
<1> QED BY <1>41, <1>5, <1>6

(* A step of the main loop does an operation of one group, of none, or the *)
(* first group of two and leaves the second to do.                         *)
LEMMA OneGroup ==
  ASSUME MainStore, NEW x, Head(agenda) = Stores(x), IsSeq(Tail(agenda))
  PROVE  mem' = Stored(mem, x) /\ agenda' = Tail(agenda)
<1> DEFINE e == Tail(agenda)
           g == Groups(mem, Head(agenda))
<1>1. g = <<x>>
  BY DEF Groups, Stores
<1>2. /\ mem' = IF g = << >> THEN mem ELSE Stored(mem, g[1])
      /\ agenda' = [k \in 1 .. Len(g) - 1 |-> Stores(g[k + 1])] \o e
  BY DEF MainStore
<1>3. e \in Seq(Range(e))
  BY DEF IsSeq
<1> HIDE DEF e, g
<1>4. Len(g) = 1 /\ g[1] = x /\ g # << >>
  BY <1>1
<1>5. 1 .. Len(g) - 1 = {}
  BY <1>4
<1>6. [k \in 1 .. Len(g) - 1 |-> Stores(g[k + 1])] = << >>
  <2>1. [k \in {} |-> Stores(g[k + 1])] = << >>
    OBVIOUS
  <2> QED BY <1>5, <2>1, Zenon
<1>7. << >> \o e = e
  BY <1>3
<1>8. mem' = Stored(mem, x) /\ agenda' = e
  BY <1>2, <1>4, <1>6, <1>7
<1> QED BY <1>8 DEF e

LEMMA NoGroup ==
  ASSUME MainStore, Groups(mem, Head(agenda)) = << >>, IsSeq(Tail(agenda))
  PROVE  mem' = mem /\ agenda' = Tail(agenda)
<1> DEFINE e == Tail(agenda)
           g == Groups(mem, Head(agenda))
<1>1. g = << >>
  OBVIOUS
<1>2. /\ mem' = IF g = << >> THEN mem ELSE Stored(mem, g[1])
      /\ agenda' = [k \in 1 .. Len(g) - 1 |-> Stores(g[k + 1])] \o e
  BY DEF MainStore
<1>3. e \in Seq(Range(e))
  BY DEF IsSeq
<1> HIDE DEF e, g
<1>5. 1 .. Len(g) - 1 = {}
  BY <1>1
<1>6. [k \in 1 .. Len(g) - 1 |-> Stores(g[k + 1])] = << >>
  BY <1>5
<1>7. << >> \o e = e
  BY <1>3
<1>8. mem' = mem /\ agenda' = e
  BY <1>1, <1>2, <1>6, <1>7
<1> QED BY <1>8 DEF e

LEMMA TwoGroups ==
  ASSUME MainStore, NEW x, NEW y, Groups(mem, Head(agenda)) = <<x, y>>, IsSeq(Tail(agenda))
  PROVE  mem' = Stored(mem, x) /\ agenda' # << >> /\ Head(agenda') = Stores(y) /\ Tail(agenda') = Tail(agenda)
<1> DEFINE e == Tail(agenda)
           g == Groups(mem, Head(agenda))
           z == Stores(y)
           d == [k \in 1 .. Len(g) - 1 |-> Stores(g[k + 1])]
<1>1. g = <<x, y>>
  OBVIOUS
<1>2. /\ mem' = IF g = << >> THEN mem ELSE Stored(mem, g[1])
      /\ agenda' = d \o e
  BY DEF MainStore
<1>3. e \in Seq(Range(e))
  BY DEF IsSeq
<1> HIDE DEF e, g
<1>4. Len(g) = 2 /\ g[1] = x /\ g[2] = y /\ g # << >>
  BY <1>1
<1>5. Len(g) - 1 = 1
  BY <1>4
<1>6. d = <<z>>
  <2>1. d = [k \in 1 .. 1 |-> Stores(g[k + 1])]
    BY <1>5
  <2>2. \A k \in 1 .. 1 : Stores(g[k + 1]) = z
    BY <1>4
  <2> HIDE DEF z
  <2>3. d = [k \in 1 .. 1 |-> z]
    BY <2>1, <2>2
  <2> QED BY <2>3
<1> HIDE DEF d, z
<1>7. PICK S : S = Range(e) \cup {z}
  OBVIOUS
<1>8. e \in Seq(S) /\ z \in S
  BY <1>3, <1>7
<1>9. PICK q : q = <<z>> \o e
  OBVIOUS
<1>10. q # << >> /\ Head(q) = z /\ Tail(q) = e
  BY <1>8, <1>9
<1>11. agenda' = q
  BY <1>2, <1>6, <1>9
<1> QED BY <1>2, <1>4, <1>10, <1>11 DEF e, z

LEMMA RosteredIs ==
  ASSUME NEW s, Rostered(s), NEW r, r.ready = s.ready, r.own = s.own, r.useZero = s.useZero, r.asked = s.asked, r.stopped = s.stopped,
         SameUnits(mem, mem'), SameState(mem, mem')
  PROVE  Rostered(r)'
BY DEF Rostered, SameUnits, SameState, Quiet

(* The main loop finds the list that is linked.                            *)
LEMMA WalkOf ==
  ASSUME NEW s, Clean(s)
  PROVE  Walk(mem.next) = s.list /\ s.list \in Seq(Item) /\ mem.next \in Links /\ mem.prev \in BackLinks
BY WalkIs DEF Clean, Shaped, Linked

(* The groups of stores of adding and of removing.                         *)
LEMMA GroupsOf ==
  ASSUME NEW m, NEW n
  PROVE  /\ Groups(m, Register(n)) = AddLinkedListItem(m, n)
         /\ \A k : Groups(m, Unregister(k, n)) = IF m.reg[k] THEN RemoveLinkedListItem(m, n) ELSE << >>
<1>1. Register(n).do = "add" /\ Register(n).what = n
  BY DEF Register
<1>2. \A k : Unregister(k, n).do = "remove" /\ Unregister(k, n).what = n /\ Unregister(k, n).tested = k
  BY DEF Unregister
<1>3. Groups(m, Register(n)) = AddLinkedListItem(m, n)
  BY <1>1 DEF Groups
<1>4. \A k : Groups(m, Unregister(k, n)) = IF m.reg[k] THEN RemoveLinkedListItem(m, n) ELSE << >>
  <2> SUFFICES ASSUME NEW k PROVE Groups(m, Unregister(k, n)) = IF m.reg[k] THEN RemoveLinkedListItem(m, n) ELSE << >>
    OBVIOUS
  <2> QED BY <1>2 DEF Groups
<1> QED BY <1>3, <1>4

(* The first step of registering an item: it is linked, and the rest is to *)
(* do.                                                                     *)
LEMMA Registers ==
  ASSUME Typed, MainStore, NEW s, Clean(s), NEW n \in Item, Head(agenda) = Register(n), n \notin Range(s.list), s \in Roster,
         NEW r, r = [s EXCEPT !.list = Append(@, n)], Good(build, r), NEW t, Leads(build, Tail(agenda), r, t)
  PROVE  Typed' /\ Rostered(r)' /\ Halfway(r, t)' /\ Quiet(mem, mem')
<1> DEFINE at == At1(s.list)
           p == IF s.list = << >> THEN NIL ELSE at
<1>1. IsSeq(Tail(agenda))
  BY DEF Leads
<1>2. Walk(mem.next) = s.list /\ s.list \in Seq(Item)
  BY WalkOf
<1>3. Groups(mem, Head(agenda))
        = << << <<"next", at, n>> >>, << <<"prev", n, p>>, <<"next", n, NIL>>, <<"reg", n, TRUE>> >> >>
  <2>1. Groups(mem, Head(agenda)) = AddLinkedListItem(mem, n)
    BY GroupsOf
  <2>2. AddLinkedListItem(mem, n)
        = << << <<"next", at, n>> >>, << <<"prev", n, p>>, <<"next", n, NIL>>, <<"reg", n, TRUE>> >> >>
    BY <1>2 DEF AddLinkedListItem, At1
  <2> HIDE DEF at, p
  <2> QED BY <2>1, <2>2
<1>4. at \in Item \cup {C0s} /\ p \in Item \cup {NIL}
  <2>1. s.list # << >> => Last(s.list) \in Item
    BY <1>2 DEF Last
  <2> QED BY <2>1 DEF At1
<1> HIDE DEF at, p
<1>5. /\ mem' = Stored(mem, << <<"next", at, n>> >>)
      /\ agenda' # << >> /\ Head(agenda') = Stores(<< <<"prev", n, p>>, <<"next", n, NIL>>, <<"reg", n, TRUE>> >>)
      /\ Tail(agenda') = Tail(agenda)
  BY <1>1, <1>3, TwoGroups
<1>6. PICK m2 \in Memory :
        /\ m2 = Put(mem, <<"next", at, n>>) /\ m2.next = [mem.next EXCEPT ![at] = n] /\ m2.prev = mem.prev /\ m2.reg = mem.reg
        /\ SameUnits(mem, m2) /\ SameState(mem, m2)
  BY <1>4, PutLinks DEF Typed
<1>7. mem' = m2
  BY <1>5, <1>6, StoredOne
<1>8. /\ Linked(m2.next, Append(s.list, n))
      /\ Shaped([m2.next EXCEPT ![n] = NIL], [m2.prev EXCEPT ![n] = p], [m2.reg EXCEPT ![n] = TRUE], Append(s.list, n))
  <2>1. Shaped(mem.next, mem.prev, mem.reg, s.list)
    BY DEF Clean
  <2>2. PICK next2 : next2 = [mem.next EXCEPT ![At1(s.list)] = n]
    OBVIOUS
  <2>3. /\ Linked(next2, Append(s.list, n))
        /\ Shaped([next2 EXCEPT ![n] = NIL], [mem.prev EXCEPT ![n] = IF s.list = << >> THEN NIL ELSE At1(s.list)],
                  [mem.reg EXCEPT ![n] = TRUE], Append(s.list, n))
    BY <2>1, <2>2, Adding
  <2>4. next2 = m2.next
    BY <1>6, <2>2 DEF at
  <2> QED BY <1>6, <2>3, <2>4 DEF at, p
<1>9. /\ r.list = Append(s.list, n) /\ r.ready = s.ready /\ r.own = s.own /\ r.useZero = s.useZero /\ r.asked = s.asked
      /\ r.stopped = s.stopped
  BY DEF Roster
<1>10. build' = build
  BY DEF MainStore
<1>11. Typed'
  BY <1>6, <1>7 DEF Typed
<1>12. Rostered(r)'
  <2>1. Rostered(s)
    BY DEF Clean
  <2> QED BY <1>6, <1>7, <1>9, <2>1, RosteredIs
<1>13. Halfway(r, t)'
  <2>1. TRUE \in BOOLEAN
    OBVIOUS
  <2> QED BY <1>4, <1>5, <1>7, <1>8, <1>9, <1>10, <2>1 DEF Halfway
<1>14. Quiet(mem, mem')
  BY <1>6, <1>7 DEF SameState
<1> QED BY <1>11, <1>12, <1>13, <1>14

(* The first step of removing one that is not in the list.                 *)
LEMMA Clears ==
  ASSUME Typed, MainStore, NEW s, Clean(s), NEW m \in Item, NEW n \in Item, Head(agenda) = Unregister(m, n), m \in Range(s.list),
         s \in Roster, n \notin Range(s.list), Good(build, s), NEW t, Leads(build, Tail(agenda), s, t)
  PROVE  Typed' /\ Rostered(s)' /\ Halfway(s, t)' /\ Quiet(mem, mem')
<1>1. IsSeq(Tail(agenda)) /\ Rostered(s) /\ Shaped(mem.next, mem.prev, mem.reg, s.list)
  BY DEF Leads, Clean
<1>2. Walk(mem.next) = s.list /\ s.list \in Seq(Item)
  BY WalkOf
<1>3. mem.reg[m] /\ s.list # << >>
  BY <1>1, <1>2, InRange DEF Shaped, Range
<1>4. Groups(mem, Head(agenda)) = << << >>, << <<"prev", n, NIL>>, <<"next", n, NIL>>, <<"reg", n, FALSE>> >> >>
  <2>1. Groups(mem, Head(agenda)) = RemoveLinkedListItem(mem, n)
    BY <1>3, GroupsOf
  <2>2. RemoveLinkedListItem(mem, n) = << << >>, << <<"prev", n, NIL>>, <<"next", n, NIL>>, <<"reg", n, FALSE>> >> >>
    BY <1>2, <1>3 DEF RemoveLinkedListItem
  <2> QED BY <2>1, <2>2
<1>5. /\ mem' = Stored(mem, << >>)
      /\ agenda' # << >> /\ Head(agenda') = Stores(<< <<"prev", n, NIL>>, <<"next", n, NIL>>, <<"reg", n, FALSE>> >>)
      /\ Tail(agenda') = Tail(agenda)
  BY <1>1, <1>4, TwoGroups
<1>6. mem' = mem
  BY <1>5, StoredNone
<1>7. Shaped([mem.next EXCEPT ![n] = NIL], [mem.prev EXCEPT ![n] = NIL], [mem.reg EXCEPT ![n] = FALSE], s.list)
  BY <1>1, Clearing
<1>8. build' = build
  BY DEF MainStore
<1>9. Halfway(s, t)'
  <2>1. FALSE \in BOOLEAN /\ NIL \in Item \cup {NIL} /\ Linked(mem.next, s.list)
    BY <1>1 DEF Shaped
  <2> QED BY <1>5, <1>6, <1>7, <1>8, <2>1 DEF Halfway
<1> QED BY <1>1, <1>6, <1>9 DEF Typed, Rostered, Quiet

(* The stores that unlink an item, by whether it has neighbours.           *)
LEMMA Unlinks ==
  ASSUME NEW m \in Memory, NEW w, Shaped(m.next, m.prev, m.reg, w), NEW k \in 1 .. Len(w), NEW n, n = w[k]
  PROVE  \E m2 \in Memory :
           /\ m2 = Stored(m, Unlinking(m, n)) /\ m2.next = Around(m.next, w, k) /\ m2.prev = Back(m.prev, w, k)
           /\ m2.reg = m.reg /\ SameUnits(m, m2) /\ SameState(m, m2)
<1> DEFINE l == Len(w)
<1>1. /\ w \in Seq(Item) /\ m.next \in Links /\ m.prev \in BackLinks /\ n \in Item
      /\ m.prev[n] = IF k = 1 THEN NIL ELSE w[k - 1]
      /\ m.next[n] = IF k = l THEN NIL ELSE w[k + 1]
      /\ m.next[C0s] = w[1]
      /\ \A j \in 1 .. l : w[j] \in Item /\ w[j] # NIL
  <2>1. /\ w \in Seq(Item) /\ m.next \in Links /\ m.prev \in BackLinks /\ w # << >>
    BY DEF Shaped, Linked
  <2> QED BY <2>1, Names DEF Shaped, Linked
<1>2. \A i, j \in 1 .. l : w[i] = w[j] => i = j
  BY <1>1, Injective DEF Shaped
<1>3. l \in Nat /\ 1 \in 1 .. l
  BY <1>1
<1> DEFINE a == IF k = 1 THEN C0s ELSE w[k - 1]
           x == <<"next", a, m.next[n]>>
           y == <<"prev", m.next[n], m.prev[n]>>
<1> HIDE DEF l
<1>4. Unlinking(m, n) = IF k = 1 THEN IF k = l THEN <<x>> ELSE <<y, x>> ELSE IF k = l THEN <<x>> ELSE <<x, y>>
  <2>1. n = m.next[C0s] <=> k = 1
    <3>1. k \in 1 .. l
      BY DEF l
    <3>2. w[k] = w[1] <=> k = 1
      BY <1>2, <1>3, <3>1
    <3> QED BY <1>1, <3>2
  <2>2. m.prev[n] # NIL <=> k # 1
    <3>1. k # 1 => k - 1 \in 1 .. l
      BY <1>3 DEF l
    <3> QED BY <1>1, <3>1
  <2>3. m.next[n] # NIL <=> k # l
    <3>1. k # l => k + 1 \in 1 .. l
      BY <1>3 DEF l
    <3> QED BY <1>1, <3>1
  <2>4. k # 1 => m.prev[n] = a
    BY <1>1
  <2>5. k = 1 => a = C0s
    OBVIOUS
  <2> DEFINE u == <<"next", m.prev[n], m.next[n]>>
             v == <<"next", C0s, m.next[n]>>
  <2>6. (k # 1 => u = x) /\ (k = 1 => v = x)
    BY <2>4, <2>5
  <2>7. Unlinking(m, n) = (IF k # 1 THEN <<u>> ELSE << >>) \o (IF k # l THEN <<y>> ELSE << >>) \o (IF k = 1 THEN <<v>> ELSE << >>)
    BY <2>1, <2>2, <2>3 DEF Unlinking
  <2> HIDE DEF a, x, y, u, v
  <2>8. PICK S : S = {x, y, u, v}
    OBVIOUS
  <2>9. /\ << >> \in Seq(S) /\ <<x>> \in Seq(S) /\ <<y>> \in Seq(S) /\ <<u>> \in Seq(S) /\ <<v>> \in Seq(S)
    BY <2>8
  <2>10. <<x>> \o <<y>> = <<x, y>> /\ <<y>> \o <<x>> = <<y, x>>
    BY TwoJoined
  <2>11. /\ \A z \in Seq(S) : z \o << >> = z /\ << >> \o z = z
    OBVIOUS
  <2>12. CASE k = 1 /\ k = l
    <3>1. Unlinking(m, n) = << >> \o << >> \o <<x>>
      BY <2>6, <2>7, <2>12
    <3> QED BY <2>9, <2>11, <2>12, <3>1
  <2>13. CASE k = 1 /\ k # l
    <3>1. Unlinking(m, n) = << >> \o <<y>> \o <<x>>
      BY <2>6, <2>7, <2>13
    <3> QED BY <2>9, <2>10, <2>11, <2>13, <3>1
  <2>14. CASE k # 1 /\ k = l
    <3>1. Unlinking(m, n) = <<x>> \o << >> \o << >>
      BY <2>6, <2>7, <2>14
    <3> QED BY <2>9, <2>11, <2>14, <3>1
  <2>15. CASE k # 1 /\ k # l
    <3>1. Unlinking(m, n) = <<x>> \o <<y>> \o << >>
      BY <2>6, <2>7, <2>15
    <3>2. <<x, y>> \in Seq(S)
      BY <2>8
    <3> QED BY <2>10, <2>11, <2>15, <3>1, <3>2
  <2> QED BY <2>12, <2>13, <2>14, <2>15
<1>5. a \in Item \cup {C0s} /\ m.next[n] \in Item \cup {NIL} /\ m.prev[n] \in Item \cup {NIL}
      /\ (k # l => m.next[n] \in Item /\ m.next[n] = w[k + 1])
  <2>1. k # 1 => k - 1 \in 1 .. l
    BY <1>3 DEF l
  <2>2. k # l => k + 1 \in 1 .. l
    BY <1>3 DEF l
  <2> QED BY <1>1, <2>1, <2>2 DEF Links, BackLinks
<1>6. Around(m.next, w, k) = [m.next EXCEPT ![a] = m.next[n]]
  BY DEF Around
<1>7. Back(m.prev, w, k) = IF k = l THEN m.prev ELSE [m.prev EXCEPT ![m.next[n]] = m.prev[n]]
  BY <1>3, <1>5 DEF Back, l
<1> HIDE DEF a
<1>8. CASE k = l
  <2>1. PICK m2 \in Memory :
          /\ m2 = Put(m, <<"next", a, m.next[n]>>) /\ m2.next = [m.next EXCEPT ![a] = m.next[n]] /\ m2.prev = m.prev
          /\ m2.reg = m.reg /\ SameUnits(m, m2) /\ SameState(m, m2)
    BY <1>5, PutLinks
  <2>2. Unlinking(m, n) = <<x>>
    BY <1>4, <1>8
  <2>3. m2 = Stored(m, Unlinking(m, n))
    BY <2>1, <2>2, StoredOne
  <2> QED BY <1>6, <1>7, <1>8, <2>1, <2>3
<1>9. CASE k # l /\ k = 1
  <2>1. PICK m3 \in Memory :
          /\ m3 = Put(m, <<"prev", m.next[n], m.prev[n]>>) /\ m3.prev = [m.prev EXCEPT ![m.next[n]] = m.prev[n]]
          /\ m3.next = m.next /\ m3.reg = m.reg /\ SameUnits(m, m3) /\ SameState(m, m3)
    BY <1>5, <1>9, PutLinks
  <2>2. PICK m2 \in Memory :
          /\ m2 = Put(m3, <<"next", a, m.next[n]>>) /\ m2.next = [m3.next EXCEPT ![a] = m.next[n]] /\ m2.prev = m3.prev
          /\ m2.reg = m3.reg /\ SameUnits(m3, m2) /\ SameState(m3, m2)
    BY <1>5, PutLinks
  <2>3. Unlinking(m, n) = <<y, x>>
    BY <1>4, <1>9
  <2>4. m2 = Stored(m, Unlinking(m, n))
    BY <2>1, <2>2, <2>3, StoredTwo
  <2>5. SameUnits(m, m2) /\ SameState(m, m2)
    BY <2>1, <2>2 DEF SameUnits, SameState, Quiet
  <2> QED BY <1>6, <1>7, <1>9, <2>1, <2>2, <2>4, <2>5
<1>10. CASE k # l /\ k # 1
  <2>1. PICK m3 \in Memory :
          /\ m3 = Put(m, <<"next", a, m.next[n]>>) /\ m3.next = [m.next EXCEPT ![a] = m.next[n]] /\ m3.prev = m.prev
          /\ m3.reg = m.reg /\ SameUnits(m, m3) /\ SameState(m, m3)
    BY <1>5, PutLinks
  <2>2. PICK m2 \in Memory :
          /\ m2 = Put(m3, <<"prev", m.next[n], m.prev[n]>>) /\ m2.prev = [m3.prev EXCEPT ![m.next[n]] = m.prev[n]]
          /\ m2.next = m3.next /\ m2.reg = m3.reg /\ SameUnits(m3, m2) /\ SameState(m3, m2)
    BY <1>5, <1>10, PutLinks
  <2>3. Unlinking(m, n) = <<x, y>>
    BY <1>4, <1>10
  <2>4. m2 = Stored(m, Unlinking(m, n))
    BY <2>1, <2>2, <2>3, StoredTwo
  <2>5. SameUnits(m, m2) /\ SameState(m, m2)
    BY <2>1, <2>2 DEF SameUnits, SameState, Quiet
  <2> QED BY <1>6, <1>7, <1>10, <2>1, <2>2, <2>4, <2>5
<1> QED BY <1>8, <1>9, <1>10

(* The first step of removing one that is.                                 *)
LEMMA Removes ==
  ASSUME Typed, MainStore, NEW s, Clean(s), NEW m \in Item, NEW n \in Item, Head(agenda) = Unregister(m, n), m \in Range(s.list),
         s \in Roster, Good(build, s), NEW v, Drops(s.list, n, v), NEW r, r = [s EXCEPT !.list = v], Good(build, r),
         NEW t, Leads(build, Tail(agenda), r, t)
  PROVE  Typed' /\ Rostered(r)' /\ Halfway(r, t)' /\ Quiet(mem, mem')
<1>1. CASE n \notin Range(s.list) /\ v = s.list
  <2>1. r = s
    BY <1>1 DEF Roster
  <2> QED BY <1>1, <2>1, Clears
<1>2. CASE \E k \in 1 .. Len(s.list) : s.list[k] = n /\ v = Cut(s.list, k)
  <2>1. PICK k \in 1 .. Len(s.list) : s.list[k] = n /\ v = Cut(s.list, k)
    BY <1>2
  <2>2. IsSeq(Tail(agenda)) /\ Rostered(s) /\ Shaped(mem.next, mem.prev, mem.reg, s.list)
    BY DEF Leads, Clean
  <2>3. Walk(mem.next) = s.list /\ s.list \in Seq(Item)
    BY WalkOf
  <2>4. mem.reg[m] /\ s.list # << >> /\ n \in Range(s.list)
    <3>1. \E j \in 1 .. Len(s.list) : s.list[j] = m
      BY <2>3, InRange
    <3>2. mem.reg[m]
      BY <2>2, <3>1 DEF Shaped
    <3>3. n \in Range(s.list)
      BY <2>1, <2>3, InRange
    <3>4. s.list # << >>
      BY <2>1
    <3> QED BY <3>2, <3>3, <3>4
  <2>5. Groups(mem, Head(agenda)) = << Unlinking(mem, n), << <<"prev", n, NIL>>, <<"next", n, NIL>>, <<"reg", n, FALSE>> >> >>
    <3>1. Groups(mem, Head(agenda)) = RemoveLinkedListItem(mem, n)
      BY <2>4, GroupsOf
    <3>2. RemoveLinkedListItem(mem, n) = << Unlinking(mem, n), << <<"prev", n, NIL>>, <<"next", n, NIL>>, <<"reg", n, FALSE>> >> >>
      BY <2>3, <2>4 DEF RemoveLinkedListItem
    <3> QED BY <3>1, <3>2
  <2>6. /\ mem' = Stored(mem, Unlinking(mem, n))
        /\ agenda' # << >> /\ Head(agenda') = Stores(<< <<"prev", n, NIL>>, <<"next", n, NIL>>, <<"reg", n, FALSE>> >>)
        /\ Tail(agenda') = Tail(agenda)
    BY <2>2, <2>5, TwoGroups
  <2>7. PICK m2 \in Memory :
          /\ m2 = Stored(mem, Unlinking(mem, n)) /\ m2.next = Around(mem.next, s.list, k) /\ m2.prev = Back(mem.prev, s.list, k)
          /\ m2.reg = mem.reg /\ SameUnits(mem, m2) /\ SameState(mem, m2)
    BY <2>1, <2>2, Unlinks DEF Typed
  <2>8. /\ Linked(m2.next, v)
        /\ Shaped([m2.next EXCEPT ![n] = NIL], [m2.prev EXCEPT ![n] = NIL], [m2.reg EXCEPT ![n] = FALSE], v)
    BY <2>1, <2>2, <2>7, Removing
  <2>9. /\ r.list = v /\ r.ready = s.ready /\ r.own = s.own /\ r.useZero = s.useZero /\ r.asked = s.asked
        /\ r.stopped = s.stopped
    BY DEF Roster
  <2>10. build' = build
    BY DEF MainStore
  <2>11. mem' = m2
    BY <2>6, <2>7
  <2>12. Rostered(r)'
    BY <2>2, <2>7, <2>9, <2>11, RosteredIs
  <2>13. Halfway(r, t)'
    <3>1. FALSE \in BOOLEAN /\ NIL \in Item \cup {NIL}
      OBVIOUS
    <3> QED BY <2>6, <2>8, <2>9, <2>10, <2>11, <3>1 DEF Halfway
  <2>14. Quiet(mem, mem')
    BY <2>7, <2>11 DEF SameState
  <2> QED BY <2>11, <2>12, <2>13, <2>14 DEF Typed
<1> QED BY <1>1, <1>2 DEF Drops

(* An operation that only stores is done in one step; then each of the     *)
(* fields that such an operation stores.                                   *)
LEMMA Settles ==
  ASSUME MainStore, NEW s, Clean(s), NEW r, NEW t, Leads(build, Tail(agenda), r, t), NEW x, Head(agenda) = Stores(x),
         NEW m2 \in Memory, m2 = Stored(mem, x), SameLinks(mem, m2), Quiet(mem, m2), r.list = s.list,
         r.ready = m2.ready, r.own = m2.own, r.useZero = m2.useZero, r.asked = m2.asked, r.stopped = m2.stopped
  PROVE  Typed' /\ Onward(r, t)' /\ Quiet(mem, mem')
<1>1. mem' = m2 /\ agenda' = Tail(agenda)
  BY OneGroup DEF Leads
<1>2. build' = build
  BY DEF MainStore
<1>3. Clean(r)'
  BY <1>1 DEF Clean, Rostered, SameLinks
<1> QED BY <1>1, <1>2, <1>3 DEF Typed, Onward

LEMMA PutZero ==
  ASSUME NEW m \in Memory, NEW i \in Inv, NEW z \in BOOLEAN
  PROVE  \E m2 \in Memory :
           /\ m2 = Put(m, <<"useZero", i, z>>) /\ m2.useZero = [m.useZero EXCEPT ![i] = z] /\ m2.ready = m.ready /\ m2.own = m.own
           /\ SameLinks(m, m2) /\ SameState(m, m2)
<1>1. PICK x : x = [m.useZero EXCEPT ![i] = z]
  OBVIOUS
<1>2. x \in [Inv -> BOOLEAN]
  BY <1>1 DEF Memory
<1>3. PICK m2 : m2 = [m EXCEPT !.useZero = x]
  OBVIOUS
<1>4. m2 = Put(m, <<"useZero", i, z>>)
  BY <1>1, <1>3 DEF Put
<1>5. m2 \in Memory /\ m2.useZero = x /\ m2.ready = m.ready /\ m2.own = m.own /\ SameLinks(m, m2) /\ SameState(m, m2)
  BY <1>2, <1>3 DEF Memory, SameLinks, SameState, Quiet
<1> QED BY <1>1, <1>4, <1>5

LEMMA PutOwn ==
  ASSUME NEW m \in Memory, NEW u \in Unit, NEW o \in Owners
  PROVE  \E m2 \in Memory :
           /\ m2 = Put(m, <<"own", u, o>>) /\ m2.own = [m.own EXCEPT ![u] = o] /\ m2.ready = m.ready /\ m2.useZero = m.useZero
           /\ SameLinks(m, m2) /\ SameState(m, m2)
<1>1. PICK x : x = [m.own EXCEPT ![u] = o]
  OBVIOUS
<1>2. x \in [Unit -> Owners]
  BY <1>1 DEF Memory
<1>3. PICK m2 : m2 = [m EXCEPT !.own = x]
  OBVIOUS
<1>4. m2 = Put(m, <<"own", u, o>>)
  BY <1>1, <1>3 DEF Put
<1>5. m2 \in Memory /\ m2.own = x /\ m2.ready = m.ready /\ m2.useZero = m.useZero /\ SameLinks(m, m2) /\ SameState(m, m2)
  BY <1>2, <1>3 DEF Memory, SameLinks, SameState, Quiet
<1> QED BY <1>1, <1>4, <1>5

LEMMA PutReady ==
  ASSUME NEW m \in Memory, NEW u \in Unit \cup Position
  PROVE  \E m2 \in Memory :
           /\ m2 = Put(m, <<"ready", u, TRUE>>) /\ m2.ready = [m.ready EXCEPT ![u] = TRUE] /\ m2.own = m.own /\ m2.useZero = m.useZero
           /\ SameLinks(m, m2) /\ SameState(m, m2)
<1>1. PICK x : x = [m.ready EXCEPT ![u] = TRUE]
  OBVIOUS
<1>2. x \in [Unit \cup Position -> BOOLEAN]
  BY <1>1 DEF Memory
<1>3. PICK m2 : m2 = [m EXCEPT !.ready = x]
  OBVIOUS
<1>4. m2 = Put(m, <<"ready", u, TRUE>>)
  BY <1>1, <1>3 DEF Put
<1>5. m2 \in Memory /\ m2.ready = x /\ m2.own = m.own /\ m2.useZero = m.useZero /\ SameLinks(m, m2) /\ SameState(m, m2)
  BY <1>2, <1>3 DEF Memory, SameLinks, SameState, Quiet
<1> QED BY <1>1, <1>4, <1>5

LEMMA PutUpdated ==
  ASSUME NEW m \in Memory, NEW p \in Position
  PROVE  \E m2 \in Memory :
           /\ m2 = Put(m, <<"updated", p, FALSE>>) /\ SameUnits(m, m2) /\ SameLinks(m, m2) /\ SameState(m, m2)
<1>1. PICK x : x = [m.updated EXCEPT ![p] = FALSE]
  OBVIOUS
<1>2. x \in [Item -> BOOLEAN]
  BY <1>1 DEF Memory
<1>3. PICK m2 : m2 = [m EXCEPT !.updated = x]
  OBVIOUS
<1>4. m2 = Put(m, <<"updated", p, FALSE>>)
  BY <1>1, <1>3 DEF Put
<1>5. m2 \in Memory /\ SameUnits(m, m2) /\ SameLinks(m, m2) /\ m2.asked = m.asked /\ m2.stopped = m.stopped /\ m2.updated = x
  BY <1>2, <1>3 DEF Memory, SameLinks, SameUnits
<1>6. \A n \in Item : x[n] => m.updated[n]
  BY <1>1 DEF Memory
<1> QED BY <1>4, <1>5, <1>6 DEF SameState, Quiet

LEMMA PutForce ==
  ASSUME NEW m \in Memory, NEW w \in {"xy", "dq"}, NEW f \in BOOLEAN
  PROVE  \E m2 \in Memory :
           /\ m2 = Put(m, <<"force", w, f>>) /\ SameUnits(m, m2) /\ SameLinks(m, m2) /\ SameState(m, m2)
<1>1. PICK x : x = [m.force EXCEPT ![w] = f]
  OBVIOUS
<1>2. x \in [{"xy", "dq"} -> BOOLEAN]
  BY <1>1 DEF Memory
<1>3. PICK m2 : m2 = [m EXCEPT !.force = x]
  OBVIOUS
<1>4. m2 = Put(m, <<"force", w, f>>)
  BY <1>1, <1>3 DEF Put
<1>5. m2 \in Memory /\ SameUnits(m, m2) /\ SameLinks(m, m2) /\ SameState(m, m2)
  BY <1>2, <1>3 DEF Memory, SameLinks, SameState, Quiet, SameUnits
<1> QED BY <1>4, <1>5

LEMMA PutSent ==
  ASSUME NEW m \in Memory
  PROVE  \E m2 \in Memory :
           /\ m2 = Put(m, <<"sent", "torque", 0>>) /\ SameUnits(m, m2) /\ SameLinks(m, m2) /\ SameState(m, m2)
<1>1. PICK x : x = [m.sent EXCEPT !["torque"] = 0]
  OBVIOUS
<1>2. x \in [{"xy", "dq", "torque"} -> Int]
  BY <1>1 DEF Memory
<1>3. PICK m2 : m2 = [m EXCEPT !.sent = x]
  OBVIOUS
<1>4. m2 = Put(m, <<"sent", "torque", 0>>)
  BY <1>1, <1>3 DEF Put
<1>5. m2 \in Memory /\ SameUnits(m, m2) /\ SameLinks(m, m2) /\ SameState(m, m2)
  BY <1>2, <1>3 DEF Memory, SameLinks, SameState, Quiet, SameUnits
<1> QED BY <1>4, <1>5

LEMMA PutAsked ==
  ASSUME NEW m \in Memory, NEW a \in 1 .. 2, NEW ans \in Answers
  PROVE  \E m2 \in Memory :
           /\ m2 = Put(m, <<"asked", a, ans>>) /\ m2.asked = [m.asked EXCEPT ![a] = ans] /\ Quiet(m, m2)
           /\ SameUnits(m, m2) /\ SameLinks(m, m2)
<1>1. PICK x : x = [m.asked EXCEPT ![a] = ans]
  OBVIOUS
<1>2. x \in [1 .. 2 -> Answers]
  BY <1>1 DEF Memory
<1>3. PICK m2 : m2 = [m EXCEPT !.asked = x]
  OBVIOUS
<1>4. m2 = Put(m, <<"asked", a, ans>>)
  BY <1>1, <1>3 DEF Put
<1>5. m2 \in Memory /\ m2.asked = x /\ Quiet(m, m2) /\ SameUnits(m, m2) /\ SameLinks(m, m2)
  BY <1>2, <1>3 DEF Memory, SameLinks, SameUnits, Quiet
<1> QED BY <1>1, <1>4, <1>5

(* A step of the main loop at a clean list does the next operation, or its *)
(* first half.                                                             *)
LEMMA OperationStored ==
  ASSUME Typed, MainStore, NEW s, NEW t, NEW r, Clean(s), Good(build, s), Good(build, r), Does(Head(agenda), s, r),
         Leads(build, Tail(agenda), r, t)
  PROVE  Typed' /\ Onward(r, t)' /\ Quiet(mem, mem')
<1> DEFINE op == Head(agenda)
<1>0. /\ s \in Roster /\ mem \in Memory /\ Rostered(s)
      /\ s.ready = mem.ready /\ s.own = mem.own /\ s.useZero = mem.useZero /\ s.asked = mem.asked /\ s.stopped = mem.stopped
  BY DEF Good, ListGood, Typed, Clean, Rostered
<1>1. CASE \E n \in Item : /\ op = Register(n) /\ n \notin Range(s.list) /\ s.ready[UnitOf(n)]
                           /\ r = [s EXCEPT !.list = Append(@, n)]
  BY <1>0, <1>1, Registers DEF Onward
<1>2. CASE \E m, n \in Item : /\ op = Unregister(m, n)
                              /\ \/ m \notin Range(s.list) /\ r = s
                                 \/ m \in Range(s.list) /\ \E v : Drops(s.list, n, v) /\ r = [s EXCEPT !.list = v]
  <2>1. PICK m \in Item, n \in Item : /\ op = Unregister(m, n)
                                      /\ \/ m \notin Range(s.list) /\ r = s
                                         \/ m \in Range(s.list) /\ \E v : Drops(s.list, n, v) /\ r = [s EXCEPT !.list = v]
    BY <1>2
  <2>2. CASE m \notin Range(s.list) /\ r = s
    <3>1. ~mem.reg[m]
      BY <2>2, CleanFlags
    <3>2. Groups(mem, op) = << >>
      <4>1. Groups(mem, Unregister(m, n)) = IF mem.reg[m] THEN RemoveLinkedListItem(mem, n) ELSE << >>
        BY GroupsOf
      <4> QED BY <2>1, <3>1, <4>1
    <3>3. mem' = mem /\ agenda' = Tail(agenda) /\ build' = build
      BY <3>2, NoGroup DEF Leads, MainStore
    <3>4. Clean(s)'
      BY <3>3 DEF Clean, Rostered
    <3> QED BY <1>0, <2>2, <3>3, <3>4 DEF Onward, Typed, Quiet
  <2>3. CASE m \in Range(s.list) /\ \E v : Drops(s.list, n, v) /\ r = [s EXCEPT !.list = v]
    BY <1>0, <2>1, <2>3, Removes DEF Onward
  <2> QED BY <2>1, <2>2, <2>3
<1>3. CASE \E i \in Inv, z \in BOOLEAN : op = Stores(<< <<"useZero", i, z>> >>) /\ r = [s EXCEPT !.useZero[i] = z]
  <2>1. PICK i \in Inv, z \in BOOLEAN : op = Stores(<< <<"useZero", i, z>> >>) /\ r = [s EXCEPT !.useZero[i] = z]
    BY <1>3
  <2>20. op = Stores(<< <<"useZero", i, z>> >>)
    BY <2>1
  <2>2. PICK m2 \in Memory :
          /\ m2 = Put(mem, <<"useZero", i, z>>) /\ m2.useZero = [mem.useZero EXCEPT ![i] = z] /\ m2.ready = mem.ready
          /\ m2.own = mem.own /\ SameLinks(mem, m2) /\ SameState(mem, m2)
    BY <1>0, PutZero
  <2>3. /\ r.list = s.list /\ r.useZero = [s.useZero EXCEPT ![i] = z] /\ r.ready = s.ready /\ r.own = s.own
        /\ r.asked = s.asked /\ r.stopped = s.stopped
    BY <1>0, <2>1 DEF Roster
  <2>4. m2 = Stored(mem, << <<"useZero", i, z>> >>)
    BY <2>2, StoredOne
  <2>5. r.ready = m2.ready /\ r.own = m2.own /\ r.useZero = m2.useZero /\ r.asked = m2.asked /\ r.stopped = m2.stopped
    BY <1>0, <2>2, <2>3 DEF SameState, Quiet
  <2>6. Quiet(mem, m2)
    BY <2>2 DEF SameState
  <2> QED BY <2>20, <2>2, <2>3, <2>4, <2>5, <2>6, Settles
<1>4. CASE \E u \in Unit, o \in Owners : op = Stores(<< <<"own", u, o>> >>) /\ r = [s EXCEPT !.own[u] = o]
  <2>1. PICK u \in Unit, o \in Owners : op = Stores(<< <<"own", u, o>> >>) /\ r = [s EXCEPT !.own[u] = o]
    BY <1>4
  <2>20. op = Stores(<< <<"own", u, o>> >>)
    BY <2>1
  <2>2. PICK m2 \in Memory :
          /\ m2 = Put(mem, <<"own", u, o>>) /\ m2.own = [mem.own EXCEPT ![u] = o] /\ m2.ready = mem.ready
          /\ m2.useZero = mem.useZero /\ SameLinks(mem, m2) /\ SameState(mem, m2)
    BY <1>0, PutOwn
  <2>3. /\ r.list = s.list /\ r.own = [s.own EXCEPT ![u] = o] /\ r.ready = s.ready /\ r.useZero = s.useZero
        /\ r.asked = s.asked /\ r.stopped = s.stopped
    BY <1>0, <2>1 DEF Roster
  <2>4. m2 = Stored(mem, << <<"own", u, o>> >>)
    BY <2>2, StoredOne
  <2>5. r.ready = m2.ready /\ r.own = m2.own /\ r.useZero = m2.useZero /\ r.asked = m2.asked /\ r.stopped = m2.stopped
    BY <1>0, <2>2, <2>3 DEF SameState, Quiet
  <2>6. Quiet(mem, m2)
    BY <2>2 DEF SameState
  <2> QED BY <2>20, <2>2, <2>3, <2>4, <2>5, <2>6, Settles
<1>5. CASE \E u \in Unit : /\ op = Stores(<< <<"own", u, "example">>, <<"ready", u, TRUE>> >>)
                           /\ r = [s EXCEPT !.own[u] = "example", !.ready[u] = TRUE]
  <2>1. PICK u \in Unit : /\ op = Stores(<< <<"own", u, "example">>, <<"ready", u, TRUE>> >>)
                          /\ r = [s EXCEPT !.own[u] = "example", !.ready[u] = TRUE]
    BY <1>5
  <2>20. op = Stores(<< <<"own", u, "example">>, <<"ready", u, TRUE>> >>)
    BY <2>1
  <2>0. "example" \in Owners
    BY DEF Owners
  <2>2. PICK m3 \in Memory :
          /\ m3 = Put(mem, <<"own", u, "example">>) /\ m3.own = [mem.own EXCEPT ![u] = "example"] /\ m3.ready = mem.ready
          /\ m3.useZero = mem.useZero /\ SameLinks(mem, m3) /\ SameState(mem, m3)
    BY <1>0, <2>0, PutOwn
  <2>3. PICK m2 \in Memory :
          /\ m2 = Put(m3, <<"ready", u, TRUE>>) /\ m2.ready = [m3.ready EXCEPT ![u] = TRUE] /\ m2.own = m3.own
          /\ m2.useZero = m3.useZero /\ SameLinks(m3, m2) /\ SameState(m3, m2)
    BY PutReady
  <2>4. m2 = Stored(mem, << <<"own", u, "example">>, <<"ready", u, TRUE>> >>)
    <3> DEFINE x == <<"own", u, "example">>
               y == <<"ready", u, TRUE>>
    <3>1. m3 = Put(mem, x) /\ m2 = Put(m3, y)
      BY <2>2, <2>3
    <3> HIDE DEF x, y
    <3>2. m2 = Stored(mem, <<x, y>>)
      BY <3>1, StoredTwo
    <3> QED BY <3>2 DEF x, y
  <2>5. /\ r.list = s.list /\ r.own = [s.own EXCEPT ![u] = "example"] /\ r.ready = [s.ready EXCEPT ![u] = TRUE]
        /\ r.useZero = s.useZero /\ r.asked = s.asked /\ r.stopped = s.stopped
    BY <1>0, <2>1 DEF Roster
  <2>6. r.ready = m2.ready /\ r.own = m2.own /\ r.useZero = m2.useZero /\ r.asked = m2.asked /\ r.stopped = m2.stopped
    <3>1. m2.ready = [s.ready EXCEPT ![u] = TRUE] /\ m2.own = [s.own EXCEPT ![u] = "example"]
      BY <1>0, <2>2, <2>3
    <3>2. m2.useZero = s.useZero /\ m2.asked = s.asked /\ m2.stopped = s.stopped
      BY <1>0, <2>2, <2>3 DEF SameState, Quiet
    <3> QED BY <2>5, <3>1, <3>2
  <2>7. SameLinks(mem, m2)
    BY <2>2, <2>3 DEF SameLinks
  <2>8. Quiet(mem, m2)
    BY <2>2, <2>3 DEF SameState, Quiet
  <2> QED BY <2>20, <2>4, <2>5, <2>6, <2>7, <2>8, Settles
<1>6. CASE \E p \in Position : /\ op = Stores(<< <<"updated", p, FALSE>>, <<"ready", p, TRUE>> >>)
                               /\ r = [s EXCEPT !.ready[p] = TRUE]
  <2>1. PICK p \in Position : /\ op = Stores(<< <<"updated", p, FALSE>>, <<"ready", p, TRUE>> >>)
                              /\ r = [s EXCEPT !.ready[p] = TRUE]
    BY <1>6
  <2>20. op = Stores(<< <<"updated", p, FALSE>>, <<"ready", p, TRUE>> >>)
    BY <2>1
  <2>2. PICK m3 \in Memory :
          /\ m3 = Put(mem, <<"updated", p, FALSE>>) /\ SameUnits(mem, m3) /\ SameLinks(mem, m3) /\ SameState(mem, m3)
    BY <1>0, PutUpdated
  <2>3. PICK m2 \in Memory :
          /\ m2 = Put(m3, <<"ready", p, TRUE>>) /\ m2.ready = [m3.ready EXCEPT ![p] = TRUE] /\ m2.own = m3.own
          /\ m2.useZero = m3.useZero /\ SameLinks(m3, m2) /\ SameState(m3, m2)
    BY PutReady
  <2>4. m2 = Stored(mem, << <<"updated", p, FALSE>>, <<"ready", p, TRUE>> >>)
    <3> DEFINE x == <<"updated", p, FALSE>>
               y == <<"ready", p, TRUE>>
    <3>1. m3 = Put(mem, x) /\ m2 = Put(m3, y)
      BY <2>2, <2>3
    <3> HIDE DEF x, y
    <3>2. m2 = Stored(mem, <<x, y>>)
      BY <3>1, StoredTwo
    <3> QED BY <3>2 DEF x, y
  <2>5. /\ r.list = s.list /\ r.own = s.own /\ r.ready = [s.ready EXCEPT ![p] = TRUE]
        /\ r.useZero = s.useZero /\ r.asked = s.asked /\ r.stopped = s.stopped
    BY <1>0, <2>1 DEF Roster
  <2>6. r.ready = m2.ready /\ r.own = m2.own /\ r.useZero = m2.useZero /\ r.asked = m2.asked /\ r.stopped = m2.stopped
    <3>1. m2.ready = [s.ready EXCEPT ![p] = TRUE] /\ m2.own = s.own /\ m2.useZero = s.useZero
      BY <1>0, <2>2, <2>3 DEF SameUnits
    <3>2. m2.asked = s.asked /\ m2.stopped = s.stopped
      BY <1>0, <2>2, <2>3 DEF SameState, Quiet
    <3> QED BY <2>5, <3>1, <3>2
  <2>7. SameLinks(mem, m2)
    BY <2>2, <2>3 DEF SameLinks
  <2>8. Quiet(mem, m2)
    BY <2>2, <2>3 DEF SameState, Quiet
  <2> QED BY <2>20, <2>4, <2>5, <2>6, <2>7, <2>8, Settles
<1>7. CASE \E w \in {"xy", "dq"}, f \in BOOLEAN : op = Stores(<< <<"force", w, f>> >>) /\ r = s
  <2>1. PICK w \in {"xy", "dq"}, f \in BOOLEAN : op = Stores(<< <<"force", w, f>> >>) /\ r = s
    BY <1>7
  <2>20. op = Stores(<< <<"force", w, f>> >>)
    BY <2>1
  <2>2. PICK m2 \in Memory :
          /\ m2 = Put(mem, <<"force", w, f>>) /\ SameUnits(mem, m2) /\ SameLinks(mem, m2) /\ SameState(mem, m2)
    BY <1>0, PutForce
  <2>3. m2 = Stored(mem, << <<"force", w, f>> >>)
    BY <2>2, StoredOne
  <2>4. r.ready = m2.ready /\ r.own = m2.own /\ r.useZero = m2.useZero /\ r.asked = m2.asked /\ r.stopped = m2.stopped
        /\ r.list = s.list
    BY <1>0, <2>1, <2>2 DEF SameState, Quiet, SameUnits
  <2>6. Quiet(mem, m2)
    BY <2>2 DEF SameState
  <2> QED BY <2>20, <2>2, <2>3, <2>4, <2>6, Settles
<1>8. CASE op = Stores(<< <<"sent", "torque", 0>> >>) /\ r = s
  <2>2. PICK m2 \in Memory :
          /\ m2 = Put(mem, <<"sent", "torque", 0>>) /\ SameUnits(mem, m2) /\ SameLinks(mem, m2) /\ SameState(mem, m2)
    BY <1>0, PutSent
  <2>3. m2 = Stored(mem, << <<"sent", "torque", 0>> >>)
    BY <2>2, StoredOne
  <2>4. r.ready = m2.ready /\ r.own = m2.own /\ r.useZero = m2.useZero /\ r.asked = m2.asked /\ r.stopped = m2.stopped
        /\ r.list = s.list
    BY <1>0, <1>8, <2>2 DEF SameState, Quiet, SameUnits
  <2>6. Quiet(mem, m2)
    BY <2>2 DEF SameState
  <2> QED BY <1>8, <2>2, <2>3, <2>4, <2>6, Settles
<1>9. CASE \E a \in 1 .. 2, ans \in {"on", "off"} : op = Stores(<< <<"asked", a, ans>> >>) /\ r = [s EXCEPT !.asked[a] = ans]
  <2>1. PICK a \in 1 .. 2, ans \in {"on", "off"} : op = Stores(<< <<"asked", a, ans>> >>) /\ r = [s EXCEPT !.asked[a] = ans]
    BY <1>9
  <2>20. op = Stores(<< <<"asked", a, ans>> >>)
    BY <2>1
  <2>0. ans \in Answers
    BY DEF Answers
  <2>2. PICK m2 \in Memory :
          /\ m2 = Put(mem, <<"asked", a, ans>>) /\ m2.asked = [mem.asked EXCEPT ![a] = ans] /\ Quiet(mem, m2)
          /\ SameUnits(mem, m2) /\ SameLinks(mem, m2)
    BY <1>0, <2>0, PutAsked
  <2>3. /\ r.list = s.list /\ r.own = s.own /\ r.ready = s.ready
        /\ r.useZero = s.useZero /\ r.asked = [s.asked EXCEPT ![a] = ans] /\ r.stopped = s.stopped
    BY <1>0, <2>1 DEF Roster
  <2>4. m2 = Stored(mem, << <<"asked", a, ans>> >>)
    BY <2>2, StoredOne
  <2>5. r.ready = m2.ready /\ r.own = m2.own /\ r.useZero = m2.useZero /\ r.asked = m2.asked /\ r.stopped = m2.stopped
    BY <1>0, <2>2, <2>3 DEF SameUnits, Quiet
  <2>6. Quiet(mem, m2)
    BY <2>2
  <2> QED BY <2>20, <2>2, <2>3, <2>4, <2>5, <2>6, Settles
<1> QED BY <1>1, <1>2, <1>3, <1>4, <1>5, <1>6, <1>7, <1>8, <1>9 DEF Does

(* So every step of the main loop leads on along the command.              *)
LEMMA StoreKeeps ==
  ASSUME Typed, MainStore, NEW s, NEW t, Onward(s, t)
  PROVE  Typed' /\ Quiet(mem, mem') /\ \E r : Onward(r, t)'
<1>1. CASE Clean(s) /\ Leads(build, agenda, s, t)
  <2>1. agenda # << >>
    BY DEF MainStore
  <2>2. PICK r : Good(build, s) /\ Good(build, r) /\ Does(Head(agenda), s, r) /\ Leads(build, Tail(agenda), r, t)
    BY <1>1, <2>1, LeadsFirst
  <2> QED BY <1>1, <2>2, OperationStored
<1>2. CASE Rostered(s) /\ Halfway(s, t)
  <2>1. PICK n \in Item, p \in Item \cup {NIL}, b \in BOOLEAN :
          /\ Head(agenda) = Stores(<< <<"prev", n, p>>, <<"next", n, NIL>>, <<"reg", n, b>> >>)
          /\ Linked(mem.next, s.list)
          /\ Shaped([mem.next EXCEPT ![n] = NIL], [mem.prev EXCEPT ![n] = p], [mem.reg EXCEPT ![n] = b], s.list)
    BY <1>2 DEF Halfway
  <2>2. Leads(build, Tail(agenda), s, t) /\ IsSeq(Tail(agenda))
    BY <1>2 DEF Halfway, Leads
  <2>3. mem' = Stored(mem, << <<"prev", n, p>>, <<"next", n, NIL>>, <<"reg", n, b>> >>) /\ agenda' = Tail(agenda)
    BY <2>1, <2>2, OneGroup
  <2>4. PICK m2 \in Memory :
          /\ m2 = Stored(mem, LastGroup(n, p, b))
          /\ m2.next = [mem.next EXCEPT ![n] = NIL] /\ m2.prev = [mem.prev EXCEPT ![n] = p] /\ m2.reg = [mem.reg EXCEPT ![n] = b]
          /\ SameUnits(mem, m2) /\ SameState(mem, m2)
    BY GroupStored DEF Typed
  <2>5. mem' = m2
    BY <2>3, <2>4 DEF LastGroup
  <2>6. Rostered(s)'
    BY <1>2, <2>4, <2>5, RosteredIs
  <2>7. Shaped(mem'.next, mem'.prev, mem'.reg, s.list)
    BY <2>1, <2>4, <2>5
  <2>8. build' = build
    BY DEF MainStore
  <2>9. Clean(s)' /\ Leads(build, agenda, s, t)'
    BY <2>2, <2>3, <2>6, <2>7, <2>8 DEF Clean
  <2>10. Quiet(mem, mem')
    BY <2>4, <2>5 DEF SameState
  <2> QED BY <2>5, <2>9, <2>10 DEF Onward, Typed
<1> QED BY <1>1, <1>2 DEF Onward

(* The invariant of the list: the command in progress leads from where the *)
(* main loop stands to a state with no command in progress, over states    *)
(* that are good.                                                          *)
ListInv == build \in Build /\ Typed /\ IoTyped /\ \E s, t : NoneBusy(t) /\ Onward(s, t)

(* What the interrupt finds: the list of s, whole, however far the main    *)
(* loop is.                                                                *)
LEMMA Walked ==
  ASSUME NEW s, NEW t, Onward(s, t)
  PROVE  /\ Walk(mem.next) = s.list /\ s.list \in Seq(Item) /\ IsInjective(s.list) /\ Len(s.list) < Bound
         /\ Good(build, s) /\ Rostered(s)
<1>1. Good(build, s) /\ Rostered(s) /\ Linked(mem.next, s.list)
  <2>1. CASE Clean(s) /\ Leads(build, agenda, s, t)
    BY <2>1, LeadsGood DEF Clean, Shaped
  <2>2. CASE Rostered(s) /\ Halfway(s, t)
    BY <2>2 DEF Halfway
  <2> QED BY <2>1, <2>2 DEF Onward
<1>2. IsInjective(s.list)
  BY <1>1 DEF Good, ListGood
<1> QED BY <1>1, <1>2, WalkIs DEF Linked

(* The states of one interrupt: f[k] is the one after k controllers of w. *)
Passes(f, w, gap) ==
  /\ w \in Seq(Item) /\ IsInjective(w) /\ Serves(f, w, gap)
  /\ \A k \in 0 .. Len(w) : f[k] \in Work /\ f[k].ran = {w[j] : j \in 1 .. k}

(* An interrupt passes every controller of the list once.                  *)
LEMMA PassOf ==
  ASSUME Typed, IoTyped, NEW s, NEW t, Onward(s, t), NEW gap \in Gaps
  PROVE  \E f : Passes(f, s.list, gap) /\ ServiceControllers(gap) = f[Len(s.list)] /\ f[Len(s.list)].ran = Range(s.list)
<1>1. Walk(mem.next) = s.list /\ s.list \in Seq(Item) /\ IsInjective(s.list)
  BY Walked
<1>2. PICK f : Serves(f, s.list, gap) /\ ServiceControllers(gap) = f[Len(s.list)]
  BY <1>1, Served
<1>3. Passes(f, s.list, gap)
  BY <1>1, <1>2, Worked DEF Passes
<1>4. Range(s.list) = {s.list[j] : j \in 1 .. Len(s.list)}
  BY <1>1, InRange
<1>5. Len(s.list) \in 0 .. Len(s.list)
  BY <1>1
<1> QED BY <1>2, <1>3, <1>4, <1>5 DEF Passes

(* The interrupt changes no link and no setting, so it keeps where the     *)
(* main loop stands.                                                       *)
LEMMA InterruptKeeps ==
  ASSUME Typed, IoTyped, NEW s, NEW t, Onward(s, t), ControlTimer0_ISR
  PROVE  Typed' /\ IoTyped' /\ Onward(s, t)'
<1>1. PICK gap \in Gaps :
        LET r == ServiceControllers(gap)
        IN  /\ mem' = [mem EXCEPT !.updated = r.updated]
            /\ io' = [age |-> r.age, ixy |-> r.ixy, top |-> r.top, ref |-> r.ref, skewed |-> r.skewed,
                      since |-> IF agenda # << >> \/ io.since = 2 THEN io.since ELSE io.since + 1]
            /\ UNCHANGED <<build, cmds, agenda>>
  BY DEF ControlTimer0_ISR
<1>2. PICK r : r = ServiceControllers(gap)
  OBVIOUS
<1>3. r \in Work
  <2>1. PICK f : Passes(f, s.list, gap) /\ ServiceControllers(gap) = f[Len(s.list)]
    BY PassOf
  <2>2. Len(s.list) \in 0 .. Len(s.list)
    BY Walked
  <2> QED BY <1>2, <2>1, <2>2 DEF Passes
<1>4. /\ mem' = [mem EXCEPT !.updated = r.updated]
      /\ io' = [age |-> r.age, ixy |-> r.ixy, top |-> r.top, ref |-> r.ref, skewed |-> r.skewed,
                since |-> IF agenda # << >> \/ io.since = 2 THEN io.since ELSE io.since + 1]
      /\ build' = build /\ agenda' = agenda
  BY <1>1, <1>2
<1>5. Typed'
  BY <1>3, <1>4 DEF Typed, Memory, Work
<1>6. IoTyped'
  <2>1. (IF agenda # << >> \/ io.since = 2 THEN io.since ELSE io.since + 1) \in 0 .. 2
    BY DEF IoTyped, Io
  <2> QED BY <1>3, <1>4, <2>1 DEF IoTyped, Io, Work
<1>7. /\ mem'.next = mem.next /\ mem'.prev = mem.prev /\ mem'.reg = mem.reg
      /\ mem'.ready = mem.ready /\ mem'.own = mem.own /\ mem'.useZero = mem.useZero /\ mem'.asked = mem.asked
      /\ mem'.stopped = mem.stopped
  BY <1>4 DEF Typed, Memory
<1>8. Onward(s, t)'
  <2>1. Rostered(s) => Rostered(s)'
    BY <1>7 DEF Rostered
  <2>2. Clean(s) => Clean(s)'
    BY <1>7, <2>1 DEF Clean
  <2>3. Halfway(s, t) => Halfway(s, t)'
    BY <1>4, <1>7 DEF Halfway
  <2>4. Leads(build, agenda, s, t) => Leads(build, agenda, s, t)'
    BY <1>4
  <2> QED BY <2>1, <2>2, <2>3, <2>4 DEF Onward
<1> QED BY <1>5, <1>6, <1>8

(* Between two commands no command is in progress. *)
LEMMA Rests ==
  ASSUME NEW s, NEW t, NoneBusy(t), Onward(s, t), agenda = << >>
  PROVE  Clean(s) /\ Good(build, s) /\ NoneBusy(s)
<1>1. Clean(s) /\ Leads(build, agenda, s, t)
  BY DEF Onward, Halfway
<1>2. s = t
  <2>1. Len(agenda) = 0
    OBVIOUS
  <2> QED BY <1>1, <2>1 DEF Leads
<1> QED BY <1>1, <1>2, LeadsGood

(* What a command stores first. *)
Begins(m2, a, off) == m2 = [mem EXCEPT !.asked[a] = "busy", !.stopped[a] = @ \/ off]

(* A command begins: from there its operations lead to an answer.          *)
LEMMA Begun ==
  ASSUME Typed, NEW s, Clean(s), Good(build, s), NEW a \in 1 .. 2, NEW off \in BOOLEAN
  PROVE  \E c : \E m2 \in Memory :
           /\ c = WithBusy(s, a, off) /\ Begins(m2, a, off)
           /\ SameLinks(mem, m2) /\ m2.updated = mem.updated
           /\ c.list = s.list /\ c.ready = m2.ready /\ c.own = m2.own /\ c.useZero = m2.useZero
           /\ c.asked = m2.asked /\ c.stopped = m2.stopped
<1>0. PICK c : c = WithBusy(s, a, off)
  OBVIOUS
<1>1. PICK x : x = [mem.asked EXCEPT ![a] = "busy"]
  OBVIOUS
<1>2. PICK y : y = [mem.stopped EXCEPT ![a] = @ \/ off]
  OBVIOUS
<1>3. x \in [1 .. 2 -> Answers] /\ y \in [1 .. 2 -> BOOLEAN]
  BY <1>1, <1>2 DEF Typed, Memory, Answers
<1>4. PICK m2 : m2 = [mem EXCEPT !.asked = x, !.stopped = y]
  OBVIOUS
<1>5. /\ m2 \in Memory /\ m2.asked = x /\ m2.stopped = y /\ SameLinks(mem, m2) /\ SameUnits(mem, m2)
      /\ m2.updated = mem.updated
  BY <1>3, <1>4 DEF Typed, Memory, SameLinks, SameUnits
<1>6. Begins(m2, a, off)
  BY <1>1, <1>2, <1>4 DEF Typed, Memory, Begins
<1>7. /\ s \in Roster
      /\ s.ready = mem.ready /\ s.own = mem.own /\ s.useZero = mem.useZero /\ s.asked = mem.asked /\ s.stopped = mem.stopped
  BY DEF Good, ListGood, Clean, Rostered
<1>8. c = [s EXCEPT !.asked = x, !.stopped = y]
  BY <1>0, <1>1, <1>2, <1>7 DEF WithBusy, Roster
<1>9. c.list = s.list /\ c.ready = s.ready /\ c.own = s.own /\ c.useZero = s.useZero /\ c.asked = x /\ c.stopped = y
  BY <1>7, <1>8 DEF Roster
<1> QED BY <1>0, <1>5, <1>6, <1>7, <1>9 DEF SameUnits

LEMMA BeginKeeps ==
  ASSUME Typed, NEW s, Clean(s), Good(build, s), NEW a \in 1 .. 2, NEW off \in BOOLEAN,
         NEW c, c = WithBusy(s, a, off), NEW u, NoneBusy(u), NEW ops, Leads(build, ops, c, u),
         agenda' = ops, Begins(mem', a, off), build' = build
  PROVE  Typed' /\ \E x, y : NoneBusy(y) /\ Onward(x, y)'
<1>1. PICK e : \E m2 \in Memory :
        /\ e = WithBusy(s, a, off) /\ Begins(m2, a, off)
        /\ SameLinks(mem, m2) /\ m2.updated = mem.updated
        /\ e.list = s.list /\ e.ready = m2.ready /\ e.own = m2.own /\ e.useZero = m2.useZero
        /\ e.asked = m2.asked /\ e.stopped = m2.stopped
  BY Begun
<1>2. PICK m2 \in Memory :
        /\ e = WithBusy(s, a, off) /\ Begins(m2, a, off)
        /\ SameLinks(mem, m2) /\ m2.updated = mem.updated
        /\ e.list = s.list /\ e.ready = m2.ready /\ e.own = m2.own /\ e.useZero = m2.useZero
        /\ e.asked = m2.asked /\ e.stopped = m2.stopped
  BY <1>1
<1>3. mem' = m2
  BY <1>2 DEF Begins
<1>4. Typed'
  BY <1>3 DEF Typed
<1>5. Clean(c)'
  BY <1>2, <1>3 DEF Clean, Rostered, SameLinks
<1>6. Onward(c, u)'
  BY <1>5 DEF Onward
<1> QED BY <1>4, <1>6

(* A step that stores nothing an application is set up with. *)
LEMMA ForcedKeeps ==
  ASSUME ListInv, NEW a \in 1 .. 2, NEW v \in Amps, CmdCNT(a, v) PROVE ListInv'
<1>1. PICK w \in {"xy", "dq", "torque"} :
        mem' = [mem EXCEPT !.sent[w] = v] /\ io' = [io EXCEPT !.since = 0] /\ build' = build /\ agenda' = agenda
  BY DEF CmdCNT, ControlAppCommand, TorqueVSI_Command, VSI_Command, PosContTry1_Command
<1>2. v \in Int
  BY BasicControlAssumption
<1>3. PICK x : x = [mem.sent EXCEPT ![w] = v]
  OBVIOUS
<1>4. x \in [{"xy", "dq", "torque"} -> Int]
  BY <1>2, <1>3 DEF ListInv, Typed, Memory
<1>5. mem' = [mem EXCEPT !.sent = x]
  BY <1>1, <1>3
<1>6. Typed'
  BY <1>4, <1>5 DEF ListInv, Typed, Memory
<1>7. IoTyped'
  BY <1>1 DEF ListInv, IoTyped, Io
<1>8. /\ mem'.next = mem.next /\ mem'.prev = mem.prev /\ mem'.reg = mem.reg
      /\ mem'.ready = mem.ready /\ mem'.own = mem.own /\ mem'.useZero = mem.useZero /\ mem'.asked = mem.asked
      /\ mem'.stopped = mem.stopped
  BY <1>5 DEF ListInv, Typed, Memory
<1>9. PICK s, t : NoneBusy(t) /\ Onward(s, t)
  BY DEF ListInv
<1>10. Onward(s, t)'
  <2>1. Rostered(s) => Rostered(s)'
    BY <1>8 DEF Rostered
  <2>2. Clean(s) => Clean(s)'
    BY <1>8, <2>1 DEF Clean
  <2>3. Halfway(s, t) => Halfway(s, t)'
    BY <1>1, <1>8 DEF Halfway
  <2>4. Leads(build, agenda, s, t) => Leads(build, agenda, s, t)'
    BY <1>1
  <2> QED BY <1>9, <2>1, <2>2, <2>3, <2>4 DEF Onward
<1>11. build' \in Build
  BY <1>1 DEF ListInv
<1> QED BY <1>6, <1>7, <1>9, <1>10, <1>11 DEF ListInv

(* What the start and the stop of an application have in common; then that *)
(* they keep the invariant.                                                *)
LEMMA BeginIs ==
  ASSUME NEW a, NEW ops, NEW ans, Begin(a, ops, ans), NEW off \in BOOLEAN, off = (ans = "off"), IoTyped
  PROVE  /\ agenda = << >> /\ agenda' = ops \o <<Stores(<< <<"asked", a, ans>> >>)>>
         /\ Begins(mem', a, off) /\ build' = build /\ IoTyped'
<1>1. io' = [io EXCEPT !.since = 0]
  BY DEF Begin
<1>2. IoTyped'
  BY <1>1 DEF IoTyped, Io
<1> QED BY <1>2 DEF Begin, Begins

LEMMA StartsKeep ==
  ASSUME ListInv, NEW a \in 1 .. 2, CmdCST(a) PROVE ListInv'
<1>1. Typed /\ IoTyped /\ build \in Build /\ MayStart(a)
  BY DEF ListInv, CmdCST
<1>2. PICK s, t : NoneBusy(t) /\ Onward(s, t)
  BY DEF ListInv
<1>3. PICK f \in BOOLEAN : Begin(a, IF a = 1 THEN ControlStartApp(f) ELSE Init_TorqueVSI, "on")
  BY DEF CmdCST
<1>4. PICK off \in BOOLEAN : off = FALSE
  OBVIOUS
<1>5. PICK ops : ops = IF a = 1 THEN ControlStartApp(f) ELSE Init_TorqueVSI
  OBVIOUS
<1>6. /\ agenda = << >> /\ agenda' = ops \o <<Stores(<< <<"asked", a, "on">> >>)>>
      /\ Begins(mem', a, off) /\ build' = build /\ IoTyped'
  <2>1. off = ("on" = "off")
    BY <1>4
  <2>2. Begin(a, ops, "on")
    BY <1>3, <1>5
  <2> QED BY <1>1, <2>1, <2>2, BeginIs
<1>7. Clean(s) /\ Good(build, s) /\ NoneBusy(s)
  BY <1>2, <1>6, Rests
<1>8. PICK c, u : /\ c = WithBusy(s, a, off) /\ Good(build, c)
                  /\ Leads(build, ops \o <<Stores(<< <<"asked", a, "on">> >>)>>, c, u) /\ NoneBusy(u)
  <2>1. CASE a = 1
    <3>1. MayStart(1)
      BY <1>1, <2>1
    <3>2. ops = ControlStartApp(f)
      BY <1>5, <2>1
    <3>3. PICK c, u : /\ c = WithBusy(s, 1, off) /\ Good(build, c)
                   /\ Leads(build, ControlStartApp(f) \o <<Stores(<< <<"asked", 1, "on">> >>)>>, c, u) /\ NoneBusy(u)
      BY <1>1, <1>4, <1>7, <3>1, FirstStarts
    <3> QED BY <2>1, <3>2, <3>3
  <2>2. CASE a = 2
    <3>1. MayStart(2)
      BY <1>1, <2>2
    <3>2. ops = Init_TorqueVSI
      BY <1>5, <2>2
    <3>3. PICK c, u : /\ c = WithBusy(s, 2, off) /\ Good(build, c)
                   /\ Leads(build, Init_TorqueVSI \o <<Stores(<< <<"asked", 2, "on">> >>)>>, c, u) /\ NoneBusy(u)
      BY <1>1, <1>4, <1>7, <3>1, SecondStarts
    <3> QED BY <2>2, <3>2, <3>3
  <2> QED BY <2>1, <2>2
<1>9. PICK full : full = ops \o <<Stores(<< <<"asked", a, "on">> >>)>>
  OBVIOUS
<1>10. Leads(build, full, c, u) /\ agenda' = full
  BY <1>6, <1>8, <1>9
<1>11. Typed' /\ \E x, y : NoneBusy(y) /\ Onward(x, y)'
  BY <1>1, <1>6, <1>7, <1>8, <1>10, BeginKeeps
<1> QED BY <1>1, <1>6, <1>11 DEF ListInv

LEMMA StopsKeep ==
  ASSUME ListInv, NEW a \in 1 .. 2, CmdCTT(a) PROVE ListInv'
<1>1. Typed /\ IoTyped /\ build \in Build /\ mem.asked[a] = "on"
  BY DEF ListInv, CmdCTT
<1>2. PICK s, t : NoneBusy(t) /\ Onward(s, t)
  BY DEF ListInv
<1>4. PICK off \in BOOLEAN : off = TRUE
  OBVIOUS
<1>5. PICK ops : ops = IF a = 1 THEN ControlStopApp ELSE Stop_TorqueVSI(1)
  OBVIOUS
<1>6. /\ agenda = << >> /\ agenda' = ops \o <<Stores(<< <<"asked", a, "off">> >>)>>
      /\ Begins(mem', a, off) /\ build' = build /\ IoTyped'
  <2>1. off = ("off" = "off")
    BY <1>4
  <2>2. Begin(a, ops, "off")
    BY <1>5 DEF CmdCTT
  <2> QED BY <1>1, <2>1, <2>2, BeginIs
<1>7. Clean(s) /\ Good(build, s) /\ NoneBusy(s)
  BY <1>2, <1>6, Rests
<1>12. Stops(off)
  BY <1>4 DEF Stops
<1>8. PICK c, u : /\ c = WithBusy(s, a, off) /\ Good(build, c)
                  /\ Leads(build, ops \o <<Stores(<< <<"asked", a, "off">> >>)>>, c, u) /\ NoneBusy(u)
  <2>1. CASE a = 1
    <3>1. mem.asked[1] = "on"
      BY <1>1, <2>1
    <3>2. ops = ControlStopApp
      BY <1>5, <2>1
    <3>3. PICK c, u : /\ c = WithBusy(s, 1, off) /\ Good(build, c)
                   /\ Leads(build, ControlStopApp \o <<Stores(<< <<"asked", 1, "off">> >>)>>, c, u) /\ NoneBusy(u)
      BY <1>1, <1>12, <1>7, <3>1, FirstStops
    <3> QED BY <2>1, <3>2, <3>3
  <2>2. CASE a = 2
    <3>1. mem.asked[2] = "on"
      BY <1>1, <2>2
    <3>2. ops = Stop_TorqueVSI(1)
      BY <1>5, <2>2
    <3>3. PICK c, u : /\ c = WithBusy(s, 2, off) /\ Good(build, c)
                   /\ Leads(build, Stop_TorqueVSI(1) \o <<Stores(<< <<"asked", 2, "off">> >>)>>, c, u) /\ NoneBusy(u)
      BY <1>1, <1>12, <1>7, <3>1, SecondStops
    <3> QED BY <2>2, <3>2, <3>3
  <2> QED BY <2>1, <2>2
<1>9. PICK full : full = ops \o <<Stores(<< <<"asked", a, "off">> >>)>>
  OBVIOUS
<1>10. Leads(build, full, c, u) /\ agenda' = full
  BY <1>6, <1>8, <1>9
<1>11. Typed' /\ \E x, y : NoneBusy(y) /\ Onward(x, y)'
  BY <1>1, <1>6, <1>7, <1>8, <1>10, BeginKeeps
<1> QED BY <1>1, <1>6, <1>11 DEF ListInv

(* Every step keeps the invariant of the list, and it holds at first.      *)
LEMMA ControlKeeps ==
  ASSUME ListInv, ControlNext PROVE ListInv'
<1>1. ASSUME NEW a \in 1 .. 2, CmdCST(a) PROVE ListInv'
  BY <1>1, StartsKeep
<1>2. ASSUME NEW a \in 1 .. 2, CmdCTT(a) PROVE ListInv'
  BY <1>2, StopsKeep
<1>3. ASSUME NEW a \in 1 .. 2, NEW v \in Amps, CmdCNT(a, v) PROVE ListInv'
  BY <1>3, ForcedKeeps
<1>4. PICK s, t : NoneBusy(t) /\ Onward(s, t)
  BY DEF ListInv
<1>5. CASE MainStore
  <2>1. Typed' /\ \E r : Onward(r, t)'
    BY <1>4, <1>5, StoreKeeps DEF ListInv
  <2>2. build' = build /\ IoTyped'
    BY <1>5 DEF MainStore, ListInv, IoTyped
  <2> QED BY <1>4, <2>1, <2>2 DEF ListInv
<1>6. CASE ControlTimer0_ISR
  <2>1. Typed' /\ IoTyped' /\ Onward(s, t)'
    BY <1>4, <1>6, InterruptKeeps DEF ListInv
  <2>2. build' = build
    BY <1>6 DEF ControlTimer0_ISR
  <2> QED BY <1>4, <2>1, <2>2 DEF ListInv
<1> QED BY <1>1, <1>2, <1>3, <1>5, <1>6 DEF ControlNext

LEMMA ListStarts == ASSUME ControlInit PROVE ListInv
<1>1. PICK s : s = [list |-> << >>, ready |-> [u \in Unit \cup Position |-> FALSE], own |-> [u \in Unit |-> "none"],
                    useZero |-> [i \in Inv |-> FALSE], asked |-> [a \in 1 .. 2 |-> "never"],
                    stopped |-> [a \in 1 .. 2 |-> FALSE]]
  OBVIOUS
<1>2. /\ s.list = << >> /\ s.ready = [u \in Unit \cup Position |-> FALSE] /\ s.own = [u \in Unit |-> "none"]
      /\ s.useZero = [i \in Inv |-> FALSE] /\ s.asked = [a \in 1 .. 2 |-> "never"] /\ s.stopped = [a \in 1 .. 2 |-> FALSE]
  BY <1>1
<1>3. s \in Roster
  BY <1>1 DEF Roster, Owners, Answers
<1>4. /\ Range(s.list) = {} /\ \A S : InList(s, S) = {}
  BY <1>2 DEF InList, Range
<1>5. \A a \in 1 .. 2 : s.asked[a] = "never" /\ ~s.stopped[a]
  BY <1>2
<1>6. Good(build, s)
  <2>1. ListGood(s)
    BY <1>2, <1>3, <1>4 DEF ListGood, IsInjective
  <2>2. ZeroGood(build, s)
    BY <1>2, <1>4 DEF ZeroGood
  <2>3. FirstGood(build, s)
    BY <1>4, <1>5 DEF FirstGood
  <2>4. AppGood(build, s)
    BY <1>4, <1>5 DEF AppGood
  <2>5. OrderGood(build, s)
    BY <1>2 DEF OrderGood, Ahead
  <2> QED BY <2>1, <2>2, <2>3, <2>4, <2>5 DEF Good
<1>7. /\ mem.next = [n \in Item \cup {C0s} |-> NIL] /\ mem.prev = [n \in Item |-> NIL]
      /\ mem.reg = [n \in Item |-> FALSE] /\ mem.ready = [u \in Unit \cup Position |-> FALSE]
      /\ mem.updated = [n \in Item |-> FALSE]
      /\ mem.own = [u \in Unit |-> "none"] /\ mem.useZero = [i \in Inv |-> FALSE]
      /\ mem.asked = [a \in 1 .. 2 |-> "never"] /\ mem.stopped = [a \in 1 .. 2 |-> FALSE]
  BY DEF ControlInit
<1>8. Clean(s)
  BY <1>2, <1>7 DEF Clean, Rostered, Shaped, Links, BackLinks, Linked, IsInjective
<1>9. Leads(build, agenda, s, s)
  <2>1. agenda = << >> /\ IsSeq(agenda)
    BY DEF ControlInit, IsSeq
  <2>2. PICK sg : sg = [k \in 0 .. Len(agenda) |-> s]
    OBVIOUS
  <2> QED BY <1>3, <1>6, <2>1, <2>2 DEF Leads
<1>10. Typed
  BY DEF ControlInit, Typed, Memory, Links, BackLinks, Owners, Answers
<1>11. IoTyped
  BY DEF ControlInit, IoTyped, Io, Nothing, Refs, Origins, MaxAge
<1>12. NoneBusy(s)
  BY <1>5 DEF NoneBusy
<1> QED BY <1>8, <1>9, <1>10, <1>11, <1>12 DEF ListInv, Onward, ControlInit

(* It says that the list is intact.                                        *)
LEMMA ListShows == ASSUME ListInv PROVE ListIntact
<1>1. PICK s, t : NoneBusy(t) /\ Onward(s, t)
  BY DEF ListInv
<1>2. /\ Walk(mem.next) = s.list /\ s.list \in Seq(Item) /\ IsInjective(s.list) /\ Len(s.list) < Bound
      /\ Good(build, s) /\ Rostered(s)
  BY <1>1, Walked
<1>3. PICK w : w = Walk(mem.next)
  OBVIOUS
<1>4. \A k \in 1 .. Len(w) : mem.ready[UnitOf(w[k])]
  BY <1>2, <1>3, InRange DEF Good, ListGood, Rostered
<1>5. Registered \ Leaving \subseteq Range(w)
  <2>1. SUFFICES ASSUME NEW n \in Item, mem.reg[n], n \notin Leaving PROVE n \in Range(w)
    BY DEF Registered
  <2>2. CASE Clean(s)
    BY <1>2, <1>3, <2>1, <2>2, CleanFlags
  <2>3. CASE Halfway(s, t)
    <3>1. PICK m \in Item, p \in Item \cup {NIL}, b \in BOOLEAN :
            /\ Head(agenda) = Stores(<< <<"prev", m, p>>, <<"next", m, NIL>>, <<"reg", m, b>> >>)
            /\ Linked(mem.next, s.list)
            /\ Shaped([mem.next EXCEPT ![m] = NIL], [mem.prev EXCEPT ![m] = p], [mem.reg EXCEPT ![m] = b], s.list)
      BY <2>3 DEF Halfway
    <3>2. [mem.reg EXCEPT ![m] = b][n] => n \in Range(s.list)
      BY <1>2, <3>1, InRange DEF Shaped
    <3>3. CASE n # m \/ b = TRUE
      BY <1>2, <1>3, <2>1, <3>2, <3>3 DEF ListInv, Typed, Memory
    <3>4. CASE n = m /\ b = FALSE
      <4>1. PICK g : g = << <<"prev", m, p>>, <<"next", m, NIL>>, <<"reg", m, b>> >>
        OBVIOUS
      <4>2. g[3] = <<"reg", m, b>> /\ 3 \in DOMAIN g
        BY <4>1
      <4>5. <<"reg", m, b>> = <<"reg", n, FALSE>>
        BY <3>4, Zenon
      <4>3. <<"reg", n, FALSE>> \in Range(g)
        BY <4>2, <4>5 DEF Range
      <4>4. agenda # << >> /\ agenda[1].do = "store" /\ agenda[1].what = g
        BY <2>3, <3>1, <4>1 DEF Halfway, Stores
      <4> QED BY <2>1, <4>3, <4>4 DEF Leaving
    <3> QED BY <3>3, <3>4
  <2> QED BY <1>1, <2>2, <2>3 DEF Onward
<1>6. ASSUME agenda = << >>
      PROVE  /\ IsInjective(w) /\ Range(w) = Registered
             /\ \A k \in 1 .. Len(w) : mem.prev[w[k]] = IF k = 1 THEN NIL ELSE w[k - 1]
  <2>1. Clean(s)
    BY <1>1, <1>6, Rests
  <2>2. \A n \in Item : mem.reg[n] <=> n \in Range(w)
    BY <1>2, <1>3, <2>1, CleanFlags
  <2>3. Range(w) \subseteq Item
    BY <1>2, <1>3 DEF Range
  <2> QED BY <1>2, <1>3, <2>1, <2>2, <2>3 DEF Registered, Clean, Shaped
<1> QED BY <1>2, <1>3, <1>4, <1>5, <1>6 DEF ListIntact

(* One controller of an interrupt.                                         *)
Passed(f, w, k) ==
  /\ k - 1 \in 0 .. Len(w) /\ f[k - 1] \in Work /\ w[k] \in Item /\ w[k] \notin f[k - 1].ran /\ w[k] \in Range(w)
  /\ f[k] = ServiceController(f[k - 1], w[k]) /\ f[k - 1].ran = {w[j] : j \in 1 .. k - 1} /\ f[k - 1].ran \subseteq Range(w)
  /\ f[k].ran = f[k - 1].ran \cup {w[k]}

LEMMA PassStep ==
  ASSUME NEW f, NEW w, NEW gap, Passes(f, w, gap), NEW k \in 1 .. Len(w)
  PROVE  Passed(f, w, k)
<1>1. w \in Seq(Item) /\ Len(w) \in Nat /\ k - 1 \in 0 .. Len(w) /\ k \in 0 .. Len(w)
  BY DEF Passes
<1>2. f[k - 1] \in Work /\ f[k - 1].ran = {w[j] : j \in 1 .. k - 1} /\ f[k].ran = {w[j] : j \in 1 .. k}
  BY <1>1 DEF Passes
<1>3. \A j \in 1 .. k - 1 : w[j] # w[k]
  BY <1>1 DEF Passes, IsInjective
<1>4. \A j \in 1 .. Len(w) : w[j] \in Range(w)
  BY <1>1, InRange
<1>5. \A j \in 1 .. k - 1 : j \in 1 .. Len(w)
  BY <1>1
<1>6. \A j : j \in 1 .. k <=> j \in 1 .. k - 1 \/ j = k
  BY <1>1
<1>7. w[k] \notin f[k - 1].ran /\ f[k - 1].ran \subseteq Range(w) /\ f[k].ran = f[k - 1].ran \cup {w[k]}
  BY <1>2, <1>3, <1>4, <1>5, <1>6
<1>8. f[k] = ServiceController(f[k - 1], w[k])
  BY DEF Passes, Serves
<1> QED BY <1>1, <1>2, <1>4, <1>7, <1>8 DEF Passed

(* What a controller does to a bridge that is not its own. *)
LEMMA OthersLeft ==
  ASSUME Typed, NEW r \in Work, NEW it \in Item, NEW u \in Unit, UnitOf(it) # u
  PROVE  /\ ServiceController(r, it).wrote[u] = r.wrote[u] /\ ServiceController(r, it).age[u] = r.age[u]
         /\ ServiceController(r, it).ref[u] = r.ref[u]
<1>1. u \in Unit \cup {C0s}
  OBVIOUS
<1>2. CASE it \in Position
  BY <1>2, PositionServed
<1>3. CASE \E h \in Bridge : it = <<"H", h>>
  <2>1. PICK h \in Bridge : it = <<"H", h>>
    BY <1>3
  <2>2. u # it
    BY <2>1 DEF UnitOf
  <2> QED BY <1>1, <2>1, <2>2, BridgeServed
<1>4. CASE \E i \in Inv : it \in Used(i)
  <2>1. PICK i \in Inv : it \in Used(i)
    BY <1>4
  <2>2. PICK v : v = <<"V", i>>
    OBVIOUS
  <2>3. u # v
    BY <2>1, <2>2, Units0
  <2> QED BY <1>1, <2>1, <2>2, <2>3, LoopServed
<1> QED BY <1>2, <1>3, <1>4, Kinds

(* And to the flags of the loops of an inverter. *)
LEMMA OthersFlags ==
  ASSUME Typed, NEW r \in Work, NEW it \in Item, NEW i \in Inv, it \notin Used(i)
  PROVE  /\ UnitOf(it) # <<"V", i>> /\ <<"V", i>> \in Unit
         /\ \A l \in Used(i) : ServiceController(r, it).updated[l] = r.updated[l]
         /\ i \in ServiceController(r, it).skewed <=> i \in r.skewed
<1>1. Used(i) \subseteq Item \ Position
  BY Units0
<1>2. CASE it \in Position
  <2>1. UnitOf(it) # <<"V", i>>
    BY <1>2, Units0 DEF UnitOf
  <2> QED BY <1>1, <1>2, <2>1, PositionServed, Units0
<1>3. CASE \E h \in Bridge : it = <<"H", h>>
  <2>1. PICK h \in Bridge : it = <<"H", h>>
    BY <1>3
  <2>2. UnitOf(it) # <<"V", i>>
    BY <2>1 DEF UnitOf
  <2>3. ServiceController(r, it).updated = r.updated /\ ServiceController(r, it).skewed = r.skewed
    BY <2>1, BridgeServed
  <2> QED BY <2>2, <2>3, Units0
<1>4. CASE \E j \in Inv : it \in Used(j)
  <2>1. PICK j \in Inv : it \in Used(j)
    BY <1>4
  <2>2. j # i
    BY <2>1
  <2>3. UnitOf(it) # <<"V", i>>
    BY <2>1, <2>2 DEF Used, UnitOf
  <2>4. Used(i) \cap Used(j) = {}
    BY <2>2 DEF Used
  <2>5. PICK v : v = <<"V", j>>
    OBVIOUS
  <2>6. /\ \A n \in Item \ Used(j) : ServiceController(r, it).updated[n] = r.updated[n]
        /\ \A x \in Inv \ {j} : x \in ServiceController(r, it).skewed <=> x \in r.skewed
    BY <2>1, <2>5, LoopServed
  <2> QED BY <1>1, <2>2, <2>3, <2>4, <2>6, Units0
<1> QED BY <1>2, <1>3, <1>4, Kinds

-----------------------------------------------------------------------------
(* A bridge of an inverter: before its loops have all run nothing is       *)
(* written and those that ran are up to date, or it was written and one of *)
(* them is not.                                                            *)
LoopsPass(r, i) ==
  /\ \/ /\ r.wrote[<<"V", i>>] = 0 /\ \A l \in LoopsOf(i) \cap r.ran : r.updated[l]
        /\ \E l \in LoopsOf(i) : l \notin r.ran
     \/ /\ r.wrote[<<"V", i>>] = 1 /\ \E l \in LoopsOf(i) \cap r.ran : ~r.updated[l]
  /\ LoopsOf(i) \cap r.ran = {} => r.age[<<"V", i>>] > 3
  /\ LoopsOf(i) \cap r.ran # {} => r.age[<<"V", i>>] = 0

(* The duty ratio of this inverter is written by its output callback.      *)
Drives(i) == mem.own[<<"V", i>>] \in {"pos", "torque"} \/ i = 0

(* A loop of the inverter keeps this; the controllers of others do not     *)
(* touch it; so when all its loops ran, it was written once.               *)
LEMMA LoopRuns ==
  ASSUME Typed, NEW r \in Work, NEW i \in Inv, NEW it \in LoopsOf(i), it \notin r.ran, Drives(i), LoopsPass(r, i)
  PROVE  LoopsPass(ServiceController(r, it), i)
<1>1. PICK u : u = <<"V", i>>
  OBVIOUS
<1>2. it \in Used(i) /\ LoopsOf(i) \subseteq Item /\ LoopsOf(i) \subseteq Used(i)
  BY Units0
<1>3. PICK g \in Work :
        /\ g = ServiceController(r, it) /\ g.ran = r.ran \cup {it}
        /\ r.age[u] <= 3 => g.age[u] = r.age[u]
        /\ r.age[u] > 3 => g.age[u] = 0
        /\ \/ /\ \E l \in LoopsOf(i) : l # it /\ ~r.updated[l]
              /\ \A n \in Item : g.updated[n] <=> n = it \/ r.updated[n]
              /\ g.wrote[u] = r.wrote[u]
           \/ /\ \A l \in LoopsOf(i) : l = it \/ r.updated[l]
              /\ \A n \in Used(i) : ~g.updated[n]
              /\ mem.own[u] \in {"pos", "torque"} \/ i = 0 => g.wrote[u] = r.wrote[u] + 1
  BY <1>1, <1>2, LoopServed
<1>4. g.age[u] = 0
  BY <1>1, <1>3 DEF LoopsPass
<1>5. CASE /\ \E l \in LoopsOf(i) : l # it /\ ~r.updated[l]
           /\ \A n \in Item : g.updated[n] <=> n = it \/ r.updated[n]
           /\ g.wrote[u] = r.wrote[u]
  <2>1. CASE /\ r.wrote[u] = 0 /\ \A l \in LoopsOf(i) \cap r.ran : r.updated[l]
    <3>1. PICK l \in LoopsOf(i) : l # it /\ ~r.updated[l]
      BY <1>5
    <3>2. l \notin g.ran
      BY <1>3, <2>1, <3>1
    <3>3. \A m \in LoopsOf(i) \cap g.ran : g.updated[m]
      BY <1>2, <1>3, <1>5, <2>1
    <3> QED BY <1>1, <1>3, <1>4, <1>5, <2>1, <3>2, <3>3 DEF LoopsPass
  <2>2. CASE /\ r.wrote[u] = 1 /\ \E l \in LoopsOf(i) \cap r.ran : ~r.updated[l]
    <3>1. \E l \in LoopsOf(i) \cap g.ran : ~g.updated[l]
      BY <1>2, <1>3, <1>5, <2>2
    <3> QED BY <1>1, <1>3, <1>4, <1>5, <2>2, <3>1 DEF LoopsPass
  <2> QED BY <1>1, <2>1, <2>2 DEF LoopsPass
<1>6. CASE /\ \A l \in LoopsOf(i) : l = it \/ r.updated[l]
           /\ \A n \in Used(i) : ~g.updated[n]
           /\ mem.own[u] \in {"pos", "torque"} \/ i = 0 => g.wrote[u] = r.wrote[u] + 1
  <2>1. r.wrote[u] = 0
    BY <1>1, <1>6 DEF LoopsPass
  <2>2. g.wrote[u] = 1
    BY <1>1, <1>6, <2>1 DEF Drives
  <2>3. it \in LoopsOf(i) \cap g.ran /\ ~g.updated[it]
    BY <1>2, <1>3, <1>6
  <2> QED BY <1>1, <1>3, <1>4, <2>2, <2>3 DEF LoopsPass
<1> QED BY <1>3, <1>5, <1>6

LEMMA LoopsServed ==
  ASSUME Typed, IoTyped, NEW gap \in Gaps, NEW f, NEW w, Passes(f, w, gap), NEW i \in Inv, Range(w) \cap Used(i) = LoopsOf(i),
         Drives(i), f[Len(w)].ran = Range(w)
  PROVE  f[Len(w)].wrote[<<"V", i>>] = 1 /\ f[Len(w)].age[<<"V", i>>] = 0
<1>1. Len(w) \in Nat /\ f[0] = Before(gap)
  BY DEF Passes, Serves
<1>2. PICK P : P = [k \in 0 .. Len(w) |-> LoopsPass(f[k], i)]
  OBVIOUS
<1>3. P \in [0 .. Len(w) -> BOOLEAN] /\ \A k \in 0 .. Len(w) : P[k] <=> LoopsPass(f[k], i)
  BY <1>2 DEF LoopsPass
<1>4. LoopsPass(f[0], i)
  <2>1. PICK r \in Work : /\ r = Before(gap) /\ r.ran = {} /\ \A u \in Unit : r.wrote[u] = 0
                          /\ \A u \in Unit \cup {C0s} : r.age[u] >= 4
    BY BeforeIs
  <2>2. <<"V", i>> \in Unit /\ <<"d", i>> \in LoopsOf(i)
    BY Units0 DEF LoopsOf
  <2>3. r.wrote[<<"V", i>>] = 0 /\ r.age[<<"V", i>>] > 3
    <3>1. r.age[<<"V", i>>] \in Int
      BY <2>2 DEF Work, MaxAge
    <3> QED BY <2>1, <2>2, <3>1
  <2> QED BY <1>1, <2>1, <2>2, <2>3 DEF LoopsPass
<1>5. ASSUME NEW k \in 1 .. Len(w), LoopsPass(f[k - 1], i) PROVE LoopsPass(f[k], i)
  <2>1. /\ f[k - 1] \in Work /\ w[k] \in Item /\ w[k] \notin f[k - 1].ran /\ w[k] \in Range(w)
        /\ f[k] = ServiceController(f[k - 1], w[k]) /\ f[k].ran = f[k - 1].ran \cup {w[k]}
    <3>1. Passed(f, w, k)
      BY PassStep
    <3> QED BY <3>1 DEF Passed
  <2>2. CASE w[k] \in Used(i)
    <3>1. w[k] \in LoopsOf(i)
      BY <2>1, <2>2
    <3> QED BY <1>5, <2>1, <3>1, LoopRuns
  <2>3. CASE w[k] \notin Used(i)
    <3>1. /\ UnitOf(w[k]) # <<"V", i>> /\ <<"V", i>> \in Unit
          /\ \A l \in Used(i) : f[k].updated[l] = f[k - 1].updated[l]
      BY <2>1, <2>3, OthersFlags
    <3>2. f[k].wrote[<<"V", i>>] = f[k - 1].wrote[<<"V", i>>] /\ f[k].age[<<"V", i>>] = f[k - 1].age[<<"V", i>>]
      BY <2>1, <3>1, OthersLeft
    <3>3. LoopsOf(i) \subseteq Used(i) /\ w[k] \notin LoopsOf(i)
      BY <2>3, Units0
    <3>4. \A l \in LoopsOf(i) : l \in f[k].ran <=> l \in f[k - 1].ran
      BY <2>1, <3>3
    <3> QED BY <1>5, <3>1, <3>2, <3>3, <3>4 DEF LoopsPass
  <2> QED BY <2>2, <2>3
<1>6. \A k \in 0 .. Len(w) : P[k]
  <2>1. P[0]
    BY <1>1, <1>3, <1>4
  <2>2. \A k \in 1 .. Len(w) : P[k - 1] => P[k]
    <3>1. SUFFICES ASSUME NEW k \in 1 .. Len(w), P[k - 1] PROVE P[k]
      OBVIOUS
    <3>2. k - 1 \in 0 .. Len(w) /\ k \in 0 .. Len(w)
      BY <1>1
    <3> QED BY <1>3, <1>5, <3>1, <3>2
  <2> QED BY <1>1, <1>3, <2>1, <2>2, Along
<1>7. LoopsPass(f[Len(w)], i)
  BY <1>1, <1>3, <1>6
<1>8. LoopsOf(i) \subseteq f[Len(w)].ran /\ <<"d", i>> \in LoopsOf(i)
  BY DEF LoopsOf
<1> QED BY <1>7, <1>8 DEF LoopsPass

(* An H bridge is written once, as its controller runs once.               *)
LEMMA BridgesServed ==
  ASSUME Typed, IoTyped, NEW gap \in Gaps, NEW f, NEW w, Passes(f, w, gap), NEW h \in Bridge, NEW u, u = <<"H", h>>,
         mem.own[u] \in {"pos", "torque"}, u \in Range(w), f[Len(w)].ran = Range(w)
  PROVE  f[Len(w)].wrote[u] = 1 /\ f[Len(w)].age[u] = 0
<1> DEFINE Q(r) == (u \notin r.ran => r.wrote[u] = 0) /\ (u \in r.ran => r.wrote[u] = 1 /\ r.age[u] = 0)
<1>0. u \in Unit
  BY DEF Unit
<1>1. Len(w) \in Nat /\ f[0] = Before(gap)
  BY DEF Passes, Serves
<1>2. PICK P : P = [k \in 0 .. Len(w) |-> Q(f[k])]
  OBVIOUS
<1>3. P \in [0 .. Len(w) -> BOOLEAN] /\ \A k \in 0 .. Len(w) : P[k] <=> Q(f[k])
  BY <1>2
<1>4. Q(f[0])
  <2>1. PICK r \in Work : r = Before(gap) /\ r.ran = {} /\ \A v \in Unit : r.wrote[v] = 0
    BY BeforeIs
  <2> QED BY <1>0, <1>1, <2>1
<1>5. ASSUME NEW k \in 1 .. Len(w), Q(f[k - 1]) PROVE Q(f[k])
  <2>1. /\ f[k - 1] \in Work /\ w[k] \in Item /\ w[k] \notin f[k - 1].ran
        /\ f[k] = ServiceController(f[k - 1], w[k]) /\ f[k].ran = f[k - 1].ran \cup {w[k]}
    <3>1. Passed(f, w, k)
      BY PassStep
    <3> QED BY <3>1 DEF Passed
  <2>2. CASE w[k] = u
    <3>1. f[k] = ServiceController(f[k - 1], u)
      BY <2>1, <2>2
    <3>2. PICK g : /\ g = ServiceController(f[k - 1], u) /\ g.age[u] = 0
                   /\ mem.own[u] \in {"pos", "torque"} => g.wrote[u] = f[k - 1].wrote[u] + 1
      BY <2>1, BridgeServed
    <3>3. f[k - 1].wrote[u] = 0
      BY <1>5, <2>1, <2>2
    <3> QED BY <2>1, <2>2, <3>1, <3>2, <3>3
  <2>3. CASE w[k] # u
    <3>1. UnitOf(w[k]) # u
      BY <2>3 DEF UnitOf
    <3>2. f[k].wrote[u] = f[k - 1].wrote[u] /\ f[k].age[u] = f[k - 1].age[u]
      BY <1>0, <2>1, <3>1, OthersLeft
    <3> QED BY <1>5, <2>1, <2>3, <3>2
  <2> QED BY <2>2, <2>3
<1> HIDE DEF Q
<1>6. \A k \in 0 .. Len(w) : P[k]
  <2>1. P[0]
    BY <1>1, <1>3, <1>4
  <2>2. \A k \in 1 .. Len(w) : P[k - 1] => P[k]
    <3>1. SUFFICES ASSUME NEW k \in 1 .. Len(w), P[k - 1] PROVE P[k]
      OBVIOUS
    <3>2. k - 1 \in 0 .. Len(w) /\ k \in 0 .. Len(w)
      BY <1>1
    <3> QED BY <1>3, <1>5, <3>1, <3>2
  <2> QED BY <1>1, <1>3, <2>1, <2>2, Along
<1>7. Q(f[Len(w)])
  BY <1>1, <1>3, <1>6
<1> QED BY <1>7 DEF Q

(* The position controllers run at every interrupt.                        *)
LEMMA PositionsServed ==
  ASSUME Typed, IoTyped, NEW gap \in Gaps, NEW f, NEW w, Passes(f, w, gap), Position \subseteq Range(w), f[Len(w)].ran = Range(w)
  PROVE  f[Len(w)].age[C0s] <= 5
<1> DEFINE Q(r) == (\E p \in Position : p \in r.ran) => r.age[C0s] <= 5
<1>1. Len(w) \in Nat /\ f[0] = Before(gap)
  BY DEF Passes, Serves
<1>2. PICK P : P = [k \in 0 .. Len(w) |-> Q(f[k])]
  OBVIOUS
<1>3. P \in [0 .. Len(w) -> BOOLEAN] /\ \A k \in 0 .. Len(w) : P[k] <=> Q(f[k])
  BY <1>2
<1>4. Q(f[0])
  <2>1. PICK r \in Work : r = Before(gap) /\ r.ran = {}
    BY BeforeIs
  <2> QED BY <1>1, <2>1
<1>5. ASSUME NEW k \in 1 .. Len(w), Q(f[k - 1]) PROVE Q(f[k])
  <2>1. /\ f[k - 1] \in Work /\ w[k] \in Item
        /\ f[k] = ServiceController(f[k - 1], w[k]) /\ f[k].ran = f[k - 1].ran \cup {w[k]}
    <3>1. Passed(f, w, k)
      BY PassStep
    <3> QED BY <3>1 DEF Passed
  <2>2. CASE w[k] \in Position
    BY <2>1, <2>2, PositionServed
  <2>3. CASE \E h \in Bridge : w[k] = <<"H", h>>
    <3>1. PICK h \in Bridge : w[k] = <<"H", h>>
      BY <2>3
    <3>2. PICK v : v = w[k]
      OBVIOUS
    <3>3. v \in Unit /\ v \notin Position
      BY <3>1, <3>2 DEF Unit, Position
    <3>4. f[k].age[C0s] = f[k - 1].age[C0s]
      <4>1. v = <<"H", h>>
        BY <3>1, <3>2
      <4>2. \A x \in Unit \cup {C0s} : x # v => ServiceController(f[k - 1], v).age[x] = f[k - 1].age[x]
        BY <2>1, <4>1, BridgeServed
      <4> QED BY <2>1, <3>2, <3>3, <4>2, Units0
    <3> QED BY <1>5, <2>1, <3>2, <3>3, <3>4
  <2>4. CASE \E i \in Inv : w[k] \in Used(i)
    <3>1. PICK i \in Inv : w[k] \in Used(i)
      BY <2>4
    <3>2. PICK v : v = <<"V", i>>
      OBVIOUS
    <3>3. v \in Unit /\ w[k] \notin Position
      BY <3>1, <3>2, Units0
    <3>4. f[k].age[C0s] = f[k - 1].age[C0s]
      BY <2>1, <3>1, <3>2, <3>3, LoopServed, Units0
    <3> QED BY <1>5, <2>1, <3>3, <3>4
  <2> QED BY <2>1, <2>2, <2>3, <2>4, Kinds
<1> HIDE DEF Q
<1>6. \A k \in 0 .. Len(w) : P[k]
  <2>1. P[0]
    BY <1>1, <1>3, <1>4
  <2>2. \A k \in 1 .. Len(w) : P[k - 1] => P[k]
    <3>1. SUFFICES ASSUME NEW k \in 1 .. Len(w), P[k - 1] PROVE P[k]
      OBVIOUS
    <3>2. k - 1 \in 0 .. Len(w) /\ k \in 0 .. Len(w)
      BY <1>1
    <3> QED BY <1>3, <1>5, <3>1, <3>2
  <2> QED BY <1>1, <1>3, <2>1, <2>2, Along
<1>7. Q(f[Len(w)])
  BY <1>1, <1>3, <1>6
<1>8. <<"P", 0>> \in Position
  BY DEF Position
<1> QED BY <1>7, <1>8 DEF Q

(* So every interrupt serves the applications that are on.                 *)
LEMMA InterruptServes == ASSUME ListInv PROVE EveryInterruptServes
<1>1. PICK s, t : NoneBusy(t) /\ Onward(s, t)
  BY DEF ListInv
<1>2. Typed /\ IoTyped /\ Good(build, s) /\ Rostered(s) /\ build \in Build
  BY <1>1, Walked DEF ListInv
<1>3. SUFFICES ASSUME NEW gap \in Gaps, NEW r, r = ServiceControllers(gap), NEW a \in 1 .. 2, mem.asked[a] = "on"
               PROVE  /\ \A u \in Units(a) : r.wrote[u] = 1 /\ r.age[u] = 0
                      /\ build # "vsi" /\ a = 1 => r.age[C0s] <= 5
  BY DEF EveryInterruptServes
<1>4. PICK f : Passes(f, s.list, gap) /\ ServiceControllers(gap) = f[Len(s.list)] /\ f[Len(s.list)].ran = Range(s.list)
  BY <1>1, <1>2, PassOf
<1>5. r = f[Len(s.list)]
  BY <1>3, <1>4
<1>6. Serving(build, s, a)
  BY <1>2, <1>3 DEF Good, AppGood, Rostered
<1>7. ASSUME NEW i \in Inv, Range(s.list) \cap Used(i) = LoopsOf(i), Drives(i)
      PROVE  r.wrote[<<"V", i>>] = 1 /\ r.age[<<"V", i>>] = 0
  BY <1>2, <1>4, <1>5, <1>7, LoopsServed
<1>8. BOT \in Inv /\ TOP \in Inv /\ TORQUE \in Inv
  BY Numbers
<1>9. CASE a = 2
  <2>1. build # "vsi" /\ Bridged(build, s, TORQUE, "torque")
    BY <1>6, <1>9 DEF Serving
  <2>2. mem.own[<<"V", TORQUE>>] = "torque" /\ Range(s.list) \cap Used(TORQUE) = LoopsOf(TORQUE)
    BY <1>2, <2>1 DEF Bridged, InList, LoopsOf, LoopsIn, Rostered
  <2>3. Drives(TORQUE)
    BY <2>2 DEF Drives
  <2>4. \A u \in Units(a) : u = <<"V", TORQUE>>
    BY <1>9 DEF Units
  <2> QED BY <1>7, <1>8, <1>9, <2>2, <2>3, <2>4
<1>10. CASE a = 1 /\ build = "vsi"
  <2>1. InList(s, Used(BOT)) = LoopsIn(build, BOT)
    BY <1>6, <1>10 DEF Serving
  <2>2. ~mem.useZero[BOT]
    BY <1>2, <1>8, <1>10 DEF Good, ZeroGood, Rostered
  <2>3. Range(s.list) \cap Used(BOT) = LoopsOf(BOT)
    BY <1>10, <2>1, <2>2 DEF InList, LoopsOf, LoopsIn
  <2>4. Drives(BOT) /\ \A u \in Units(a) : u = <<"V", BOT>>
    BY <1>10 DEF Drives, Units, BOT
  <2> QED BY <1>7, <1>8, <1>10, <2>3, <2>4
<1>11. CASE a = 1 /\ build = "bridge"
  <2>1. /\ Position \subseteq Range(s.list)
                                  /\ \A h \in Bridge : <<"H", h>> \in Range(s.list) /\ mem.own[<<"H", h>>] = "pos"
    BY <1>2, <1>6, <1>11 DEF Serving, Rostered
  <2>2. r.age[C0s] <= 5
    BY <1>2, <1>4, <1>5, <2>1, PositionsServed
  <2>3. SUFFICES ASSUME NEW u \in Units(a) PROVE r.wrote[u] = 1 /\ r.age[u] = 0
    BY <2>2
  <2>4. PICK h \in Bridge : u = <<"H", h>>
    BY <1>11, <2>3 DEF Units
  <2>5. mem.own[u] \in {"pos", "torque"} /\ u \in Range(s.list)
    BY <2>1, <2>4
  <2> QED BY <1>2, <1>4, <1>5, <2>4, <2>5, BridgesServed
<1>12. CASE a = 1 /\ build \in {"isolated", "common"}
  <2>1. Position \subseteq Range(s.list) /\ \A i \in {BOT, TOP} : Bridged(build, s, i, "pos")
    BY <1>6, <1>12 DEF Serving
  <2>2. r.age[C0s] <= 5
    BY <1>2, <1>4, <1>5, <2>1, PositionsServed
  <2>3. SUFFICES ASSUME NEW u \in Units(a) PROVE r.wrote[u] = 1 /\ r.age[u] = 0
    BY <2>2
  <2>4. PICK i \in {BOT, TOP} : u = <<"V", i>>
    BY <1>12, <2>3 DEF Units
  <2>5. mem.own[<<"V", i>>] = "pos" /\ Range(s.list) \cap Used(i) = LoopsOf(i)
    <3>1. i \in Inv
      BY <1>8, <2>4
    <3> QED BY <1>2, <2>1, <3>1 DEF Bridged, InList, LoopsOf, LoopsIn, Rostered
  <2>6. Drives(i)
    BY <2>5 DEF Drives
  <2> QED BY <1>7, <1>8, <2>4, <2>5, <2>6
<1> QED BY <1>2, <1>3, <1>9, <1>10, <1>11, <1>12 DEF Build

-----------------------------------------------------------------------------
(* The loop of an inverter that is started last is not up to date between  *)
(* two interrupts, so only it, at the end, makes the pair of all of them.  *)
LastPass(r, i) ==
  /\ ~r.updated[LastIn(build, i)] /\ i \notin r.skewed
  /\ LastIn(build, i) \notin r.ran => \A l \in LoopsIn(build, i) \cap r.ran : r.updated[l]

LEMMA LoopsAre ==
  ASSUME NEW i \in Inv PROVE LastIn(build, i) \in LoopsIn(build, i) /\ LoopsIn(build, i) \subseteq Used(i) /\ Used(i) \subseteq Item
BY Units0 DEF LastIn, LoopsIn, Used

(* When it runs, the others ran before it. *)
InTurn(ran, it, i) ==
  /\ LastIn(build, i) \in ran => LoopsIn(build, i) \subseteq ran
  /\ it = LastIn(build, i) => LoopsIn(build, i) \subseteq ran \cup {it}

(* The pair is then made of loops that all ran in this interrupt.          *)
LEMMA LastRuns ==
  ASSUME Typed, NEW r \in Work, NEW i \in Inv, LoopsOf(i) = LoopsIn(build, i), NEW it \in LoopsIn(build, i), it \notin r.ran,
         InTurn(r.ran, it, i), LastPass(r, i)
  PROVE  LastPass(ServiceController(r, it), i)
<1> DEFINE last == LastIn(build, i)
<1>1. PICK u : u = <<"V", i>>
  OBVIOUS
<1>2. it \in Used(i) /\ last \in LoopsIn(build, i) /\ last \in Used(i) /\ last \in Item
  BY LoopsAre
<1>3. PICK g \in Work :
        /\ g = ServiceController(r, it) /\ g.ran = r.ran \cup {it}
        /\ \/ /\ \E l \in LoopsOf(i) : l # it /\ ~r.updated[l]
              /\ \A n \in Item : g.updated[n] <=> n = it \/ r.updated[n]
              /\ g.skewed = r.skewed
           \/ /\ \A l \in LoopsOf(i) : l = it \/ r.updated[l]
              /\ \A n \in Used(i) : ~g.updated[n]
              /\ LoopsOf(i) \subseteq r.ran \cup {it} => g.skewed = r.skewed \ {i}
  BY <1>1, <1>2, LoopServed
<1>4. last \notin r.ran
  BY DEF InTurn
<1>5. CASE it = last
  <2>1. LoopsIn(build, i) \subseteq r.ran \cup {it}
    BY <1>5 DEF InTurn
  <2>2. \A l \in LoopsIn(build, i) : l # it => r.updated[l]
    BY <1>4, <2>1 DEF LastPass
  <2>3. /\ \A n \in Used(i) : ~g.updated[n]
        /\ g.skewed = r.skewed \ {i}
    BY <1>3, <2>1, <2>2
  <2> QED BY <1>2, <1>3, <1>5, <2>3 DEF LastPass
<1>6. CASE it # last
  <2>1. ~r.updated[last]
    BY DEF LastPass
  <2>2. /\ \A n \in Item : g.updated[n] <=> n = it \/ r.updated[n]
        /\ g.skewed = r.skewed
    BY <1>2, <1>3, <1>6, <2>1
  <2>3. \A l \in LoopsIn(build, i) \cap g.ran : g.updated[l]
    BY <1>3, <1>4, <2>2, LoopsAre DEF LastPass
  <2>4. ~g.updated[last]
    BY <1>2, <1>6, <2>1, <2>2
  <2>5. i \notin g.skewed
    BY <2>2 DEF LastPass
  <2> QED BY <1>3, <2>3, <2>4, <2>5 DEF LastPass
<1> QED BY <1>5, <1>6

(* No loop of the inverter is in the list that its pairs are not made of. *)
Matched(w, i) == /\ Range(w) \cap Used(i) \subseteq LoopsIn(build, i)
                 /\ Range(w) \cap Used(i) # {} => LoopsOf(i) = LoopsIn(build, i)
                 /\ \A m \in LoopsIn(build, i) : Ahead(w, LastIn(build, i), m)

(* The order of the list is the order in which they run.                   *)
LEMMA Turns ==
  ASSUME NEW f, NEW w, NEW gap, Passes(f, w, gap), NEW i \in Inv, Matched(w, i), NEW k \in 1 .. Len(w)
  PROVE  InTurn(f[k - 1].ran, w[k], i)
<1> DEFINE last == LastIn(build, i)
<1>1. Len(w) \in Nat /\ f[k - 1].ran = {w[j] : j \in 1 .. k - 1}
  <2>1. Passed(f, w, k)
    BY PassStep
  <2> QED BY <2>1 DEF Passed, Passes
<1>2. ASSUME NEW j \in 1 .. Len(w), w[j] = last, NEW m \in LoopsIn(build, i) PROVE \E h \in 1 .. j : w[h] = m
  BY <1>2 DEF Matched, Ahead
<1>3. ASSUME last \in f[k - 1].ran, NEW m \in LoopsIn(build, i) PROVE m \in f[k - 1].ran
  <2>1. PICK j \in 1 .. k - 1 : w[j] = last
    BY <1>1, <1>3
  <2>2. j \in 1 .. Len(w)
    BY <1>1
  <2>3. PICK h \in 1 .. j : w[h] = m
    BY <1>2, <1>3, <2>1, <2>2
  <2>4. h \in 1 .. k - 1
    BY <1>1
  <2> QED BY <1>1, <2>3, <2>4
<1>4. ASSUME w[k] = last, NEW m \in LoopsIn(build, i) PROVE m \in f[k - 1].ran \cup {w[k]}
  <2>1. PICK h \in 1 .. k : w[h] = m
    BY <1>2, <1>4
  <2>2. h \in 1 .. k - 1 \/ h = k
    BY <1>1
  <2> QED BY <1>1, <2>1, <2>2
<1> QED BY <1>3, <1>4 DEF InTurn

(* And it is as it was when the interrupt is over.                         *)
LEMMA LastKept ==
  ASSUME Typed, IoTyped, NEW gap \in Gaps, NEW f, NEW w, Passes(f, w, gap), NEW i \in Inv, Matched(w, i),
         ~mem.updated[LastIn(build, i)], i \notin io.skewed
  PROVE  ~f[Len(w)].updated[LastIn(build, i)] /\ i \notin f[Len(w)].skewed
<1>1. Len(w) \in Nat /\ f[0] = Before(gap)
  BY DEF Passes, Serves
<1>2. PICK P : P = [k \in 0 .. Len(w) |-> LastPass(f[k], i)]
  OBVIOUS
<1>3. P \in [0 .. Len(w) -> BOOLEAN] /\ \A k \in 0 .. Len(w) : P[k] <=> LastPass(f[k], i)
  BY <1>2 DEF LastPass
<1>4. LastPass(f[0], i)
  <2>1. PICK r \in Work : r = Before(gap) /\ r.ran = {} /\ r.updated = mem.updated /\ r.skewed = io.skewed
    BY BeforeIs
  <2> QED BY <1>1, <2>1 DEF LastPass
<1>5. ASSUME NEW k \in 1 .. Len(w), LastPass(f[k - 1], i) PROVE LastPass(f[k], i)
  <2>1. /\ f[k - 1] \in Work /\ w[k] \in Item /\ w[k] \notin f[k - 1].ran /\ w[k] \in Range(w)
        /\ f[k] = ServiceController(f[k - 1], w[k]) /\ f[k].ran = f[k - 1].ran \cup {w[k]}
    <3>1. Passed(f, w, k)
      BY PassStep
    <3> QED BY <3>1 DEF Passed
  <2>2. CASE w[k] \in Used(i)
    <3>1. w[k] \in LoopsIn(build, i) /\ LoopsOf(i) = LoopsIn(build, i)
      BY <2>1, <2>2 DEF Matched
    <3>2. InTurn(f[k - 1].ran, w[k], i)
      BY Turns
    <3> QED BY <1>5, <2>1, <3>1, <3>2, LastRuns
  <2>3. CASE w[k] \notin Used(i)
    <3>4. /\ UnitOf(w[k]) # <<"V", i>> /\ <<"V", i>> \in Unit
          /\ \A l \in Used(i) : f[k].updated[l] = f[k - 1].updated[l]
      BY <2>1, <2>3, OthersFlags
    <3>5. i \in ServiceController(f[k - 1], w[k]).skewed <=> i \in f[k - 1].skewed
      BY <2>1, <2>3, OthersFlags
    <3>1. /\ \A l \in Used(i) : f[k].updated[l] = f[k - 1].updated[l]
          /\ i \in f[k].skewed <=> i \in f[k - 1].skewed
      BY <2>1, <3>4, <3>5
    <3>2. w[k] \notin LoopsIn(build, i) /\ LastIn(build, i) \in LoopsIn(build, i) /\ LoopsIn(build, i) \subseteq Used(i)
      BY <2>3, LoopsAre
    <3>3. \A l \in LoopsIn(build, i) : l \in f[k].ran <=> l \in f[k - 1].ran
      BY <2>1, <3>2
    <3> QED BY <1>5, <3>1, <3>2, <3>3 DEF LastPass
  <2> QED BY <2>2, <2>3
<1>6. \A k \in 0 .. Len(w) : P[k]
  <2>1. P[0]
    BY <1>1, <1>3, <1>4
  <2>2. \A k \in 1 .. Len(w) : P[k - 1] => P[k]
    <3>1. SUFFICES ASSUME NEW k \in 1 .. Len(w), P[k - 1] PROVE P[k]
      OBVIOUS
    <3>2. k - 1 \in 0 .. Len(w) /\ k \in 0 .. Len(w)
      BY <1>1
    <3> QED BY <1>3, <1>5, <3>1, <3>2
  <2> QED BY <1>1, <1>3, <2>1, <2>2, Along
<1>7. LastPass(f[Len(w)], i)
  BY <1>1, <1>3, <1>6
<1> QED BY <1>7 DEF LastPass

-----------------------------------------------------------------------------

(* An application that was never stopped has no pair that is not whole:    *)
(* its last loops are not up to date between two interrupts.               *)
FlagInv == \A a \in 1 .. 2 : ~mem.stopped[a] =>
             \A i \in InvOf(build, a) : ~mem.updated[LastIn(build, i)] /\ i \notin io.skewed

(* The inverters of an application are those of its units.                 *)
LEMMA InvOfIs ==
  ASSUME build \in Build, NEW a \in 1 .. 2
  PROVE  InvOf(build, a) \subseteq Inv /\ \A u \in Units(a) \cap ({"V"} \X Inv) : u[2] \in InvOf(build, a)
<1>1. BOT \in Inv /\ TOP \in Inv /\ TORQUE \in Inv /\ BOT = 0
  BY Numbers
<1>2. CASE a = 2
  BY <1>1, <1>2 DEF InvOf, Units
<1>3. CASE a = 1
  BY <1>1, <1>3 DEF InvOf, Units, Build
<1> QED BY <1>2, <1>3

(* The list of an application that was never stopped is in the order that  *)
(* this needs.                                                             *)
LEMMA Matching ==
  ASSUME NEW s, Good(build, s), Rostered(s), NEW a \in 1 .. 2, ~mem.stopped[a], NEW i \in InvOf(build, a), i \in Inv
  PROVE  Matched(s.list, i)
<1>1. \A n : n \in InList(s, Used(i)) <=> n \in Range(s.list) /\ n \in Used(i)
  BY DEF InList
<1>2. Range(s.list) \cap Used(i) \subseteq LoopsIn(build, i)
  BY DEF Good, ZeroGood, Used, LoopsIn
<1>3. Range(s.list) \cap Used(i) # {} => LoopsOf(i) = LoopsIn(build, i)
  <2>1. CASE build = "common" /\ i = TOP
    <3>1. a = 1
      BY <2>1, Numbers DEF InvOf
    <3>2. Range(s.list) \cap Used(i) # {} => mem.useZero[i]
      BY <2>1, <3>1, <1>1 DEF Good, ZeroGood, Rostered
    <3> QED BY <2>1, <3>2 DEF LoopsOf, LoopsIn
  <2>2. CASE ~(build = "common" /\ i = TOP)
    <3>1. ~mem.useZero[i]
      BY <2>2 DEF Good, ZeroGood, Rostered
    <3> QED BY <2>2, <3>1 DEF LoopsOf, LoopsIn
  <2> QED BY <2>1, <2>2
<1>4. \A m \in LoopsIn(build, i) : Ahead(s.list, LastIn(build, i), m)
  BY DEF Good, OrderGood, Rostered
<1> QED BY <1>2, <1>3, <1>4 DEF Matched

(* The flags hold at first, and a step that sets none keeps them; of those *)
(* that do, only the interrupt needs the order of the list.                *)
LEMMA FlagsStart == ASSUME ControlInit PROVE FlagInv
<1>1. mem.updated = [n \in Item |-> FALSE] /\ io.skewed = {} /\ build \in Build
  BY DEF ControlInit
<1>2. SUFFICES ASSUME NEW a \in 1 .. 2, NEW i \in InvOf(build, a) PROVE ~mem.updated[LastIn(build, i)] /\ i \notin io.skewed
  BY DEF FlagInv
<1>3. LastIn(build, i) \in Item
  BY <1>1, InvOfIs, LoopsAre
<1> QED BY <1>1, <1>3

LEMMA QuietFlags ==
  ASSUME build \in Build, FlagInv, build' = build, io'.skewed = io.skewed,
         \A a \in 1 .. 2 : mem.stopped[a] => mem'.stopped[a], \A n \in Item : mem'.updated[n] => mem.updated[n]
  PROVE  FlagInv'
<1>1. SUFFICES ASSUME NEW a \in 1 .. 2, ~mem'.stopped[a], NEW i \in InvOf(build, a)
               PROVE  ~mem'.updated[LastIn(build, i)] /\ i \notin io'.skewed
  BY DEF FlagInv
<1>2. LastIn(build, i) \in Item
  BY InvOfIs, LoopsAre
<1>3. ~mem.updated[LastIn(build, i)] /\ i \notin io.skewed
  BY <1>1 DEF FlagInv
<1> QED BY <1>2, <1>3

LEMMA BeginFlags ==
  ASSUME Typed, IoTyped, build \in Build, FlagInv, NEW a \in 1 .. 2, NEW ops, NEW ans, Begin(a, ops, ans) PROVE FlagInv'
<1>1. /\ mem' = [mem EXCEPT !.asked[a] = "busy", !.stopped[a] = @ \/ ans = "off"] /\ io' = [io EXCEPT !.since = 0]
      /\ build' = build
  BY DEF Begin
<1>2. mem'.updated = mem.updated /\ io'.skewed = io.skewed
  BY <1>1 DEF Typed, Memory, IoTyped, Io
<1>3. mem'.stopped = [mem.stopped EXCEPT ![a] = @ \/ ans = "off"]
  BY <1>1 DEF Typed, Memory
<1>4. \A x \in 1 .. 2 : mem.stopped[x] => mem'.stopped[x]
  BY <1>3 DEF Typed, Memory
<1> QED BY <1>1, <1>2, <1>4, QuietFlags

LEMMA FlagsKept ==
  ASSUME ListInv, FlagInv, ControlNext PROVE FlagInv'
<1>0. Typed /\ IoTyped /\ build \in Build
  BY DEF ListInv
<1>1. ASSUME NEW a \in 1 .. 2, CmdCST(a) PROVE FlagInv'
  BY <1>0, <1>1, BeginFlags DEF CmdCST
<1>2. ASSUME NEW a \in 1 .. 2, CmdCTT(a) PROVE FlagInv'
  BY <1>0, <1>2, BeginFlags DEF CmdCTT
<1>3. ASSUME NEW a \in 1 .. 2, NEW v \in Amps, CmdCNT(a, v) PROVE FlagInv'
  <2>1. PICK w : mem' = [mem EXCEPT !.sent[w] = v] /\ io' = [io EXCEPT !.since = 0] /\ build' = build
    BY <1>3 DEF CmdCNT
  <2>2. mem'.updated = mem.updated /\ io'.skewed = io.skewed /\ mem'.stopped = mem.stopped
    BY <1>0, <2>1 DEF Typed, Memory, IoTyped, Io
  <2> QED BY <1>0, <2>1, <2>2, QuietFlags
<1>4. PICK s, t : NoneBusy(t) /\ Onward(s, t)
  BY DEF ListInv
<1>5. CASE MainStore
  <2>1. Quiet(mem, mem')
    BY <1>0, <1>4, <1>5, StoreKeeps
  <2>2. build' = build /\ io' = io
    BY <1>5 DEF MainStore
  <2> QED BY <1>0, <2>1, <2>2, QuietFlags DEF Quiet
<1>6. CASE ControlTimer0_ISR
  <2>1. PICK gap \in Gaps :
          LET r == ServiceControllers(gap)
          IN  mem' = [mem EXCEPT !.updated = r.updated] /\ io'.skewed = r.skewed /\ build' = build
    BY <1>6 DEF ControlTimer0_ISR
  <2>2. PICK f : Passes(f, s.list, gap) /\ ServiceControllers(gap) = f[Len(s.list)]
    BY <1>0, <1>4, PassOf
  <2>3. mem'.updated = f[Len(s.list)].updated /\ io'.skewed = f[Len(s.list)].skewed /\ mem'.stopped = mem.stopped
    BY <1>0, <2>1, <2>2 DEF Typed, Memory
  <2>4. Good(build, s) /\ Rostered(s)
    BY <1>4, Walked
  <2>5. SUFFICES ASSUME NEW a \in 1 .. 2, ~mem.stopped[a], NEW i \in InvOf(build, a)
                 PROVE  ~mem'.updated[LastIn(build, i)] /\ i \notin io'.skewed
    BY <2>1, <2>3 DEF FlagInv
  <2>6. i \in Inv
    BY <1>0, InvOfIs
  <2>7. Matched(s.list, i)
    BY <2>4, <2>5, <2>6, Matching
  <2>8. ~mem.updated[LastIn(build, i)] /\ i \notin io.skewed
    BY <2>5 DEF FlagInv
  <2> QED BY <1>0, <2>2, <2>3, <2>6, <2>7, <2>8, LastKept
<1> QED BY <1>1, <1>2, <1>3, <1>5, <1>6 DEF ControlNext

(* They say that the pairs are whole.                                      *)
LEMMA FlagsShow == ASSUME build \in Build, FlagInv PROVE PairsAreWhole
<1>1. SUFFICES ASSUME NEW a \in 1 .. 2, ~mem.stopped[a], NEW u \in Units(a) \cap ({"V"} \X Inv) PROVE u[2] \notin io.skewed
  BY DEF PairsAreWhole
<1>2. u[2] \in InvOf(build, a)
  BY InvOfIs
<1> QED BY <1>1, <1>2 DEF FlagInv

-----------------------------------------------------------------------------
(* What a controller does to what the others are told.                     *)
LEMMA TopIs ==
  ASSUME Typed, NEW r \in Work, NEW it \in Item
  PROVE  ServiceController(r, it).top \in {r.top, mem.sent["torque"]}
<1>1. CASE it \in Position
  <2>1. PICK g : g = ServiceController(r, it) /\ g.top = r.top
    BY <1>1, PositionServed
  <2> QED BY <2>1
<1>2. CASE \E h \in Bridge : it = <<"H", h>>
  <2>1. PICK h \in Bridge : it = <<"H", h>>
    BY <1>2
  <2>2. PICK g : g = ServiceController(r, it) /\ g.top \in {r.top, mem.sent["torque"]}
    BY <2>1, BridgeServed
  <2> QED BY <2>2
<1>3. CASE \E i \in Inv : it \in Used(i)
  <2>1. PICK i \in Inv : it \in Used(i)
    BY <1>3
  <2>2. PICK u : u = <<"V", i>>
    OBVIOUS
  <2>3. PICK g : g = ServiceController(r, it) /\ g.top \in {r.top, mem.sent["torque"]}
    BY <2>1, <2>2, LoopServed
  <2> QED BY <2>3
<1> QED BY <1>1, <1>2, <1>3, Kinds

(* Only the position controllers compute the currents and touch their own  *)
(* flags.                                                                  *)
LEMMA CurrentsLeft ==
  ASSUME Typed, NEW r \in Work, NEW it \in Item, it \notin Position
  PROVE  /\ ServiceController(r, it).ixy = r.ixy
         /\ \A p \in Position : ServiceController(r, it).updated[p] = r.updated[p]
<1>1. CASE \E h \in Bridge : it = <<"H", h>>
  <2>1. PICK h \in Bridge : it = <<"H", h>>
    BY <1>1
  <2>2. PICK g : g = ServiceController(r, it) /\ g.ixy = r.ixy /\ g.updated = r.updated
    BY <2>1, BridgeServed
  <2> QED BY <2>2
<1>2. CASE \E i \in Inv : it \in Used(i)
  <2>1. PICK i \in Inv : it \in Used(i)
    BY <1>2
  <2>2. PICK u : u = <<"V", i>>
    OBVIOUS
  <2>3. PICK g : g = ServiceController(r, it) /\ g.ixy = r.ixy /\ \A n \in Item \ Used(i) : g.updated[n] = r.updated[n]
    BY <2>1, <2>2, LoopServed
  <2>4. Position \subseteq Item \ Used(i)
    BY Units0
  <2> QED BY <2>3, <2>4
<1> QED BY <1>1, <1>2, Kinds

(* Until all position controllers ran, those that did are up to date.      *)
CurrentsPass(r) == \/ /\ \A p \in Position \cap r.ran : r.updated[p]
                      /\ \E p \in Position : p \notin r.ran
                   \/ r.ixy = OutputCurrents

(* So after an interrupt that ran all four, the currents are new.          *)
LEMMA CurrentsRun ==
  ASSUME Typed, NEW r \in Work, NEW it \in Item, it \notin r.ran, CurrentsPass(r) PROVE CurrentsPass(ServiceController(r, it))
<1>1. PICK g : g = ServiceController(r, it)
  OBVIOUS
<1>2. g.ran = r.ran \cup {it}
  BY <1>1, ServedOne
<1>3. CASE it \in Position
  <2>1. \/ /\ \E q \in Position : q # it /\ ~r.updated[q]
           /\ g.ixy = r.ixy
           /\ \A n \in Item : g.updated[n] <=> n = it \/ r.updated[n]
        \/ g.ixy = OutputCurrents
    <3>1. PICK h : /\ h = ServiceController(r, it)
                   /\ \/ /\ \E q \in Position : q # it /\ ~r.updated[q]
                         /\ h.ixy = r.ixy
                         /\ \A n \in Item : h.updated[n] <=> n = it \/ r.updated[n]
                      \/ h.ixy = OutputCurrents
      BY <1>3, PositionServed
    <3> QED BY <1>1, <3>1
  <2>2. ASSUME NEW q \in Position, q # it, ~r.updated[q], \A p \in Position \cap r.ran : r.updated[p]
        PROVE  q \notin g.ran
    BY <1>2, <2>2
  <2>3. Position \subseteq Item
    BY Units0
  <2> QED BY <1>1, <1>2, <2>1, <2>2, <2>3 DEF CurrentsPass
<1>4. CASE it \notin Position
  <2>1. g.ixy = r.ixy /\ \A p \in Position : g.updated[p] = r.updated[p]
    BY <1>1, <1>4, CurrentsLeft
  <2> QED BY <1>1, <1>2, <1>4, <2>1 DEF CurrentsPass
<1> QED BY <1>3, <1>4

LEMMA CurrentsServed ==
  ASSUME Typed, IoTyped, NEW gap \in Gaps, NEW f, NEW w, Passes(f, w, gap), Position \subseteq Range(w), f[Len(w)].ran = Range(w)
  PROVE  f[Len(w)].ixy = OutputCurrents
<1>1. Len(w) \in Nat /\ f[0] = Before(gap)
  BY DEF Passes, Serves
<1>2. PICK P : P = [k \in 0 .. Len(w) |-> CurrentsPass(f[k])]
  OBVIOUS
<1>3. P \in [0 .. Len(w) -> BOOLEAN] /\ \A k \in 0 .. Len(w) : P[k] <=> CurrentsPass(f[k])
  BY <1>2 DEF CurrentsPass
<1>4. CurrentsPass(f[0])
  <2>1. PICK r \in Work : r = Before(gap) /\ r.ran = {}
    BY BeforeIs
  <2>2. <<"P", 0>> \in Position
    BY DEF Position
  <2> QED BY <1>1, <2>1, <2>2 DEF CurrentsPass
<1>5. ASSUME NEW k \in 1 .. Len(w), CurrentsPass(f[k - 1]) PROVE CurrentsPass(f[k])
  <2>1. /\ f[k - 1] \in Work /\ w[k] \in Item /\ w[k] \notin f[k - 1].ran
        /\ f[k] = ServiceController(f[k - 1], w[k])
    <3>1. Passed(f, w, k)
      BY PassStep
    <3> QED BY <3>1 DEF Passed
  <2> QED BY <1>5, <2>1, CurrentsRun
<1>6. \A k \in 0 .. Len(w) : P[k]
  <2>1. P[0]
    BY <1>1, <1>3, <1>4
  <2>2. \A k \in 1 .. Len(w) : P[k - 1] => P[k]
    <3>1. SUFFICES ASSUME NEW k \in 1 .. Len(w), P[k - 1] PROVE P[k]
      OBVIOUS
    <3>2. k - 1 \in 0 .. Len(w) /\ k \in 0 .. Len(w)
      BY <1>1
    <3> QED BY <1>3, <1>5, <3>1, <3>2
  <2> QED BY <1>1, <1>3, <2>1, <2>2, Along
<1>7. CurrentsPass(f[Len(w)])
  BY <1>1, <1>3, <1>6
<1> QED BY <1>7 DEF CurrentsPass

(* The torque inverter runs and takes room on the top one. *)
TopShared == mem.asked[2] = "on" /\ build # "bridge"
(* An interrupt before this one computed the currents from what was sent.  *)
Settled == io.ixy = OutputCurrents /\ (TopShared => io.top = mem.sent["torque"])
StaysPass(r) == Settled => r.ixy = OutputCurrents /\ (TopShared => r.top = mem.sent["torque"])

(* Once settled, no controller unsettles the currents or the room that is  *)
(* taken.                                                                  *)
LEMMA StaysRun ==
  ASSUME Typed, NEW r \in Work, NEW it \in Item, StaysPass(r) PROVE StaysPass(ServiceController(r, it))
<1>1. PICK g : g = ServiceController(r, it)
  OBVIOUS
<1>2. g.top \in {r.top, mem.sent["torque"]}
  BY <1>1, TopIs
<1>3. g.ixy \in {r.ixy, OutputCurrents}
  <2>1. CASE it \in Position
    <3>1. PICK h : h = ServiceController(r, it) /\ (h.ixy = r.ixy \/ h.ixy = OutputCurrents)
      BY <2>1, PositionServed
    <3> QED BY <1>1, <3>1
  <2>2. CASE it \notin Position
    BY <1>1, <2>2, CurrentsLeft
  <2> QED BY <2>1, <2>2
<1> QED BY <1>1, <1>2, <1>3 DEF StaysPass

LEMMA StaysServed ==
  ASSUME Typed, IoTyped, NEW gap \in Gaps, NEW f, NEW w, Passes(f, w, gap)
  PROVE  \A k \in 0 .. Len(w) : StaysPass(f[k])
<1>1. Len(w) \in Nat /\ f[0] = Before(gap)
  BY DEF Passes, Serves
<1>2. PICK P : P = [k \in 0 .. Len(w) |-> StaysPass(f[k])]
  OBVIOUS
<1>3. P \in [0 .. Len(w) -> BOOLEAN] /\ \A k \in 0 .. Len(w) : P[k] <=> StaysPass(f[k])
  BY <1>2 DEF StaysPass
<1>4. StaysPass(f[0])
  <2>1. PICK r \in Work : r = Before(gap) /\ r.ixy = io.ixy /\ r.top = io.top
    BY BeforeIs
  <2> QED BY <1>1, <2>1 DEF StaysPass, Settled
<1>5. ASSUME NEW k \in 1 .. Len(w), StaysPass(f[k - 1]) PROVE StaysPass(f[k])
  <2>1. /\ f[k - 1] \in Work /\ w[k] \in Item
        /\ f[k] = ServiceController(f[k - 1], w[k])
    <3>1. Passed(f, w, k)
      BY PassStep
    <3> QED BY <3>1 DEF Passed
  <2> QED BY <1>5, <2>1, StaysRun
<1>6. \A k \in 0 .. Len(w) : P[k]
  <2>1. P[0]
    BY <1>1, <1>3, <1>4
  <2>2. \A k \in 1 .. Len(w) : P[k - 1] => P[k]
    <3>1. SUFFICES ASSUME NEW k \in 1 .. Len(w), P[k - 1] PROVE P[k]
      OBVIOUS
    <3>2. k - 1 \in 0 .. Len(w) /\ k \in 0 .. Len(w)
      BY <1>1
    <3> QED BY <1>3, <1>5, <3>1, <3>2
  <2> QED BY <1>1, <1>3, <2>1, <2>2, Along
<1> QED BY <1>3, <1>6

(* What a bridge is told follows from what the host sent: the current of   *)
(* its application, less the room that the torque inverter takes.          *)
FollowsNow(ref, u) == \E top : Follows(ref, u, OutputCurrents, top) /\ (TopShared => top = mem.sent["torque"])
ToldNow(r, u) ==
  /\ mem.own[u] = "pos" /\ Settled => FollowsNow(r.ref[u], u)
  /\ mem.own[u] = "torque" => r.ref[u].val = mem.sent["torque"] /\ (build # "bridge" => r.top = mem.sent["torque"])

(* A bridge that was told stays told.                                      *)
LEMMA ToldFrom ==
  ASSUME NEW r, StaysPass(r), NEW u, NEW g, Told0(r, g, u) PROVE ToldNow(g, u)
<1>1. ASSUME mem.own[u] = "pos", Settled PROVE FollowsNow(g.ref[u], u)
  <2>1. r.ixy = OutputCurrents /\ (TopShared => r.top = mem.sent["torque"])
    BY <1>1 DEF StaysPass
  <2>2. Follows(g.ref[u], u, OutputCurrents, r.top)
    BY <1>1, <2>1 DEF Told0
  <2> QED BY <2>1, <2>2 DEF FollowsNow
<1> QED BY <1>1 DEF ToldNow, Told0

LEMMA ToldKept ==
  ASSUME NEW r, NEW u, ToldNow(r, u), NEW g, g.ref[u] = r.ref[u], g.top \in {r.top, mem.sent["torque"]} PROVE ToldNow(g, u)
BY DEF ToldNow

(* A bridge of an inverter is told by the first of its loops that runs.    *)
TellPass(r, i) ==
  /\ LoopsOf(i) \cap r.ran = {} => r.age[<<"V", i>>] > 3
  /\ LoopsOf(i) \cap r.ran # {} => ToldNow(r, <<"V", i>>)

LEMMA TellRuns ==
  ASSUME Typed, NEW r \in Work, NEW i \in Inv, NEW it \in LoopsOf(i), StaysPass(r), TellPass(r, i)
  PROVE  TellPass(ServiceController(r, it), i)
<1>1. PICK u : u = <<"V", i>>
  OBVIOUS
<1>2. it \in Used(i) /\ u \in Unit
  BY <1>1, Units0
<1>3. PICK g \in Work :
        /\ g = ServiceController(r, it) /\ g.ran = r.ran \cup {it}
        /\ r.age[u] <= 3 => g.age[u] = r.age[u] /\ g.ref[u] = r.ref[u] /\ g.top = r.top
        /\ r.age[u] > 3 => g.age[u] = 0 /\ Told0(r, g, u)
  BY <1>1, <1>2, LoopServed
<1>4. r.age[u] \in Int
  BY <1>2 DEF Work, MaxAge
<1>5. LoopsOf(i) \cap g.ran # {}
  BY <1>3
<1>6. CASE r.age[u] > 3
  <2>1. ToldNow(g, u)
    BY <1>3, <1>6, ToldFrom
  <2> QED BY <1>1, <1>3, <1>5, <2>1 DEF TellPass
<1>7. CASE r.age[u] <= 3
  <2>1. LoopsOf(i) \cap r.ran # {}
    BY <1>1, <1>4, <1>7 DEF TellPass
  <2>2. ToldNow(r, u)
    BY <1>1, <2>1 DEF TellPass
  <2>3. g.ref[u] = r.ref[u] /\ g.top \in {r.top, mem.sent["torque"]}
    BY <1>3, <1>7
  <2>4. ToldNow(g, u)
    BY <2>2, <2>3, ToldKept
  <2> QED BY <1>1, <1>3, <1>5, <2>4 DEF TellPass
<1> QED BY <1>4, <1>6, <1>7

(* After an interrupt an inverter that is in the list was told, and so was *)
(* an H bridge.                                                            *)
LEMMA LoopsTold ==
  ASSUME Typed, IoTyped, NEW gap \in Gaps, NEW f, NEW w, Passes(f, w, gap), NEW i \in Inv, Range(w) \cap Used(i) = LoopsOf(i),
         f[Len(w)].ran = Range(w)
  PROVE  ToldNow(f[Len(w)], <<"V", i>>)
<1>1. Len(w) \in Nat /\ f[0] = Before(gap)
  BY DEF Passes, Serves
<1>2. PICK P : P = [k \in 0 .. Len(w) |-> TellPass(f[k], i)]
  OBVIOUS
<1>3. P \in [0 .. Len(w) -> BOOLEAN] /\ \A k \in 0 .. Len(w) : P[k] <=> TellPass(f[k], i)
  BY <1>2 DEF TellPass
<1>4. TellPass(f[0], i)
  <2>1. PICK r \in Work : /\ r = Before(gap) /\ r.ran = {}
                          /\ \A u \in Unit \cup {C0s} : r.age[u] >= 4
    BY BeforeIs
  <2>2. <<"V", i>> \in Unit
    BY Units0
  <2>3. r.age[<<"V", i>>] > 3
    <3>1. r.age[<<"V", i>>] \in Int
      BY <2>2 DEF Work, MaxAge
    <3> QED BY <2>1, <2>2, <3>1
  <2> QED BY <1>1, <2>1, <2>3 DEF TellPass
<1>5. ASSUME NEW k \in 1 .. Len(w), TellPass(f[k - 1], i) PROVE TellPass(f[k], i)
  <2>1. /\ k - 1 \in 0 .. Len(w) /\ f[k - 1] \in Work /\ w[k] \in Item /\ w[k] \in Range(w)
        /\ f[k] = ServiceController(f[k - 1], w[k]) /\ f[k].ran = f[k - 1].ran \cup {w[k]}
    <3>1. Passed(f, w, k)
      BY PassStep
    <3> QED BY <3>1 DEF Passed
  <2>2. CASE w[k] \in Used(i)
    <3>1. w[k] \in LoopsOf(i)
      BY <2>1, <2>2
    <3>2. StaysPass(f[k - 1])
      BY <2>1, StaysServed
    <3> QED BY <1>5, <2>1, <3>1, <3>2, TellRuns
  <2>3. CASE w[k] \notin Used(i)
    <3>1. UnitOf(w[k]) # <<"V", i>> /\ <<"V", i>> \in Unit
      BY <2>1, <2>3, OthersFlags
    <3>2. f[k].ref[<<"V", i>>] = f[k - 1].ref[<<"V", i>>] /\ f[k].age[<<"V", i>>] = f[k - 1].age[<<"V", i>>]
      BY <2>1, <3>1, OthersLeft
    <3>3. f[k].top \in {f[k - 1].top, mem.sent["torque"]}
      BY <2>1, TopIs
    <3>4. w[k] \notin LoopsOf(i)
      BY <2>3, Units0
    <3>5. LoopsOf(i) \cap f[k].ran = LoopsOf(i) \cap f[k - 1].ran
      BY <2>1, <3>4
    <3>6. ToldNow(f[k - 1], <<"V", i>>) => ToldNow(f[k], <<"V", i>>)
      BY <3>2, <3>3, ToldKept
    <3> QED BY <1>5, <3>2, <3>5, <3>6 DEF TellPass
  <2> QED BY <2>2, <2>3
<1>6. \A k \in 0 .. Len(w) : P[k]
  <2>1. P[0]
    BY <1>1, <1>3, <1>4
  <2>2. \A k \in 1 .. Len(w) : P[k - 1] => P[k]
    <3>1. SUFFICES ASSUME NEW k \in 1 .. Len(w), P[k - 1] PROVE P[k]
      OBVIOUS
    <3>2. k - 1 \in 0 .. Len(w) /\ k \in 0 .. Len(w)
      BY <1>1
    <3> QED BY <1>3, <1>5, <3>1, <3>2
  <2> QED BY <1>1, <1>3, <2>1, <2>2, Along
<1>7. TellPass(f[Len(w)], i)
  BY <1>1, <1>3, <1>6
<1>8. <<"d", i>> \in LoopsOf(i) \cap f[Len(w)].ran
  BY DEF LoopsOf
<1> QED BY <1>7, <1>8 DEF TellPass

LEMMA BridgesTold ==
  ASSUME Typed, IoTyped, NEW gap \in Gaps, NEW f, NEW w, Passes(f, w, gap), NEW h \in Bridge, NEW u, u = <<"H", h>>,
         u \in Range(w), f[Len(w)].ran = Range(w)
  PROVE  ToldNow(f[Len(w)], u)
<1> DEFINE Q(r) == u \in r.ran => ToldNow(r, u)
<1>0. u \in Unit
  BY DEF Unit
<1>1. Len(w) \in Nat /\ f[0] = Before(gap)
  BY DEF Passes, Serves
<1>2. PICK P : P = [k \in 0 .. Len(w) |-> Q(f[k])]
  OBVIOUS
<1>3. P \in [0 .. Len(w) -> BOOLEAN] /\ \A k \in 0 .. Len(w) : P[k] <=> Q(f[k])
  BY <1>2
<1>4. Q(f[0])
  <2>1. PICK r \in Work : r = Before(gap) /\ r.ran = {}
    BY BeforeIs
  <2> QED BY <1>1, <2>1
<1>5. ASSUME NEW k \in 1 .. Len(w), Q(f[k - 1]) PROVE Q(f[k])
  <2>1. /\ k - 1 \in 0 .. Len(w) /\ f[k - 1] \in Work /\ w[k] \in Item
        /\ f[k] = ServiceController(f[k - 1], w[k]) /\ f[k].ran = f[k - 1].ran \cup {w[k]}
    <3>1. Passed(f, w, k)
      BY PassStep
    <3> QED BY <3>1 DEF Passed
  <2>2. CASE w[k] = u
    <3>1. StaysPass(f[k - 1])
      BY <2>1, StaysServed
    <3>2. PICK g : g = ServiceController(f[k - 1], u) /\ Told0(f[k - 1], g, u)
      BY <2>1, BridgeServed
    <3>3. ToldNow(g, u)
      BY <3>1, <3>2, ToldFrom
    <3> QED BY <2>1, <2>2, <3>2, <3>3
  <2>3. CASE w[k] # u
    <3>1. UnitOf(w[k]) # u
      BY <2>3 DEF UnitOf
    <3>2. f[k].ref[u] = f[k - 1].ref[u]
      BY <1>0, <2>1, <3>1, OthersLeft
    <3>3. f[k].top \in {f[k - 1].top, mem.sent["torque"]}
      BY <2>1, TopIs
    <3>4. ToldNow(f[k - 1], u) => ToldNow(f[k], u)
      BY <3>2, <3>3, ToldKept
    <3> QED BY <1>5, <2>1, <2>3, <3>4
  <2> QED BY <2>2, <2>3
<1> HIDE DEF Q
<1>6. \A k \in 0 .. Len(w) : P[k]
  <2>1. P[0]
    BY <1>1, <1>3, <1>4
  <2>2. \A k \in 1 .. Len(w) : P[k - 1] => P[k]
    <3>1. SUFFICES ASSUME NEW k \in 1 .. Len(w), P[k - 1] PROVE P[k]
      OBVIOUS
    <3>2. k - 1 \in 0 .. Len(w) /\ k \in 0 .. Len(w)
      BY <1>1
    <3> QED BY <1>3, <1>5, <3>1, <3>2
  <2> QED BY <1>1, <1>3, <2>1, <2>2, Along
<1>7. Q(f[Len(w)])
  BY <1>1, <1>3, <1>6
<1> QED BY <1>7 DEF Q

(* One interrupt after a command the currents are what was sent, and two   *)
(* after it every bridge of the application follows them.                  *)
SinceInv ==
  /\ agenda # << >> => io.since = 0
  /\ io.since > 0 /\ build # "vsi" =>
       /\ mem.asked[1] = "on" => io.ixy = OutputCurrents
       /\ mem.asked[2] = "on" => io.ref[<<"V", TORQUE>>].val = mem.sent["torque"]
       /\ TopShared => io.top = mem.sent["torque"]
  /\ io.since > 1 /\ build # "vsi" /\ mem.asked[1] = "on" => \A u \in Units(1) : FollowsNow(io.ref[u], u)

(* A command starts the count again.                                       *)
LEMMA SinceZero == ASSUME io'.since = 0 PROVE SinceInv'
BY DEF SinceInv

(* What the first interrupt after a command computes, and what the next    *)
(* one tells.                                                              *)
LEMMA FirstInterrupt ==
  ASSUME Typed, IoTyped, NEW s, Good(build, s), Rostered(s), NEW gap \in Gaps, NEW f, Passes(f, s.list, gap),
         NEW r, r = f[Len(s.list)], r.ran = Range(s.list), build # "vsi"
  PROVE  /\ mem.asked[1] = "on" => r.ixy = OutputCurrents
         /\ mem.asked[2] = "on" => r.ref[<<"V", TORQUE>>].val = mem.sent["torque"]
         /\ TopShared => r.top = mem.sent["torque"]
<1>1. ASSUME mem.asked[1] = "on" PROVE r.ixy = OutputCurrents
  <2>1. Serving(build, s, 1)
    BY <1>1 DEF Good, AppGood, Rostered
  <2>2. Position \subseteq Range(s.list)
    BY <2>1 DEF Serving
  <2> QED BY <2>2, CurrentsServed
<1>2. ASSUME mem.asked[2] = "on" PROVE ToldNow(r, <<"V", TORQUE>>) /\ mem.own[<<"V", TORQUE>>] = "torque"
  <2>1. Serving(build, s, 2)
    BY <1>2 DEF Good, AppGood, Rostered
  <2>2. Bridged(build, s, TORQUE, "torque")
    BY <2>1 DEF Serving
  <2>3. TORQUE \in Inv
    BY Numbers
  <2>4. mem.own[<<"V", TORQUE>>] = "torque" /\ Range(s.list) \cap Used(TORQUE) = LoopsOf(TORQUE)
    BY <2>2, <2>3 DEF Bridged, InList, LoopsOf, LoopsIn, Rostered
  <2> QED BY <2>3, <2>4, LoopsTold
<1> QED BY <1>1, <1>2 DEF ToldNow, TopShared

LEMMA LaterInterrupt ==
  ASSUME Typed, IoTyped, build \in Build, NEW s, Good(build, s), Rostered(s), NEW gap \in Gaps, NEW f, Passes(f, s.list, gap),
         NEW r, r = f[Len(s.list)], r.ran = Range(s.list), build # "vsi", mem.asked[1] = "on", Settled, NEW u \in Units(1)
  PROVE  FollowsNow(r.ref[u], u)
<1>1. Serving(build, s, 1)
  BY DEF Good, AppGood, Rostered
<1>2. CASE build = "bridge"
  <2>1. PICK h \in Bridge : u = <<"H", h>>
    BY <1>2 DEF Units
  <2>2. u \in Range(s.list) /\ mem.own[u] = "pos"
    BY <1>1, <1>2, <2>1 DEF Serving, Rostered
  <2>3. ToldNow(r, u)
    BY <2>1, <2>2, BridgesTold
  <2> QED BY <2>2, <2>3 DEF ToldNow
<1>3. CASE build \in {"isolated", "common"}
  <2>1. PICK i \in {BOT, TOP} : u = <<"V", i>>
    BY <1>3 DEF Units
  <2>2. i \in Inv
    BY <2>1, Numbers
  <2>3. mem.own[u] = "pos" /\ Range(s.list) \cap Used(i) = LoopsOf(i)
    <3>1. Bridged(build, s, i, "pos")
      BY <1>1, <1>3, <2>1 DEF Serving
    <3> QED BY <2>1, <2>2, <3>1 DEF Bridged, InList, LoopsOf, LoopsIn, Rostered
  <2>4. ToldNow(r, u)
    BY <2>1, <2>2, <2>3, LoopsTold
  <2> QED BY <2>3, <2>4 DEF ToldNow
<1> QED BY <1>2, <1>3 DEF Build

(* An interrupt keeps this, and so does every step.                        *)
LEMMA InterruptSince == ASSUME ListInv, SinceInv, ControlTimer0_ISR PROVE SinceInv'
<1>0. Typed /\ IoTyped /\ build \in Build
  BY DEF ListInv
<1>1. PICK s, t : NoneBusy(t) /\ Onward(s, t)
  BY DEF ListInv
<1>2. PICK gap \in Gaps :
        LET r == ServiceControllers(gap)
        IN  /\ mem' = [mem EXCEPT !.updated = r.updated]
            /\ io' = [age |-> r.age, ixy |-> r.ixy, top |-> r.top, ref |-> r.ref, skewed |-> r.skewed,
                      since |-> IF agenda # << >> \/ io.since = 2 THEN io.since ELSE io.since + 1]
            /\ UNCHANGED <<build, cmds, agenda>>
  BY DEF ControlTimer0_ISR
<1>3. PICK f : Passes(f, s.list, gap) /\ ServiceControllers(gap) = f[Len(s.list)] /\ f[Len(s.list)].ran = Range(s.list)
  BY <1>0, <1>1, PassOf
<1>4. PICK r : r = f[Len(s.list)]
  OBVIOUS
<1>5. /\ io'.ixy = r.ixy /\ io'.top = r.top /\ io'.ref = r.ref /\ build' = build /\ agenda' = agenda
      /\ io'.since = IF agenda # << >> \/ io.since = 2 THEN io.since ELSE io.since + 1
  BY <1>2, <1>3, <1>4
<1>6. mem'.asked = mem.asked /\ mem'.sent = mem.sent /\ mem'.force = mem.force
  BY <1>0, <1>2 DEF Typed, Memory
<1>7. OutputCurrents' = OutputCurrents /\ (TopShared' <=> TopShared) /\ Units(1)' = Units(1)
  BY <1>5, <1>6 DEF OutputCurrents, TopShared, Units
<1>8. Good(build, s) /\ Rostered(s)
  BY <1>1, Walked
<1>9. r.ran = Range(s.list)
  BY <1>3, <1>4
<1>10. CASE agenda # << >>
  <2>1. io'.since = 0
    BY <1>5, <1>10 DEF SinceInv
  <2> QED BY <2>1, SinceZero
<1>11. CASE agenda = << >>
  <2>1. agenda' = << >> /\ io.since \in 0 .. 2
    BY <1>0, <1>5, <1>11 DEF IoTyped, Io
  <2>2. ASSUME build # "vsi"
        PROVE  /\ mem.asked[1] = "on" => r.ixy = OutputCurrents
               /\ mem.asked[2] = "on" => r.ref[<<"V", TORQUE>>].val = mem.sent["torque"]
               /\ TopShared => r.top = mem.sent["torque"]
    BY <1>0, <1>3, <1>4, <1>8, <1>9, <2>2, FirstInterrupt
  <2>3. ASSUME io'.since > 1, build # "vsi", mem.asked[1] = "on", NEW u \in Units(1)
        PROVE  FollowsNow(r.ref[u], u)
    <3>1. io.since > 0
      BY <1>5, <2>1, <2>3
    <3>2. Settled
      BY <2>3, <3>1 DEF SinceInv, Settled
    <3> QED BY <1>0, <1>3, <1>4, <1>8, <1>9, <2>3, <3>2, LaterInterrupt
  <2>4. ASSUME NEW u, FollowsNow(r.ref[u], u) PROVE FollowsNow(io.ref[u], u)'
    BY <1>5, <1>6, <1>7, <2>4 DEF FollowsNow
  <2> QED BY <1>5, <1>6, <1>7, <2>1, <2>2, <2>3, <2>4 DEF SinceInv
<1> QED BY <1>10, <1>11

LEMMA SinceKept == ASSUME ListInv, SinceInv, ControlNext PROVE SinceInv'
<1>0. IoTyped
  BY DEF ListInv
<1>1. ASSUME NEW a, NEW ops, NEW ans, Begin(a, ops, ans) PROVE SinceInv'
  <2>1. io' = [io EXCEPT !.since = 0]
    BY <1>1 DEF Begin
  <2>2. io'.since = 0
    BY <1>0, <2>1 DEF IoTyped, Io
  <2> QED BY <2>2, SinceZero
<1>2. ASSUME NEW a \in 1 .. 2, CmdCST(a) PROVE SinceInv'
  BY <1>1, <1>2 DEF CmdCST
<1>3. ASSUME NEW a \in 1 .. 2, CmdCTT(a) PROVE SinceInv'
  BY <1>1, <1>3 DEF CmdCTT
<1>4. ASSUME NEW a \in 1 .. 2, NEW v \in Amps, CmdCNT(a, v) PROVE SinceInv'
  <2>1. io' = [io EXCEPT !.since = 0]
    BY <1>4 DEF CmdCNT
  <2>2. io'.since = 0
    BY <1>0, <2>1 DEF IoTyped, Io
  <2> QED BY <2>2, SinceZero
<1>5. CASE MainStore
  <2>1. io' = io /\ io.since = 0
    BY <1>5 DEF MainStore, SinceInv
  <2> QED BY <2>1, SinceZero
<1>6. CASE ControlTimer0_ISR
  BY <1>6, InterruptSince
<1> QED BY <1>2, <1>3, <1>4, <1>5, <1>6 DEF ControlNext

(* It says that the references follow.                                     *)
LEMMA SinceShows == ASSUME ListInv, SinceInv PROVE ReferencesFollow
<1>0. Typed /\ build \in Build
  BY DEF ListInv
<1>1. SUFFICES ASSUME io.since = 2, build # "vsi"
               PROVE  /\ mem.asked[1] = "on" =>
                           \A u \in Units(1) :
                             IF mem.force["xy"] THEN io.ref[u].of = "forced" /\ io.ref[u].val = mem.sent["xy"]
                             ELSE io.ref[u].of = "position"
                      /\ mem.asked[2] = "on" => io.ref[<<"V", TORQUE>>].val = mem.sent["torque"]
                      /\ mem.asked[1] = "on" /\ mem.asked[2] = "on" /\ build # "bridge" =>
                           io.ref[<<"V", TOP>>].less = mem.sent["torque"]
  BY DEF ReferencesFollow
<1>2. OutputCurrents \in Refs
  BY <1>0, CurrentsAre
<1>3. ASSUME NEW ref, NEW u, FollowsNow(ref, u)
      PROVE  /\ ref.of = OutputCurrents.of /\ ref.val = OutputCurrents.val
             /\ TopShared /\ u = <<"V", TOP>> => ref.less = mem.sent["torque"]
  <2>1. PICK top : Follows(ref, u, OutputCurrents, top) /\ (TopShared => top = mem.sent["torque"])
    BY <1>3 DEF FollowsNow
  <2>2. PICK o \in Refs : o = OutputCurrents
    BY <1>2
  <2>3. CASE u[1] = "V" /\ u[2] = TOP
    <3>1. ref = [o EXCEPT !.less = top]
      BY <2>1, <2>2, <2>3 DEF Follows
    <3>2. ref.of = o.of /\ ref.val = o.val /\ ref.less = top
      BY <3>1 DEF Refs
    <3> QED BY <2>1, <2>2, <3>2
  <2>4. CASE ~(u[1] = "V" /\ u[2] = TOP)
    <3>1. ref = o
      BY <2>1, <2>2, <2>4 DEF Follows
    <3> QED BY <2>2, <2>4, <3>1
  <2> QED BY <2>3, <2>4
<1>4. mem.asked[1] = "on" => \A u \in Units(1) : FollowsNow(io.ref[u], u)
  BY <1>1 DEF SinceInv
<1>5. ASSUME mem.asked[1] = "on", NEW u \in Units(1)
      PROVE  IF mem.force["xy"] THEN io.ref[u].of = "forced" /\ io.ref[u].val = mem.sent["xy"] ELSE io.ref[u].of = "position"
  <2>1. io.ref[u].of = OutputCurrents.of /\ io.ref[u].val = OutputCurrents.val
    BY <1>3, <1>4, <1>5
  <2>2. /\ mem.force["xy"] => OutputCurrents.of = "forced" /\ OutputCurrents.val = mem.sent["xy"]
        /\ ~mem.force["xy"] => OutputCurrents.of = "position"
    BY <1>0, CurrentsAre
  <2> QED BY <2>1, <2>2
<1>6. mem.asked[2] = "on" => io.ref[<<"V", TORQUE>>].val = mem.sent["torque"]
  BY <1>1 DEF SinceInv
<1>7. ASSUME mem.asked[1] = "on", mem.asked[2] = "on", build # "bridge"
      PROVE  io.ref[<<"V", TOP>>].less = mem.sent["torque"]
  <2>1. <<"V", TOP>> \in Units(1)
    BY <1>0, <1>1, <1>7 DEF Units, Build
  <2>2. TopShared
    BY <1>7 DEF TopShared
  <2> QED BY <1>3, <1>4, <1>7, <2>1, <2>2
<1> QED BY <1>5, <1>6, <1>7

(* The invariant of the control applications, with that of the list, of    *)
(* the flags, and of the references.                                       *)
ControlInv == ListInv /\ FlagInv /\ SinceInv

LEMMA ControlHolds == EitherSpec => []ControlInv
<1>1. Either => ControlInv
  <2>1. ControlInit => SinceInv
    BY DEF ControlInit, SinceInv
  <2> QED BY <2>1, ListStarts, FlagsStart DEF Either, ControlInv
<1>2. ControlInv /\ [EitherNext]_<<session, controlVars, streamVars>> => ControlInv'
  <2>1. ASSUME ControlInv, UNCHANGED controlVars PROVE ControlInv'
    <3>1. build' = build /\ mem' = mem /\ agenda' = agenda /\ io' = io
      BY <2>1 DEF controlVars
    <3>2. PICK s, t : NoneBusy(t) /\ Onward(s, t)
      BY <2>1 DEF ControlInv, ListInv
    <3>3. Onward(s, t)'
      BY <3>1, <3>2 DEF Onward, Clean, Rostered, Halfway
    <3>4. ListInv'
      BY <2>1, <3>1, <3>2, <3>3 DEF ControlInv, ListInv, Typed, IoTyped
    <3>5. FlagInv'
      BY <2>1, <3>1 DEF ControlInv, FlagInv
    <3>6. SinceInv'
      <4>1. OutputCurrents' = OutputCurrents /\ (TopShared' <=> TopShared) /\ Units(1)' = Units(1)
        BY <3>1 DEF OutputCurrents, TopShared, Units
      <4> QED BY <2>1, <3>1, <4>1 DEF ControlInv, SinceInv, FollowsNow
    <3> QED BY <3>4, <3>5, <3>6 DEF ControlInv
  <2>2. ASSUME ControlInv, ControlNext PROVE ControlInv'
    BY <2>2, ControlKeeps, FlagsKept, SinceKept DEF ControlInv
  <2> QED BY <2>1, <2>2 DEF EitherNext
<1> QED BY <1>1, <1>2, PTL DEF EitherSpec

(* Between any two stores of the main loop the interrupt walks a list that *)
(* ends, of controllers that are set up, and misses none but those that    *)
(* are being unregistered; between two commands flags, links and prev      *)
(* agree (AddLinkedListItem and RemoveLinkedListItem of control.c).        *)
THEOREM ListStaysIntact == EitherSpec => []ListIntact
<1>1. ControlInv => ListIntact
  BY ListShows DEF ControlInv
<1> QED BY <1>1, ControlHolds, PTL

(* While an application runs, each interrupt writes the duty ratios of     *)
(* each of its bridges once, from currents and positions that are new,     *)
(* wherever the main loop is in a command (ControlTimer0_ISR and the       *)
(* callbacks of the applications).                                         *)
THEOREM InterruptsServe == EitherSpec => []EveryInterruptServes
<1>1. ControlInv => EveryInterruptServes
  BY InterruptServes DEF ControlInv
<1> QED BY <1>1, ControlHolds, PTL

(* The voltages of an inverter that was never stopped come from one        *)
(* interrupt, and two interrupts after a command all references follow it  *)
(* (the flags updated of VSI_DQ_SVPWM.c, and the output callbacks of      *)
(* PosContTry1.c and TorqueVSI.c).                                         *)
THEOREM AxesStayTogether == EitherSpec => []AxesAgree
<1>1. ControlInv => AxesAgree
  BY FlagsShow, SinceShows DEF ControlInv, ListInv, AxesAgree
<1> QED BY <1>1, ControlHolds, PTL

=============================================================================
