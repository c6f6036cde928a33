--------------------------- MODULE Candidates_proofs ---------------------------
(***************************************************************************)
(* What the desk builds, offers and falls back to, for every chain that a  *)
(* broker may list, and that the officer believes it.                      *)
(***************************************************************************)
EXTENDS Candidates, OrderRisk_proofs, FunctionTheorems

--------------------------------------------------------------------------------
(* Putting things in order.                                                   *)

LEMMA LeastExists ==
    ASSUME NEW T, T \subseteq Nat, T # {}
    PROVE  \E x \in T : \A y \in T : x =< y
<1> DEFINE R == {p \in Nat \X Nat : p[1] < p[2]}
<1>1. IsWellFoundedOn(R, Nat)
  BY NatLessThanWellFounded DEF OpToRel
<1>2. \A x, y \in Nat : <<y, x>> \notin R => x =< y
  OBVIOUS
<1> HIDE DEF R
<1>3. \E x \in T : \A y \in T : <<y, x>> \notin R
  BY <1>1, WFMin
<1> QED  BY <1>2, <1>3

\* The pairs of B put the members of S in a row.
StrictOrder(S, B) ==
    /\ \A x \in S : <<x, x>> \notin B
    /\ \A x, y, z \in S : <<x, y>> \in B /\ <<y, z>> \in B => <<x, z>> \in B
    /\ \A x, y \in S : x # y => <<x, y>> \in B \/ <<y, x>> \in B

\* Their places are the numbers from 1 on, in that order.
LEMMA PlacesInOrder ==
    ASSUME NEW S, IsFiniteSet(S), NEW B, StrictOrder(S, B)
    PROVE  /\ Cardinality(S) \in Nat
           /\ \A x \in S : Place(x, S, B) \in 1..Cardinality(S)
           /\ \A x, y \in S : <<x, y>> \in B => Place(x, S, B) < Place(y, S, B)
           /\ \A i \in 1..Cardinality(S) : \E x \in S : Place(x, S, B) = i
<1> DEFINE N == Cardinality(S)
           Pre(x) == {y \in S : <<y, x>> \in B}
           f == [x \in S |-> Place(x, S, B)]
<1>1. N \in Nat
  BY FS_CardinalityType
<1>2. ASSUME NEW x \in S
      PROVE  IsFiniteSet(Pre(x)) /\ Cardinality(Pre(x)) \in Nat /\ Cardinality(Pre(x)) < N
  <2>1. Pre(x) \in SUBSET S /\ Pre(x) # S
    BY DEF StrictOrder
  <2> HIDE DEF Pre
  <2>2. IsFiniteSet(Pre(x)) /\ Cardinality(Pre(x)) =< N /\ Cardinality(Pre(x)) # N
    BY <2>1, FS_Subset
  <2>3. Cardinality(Pre(x)) \in Nat
    BY <2>2, FS_CardinalityType
  <2> QED  BY <1>1, <2>2, <2>3
<1>3. \A x \in S : Place(x, S, B) = Cardinality(Pre(x)) + 1
  BY DEF Place
<1>4. ASSUME NEW x \in S, NEW y \in S, <<x, y>> \in B
      PROVE  Place(x, S, B) < Place(y, S, B)
  <2>1. Pre(x) \in SUBSET Pre(y) /\ Pre(x) # Pre(y)
    BY <1>4 DEF StrictOrder
  <2> HIDE DEF Pre
  <2>2. Cardinality(Pre(x)) =< Cardinality(Pre(y)) /\ Cardinality(Pre(x)) # Cardinality(Pre(y))
    BY <1>2, <2>1, FS_Subset
  <2> QED  BY <1>2, <1>3, <2>2
<1>5. \A x \in S : Place(x, S, B) \in 1..N
  <2> HIDE DEF Pre
  <2> QED  BY <1>1, <1>2, <1>3
<1>6. f \in Injection(S, 1..N)
  <2>1. ASSUME NEW x \in S, NEW y \in S, Place(x, S, B) = Place(y, S, B) PROVE x = y
    <3>1. Place(x, S, B) \in Int /\ Place(y, S, B) \in Int
      BY <1>1, <1>5
    <3>2. <<x, y>> \notin B /\ <<y, x>> \notin B
      BY <1>4, <2>1, <3>1
    <3> QED  BY <3>2 DEF StrictOrder
  <2>2. f \in [S -> 1..N]
    BY <1>5
  <2> QED  BY <2>1, <2>2 DEF Injection, IsInjective
<1>7. f \in Surjection(S, 1..N)
  <2>1. IsFiniteSet(1..N) /\ Cardinality(1..N) = N
    BY <1>1, FS_Interval
  <2> HIDE DEF f
  <2> QED  BY <1>6, <2>1, FS_Injection
<1>8. ASSUME NEW i \in 1..N PROVE \E x \in S : Place(x, S, B) = i
  BY <1>7 DEF Surjection
<1> QED  BY <1>1, <1>4, <1>5, <1>8

\* Every part of the row has a first.
LEMMA FirstExists ==
    ASSUME NEW S, IsFiniteSet(S), NEW B, StrictOrder(S, B), NEW T \in SUBSET S, T # {}
    PROVE  \E x \in T : \A y \in T : y # x => <<x, y>> \in B
<1>1. /\ Cardinality(S) \in Nat
      /\ \A x \in S : Place(x, S, B) \in 1..Cardinality(S)
      /\ \A x, y \in S : <<x, y>> \in B => Place(x, S, B) < Place(y, S, B)
  BY PlacesInOrder
<1> DEFINE P == {Place(x, S, B) : x \in T}
<1>2. P \subseteq Nat /\ P # {}
  BY <1>1
<1>3. PICK p \in P : \A q \in P : p =< q
  BY <1>2, LeastExists
<1>4. PICK x \in T : p = Place(x, S, B)
  OBVIOUS
<1>5. ASSUME NEW y \in T, y # x PROVE <<x, y>> \in B
  <2>1. Place(x, S, B) =< Place(y, S, B)
    BY <1>3, <1>4
  <2>2. <<y, x>> \notin B
    BY <1>1, <2>1
  <2> QED  BY <1>5, <2>2 DEF StrictOrder
<1> QED  BY <1>5

\* The first n of the row, in its order.
LEMMA ForemostInOrder ==
    ASSUME NEW S, IsFiniteSet(S), NEW B, StrictOrder(S, B), NEW n \in Nat
    PROVE  LET first == Foremost(n, S, B)
           IN  \E m \in Nat :
                  /\ DOMAIN first = 1..m /\ m =< n /\ (n > 0 /\ S # {} => m > 0)
                  /\ \A i \in 1..m : first[i] \in S /\ Place(first[i], S, B) = i
                  /\ \A x \in S : Place(x, S, B) =< m => x = first[Place(x, S, B)]
<1> DEFINE N == Cardinality(S)
           m == Min({n, N})
           first == Foremost(n, S, B)
<1>1. /\ N \in Nat
      /\ \A x \in S : Place(x, S, B) \in 1..N
      /\ \A x, y \in S : <<x, y>> \in B => Place(x, S, B) < Place(y, S, B)
      /\ \A i \in 1..N : \E x \in S : Place(x, S, B) = i
  BY PlacesInOrder
<1> HIDE DEF N
<1>2. m \in {n, N} /\ m =< n /\ m =< N
  <2>1. \E x \in {n, N} : \A y \in {n, N} : x =< y
    <3>1. CASE n =< N
      BY <1>1, <3>1
    <3>2. CASE N =< n
      BY <1>1, <3>2
    <3> QED  BY <1>1, <3>1, <3>2
  <2> QED  BY <2>1 DEF Min
<1> HIDE DEF m
<1>3. m \in Nat
  BY <1>1, <1>2
<1>4. S # {} => N > 0
  BY <1>1
<1>5. first = [i \in 1..m |-> CHOOSE x \in S : Place(x, S, B) = i]
  BY DEF Foremost, m, N
<1> HIDE DEF first
<1>6. ASSUME NEW i \in 1..m PROVE first[i] \in S /\ Place(first[i], S, B) = i
  <2>1. \E x \in S : Place(x, S, B) = i
    BY <1>1, <1>2, <1>3
  <2> QED  BY <1>5, <2>1
<1>7. ASSUME NEW x \in S, Place(x, S, B) =< m PROVE x = first[Place(x, S, B)]
  <2> DEFINE i == Place(x, S, B)
  <2>1. i \in 1..m
    BY <1>1, <1>3, <1>7
  <2>2. first[i] \in S /\ Place(first[i], S, B) = i
    BY <1>6, <2>1
  <2>3. <<x, first[i]>> \notin B /\ <<first[i], x>> \notin B
    BY <1>1, <2>1, <2>2
  <2> QED  BY <2>2, <2>3 DEF StrictOrder
<1>8. /\ DOMAIN first = 1..m /\ m =< n /\ (n > 0 /\ S # {} => m > 0)
      /\ \A i \in 1..m : first[i] \in S /\ Place(first[i], S, B) = i
      /\ \A x \in S : Place(x, S, B) =< m => x = first[Place(x, S, B)]
  BY <1>1, <1>2, <1>4, <1>5, <1>6, <1>7
<1> QED  BY <1>3, <1>8 DEF first

--------------------------------------------------------------------------------
(* The order of the shortlist.                                                *)

\* A factor above nought changes no comparison.
LEMMA Scaled ==
    ASSUME NEW a \in Int, NEW b \in Int, NEW k \in Nat, k > 0
    PROVE  (a > b <=> a * k > b * k) /\ (a >= b <=> a * k >= b * k)
  OBVIOUS

\* Fractions with positive denominators are in order.
LEMMA FractionsInOrder ==
    ASSUME NEW a \in Int, NEW b \in Int, NEW c \in Int,
           NEW p \in Nat, NEW q \in Nat, NEW r \in Nat, p > 0, q > 0, r > 0,
           a * q >= b * p, b * r >= c * q
    PROVE  /\ a * r >= c * p
           /\ a * q > b * p \/ b * r > c * q => a * r > c * p
<1> DEFINE x == a * q
           y == b * p
           z == b * r
           w == c * q
<1>1. x \in Int /\ y \in Int /\ z \in Int /\ w \in Int /\ a * r \in Int /\ c * p \in Int
  OBVIOUS
<1>2. x * r = (a * r) * q /\ y * r = z * p /\ w * p = (c * p) * q
  OBVIOUS
<1>3. x * r >= y * r /\ (x > y => x * r > y * r)
  <2> HIDE DEF x, y
  <2> QED  BY <1>1, Scaled DEF x, y
<1>4. z * p >= w * p /\ (z > w => z * p > w * p)
  <2> HIDE DEF z, w
  <2> QED  BY <1>1, Scaled DEF z, w
<1>5. /\ x * r \in Int /\ z * p \in Int /\ w * p \in Int
      /\ (a * r) * q >= (c * p) * q
      /\ x > y \/ z > w => (a * r) * q > (c * p) * q
  <2>1. x * r \in Int /\ z * p \in Int /\ w * p \in Int
    <3> HIDE DEF x, z, w
    <3> QED  BY <1>1
  <2> HIDE DEF x, y, z, w
  <2> QED  BY <1>2, <1>3, <1>4, <2>1
<1> QED  BY <1>1, <1>5, Scaled

\* Candidates that can be compared, one for each attempt.
Comparable(viable) ==
    /\ \A x \in viable :
          /\ x.kept \in Int /\ x.ticket.maxLoss \in Nat /\ x.ticket.maxLoss > 0
          /\ x.attempt \in [expiry : Int, structure : AllowedStructures,
                            target : Int, width : Int]
    /\ \A x, y \in viable : x.attempt = y.attempt => x = y

\* The order of building is an order.
LEMMA TriedInOrder ==
    ASSUME NEW A, A = [expiry : Int, structure : AllowedStructures, target : Int, width : Int],
           NEW a \in A, NEW b \in A, NEW c \in A
    PROVE  /\ ~TriedBefore(a, a)
           /\ TriedBefore(a, b) /\ TriedBefore(b, c) => TriedBefore(a, c)
           /\ a # b => TriedBefore(a, b) \/ TriedBefore(b, a)
<1>1. /\ {a.expiry, b.expiry, c.expiry, a.target, b.target, c.target,
          a.width, b.width, c.width} \subseteq Int
      /\ {a.structure, b.structure, c.structure}
            \subseteq {"put_credit_spread", "iron_condor"}
  BY DEF AllowedStructures
<1>2. a # b => \/ a.expiry # b.expiry \/ a.structure # b.structure
               \/ a.target # b.target \/ a.width # b.width
  OBVIOUS
<1>3. ~TriedBefore(a, a)
  BY <1>1 DEF TriedBefore
<1>4. TriedBefore(a, b) /\ TriedBefore(b, c) => TriedBefore(a, c)
  BY <1>1 DEF TriedBefore
<1>5. a # b => TriedBefore(a, b) \/ TriedBefore(b, a)
  BY <1>1, <1>2 DEF TriedBefore
<1> QED  BY <1>3, <1>4, <1>5

\* So is the order by what is kept.
LEMMA AheadInOrder ==
    ASSUME NEW V, Comparable(V), NEW x \in V, NEW y \in V, NEW z \in V
    PROVE  /\ ~Ahead(x, x)
           /\ Ahead(x, y) /\ Ahead(y, z) => Ahead(x, z)
           /\ x # y => Ahead(x, y) \/ Ahead(y, x)
           /\ Ahead(x, y) => ~KeepsMore(y, x)
<1> DEFINE A == [expiry : Int, structure : AllowedStructures, target : Int, width : Int]
           xy == x.kept * y.ticket.maxLoss
           yx == y.kept * x.ticket.maxLoss
           yz == y.kept * z.ticket.maxLoss
           zy == z.kept * y.ticket.maxLoss
           xz == x.kept * z.ticket.maxLoss
           zx == z.kept * x.ticket.maxLoss
           Before(a, b) == TriedBefore(a.attempt, b.attempt)
<1>1. /\ x.attempt \in A /\ y.attempt \in A /\ z.attempt \in A
      /\ x # y => x.attempt # y.attempt
  BY DEF Comparable
<1>2. /\ xy \in Int /\ yx \in Int /\ yz \in Int /\ zy \in Int /\ xz \in Int /\ zx \in Int
      /\ x.kept * x.ticket.maxLoss \in Int
  BY DEF Comparable
<1>3. /\ xy >= yx /\ yz >= zy => xz >= zx
      /\ xy >= yx /\ yz >= zy /\ (xy > yx \/ yz > zy) => xz > zx
  BY FractionsInOrder DEF Comparable
<1>4. /\ ~Before(x, x)
      /\ Before(x, y) /\ Before(y, z) => Before(x, z)
      /\ x # y => Before(x, y) \/ Before(y, x)
  <2> HIDE DEF A
  <2>1. A = [expiry : Int, structure : AllowedStructures, target : Int, width : Int]
    BY DEF A
  <2> QED  BY <1>1, <2>1, TriedInOrder
<1>5. /\ Ahead(x, y) <=> xy > yx \/ (~(yx > xy) /\ Before(x, y))
      /\ Ahead(y, x) <=> yx > xy \/ (~(xy > yx) /\ Before(y, x))
      /\ Ahead(y, z) <=> yz > zy \/ (~(zy > yz) /\ Before(y, z))
      /\ Ahead(x, z) <=> xz > zx \/ (~(zx > xz) /\ Before(x, z))
      /\ KeepsMore(y, x) <=> yx > xy
  BY DEF Ahead, KeepsMore
<1>6. ~Ahead(x, x)
  BY <1>2, <1>4 DEF Ahead, KeepsMore
<1> HIDE DEF xy, yx, yz, zy, xz, zx, Before
<1> QED  BY <1>2, <1>3, <1>4, <1>5, <1>6

\* The pairs of V that are ahead of one another.
LEMMA AheadIsStrict ==
    ASSUME NEW V, Comparable(V)
    PROVE  StrictOrder(V, {p \in V \X V : Ahead(p[1], p[2])})
<1> DEFINE B == {p \in V \X V : Ahead(p[1], p[2])}
<1>1. \A x, y \in V : <<x, y>> \in B <=> Ahead(x, y)
  OBVIOUS
<1> HIDE DEF B
<1> QED  BY <1>1, AheadInOrder DEF StrictOrder, B

\* Of any of the candidates, one is ahead of the others.
LEMMA BestExists ==
    ASSUME NEW V, IsFiniteSet(V), Comparable(V), NEW T \in SUBSET V, T # {}
    PROVE  \E x \in T : \A y \in T : y # x => Ahead(x, y) /\ ~Ahead(y, x)
<1> DEFINE B == {p \in V \X V : Ahead(p[1], p[2])}
<1>1. StrictOrder(V, B)
  BY AheadIsStrict
<1>2. \A x, y \in V : <<x, y>> \in B <=> Ahead(x, y)
  OBVIOUS
<1> HIDE DEF B
<1>3. PICK x \in T : \A y \in T : y # x => <<x, y>> \in B
  BY <1>1, FirstExists
<1>4. ASSUME NEW y \in T, y # x PROVE Ahead(x, y) /\ ~Ahead(y, x)
  <2>1. Ahead(x, y)
    BY <1>2, <1>3, <1>4
  <2>2. ~(Ahead(x, y) /\ Ahead(y, x))
    BY AheadInOrder
  <2> QED  BY <2>1, <2>2
<1> QED  BY <1>4

--------------------------------------------------------------------------------
(* The shortlist.                                                             *)

\* The order in which the unique candidates are offered: see Diversify.
ShortlistOrder(viable) ==
    {p \in Unique(viable) \X Unique(viable) :
        \/ p[1] \in FirstOfBucket(viable) /\ p[2] \notin FirstOfBucket(viable)
        \/ /\ p[1] \in FirstOfBucket(viable) <=> p[2] \in FirstOfBucket(viable)
           /\ Ahead(p[1], p[2])}

LEMMA ShortlistIsStrict ==
    ASSUME NEW V, Comparable(V)
    PROVE  /\ StrictOrder(Unique(V), ShortlistOrder(V))
           /\ \A x, y \in Unique(V) :
                 <<x, y>> \in ShortlistOrder(V) <=>
                    \/ x \in FirstOfBucket(V) /\ y \notin FirstOfBucket(V)
                    \/ (x \in FirstOfBucket(V) <=> y \in FirstOfBucket(V)) /\ Ahead(x, y)
<1> DEFINE U == Unique(V)
           F == FirstOfBucket(V)
           B == ShortlistOrder(V)
<1>1. \A x, y \in U : <<x, y>> \in B <=>
         \/ x \in F /\ y \notin F
         \/ (x \in F <=> y \in F) /\ Ahead(x, y)
  BY DEF ShortlistOrder
<1>2. U \in SUBSET V
  BY DEF Unique
<1> HIDE DEF U, F, B
<1>3. ASSUME NEW x \in U PROVE <<x, x>> \notin B
  BY <1>1, <1>2, AheadInOrder
<1>4. ASSUME NEW x \in U, NEW y \in U, NEW z \in U, <<x, y>> \in B, <<y, z>> \in B
      PROVE  <<x, z>> \in B
  <2>1. Ahead(x, y) /\ Ahead(y, z) => Ahead(x, z)
    BY <1>2, AheadInOrder
  <2> QED  BY <1>1, <1>4, <2>1
<1>5. ASSUME NEW x \in U, NEW y \in U, x # y PROVE <<x, y>> \in B \/ <<y, x>> \in B
  <2>1. Ahead(x, y) \/ Ahead(y, x)
    BY <1>2, <1>5, AheadInOrder
  <2> QED  BY <1>1, <2>1
<1>6. StrictOrder(U, B)
  BY <1>3, <1>4, <1>5 DEF StrictOrder
<1> QED  BY <1>1, <1>6 DEF U, F, B

\* Where the legs say which bucket, no bucket is lost with the duplicates.
LEMMA EveryBucketHasAFirst ==
    ASSUME NEW V, IsFiniteSet(V), Comparable(V),
           \A x, y \in V : x.ticket.legs = y.ticket.legs => x.bucket = y.bucket,
           NEW x \in V
    PROVE  \E p \in FirstOfBucket(V) : p.bucket = x.bucket
<1> DEFINE T == {y \in V : y.bucket = x.bucket}
<1>1. T \in SUBSET V /\ T # {}
  OBVIOUS
<1>2. PICK p \in T : \A y \in T : y # p => Ahead(p, y) /\ ~Ahead(y, p)
  <2> HIDE DEF T
  <2> QED  BY <1>1, BestExists
<1>3. ASSUME NEW y \in V, Ahead(y, p) PROVE y.bucket # p.bucket
  <2>1. y = p => ~Ahead(y, p)
    BY AheadInOrder
  <2> QED  BY <1>2, <1>3, <2>1
<1>4. p \in Unique(V)
  BY <1>2, <1>3 DEF Unique
<1>5. p \in FirstOfBucket(V)
  BY <1>3, <1>4 DEF FirstOfBucket, Unique
<1> QED  BY <1>2, <1>5

(***************************************************************************)
(* What _diversify offers of candidates that can be compared: some of them, *)
(* the best first, and a bucket twice only when every bucket is there.     *)
(***************************************************************************)
LEMMA ShortlistOf ==
    ASSUME NEW V, IsFiniteSet(V), Comparable(V),
           \A x, y \in V : x.ticket.legs = y.ticket.legs => x.bucket = y.bucket
    PROVE  LET list == Diversify(V)
           IN  \E m \in Nat :
                  /\ DOMAIN list = 1..m /\ (V # {} => m > 0)
                  /\ \A i \in 1..m : list[i] \in V
                  /\ m > 0 => \A x \in V : ~KeepsMore(x, list[1])
                  /\ \A i, j \in 1..m : i < j /\ list[i].bucket = list[j].bucket =>
                        {x.bucket : x \in V} = {list[k].bucket : k \in 1..m}
<1> DEFINE list == Diversify(V)
           U == Unique(V)
           F == FirstOfBucket(V)
           B == ShortlistOrder(V)
<1>1. /\ StrictOrder(U, B)
      /\ \A x, y \in U : <<x, y>> \in B <=>
            \/ x \in F /\ y \notin F
            \/ (x \in F <=> y \in F) /\ Ahead(x, y)
  BY ShortlistIsStrict
<1>2. /\ U \in SUBSET V /\ F \in SUBSET U /\ IsFiniteSet(U)
      /\ \A x \in F, y \in U : Ahead(y, x) => y.bucket # x.bucket
  <2>1. U \in SUBSET V /\ F \in SUBSET U
        /\ \A x \in F, y \in U : Ahead(y, x) => y.bucket # x.bucket
    BY DEF Unique, FirstOfBucket
  <2> QED  BY <2>1, FS_Subset
<1>3. list = Foremost(MaxCandidates, U, B)
  BY DEF Diversify, ShortlistOrder
<1> HIDE DEF U, F, B, list
<1>4. PICK m \in Nat :
         /\ DOMAIN list = 1..m /\ m =< MaxCandidates /\ (MaxCandidates > 0 /\ U # {} => m > 0)
         /\ \A i \in 1..m : list[i] \in U /\ Place(list[i], U, B) = i
         /\ \A x \in U : Place(x, U, B) =< m => x = list[Place(x, U, B)]
  <2>1. MaxCandidates \in Nat
    BY DEF MaxCandidates
  <2> DEFINE first == Foremost(MaxCandidates, U, B)
  <2>2. \E k \in Nat :
           /\ DOMAIN first = 1..k /\ k =< MaxCandidates /\ (MaxCandidates > 0 /\ U # {} => k > 0)
           /\ \A i \in 1..k : first[i] \in U /\ Place(first[i], U, B) = i
           /\ \A x \in U : Place(x, U, B) =< k => x = first[Place(x, U, B)]
    BY <1>1, <1>2, <2>1, ForemostInOrder
  <2>3. first = list
    BY <1>3
  <2> HIDE DEF first
  <2> QED  BY <2>2, <2>3
<1>5. /\ \A x \in U : Place(x, U, B) \in 1..Cardinality(U)
      /\ \A x, y \in U : <<x, y>> \in B => Place(x, U, B) < Place(y, U, B)
      /\ Cardinality(U) \in Nat
  BY <1>1, <1>2, PlacesInOrder
<1>6. ASSUME V # {}
      PROVE  m > 0 /\ \A x \in V : ~KeepsMore(x, list[1])
  <2>1. PICK x \in V : \A y \in V : y # x => Ahead(x, y) /\ ~Ahead(y, x)
    BY <1>6, BestExists
  <2>2. \A y \in V : ~Ahead(y, x)
    BY <2>1, AheadInOrder
  <2>3. x \in U /\ x \in F
    BY <1>2, <2>2 DEF Unique, FirstOfBucket, U, F
  <2>4. m > 0
    BY <1>4, <2>3 DEF MaxCandidates
  <2>5. list[1] = x
    <3>1. list[1] \in U /\ Place(list[1], U, B) = 1
      BY <1>4, <2>4
    <3>2. ~(Place(x, U, B) < 1)
      BY <1>5, <2>3
    <3>3. <<x, list[1]>> \notin B \/ list[1] = x
      <4> SUFFICES ASSUME <<x, list[1]>> \in B PROVE FALSE
        OBVIOUS
      <4> QED  BY <1>5, <2>3, <3>1, <3>2
    <3>4. <<list[1], x>> \notin B
      BY <1>1, <1>2, <2>2, <2>3, <3>1
    <3> QED  BY <1>1, <2>3, <3>1, <3>3, <3>4 DEF StrictOrder
  <2>6. ASSUME NEW y \in V PROVE ~KeepsMore(y, x)
    <3>1. CASE y # x
      BY <2>1, <3>1, AheadInOrder
    <3>2. CASE y = x
      <4>1. x.kept * x.ticket.maxLoss \in Int
        BY DEF Comparable
      <4> QED  BY <3>2, <4>1 DEF KeepsMore
    <3> QED  BY <3>1, <3>2
  <2> QED  BY <2>4, <2>5, <2>6
<1>7. ASSUME NEW i \in 1..m, NEW j \in 1..m, i < j, list[i].bucket = list[j].bucket
      PROVE  {x.bucket : x \in V} = {list[k].bucket : k \in 1..m}
  <2>1. /\ list[i] \in U /\ list[j] \in U /\ list[i] # list[j]
        /\ Place(list[i], U, B) = i /\ Place(list[j], U, B) = j
    BY <1>4, <1>7
  <2>2. list[j] \notin F
    <3> SUFFICES ASSUME list[j] \in F PROVE FALSE
      OBVIOUS
    <3>1. ~Ahead(list[i], list[j])
      BY <1>2, <1>7, <2>1
    <3>2. Ahead(list[j], list[i])
      BY <1>2, <2>1, <3>1, AheadInOrder
    <3>3. <<list[j], list[i]>> \in B
      <4>1. list[i] \in F => ~Ahead(list[j], list[i])
        BY <1>2, <1>7, <2>1
      <4> QED  BY <1>1, <2>1, <3>2, <4>1
    <3>4. j < i
      BY <1>5, <2>1, <3>3
    <3> QED  BY <1>7, <3>4
  <2>3. ASSUME NEW p \in F PROVE \E k \in 1..m : p = list[k]
    <3>1. <<p, list[j]>> \in B /\ p \in U
      BY <1>1, <1>2, <2>1, <2>2
    <3>2. Place(p, U, B) < j /\ Place(p, U, B) \in 1..Cardinality(U)
      BY <1>5, <2>1, <3>1
    <3>3. Place(p, U, B) \in 1..m
      BY <1>5, <1>7, <3>2
    <3> QED  BY <1>4, <3>1, <3>3
  <2>4. ASSUME NEW x \in V PROVE \E k \in 1..m : x.bucket = list[k].bucket
    <3>1. PICK p \in F : p.bucket = x.bucket
      BY EveryBucketHasAFirst DEF F
    <3> QED  BY <2>3, <3>1
  <2>5. \A k \in 1..m : list[k] \in V
    BY <1>2, <1>4
  <2> QED  BY <2>4, <2>5
<1>8. \A i \in 1..m : list[i] \in V
  BY <1>2, <1>4
<1>9. m > 0 => V # {}
  BY <1>8
<1>10. /\ DOMAIN list = 1..m /\ (V # {} => m > 0)
       /\ \A i \in 1..m : list[i] \in V
       /\ m > 0 => \A x \in V : ~KeepsMore(x, list[1])
       /\ \A i, j \in 1..m : i < j /\ list[i].bucket = list[j].bucket =>
             {x.bucket : x \in V} = {list[k].bucket : k \in 1..m}
  BY <1>4, <1>6, <1>7, <1>8, <1>9
<1> QED  BY <1>10 DEF list

--------------------------------------------------------------------------------
(* What is built from a chain.                                                *)

\* The distances have a least, and the ties a lowest strike.
LEMMA NearestIsThere ==
    ASSUME NEW S, S # {}, \A q \in S : q.strike \in Nat, NEW d \in [S -> Nat]
    PROVE  Nearest(d) \in S
<1>1. {d[q] : q \in S} \subseteq Nat /\ {d[q] : q \in S} # {}
  OBVIOUS
<1>2. PICK n \in {d[q] : q \in S} : \A k \in {d[q] : q \in S} : n =< k
  BY <1>1, LeastExists
<1> DEFINE T == {q \in S : d[q] = n}
<1>3. T # {} /\ {q.strike : q \in T} \subseteq Nat /\ {q.strike : q \in T} # {}
  OBVIOUS
<1>4. PICK lowest \in {q.strike : q \in T} : \A k \in {q.strike : q \in T} : lowest =< k
  <2> HIDE DEF T
  <2> QED  BY <1>3, LeastExists
<1>5. PICK q \in T : q.strike = lowest
  OBVIOUS
<1>6. \A other \in S : d[q] < d[other] \/ (d[q] = d[other] /\ q.strike =< other.strike)
  <2> SUFFICES ASSUME NEW other \in S
               PROVE  d[q] < d[other] \/ (d[q] = d[other] /\ q.strike =< other.strike)
    OBVIOUS
  <2>1. d[q] =< d[other] /\ d[q] \in Nat /\ d[other] \in Nat
    BY <1>2
  <2>2. d[q] = d[other] => q.strike =< other.strike
    <3>1. d[q] = d[other] => other \in T
      OBVIOUS
    <3> QED  BY <1>4, <1>5, <3>1
  <2> QED  BY <2>1, <2>2
<1> QED  BY <1>6 DEF Nearest

\* A chain that a broker may list, and any part of it.
Quoted(quotes) ==
    quotes \subseteq [series : STRING, expiry : Int, right : {"P", "C"}, strike : Nat,
                      bid : Nat, ask : Nat, delta : Int]

LEMMA NearestAreThere ==
    ASSUME NEW quotes, Quoted(quotes), NEW target \in Int
    PROVE  /\ NearestByDelta(quotes, target) \subseteq quotes
           /\ NearestByStrike(quotes, target) \subseteq quotes
<1> DEFINE known == {q \in quotes : q.delta # NoDelta}
<1>1. \A q \in quotes : q.strike \in Nat /\ Gap(q.delta, target) \in Nat
                        /\ Gap(q.strike, target) \in Nat
  BY DEF Quoted, Gap
<1>2. ASSUME known # {} PROVE Nearest([q \in known |-> Gap(q.delta, target)]) \in quotes
  <2> DEFINE d == [q \in known |-> Gap(q.delta, target)]
  <2>1. d \in [known -> Nat] /\ known \subseteq quotes
    BY <1>1
  <2> HIDE DEF d, known
  <2>2. Nearest(d) \in known
    BY <1>1, <1>2, <2>1, NearestIsThere
  <2> QED  BY <2>1, <2>2 DEF d
<1>3. ASSUME quotes # {} PROVE Nearest([q \in quotes |-> Gap(q.strike, target)]) \in quotes
  <2> DEFINE d == [q \in quotes |-> Gap(q.strike, target)]
  <2>1. d \in [quotes -> Nat]
    BY <1>1
  <2> HIDE DEF d
  <2> QED  BY <1>1, <1>3, <2>1, NearestIsThere DEF d
<1> QED  BY <1>2, <1>3 DEF NearestByDelta, NearestByStrike

\* A wing is two quotes of the part of the chain it is built from.
LEMMA WingsAreQuotes ==
    ASSUME NEW quotes, Quoted(quotes), NEW target \in Int, NEW width \in Int,
           NEW legs \in PutWings(quotes, target, width) \cup CallWings(quotes, target, width)
    PROVE  \E short, long \in quotes : legs = {Sold(short), Bought(long)}
<1>1. NearestByDelta(quotes, target) \subseteq quotes
  BY NearestAreThere
<1>2. CASE legs \in PutWings(quotes, target, width)
  <2>1. PICK short \in NearestByDelta(quotes, target) :
           \E long \in NearestByStrike({q \in quotes : q.strike < short.strike},
                                       short.strike - width) :
              legs = {Sold(short), Bought(long)}
    BY <1>2 DEF PutWings
  <2> PICK long \in NearestByStrike({q \in quotes : q.strike < short.strike},
                                    short.strike - width) :
         legs = {Sold(short), Bought(long)}
    BY <2>1
  <2>2. short \in quotes /\ short.strike - width \in Int
    BY <1>1 DEF Quoted
  <2>3. long \in quotes
    <3> DEFINE below == {q \in quotes : q.strike < short.strike}
    <3>1. Quoted(below) /\ below \subseteq quotes
      BY DEF Quoted
    <3> HIDE DEF below
    <3>2. NearestByStrike(below, short.strike - width) \subseteq below
      BY <2>2, <3>1, NearestAreThere
    <3> QED  BY <3>1, <3>2 DEF below
  <2> QED  BY <2>1, <2>2, <2>3
<1>3. CASE legs \in CallWings(quotes, target, width)
  <2>1. PICK short \in NearestByDelta(quotes, target) :
           \E long \in NearestByStrike({q \in quotes : q.strike > short.strike},
                                       short.strike + width) :
              legs = {Sold(short), Bought(long)}
    BY <1>3 DEF CallWings
  <2> PICK long \in NearestByStrike({q \in quotes : q.strike > short.strike},
                                    short.strike + width) :
         legs = {Sold(short), Bought(long)}
    BY <2>1
  <2>2. short \in quotes /\ short.strike + width \in Int
    BY <1>1 DEF Quoted
  <2>3. long \in quotes
    <3> DEFINE above == {q \in quotes : q.strike > short.strike}
    <3>1. Quoted(above) /\ above \subseteq quotes
      BY DEF Quoted
    <3> HIDE DEF above
    <3>2. NearestByStrike(above, short.strike + width) \subseteq above
      BY <2>2, <3>1, NearestAreThere
    <3> QED  BY <3>1, <3>2 DEF above
  <2> QED  BY <2>1, <2>2, <2>3
<1> QED  BY <1>2, <1>3

\* A leg of a quote is found under its symbol again.
LEMMA QuoteFound ==
    ASSUME NEW quotes, QuotesOK(quotes), NEW q \in quotes, NEW leg \in {Sold(q), Bought(q)}
    PROVE  QuoteOf(quotes, leg) = q /\ leg \in Legs /\ leg.ratio = 1
<1>1. q \in [series : STRING, expiry : Int, right : {"P", "C"}, strike : Nat,
             bid : Nat, ask : Nat, delta : Int]
  BY DEF QuotesOK
<1>2. /\ leg.series = q.series /\ leg.right = q.right /\ leg.strike = q.strike
      /\ leg \in Legs /\ leg.ratio = 1
  <2>1. Sold(q) \in Legs /\ q.strike \in Int
    BY <1>1 DEF Sold, Legs
  <2>2. CASE leg = Sold(q)
    BY <2>1, <2>2 DEF Sold
  <2>3. CASE leg = Bought(q)
    <3>1. leg = [series |-> q.series, right |-> q.right, strike |-> q.strike,
                 side |-> "buy", intent |-> "buy_to_open", ratio |-> 1]
      BY <2>3 DEF Bought, Sold
    <3> QED  BY <1>1, <2>1, <3>1 DEF Legs
  <2> QED  BY <2>2, <2>3
<1>3. Symbol(leg) = Symbol(q)
  BY <1>2 DEF Symbol
<1>4. \A other \in quotes : Symbol(other) = Symbol(leg) => other = q
  BY <1>3 DEF QuotesOK
<1>5. QuoteOf(quotes, leg) = q
  BY <1>3, <1>4 DEF QuoteOf
<1> QED  BY <1>2, <1>5

\* Legs that an attempt comes to: one contract each of quotes of its expiry.
OfQuotes(quotes, expiry, legs) ==
    /\ IsFiniteSet(legs) /\ legs \in SUBSET Legs
    /\ \A leg \in legs :
          /\ leg.ratio = 1
          /\ QuoteOf(quotes, leg) \in quotes /\ Liquid(QuoteOf(quotes, leg))
          /\ QuoteOf(quotes, leg).expiry = expiry

LEMMA LegsAreQuoted ==
    ASSUME NEW quotes, QuotesOK(quotes), NEW a, a.target \in Int, a.width \in Int,
           NEW legs \in LegsFor(quotes, a)
    PROVE  OfQuotes(quotes, a.expiry, legs)
<1> DEFINE put == Live(quotes, a.expiry, "P")
           call == Live(quotes, a.expiry, "C")
<1>1. /\ put \subseteq {q \in quotes : q.expiry = a.expiry /\ Liquid(q)}
      /\ call \subseteq {q \in quotes : q.expiry = a.expiry /\ Liquid(q)}
      /\ Quoted(put) /\ Quoted(call)
  BY DEF Live, QuotesOK, Quoted
<1> HIDE DEF put, call
<1>2. ASSUME NEW wing \in PutWings(put, a.target, a.width) \cup CallWings(call, a.target, a.width)
      PROVE  OfQuotes(quotes, a.expiry, wing)
  <2>1. PICK short \in quotes, long \in quotes :
           /\ wing = {Sold(short), Bought(long)}
           /\ short.expiry = a.expiry /\ Liquid(short)
           /\ long.expiry = a.expiry /\ Liquid(long)
    <3>1. CASE wing \in PutWings(put, a.target, a.width)
      <4>1. PICK short \in put, long \in put : wing = {Sold(short), Bought(long)}
        BY <1>1, <3>1, WingsAreQuotes
      <4> QED  BY <1>1, <4>1
    <3>2. CASE wing \in CallWings(call, a.target, a.width)
      <4>1. PICK short \in call, long \in call : wing = {Sold(short), Bought(long)}
        BY <1>1, <3>2, WingsAreQuotes
      <4> QED  BY <1>1, <4>1
    <3> QED  BY <3>1, <3>2
  <2>2. IsFiniteSet({Sold(short), Bought(long)})
    <3> DEFINE one == {Sold(short)}
    <3>1. IsFiniteSet(one) /\ {Sold(short), Bought(long)} = one \cup {Bought(long)}
      BY FS_Singleton
    <3> HIDE DEF one
    <3> QED  BY <3>1, FS_AddElement
  <2>3. QuoteOf(quotes, Sold(short)) = short /\ Sold(short) \in Legs /\ Sold(short).ratio = 1
    BY QuoteFound
  <2>4. QuoteOf(quotes, Bought(long)) = long /\ Bought(long) \in Legs /\ Bought(long).ratio = 1
    BY QuoteFound
  <2> QED  BY <2>1, <2>2, <2>3, <2>4 DEF OfQuotes
<1>3. CASE legs \in PutWings(put, a.target, a.width)
  BY <1>2, <1>3
<1>4. CASE \E p \in PutWings(put, a.target, a.width), c \in CallWings(call, a.target, a.width) :
              legs = p \cup c
  <2>1. PICK p \in PutWings(put, a.target, a.width), c \in CallWings(call, a.target, a.width) :
           legs = p \cup c
    BY <1>4
  <2>2. OfQuotes(quotes, a.expiry, p) /\ OfQuotes(quotes, a.expiry, c)
    BY <1>2
  <2>3. IsFiniteSet(p \cup c)
    BY <2>2, FS_Union DEF OfQuotes
  <2> QED  BY <2>1, <2>2, <2>3 DEF OfQuotes
<1> QED  BY <1>3, <1>4 DEF LegsFor, put, call

\* What a structure is worth, and what crossing its markets costs, are cents.
LEMMA CentsAreInt ==
    ASSUME NEW quotes, QuotesOK(quotes), NEW expiry, NEW legs, OfQuotes(quotes, expiry, legs)
    PROVE  /\ NetCredit(quotes, legs) \in Int
           /\ Total([leg \in legs |-> QuoteOf(quotes, leg).ask - QuoteOf(quotes, leg).bid]) \in Int
<1> DEFINE signed == [leg \in legs |->
                        (IF IsShort(leg) THEN 1 ELSE -1) * Mid(QuoteOf(quotes, leg))]
           spread == [leg \in legs |-> QuoteOf(quotes, leg).ask - QuoteOf(quotes, leg).bid]
<1>1. ASSUME NEW leg \in legs
      PROVE  /\ Mid(QuoteOf(quotes, leg)) \in Int
             /\ QuoteOf(quotes, leg).bid \in Nat /\ QuoteOf(quotes, leg).ask \in Nat
  <2>1. QuoteOf(quotes, leg) \in quotes
    BY DEF OfQuotes
  <2>2. QuoteOf(quotes, leg).bid \in Nat /\ QuoteOf(quotes, leg).ask \in Nat
    BY <2>1 DEF QuotesOK
  <2> QED  BY <2>2 DEF Mid
<1>2. signed \in [legs -> Int] /\ spread \in [legs -> Int]
  <2>1. \A leg \in legs : (IF IsShort(leg) THEN 1 ELSE -1) * Mid(QuoteOf(quotes, leg)) \in Int
    BY <1>1
  <2>2. \A leg \in legs : QuoteOf(quotes, leg).ask - QuoteOf(quotes, leg).bid \in Int
    BY <1>1
  <2> QED  BY <2>1, <2>2
<1>3. IsFiniteSet(legs)
  BY DEF OfQuotes
<1> HIDE DEF signed, spread
<1>4. Total(signed) \in Int /\ Total(spread) \in Int
  BY <1>2, <1>3, TotalIsInt
<1> QED  BY <1>4 DEF NetCredit, signed, spread

\* A structure has a width, legs of one series, one of them sold, and a type.
LEMMA StructureHasWidth ==
    ASSUME NEW legs \in SUBSET Legs, IsFiniteSet(legs), StructureOf(legs) # "none"
    PROVE  /\ Width(legs) \in Int /\ StructureOf(legs) \in AllowedStructures
           /\ legs # {} /\ \A x, y \in legs : x.series = y.series
           /\ \E leg \in legs : IsShort(leg)
<1>1. LegsParse(legs) /\ (IsPutCreditSpread(legs) \/ IsIronCondor(legs))
      /\ StructureOf(legs) \in AllowedStructures
  BY DEF StructureOf, AllowedStructures
<1>2. Width(legs) \in Int
  <2>1. 0 \in Int
    OBVIOUS
  <2> QED  BY <1>1, <2>1, SpreadLosesWidth, CondorLosesWidth
<1>3. \E leg \in legs : IsShort(leg)
  BY <1>1 DEF IsPutCreditSpread, IsIronCondor, Puts
<1> QED  BY <1>1, <1>2, <1>3 DEF LegsParse

\* What _build_ticket says of the legs is what the legs and the quotes say.
Told(quotes, expiry, today, signals, t) ==
    /\ t \in Tickets /\ OfQuotes(quotes, expiry, t.legs)
    /\ StructureOf(t.legs) # "none" /\ t.type = StructureOf(t.legs)
    /\ \A leg \in t.legs : leg.series = t.series
    /\ t.width = Width(t.legs) /\ t.width \in Int /\ t.dte = expiry - today
    /\ t.credit = NetCredit(quotes, t.legs) /\ t.credit \in Int
    /\ 0 < t.credit /\ t.credit < 100 * t.width
    /\ t.maxLoss = 100 * t.width - t.credit /\ t.proposed = 1
    /\ t.regime = Classify(signals)

LEMMA TicketsAreTold ==
    ASSUME NEW quotes, QuotesOK(quotes),
           NEW a, a.expiry \in Int, a.target \in Int, a.width \in Int,
           NEW today \in Int, NEW signals, NEW t \in Worthwhile(quotes, a, today, signals)
    PROVE  /\ Told(quotes, a.expiry, today, signals, t)
           /\ t.credit * Whole >= MinCreditToWidthBp * t.width * 100
<1>1. PICK legs \in LegsFor(quotes, a) : t \in Build(quotes, legs, today, signals)
  BY DEF Worthwhile
<1>2. OfQuotes(quotes, a.expiry, legs)
  BY LegsAreQuoted
<1> DEFINE credit == NetCredit(quotes, legs)
           any == CHOOSE leg \in legs : TRUE
<1>3. credit \in Int
  BY <1>2, CentsAreInt
<1>4. /\ StructureOf(legs) # "none" /\ ~(credit =< 0) /\ ~(credit >= 100 * Width(legs))
      /\ t = [legs |-> legs, type |-> StructureOf(legs), series |-> any.series,
              width |-> Width(legs), dte |-> QuoteOf(quotes, any).expiry - today,
              credit |-> credit, maxLoss |-> 100 * Width(legs) - credit, proposed |-> 1,
              regime |-> Classify(signals)]
  BY <1>1 DEF Build
<1>5. /\ Width(legs) \in Int /\ legs # {} /\ \A x, y \in legs : x.series = y.series
  BY <1>2, <1>4, StructureHasWidth DEF OfQuotes
<1>6. any \in legs
  BY <1>5
<1>7. QuoteOf(quotes, any).expiry = a.expiry /\ \A leg \in legs : leg.series = any.series
  BY <1>2, <1>5, <1>6 DEF OfQuotes
<1>8. t.credit * Whole >= MinCreditToWidthBp * t.width * 100
  BY DEF Worthwhile
<1> HIDE DEF credit, any
<1>9. 0 < credit /\ credit < 100 * Width(legs)
  BY <1>3, <1>4, <1>5
<1>10. /\ t.legs = legs /\ t.type = StructureOf(legs) /\ t.series = any.series
       /\ t.width = Width(legs) /\ t.dte = QuoteOf(quotes, any).expiry - today
       /\ t.credit = credit /\ t.maxLoss = 100 * Width(legs) - credit /\ t.proposed = 1
       /\ t.regime = Classify(signals)
  BY <1>4
<1>11. t \in Tickets
  <2>1. any \in Legs /\ legs \in SUBSET Legs
    BY <1>2, <1>6 DEF OfQuotes
  <2>2. any.series \in STRING
    BY <2>1 DEF Legs
  <2>3. StructureOf(legs) \in Names /\ Classify(signals) \in Names
    <3>1. StructureOf(legs) \in AllowedStructures
      BY <1>2, <1>4, StructureHasWidth DEF OfQuotes
    <3>2. Classify(signals) \in Regimes
      BY DEF Classify, Regimes
    <3> QED  BY <3>1, <3>2 DEF Names
  <2>4. /\ QuoteOf(quotes, any).expiry - today \in Int
        /\ 100 * Width(legs) - credit \in Int
    BY <1>3, <1>5, <1>7
  <2> QED  BY <1>3, <1>4, <1>5, <2>1, <2>2, <2>3, <2>4 DEF Tickets
<1> QED  BY <1>2, <1>3, <1>4, <1>5, <1>7, <1>8, <1>9, <1>10, <1>11 DEF Told, credit

\* The ticket of an attempt that is worth while.
TicketOf(quotes, a, today, signals) ==
    CHOOSE t \in Worthwhile(quotes, a, today, signals) : TRUE

\* A finite domain gives finitely many values.
LEMMA ImageIsFinite ==
    ASSUME NEW S, IsFiniteSet(S), NEW f, f = [x \in S |-> f[x]]
    PROVE  IsFiniteSet({f[x] : x \in S})
<1> DEFINE T == {f[x] : x \in S}
<1>1. f \in [S -> T] /\ \A y \in T : \E x \in S : f[x] = y
  OBVIOUS
<1> HIDE DEF T
<1>2. f \in Surjection(S, T)
  BY <1>1 DEF Surjection
<1>3. IsFiniteSet(T)
  BY <1>2, FS_Surjection
<1> QED  BY <1>3 DEF T

LEMMA AttemptsAreFinite ==
    ASSUME NEW quotes, QuotesOK(quotes), NEW today \in Int, NEW signals
    PROVE  /\ IsFiniteSet(Attempts(quotes, today, signals))
           /\ Attempts(quotes, today, signals) \subseteq
                 [expiry : Int, structure : AllowedStructures, target : Int, width : Int]
           /\ \A a \in Attempts(quotes, today, signals) :
                 /\ a.expiry - today \in MinEntryDte..EntryDteHigh
                 /\ RegimeLots(signals) > 0
<1> DEFINE E == EligibleExpiries(quotes, today)
           S == Strategies(signals)
           D == TargetShortDeltas
           W == CandidateWidths
           f == [q \in quotes |-> q.expiry]
<1>1. E \subseteq {f[q] : q \in quotes} /\ E \subseteq Int
      /\ \A e \in E : e - today \in MinEntryDte..EntryDteHigh
  BY DEF EligibleExpiries, QuotesOK
<1>2. IsFiniteSet(E)
  <2>1. IsFiniteSet(quotes) /\ f = [q \in quotes |-> f[q]]
    BY DEF QuotesOK
  <2> HIDE DEF f, E
  <2>2. IsFiniteSet({f[q] : q \in quotes})
    BY <2>1, ImageIsFinite
  <2> QED  BY <1>1, <2>2, FS_Subset
<1>3. IsFiniteSet(S) /\ S \subseteq AllowedStructures /\ (S # {} => RegimeLots(signals) > 0)
  <2> DEFINE one == {"put_credit_spread"}
  <2>1. IsFiniteSet(one) /\ AllowedStructures = one \cup {"iron_condor"}
    BY FS_Singleton DEF AllowedStructures
  <2> HIDE DEF one
  <2>2. IsFiniteSet(AllowedStructures)
    BY <2>1, FS_AddElement
  <2> QED  BY <2>2, FS_EmptySet DEF Strategies
<1>4. IsFiniteSet(D) /\ D \subseteq Int /\ IsFiniteSet(W) /\ W \subseteq Int
  <2>1. D \subseteq Int /\ D \in SUBSET (0..280) /\ W \subseteq Int /\ W \in SUBSET (0..280)
    BY DEF TargetShortDeltas, CandidateWidths
  <2>2. IsFiniteSet(0..280)
    <3>1. \A a, b \in Int : IsFiniteSet(a..b)
      BY FS_Interval
    <3>2. 0 \in Int /\ 280 \in Int
      OBVIOUS
    <3> QED  BY <3>1, <3>2
  <2> QED  BY <2>1, <2>2, FS_Subset
<1> DEFINE A == [expiry : E, structure : S, target : D, width : W]
<1>5. A = Attempts(quotes, today, signals)
  BY DEF Attempts
<1> HIDE DEF E, S, D, W
<1>6. IsFiniteSet(A)
  <2> DEFINE P == (E \X S) \X (D \X W)
             g == [p \in P |-> [expiry |-> p[1][1], structure |-> p[1][2],
                                target |-> p[2][1], width |-> p[2][2]]]
  <2>1. IsFiniteSet(P)
    BY <1>2, <1>3, <1>4, FS_Product
  <2>2. g = [p \in P |-> g[p]]
    OBVIOUS
  <2>3. ASSUME NEW a \in A PROVE a \in {g[p] : p \in P}
    <3>1. <<<<a.expiry, a.structure>>, <<a.target, a.width>>>> \in P
      OBVIOUS
    <3>2. a = g[<<<<a.expiry, a.structure>>, <<a.target, a.width>>>>]
      BY <3>1
    <3> QED  BY <3>1, <3>2
  <2> HIDE DEF P, g, A
  <2>4. IsFiniteSet({g[p] : p \in P})
    BY <2>1, <2>2, ImageIsFinite
  <2> QED  BY <2>3, <2>4, FS_Subset
<1>7. /\ A \subseteq [expiry : Int, structure : AllowedStructures, target : Int, width : Int]
      /\ \A a \in A : a.expiry - today \in MinEntryDte..EntryDteHigh /\ RegimeLots(signals) > 0
  BY <1>1, <1>3, <1>4
<1> HIDE DEF A
<1> QED  BY <1>5, <1>6, <1>7

(***************************************************************************)
(* What is viable is finite, can be compared, and is what its quotes say.  *)
(***************************************************************************)
LEMMA ViableIsKnown ==
    ASSUME NEW quotes, QuotesOK(quotes), NEW today \in Int, NEW signals
    PROVE  LET V == Viable(quotes, today, signals)
           IN  /\ IsFiniteSet(V) /\ Comparable(V)
               /\ \A x, y \in V : x.ticket.legs = y.ticket.legs => x.bucket = y.bucket
               /\ \A x \in V :
                     /\ Told(quotes, x.attempt.expiry, today, signals, x.ticket)
                     /\ x.ticket.credit * Whole >= MinCreditToWidthBp * x.ticket.width * 100
                     /\ x.attempt \in Attempts(quotes, today, signals)
<1> DEFINE V == Viable(quotes, today, signals)
           A == Attempts(quotes, today, signals)
           Of(a) == Candidate(quotes, a, TicketOf(quotes, a, today, signals))
           Tried == {a \in A : Worthwhile(quotes, a, today, signals) # {}}
           f == [a \in Tried |-> Of(a)]
<1>1. /\ IsFiniteSet(A)
      /\ A \subseteq [expiry : Int, structure : AllowedStructures, target : Int, width : Int]
  BY AttemptsAreFinite
<1>2. V = {Of(a) : a \in Tried}
  BY DEF Viable, TicketOf
<1> HIDE DEF A, V
<1>3. IsFiniteSet(V)
  <2>1. IsFiniteSet(Tried)
    <3>1. Tried \in SUBSET A
      OBVIOUS
    <3> HIDE DEF Tried
    <3> QED  BY <1>1, <3>1, FS_Subset
  <2>2. f = [a \in Tried |-> f[a]] /\ V = {f[a] : a \in Tried}
    BY <1>2
  <2> HIDE DEF f, Tried, Of
  <2> QED  BY <2>1, <2>2, ImageIsFinite
<1>4. ASSUME NEW x \in V
      PROVE  /\ x = Candidate(quotes, x.attempt, x.ticket) /\ x.attempt \in A
             /\ x.ticket = TicketOf(quotes, x.attempt, today, signals)
             /\ Told(quotes, x.attempt.expiry, today, signals, x.ticket)
             /\ x.ticket.credit * Whole >= MinCreditToWidthBp * x.ticket.width * 100
  <2>1. PICK a \in Tried : x = Of(a)
    BY <1>2
  <2>2. x.attempt = a /\ x.ticket = TicketOf(quotes, a, today, signals)
        /\ x = Candidate(quotes, a, TicketOf(quotes, a, today, signals))
    BY <2>1 DEF Candidate
  <2>3. TicketOf(quotes, a, today, signals) \in Worthwhile(quotes, a, today, signals)
    BY DEF TicketOf
  <2>4. a.expiry \in Int /\ a.target \in Int /\ a.width \in Int /\ a \in A
    BY <1>1
  <2> QED  BY <2>2, <2>3, <2>4, TicketsAreTold
<1>5. ASSUME NEW x \in V
      PROVE  /\ x.kept \in Int /\ x.ticket.maxLoss \in Nat /\ x.ticket.maxLoss > 0
             /\ x.attempt \in [expiry : Int, structure : AllowedStructures,
                               target : Int, width : Int]
  <2>1. /\ x.ticket.credit \in Int /\ x.ticket.width \in Int
        /\ x.ticket.credit < 100 * x.ticket.width
        /\ x.ticket.maxLoss = 100 * x.ticket.width - x.ticket.credit
        /\ OfQuotes(quotes, x.attempt.expiry, x.ticket.legs)
    BY <1>4 DEF Told
  <2>2. Friction(quotes, x.ticket) \in Int
    BY <2>1, CentsAreInt DEF Friction
  <2>3. x.kept = x.ticket.credit - Friction(quotes, x.ticket)
    <3>1. x = Candidate(quotes, x.attempt, x.ticket)
      BY <1>4
    <3> QED  BY <3>1 DEF Candidate
  <2> QED  BY <1>1, <1>4, <2>1, <2>2, <2>3
<1>6. ASSUME NEW x \in V, NEW y \in V, x.attempt = y.attempt PROVE x = y
  <2>1. x.ticket = y.ticket
    BY <1>4, <1>6
  <2> QED  BY <1>4, <1>6, <2>1
<1>7. ASSUME NEW x \in V, NEW y \in V, x.ticket.legs = y.ticket.legs PROVE x.bucket = y.bucket
  <2>1. x.ticket.width = y.ticket.width
    BY <1>4, <1>7 DEF Told
  <2>2. Bucket(quotes, x.ticket) = Bucket(quotes, y.ticket)
    BY <1>7, <2>1 DEF Bucket
  <2>3. x.bucket = Bucket(quotes, x.ticket) /\ y.bucket = Bucket(quotes, y.ticket)
    <3>1. /\ x = Candidate(quotes, x.attempt, x.ticket)
          /\ y = Candidate(quotes, y.attempt, y.ticket)
      BY <1>4
    <3> QED  BY <3>1 DEF Candidate
  <2> QED  BY <2>2, <2>3
<1>8. Comparable(V)
  BY <1>5, <1>6 DEF Comparable
<1> QED  BY <1>3, <1>4, <1>7, <1>8 DEF A, V

--------------------------------------------------------------------------------
(* The pass.                                                                  *)

\* Of finitely many integers one is the greatest.
LEMMA MaxIsThere ==
    ASSUME NEW T \in SUBSET Int, IsFiniteSet(T), T # {}
    PROVE  Max(T) \in T
<1> DEFINE B == {p \in T \X T : p[1] > p[2]}
<1>1. \A x, y \in T : <<x, y>> \in B <=> x > y
  OBVIOUS
<1>2. T \subseteq Int
  OBVIOUS
<1> HIDE DEF B
<1>3. StrictOrder(T, B)
  BY <1>1, <1>2 DEF StrictOrder
<1>4. PICK x \in T : \A y \in T : y # x => <<x, y>> \in B
  <2>1. \A S : IsFiniteSet(S) /\ StrictOrder(S, B) =>
           \A P \in SUBSET S : P # {} =>
              \E x \in P : \A y \in P : y # x => <<x, y>> \in B
    BY FirstExists
  <2> QED  BY <1>3, <2>1
<1>5. ASSUME NEW y \in T PROVE x >= y
  <2>1. x \in Int /\ y \in Int
    BY <1>2
  <2>2. y # x => x > y
    BY <1>1, <1>4
  <2> QED  BY <2>1, <2>2
<1> QED  BY <1>5 DEF Max

(***************************************************************************)
(* What a pass has read is what it goes by: a shortlist is the shortlist   *)
(* of this chain, and a ticket is one of it, held against its own quotes.  *)
(***************************************************************************)
Ranked ==
    \E x \in Choice :
        /\ ticket = x.ticket /\ market.quoted
        /\ market.credit = NetCredit(chain, ticket.legs) /\ market.expiry = x.attempt.expiry

PassInv ==
    /\ QuotesOK(chain) /\ market \in Markets
    /\ stage = "reading" => offered = <<>>
    /\ stage = "offered" => offered # <<>>
    /\ offered # <<>> => offered = Diversify(Choice)
    /\ offered # <<>> /\ stage \notin Unproposed => Ranked

\* The choice of a pass, by its invariant.
LEMMA ChoiceIsKnown ==
    ASSUME PassInv
    PROVE  /\ IsFiniteSet(Choice) /\ Comparable(Choice)
           /\ \A x, y \in Choice : x.ticket.legs = y.ticket.legs => x.bucket = y.bucket
           /\ \A x \in Choice :
                 /\ Told(chain, x.attempt.expiry, market.today, market.signals, x.ticket)
                 /\ x.ticket.credit * Whole >= MinCreditToWidthBp * x.ticket.width * 100
                 /\ x.attempt.expiry - market.today \in MinEntryDte..EntryDteHigh
                 /\ x.attempt.expiry \in Int /\ RegimeLots(market.signals) > 0
<1>1. QuotesOK(chain) /\ market.today \in Int
  BY DEF PassInv, Markets
<1>2. /\ IsFiniteSet(Choice) /\ Comparable(Choice)
      /\ \A x, y \in Choice : x.ticket.legs = y.ticket.legs => x.bucket = y.bucket
      /\ \A x \in Choice :
            /\ Told(chain, x.attempt.expiry, market.today, market.signals, x.ticket)
            /\ x.ticket.credit * Whole >= MinCreditToWidthBp * x.ticket.width * 100
            /\ x.attempt \in Attempts(chain, market.today, market.signals)
  BY <1>1, ViableIsKnown DEF Choice
<1>3. \A a \in Attempts(chain, market.today, market.signals) :
         /\ a.expiry - market.today \in MinEntryDte..EntryDteHigh
         /\ a.expiry \in Int /\ RegimeLots(market.signals) > 0
  BY <1>1, AttemptsAreFinite
<1> QED  BY <1>2, <1>3

\* What is ranked is held against the quotes it was built from.
LEMMA RankReads ==
    ASSUME PassInv, Rank
    PROVE  /\ market' \in Markets
           /\ market'.today = market.today /\ market'.signals = market.signals
           /\ \E x \in Choice :
                 /\ ticket' = x.ticket /\ market'.quoted
                 /\ market'.credit = NetCredit(chain, x.ticket.legs)
                 /\ market'.expiry = x.attempt.expiry
<1>1. /\ stage = "offered" /\ offered = Diversify(Choice)
      /\ QuotesOK(chain) /\ market \in Markets
  BY DEF PassInv, Rank
<1>2. PICK i \in DOMAIN offered :
         LET t == offered[i].ticket
             quote == [leg \in t.legs |-> QuoteOf(chain, leg)]
             shorts == {quote[leg] : leg \in {l \in t.legs : IsShort(l)}} IN
         /\ ticket' = t
         /\ market' = [market EXCEPT
               !.quoted = \A leg \in t.legs :
                             quote[leg] \in chain /\ quote[leg].bid > 0
                             /\ quote[leg].ask >= quote[leg].bid,
               !.credit = NetCredit(chain, t.legs),
               !.spread = Max({q.ask - q.bid : q \in shorts}),
               !.expiry = (CHOOSE q \in shorts : TRUE).expiry]
  BY DEF Rank
<1> DEFINE x == offered[i]
           t == x.ticket
           e == x.attempt.expiry
           quote == [leg \in t.legs |-> QuoteOf(chain, leg)]
           sold == {l \in t.legs : IsShort(l)}
           shorts == {quote[leg] : leg \in sold}
<1>3. x \in Choice
  <2>1. \E m \in Nat : DOMAIN offered = 1..m /\ \A k \in 1..m : offered[k] \in Choice
    BY <1>1, ChoiceIsKnown, ShortlistOf
  <2> QED  BY <2>1
<1> HIDE DEF x
<1>4. Told(chain, e, market.today, market.signals, t)
  BY <1>3, ChoiceIsKnown
<1>5. /\ OfQuotes(chain, e, t.legs) /\ t.credit \in Int /\ t.credit = NetCredit(chain, t.legs)
      /\ StructureOf(t.legs) # "none" /\ e \in Int
  BY <1>3, <1>4, ChoiceIsKnown DEF Told
<1>6. sold # {} /\ IsFiniteSet(sold)
  <2>1. \E leg \in t.legs : IsShort(leg)
    BY <1>5, StructureHasWidth DEF OfQuotes
  <2>2. IsFiniteSet(t.legs) /\ sold \in SUBSET t.legs
    BY <1>5 DEF OfQuotes
  <2> HIDE DEF t
  <2> QED  BY <2>1, <2>2, FS_Subset
<1>7. \A leg \in t.legs :
         /\ quote[leg] \in chain /\ quote[leg].bid > 0 /\ quote[leg].ask >= quote[leg].bid
         /\ quote[leg].expiry = e /\ quote[leg].bid \in Nat /\ quote[leg].ask \in Nat
  <2>1. \A leg \in t.legs : /\ QuoteOf(chain, leg) \in chain /\ Liquid(QuoteOf(chain, leg))
                            /\ QuoteOf(chain, leg).expiry = e
    BY <1>5 DEF OfQuotes
  <2>2. \A leg \in t.legs : QuoteOf(chain, leg).bid \in Nat /\ QuoteOf(chain, leg).ask \in Nat
    BY <1>1, <2>1 DEF QuotesOK
  <2> QED  BY <2>1, <2>2 DEF Liquid
<1>8. Max({q.ask - q.bid : q \in shorts}) \in Int
  <2> DEFINE f == [leg \in sold |-> quote[leg].ask - quote[leg].bid]
  <2>1. {q.ask - q.bid : q \in shorts} = {f[leg] : leg \in sold}
    OBVIOUS
  <2>2. {f[leg] : leg \in sold} \in SUBSET Int /\ {f[leg] : leg \in sold} # {}
    <3>1. \A leg \in sold : f[leg] \in Int
      BY <1>7
    <3> HIDE DEF f, sold
    <3> QED  BY <1>6, <3>1
  <2>3. f = [leg \in sold |-> f[leg]]
    OBVIOUS
  <2> HIDE DEF f, sold
  <2>4. IsFiniteSet({f[leg] : leg \in sold})
    BY <1>6, <2>3, ImageIsFinite
  <2> QED  BY <2>1, <2>2, <2>4, MaxIsThere
<1>9. (CHOOSE q \in shorts : TRUE).expiry = e
  <2>1. shorts # {} /\ \A q \in shorts : q.expiry = e
    BY <1>6, <1>7
  <2> HIDE DEF shorts
  <2> QED  BY <2>1
<1>10. /\ ticket' = t
       /\ market' = [market EXCEPT !.quoted = TRUE, !.credit = NetCredit(chain, t.legs),
                                   !.spread = Max({q.ask - q.bid : q \in shorts}), !.expiry = e]
  <2>1. \A leg \in t.legs : quote[leg] \in chain /\ quote[leg].bid > 0
                            /\ quote[leg].ask >= quote[leg].bid
    BY <1>7
  <2> QED  BY <1>2, <1>9, <2>1 DEF x
<1> HIDE DEF t, quote, shorts, sold, e
<1>11. /\ market' \in Markets /\ market'.today = market.today
       /\ market'.signals = market.signals /\ market'.quoted
       /\ market'.credit = NetCredit(chain, t.legs) /\ market'.expiry = e
  BY <1>1, <1>5, <1>8, <1>10 DEF Markets
<1> QED  BY <1>3, <1>10, <1>11 DEF t, e

LEMMA PassInvariant == PassSpec => []PassInv
<1>1. PassInit => PassInv
  <2>1. ASSUME Init, chain = {}, offered = <<>> PROVE PassInv
    <3>1. QuotesOK(chain)
      BY <2>1, FS_EmptySet DEF QuotesOK
    <3>2. market \in Markets /\ stage = "proposed"
      BY <2>1, CasesAssumption DEF Init
    <3> QED  BY <2>1, <3>1, <3>2 DEF PassInv
  <2>2. ASSUME NEW c \in Chains, chain = c.quotes, market = c.market,
               stage = "reading", offered = <<>>
        PROVE  PassInv
    BY <2>2, ChainsAssumption DEF PassInv
  <2> QED  BY <2>1, <2>2 DEF PassInit
<1>2. PassInv /\ [PassNext]_passVars => PassInv'
  <2> SUFFICES ASSUME PassInv, [PassNext]_passVars PROVE PassInv'
    OBVIOUS
  <2>1. CASE Generate
    <3>1. /\ UNCHANGED <<market, chain>> /\ stage' \in {"offered", "no_candidate"}
          /\ stage' = "offered" => offered' # <<>>
          /\ offered' # <<>> => offered' = Diversify(Choice)
      BY <2>1 DEF Generate, Choice
    <3>2. Choice' = Choice
      BY <3>1 DEF Choice
    <3> QED  BY <3>1, <3>2 DEF PassInv, Unproposed
  <2>2. CASE Rank
    <3>1. UNCHANGED <<chain, offered>> /\ stage' = "proposed"
      BY <2>2 DEF Rank
    <3>2. Choice' = Choice /\ market' \in Markets
      BY <2>2, <3>1, RankReads DEF Choice
    <3>3. Ranked'
      BY <2>2, <3>1, <3>2, RankReads DEF Ranked
    <3> QED  BY <3>1, <3>2, <3>3 DEF PassInv
  <2>3. CASE Next /\ UNCHANGED <<chain, offered>>
    <3>1. UNCHANGED <<ticket, market, chain, offered>>
          /\ stage \notin Unproposed /\ stage' \notin Unproposed
      BY <2>3 DEF Next, Evaluate, Send, Fill, Settle, Close, Unproposed
    <3>2. Choice' = Choice
      BY <3>1 DEF Choice
    <3>3. Ranked => Ranked'
      BY <3>1, <3>2 DEF Ranked
    <3>4. PassInv'
      BY <3>1, <3>2, <3>3 DEF PassInv, Unproposed
    <3> QED  BY <3>4
  <2>4. CASE UNCHANGED passVars
    <3>1. UNCHANGED <<stage, ticket, market, chain, offered>>
      BY <2>4 DEF passVars
    <3>2. Choice' = Choice
      BY <3>1 DEF Choice
    <3>3. Ranked => Ranked'
      BY <3>1, <3>2 DEF Ranked
    <3> QED  BY <3>1, <3>2, <3>3 DEF PassInv
  <2> QED  BY <2>1, <2>2, <2>3, <2>4 DEF PassNext
<1> QED  BY <1>1, <1>2, PTL DEF PassSpec

(***************************************************************************)
(* The officer believes whatever the desk's own builder offers, for every  *)
(* chain and every configuration that loads: what one filters by is what   *)
(* the other checks (candidates.py, ranker.py, officer.py).                *)
(***************************************************************************)
THEOREM BuilderIsBelieved == PassSpec => []BuiltTicketsAreBelieved
<1>1. PassInv => BuiltTicketsAreBelieved
  <2> SUFFICES ASSUME PassInv, stage = "denied", offered # <<>>
               PROVE  /\ RegimePermits(ticket, market) /\ OnAllowlist(ticket)
                      /\ CreditOk(ticket, market) /\ DteOk(market.expiry - market.today)
                      /\ IsReduced(ticket.legs) /\ ClaimsMatch(ticket, market)
    BY DEF BuiltTicketsAreBelieved
  <2>1. PICK x \in Choice :
           /\ ticket = x.ticket /\ market.quoted
           /\ market.credit = NetCredit(chain, ticket.legs) /\ market.expiry = x.attempt.expiry
    BY DEF PassInv, Ranked, Unproposed
  <2> DEFINE legs == ticket.legs
  <2>2. /\ OfQuotes(chain, market.expiry, legs)
        /\ StructureOf(legs) # "none" /\ ticket.type = StructureOf(legs)
        /\ \A leg \in legs : leg.series = ticket.series
        /\ ticket.width = Width(legs) /\ ticket.width \in Int
        /\ ticket.dte = market.expiry - market.today
        /\ ticket.credit = market.credit /\ ticket.credit \in Int
        /\ 0 < ticket.credit /\ ticket.credit < 100 * ticket.width
        /\ ticket.maxLoss = 100 * ticket.width - ticket.credit /\ ticket.proposed = 1
        /\ ticket.regime = Classify(market.signals)
        /\ ticket.credit * Whole >= MinCreditToWidthBp * ticket.width * 100
        /\ market.expiry - market.today \in MinEntryDte..EntryDteHigh
        /\ RegimeLots(market.signals) > 0
    <3>1. Told(chain, x.attempt.expiry, market.today, market.signals, ticket)
      BY <2>1, ChoiceIsKnown
    <3>2. /\ ticket.credit * Whole >= MinCreditToWidthBp * ticket.width * 100
          /\ market.expiry - market.today \in MinEntryDte..EntryDteHigh
          /\ RegimeLots(market.signals) > 0
      BY <2>1, ChoiceIsKnown
    <3> QED  BY <2>1, <3>1, <3>2 DEF Told
  <2>3. /\ StructureOf(legs) \in AllowedStructures /\ legs # {} /\ legs \in SUBSET Legs
        /\ \A leg \in legs : leg.ratio = 1
    BY <2>2, StructureHasWidth DEF OfQuotes
  <2>4. Shape(ticket) = StructureOf(legs)
    BY DEF Shape
  <2>5. RegimePermits(ticket, market) /\ OnAllowlist(ticket)
    BY <2>2, <2>3, <2>4 DEF RegimePermits, OnAllowlist, Strategies
  <2>6. CreditOk(ticket, market)
    <3>1. Width(legs) > 0 /\ market.credit > 0
      BY <2>2
    <3> QED  BY <2>1, <2>2, <2>4, <3>1 DEF CreditOk, Recalculable
  <2>7. DteOk(market.expiry - market.today)
    <3>1. /\ EntryDteLow \in Int /\ EntryDteHigh \in Int /\ ForceFlattenDte \in Int
          /\ MinEntryDte >= EntryDteLow /\ MinEntryDte >= ForceFlattenDte + 1
          /\ MinEntryDte \in Int
      BY ConfigAssumption DEF Consistent, MinEntryDte
    <3> DEFINE d == market.expiry - market.today
    <3>2. d \in MinEntryDte..EntryDteHigh
      BY <2>2
    <3> HIDE DEF d
    <3>3. DteOk(d)
      BY <3>1, <3>2 DEF DteOk
    <3> QED  BY <3>3 DEF d
  <2>8. IsReduced(legs)
    <3> SUFFICES ASSUME NEW leg \in legs, NEW d \in 2..leg.ratio PROVE FALSE
      BY <2>3 DEF IsReduced
    <3> QED  BY <2>3
  <2>9. ClaimsMatch(ticket, market)
    <3>1. /\ LossPerLot(ticket, market) = ticket.maxLoss /\ ticket.maxLoss \in Int
      BY <2>2 DEF LossPerLot
    <3>2. Near(ticket.credit, market.credit, 1)
      BY <2>2 DEF Near
    <3>3. Near(ticket.maxLoss, LossPerLot(ticket, market) * Clamp(ticket.proposed), 1)
      BY <2>2, <3>1 DEF Near, Clamp
    <3> QED  BY <2>2, <2>4, <3>2, <3>3 DEF ClaimsMatch
  <2> QED  BY <2>5, <2>6, <2>7, <2>8, <2>9
<1> QED  BY <1>1, PassInvariant, PTL

(***************************************************************************)
(* A delta and width is offered twice only when every one that is viable   *)
(* is offered, for every chain (_diversify).                               *)
(***************************************************************************)
THEOREM ShortlistSpreads == PassSpec => []ShortlistIsDiverse
<1>1. PassInv => ShortlistIsDiverse
  <2> SUFFICES ASSUME PassInv, NEW i \in DOMAIN offered, NEW j \in DOMAIN offered,
                      i < j, offered[i].bucket = offered[j].bucket
               PROVE  {x.bucket : x \in Choice} = {offered[k].bucket : k \in DOMAIN offered}
    BY DEF ShortlistIsDiverse
  <2>1. offered # <<>>
    OBVIOUS
  <2>2. offered = Diversify(Choice)
    BY <2>1 DEF PassInv
  <2>3. \E m \in Nat :
           /\ DOMAIN offered = 1..m
           /\ \A a, b \in 1..m : a < b /\ offered[a].bucket = offered[b].bucket =>
                 {x.bucket : x \in Choice} = {offered[k].bucket : k \in 1..m}
    <3> DEFINE list == Diversify(Choice)
    <3>1. \E m \in Nat :
             /\ DOMAIN list = 1..m
             /\ \A a, b \in 1..m : a < b /\ list[a].bucket = list[b].bucket =>
                   {x.bucket : x \in Choice} = {list[k].bucket : k \in 1..m}
      BY ChoiceIsKnown, ShortlistOf
    <3> QED  BY <2>2, <3>1
  <2> QED  BY <2>3
<1> QED  BY <1>1, PassInvariant, PTL

(***************************************************************************)
(* The first of the shortlist, to which the ranker falls back, keeps as    *)
(* much of its credit as anything viable, for every chain (rank, _diversify). *)
(***************************************************************************)
THEOREM FallbackIsFirst == PassSpec => []FallbackIsBest
<1>1. PassInv => FallbackIsBest
  <2> SUFFICES ASSUME PassInv, stage = "offered"
               PROVE  \A x \in Choice : ~KeepsMore(x, offered[1])
    BY DEF FallbackIsBest
  <2>1. offered = Diversify(Choice)
    BY DEF PassInv
  <2>2. PICK m \in Nat :
           /\ Choice # {} => m > 0
           /\ m > 0 => \A x \in Choice : ~KeepsMore(x, offered[1])
    BY <2>1, ChoiceIsKnown, ShortlistOf
  <2> QED  BY <2>2
<1> QED  BY <1>1, PassInvariant, PTL

\* The order of a pass is the order of OrderRisk, once there is one.
OrderInv ==
    /\ TypeOK
    /\ stage \notin Unproposed => AllowedInv /\ HeldInv /\ PriceInv

LEMMA OrderInvariant == PassSpec => []OrderInv
<1>1. PassInit => OrderInv
  <2>1. 0 \in 0..MaxLots
    BY LimitsAssumption DEF LimitsConsistent
  <2>2. ASSUME Init PROVE OrderInv
    <3>1. ticket \in Tickets /\ IsFiniteSet(ticket.legs) /\ market \in Markets
      BY <2>2, CasesAssumption DEF Init
    <3> QED  BY <2>1, <2>2, <3>1 DEF Init, OrderInv, TypeOK, AllowedInv, HeldInv, FlatAfterClose,
                                     PriceInv, Sent, Unproposed
  <2>3. ASSUME stage = "reading", lots = 0, limit = 0, charge = 0, price = 0, loss = 0
        PROVE  OrderInv
    BY <2>1, <2>3 DEF OrderInv, TypeOK, Sent, Unproposed
  <2> QED  BY <2>2, <2>3 DEF PassInit
<1>2. PassInv /\ OrderInv /\ [PassNext]_passVars => OrderInv'
  <2> SUFFICES ASSUME PassInv, OrderInv, [PassNext]_passVars PROVE OrderInv'
    OBVIOUS
  <2>1. CASE Generate
    BY <2>1 DEF Generate, OrderInv, TypeOK, Sent, Unproposed
  <2>2. CASE Rank
    <3>1. PICK x \in Choice : ticket' = x.ticket
      BY <2>2, RankReads
    <3>2. ticket' \in Tickets /\ IsFiniteSet(ticket.legs)' /\ market' \in Markets
      BY <2>2, <3>1, RankReads, ChoiceIsKnown DEF Told, OfQuotes
    <3>3. stage' = "proposed" /\ UNCHANGED <<lots, limit, charge, price, held, loss>>
      BY <2>2 DEF Rank
    <3> QED  BY <3>2, <3>3 DEF OrderInv, TypeOK, AllowedInv, HeldInv, FlatAfterClose,
                               PriceInv, Sent, Unproposed
  <2>3. CASE Next /\ UNCHANGED <<chain, offered>>
    <3>1. stage \notin Unproposed
      BY <2>3 DEF Next, Evaluate, Send, Fill, Settle, Close, Unproposed
    <3>2. TypeOK /\ AllowedInv /\ HeldInv /\ PriceInv
      BY <3>1 DEF OrderInv
    <3> QED  BY <2>3, <3>2, StepAllowed, StepHeld, StepPrices DEF OrderInv
  <2>4. CASE UNCHANGED passVars
    <3>1. UNCHANGED vars
      BY <2>4 DEF passVars, vars
    <3>2. CASE stage \in Unproposed
      BY <3>1, <3>2 DEF OrderInv, TypeOK, vars
    <3>3. CASE stage \notin Unproposed
      BY <3>1, <3>3, StepAllowed, StepHeld, StepPrices DEF OrderInv
    <3> QED  BY <3>2, <3>3
  <2> QED  BY <2>1, <2>2, <2>3, <2>4 DEF PassNext
<1> QED  BY <1>1, <1>2, PassInvariant, PTL DEF PassSpec

(***************************************************************************)
(* What is proved of any order is true of the orders of a pass, which come *)
(* from a chain (candidates.py to alpaca_cli.py).                          *)
(***************************************************************************)
THEOREM OrdersOfAPass ==
    PassSpec => [](/\ TypeOK /\ LossWithinConcession /\ ChargeCoversRisk
                   /\ LyingNeverHelps /\ FlatAfterClose)
<1>1. OrderInv => /\ TypeOK /\ LossWithinConcession /\ ChargeCoversRisk
                  /\ LyingNeverHelps /\ FlatAfterClose
  <2>1. CASE stage \in Unproposed
    BY <2>1 DEF OrderInv, LossWithinConcession, ChargeCoversRisk, LyingNeverHelps,
                FlatAfterClose, Sent, Unproposed
  <2>2. CASE stage \notin Unproposed
    BY <2>2, SettledLoss, AllowedIsCharged, AllowedIsHonest DEF OrderInv, HeldInv
  <2> QED  BY <2>1, <2>2
<1> QED  BY <1>1, OrderInvariant, PTL
================================================================================
