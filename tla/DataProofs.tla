------------------------------ MODULE DataProofs ------------------------------
(***************************************************************************)
(* Proofs about data of any length: an answer is whole however its bytes   *)
(* were cut on the way (ProviderStream); in a request the results follow   *)
(* the calls they answer (Requests); Enter runs a command the filter finds *)
(* (Overlays); a start loses no setting in silence (Configuration); an     *)
(* edit takes out what reads like its old_string and no more (Edits); a    *)
(* user's prompt runs under its name, as it was typed (PromptLibrary); and *)
(* an effort that was saved is the one the next start reads (Settings).    *)
(*                                                                         *)
(* They rest on functions over data: Dispatched, recursive in the number   *)
(* of bytes, and InOrder, which lists a set of positions.  The library's   *)
(* induction takes an operator for a parameter; here it is stated for sets *)
(* of numbers instead, and proved from the finite subsets of the naturals  *)
(* being well-founded.                                                     *)
(***************************************************************************)
EXTENDS ProviderStream, FiniteSetTheorems, TLAPS

(* A set of numbers that is not empty has a least one: of the intervals    *)
(* 1..n with n in the set, one is contained in no other.                   *)
LEMMA LeastNatural ==
  ASSUME NEW T \in SUBSET Nat, T # {}
  PROVE  \E x \in T : \A y \in T : x <= y
<1> DEFINE U == {1..n : n \in T}
<1>1. ASSUME NEW n \in T
      PROVE  1..n \in FiniteSubsetsOf(Nat)
  <2>1. n \in Int /\ 1 \in Int
    OBVIOUS
  <2>2. IsFiniteSet(1..n)
    BY <2>1, FS_Interval
  <2>3. 1..n \in SUBSET Nat
    OBVIOUS
  <2> QED
    BY <2>2, <2>3, Zenon DEF FiniteSubsetsOf
<1>2. U \subseteq FiniteSubsetsOf(Nat) /\ U # {}
  BY <1>1, Zenon
<1>3. PICK m \in U : \A v \in U : ~(<<v, m>> \in StrictSubsetOrdering(Nat))
  <2> HIDE DEF U
  <2> QED
    BY <1>2, WFMin, FS_StrictSubsetOrderingWellFounded
<1>4. PICK x \in T : m = 1..x
  BY <1>3
<1>5. ASSUME NEW y \in T, y < x
      PROVE  FALSE
  <2>1. 1..y \in U /\ 1..y \subseteq 1..x /\ x \in 1..x /\ x \notin 1..y
    BY <1>5
  <2>2. <<1..y, 1..x>> \in StrictSubsetOrdering(Nat)
    BY <2>1 DEF StrictSubsetOrdering
  <2> QED
    BY <2>1, <2>2, <1>3, <1>4, Zenon
<1> QED
  BY <1>5

(* Induction over the numbers, stated of sets: no operator is passed.      *)
LEMMA Induction ==
  ASSUME NEW S, 0 \in S, \A n \in Nat : n \in S => n + 1 \in S
  PROVE  Nat \subseteq S
<1> DEFINE T == Nat \ S
<1> SUFFICES ASSUME T # {} PROVE FALSE
  OBVIOUS
<1>1. PICK x \in T : \A y \in T : x <= y
  BY LeastNatural, Zenon
<1>2. x \in Nat /\ x # 0
  BY <1>1
<1>3. x - 1 \in Nat /\ x - 1 \notin T
  BY <1>1, <1>2
<1> QED
  BY <1>1, <1>2, <1>3

(* Fewer elements of a finite set lie below one of its elements than it has. *)
LEMMA BelowFinite ==
  ASSUME NEW S \in SUBSET Nat, IsFiniteSet(S), NEW i
  PROVE  /\ IsFiniteSet(Below(S, i)) /\ Cardinality(Below(S, i)) \in Nat
         /\ Below(S, i) \subseteq S
         /\ i \in S => Cardinality(Below(S, i)) < Cardinality(S)
<1>1. Below(S, i) \subseteq S /\ IsFiniteSet(Below(S, i)) /\ Cardinality(Below(S, i)) <= Cardinality(S)
  BY FS_Subset DEF Below
<1>2. Cardinality(Below(S, i)) \in Nat /\ Cardinality(S) \in Nat
  BY <1>1, FS_CardinalityType
<1>3. ASSUME i \in S
      PROVE  Cardinality(Below(S, i)) # Cardinality(S)
  <2>1. Below(S, i) # S
    BY <1>3 DEF Below
  <2> QED
    BY <1>1, <2>1, FS_Subset
<1> QED
  BY <1>1, <1>2, <1>3

(* Of two elements, the greater has more elements below it.                *)
LEMMA BelowGrows ==
  ASSUME NEW S \in SUBSET Nat, IsFiniteSet(S), NEW i \in S, NEW j \in S, i < j
  PROVE  Cardinality(Below(S, i)) < Cardinality(Below(S, j))
<1>0. i \in Nat /\ j \in Nat /\ \A x \in S : x \in Nat
  OBVIOUS
<1>1. /\ \A x \in Below(S, i) : x \in Below(S, j)
      /\ i \in Below(S, j) /\ i \notin Below(S, i)
  <2>1. \A x \in S : x < i => x < j
    BY <1>0
  <2>2. ~(i < i)
    BY <1>0
  <2> QED
    BY <2>1, <2>2 DEF Below
<1>2. IsFiniteSet(Below(S, j)) /\ Cardinality(Below(S, j)) \in Nat
      /\ Cardinality(Below(S, i)) \in Nat
  BY BelowFinite
<1>3. Cardinality(Below(S, i)) <= Cardinality(Below(S, j))
      /\ Cardinality(Below(S, i)) # Cardinality(Below(S, j))
  BY <1>1, <1>2, FS_Subset, Zenon
<1> QED
  BY <1>2, <1>3

(* Every number below a set's size is the number of elements below one of it. *)
LEMMA RankExists ==
  ASSUME NEW S \in SUBSET Nat, IsFiniteSet(S), NEW k \in 0..(Cardinality(S) - 1)
  PROVE  \E i \in S : Cardinality(Below(S, i)) = k
<1> DEFINE Ranked(T) == \A l \in 0..(Cardinality(T) - 1) :
                          \E i \in T : Cardinality(Below(T, i)) = l
           N == {n \in Nat : \A T \in SUBSET Nat :
                   IsFiniteSet(T) /\ Cardinality(T) = n => Ranked(T)}
<1>1. 0 \in N
  OBVIOUS
<1>2. ASSUME NEW n \in Nat, n \in N
      PROVE  n + 1 \in N
  <2> SUFFICES ASSUME NEW T \in SUBSET Nat, IsFiniteSet(T), Cardinality(T) = n + 1,
                      NEW l \in 0..(Cardinality(T) - 1)
               PROVE  \E i \in T : Cardinality(Below(T, i)) = l
    OBVIOUS
  <2>1. T # {}
    BY FS_EmptySet
  <2>2. PICK m \in T : \A y \in T : m <= y
    BY <2>1, LeastNatural
  <2>3. CASE l = 0
    <3>1. ASSUME NEW y \in T
          PROVE  ~(y < m)
      <4>1. y \in Nat /\ m \in Nat /\ m <= y
        BY <2>2
      <4> QED
        BY <4>1
    <3>2. Below(T, m) = {}
      BY <3>1, Zenon DEF Below
    <3> QED
      BY <2>3, <3>2, FS_EmptySet, Zenon
  <2>4. CASE l # 0
    <3> DEFINE R == T \ {m}
    <3>1. IsFiniteSet(R) /\ Cardinality(R) = n /\ R \in SUBSET Nat
      <4>1. IsFiniteSet(T \ {m}) /\ Cardinality(T \ {m}) = Cardinality(T) - 1
        BY FS_RemoveElement, Zenon
      <4> QED
        BY <4>1
    <3>2. l - 1 \in 0..(Cardinality(R) - 1)
      BY <2>4, <3>1
    <3>3. PICK i \in R : Cardinality(Below(R, i)) = l - 1
      <4> HIDE DEF R
      <4> QED
        BY <1>2, <3>1, <3>2
    <3>4. Below(T, i) = Below(R, i) \cup {m} /\ m \notin Below(R, i)
      <4>1. i \in Nat /\ m \in Nat /\ m <= i /\ i # m
        BY <2>2, <3>3
      <4> QED
        BY <4>1 DEF Below
    <3>5. IsFiniteSet(Below(R, i))
      BY <3>1, <3>3, BelowFinite
    <3>6. Cardinality(Below(R, i) \cup {m}) = Cardinality(Below(R, i)) + 1
      BY <3>4, <3>5, FS_AddElement, Zenon
    <3> QED
      BY <3>3, <3>4, <3>6
  <2> QED
    BY <2>3, <2>4
<1> HIDE DEF N
<1>3. Cardinality(S) \in N
  BY <1>1, <1>2, Induction, FS_CardinalityType, Zenon
<1> QED
  BY <1>3 DEF N

(* InOrder lists each element of a finite set once, the smaller first.     *)
LEMMA InOrderIs ==
  ASSUME NEW S \in SUBSET Nat, IsFiniteSet(S)
  PROVE  /\ Cardinality(S) \in Nat
         /\ DOMAIN InOrder(S) = 1..Cardinality(S)
         /\ \A k \in 1..Cardinality(S) :
              /\ InOrder(S)[k] \in S
              /\ Cardinality(Below(S, InOrder(S)[k])) = k - 1
         /\ \A k, l \in 1..Cardinality(S) : k < l => InOrder(S)[k] < InOrder(S)[l]
         /\ \A i \in S : \E k \in 1..Cardinality(S) : InOrder(S)[k] = i
<1>1. Cardinality(S) \in Nat
  BY FS_CardinalityType
<1>2. DOMAIN InOrder(S) = 1..Cardinality(S)
  BY DEF InOrder
<1>3. ASSUME NEW k \in 1..Cardinality(S)
      PROVE  InOrder(S)[k] \in S /\ Cardinality(Below(S, InOrder(S)[k])) = k - 1
  <2>1. k - 1 \in 0..(Cardinality(S) - 1)
    BY <1>1
  <2>2. \E i \in S : Cardinality(Below(S, i)) = k - 1
    BY <2>1, RankExists
  <2> QED
    BY <2>2 DEF InOrder
<1>4. ASSUME NEW k \in 1..Cardinality(S), NEW l \in 1..Cardinality(S), k < l
      PROVE  InOrder(S)[k] < InOrder(S)[l]
  <2> DEFINE i == InOrder(S)[k]  j == InOrder(S)[l]
  <2>1. i \in S /\ j \in S /\ Cardinality(Below(S, i)) = k - 1
        /\ Cardinality(Below(S, j)) = l - 1
    BY <1>3
  <2>2. i \in Nat /\ j \in Nat
    BY <2>1, Zenon
  <2> HIDE DEF i, j
  <2>3. ~(j < i) /\ i # j
    BY <1>1, <1>4, <2>1, <2>2, BelowGrows
  <2>4. i < j
    BY <2>2, <2>3
  <2> QED
    BY <2>4 DEF i, j
<1>5. ASSUME NEW i \in S
      PROVE  \E k \in 1..Cardinality(S) : InOrder(S)[k] = i
  <2> DEFINE k == Cardinality(Below(S, i)) + 1
  <2>1. k \in 1..Cardinality(S)
    BY <1>1, BelowFinite
  <2>2. InOrder(S)[k] \in S /\ Cardinality(Below(S, InOrder(S)[k])) = Cardinality(Below(S, i))
    BY <1>3, <2>1, BelowFinite
  <2>3. InOrder(S)[k] \in Nat /\ i \in Nat
    BY <2>2, Zenon
  <2> HIDE DEF k
  <2>4. Cardinality(Below(S, i)) \in Nat
    BY BelowFinite
  <2>5. ~(InOrder(S)[k] < i) /\ ~(i < InOrder(S)[k])
    <3> DEFINE j == InOrder(S)[k]
    <3>1. j \in S
      BY <2>2
    <3> HIDE DEF j
    <3>2. j < i => Cardinality(Below(S, j)) < Cardinality(Below(S, i))
      BY <3>1, BelowGrows
    <3>3. i < j => Cardinality(Below(S, i)) < Cardinality(Below(S, j))
      BY <3>1, BelowGrows
    <3> QED
      BY <2>2, <2>4, <3>2, <3>3 DEF j
  <2> QED
    BY <2>1, <2>3, <2>5
<1> QED
  BY <1>1, <1>2, <1>3, <1>4, <1>5

(* The numbers from 1 to n are listed as they are.                         *)
LEMMA InOrderOfInterval ==
  ASSUME NEW n \in Nat
  PROVE  Cardinality(1..n) = n /\ InOrder(1..n) = [k \in 1..n |-> k]
<1>1. IsFiniteSet(1..n) /\ Cardinality(1..n) = n
  BY FS_Interval
<1>2. ASSUME NEW i \in 1..n
      PROVE  Cardinality(Below(1..n, i)) = i - 1
  <2>1. Below(1..n, i) = 1..(i - 1)
    BY DEF Below
  <2>2. Cardinality(1..(i - 1)) = i - 1
    BY FS_Interval
  <2> QED
    BY <2>1, <2>2
<1>3. ASSUME NEW k \in 1..n
      PROVE  InOrder(1..n)[k] = k
  <2>1. InOrder(1..n)[k] \in 1..n /\ Cardinality(Below(1..n, InOrder(1..n)[k])) = k - 1
    BY <1>1, InOrderIs
  <2> QED
    BY <1>2, <2>1
<1>4. DOMAIN InOrder(1..n) = 1..n
  BY <1>1 DEF InOrder
<1> QED
  BY <1>1, <1>3, <1>4, Zenon DEF InOrder

-----------------------------------------------------------------------------
(*                     THE STREAM OF AN ANSWER                             *)

(* One half line dispatches its event if it is the last of it.              *)
Consumed(s, half) == IF half.last THEN Dispatch(s, half.event) ELSE s

(* f are the states along the first n bytes, from s on.                     *)
IsRun(f, s, bytes, n) ==
  f = [k \in 0..n |-> IF k = 0 THEN s ELSE Consumed(f[k - 1], bytes[k])]

(* The bytes are consumed one after another: the function that Dispatched  *)
(* is defined with exists, for as many bytes as there are.                 *)
LEMMA RunExists ==
  ASSUME NEW s, NEW bytes
  PROVE  \A n \in Nat : \E f : IsRun(f, s, bytes, n)
<1> DEFINE N == {n \in Nat : \E f : IsRun(f, s, bytes, n)}
<1>1. 0 \in N
  <2> DEFINE g == [k \in 0..0 |-> s]
  <2>1. IsRun(g, s, bytes, 0)
    BY DEF IsRun
  <2> QED
    BY <2>1
<1>2. ASSUME NEW n \in Nat, n \in N
      PROVE  n + 1 \in N
  <2>1. PICK f : IsRun(f, s, bytes, n)
    BY <1>2
  <2> DEFINE g == [k \in 0..(n + 1) |-> IF k = n + 1 THEN Consumed(f[n], bytes[n + 1]) ELSE f[k]]
  <2>2. ASSUME NEW k \in 0..(n + 1)
        PROVE  g[k] = IF k = 0 THEN s ELSE Consumed(g[k - 1], bytes[k])
    BY <2>1 DEF IsRun
  <2>3. IsRun(g, s, bytes, n + 1)
    BY <2>2 DEF IsRun
  <2> QED
    BY <2>3
<1> HIDE DEF N
<1>3. Nat \subseteq N
  BY <1>1, <1>2, Induction
<1> QED
  BY <1>3 DEF N

(* What Dispatched computes is the last value of that function.            *)
LEMMA DispatchedIs ==
  ASSUME NEW s, NEW bytes, Len(bytes) \in Nat
  PROVE  \E f : IsRun(f, s, bytes, Len(bytes)) /\ Dispatched(s, bytes) = f[Len(bytes)]
<1> DEFINE Is(f) == f = [k \in 0..Len(bytes) |->
                           IF k = 0 THEN s
                           ELSE IF bytes[k].last THEN Dispatch(f[k - 1], bytes[k].event)
                           ELSE f[k - 1]]
           f == CHOOSE g : Is(g)
<1>1. \E g : Is(g)
  <2>1. PICK g : IsRun(g, s, bytes, Len(bytes))
    BY RunExists, Zenon
  <2>2. Is(g)
    BY <2>1, Zenon DEF IsRun, Consumed
  <2> QED
    BY <2>2, Zenon
<1>2. Is(f)
  <2> HIDE DEF Is
  <2> QED
    BY <1>1
<1>3. Dispatched(s, bytes) = f[Len(bytes)]
  BY DEF Dispatched
<1>4. IsRun(f, s, bytes, Len(bytes))
  <2> HIDE DEF f
  <2> QED
    BY <1>2, Zenon DEF IsRun, Consumed
<1> HIDE DEF f
<1> QED
  BY <1>3, <1>4

(* Two runs that begin alike stay alike as long as their bytes agree.      *)
LEMMA RunsAgree ==
  ASSUME NEW s, NEW a, NEW b, NEW f, NEW g, NEW m \in Nat, NEW n \in Nat, m <= n,
         IsRun(f, s, a, n), IsRun(g, s, b, m), \A k \in 1..m : a[k] = b[k]
  PROVE  \A k \in 0..m : f[k] = g[k]
<1> DEFINE S == {k \in Nat : k <= m => f[k] = g[k]}
<1>1. 0 \in S
  BY DEF IsRun
<1>2. ASSUME NEW k \in Nat, k \in S
      PROVE  k + 1 \in S
  <2> SUFFICES ASSUME k + 1 <= m PROVE f[k + 1] = g[k + 1]
    OBVIOUS
  <2>1. f[k] = g[k] /\ a[k + 1] = b[k + 1]
    BY <1>2
  <2>2. f[k + 1] = Consumed(f[k], a[k + 1]) /\ g[k + 1] = Consumed(g[k], b[k + 1])
    BY DEF IsRun
  <2> QED
    BY <2>1, <2>2
<1> HIDE DEF S
<1>3. Nat \subseteq S
  BY <1>1, <1>2, Induction
<1> QED
  BY <1>3 DEF S

(* Nothing received changes nothing.                                       *)
LEMMA DispatchedNothing ==
  ASSUME NEW s
  PROVE  Dispatched(s, <<>>) = s
<1>1. PICK f : IsRun(f, s, <<>>, 0) /\ Dispatched(s, <<>>) = f[0]
  BY DispatchedIs
<1> QED
  BY <1>1 DEF IsRun

(* One byte more is consumed after the others.                             *)
LEMMA DispatchedNext ==
  ASSUME NEW s, NEW X, NEW a \in Seq(X), NEW b
  PROVE  Dispatched(s, Append(a, b)) = Consumed(Dispatched(s, a), b)
<1> DEFINE all == Append(a, b)  n == Len(a)
<1>1. /\ Len(all) = n + 1 /\ n \in Nat /\ all[n + 1] = b
      /\ \A k \in 1..n : all[k] = a[k]
  <2>1. a \in Seq(X \cup {b}) /\ b \in X \cup {b}
    OBVIOUS
  <2> QED
    BY <2>1
<1> HIDE DEF all, n
<1>2. PICK f : IsRun(f, s, all, n + 1) /\ Dispatched(s, all) = f[n + 1]
  BY <1>1, DispatchedIs
<1>3. PICK g : IsRun(g, s, a, n) /\ Dispatched(s, a) = g[n]
  BY <1>1, DispatchedIs DEF n
<1>4. f[n] = g[n]
  BY <1>1, <1>2, <1>3, RunsAgree
<1>5. f[n + 1] = Consumed(f[n], all[n + 1])
  BY <1>1, <1>2 DEF IsRun
<1> QED
  BY <1>1, <1>2, <1>3, <1>4, <1>5 DEF all

(* However the bytes are cut into chunks, the result is the same.          *)
LEMMA DispatchedParts ==
  ASSUME NEW s, NEW X, NEW a \in Seq(X), NEW b \in Seq(X)
  PROVE  Dispatched(s, a \o b) = Dispatched(Dispatched(s, a), b)
<1> DEFINE S == {n \in Nat : n <= Len(b) =>
                   Dispatched(s, a \o SubSeq(b, 1, n)) = Dispatched(Dispatched(s, a), SubSeq(b, 1, n))}
<1>1. 0 \in S
  <2>1. SubSeq(b, 1, 0) = <<>> /\ a \o <<>> = a
    OBVIOUS
  <2> QED
    BY <2>1, DispatchedNothing, Zenon
<1>2. ASSUME NEW n \in Nat, n \in S
      PROVE  n + 1 \in S
  <2> SUFFICES ASSUME n + 1 <= Len(b)
               PROVE  Dispatched(s, a \o SubSeq(b, 1, n + 1))
                        = Dispatched(Dispatched(s, a), SubSeq(b, 1, n + 1))
    OBVIOUS
  <2> DEFINE p == SubSeq(b, 1, n)
  <2>1. p \in Seq(X) /\ b[n + 1] \in X
    OBVIOUS
  <2>2. SubSeq(b, 1, n + 1) = Append(p, b[n + 1])
    OBVIOUS
  <2>3. Dispatched(s, a \o p) = Dispatched(Dispatched(s, a), p)
    BY <1>2
  <2> HIDE DEF p
  <2>4. a \o Append(p, b[n + 1]) = Append(a \o p, b[n + 1]) /\ a \o p \in Seq(X)
    BY <2>1
  <2>5. Dispatched(s, Append(a \o p, b[n + 1])) = Consumed(Dispatched(s, a \o p), b[n + 1])
    BY <2>1, <2>4, DispatchedNext, ZenonT(40)
  <2>6. Dispatched(Dispatched(s, a), Append(p, b[n + 1]))
          = Consumed(Dispatched(Dispatched(s, a), p), b[n + 1])
    BY <2>1, DispatchedNext
  <2> QED
    BY <2>2, <2>3, <2>4, <2>5, <2>6, Zenon
<1> HIDE DEF S
<1>3. Len(b) \in S
  BY <1>1, <1>2, Induction
<1>4. SubSeq(b, 1, Len(b)) = b /\ Len(b) <= Len(b)
  OBVIOUS
<1>5. Dispatched(s, a \o SubSeq(b, 1, Len(b))) = Dispatched(Dispatched(s, a), SubSeq(b, 1, Len(b)))
  BY <1>3, <1>4 DEF S
<1> QED
  BY <1>4, <1>5, Zenon

(* A byte alone, and a line.                                               *)
LEMMA DispatchedOne ==
  ASSUME NEW s, NEW b
  PROVE  Dispatched(s, <<b>>) = Consumed(s, b)
<1>1. <<>> \in Seq({b}) /\ Append(<<>>, b) = <<b>>
  OBVIOUS
<1>2. Dispatched(s, Append(<<>>, b)) = Consumed(Dispatched(s, <<>>), b)
  BY <1>1, DispatchedNext, Zenon
<1> QED
  BY <1>1, <1>2, DispatchedNothing, Zenon

(* A line dispatches its event once.                                       *)
LEMMA DispatchedLine ==
  ASSUME NEW s, NEW e
  PROVE  Dispatched(s, Line(e)) = Dispatch(s, e)
<1> DEFINE a == <<Half(e)>>  b == <<Rest(e)>>  X == {Half(e), Rest(e)}
<1>1. Line(e) = a \o b
  BY DEF Line
<1>2. a \in Seq(X) /\ b \in Seq(X)
  OBVIOUS
<1>3. Dispatched(s, a) = s
  BY DispatchedOne DEF Consumed, Half
<1>4. Dispatched(s, b) = Dispatch(s, e)
  BY DispatchedOne DEF Consumed, Rest
<1> HIDE DEF a, b, X
<1>5. Dispatched(s, a \o b) = Dispatched(Dispatched(s, a), b)
  BY <1>2, DispatchedParts
<1> QED
  BY <1>1, <1>3, <1>4, <1>5, Zenon

(* What the stream is made of.                                              *)
CallEvents ==
  [type : {"call", "fragment", "arguments.done", "item.done", "block_stop"},
   index : Calls, args : Nat]
Events == CallEvents \cup [type : {"text", "finish", "error"}, index : {0}, args : {0}]
HalfLines == [event : Events, last : BOOLEAN]
ToolRequests == [index : Nat, args : Nat]
States ==
  [pending : [Calls -> [there : BOOLEAN, args : Nat]], tools : Seq(ToolRequests),
   texts : Nat, stop : {"no", "error"}]
Servers ==
  [texts : Nat, args : Seq(Nat), at : {"between", "arguments"},
   ended : {"no", "finished", "failed", "closed"}]

(* What an answer so far owes the round: the text, the calls that wait for  *)
(* the end of the stream, and the calls that were handed over.              *)
Said == [i \in DOMAIN server.args |-> [index |-> i, args |-> server.args[i]]]
Pending(args) ==
  [i \in Calls |-> IF i \in DOMAIN args THEN Waiting(args[i]) ELSE NoCall]
Closed == IF server.at = "arguments" THEN Current - 1 ELSE Current
Owed ==
  [pending |-> IF server.ended = "finished" THEN Fresh.pending ELSE Pending(server.args),
   tools |-> IF server.ended = "finished" THEN Said
             ELSE IF protocol = "responses" /\ Closed # 0
             THEN <<[index |-> Closed, args |-> server.args[Closed]]>>
             ELSE <<>>,
   texts |-> server.texts,
   stop |-> IF server.ended = "failed" THEN "error" ELSE "no"]

StreamTypes ==
  /\ server \in Servers /\ Len(server.args) <= MaxCalls
  /\ server.at = "arguments" => Len(server.args) # 0
  /\ server.ended \in {"finished", "closed"} => server.at = "between"
  /\ server.ended = "closed" => protocol # "bedrock"
  /\ wire \in Seq(HalfLines) /\ buffer \in Seq(HalfLines)
  /\ Len(buffer) <= 1 /\ \A k \in DOMAIN buffer : ~buffer[k].last
  /\ state \in States

(* What has been received, once the rest of the bytes is consumed, is what  *)
(* the answer owes.                                                         *)
StreamInv ==
  /\ protocol = "none" => server = Silent /\ wire = <<>> /\ buffer = <<>> /\ state = Fresh
  /\ Receiving => StreamTypes /\ Dispatched(state, buffer \o wire) = Owed
  /\ AnswerIsWhole

(* What waits is a call with its arguments.                                 *)
LEMMA WaitingIs ==
  ASSUME NEW n \in Nat
  PROVE  /\ Waiting(n) \in [there : BOOLEAN, args : Nat]
         /\ Waiting(n).there /\ Waiting(n).args = n
BY DEF Waiting

(* A set of call numbers is finite.                                         *)
LEMMA CallsAreFinite ==
  ASSUME MaxCalls \in Nat, NEW S \in SUBSET Calls
  PROVE  S \in SUBSET Nat /\ IsFiniteSet(S) /\ Cardinality(S) \in Nat
<1>1. IsFiniteSet(Calls)
  BY FS_Interval DEF Calls
<1>2. IsFiniteSet(S)
  BY <1>1, FS_Subset
<1> QED
  BY <1>2, FS_CardinalityType DEF Calls

(* Flushing hands over a sequence of calls.                                 *)
LEMMA FlushTyped ==
  ASSUME MaxCalls \in Nat, NEW s \in States
  PROVE  FlushPendingToolCalls(s) \in States
<1> DEFINE S == {i \in Calls : s.pending[i].there}
           ready == InOrder(S)
           calls == [k \in DOMAIN ready |-> Call(s, ready[k])]
<1>1. S \in SUBSET Calls
  OBVIOUS
<1> HIDE DEF S
<1>2. S \in SUBSET Nat /\ IsFiniteSet(S) /\ Cardinality(S) \in Nat
  BY <1>1, CallsAreFinite
<1>3. DOMAIN ready = 1..Cardinality(S) /\ \A k \in 1..Cardinality(S) : ready[k] \in Calls
  BY <1>1, <1>2, InOrderIs, Zenon
<1> HIDE DEF ready
<1>4. \A k \in 1..Cardinality(S) : Call(s, ready[k]) \in ToolRequests
  BY <1>3 DEF Call, States, ToolRequests, Calls
<1>5. calls \in Seq(ToolRequests)
  BY <1>2, <1>3, <1>4
<1>6. Fresh.pending \in [Calls -> [there : BOOLEAN, args : Nat]]
  BY DEF Fresh, NoCall
<1> HIDE DEF calls
<1>7. Requested([s EXCEPT !.pending = Fresh.pending], calls) \in States
  BY <1>5, <1>6, Zenon DEF Requested, States
<1> QED
  BY <1>7 DEF FlushPendingToolCalls, calls, ready, S

(* An event keeps the state of the stream a state of the stream.            *)
LEMMA DispatchTyped ==
  ASSUME MaxCalls \in Nat, NEW s \in States, NEW e \in Events
  PROVE  Dispatch(s, e) \in States
<1>1. CASE e.type = "finish"
  BY <1>1, FlushTyped DEF Dispatch
<1>2. CASE e.type = "arguments.done"
  <2>1. e.index \in Calls /\ e.args \in Nat /\ e.index \in Nat
    BY <1>2 DEF Events, CallEvents, Calls
  <2> DEFINE w == WithWhole(s, e)
  <2>2. w \in States /\ w.pending[e.index].args \in Nat
    BY <2>1, WaitingIs, Zenon DEF WithWhole, States
  <2> HIDE DEF w
  <2>3. <<Call(w, e.index)>> \in Seq(ToolRequests)
    BY <2>1, <2>2 DEF Call, ToolRequests
  <2>4. NoCall \in [there : BOOLEAN, args : Nat]
    BY DEF NoCall
  <2>5. FlushPendingToolCall(w, e.index) \in States
    BY <2>2, <2>3, <2>4, Zenon DEF FlushPendingToolCall, Requested, States
  <2> QED
    BY <1>2, <2>5 DEF Dispatch, w
<1>3. CASE e.type = "item.done"
  <2>1. e.args \in Nat
    BY <1>3 DEF Events, CallEvents
  <2>2. WithWhole(s, e) \in States
    BY <2>1, WaitingIs, Zenon DEF WithWhole, States
  <2> QED
    BY <1>3, <2>2 DEF Dispatch, AccumulateOutputItem
<1>4. CASE e.type = "fragment"
  <2>1. e.index \in Calls
    BY <1>4 DEF Events, CallEvents
  <2> DEFINE a == s.pending[e.index].args + 1
  <2>2. a \in Nat
    BY <2>1 DEF States
  <2> DEFINE p == [s.pending EXCEPT ![e.index] = Waiting(a)]
  <2>3. Accumulated(s, e) = [s EXCEPT !.pending = p]
    BY DEF Accumulated
  <2> HIDE DEF a
  <2>5. s.pending \in [Calls -> [there : BOOLEAN, args : Nat]]
    BY DEF States
  <2>6. p \in [Calls -> [there : BOOLEAN, args : Nat]]
    BY <2>2, <2>5, WaitingIs, Zenon
  <2> HIDE DEF p
  <2>4. Accumulated(s, e) \in States
    BY <2>3, <2>6, Zenon DEF States
  <2> QED
    BY <1>4, <2>4 DEF Dispatch
<1>5. CASE e.type = "call"
  <2>1. e.index \in Calls
    BY <1>5 DEF Events, CallEvents
  <2> DEFINE a == s.pending[e.index].args
             p == [s.pending EXCEPT ![e.index] = Waiting(a)]
  <2>3. a \in Nat /\ s.pending \in [Calls -> [there : BOOLEAN, args : Nat]]
    BY <2>1 DEF States
  <2>4. Opened(s, e) = [s EXCEPT !.pending = p]
    BY DEF Opened
  <2> HIDE DEF a
  <2>5. p \in [Calls -> [there : BOOLEAN, args : Nat]]
    BY <2>3, WaitingIs, Zenon
  <2> HIDE DEF p
  <2>2. Opened(s, e) \in States
    BY <2>4, <2>5, Zenon DEF States
  <2> QED
    BY <1>5, <2>2 DEF Dispatch
<1>6. CASE e.type \in {"text", "block_stop", "error"}
  BY <1>6, SMTT(30) DEF Dispatch, States
<1> QED
  BY <1>1, <1>2, <1>3, <1>4, <1>5, <1>6 DEF Events, CallEvents

(* So do any number of bytes.                                               *)
LEMMA DispatchedTyped ==
  ASSUME MaxCalls \in Nat, NEW s \in States, NEW bytes \in Seq(HalfLines)
  PROVE  Dispatched(s, bytes) \in States
<1> DEFINE S == {n \in Nat : n <= Len(bytes) => Dispatched(s, SubSeq(bytes, 1, n)) \in States}
<1>1. 0 \in S
  <2>1. SubSeq(bytes, 1, 0) = <<>>
    OBVIOUS
  <2> QED
    BY <2>1, DispatchedNothing, Zenon
<1>2. ASSUME NEW n \in Nat, n \in S
      PROVE  n + 1 \in S
  <2> SUFFICES ASSUME n + 1 <= Len(bytes)
               PROVE  Dispatched(s, SubSeq(bytes, 1, n + 1)) \in States
    OBVIOUS
  <2> DEFINE p == SubSeq(bytes, 1, n)
             t == Dispatched(s, p)
             b == bytes[n + 1]
  <2>1. p \in Seq(HalfLines) /\ b \in HalfLines
    OBVIOUS
  <2>2. SubSeq(bytes, 1, n + 1) = Append(p, b)
    OBVIOUS
  <2>3. t \in States
    BY <1>2
  <2> HIDE DEF p, t, b
  <2>4. Dispatched(s, Append(p, b)) = Consumed(t, b)
    BY <2>1, DispatchedNext DEF t
  <2>5. b.event \in Events
    BY <2>1 DEF HalfLines
  <2>6. Consumed(t, b) \in States
    BY <2>3, <2>5, DispatchTyped DEF Consumed
  <2> QED
    BY <2>2, <2>4, <2>6, Zenon
<1> HIDE DEF S
<1>3. Len(bytes) \in S
  BY <1>1, <1>2, Induction
<1>4. SubSeq(bytes, 1, Len(bytes)) = bytes /\ Len(bytes) <= Len(bytes)
  OBVIOUS
<1>5. Dispatched(s, SubSeq(bytes, 1, Len(bytes))) \in States
  BY <1>3, <1>4 DEF S
<1> QED
  BY <1>4, <1>5, Zenon

(* Flushing hands over the pending calls in the order of their numbers.     *)
LEMMA FlushedInOrder ==
  ASSUME MaxCalls \in Nat, NEW s \in States, NEW args \in Seq(Nat), Len(args) <= MaxCalls,
         s.pending = Pending(args)
  PROVE  FlushPendingToolCalls(s)
           = Requested([s EXCEPT !.pending = Fresh.pending],
                       [i \in DOMAIN args |-> [index |-> i, args |-> args[i]]])
<1>1. {i \in Calls : s.pending[i].there} = 1..Len(args)
  BY WaitingIs DEF Pending, NoCall, Calls
<1>2. InOrder(1..Len(args)) = [k \in 1..Len(args) |-> k] /\ DOMAIN args = 1..Len(args)
  BY InOrderOfInterval
<1>3. \A i \in DOMAIN args : Call(s, i) = [index |-> i, args |-> args[i]]
  BY WaitingIs DEF Call, Pending, Calls
<1> DEFINE ready == InOrder({i \in Calls : s.pending[i].there})
<1>4. ready = [k \in DOMAIN args |-> k]
  BY <1>1, <1>2, Zenon
<1> HIDE DEF ready
<1>5. [k \in DOMAIN ready |-> Call(s, ready[k])]
        = [i \in DOMAIN args |-> [index |-> i, args |-> args[i]]]
  BY <1>3, <1>4
<1> QED
  BY <1>5, Zenon DEF FlushPendingToolCalls, ready

(* A call that opens waits without arguments.                               *)
LEMMA PendingOpens ==
  ASSUME MaxCalls \in Nat, NEW args \in Seq(Nat), NEW n, n = Len(args), n < MaxCalls
  PROVE  /\ n + 1 \in Calls /\ Append(args, 0) \in Seq(Nat) /\ Len(Append(args, 0)) = n + 1
         /\ \A i \in 1..n : Append(args, 0)[i] = args[i]
         /\ Pending(Append(args, 0))
              = [Pending(args) EXCEPT ![n + 1] = Waiting(@.args)]
<1> DEFINE p == Pending(args)
           more == Append(args, 0)
           q == Waiting(0)
<1>1. /\ n \in Nat /\ n + 1 \in Calls /\ more \in Seq(Nat) /\ Len(more) = n + 1
      /\ DOMAIN more = 1..(n + 1) /\ DOMAIN args = 1..n
      /\ more[n + 1] = 0 /\ \A i \in 1..n : more[i] = args[i]
  BY DEF Calls
<1> HIDE DEF more
<1>2. p[n + 1].args = 0
  BY <1>1 DEF Pending, NoCall
<1>3. Pending(more) = [i \in Calls |-> Pending(more)[i]] /\ p = [i \in Calls |-> p[i]]
  BY DEF Pending
<1>4. Pending(more)[n + 1] = q
  BY <1>1 DEF Pending
<1>5. ASSUME NEW i \in Calls, i # n + 1
      PROVE  Pending(more)[i] = p[i]
  <2>1. i \in 1..(n + 1) <=> i \in 1..n
    BY <1>1, <1>5 DEF Calls
  <2> QED
    BY <1>1, <2>1 DEF Pending
<1> HIDE DEF p, q
<1>6. Pending(more) = [p EXCEPT ![n + 1] = q]
  BY <1>1, <1>3, <1>4, <1>5
<1> QED
  BY <1>1, <1>2, <1>6 DEF p, q, more

(* A fragment is one more of the arguments that wait.                       *)
LEMMA PendingGrows ==
  ASSUME MaxCalls \in Nat, NEW args \in Seq(Nat), NEW n, n = Len(args), n <= MaxCalls, n # 0,
         NEW more, more = [args EXCEPT ![n] = @ + 1]
  PROVE  /\ n \in Calls /\ more \in Seq(Nat) /\ Len(more) = n
         /\ n - 1 # 0 => more[n - 1] = args[n - 1]
         /\ Pending(more) = [Pending(args) EXCEPT ![n] = Waiting(@.args + 1)]
<1> DEFINE p == Pending(args)
           q == Waiting(args[n] + 1)
<1>1. /\ n \in Nat /\ n \in Calls /\ more \in Seq(Nat) /\ Len(more) = n
      /\ DOMAIN more = 1..n /\ DOMAIN args = 1..n
      /\ more[n] = args[n] + 1 /\ \A i \in 1..(n - 1) : more[i] = args[i]
  BY DEF Calls
<1>7. n - 1 # 0 => n - 1 \in 1..(n - 1)
  BY <1>1
<1>2. p[n].args = args[n]
  BY <1>1, WaitingIs DEF Pending
<1>3. Pending(more) = [i \in Calls |-> Pending(more)[i]] /\ p = [i \in Calls |-> p[i]]
  BY DEF Pending
<1>4. Pending(more)[n] = q
  BY <1>1 DEF Pending
<1>5. ASSUME NEW i \in Calls, i # n
      PROVE  Pending(more)[i] = p[i]
  <2>1. i \in 1..n <=> i \in 1..(n - 1)
    BY <1>1, <1>5 DEF Calls
  <2> QED
    BY <1>1, <2>1 DEF Pending
<1> HIDE DEF p, q
<1>6. Pending(more) = [p EXCEPT ![n] = q]
  BY <1>1, <1>3, <1>4, <1>5, Zenon
<1> QED
  BY <1>1, <1>2, <1>6, <1>7 DEF p, q

(* Its whole arguments are the arguments that wait.                         *)
LEMMA PendingIsWhole ==
  ASSUME MaxCalls \in Nat, NEW args \in Seq(Nat), Len(args) <= MaxCalls, NEW i \in DOMAIN args
  PROVE  /\ i \in Calls /\ Pending(args)[i] = Waiting(args[i])
         /\ [Pending(args) EXCEPT ![i] = Waiting(args[i])] = Pending(args)
         /\ [[Pending(args) EXCEPT ![i] = NoCall] EXCEPT ![i] = Waiting(args[i])]
              = Pending(args)
<1> DEFINE p == Pending(args)
           q == Waiting(args[i])
<1>1. i \in Calls
  BY DEF Calls
<1>2. p[i] = q /\ p = [k \in Calls |-> p[k]]
  BY <1>1 DEF Pending
<1> HIDE DEF p, q
<1>3. [p EXCEPT ![i] = q] = p
  BY <1>1, <1>2
<1>4. [[p EXCEPT ![i] = NoCall] EXCEPT ![i] = q] = p
  BY <1>1, <1>2
<1> QED
  BY <1>1, <1>2, <1>3, <1>4 DEF p, q

(* A line of an event of the protocol is two halves of lines.               *)
LEMMA LineTyped ==
  ASSUME NEW e \in Events
  PROVE  Line(e) \in Seq(HalfLines)
<1>1. Half(e) \in HalfLines /\ Rest(e) \in HalfLines
  BY DEF Half, Rest, HalfLines
<1> QED
  BY <1>1 DEF Line

(* What an answer owes is a state of the stream.                            *)
LEMMA OwedTyped ==
  ASSUME MaxCalls \in Nat, StreamTypes
  PROVE  Owed \in States
<1>1. server \in Servers /\ Len(server.args) <= MaxCalls /\ server.args \in Seq(Nat)
  BY DEF StreamTypes, Servers
<1>2. Pending(server.args) \in [Calls -> [there : BOOLEAN, args : Nat]]
  BY <1>1, WaitingIs DEF Pending, NoCall
<1>3. Fresh.pending \in [Calls -> [there : BOOLEAN, args : Nat]]
  BY DEF Fresh, NoCall
<1>4. Said \in Seq(ToolRequests)
  <2>1. DOMAIN server.args = 1..Len(server.args) /\ Len(server.args) \in Nat
    BY <1>1
  <2>2. \A i \in 1..Len(server.args) : [index |-> i, args |-> server.args[i]] \in ToolRequests
    BY <1>1 DEF ToolRequests
  <2> QED
    BY <2>1, <2>2 DEF Said
<1>5. ASSUME Closed # 0
      PROVE  <<[index |-> Closed, args |-> server.args[Closed]]>> \in Seq(ToolRequests)
  <2>1. Closed \in Nat /\ Closed <= Len(server.args)
    BY <1>1 DEF Closed, Current, StreamTypes
  <2>2. server.args[Closed] \in Nat
    BY <1>1, <1>5, <2>1
  <2> QED
    BY <2>1, <2>2 DEF ToolRequests
<1>6. Owed.tools \in Seq(ToolRequests)
  <2>1. <<>> \in Seq(ToolRequests)
    OBVIOUS
  <2>2. Owed.tools = IF server.ended = "finished" THEN Said
                     ELSE IF protocol = "responses" /\ Closed # 0
                     THEN <<[index |-> Closed, args |-> server.args[Closed]]>>
                     ELSE <<>>
    BY DEF Owed
  <2> QED
    BY <1>4, <1>5, <2>1, <2>2, Zenon
<1>7. Owed.texts \in Nat /\ Owed.stop \in {"no", "error"}
  BY <1>1 DEF Owed, Servers
<1>8. Owed.pending \in [Calls -> [there : BOOLEAN, args : Nat]]
  BY <1>2, <1>3 DEF Owed
<1>9. Owed = [pending |-> Owed.pending, tools |-> Owed.tools, texts |-> Owed.texts,
              stop |-> Owed.stop]
  BY DEF Owed
<1> HIDE DEF Owed
<1> QED
  BY <1>6, <1>7, <1>8, <1>9 DEF States

(* What the server emits is dispatched after what was on its way.           *)
LEMMA Emitted ==
  ASSUME StreamInv, Speaking, NEW lines \in Seq(HalfLines),
         wire' = wire \o lines, UNCHANGED <<protocol, buffer, state, attempt>>,
         server' \in Servers, Len(server'.args) <= MaxCalls,
         server'.at = "arguments" => Len(server'.args) # 0,
         server'.ended \in {"finished", "closed"} => server'.at = "between",
         server'.ended = "closed" => protocol # "bedrock",
         Dispatched(Owed, lines) = Owed'
  PROVE  StreamInv'
<1>1. Receiving /\ Receiving' /\ state'.stop = "no" /\ protocol' # "none"
  BY DEF Speaking, Receiving
<1>2. StreamTypes /\ Dispatched(state, buffer \o wire) = Owed
  BY <1>1 DEF StreamInv
<1>3. buffer \in Seq(HalfLines) /\ wire \in Seq(HalfLines)
  BY <1>2 DEF StreamTypes
<1>4. buffer \o (wire \o lines) = (buffer \o wire) \o lines /\ buffer \o wire \in Seq(HalfLines)
      /\ wire \o lines \in Seq(HalfLines)
  BY <1>3
<1>5. Dispatched(state', buffer' \o wire') = Owed'
  <2> DEFINE before == buffer \o wire
  <2>3. before \in Seq(HalfLines)
    BY <1>4
  <2> HIDE DEF before
  <2>4. Dispatched(state, before \o lines) = Dispatched(Dispatched(state, before), lines)
    BY <2>3, DispatchedParts
  <2>1. Dispatched(state, (buffer \o wire) \o lines)
          = Dispatched(Dispatched(state, buffer \o wire), lines)
    BY <2>4, Zenon DEF before
  <2>2. Dispatched(state, buffer \o (wire \o lines)) = Owed'
    BY <1>2, <1>4, <2>1, Zenon
  <2> QED
    BY <2>2
<1>6. StreamTypes'
  BY <1>2, <1>4 DEF StreamTypes
<1>7. AnswerIsWhole'
  BY <1>1 DEF AnswerIsWhole
<1> QED
  BY <1>1, <1>5, <1>6, <1>7 DEF StreamInv

(* Each thing the model says becomes what the round is owed.                *)
LEMMA ServerSays ==
  ASSUME MaxCalls \in Nat, StreamInv,
         \/ ServerText \/ ServerOpensCall \/ ServerFragment \/ ServerClosesCall
         \/ ServerFinishes \/ ServerFails \/ ServerCloses
  PROVE  StreamInv'
<1>0. Speaking /\ Receiving /\ StreamTypes
  BY DEF ServerText, ServerOpensCall, ServerFragment, ServerClosesCall, ServerFinishes,
         ServerFails, ServerCloses, Speaking, Receiving, StreamInv
<1>1. /\ server \in Servers /\ server.args \in Seq(Nat) /\ server.texts \in Nat
      /\ server.ended = "no" /\ Len(server.args) \in Nat /\ Len(server.args) <= MaxCalls
      /\ server.at = "arguments" => Len(server.args) # 0
      /\ server = [texts |-> server.texts, args |-> server.args, at |-> server.at,
                   ended |-> server.ended]
  BY <1>0 DEF StreamTypes, Servers, Speaking
<1>2. Owed \in States
  BY <1>0, OwedTyped
<1>3. Owed = [pending |-> Pending(server.args),
              tools |-> IF protocol = "responses" /\ Closed # 0
                        THEN <<[index |-> Closed, args |-> server.args[Closed]]>>
                        ELSE <<>>,
              texts |-> server.texts, stop |-> "no"]
  BY <1>1 DEF Owed
<1>4. CASE ServerText
  <2> DEFINE e == Event("text", 0, 0)
  <2>1. /\ server' = [server EXCEPT !.texts = @ + 1] /\ wire' = wire \o Line(e)
        /\ UNCHANGED <<protocol, buffer, state, attempt>>
    BY <1>4 DEF ServerText, Emits
  <2>2. e \in Events /\ e.type = "text"
    BY DEF Events, Event
  <2> HIDE DEF e
  <2>3. Dispatched(Owed, Line(e)) = [Owed EXCEPT !.texts = @ + 1]
    BY <2>2, DispatchedLine DEF Dispatch
  <2>4. Owed' = [Owed EXCEPT !.texts = @ + 1]
    BY <1>1, <1>3, <2>1 DEF Owed, Closed, Current
  <2>5. server' \in Servers
    BY <1>1, <2>1, SMTT(30) DEF Servers
  <2> QED
    BY <1>0, <1>1, <2>1, <2>2, <2>3, <2>4, <2>5, LineTyped, Emitted, Zenon
<1>5. CASE ServerOpensCall
  <2> DEFINE n == Current
             e == Event("call", n + 1, 0)
             more == Append(server.args, 0)
  <2>1. /\ server' = [server EXCEPT !.args = more, !.at = "arguments"]
        /\ wire' = wire \o Line(e) /\ server.at = "between" /\ n < MaxCalls
        /\ UNCHANGED <<protocol, buffer, state, attempt>>
    BY <1>5 DEF ServerOpensCall, Emits
  <2>2. n = Len(server.args) /\ n \in Nat
    BY <1>1 DEF Current
  <2>3. /\ n + 1 \in Calls /\ more \in Seq(Nat) /\ Len(more) = n + 1
        /\ \A i \in 1..n : more[i] = server.args[i]
        /\ Pending(more)
             = [Pending(server.args) EXCEPT ![n + 1] = Waiting(@.args)]
    <3> HIDE DEF n
    <3> QED
      BY <1>1, <2>1, <2>2, PendingOpens
  <2>4. e \in Events /\ e.type = "call" /\ e.index = n + 1
    BY <2>3 DEF Events, CallEvents, Event
  <2> HIDE DEF e, more
  <2>5. Dispatched(Owed, Line(e))
          = [Owed EXCEPT !.pending[n + 1] = Waiting(@.args)]
    BY <2>4, DispatchedLine DEF Dispatch, Opened
  <2>6. /\ server' = [texts |-> server.texts, args |-> more, at |-> "arguments", ended |-> "no"]
        /\ server'.texts = server.texts /\ server'.args = more
        /\ server'.at = "arguments" /\ server'.ended = "no"
    BY <1>1, <2>1, Zenon
  <2>7. Closed = n /\ Closed' = n /\ (n # 0 => more[n] = server.args[n])
    <3>1. Closed = n
      BY <2>1 DEF Closed
    <3>2. Closed' = Len(more) - 1
      BY <2>6 DEF Closed, Current
    <3> HIDE DEF n
    <3> QED
      BY <2>2, <2>3, <3>1, <3>2
  <2>8. Owed' = [pending |-> Pending(more),
                 tools |-> IF protocol = "responses" /\ n # 0
                           THEN <<[index |-> n, args |-> more[n]]>> ELSE <<>>,
                 texts |-> server.texts, stop |-> "no"]
    BY <2>1, <2>6, <2>7 DEF Owed
  <2>9. Owed' = [Owed EXCEPT !.pending[n + 1] = Waiting(@.args)]
    BY <1>3, <2>3, <2>7, <2>8
  <2>10. server' \in Servers /\ Len(server'.args) <= MaxCalls /\ Len(server'.args) # 0
    <3> HIDE DEF n
    <3> QED
      BY <1>1, <2>1, <2>2, <2>3, <2>6 DEF Servers
  <2>11. server'.at # "between" /\ server'.ended = "no"
    BY <2>6
  <2> QED
    BY <1>0, <2>1, <2>4, <2>5, <2>9, <2>10, <2>11, LineTyped, Emitted, Zenon
<1>6. CASE ServerFragment
  <2> DEFINE n == Current
             e == Event("fragment", n, 0)
             more == [server.args EXCEPT ![n] = @ + 1]
  <2>1. /\ server' = [server EXCEPT !.args = more] /\ wire' = wire \o Line(e)
        /\ server.at = "arguments" /\ UNCHANGED <<protocol, buffer, state, attempt>>
    BY <1>6 DEF ServerFragment, Emits
  <2>2. n = Len(server.args) /\ n \in Nat /\ n # 0 /\ n <= MaxCalls
    BY <1>1, <2>1 DEF Current
  <2>3. /\ n \in Calls /\ more \in Seq(Nat) /\ Len(more) = n
        /\ n - 1 # 0 => more[n - 1] = server.args[n - 1]
        /\ Pending(more) = [Pending(server.args) EXCEPT ![n] = Waiting(@.args + 1)]
    <3>1. more = [server.args EXCEPT ![n] = @ + 1]
      OBVIOUS
    <3> HIDE DEF n, more
    <3> QED
      BY <1>1, <2>2, <3>1, PendingGrows
  <2>4. e \in Events /\ e.type = "fragment" /\ e.index = n
    BY <2>3 DEF Events, CallEvents, Event
  <2> HIDE DEF e, more
  <2>5. Dispatched(Owed, Line(e)) = [Owed EXCEPT !.pending[n] = Waiting(@.args + 1)]
    BY <2>4, DispatchedLine DEF Dispatch, Accumulated
  <2>6. /\ server' = [texts |-> server.texts, args |-> more, at |-> "arguments", ended |-> "no"]
        /\ server'.texts = server.texts /\ server'.args = more
        /\ server'.at = "arguments" /\ server'.ended = "no"
    BY <1>1, <2>1, Zenon
  <2>7. Closed = n - 1 /\ Closed' = n - 1 /\ (n - 1 # 0 => more[n - 1] = server.args[n - 1])
    <3>1. Closed = n - 1
      BY <2>1 DEF Closed
    <3>2. Closed' = Len(more) - 1
      BY <2>6 DEF Closed, Current
    <3> HIDE DEF n
    <3>3. Closed' = n - 1
      BY <2>3, <3>2
    <3> QED
      BY <2>3, <3>1, <3>3
  <2>8. Owed' = [pending |-> Pending(more),
                 tools |-> IF protocol = "responses" /\ n - 1 # 0
                           THEN <<[index |-> n - 1, args |-> more[n - 1]]>> ELSE <<>>,
                 texts |-> server.texts, stop |-> "no"]
    BY <2>1, <2>6, <2>7 DEF Owed
  <2>9. Owed' = [Owed EXCEPT !.pending[n] = Waiting(@.args + 1)]
    BY <1>3, <2>3, <2>7, <2>8
  <2>10. server' \in Servers /\ Len(server'.args) <= MaxCalls /\ Len(server'.args) # 0
    <3> HIDE DEF n
    <3> QED
      BY <1>1, <2>1, <2>2, <2>3, <2>6, Zenon DEF Servers
  <2>11. server'.at # "between" /\ server'.ended = "no"
    BY <2>6
  <2> QED
    BY <1>0, <2>1, <2>4, <2>5, <2>9, <2>10, <2>11, LineTyped, Emitted, Zenon
<1>7. CASE ServerClosesCall
  <2> DEFINE n == Current
             whole == server.args[n]
             done == Event("arguments.done", n, whole)
             item == Event("item.done", n, whole)
             stop == Event("block_stop", n, 0)
             lines == IF protocol = "responses" THEN Line(done) \o Line(item)
                      ELSE IF protocol = "bedrock" THEN Line(stop) ELSE <<>>
  <2>1. /\ server' = [server EXCEPT !.at = "between"] /\ wire' = wire \o lines
        /\ server.at = "arguments" /\ UNCHANGED <<protocol, buffer, state, attempt>>
    BY <1>7 DEF ServerClosesCall, Emits
  <2>2. n = Len(server.args) /\ n \in DOMAIN server.args /\ n \in Calls /\ n # 0 /\ n \in Nat
        /\ whole \in Nat
    BY <1>1, <2>1 DEF Current, Calls
  <2>3. Pending(server.args)[n] = Waiting(whole)
        /\ [[Pending(server.args) EXCEPT ![n] = NoCall] EXCEPT ![n] = Waiting(whole)]
             = Pending(server.args)
        /\ [[[Pending(server.args) EXCEPT ![n] = Waiting(whole)] EXCEPT ![n] = NoCall]
              EXCEPT ![n] = Waiting(whole)] = Pending(server.args)
    <3>1. /\ Pending(server.args)[n] = Waiting(whole)
          /\ [Pending(server.args) EXCEPT ![n] = Waiting(whole)] = Pending(server.args)
          /\ [[Pending(server.args) EXCEPT ![n] = NoCall] EXCEPT ![n] = Waiting(whole)]
               = Pending(server.args)
      BY <1>1, <2>2, PendingIsWhole
    <3> QED
      BY <3>1
  <2>4. /\ done \in Events /\ done.type = "arguments.done" /\ done.index = n /\ done.args = whole
        /\ item \in Events /\ item.type = "item.done" /\ item.index = n /\ item.args = whole
        /\ stop \in Events /\ stop.type = "block_stop"
    BY <2>2 DEF Events, CallEvents, Event
  <2> HIDE DEF n, whole, done, item, stop
  <2>5. /\ server' = [texts |-> server.texts, args |-> server.args, at |-> "between", ended |-> "no"]
        /\ server'.texts = server.texts /\ server'.args = server.args
        /\ server'.at = "between" /\ server'.ended = "no"
    BY <1>1, <2>1, Zenon
  <2>6. Closed' = n
    BY <2>5 DEF Closed, Current, n
  <2>7. Owed' = [pending |-> Pending(server.args),
                 tools |-> IF protocol = "responses" /\ n # 0
                           THEN <<[index |-> n, args |-> whole]>> ELSE <<>>,
                 texts |-> server.texts, stop |-> "no"]
    BY <2>1, <2>5, <2>6 DEF Owed, whole
  <2>8. server' \in Servers
    BY <1>1, <2>5 DEF Servers
  <2>9. CASE protocol = "responses"
    <3>1. lines = Line(done) \o Line(item)
      BY <2>9
    <3>2. Line(done) \in Seq(HalfLines) /\ Line(item) \in Seq(HalfLines)
      BY <2>4, LineTyped
    <3> DEFINE a == Line(done)  b == Line(item)
               w == WithWhole(Owed, done)
               s == FlushPendingToolCall(w, n)
    <3>3. Dispatched(Owed, a) = s
      BY <2>4, DispatchedLine DEF Dispatch
    <3>4. Dispatched(s, b) = WithWhole(s, item)
      BY <2>4, DispatchedLine DEF Dispatch, AccumulateOutputItem
    <3>5. /\ w.pending = [Pending(server.args) EXCEPT ![n] = Waiting(whole)]
          /\ w.texts = server.texts /\ w.stop = "no"
          /\ w = [pending |-> w.pending, tools |-> w.tools, texts |-> w.texts, stop |-> w.stop]
      BY <1>3, <2>4 DEF WithWhole
    <3> HIDE DEF a, b
    <3>6. w.pending[n].args = whole
      BY <2>2, <3>5, WaitingIs DEF Pending
    <3> HIDE DEF w
    <3>7. s = [pending |-> [w.pending EXCEPT ![n] = NoCall],
               tools |-> <<[index |-> n, args |-> whole]>>, texts |-> server.texts, stop |-> "no"]
      BY <3>5, <3>6, Zenon DEF FlushPendingToolCall, Requested, Call
    <3> HIDE DEF s
    <3>8. WithWhole(s, item)
            = [pending |-> [[w.pending EXCEPT ![n] = NoCall] EXCEPT ![n] = Waiting(whole)],
               tools |-> <<[index |-> n, args |-> whole]>>, texts |-> server.texts, stop |-> "no"]
      BY <2>4, <3>7 DEF WithWhole
    <3>9. WithWhole(s, item) = Owed'
      BY <2>2, <2>3, <2>7, <2>9, <3>5, <3>8, Zenon
    <3>10. Dispatched(Owed, a \o b) = Dispatched(Dispatched(Owed, a), b) /\ a \o b \in Seq(HalfLines)
      BY <3>2, DispatchedParts DEF a, b
    <3>11. Dispatched(Owed, lines) = Owed' /\ lines \in Seq(HalfLines)
      BY <3>1, <3>3, <3>4, <3>9, <3>10, Zenon DEF a, b
    <3> HIDE DEF lines
    <3> QED
      BY <1>0, <1>1, <2>1, <2>5, <2>8, <3>11, Emitted, Zenon
  <2>10. CASE protocol # "responses"
    <3>1. Owed = Owed'
      BY <1>3, <2>7, <2>10
    <3>2. CASE protocol = "bedrock"
      <4>1. lines = Line(stop)
        BY <3>2
      <4>2. Dispatched(Owed, Line(stop)) = Owed
        BY <2>4, DispatchedLine DEF Dispatch
      <4>3. lines \in Seq(HalfLines) /\ Dispatched(Owed, lines) = Owed'
        BY <2>4, <3>1, <4>1, <4>2, LineTyped, Zenon
      <4> HIDE DEF lines
      <4> QED
        BY <1>0, <1>1, <2>1, <2>5, <2>8, <4>3, Emitted, Zenon
    <3>3. CASE protocol # "bedrock"
      <4>1. lines = <<>>
        BY <2>10, <3>3
      <4>4. <<>> \in Seq(HalfLines)
        OBVIOUS
      <4>2. lines \in Seq(HalfLines)
        BY <4>1, <4>4, Zenon
      <4>3. Dispatched(Owed, lines) = Owed'
        BY <3>1, <4>1, DispatchedNothing, Zenon
      <4> HIDE DEF lines
      <4> QED
        BY <1>0, <1>1, <2>1, <2>5, <2>8, <4>2, <4>3, Emitted, Zenon
    <3> QED
      BY <3>2, <3>3
  <2> QED
    BY <2>9, <2>10
<1>8. CASE ServerFinishes
  <2> DEFINE e == Event("finish", 0, 0)
             said == [i \in DOMAIN server.args |-> [index |-> i, args |-> server.args[i]]]
  <2>1. /\ server' = [server EXCEPT !.ended = "finished"] /\ wire' = wire \o Line(e)
        /\ server.at = "between" /\ UNCHANGED <<protocol, buffer, state, attempt>>
    BY <1>8 DEF ServerFinishes, Emits
  <2>2. e \in Events /\ e.type = "finish"
    BY DEF Events, Event
  <2> HIDE DEF e
  <2>3. Dispatched(Owed, Line(e)) = FlushPendingToolCalls(Owed)
    BY <2>2, DispatchedLine DEF Dispatch
  <2>4. FlushPendingToolCalls(Owed) = Requested([Owed EXCEPT !.pending = Fresh.pending], said)
    BY <1>1, <1>2, <1>3, FlushedInOrder
  <2>5. /\ server' = [texts |-> server.texts, args |-> server.args, at |-> "between",
                      ended |-> "finished"]
        /\ server'.texts = server.texts /\ server'.args = server.args
        /\ server'.at = "between" /\ server'.ended = "finished"
    BY <1>1, <2>1
  <2>6. Owed' = [pending |-> Fresh.pending, tools |-> said, texts |-> server.texts, stop |-> "no"]
    BY <2>5 DEF Owed, Said
  <2>7. said = <<>> => Closed = 0
    <3>1. said = <<>> => Len(server.args) = 0
      BY <1>1
    <3> QED
      BY <2>1, <3>1 DEF Closed, Current
  <2> HIDE DEF said
  <2>8. Requested([Owed EXCEPT !.pending = Fresh.pending], said) = Owed'
    <3>1. CASE said = <<>>
      <4>1. Owed.tools = said
        BY <1>3, <2>7, <3>1
      <4> QED
        BY <1>3, <2>6, <3>1, <4>1 DEF Requested
    <3>2. CASE said # <<>>
      <4> DEFINE tools == Owed.tools
                 pending == Pending(server.args)
                 none == Fresh.pending
                 o == [Owed EXCEPT !.pending = none]
      <4>1. Owed = [pending |-> pending, tools |-> tools, texts |-> server.texts, stop |-> "no"]
        BY <1>3
      <4> HIDE DEF tools, pending, none
      <4>2. o = [pending |-> none, tools |-> tools, texts |-> server.texts, stop |-> "no"]
        BY <4>1
      <4> HIDE DEF o
      <4>3. Requested(o, said) = [o EXCEPT !.tools = said]
        BY <3>2 DEF Requested
      <4>4. [o EXCEPT !.tools = said]
              = [pending |-> none, tools |-> said, texts |-> server.texts, stop |-> "no"]
        BY <4>2
      <4> QED
        BY <2>6, <4>3, <4>4 DEF o, none
    <3> QED
      BY <3>1, <3>2
  <2>9. server' \in Servers
    BY <1>1, <2>5 DEF Servers
  <2>10. Dispatched(Owed, Line(e)) = Owed'
    BY <2>3, <2>4, <2>8
  <2> QED
    BY <1>0, <1>1, <2>1, <2>2, <2>5, <2>9, <2>10, LineTyped, Emitted, Zenon
<1>9. CASE ServerFails
  <2> DEFINE e == Event("error", 0, 0)
  <2>1. /\ server' = [server EXCEPT !.ended = "failed"] /\ wire' = wire \o Line(e)
        /\ UNCHANGED <<protocol, buffer, state, attempt>>
    BY <1>9 DEF ServerFails, Emits
  <2>2. e \in Events /\ e.type = "error"
    BY DEF Events, Event
  <2> HIDE DEF e
  <2>3. Dispatched(Owed, Line(e)) = [Owed EXCEPT !.stop = "error"]
    BY <2>2, DispatchedLine DEF Dispatch
  <2>4. /\ server' = [texts |-> server.texts, args |-> server.args, at |-> server.at,
                      ended |-> "failed"]
        /\ server'.texts = server.texts /\ server'.args = server.args
        /\ server'.at = server.at /\ server'.ended = "failed"
    BY <1>1, <2>1, Zenon
  <2>5. Closed' = Closed
    BY <2>4 DEF Closed, Current
  <2>6. Owed' = [Owed EXCEPT !.stop = "error"]
    BY <1>3, <2>1, <2>4, <2>5 DEF Owed
  <2>7. server' \in Servers
    BY <1>1, <2>4 DEF Servers
  <2> QED
    BY <1>0, <1>1, <2>1, <2>2, <2>3, <2>4, <2>6, <2>7, LineTyped, Emitted, Zenon
<1>10. CASE ServerCloses
  <2>1. /\ server' = [server EXCEPT !.ended = "closed"] /\ wire' = wire /\ protocol # "bedrock"
        /\ server.at = "between" /\ UNCHANGED <<protocol, buffer, state, attempt>>
    BY <1>10 DEF ServerCloses
  <2>2. /\ server' = [texts |-> server.texts, args |-> server.args, at |-> "between",
                      ended |-> "closed"]
        /\ server'.texts = server.texts /\ server'.args = server.args
        /\ server'.at = "between" /\ server'.ended = "closed"
    BY <1>1, <2>1
  <2>3. Closed' = Closed
    BY <2>1, <2>2 DEF Closed, Current
  <2>4. Owed' = Owed
    BY <1>3, <2>1, <2>2, <2>3 DEF Owed
  <2>5. server' \in Servers
    BY <1>1, <2>2 DEF Servers
  <2> DEFINE lines == <<>>
  <2>6. lines \in Seq(HalfLines) /\ wire' = wire \o lines
    BY <1>0, <2>1 DEF StreamTypes
  <2>7. Dispatched(Owed, lines) = Owed'
    BY <2>4, DispatchedNothing
  <2> HIDE DEF lines
  <2> QED
    BY <1>0, <1>1, <2>1, <2>2, <2>5, <2>6, <2>7, Emitted, Zenon
<1> QED
  BY <1>4, <1>5, <1>6, <1>7, <1>8, <1>9, <1>10

(* A half line alone waits in the buffer and changes nothing.               *)
LEMMA ChunkConsumed ==
  ASSUME MaxCalls \in Nat, StreamInv, NEW n \in 1..Len(wire), ConsumeSseChunk(n)
  PROVE  StreamInv'
<1> DEFINE chunk == SubSeq(wire, 1, n)
           left == SubSeq(wire, n + 1, Len(wire))
           bytes == buffer \o chunk
           end == bytes[Len(bytes)]
<1>1. /\ Receiving /\ state' = Dispatched(state, bytes)
      /\ buffer' = (IF end.last THEN <<>> ELSE <<end>>) /\ wire' = left
      /\ UNCHANGED <<protocol, server, attempt>>
  BY DEF ConsumeSseChunk
<1>2. StreamTypes /\ Dispatched(state, buffer \o wire) = Owed
  BY <1>1 DEF StreamInv
<1>3. buffer \in Seq(HalfLines) /\ wire \in Seq(HalfLines) /\ state \in States
  BY <1>2 DEF StreamTypes
<1>4. /\ chunk \in Seq(HalfLines) /\ left \in Seq(HalfLines) /\ bytes \in Seq(HalfLines)
      /\ Len(bytes) \in Nat /\ Len(bytes) # 0 /\ end \in HalfLines
  BY <1>3
<1>5. buffer \o wire = bytes \o left
  <2>1. wire = chunk \o left
    BY <1>3
  <2> DEFINE a == chunk
             b == left
  <2>2. a \in Seq(HalfLines) /\ b \in Seq(HalfLines)
    BY <1>4
  <2> HIDE DEF a, b
  <2>3. buffer \o (a \o b) = (buffer \o a) \o b
    BY <1>3, <2>2
  <2> QED
    BY <2>1, <2>3, Zenon DEF a, b
<1> HIDE DEF chunk, left, bytes, end
<1>6. state' \in States
  BY <1>1, <1>3, <1>4, DispatchedTyped
<1>7. Dispatched(state', left) = Owed
  <2>1. Dispatched(state, bytes \o left) = Dispatched(Dispatched(state, bytes), left)
    BY <1>4, DispatchedParts
  <2> QED
    BY <1>1, <1>2, <1>5, <2>1, Zenon
<1>8. /\ buffer' \in Seq(HalfLines) /\ Len(buffer') <= 1
      /\ \A k \in DOMAIN buffer' : ~buffer'[k].last
  BY <1>1, <1>4
<1>9. Dispatched(state', buffer' \o left) = Owed'
  <2>1. Dispatched(state', buffer' \o left) = Dispatched(Dispatched(state', buffer'), left)
    BY <1>4, <1>8, DispatchedParts
  <2>2. Dispatched(state', buffer') = state'
    <3>1. CASE end.last
      <4>1. buffer' = <<>>
        BY <1>1, <3>1
      <4> QED
        BY <4>1, DispatchedNothing
    <3>2. CASE ~end.last
      <4>1. buffer' = <<end>>
        BY <1>1, <3>2
      <4>2. Dispatched(state', <<end>>) = Consumed(state', end)
        BY DispatchedOne
      <4> QED
        BY <3>2, <4>1, <4>2 DEF Consumed
    <3> QED
      BY <3>1, <3>2
  <2>3. Owed' = Owed
    BY <1>1 DEF Owed, Said, Closed, Current
  <2> QED
    BY <1>7, <2>1, <2>2, <2>3
<1>10. StreamTypes'
  BY <1>1, <1>2, <1>4, <1>6, <1>8 DEF StreamTypes
<1>11. state'.stop # "done" /\ protocol' # "none"
  BY <1>1, <1>6 DEF States, Receiving
<1>12. Dispatched(state', buffer' \o wire') = Owed'
  BY <1>1, <1>9
<1> QED
  BY <1>10, <1>11, <1>12 DEF StreamInv, AnswerIsWhole

(* At the end of the transfer nothing is owed any more.                     *)
LEMMA StreamEnded ==
  ASSUME MaxCalls \in Nat, StreamInv, StreamEnds
  PROVE  StreamInv'
<1>1. /\ Receiving /\ server.ended # "no" /\ wire = <<>>
      /\ UNCHANGED <<protocol, server, wire, buffer, attempt>>
  BY DEF StreamEnds
<1>2. StreamTypes /\ Dispatched(state, buffer \o wire) = Owed
  BY <1>1 DEF StreamInv
<1>3. state \in States /\ server \in Servers /\ server.args \in Seq(Nat)
      /\ Len(server.args) <= MaxCalls /\ buffer \in Seq(HalfLines)
  BY <1>2 DEF StreamTypes, Servers
<1>4. state = Owed
  <2>1. buffer \o wire = buffer
    BY <1>1, <1>3
  <2>2. Dispatched(state, buffer) = state
    <3>1. CASE buffer = <<>>
      BY <3>1, DispatchedNothing
    <3>2. CASE buffer # <<>>
      <4>2. Len(buffer) <= 1 /\ Len(buffer) \in Nat
        BY <1>2, <1>3 DEF StreamTypes
      <4>4. Len(buffer) # 0
        BY <1>3, <3>2
      <4>6. \A k \in Nat : k <= 1 /\ k # 0 => k = 1
        OBVIOUS
      <4>3. Len(buffer) = 1
        BY <4>2, <4>4, <4>6, Zenon
      <4>1. buffer = <<buffer[1]>> /\ ~buffer[1].last
        BY <1>2, <1>3, <4>3 DEF StreamTypes
      <4>5. Dispatched(state, <<buffer[1]>>) = Consumed(state, buffer[1])
        BY DispatchedOne
      <4> QED
        BY <4>1, <4>5 DEF Consumed
    <3> QED
      BY <3>1, <3>2
  <2> QED
    BY <1>2, <2>1, <2>2
<1> DEFINE s == IF protocol = "bedrock" THEN state ELSE FlushPendingToolCalls(state)
<1>5. state' = [s EXCEPT !.stop = Ended(s)]
  BY DEF StreamEnds
<1>6. s \in States
  BY <1>3, FlushTyped
<1>7. s.texts = state.texts /\ s.stop = state.stop
  BY <1>3 DEF FlushPendingToolCalls, Requested, States
<1>8. state'.stop = Ended(s) /\ state'.texts = server.texts /\ state'.tools = s.tools
  <2>1. s.texts = server.texts
    BY <1>4, <1>7 DEF Owed
  <2> HIDE DEF s
  <2> QED
    BY <1>5, <1>6, <2>1 DEF States
<1>9. ASSUME Ended(s) = "done"
      PROVE  s.tools = Said
  <2>1. server.ended \in {"finished", "closed"}
    <3>1. state.stop # "error"
      BY <1>7, <1>9 DEF Ended
    <3> QED
      BY <1>1, <1>3, <1>4, <3>1 DEF Owed, Servers
  <2>2. CASE server.ended = "finished"
    <3>1. state.tools = Said /\ state.pending = Fresh.pending
      BY <1>4, <2>2 DEF Owed
    <3>2. Fresh.pending = Pending(<<>>)
      BY DEF Fresh, Pending
    <3> DEFINE none == <<>>
    <3>3. none \in Seq(Nat) /\ Len(none) <= MaxCalls /\ DOMAIN none = {}
      OBVIOUS
    <3>4. [i \in DOMAIN none |-> [index |-> i, args |-> none[i]]] = <<>>
      OBVIOUS
    <3>5. state.pending = Pending(none)
      BY <3>1, <3>2
    <3> HIDE DEF none
    <3>6. FlushPendingToolCalls(state)
            = Requested([state EXCEPT !.pending = Fresh.pending],
                        [i \in DOMAIN none |-> [index |-> i, args |-> none[i]]])
      BY <1>3, <3>3, <3>5, FlushedInOrder, Zenon
    <3>7. FlushPendingToolCalls(state).tools = state.tools
      BY <1>3, <3>4, <3>6 DEF Requested, States
    <3> QED
      BY <3>1, <3>7
  <2>3. CASE server.ended = "closed"
    <3>1. protocol # "bedrock" /\ server.at = "between"
      BY <1>2, <2>3 DEF StreamTypes
    <3>2. state.pending = Pending(server.args)
      BY <1>4, <2>3 DEF Owed
    <3>3. FlushPendingToolCalls(state)
            = Requested([state EXCEPT !.pending = Fresh.pending], Said)
      BY <1>3, <3>2, FlushedInOrder DEF Said
    <3>4. Said = <<>> => state.tools = <<>>
      <4>1. Said = <<>> => Len(server.args) = 0
        BY <1>3 DEF Said
      <4> QED
        BY <1>4, <2>3, <3>1, <4>1 DEF Owed, Closed, Current
    <3>5. FlushPendingToolCalls(state).tools = Said
      BY <1>3, <3>3, <3>4 DEF Requested, States
    <3> QED
      BY <3>1, <3>5
  <2> QED
    BY <2>1, <2>2, <2>3
<1>10. AnswerIsWhole'
  <2>1. state'.stop = "done" => state'.tools = Said
    BY <1>8, <1>9
  <2> QED
    BY <1>1, <1>8, <2>1 DEF AnswerIsWhole, Said
<1>11. protocol' # "none" /\ ~Receiving'
  BY <1>1, <1>8 DEF Receiving, Ended
<1> QED
  BY <1>10, <1>11 DEF StreamInv

(* Every step keeps what an answer owes.                                    *)
LEMMA StreamStep ==
  ASSUME MaxCalls \in Nat, StreamInv, [Next]_vars
  PROVE  StreamInv'
<1>1. CASE \/ ServerText \/ ServerOpensCall \/ ServerFragment \/ ServerClosesCall
           \/ ServerFinishes \/ ServerFails \/ ServerCloses
  BY <1>1, ServerSays
<1>2. CASE StreamEnds
  BY <1>2, StreamEnded
<1>3. CASE \E n \in 1..Len(wire) : ConsumeSseChunk(n)
  BY <1>3, ChunkConsumed
<1>4. CASE RequestFails \/ Cancelled
  <2>1. Receiving /\ state'.stop \in {"failed", "cancelled"} /\ protocol' = protocol
    BY <1>4 DEF RequestFails, Cancelled, StreamInv, StreamTypes, States
  <2> QED
    BY <2>1 DEF StreamInv, AnswerIsWhole, Receiving
<1>5. CASE CredentialError
  <2>1. /\ Receiving
        /\ \/ state' = state
           \/ state'.stop = "failed"
        /\ UNCHANGED <<protocol, server, wire, buffer>>
    BY <1>5 DEF CredentialError, StreamInv, StreamTypes, States
  <2>2. CASE state' = state
    BY <2>1, <2>2 DEF StreamInv, AnswerIsWhole, Receiving, StreamTypes, Owed, Said, Closed, Current
  <2>3. CASE state'.stop = "failed"
    BY <2>1, <2>3 DEF StreamInv, AnswerIsWhole, Receiving
  <2> QED
    BY <2>1, <2>2, <2>3
<1>6. CASE RoundEnds
  BY <1>6 DEF RoundEnds, StreamInv, AnswerIsWhole, Receiving, Fresh
<1>7. CASE \E p \in Protocols : CompleteStream(p)
  <2>1. PICK p \in Protocols : CompleteStream(p)
    BY <1>7
  <2>2. /\ protocol' = p /\ p # "none" /\ server' = Silent /\ wire' = <<>> /\ buffer' = <<>>
        /\ state' = Fresh
    BY <2>1 DEF CompleteStream, Protocols, StreamInv
  <2>3. StreamTypes'
    <3>1. Silent \in Servers /\ Silent.args = <<>> /\ Silent.at = "between" /\ Silent.ended = "no"
      BY DEF Silent, Servers
    <3>2. Fresh \in States
      BY DEF Fresh, States, NoCall
    <3> QED
      BY <2>2, <3>1, <3>2 DEF StreamTypes
  <2>4. Owed' = Fresh
    <3>1. Fresh.pending = Pending(<<>>)
      BY DEF Fresh, Pending
    <3>2. /\ server'.ended = "no" /\ server'.args = <<>> /\ server'.at = "between"
          /\ server'.texts = 0
      BY <2>2 DEF Silent
    <3>3. Closed' = 0
      BY <3>2 DEF Closed, Current
    <3>4. Owed' = [pending |-> Pending(<<>>), tools |-> <<>>, texts |-> 0, stop |-> "no"]
      BY <3>2, <3>3 DEF Owed
    <3>5. Fresh = [pending |-> Fresh.pending, tools |-> <<>>, texts |-> 0, stop |-> "no"]
      BY DEF Fresh
    <3> QED
      BY <3>1, <3>4, <3>5
  <2>5. Dispatched(state', buffer' \o wire') = Owed'
    BY <2>2, <2>4, DispatchedNothing
  <2>6. state'.stop = "no"
    BY <2>2 DEF Fresh
  <2> QED
    BY <2>2, <2>3, <2>5, <2>6 DEF StreamInv, AnswerIsWhole
<1>8. CASE UNCHANGED vars
  BY <1>8 DEF vars, StreamInv, AnswerIsWhole, Receiving, StreamTypes, Owed, Said, Closed, Current
<1> QED
  BY <1>1, <1>2, <1>3, <1>4, <1>5, <1>6, <1>7, <1>8 DEF Next

(* A round whose stream ended well has the text and every tool call of the  *)
(* answer, in order and with all its arguments: for any number of calls and *)
(* fragments, and wherever the network cut the stream.                      *)
THEOREM AnswersAreWhole ==
  ASSUME MaxCalls \in Nat
  PROVE  Spec => []AnswerIsWhole
<1>1. Init => StreamInv
  BY DEF Init, StreamInv, AnswerIsWhole, Receiving, Fresh
<1>2. StreamInv /\ [Next]_vars => StreamInv'
  BY StreamStep
<1>3. StreamInv => AnswerIsWhole
  BY DEF StreamInv
<1> QED
  BY <1>1, <1>2, <1>3, PTL DEF Spec

-----------------------------------------------------------------------------
(*                     THE REQUESTS TO THE MODEL                           *)

CONSTANTS MaxMessages, MaxTurns, MaxTools, Keep
VARIABLES history, turn, sent

Request == INSTANCE Requests

(* Of two messages that are no notice, the earlier belongs to an earlier    *)
(* turn, to an earlier round, or is what a result answers.                  *)
Precedes(a, b) ==
  \/ a.turn < b.turn
  \/ a.turn = b.turn /\ a.round < b.round
  \/ a.turn = b.turn /\ a.round = b.round /\ b.role = "tool"

(* Notices lead, the others follow in order, and results that stand next to *)
(* each other are of the same round.                                        *)
Shaped(h) ==
  /\ h \in Seq(Request!Messages)
  /\ Request!SystemsLead(h)
  /\ \A i, j \in DOMAIN h : i < j /\ h[i].role # "system" => Precedes(h[i], h[j])
  /\ \A i, j \in DOMAIN h :
       j = i + 1 /\ h[i].role = "tool" /\ h[j].role = "tool" =>
         h[i].turn = h[j].turn /\ h[i].round = h[j].round

(* The history is shaped so, and while a turn goes on its last message is   *)
(* what the turn said last.                                                 *)
HistoryInv ==
  /\ Shaped(history)
  /\ turn \in [id : Nat, asked : Nat, open : SUBSET Nat, over : BOOLEAN]
  /\ \A i \in DOMAIN history : history[i].turn <= turn.id
  /\ ~turn.over =>
       /\ history # <<>>
       /\ \A i \in DOMAIN history :
            history[i].turn = turn.id => history[i].round <= turn.asked
  /\ ~turn.over /\ turn.open # {} =>
       LET last == history[Len(history)]
       IN last.role \in {"calls", "tool"} /\ last.turn = turn.id /\ last.round = turn.asked

(* Where a block begins, and the results that answer the calls m.           *)
Starts(ms) == {i \in DOMAIN ms : Request!Begins(ms, i) /\ ms[i].role # "system"}
AnswersTo(ms, m) ==
  {j \in DOMAIN ms : ms[j].role = "tool" /\ ms[j].turn = m.turn /\ ms[j].round = m.round}

(* The element of a set of numbers that follows directly is the next one.   *)
LEMMA NextInOrder ==
  ASSUME NEW S \in SUBSET Nat, IsFiniteSet(S), NEW k \in 1..Cardinality(S),
         InOrder(S)[k] + 1 \in S
  PROVE  k + 1 \in 1..Cardinality(S) /\ InOrder(S)[k + 1] = InOrder(S)[k] + 1
<1> DEFINE f == InOrder(S)
           c == Cardinality(S)
<1>1. /\ c \in Nat /\ \A l \in 1..c : f[l] \in Nat
      /\ \A l, m \in 1..c : l < m => f[l] < f[m]
      /\ \A i \in S : \E l \in 1..c : f[l] = i
  BY InOrderIs, Zenon
<1>2. f[k] + 1 \in S /\ k \in 1..c
  OBVIOUS
<1> HIDE DEF f, c
<1>3. PICK l \in 1..c : f[l] = f[k] + 1
  BY <1>1, <1>2
<1>4. k < l
  <2>1. ~(l < k) /\ l # k
    BY <1>1, <1>2, <1>3
  <2> QED
    BY <1>1, <1>2, <2>1
<1>5. ~(k + 1 < l)
  <2> SUFFICES ASSUME k + 1 < l PROVE FALSE
    OBVIOUS
  <2>1. k + 1 \in 1..c /\ k < k + 1
    BY <1>1, <1>2
  <2>2. f[k] < f[k + 1] /\ f[k + 1] < f[l]
    BY <1>1, <1>2, <2>1
  <2> QED
    BY <1>1, <1>2, <1>3, <2>1, <2>2
<1>6. l = k + 1
  BY <1>1, <1>2, <1>4, <1>5
<1> QED
  BY <1>3, <1>6 DEF f, c

(* A stretch of a sequence, element by element.                             *)
LEMMA SubSeqIs ==
  ASSUME NEW X, NEW s \in Seq(X), NEW a \in 1..(Len(s) + 1), NEW b \in (a - 1)..Len(s)
  PROVE  /\ SubSeq(s, a, b) \in Seq(X) /\ Len(SubSeq(s, a, b)) = b - a + 1
         /\ DOMAIN SubSeq(s, a, b) = 1..(b - a + 1)
         /\ \A k \in 1..(b - a + 1) : SubSeq(s, a, b)[k] = s[a + k - 1]
         /\ \A k \in DOMAIN SubSeq(s, a, b) : \E j \in a..b : SubSeq(s, a, b)[k] = s[j]
         /\ \A j \in a..b : \E k \in DOMAIN SubSeq(s, a, b) : SubSeq(s, a, b)[k] = s[j]
<1> DEFINE run == SubSeq(s, a, b)
<1>1. a \in Nat /\ b \in Nat /\ Len(s) \in Nat /\ a >= 1 /\ b <= Len(s) /\ b - a + 1 \in Nat
  OBVIOUS
<1>2. run = [k \in 1..(b - a + 1) |-> s[a + k - 1]]
  BY <1>1
<1>3. \A k \in 1..(b - a + 1) : a + k - 1 \in DOMAIN s /\ a + k - 1 \in a..b
  BY <1>1
<1>4. \A j \in a..b : j - a + 1 \in 1..(b - a + 1) /\ a + (j - a + 1) - 1 = j
  BY <1>1
<1> HIDE DEF run
<1>5. DOMAIN run = 1..(b - a + 1) /\ \A k \in 1..(b - a + 1) : run[k] = s[a + k - 1] /\ run[k] \in X
  BY <1>2, <1>3
<1>6. run \in Seq(X) /\ Len(run) = b - a + 1
  BY <1>1, <1>2, <1>5
<1>7. ASSUME NEW j \in a..b
      PROVE  \E k \in DOMAIN run : run[k] = s[j]
  <2> DEFINE k == j - a + 1
  <2>1. k \in DOMAIN run /\ run[k] = s[j]
    BY <1>4, <1>5
  <2> HIDE DEF k
  <2> QED
    BY <2>1
<1>8. ASSUME NEW k \in DOMAIN run
      PROVE  \E j \in a..b : run[k] = s[j]
  BY <1>3, <1>5
<1> QED
  BY <1>5, <1>6, <1>7, <1>8, Zenon DEF run

(* A run goes on up to where the next one begins, and not beyond.           *)
LEMMA RunFromIs ==
  ASSUME NEW X, NEW ms \in Seq(X), NEW i \in DOMAIN ms
  PROVE  \E e \in i..Len(ms) :
           /\ Request!RunFrom(ms, i) = SubSeq(ms, i, e)
           /\ \A k \in (i + 1)..e : ~Request!Begins(ms, k)
           /\ e # Len(ms) => Request!Begins(ms, e + 1)
<1> DEFINE after == {j \in DOMAIN ms : j > i /\ Request!Begins(ms, j)}
           first == CHOOSE j \in after : \A k \in after : j <= k
           e == IF after = {} THEN Len(ms) ELSE first - 1
<1>1. Request!RunFrom(ms, i) = SubSeq(ms, i, e)
  BY DEF Request!RunFrom
<1>2. i \in Nat /\ Len(ms) \in Nat /\ i <= Len(ms) /\ DOMAIN ms = 1..Len(ms) /\ i >= 1
  OBVIOUS
<1>3. after \in SUBSET Nat
  OBVIOUS
<1>4. CASE after = {}
  <2>1. e = Len(ms)
    BY <1>4
  <2>2. Request!RunFrom(ms, i) = SubSeq(ms, i, Len(ms))
    BY <1>1, <2>1, Zenon
  <2>3. \A k \in (i + 1)..Len(ms) : ~Request!Begins(ms, k)
    BY <1>2, <1>4
  <2>4. Len(ms) \in i..Len(ms)
    BY <1>2
  <2> QED
    BY <2>2, <2>3, <2>4, Zenon
<1>5. CASE after # {}
  <2> HIDE DEF after
  <2>1. first \in after /\ \A k \in after : first <= k
    BY <1>3, <1>5, LeastNatural, Zenon
  <2>2. e = first - 1
    BY <1>5
  <2> HIDE DEF first, e
  <2>3. first \in DOMAIN ms /\ first > i /\ Request!Begins(ms, first) /\ first \in Nat
    BY <2>1 DEF after
  <2>4. e \in i..Len(ms) /\ e + 1 = first
    BY <1>2, <2>2, <2>3
  <2>5. ASSUME NEW k \in (i + 1)..e
        PROVE  ~Request!Begins(ms, k)
    <3>1. k \in DOMAIN ms /\ k > i /\ ~(first <= k)
      BY <1>2, <2>3, <2>4
    <3> QED
      BY <2>1, <3>1 DEF after
  <2> QED
    BY <1>1, <2>3, <2>4, <2>5, Zenon
<1> QED
  BY <1>4, <1>5, Zenon

(* The results of a round are the run that begins behind its calls.         *)
LEMMA ResultsAreARun ==
  ASSUME NEW ms, Shaped(ms), NEW i \in DOMAIN ms, ms[i].role = "calls",
         AnswersTo(ms, ms[i]) # {}
  PROVE  /\ i + 1 \in Starts(ms)
         /\ LET run == Request!RunFrom(ms, i + 1)
            IN {run[k] : k \in DOMAIN run} = {ms[j] : j \in AnswersTo(ms, ms[i])}
<1> DEFINE A == AnswersTo(ms, ms[i])
           t == ms[i].turn
           r == ms[i].round
           M == Request!Messages
<1>1. ms \in Seq(M)
  BY DEF Shaped
<1>2. /\ i \in Nat /\ Len(ms) \in Nat /\ i >= 1 /\ i <= Len(ms) /\ DOMAIN ms = 1..Len(ms)
  BY <1>1
<1>3. \A j \in DOMAIN ms : ms[j].turn \in Nat /\ ms[j].round \in Nat
  <2>1. \A j \in DOMAIN ms : ms[j] \in Request!Messages
    BY <1>1
  <2> QED
    BY <2>1 DEF Request!Messages
<1>4. \A j \in A : j \in DOMAIN ms /\ ms[j].role = "tool" /\ ms[j].turn = t /\ ms[j].round = r
  BY DEF AnswersTo
<1>5. \A j \in DOMAIN ms : ms[j].role = "tool" /\ ms[j].turn = t /\ ms[j].round = r => j \in A
  BY DEF AnswersTo
<1> HIDE DEF A, t, r, M
<1>6. ASSUME NEW j \in A
      PROVE  i < j
  <2>1. j # i
    BY <1>4
  <2>2. ~(j < i)
    <3> SUFFICES ASSUME j < i PROVE FALSE
      OBVIOUS
    <3>1. Precedes(ms[j], ms[i])
      BY <1>4 DEF Shaped
    <3> QED
      BY <1>3, <1>4, <3>1 DEF Precedes, t, r
  <2> QED
    BY <1>2, <1>4, <2>1, <2>2
<1>7. ASSUME NEW j \in A, NEW m \in (i + 1)..j
      PROVE  m \in A
  <2>1. m \in DOMAIN ms /\ j \in DOMAIN ms /\ i < m /\ (m = j \/ m < j)
    BY <1>2, <1>4
  <2>2. CASE m = j
    BY <2>2
  <2>3. CASE m < j
    <3>1. Precedes(ms[i], ms[m])
      BY <2>1 DEF Shaped
    <3>2. ms[m].role # "system"
      BY <2>1 DEF Shaped, Request!SystemsLead
    <3>3. Precedes(ms[m], ms[j])
      BY <2>1, <2>3, <3>2 DEF Shaped
    <3>4. ms[m].turn = t /\ ms[m].round = r /\ ms[m].role = "tool"
      BY <1>3, <1>4, <2>1, <3>1, <3>3 DEF Precedes, t, r
    <3> QED
      BY <1>5, <2>1, <3>4
  <2> QED
    BY <2>1, <2>2, <2>3
<1>8. i + 1 \in A
  <2>1. PICK j \in A : TRUE
    BY DEF A
  <2>2. i < j /\ j \in DOMAIN ms
    BY <1>4, <1>6
  <2>3. i + 1 \in (i + 1)..j
    BY <1>2, <2>2
  <2> QED
    BY <1>7, <2>3
<1>9. i + 1 \in Starts(ms)
  <2>1. i + 1 \in DOMAIN ms /\ ms[i + 1].role = "tool" /\ (i + 1) - 1 = i
    BY <1>2, <1>4, <1>8
  <2>2. Request!Begins(ms, i + 1)
    BY <2>1 DEF Request!Begins
  <2> QED
    BY <2>1, <2>2 DEF Starts
<1>10. PICK e \in (i + 1)..Len(ms) :
         /\ Request!RunFrom(ms, i + 1) = SubSeq(ms, i + 1, e)
         /\ \A k \in (i + 2)..e : ~Request!Begins(ms, k)
         /\ e # Len(ms) => Request!Begins(ms, e + 1)
  <2>1. i + 1 \in DOMAIN ms /\ (i + 1) + 1 = i + 2
    BY <1>2, <1>4, <1>8
  <2> QED
    BY <1>1, <2>1, RunFromIs, Zenon
<1>16. e \in Nat /\ i + 1 <= e /\ e <= Len(ms)
  BY <1>2
<1>11. ASSUME NEW k \in (i + 1)..e
       PROVE  k \in A
  <2> DEFINE S == {n \in Nat : i + 1 + n <= e => i + 1 + n \in A}
  <2>1. 0 \in S
    BY <1>2, <1>8
  <2>2. ASSUME NEW n \in Nat, n \in S
        PROVE  n + 1 \in S
    <3> DEFINE l == i + 1 + n
    <3> SUFFICES ASSUME l + 1 <= e PROVE l + 1 \in A
      <4>1. i + 1 + (n + 1) = l + 1
        BY <1>2
      <4> QED
        BY <4>1
    <3>0. l <= e
      BY <1>2, <1>16
    <3>1. l \in A /\ l \in Nat /\ l + 1 \in (i + 2)..e /\ l + 1 \in DOMAIN ms /\ (l + 1) - 1 = l
      BY <1>2, <1>16, <2>2, <3>0
    <3> HIDE DEF l
    <3>2. ms[l + 1].role = "tool" /\ ms[l].role = "tool" /\ l \in DOMAIN ms
      BY <1>4, <1>10, <3>1 DEF Request!Begins
    <3>3. ms[l].turn = ms[l + 1].turn /\ ms[l].round = ms[l + 1].round
      BY <3>1, <3>2, Zenon DEF Shaped
    <3> QED
      BY <1>4, <1>5, <3>1, <3>2, <3>3
  <2> HIDE DEF S
  <2>3. k - i - 1 \in S
    <3>1. k - i - 1 \in Nat
      BY <1>2
    <3> QED
      BY <2>1, <2>2, <3>1, Induction, Zenon
  <2>4. i + 1 + (k - i - 1) = k /\ k <= e
    BY <1>2
  <2> QED
    BY <2>3, <2>4 DEF S
<1>12. ASSUME NEW j \in A
       PROVE  j \in (i + 1)..e
  <2>1. i < j /\ j \in DOMAIN ms /\ j \in Nat
    BY <1>2, <1>4, <1>6
  <2>2. ~(e < j)
    <3> SUFFICES ASSUME e < j PROVE FALSE
      OBVIOUS
    <3>3. j <= Len(ms)
      BY <1>2, <2>1
    <3>4. e \in (i + 1)..e /\ (e + 1) - 1 = e /\ e + 1 > 1
      BY <1>2, <1>16
    <3>5. e + 1 \in (i + 1)..j
      BY <1>2, <1>16, <2>1
    <3>7. \A a, b, c \in Nat : a < b /\ b <= c => a # c
      OBVIOUS
    <3>6. e # Len(ms)
      BY <1>2, <1>16, <2>1, <3>3, <3>7, Zenon
    <3>1. e + 1 \in (i + 1)..j /\ e # Len(ms) /\ e \in (i + 1)..e /\ (e + 1) - 1 = e /\ e + 1 > 1
      BY <3>4, <3>5, <3>6
    <3>2. ms[e + 1].role = "tool" /\ ms[e].role = "tool"
      BY <1>4, <1>7, <1>11, <3>1
    <3> QED
      BY <1>10, <3>1, <3>2 DEF Request!Begins
  <2> QED
    BY <1>2, <2>1, <2>2
<1>13. A = (i + 1)..e
  BY <1>11, <1>12, Zenon
<1> DEFINE run == SubSeq(ms, i + 1, e)
<1>15. {run[k] : k \in DOMAIN run} = {ms[j] : j \in (i + 1)..e}
  <2> DEFINE a == i + 1
  <2>1. a \in 1..(Len(ms) + 1) /\ e \in (a - 1)..Len(ms)
    BY <1>2
  <2> HIDE DEF a
  <2>2. /\ \A k \in DOMAIN SubSeq(ms, a, e) : \E j \in a..e : SubSeq(ms, a, e)[k] = ms[j]
        /\ \A j \in a..e : \E k \in DOMAIN SubSeq(ms, a, e) : SubSeq(ms, a, e)[k] = ms[j]
    BY <1>1, <2>1, SubSeqIs, ZenonT(40)
  <2>3. /\ \A k \in DOMAIN run : \E j \in a..e : run[k] = ms[j]
        /\ \A j \in a..e : \E k \in DOMAIN run : run[k] = ms[j]
    BY <2>2, Zenon DEF a
  <2> HIDE DEF run
  <2>4. {run[k] : k \in DOMAIN run} = {ms[j] : j \in a..e}
    BY <2>3
  <2> QED
    BY <2>4, Zenon DEF a
<1> HIDE DEF run
<1> QED
  BY <1>9, <1>10, <1>13, <1>15, Zenon DEF run, A

(* Every message that is no notice is in a run.                             *)
LEMMA EveryMessageInARun ==
  ASSUME NEW ms, Shaped(ms), NEW j \in DOMAIN ms, ms[j].role # "system"
  PROVE  \E i \in Starts(ms) :
           LET run == Request!RunFrom(ms, i) IN \E k \in DOMAIN run : run[k] = ms[j]
<1> DEFINE In(n) == \E i \in Starts(ms) : i <= n /\ \A k \in (i + 1)..n : ~Request!Begins(ms, k)
           S == {n \in Nat : n \in DOMAIN ms /\ ms[n].role # "system" => In(n)}
<1>1. ms \in Seq(Request!Messages) /\ Len(ms) \in Nat /\ DOMAIN ms = 1..Len(ms) /\ j \in Nat
  BY DEF Shaped
<1>2. 0 \in S
  BY <1>1
<1>3. ASSUME NEW n \in Nat, n \in S
      PROVE  n + 1 \in S
  <2> SUFFICES ASSUME n + 1 \in DOMAIN ms, ms[n + 1].role # "system"
               PROVE  In(n + 1)
    OBVIOUS
  <2>1. CASE Request!Begins(ms, n + 1)
    <3>1. n + 1 \in Starts(ms)
      BY <2>1 DEF Starts
    <3>2. n + 1 <= n + 1 /\ \A k \in (n + 1 + 1)..(n + 1) : FALSE
      OBVIOUS
    <3> QED
      BY <3>1, <3>2
  <2>2. CASE ~Request!Begins(ms, n + 1)
    <3>1. n + 1 > 1 /\ ms[n + 1 - 1].role = "tool" /\ n + 1 - 1 = n
      BY <2>2 DEF Request!Begins
    <3>2. n \in DOMAIN ms /\ ms[n].role # "system"
      BY <1>1, <3>1
    <3>3. PICK i \in Starts(ms) : i <= n /\ \A k \in (i + 1)..n : ~Request!Begins(ms, k)
      BY <1>3, <3>2
    <3>4. i \in Nat /\ i <= n + 1
      BY <1>1, <3>3 DEF Starts
    <3>5. \A k \in (i + 1)..(n + 1) : k \in (i + 1)..n \/ k = n + 1
      BY <3>4
    <3> QED
      BY <2>2, <3>3, <3>4, <3>5
  <2> QED
    BY <2>1, <2>2
<1> HIDE DEF S
<1>4. j \in S
  BY <1>1, <1>2, <1>3, Induction
<1>5. PICK i \in Starts(ms) : i <= j /\ \A k \in (i + 1)..j : ~Request!Begins(ms, k)
  BY <1>4 DEF S
<1>6. i \in DOMAIN ms /\ i \in Nat
  BY <1>1 DEF Starts
<1>7. PICK e \in i..Len(ms) :
        /\ Request!RunFrom(ms, i) = SubSeq(ms, i, e)
        /\ e # Len(ms) => Request!Begins(ms, e + 1)
  BY <1>1, <1>6, RunFromIs, Zenon
<1>8. j <= e
  <2> SUFFICES ASSUME ~(j <= e) PROVE FALSE
    OBVIOUS
  <2>1. e \in Nat /\ i <= e /\ e + 1 \in (i + 1)..j
    BY <1>1, <1>6
  <2>2. \A a, b, c \in Nat : ~(b <= a) /\ b <= c => a # c
    OBVIOUS
  <2>3. j <= Len(ms)
    BY <1>1
  <2>4. e # Len(ms)
    BY <1>1, <2>1, <2>2, <2>3, Zenon
  <2> QED
    BY <1>5, <1>7, <2>1, <2>4
<1>9. i \in 1..(Len(ms) + 1) /\ e \in (i - 1)..Len(ms) /\ j \in i..e
  BY <1>1, <1>5, <1>6, <1>8
<1>10. \E k \in DOMAIN SubSeq(ms, i, e) : SubSeq(ms, i, e)[k] = ms[j]
  BY <1>1, <1>9, SubSeqIs, ZenonT(40)
<1> QED
  BY <1>7, <1>10, Zenon

(* A run begins with the message it is found by.                            *)
LEMMA RunBegins ==
  ASSUME NEW ms, Shaped(ms), NEW i \in Starts(ms)
  PROVE  Request!RunFrom(ms, i)[1] = ms[i] /\ i \in DOMAIN ms /\ i \in Nat
<1>1. ms \in Seq(Request!Messages) /\ i \in DOMAIN ms /\ i \in Nat /\ i <= Len(ms) /\ i >= 1
  BY DEF Shaped, Starts
<1>2. PICK e \in i..Len(ms) : Request!RunFrom(ms, i) = SubSeq(ms, i, e)
  BY <1>1, RunFromIs, Zenon
<1>3. i \in 1..(Len(ms) + 1) /\ e \in (i - 1)..Len(ms) /\ 1 \in 1..(e - i + 1) /\ i + 1 - 1 = i
  BY <1>1
<1>4. \A k \in 1..(e - i + 1) : SubSeq(ms, i, e)[k] = ms[i + k - 1]
  BY <1>1, <1>3, SubSeqIs, ZenonT(40)
<1> QED
  BY <1>1, <1>2, <1>3, <1>4, Zenon

(* The messages in the item s of what is sent.                              *)
Parts(items, s) == {items[s].parts[k] : k \in DOMAIN items[s].parts}

(* What Bedrock is sent for the messages ms.                                *)
Answered(ms, items) ==
  /\ \A s \in DOMAIN items : items[s].parts[1].role = "calls" =>
       LET A == AnswersTo(ms, items[s].parts[1])
       IN A # {} => s + 1 \in DOMAIN items /\ Parts(items, s + 1) = {ms[j] : j \in A}
  /\ \A j \in DOMAIN ms : \E s \in DOMAIN items : ms[j] \in Parts(items, s)

(* The start positions are finitely many.                                   *)
LEMMA StartsFinite ==
  ASSUME NEW ms, Shaped(ms), NEW S \in SUBSET DOMAIN ms
  PROVE  S \in SUBSET Nat /\ IsFiniteSet(S) /\ Cardinality(S) \in Nat
<1>1. Len(ms) \in Nat /\ DOMAIN ms = 1..Len(ms)
  BY DEF Shaped
<1>2. IsFiniteSet(1..Len(ms))
  BY <1>1, FS_Interval
<1>3. IsFiniteSet(S)
  BY <1>1, <1>2, FS_Subset
<1> QED
  BY <1>1, <1>3, FS_CardinalityType

(* The requests count and order as this module does.                        *)
LEMMA SameOrder ==
  /\ \A S : Request!Cardinality(S) = Cardinality(S)
  /\ \A S : Request!InOrder(S) = InOrder(S)
<1>1. \A S : Request!Cardinality(S) = Cardinality(S)
  BY Zenon DEF Request!Cardinality, Cardinality
<1>3. \A S : Request!InOrder(S) = InOrder(S)
  BY Zenon DEF Request!InOrder, InOrder, Request!Below, Below, Request!Cardinality, Cardinality
<1> QED
  BY <1>1, <1>3

(* The runs are sent one after another.                                     *)
LEMMA CoalescedIs ==
  ASSUME NEW ms, Shaped(ms), NEW items, items = Request!CoalesceToolResults(ms)
  PROVE  /\ Cardinality(Starts(ms)) \in Nat
         /\ DOMAIN items = 1..Cardinality(Starts(ms))
         /\ Len(items) = Cardinality(Starts(ms))
         /\ \A s \in DOMAIN items :
              /\ InOrder(Starts(ms))[s] \in Starts(ms)
              /\ items[s].parts = Request!RunFrom(ms, InOrder(Starts(ms))[s])
<1> DEFINE B == Starts(ms)
           starts == InOrder(B)
<1>1. B \in SUBSET Nat /\ IsFiniteSet(B) /\ Cardinality(B) \in Nat
  BY StartsFinite DEF Starts
<1>2. DOMAIN starts = 1..Cardinality(B) /\ \A s \in 1..Cardinality(B) : starts[s] \in B
  BY <1>1, InOrderIs
<1>3. items = [s \in DOMAIN starts |->
                 Request!Item(Request!BedrockRole(ms[starts[s]]),
                              Request!RunFrom(ms, starts[s]))]
  BY SameOrder DEF Request!CoalesceToolResults, Starts
<1> HIDE DEF starts, B
<1>4. DOMAIN items = 1..Cardinality(B) /\ Len(items) = Cardinality(B)
  BY <1>1, <1>2, <1>3
<1>5. \A s \in DOMAIN items : items[s].parts = Request!RunFrom(ms, starts[s])
  BY <1>3 DEF Request!Item
<1> QED
  BY <1>1, <1>2, <1>4, <1>5 DEF starts, B

(* The system messages are sent together.                                   *)
LEMMA PickedIs ==
  ASSUME NEW ms, Shaped(ms), NEW S \in SUBSET DOMAIN ms, NEW picked,
         picked = Request!PickedAt(ms, S)
  PROVE  /\ picked = <<>> <=> S = {}
         /\ S # {} => \E i \in S : picked[1] = ms[i]
         /\ \A j \in S : \E k \in DOMAIN picked : picked[k] = ms[j]
<1> DEFINE f == InOrder(S)
           c == Cardinality(S)
<1>1. S \in SUBSET Nat /\ IsFiniteSet(S) /\ c \in Nat
  BY StartsFinite
<1>2. /\ DOMAIN f = 1..c /\ \A k \in 1..c : f[k] \in S
      /\ \A j \in S : \E k \in 1..c : f[k] = j
  BY <1>1, InOrderIs
<1>3. picked = [k \in 1..c |-> ms[f[k]]]
  BY SameOrder DEF Request!PickedAt
<1>4. c = 0 <=> S = {}
  BY <1>1, FS_EmptySet
<1> HIDE DEF f, c
<1>5. picked = <<>> <=> c = 0
  <2>1. DOMAIN picked = 1..c
    BY <1>3
  <2>2. c # 0 => 1 \in DOMAIN picked
    BY <1>1, <2>1
  <2>3. c = 0 => picked = <<>>
    BY <1>3
  <2> QED
    BY <2>2, <2>3
<1>6. S # {} => 1 \in 1..c
  BY <1>1, <1>4
<1> QED
  BY <1>2, <1>3, <1>4, <1>5, <1>6

(* Two sequences in a row, element by element.                              *)
LEMMA OneAfterTheOther ==
  ASSUME NEW X, NEW a \in Seq(X), NEW b \in Seq(X)
  PROVE  /\ a \o b \in Seq(X) /\ Len(a \o b) = Len(a) + Len(b)
         /\ a \o b = [i \in 1..(Len(a) + Len(b)) |->
                       IF i <= Len(a) THEN a[i] ELSE b[i - Len(a)]]
<1> DEFINE f == [i \in 1..(Len(a) + Len(b)) |-> IF i <= Len(a) THEN a[i] ELSE b[i - Len(a)]]
<1>1. a \o b \in Seq(X) /\ Len(a \o b) = Len(a) + Len(b)
  OBVIOUS
<1>2. f \in Seq(X) /\ Len(f) = Len(a) + Len(b)
  <2>1. \A i \in 1..(Len(a) + Len(b)) : f[i] \in X
    OBVIOUS
  <2>2. Len(a) + Len(b) \in Nat
    OBVIOUS
  <2> QED
    BY <2>1, <2>2
<1>3. \A i \in 1..(Len(a) + Len(b)) : (a \o b)[i] = f[i]
  OBVIOUS
<1> DEFINE c == a \o b
           m == Len(a) + Len(b)
<1> HIDE DEF f, c
<1>4. c = f
  <2>1. /\ c \in Seq(X) /\ Len(c) = m /\ f \in Seq(X) /\ Len(f) = m
        /\ \A i \in 1..m : c[i] = f[i]
    BY <1>1, <1>2, <1>3 DEF c
  <2> HIDE DEF m
  <2>2. \A s, t \in Seq(X) : Len(s) = Len(t) /\ (\A i \in 1..Len(s) : s[i] = t[i]) => s = t
    OBVIOUS
  <2> QED
    BY <2>1, <2>2
<1> QED
  BY <1>1, <1>4 DEF c, f

(* Bedrock is sent the results of every round behind its calls, and every   *)
(* message.                                                                 *)
LEMMA ConverseAnswers ==
  ASSUME NEW ms, Shaped(ms)
  PROVE  Answered(ms, Request!BuildConverseStreamRequest(ms))
<1> DEFINE Sys == {i \in DOMAIN ms : ms[i].role = "system"}
           system == Request!PickedAt(ms, Sys)
           head == IF system = <<>> THEN <<>> ELSE <<Request!Item("system", system)>>
           tail == Request!CoalesceToolResults(ms)
           items == head \o tail
           B == Starts(ms)
           f == InOrder(B)
           n == Cardinality(B)
           d == IF system = <<>> THEN 0 ELSE 1
<1>1. Request!BuildConverseStreamRequest(ms) = items
  BY DEF Request!BuildConverseStreamRequest
<1>2. /\ system = <<>> <=> Sys = {}
      /\ Sys # {} => \E i \in Sys : system[1] = ms[i]
      /\ \A j \in Sys : \E k \in DOMAIN system : system[k] = ms[j]
  <2>1. Sys \in SUBSET DOMAIN ms
    OBVIOUS
  <2> HIDE DEF Sys
  <2> QED
    BY <2>1, PickedIs
<1>3. /\ n \in Nat /\ DOMAIN tail = 1..n /\ Len(tail) = n
      /\ \A s \in 1..n : f[s] \in B /\ tail[s].parts = Request!RunFrom(ms, f[s])
  BY CoalescedIs
<1>4. B \in SUBSET Nat /\ IsFiniteSet(B)
  BY StartsFinite, Zenon DEF Starts
<1>5. \A i \in Sys : i \in DOMAIN ms /\ ms[i].role = "system"
  OBVIOUS
<1>14. \A j \in DOMAIN ms : ms[j].role = "system" => j \in Sys
  OBVIOUS
<1> HIDE DEF Sys, system, tail
<1> DEFINE X == {tail[s] : s \in 1..n} \cup {Request!Item("system", system)}
<1>6. /\ d \in {0, 1} /\ head \in Seq(X) /\ Len(head) = d /\ DOMAIN head = 1..d
      /\ d = 1 => head[1].parts = system /\ system # <<>>
      /\ d = 0 => system = <<>>
  <2>1. CASE system = <<>>
    <3>1. d = 0 /\ head = <<>>
      BY <2>1
    <3> QED
      BY <2>1, <3>1
  <2>2. CASE system # <<>>
    <3>1. d = 1 /\ head = <<Request!Item("system", system)>>
      BY <2>2
    <3>2. Request!Item("system", system).parts = system
      BY DEF Request!Item
    <3> HIDE DEF d, head
    <3> QED
      BY <2>2, <3>1, <3>2
  <2> QED
    BY <2>1, <2>2
<1>15. tail \in Seq(X)
  <2>1. tail = [s \in 1..n |-> tail[s]]
    BY CoalescedIs, Zenon DEF Request!CoalesceToolResults, tail
  <2> QED
    BY <1>3, <2>1
<1> HIDE DEF head, X
<1>7. items = [s \in 1..(d + n) |-> IF s <= d THEN head[s] ELSE tail[s - d]]
  <2>1. head \o tail = [s \in 1..(Len(head) + Len(tail)) |->
                          IF s <= Len(head) THEN head[s] ELSE tail[s - Len(head)]]
    BY <1>6, <1>15, OneAfterTheOther, Zenon
  <2> QED
    BY <1>3, <1>6, <2>1, Zenon
<1> HIDE DEF items, B, f, n, d
<1>8. DOMAIN items = 1..(d + n)
  BY <1>7
<1>9. ASSUME NEW s \in 1..n
      PROVE  s + d \in DOMAIN items /\ items[s + d].parts = Request!RunFrom(ms, f[s])
  <2>1. s + d \in 1..(d + n) /\ ~(s + d <= d) /\ (s + d) - d = s
    BY <1>3, <1>6
  <2> QED
    BY <1>3, <1>7, <1>8, <2>1
<1>10. ASSUME NEW s \in DOMAIN items, items[s].parts[1].role = "calls"
       PROVE  s - d \in 1..n
  <2> SUFFICES ASSUME s <= d PROVE FALSE
    BY <1>3, <1>6, <1>8
  <2>1. d = 1 /\ s = 1
    BY <1>6, <1>8
  <2>2. items[1] = head[1]
    BY <1>7, <1>8, <2>1
  <2>3. items[s].parts = system /\ system # <<>>
    BY <1>6, <2>1, <2>2
  <2> QED
    BY <1>2, <1>5, <1>10, <2>3
<1>11. ASSUME NEW s \in DOMAIN items, items[s].parts[1].role = "calls",
              AnswersTo(ms, items[s].parts[1]) # {}
       PROVE  /\ s + 1 \in DOMAIN items
              /\ Parts(items, s + 1) = {ms[j] : j \in AnswersTo(ms, items[s].parts[1])}
  <2> DEFINE k == s - d
             i == f[k]
  <2>1. k \in 1..n /\ k + d = s /\ s \in Nat /\ d \in Nat
    BY <1>3, <1>6, <1>8, <1>10, <1>11
  <2> HIDE DEF k
  <2>2. i \in B /\ items[s].parts = Request!RunFrom(ms, i)
    BY <1>3, <1>9, <2>1
  <2> HIDE DEF i
  <2>3. items[s].parts[1] = ms[i] /\ i \in DOMAIN ms
    BY <2>2, RunBegins DEF B
  <2>4. /\ i + 1 \in B
        /\ LET run == Request!RunFrom(ms, i + 1)
           IN {run[l] : l \in DOMAIN run} = {ms[j] : j \in AnswersTo(ms, ms[i])}
    BY <1>11, <2>3, ResultsAreARun DEF B
  <2>5. k + 1 \in 1..n /\ f[k + 1] = i + 1
    BY <1>4, <2>1, <2>4, NextInOrder DEF f, n, i
  <2>6. (k + 1) + d = s + 1
    BY <1>3, <2>1
  <2>7. s + 1 \in DOMAIN items /\ items[s + 1].parts = Request!RunFrom(ms, i + 1)
    BY <1>9, <2>5, <2>6
  <2> QED
    BY <2>3, <2>4, <2>7, Zenon DEF Parts
<1>12. ASSUME NEW j \in DOMAIN ms
       PROVE  \E s \in DOMAIN items : ms[j] \in Parts(items, s)
  <2>1. CASE ms[j].role = "system"
    <3>1. j \in Sys
      BY <1>14, <2>1
    <3>2. d = 1
      BY <1>2, <1>6, <3>1
    <3>3. 1 \in DOMAIN items /\ items[1].parts = system
      BY <1>3, <1>6, <1>7, <1>8, <3>2
    <3> QED
      BY <1>2, <3>1, <3>3 DEF Parts
  <2>2. CASE ms[j].role # "system"
    <3>1. PICK i \in B : LET run == Request!RunFrom(ms, i) IN \E k \in DOMAIN run : run[k] = ms[j]
      BY <2>2, EveryMessageInARun DEF B
    <3>2. PICK s \in 1..n : f[s] = i
      BY <1>4, InOrderIs DEF f, n
    <3>3. s + d \in DOMAIN items /\ items[s + d].parts = Request!RunFrom(ms, i)
      BY <1>9, <3>2
    <3> QED
      BY <3>1, <3>3 DEF Parts
  <2> QED
    BY <2>1, <2>2
<1>13. Answered(ms, items)
  BY <1>11, <1>12, Zenon DEF Answered
<1> QED
  BY <1>1, <1>13

(* What is left of a history that is shaped so, behind notices, is.         *)
LEMMA ShiftKeepsShape ==
  ASSUME NEW h, Shaped(h), NEW g \in Seq(Request!Messages), NEW d \in Int,
         Request!SystemsLead(g),
         \A i \in DOMAIN g : g[i].role # "system" => i + d \in DOMAIN h /\ g[i] = h[i + d]
  PROVE  Shaped(g)
<1>1. DOMAIN g \subseteq Nat /\ DOMAIN h \subseteq Nat
  BY DEF Shaped
<1>2. ASSUME NEW i \in DOMAIN g, NEW j \in DOMAIN g, i < j, g[i].role # "system"
      PROVE  Precedes(g[i], g[j])
  <2>1. g[j].role # "system"
    BY <1>2 DEF Request!SystemsLead
  <2>2. i + d \in DOMAIN h /\ j + d \in DOMAIN h /\ g[i] = h[i + d] /\ g[j] = h[j + d]
    BY <1>2, <2>1
  <2>3. i + d < j + d
    BY <1>1, <1>2
  <2>4. h[i + d].role # "system"
    BY <1>2, <2>2
  <2> QED
    BY <2>2, <2>3, <2>4 DEF Shaped
<1>3. ASSUME NEW i \in DOMAIN g, NEW j \in DOMAIN g, j = i + 1,
             g[i].role = "tool", g[j].role = "tool"
      PROVE  g[i].turn = g[j].turn /\ g[i].round = g[j].round
  <2>1. i + d \in DOMAIN h /\ j + d \in DOMAIN h /\ g[i] = h[i + d] /\ g[j] = h[j + d]
    BY <1>3
  <2>2. j + d = (i + d) + 1
    BY <1>1, <1>3
  <2>3. h[i + d].role = "tool" /\ h[j + d].role = "tool"
    BY <1>3, <2>1
  <2> QED
    BY <2>1, <2>2, <2>3 DEF Shaped
<1> QED
  BY <1>2, <1>3 DEF Shaped

(* The system prompt in front of a history.                                 *)
LEMMA PromptInFront ==
  ASSUME NEW h, Shaped(h), NEW prompt, NEW ms, ms = Request!WithSystemPrompt(h, prompt)
  PROVE  /\ Shaped(ms)
         /\ \A j \in DOMAIN h : \E k \in DOMAIN ms : ms[k] = h[j]
         /\ \A k \in DOMAIN ms : ms[k].role # "system" => \E j \in DOMAIN h : ms[k] = h[j]
<1>1. CASE prompt = {}
  BY <1>1 DEF Request!WithSystemPrompt
<1>2. CASE prompt # {}
  <2> DEFINE M == Request!Messages
             p == Request!SystemPrompt
             n == Len(h)
  <2>1. h \in Seq(M) /\ n \in Nat /\ DOMAIN h = 1..n
    BY DEF Shaped
  <2>2. p.role = "system" /\ p \in M
    BY DEF Request!SystemPrompt, Request!Notice, Request!Message, Request!Messages,
           Request!Roles
  <2> HIDE DEF p, M
  <2>3. <<p>> \in Seq(M) /\ Len(<<p>>) = 1 /\ <<p>>[1] = p
    BY <2>2
  <2>4. ms = <<p>> \o h
    BY <1>2 DEF Request!WithSystemPrompt, p
  <2> DEFINE one == <<p>>
  <2> HIDE DEF one
  <2>5. /\ ms \in Seq(M)
        /\ ms = [i \in 1..(Len(one) + n) |-> IF i <= Len(one) THEN one[i] ELSE h[i - Len(one)]]
    <3>1. ms = one \o h /\ one \in Seq(M)
      BY <2>3, <2>4 DEF one
    <3> QED
      BY <2>1, <3>1, OneAfterTheOther
  <2>6. Len(one) = 1 /\ one[1] = p
    BY <2>3 DEF one
  <2> HIDE DEF n
  <2>7. /\ DOMAIN ms = 1..(1 + n) /\ ms[1] = p
        /\ \A i \in 1..(1 + n) : i # 1 => i - 1 \in DOMAIN h /\ ms[i] = h[i - 1]
    BY <2>1, <2>5, <2>6
  <2>8. \A i \in DOMAIN ms : ms[i].role # "system" => i + (-1) \in DOMAIN h /\ ms[i] = h[i + (-1)]
    <3>1. \A i \in 1..(1 + n) : i + (-1) = i - 1
      OBVIOUS
    <3> QED
      BY <2>2, <2>7, <3>1
  <2>9. Request!SystemsLead(ms)
    <3> SUFFICES ASSUME NEW i \in DOMAIN ms, NEW j \in DOMAIN ms, i < j, ms[j].role = "system"
                 PROVE  ms[i].role = "system"
      BY DEF Request!SystemsLead
    <3>1. CASE i = 1
      BY <2>2, <2>7, <3>1
    <3>2. CASE i # 1
      <4>1. /\ i - 1 \in DOMAIN h /\ j - 1 \in DOMAIN h /\ i - 1 < j - 1
            /\ ms[i] = h[i - 1] /\ ms[j] = h[j - 1]
        BY <2>1, <2>7, <3>2
      <4>2. Request!SystemsLead(h)
        BY DEF Shaped
      <4> QED
        BY <4>1, <4>2 DEF Request!SystemsLead
    <3> QED
      BY <3>1, <3>2
  <2>10. Shaped(ms)
    <3>1. -1 \in Int /\ ms \in Seq(Request!Messages)
      BY <2>5 DEF M
    <3> QED
      BY <2>8, <2>9, <3>1, ShiftKeepsShape, Zenon
  <2>11. ASSUME NEW j \in DOMAIN h
         PROVE  \E k \in DOMAIN ms : ms[k] = h[j]
    <3>1. j + 1 \in 1..(1 + n) /\ j + 1 # 1 /\ (j + 1) - 1 = j
      BY <2>1
    <3>2. j + 1 \in DOMAIN ms /\ ms[j + 1] = h[j]
      BY <2>7, <3>1
    <3> QED
      BY <3>2
  <2>12. \A k \in DOMAIN ms : ms[k].role # "system" => \E j \in DOMAIN h : ms[k] = h[j]
    BY <2>8
  <2> QED
    BY <2>10, <2>11, <2>12
<1> QED
  BY <1>1, <1>2

(* A message that comes after all others.                                   *)
LEMMA AppendKeepsShape ==
  ASSUME NEW h, Shaped(h), NEW m \in Request!Messages, m.role # "system",
         \A i \in DOMAIN h : h[i].role # "system" => Precedes(h[i], m),
         h # <<>> /\ h[Len(h)].role = "tool" /\ m.role = "tool" =>
           h[Len(h)].turn = m.turn /\ h[Len(h)].round = m.round
  PROVE  Shaped(Append(h, m))
<1> DEFINE g == Append(h, m)
           n == Len(h)
<1>1. h \in Seq(Request!Messages) /\ n \in Nat /\ DOMAIN h = 1..n
  BY DEF Shaped
<1>2. /\ g \in Seq(Request!Messages) /\ DOMAIN g = 1..(n + 1) /\ g[n + 1] = m
      /\ \A i \in 1..n : g[i] = h[i]
  BY <1>1
<1>3. n # 0 => h # <<>>
  OBVIOUS
<1> HIDE DEF g
<1>4. \A i \in DOMAIN g : (i \in 1..n /\ i \in DOMAIN h /\ g[i] = h[i]) \/ (i = n + 1 /\ g[i] = m)
  BY <1>1, <1>2
<1>5. Request!SystemsLead(g)
  <2> SUFFICES ASSUME NEW i \in DOMAIN g, NEW j \in DOMAIN g, i < j, g[j].role = "system"
               PROVE  g[i].role = "system"
    BY DEF Request!SystemsLead
  <2>1. j \in 1..n /\ j \in DOMAIN h /\ g[j] = h[j]
    BY <1>4
  <2>2. i \in DOMAIN h /\ g[i] = h[i]
    BY <1>1, <1>2, <1>4, <2>1
  <2> QED
    BY <2>1, <2>2 DEF Shaped, Request!SystemsLead
<1>6. ASSUME NEW i \in DOMAIN g, NEW j \in DOMAIN g, i < j, g[i].role # "system"
      PROVE  Precedes(g[i], g[j])
  <2>1. i \in DOMAIN h /\ g[i] = h[i]
    BY <1>1, <1>2, <1>4, <1>6
  <2> QED
    BY <1>4, <1>6, <2>1 DEF Shaped
<1>7. ASSUME NEW i \in DOMAIN g, NEW j \in DOMAIN g, j = i + 1,
             g[i].role = "tool", g[j].role = "tool"
      PROVE  g[i].turn = g[j].turn /\ g[i].round = g[j].round
  <2>1. i \in DOMAIN h /\ g[i] = h[i] /\ i \in 1..n
    BY <1>1, <1>2, <1>4, <1>7
  <2>2. CASE j = n + 1
    <3>1. i = n /\ n # 0 /\ g[j] = m
      BY <1>1, <1>2, <1>7, <2>1, <2>2
    <3> QED
      BY <1>3, <1>7, <2>1, <3>1
  <2>3. CASE j # n + 1
    <3>1. j \in DOMAIN h /\ g[j] = h[j]
      BY <1>4, <2>3
    <3> QED
      BY <1>7, <2>1, <3>1 DEF Shaped
  <2> QED
    BY <2>2, <2>3
<1>8. Shaped(g)
  BY <1>2, <1>5, <1>6, <1>7 DEF Shaped
<1> QED
  BY <1>8 DEF g

(* The notices of a history are its first messages.                         *)
LEMMA NoticesAreAPrefix ==
  ASSUME NEW h, Shaped(h)
  PROVE  /\ Request!Leading(h) \in 0..Len(h)
         /\ \A i \in DOMAIN h : h[i].role = "system" <=> i <= Request!Leading(h)
<1> DEFINE S == {i \in DOMAIN h : h[i].role = "system"}
           c == Cardinality(S)
           n == Len(h)
<1>1. n \in Nat /\ DOMAIN h = 1..n /\ Request!SystemsLead(h)
  BY DEF Shaped
<1>2. \A k \in Nat : IsFiniteSet(1..k) /\ Cardinality(1..k) = k
  <2> SUFFICES ASSUME NEW k \in Nat PROVE IsFiniteSet(1..k) /\ Cardinality(1..k) = k
    OBVIOUS
  <2>1. IsFiniteSet(1..k) /\ Cardinality(1..k) = IF 1 > k THEN 0 ELSE k - 1 + 1
    BY FS_Interval
  <2> QED
    BY <2>1
<1>3. S \subseteq 1..n
  BY <1>1
<1>4. IsFiniteSet(S) /\ c <= n /\ c \in Nat
  BY <1>1, <1>2, <1>3, FS_Subset, FS_CardinalityType
<1>5. S \subseteq 1..c
  <2> SUFFICES ASSUME NEW i \in S PROVE i \in 1..c
    OBVIOUS
  <2>1. 1..i \subseteq S
    <3>1. \A j \in 1..i : j \in DOMAIN h /\ (j < i \/ j = i)
      BY <1>1
    <3>2. \A j \in 1..i : h[j].role = "system"
      BY <1>1, <3>1 DEF Request!SystemsLead
    <3> QED
      BY <3>1, <3>2
  <2>2. i \in Nat \ {0}
    BY <1>1
  <2>3. Cardinality(1..i) = i
    BY <1>2, <2>2
  <2> HIDE DEF S
  <2>4. Cardinality(1..i) <= c
    BY <1>4, <2>1, FS_Subset, Zenon
  <2> HIDE DEF c
  <2> QED
    BY <1>4, <2>2, <2>3, <2>4
<1> HIDE DEF S
<1>6. S = 1..c
  <2>1. IsFiniteSet(1..c) /\ Cardinality(1..c) = c
    <3> HIDE DEF c
    <3> QED
      BY <1>2, <1>4
  <2> QED
    BY <1>5, <2>1, FS_Subset, Zenon
<1>7. Request!Leading(h) = c
  BY SameOrder, Zenon DEF Request!Leading, S, c
<1> HIDE DEF c
<1>8. \A i \in DOMAIN h : h[i].role = "system" <=> i \in S
  BY DEF S
<1> QED
  BY <1>1, <1>4, <1>6, <1>7, <1>8

(* A compaction leaves the notices, adds one, and keeps what it keeps of    *)
(* the others in its place.                                                 *)
LEMMA CompactionIs ==
  ASSUME NEW h, Shaped(h), NEW keep \in Nat, NEW g, g = Request!CompactHistory(h, keep)
  PROVE  /\ Shaped(g)
         /\ \A i \in DOMAIN g : g[i] = Request!Notice \/ \E k \in DOMAIN h : g[i] = h[k]
<1>1. CASE Request!NonSystem(h) <= keep
  BY <1>1 DEF Request!CompactHistory
<1>2. CASE ~(Request!NonSystem(h) <= keep)
  <2> DEFINE l == Request!Leading(h)
             n == Len(h)
             d == n - keep - l - 1
             M == Request!Messages
             notice == Request!Notice
             one == <<notice>>
             a == SubSeq(h, 1, l)
             z == SubSeq(h, n - keep + 1, n)
             b == a \o one
  <2>1. /\ l \in 0..n /\ n \in Nat /\ DOMAIN h = 1..n /\ h \in Seq(M)
        /\ \A i \in DOMAIN h : h[i].role = "system" <=> i <= l
    BY NoticesAreAPrefix DEF Shaped
  <2>2. notice \in M /\ notice.role = "system"
    BY DEF Request!Notice, Request!Message, Request!Messages, Request!Roles
  <2>3. g = b \o z
    BY <1>2, Zenon DEF Request!CompactHistory
  <2>4. n - l > keep
    BY <1>2, <2>1 DEF Request!NonSystem
  <2> HIDE DEF l, M, notice
  <2>5. one \in Seq(M) /\ Len(one) = 1 /\ one[1] = notice
    BY <2>2
  <2>6. a \in Seq(M) /\ Len(a) = l /\ \A k \in 1..l : a[k] = h[k]
    <3>1. 1 \in 1..(Len(h) + 1) /\ l \in (1 - 1)..Len(h) /\ l - 1 + 1 = l
      BY <2>1
    <3>2. \A k \in 1..l : 1 + k - 1 = k
      BY <2>1
    <3> HIDE DEF n
    <3> QED
      BY <2>1, <3>1, <3>2, SubSeqIs
  <2>7. z \in Seq(M) /\ Len(z) = keep /\ \A k \in 1..keep : z[k] = h[n - keep + k]
    <3> DEFINE s == n - keep + 1
    <3>1. s \in 1..(Len(h) + 1) /\ n \in (s - 1)..Len(h) /\ n - s + 1 = keep
      BY <2>1, <2>4
    <3>2. \A k \in 1..keep : s + k - 1 = n - keep + k
      BY <2>1
    <3> HIDE DEF n, s
    <3>3. /\ SubSeq(h, s, n) \in Seq(M) /\ Len(SubSeq(h, s, n)) = n - s + 1
          /\ \A k \in 1..(n - s + 1) : SubSeq(h, s, n)[k] = h[s + k - 1]
      BY <2>1, <3>1, SubSeqIs
    <3>4. z = SubSeq(h, s, n)
      BY DEF s
    <3> HIDE DEF z
    <3> QED
      BY <3>1, <3>2, <3>3, <3>4
  <2> HIDE DEF one, a, z
  <2>8. b \in Seq(M) /\ Len(b) = l + 1 /\ \A i \in 1..(l + 1) : b[i] = IF i <= l THEN h[i] ELSE notice
    <3>1. /\ b \in Seq(M) /\ Len(b) = Len(a) + Len(one)
          /\ b = [i \in 1..(Len(a) + Len(one)) |->
                    IF i <= Len(a) THEN a[i] ELSE one[i - Len(a)]]
      BY <2>5, <2>6, OneAfterTheOther, Zenon
    <3> HIDE DEF b
    <3>2. \A i \in 1..(l + 1) : (i <= l /\ i \in 1..l) \/ (~(i <= l) /\ i - l = 1)
      BY <2>1
    <3> QED
      BY <2>5, <2>6, <3>1, <3>2
  <2> HIDE DEF b
  <2>9. /\ g \in Seq(M) /\ DOMAIN g = 1..(l + 1 + keep)
        /\ \A i \in 1..(l + 1) : g[i] = IF i <= l THEN h[i] ELSE notice
        /\ \A i \in 1..keep : g[l + 1 + i] = h[n - keep + i]
    <3>1. /\ g \in Seq(M)
          /\ g = [i \in 1..(Len(b) + Len(z)) |->
                    IF i <= Len(b) THEN b[i] ELSE z[i - Len(b)]]
      <4>1. b \in Seq(M) /\ z \in Seq(M)
        BY <2>7, <2>8
      <4> QED
        BY <2>3, <4>1, OneAfterTheOther, Zenon
    <3>2. DOMAIN g = 1..(l + 1 + keep)
      BY <2>7, <2>8, <3>1
    <3>3. \A i \in 1..(l + 1) : i \in 1..(l + 1 + keep) /\ i <= l + 1
      BY <2>1
    <3>4. \A i \in 1..keep : /\ l + 1 + i \in 1..(l + 1 + keep) /\ ~(l + 1 + i <= l + 1)
                             /\ l + 1 + i - (l + 1) = i
      BY <2>1
    <3>5. \A i \in 1..(l + 1) : g[i] = b[i]
      BY <2>7, <2>8, <3>1, <3>3
    <3>6. \A i \in 1..keep : g[l + 1 + i] = z[i]
      BY <2>7, <2>8, <3>1, <3>4, SMTT(30)
    <3> QED
      BY <2>7, <2>8, <3>1, <3>2, <3>5, <3>6, Zenon
  <2>10. \A i \in DOMAIN g : i > l + 1 =>
           i + d \in DOMAIN h /\ l < i + d /\ g[i] = h[i + d]
    <3> SUFFICES ASSUME NEW i \in DOMAIN g, i > l + 1
                 PROVE  i + d \in DOMAIN h /\ l < i + d /\ g[i] = h[i + d]
      OBVIOUS
    <3>1. i \in Nat /\ i <= l + 1 + keep /\ l \in Nat /\ n \in Nat
      BY <2>1, <2>9
    <3>2. i - l - 1 \in 1..keep /\ l + 1 + (i - l - 1) = i
      BY <3>1
    <3>3. n - keep + (i - l - 1) = i + d
      BY <3>1
    <3>4. i + d \in 1..n /\ l < i + d
      BY <2>4, <3>1
    <3> HIDE DEF d, n
    <3> QED
      BY <2>1, <2>9, <3>2, <3>3, <3>4, Zenon
  <2>11. \A i \in DOMAIN g : g[i].role = "system" <=> i <= l + 1
    <3> SUFFICES ASSUME NEW i \in DOMAIN g PROVE g[i].role = "system" <=> i <= l + 1
      OBVIOUS
    <3> HIDE DEF d, n
    <3>1. CASE i > l + 1
      <4>1. i + d \in DOMAIN h /\ l < i + d /\ g[i] = h[i + d]
        BY <2>10, <3>1
      <4>2. ~(i + d <= l) /\ ~(i <= l + 1)
        BY <2>1, <2>9, <3>1, <4>1
      <4> QED
        BY <2>1, <4>1, <4>2
    <3>2. CASE ~(i > l + 1)
      <4>1. i \in 1..(l + 1) /\ i <= l + 1
        BY <2>1, <2>9, <3>2
      <4>2. i <= l => i \in DOMAIN h
        BY <2>1, <4>1
      <4> QED
        BY <2>1, <2>2, <2>9, <4>1, <4>2
    <3> QED
      BY <3>1, <3>2
  <2>12. Request!SystemsLead(g)
    <3> SUFFICES ASSUME NEW i \in DOMAIN g, NEW j \in DOMAIN g, i < j, j <= l + 1
                 PROVE  i <= l + 1
      BY <2>11 DEF Request!SystemsLead
    <3> QED
      BY <2>1, <2>9
  <2>13. \A i \in DOMAIN g : i <= l + 1 => g[i] = notice \/ \E k \in DOMAIN h : g[i] = h[k]
    <3> SUFFICES ASSUME NEW i \in DOMAIN g, i <= l + 1
                 PROVE  g[i] = notice \/ \E k \in DOMAIN h : g[i] = h[k]
      OBVIOUS
    <3>1. i \in 1..(l + 1) /\ (i <= l => i \in DOMAIN h)
      BY <2>1, <2>9
    <3> QED
      BY <2>9, <3>1
  <2>15. d \in Int /\ \A i \in DOMAIN g : i > l + 1 \/ i <= l + 1
    BY <2>1, <2>9
  <2> HIDE DEF d
  <2>14. Shaped(g)
    <3>1. \A i \in DOMAIN g : g[i].role # "system" => i + d \in DOMAIN h /\ g[i] = h[i + d]
      BY <2>10, <2>11, <2>15
    <3>2. g \in Seq(Request!Messages)
      BY <2>9 DEF M
    <3> QED
      BY <2>12, <2>15, <3>1, <3>2, ShiftKeepsShape, Zenon
  <2>16. \A i \in DOMAIN g : g[i] = notice \/ \E k \in DOMAIN h : g[i] = h[k]
    BY <2>10, <2>13, <2>15
  <2> QED
    BY <2>14, <2>16 DEF notice
<1> QED
  BY <1>1, <1>2

(* What the history holds, with what a turn adds to it.                     *)
LEMMA HistoryTypes ==
  ASSUME HistoryInv
  PROVE  /\ history \in Seq(Request!Messages) /\ Len(history) \in Nat
         /\ DOMAIN history = 1..Len(history)
         /\ \A i \in DOMAIN history : history[i].turn \in Nat /\ history[i].round \in Nat
         /\ turn.id \in Nat /\ turn.asked \in Nat /\ turn.open \in SUBSET Nat
         /\ turn.over \in BOOLEAN
<1>1. history \in Seq(Request!Messages)
  BY DEF HistoryInv, Shaped
<1>2. \A i \in DOMAIN history : history[i] \in Request!Messages
  BY <1>1
<1> QED
  BY <1>1, <1>2 DEF HistoryInv, Request!Messages

(* A turn's next message comes after all others.                            *)
LEMMA TurnAppends ==
  ASSUME HistoryInv, NEW role \in {"user", "calls", "tool", "assistant"},
         NEW t \in Nat, NEW r \in Nat, NEW k \in Nat,
         NEW m, m = Request!Message(role, t, r, k),
         \/ role # "tool" /\ t > turn.id
         \/ role # "tool" /\ ~turn.over /\ t = turn.id /\ r > turn.asked
         \/ ~turn.over /\ t = turn.id /\ r = turn.asked /\ role = "tool" /\ turn.open # {},
         history' = Append(history, m)
  PROVE  /\ Shaped(history')
         /\ history' # <<>> /\ history'[Len(history')] = m
         /\ \A i \in DOMAIN history' :
              history'[i] = m \/ \E j \in DOMAIN history : history'[i] = history[j]
<1>1. /\ m \in Request!Messages /\ m.role = role /\ m.turn = t /\ m.round = r
  BY DEF Request!Message, Request!Messages, Request!Roles
<1>2. ASSUME NEW i \in DOMAIN history
      PROVE  Precedes(history[i], m)
  <2>1. /\ history[i].turn \in Nat /\ history[i].round \in Nat
        /\ history[i].turn <= turn.id
        /\ ~turn.over /\ history[i].turn = turn.id => history[i].round <= turn.asked
        /\ turn.id \in Nat /\ turn.asked \in Nat
    BY HistoryTypes DEF HistoryInv
  <2>2. CASE t > turn.id
    BY <1>1, <2>1, <2>2 DEF Precedes
  <2>3. CASE ~turn.over /\ t = turn.id /\ r > turn.asked
    BY <1>1, <2>1, <2>3 DEF Precedes
  <2>4. CASE ~turn.over /\ t = turn.id /\ r = turn.asked /\ role = "tool"
    BY <1>1, <2>1, <2>4 DEF Precedes
  <2> QED
    BY <2>2, <2>3, <2>4
<1>3. ASSUME history # <<>>, history[Len(history)].role = "tool", m.role = "tool"
      PROVE  history[Len(history)].turn = t /\ history[Len(history)].round = r
  <2> DEFINE i == Len(history)
  <2>1. i \in DOMAIN history
    BY <1>3, HistoryTypes
  <2> HIDE DEF i
  <2>3. /\ history[i].turn \in Nat /\ history[i].round \in Nat
        /\ ~turn.over /\ turn.open # {} =>
             history[i].turn = turn.id /\ history[i].round = turn.asked
        /\ turn.id \in Nat /\ turn.asked \in Nat
    BY <2>1, HistoryTypes DEF HistoryInv, i
  <2> QED
    BY <1>1, <1>3, <2>3 DEF i
<1>4. history \in Seq(Request!Messages) /\ Shaped(history)
  BY DEF HistoryInv, Shaped
<1>5. Shaped(Append(history, m))
  BY <1>1, <1>2, <1>3, <1>4, AppendKeepsShape
<1> DEFINE g == Append(history, m)
<1>6. /\ g # <<>> /\ g[Len(g)] = m
      /\ \A i \in DOMAIN g : g[i] = m \/ \E j \in DOMAIN history : g[i] = history[j]
  <2>1. /\ Len(history) \in Nat /\ DOMAIN history = 1..Len(history) /\ Len(g) = Len(history) + 1
        /\ DOMAIN g = 1..(Len(history) + 1) /\ g[Len(history) + 1] = m
        /\ \A i \in 1..Len(history) : g[i] = history[i]
    BY <1>1, <1>4
  <2>2. \A i \in DOMAIN g : i = Len(history) + 1 \/ i \in DOMAIN history
    BY <2>1
  <2>3. g # <<>>
    BY <1>4
  <2> HIDE DEF g
  <2> QED
    BY <2>1, <2>2, <2>3
<1> QED
  BY <1>5, <1>6

(* A history and a turn after a step, with the turn still going on or over. *)
LEMMA TurnGoesOn ==
  ASSUME HistoryInv, Shaped(history'),
         NEW id \in Nat, NEW asked \in Nat, NEW open \in SUBSET Nat, NEW over \in BOOLEAN,
         turn' = [id |-> id, asked |-> asked, open |-> open, over |-> over],
         \A i \in DOMAIN history' : history'[i].turn <= id,
         ~over => /\ history' # <<>>
                  /\ \A i \in DOMAIN history' :
                       history'[i].turn = id => history'[i].round <= asked,
         ~over /\ open # {} =>
           LET last == history'[Len(history')]
           IN last.role \in {"calls", "tool"} /\ last.turn = id /\ last.round = asked
  PROVE  HistoryInv'
<1>1. /\ turn'.id = id /\ turn'.asked = asked /\ turn'.open = open /\ turn'.over = over
      /\ turn' \in [id : Nat, asked : Nat, open : SUBSET Nat, over : BOOLEAN]
  OBVIOUS
<1>2. Shaped(history)'
  BY DEF Shaped, Precedes
<1> QED
  BY <1>1, <1>2 DEF HistoryInv

(* The turn after a step of its own.                                        *)
LEMMA TurnFields ==
  ASSUME HistoryInv
  PROVE  turn = [id |-> turn.id, asked |-> turn.asked, open |-> turn.open, over |-> turn.over]
BY DEF HistoryInv

(* The history starts empty.                                              *)
LEMMA HistoryInit == Request!Init => HistoryInv
<1> SUFFICES ASSUME Request!Init PROVE HistoryInv
  OBVIOUS
<1>1. /\ history = <<>> /\ turn = [id |-> 0, asked |-> 0, open |-> {}, over |-> TRUE]
  BY DEF Request!Init
<1>2. history \in Seq(Request!Messages) /\ DOMAIN history = {}
  BY <1>1
<1>3. Shaped(history)
  BY <1>2 DEF Shaped, Request!SystemsLead
<1>4. turn \in [id : Nat, asked : Nat, open : SUBSET Nat, over : BOOLEAN] /\ turn.over
  BY <1>1
<1> QED
  BY <1>2, <1>3, <1>4 DEF HistoryInv

(* A prompt follows an answer.                                              *)
LEMMA PromptStep ==
  ASSUME HistoryInv, Request!AppendActiveUserMessage
  PROVE  HistoryInv'
<1> DEFINE id == turn.id + 1
           m == Request!Message("user", id, 0, 0)
<1>1. /\ history' = Append(history, m)
      /\ turn' = [id |-> id, asked |-> 0, open |-> {}, over |-> FALSE]
  BY DEF Request!AppendActiveUserMessage, Request!Grows, Request!UserMessage
<1>2. id \in Nat /\ id > turn.id /\ turn.id \in Nat
  BY HistoryTypes
<1>3. m.turn = id /\ m.round = 0
  BY DEF Request!Message
<1> HIDE DEF id, m
<1>4. /\ Shaped(history') /\ history' # <<>>
      /\ \A i \in DOMAIN history' :
           history'[i] = m \/ \E j \in DOMAIN history : history'[i] = history[j]
  BY <1>1, <1>2, TurnAppends DEF m
<1>5. \A j \in DOMAIN history : history[j].turn <= turn.id /\ history[j].turn \in Nat
  BY HistoryTypes DEF HistoryInv
<1>6. \A j \in DOMAIN history : history[j].turn <= id /\ history[j].turn # id
  BY <1>2, <1>5
<1>7. \A i \in DOMAIN history' :
        history'[i].turn <= id /\ (history'[i].turn = id => history'[i].round <= 0)
  BY <1>2, <1>3, <1>4, <1>6
<1> QED
  BY <1>1, <1>2, <1>4, <1>7, TurnGoesOn, Zenon

(* The model's calls open a round.                                          *)
LEMMA CallsStep ==
  ASSUME MaxTools \in Nat, HistoryInv, NEW n \in 1..MaxTools,
         Request!AppendAssistantToolRound(n)
  PROVE  HistoryInv'
<1> DEFINE id == turn.id
           asked == turn.asked + 1
           m == Request!Message("calls", id, asked, n)
<1>1. /\ history' = Append(history, m) /\ ~turn.over
      /\ turn' = [turn EXCEPT !.asked = @ + 1, !.open = 1..n]
  BY DEF Request!AppendAssistantToolRound, Request!Grows, Request!CallsMessage,
         Request!Answering
<1>2. id \in Nat /\ asked \in Nat /\ asked > turn.asked /\ turn.asked \in Nat /\ n \in Nat
  BY HistoryTypes
<1>3. turn' = [id |-> id, asked |-> asked, open |-> 1..n, over |-> FALSE]
  BY <1>1, TurnFields, Zenon DEF HistoryInv
<1>4. m.turn = id /\ m.round = asked /\ m.role = "calls"
  BY DEF Request!Message
<1> HIDE DEF asked, m
<1>5. /\ Shaped(history') /\ history' # <<>> /\ history'[Len(history')] = m
      /\ \A i \in DOMAIN history' :
           history'[i] = m \/ \E j \in DOMAIN history : history'[i] = history[j]
  BY <1>1, <1>2, TurnAppends DEF m
<1>6. \A j \in DOMAIN history :
        /\ history[j].turn <= id /\ history[j].turn \in Nat /\ history[j].round \in Nat
        /\ history[j].turn = id => history[j].round <= turn.asked
  BY <1>1, HistoryTypes DEF HistoryInv
<1>7. \A j \in DOMAIN history :
        history[j].turn <= id /\ (history[j].turn = id => history[j].round <= asked)
  BY <1>2, <1>6
<1>8. \A i \in DOMAIN history' :
        history'[i].turn <= id /\ (history'[i].turn = id => history'[i].round <= asked)
  BY <1>2, <1>4, <1>5, <1>7
<1>9. 1..n \in SUBSET Nat
  OBVIOUS
<1> HIDE DEF id
<1> QED
  BY <1>2, <1>3, <1>4, <1>5, <1>8, <1>9, TurnGoesOn, Zenon

(* A result answers the next of the round's calls.                          *)
LEMMA ResultStep ==
  ASSUME MaxTools \in Nat, HistoryInv, NEW k \in 1..MaxTools, Request!AppendToolResult(k)
  PROVE  HistoryInv'
<1> DEFINE id == turn.id
           asked == turn.asked
           open == turn.open \ {k}
           m == Request!Message("tool", id, asked, k)
<1>1. /\ history' = Append(history, m) /\ ~turn.over /\ k \in turn.open
      /\ turn' = [turn EXCEPT !.open = @ \ {k}]
  BY DEF Request!AppendToolResult, Request!Grows, Request!ResultMessage
<1>2. id \in Nat /\ asked \in Nat /\ k \in Nat /\ open \in SUBSET Nat
  BY HistoryTypes
<1>3. turn' = [id |-> id, asked |-> asked, open |-> open, over |-> FALSE]
  BY <1>1, TurnFields, Zenon DEF HistoryInv
<1>4. m.turn = id /\ m.round = asked /\ m.role = "tool"
  BY DEF Request!Message
<1> HIDE DEF open, m
<1>5. /\ Shaped(history') /\ history' # <<>> /\ history'[Len(history')] = m
      /\ \A i \in DOMAIN history' :
           history'[i] = m \/ \E j \in DOMAIN history : history'[i] = history[j]
  BY <1>1, <1>2, TurnAppends DEF m
<1>6. \A j \in DOMAIN history :
        history[j].turn <= id /\ (history[j].turn = id => history[j].round <= asked)
  BY <1>1 DEF HistoryInv
<1>8. \A i \in DOMAIN history' :
        history'[i].turn <= id /\ (history'[i].turn = id => history'[i].round <= asked)
  BY <1>2, <1>4, <1>5, <1>6
<1> HIDE DEF id, asked
<1> QED
  BY <1>2, <1>3, <1>4, <1>5, <1>8, TurnGoesOn, Zenon

(* The answer ends the turn.                                                *)
LEMMA FinalStep ==
  ASSUME HistoryInv, Request!AppendFinalAssistantMessage
  PROVE  HistoryInv'
<1> DEFINE id == turn.id
           asked == turn.asked
           open == turn.open
           round == asked + 1
           m == Request!Message("assistant", id, round, 0)
<1>1. /\ history' = Append(history, m) /\ ~turn.over
      /\ turn' = [turn EXCEPT !.over = TRUE]
  BY DEF Request!AppendFinalAssistantMessage, Request!Grows, Request!FinalMessage,
         Request!Answering
<1>2. id \in Nat /\ asked \in Nat /\ open \in SUBSET Nat /\ round \in Nat /\ round > turn.asked
  BY HistoryTypes
<1>3. turn' = [id |-> id, asked |-> asked, open |-> open, over |-> TRUE]
  BY <1>1, TurnFields, Zenon DEF HistoryInv
<1>4. m.turn = id
  BY DEF Request!Message
<1> HIDE DEF round, m
<1>5. /\ Shaped(history')
      /\ \A i \in DOMAIN history' :
           history'[i] = m \/ \E j \in DOMAIN history : history'[i] = history[j]
  BY <1>1, <1>2, TurnAppends DEF m
<1>6. \A j \in DOMAIN history : history[j].turn <= id
  BY DEF HistoryInv
<1>8. \A i \in DOMAIN history' : history'[i].turn <= id
  BY <1>2, <1>4, <1>5, <1>6
<1> HIDE DEF id, asked, open
<1> QED
  BY <1>2, <1>3, <1>5, <1>8, TurnGoesOn, Zenon

(* A compaction leaves whole rounds.                                        *)
LEMMA CompactStep ==
  ASSUME Keep \in Nat, HistoryInv, Request!Compact
  PROVE  HistoryInv'
<1> DEFINE id == turn.id
           asked == turn.asked
           open == turn.open
<1>1. history' = Request!CompactHistory(history, Keep) /\ turn' = [turn EXCEPT !.over = TRUE]
  BY DEF Request!Compact
<1>2. id \in Nat /\ asked \in Nat /\ open \in SUBSET Nat
  BY HistoryTypes
<1>3. turn' = [id |-> id, asked |-> asked, open |-> open, over |-> TRUE]
  BY <1>1, TurnFields, Zenon DEF HistoryInv
<1>4. /\ Shaped(history')
      /\ \A i \in DOMAIN history' :
           history'[i] = Request!Notice \/ \E k \in DOMAIN history : history'[i] = history[k]
  BY <1>1, CompactionIs DEF HistoryInv
<1>5. Request!Notice.turn = 0
  BY DEF Request!Notice, Request!Message
<1>6. \A j \in DOMAIN history : history[j].turn <= id
  BY DEF HistoryInv
<1>7. \A i \in DOMAIN history' : history'[i].turn <= id
  BY <1>2, <1>4, <1>5, <1>6
<1> HIDE DEF id, asked, open
<1> QED
  BY <1>2, <1>3, <1>4, <1>7, TurnGoesOn, Zenon

(* What Bedrock is asked with holds the results behind their calls.         *)
LEMMA RequestStep ==
  ASSUME HistoryInv, NEW c \in Request!Configs, Request!BuildRoundRequest(c)
  PROVE  HistoryInv' /\ Request!ResultsFollowCalls'
<1>1. history' = history /\ turn' = turn
  BY DEF Request!BuildRoundRequest
<1>2. HistoryInv'
  BY <1>1 DEF HistoryInv, Shaped, Precedes
<1> DEFINE ms == Request!WithSystemPrompt(history, Request!ComposeSystemPrompt(c))
           items == sent'.items
<1>3. sent'.provider = c.provider
  BY DEF Request!BuildRoundRequest
<1> SUFFICES ASSUME c.provider = "bedrock"
             PROVE  Request!ResultsFollowCalls'
  BY <1>2, <1>3, Zenon DEF Request!ResultsFollowCalls
<1>4. items = Request!BuildConverseStreamRequest(ms)
  BY DEF Request!BuildRoundRequest, Request!CompleteStream, Request!BuildRequest
<1> HIDE DEF items, ms
<1>5. /\ Shaped(ms)
      /\ \A j \in DOMAIN history : \E k \in DOMAIN ms : ms[k] = history[j]
      /\ \A k \in DOMAIN ms : ms[k].role # "system" => \E j \in DOMAIN history : ms[k] = history[j]
  BY PromptInFront DEF ms, HistoryInv
<1>6. Answered(ms, items)
  BY <1>4, <1>5, ConverseAnswers
<1>7. \A f : Request!Range(f) = {f[x] : x \in DOMAIN f}
  BY DEF Request!Range
<1>8. \A s : Parts(items, s) = Request!Range(items[s].parts)
  BY <1>7 DEF Parts
<1>9. ASSUME NEW s \in DOMAIN items, items[s].parts[1].role = "calls",
             AnswersTo(history, items[s].parts[1]) # {}
      PROVE  /\ s + 1 \in DOMAIN items
             /\ Request!Range(items[s + 1].parts) =
                  {history[j] : j \in AnswersTo(history, items[s].parts[1])}
  <2> DEFINE m == items[s].parts[1]
             A == AnswersTo(ms, m)
             H == AnswersTo(history, m)
  <2>1. \A j \in H : \E k \in A : ms[k] = history[j]
    BY <1>5 DEF AnswersTo
  <2>2. \A k \in A : \E j \in H : ms[k] = history[j]
    BY <1>5 DEF AnswersTo
  <2>3. A # {} => s + 1 \in DOMAIN items /\ Parts(items, s + 1) = {ms[j] : j \in A}
    BY <1>6, <1>9 DEF Answered
  <2> HIDE DEF A
  <2>4. A # {}
    BY <1>9, <2>1
  <2> HIDE DEF H
  <2>5. {ms[k] : k \in A} = {history[j] : j \in H}
    BY <2>1, <2>2
  <2> QED
    BY <1>8, <2>3, <2>4, <2>5, Zenon DEF H
<1>10. ASSUME NEW j \in DOMAIN history
       PROVE  \E s \in DOMAIN items : history[j] \in Request!Range(items[s].parts)
  BY <1>5, <1>6, <1>8 DEF Answered
<1> QED
  BY <1>1, <1>9, <1>10 DEF Request!ResultsFollowCalls, items, AnswersTo

(* Whatever is asked for with Bedrock, the results of a round's tools are   *)
(* in the message after the one that calls them, all of them and only       *)
(* they, and no message of the history is missing: after any turns,         *)
(* cancelled or not, and any compactions, however little they keep.         *)
THEOREM ResultsFollow ==
  ASSUME Keep \in Nat, MaxTools \in Nat
  PROVE  Request!Spec => []Request!ResultsFollowCalls
<1> DEFINE Inv == HistoryInv /\ Request!ResultsFollowCalls
<1>1. Request!Init => Inv
  BY HistoryInit DEF Request!Init, Request!ResultsFollowCalls, Request!NothingSent
<1>2. Inv /\ [Request!Next]_Request!vars => Inv'
  <2> SUFFICES ASSUME Inv, [Request!Next]_Request!vars PROVE Inv'
    OBVIOUS
  <2>1. ASSUME sent' = Request!NothingSent
        PROVE  Request!ResultsFollowCalls'
    BY <2>1 DEF Request!ResultsFollowCalls, Request!NothingSent
  <2>2. CASE Request!AppendActiveUserMessage
    BY <2>1, <2>2, PromptStep DEF Request!AppendActiveUserMessage, Request!Grows
  <2>3. CASE Request!AppendFinalAssistantMessage
    BY <2>1, <2>3, FinalStep DEF Request!AppendFinalAssistantMessage, Request!Grows
  <2>4. CASE Request!Compact
    BY <2>1, <2>4, CompactStep DEF Request!Compact
  <2>5. ASSUME NEW c \in Request!Configs, Request!BuildRoundRequest(c)
        PROVE  Inv'
    BY <2>5, RequestStep
  <2>6. ASSUME NEW n \in 1..MaxTools, Request!AppendAssistantToolRound(n)
        PROVE  Inv'
    BY <2>1, <2>6, CallsStep, Zenon DEF Request!AppendAssistantToolRound, Request!Grows
  <2>7. ASSUME NEW k \in 1..MaxTools, Request!AppendToolResult(k)
        PROVE  Inv'
    BY <2>1, <2>7, ResultStep DEF Request!AppendToolResult, Request!Grows
  <2>8. CASE UNCHANGED Request!vars
    <3>1. history' = history /\ turn' = turn /\ sent' = sent
      BY <2>8 DEF Request!vars
    <3>2. HistoryInv'
      BY <3>1 DEF HistoryInv, Shaped, Precedes
    <3>3. Request!ResultsFollowCalls'
      BY <3>1 DEF Request!ResultsFollowCalls
    <3> QED
      BY <3>2, <3>3
  <2> QED
    BY <2>2, <2>3, <2>4, <2>5, <2>6, <2>7, <2>8 DEF Request!Next
<1> QED
  BY <1>1, <1>2, PTL DEF Request!Spec

-----------------------------------------------------------------------------
(*                     THE ROWS OF A PALETTE                               *)

CONSTANTS Configured, Offered, Fallback, Themes, Hits,
          CommandNames     \* whatever commands, models and themes are called
VARIABLES discovery, level, kind, shown, lists, pal, ran

Palette == INSTANCE Overlays

(* Nothing in the lists is called like the absence of a command, and the    *)
(* empty filter is one.                                                     *)
PaletteParameters ==
  /\ Palette!None \notin CommandNames
  /\ {"new_chat", "help", "switch_theme", "switch_model", "mcp_list"} \subseteq CommandNames
  /\ Configured \in CommandNames /\ Offered \subseteq Seq(CommandNames)
  /\ Fallback \in Seq(CommandNames) /\ Themes \in Seq(CommandNames)
  /\ "" \in DOMAIN Hits

APalette ==
  [commands : Seq(CommandNames), filter : DOMAIN Hits, filtered : Seq(Nat), selected : Nat]

(* The rows of a palette are the positions its filter finds in its copy of  *)
(* the list, and the highlight is on one of them if there is any.           *)
RowsMatch(p) ==
  /\ p \in APalette
  /\ p.filtered = Palette!Matching(p.commands, p.filter)
  /\ p.selected \in 1..(Len(p.filtered) + 1)
  /\ p.filtered # <<>> => p.selected \in DOMAIN p.filtered

PaletteInv ==
  /\ Palette!TypeOK
  /\ lists \in [Palette!Palettes -> Seq(CommandNames)]
  /\ pal \in [Palette!Palettes -> APalette]
  /\ \A q \in Palette!Palettes : RowsMatch(pal[q])
  /\ Palette!RunsAMatch

(* The palettes count and order as this module does.                        *)
LEMMA SameRows ==
  /\ \A S : Palette!Cardinality(S) = Cardinality(S)
  /\ \A S : Palette!InOrder(S) = InOrder(S)
<1>1. \A S : Palette!Cardinality(S) = Cardinality(S)
  BY Zenon DEF Palette!Cardinality, Cardinality
<1>2. \A S : Palette!InOrder(S) = InOrder(S)
  BY Zenon DEF Palette!InOrder, InOrder, Palette!Below, Below, Palette!Cardinality, Cardinality
<1> QED
  BY <1>1, <1>2

(* The rows are positions of the list where the filter finds something.     *)
LEMMA MatchingIs ==
  ASSUME NEW commands \in Seq(CommandNames), NEW f,
         NEW found, found = Palette!Matching(commands, f)
  PROVE  /\ found \in Seq(Nat)
         /\ \A k \in DOMAIN found :
              found[k] \in DOMAIN commands /\ commands[found[k]] \in Hits[f]
<1> DEFINE S == {i \in DOMAIN commands : commands[i] \in Hits[f]}
<1>1. S \subseteq 1..Len(commands) /\ Len(commands) \in Nat
  OBVIOUS
<1>2. found = InOrder(S)
  BY SameRows DEF Palette!Matching
<1>3. IsFiniteSet(1..Len(commands))
  BY <1>1, FS_Interval
<1>4. S \in SUBSET Nat /\ IsFiniteSet(S)
  BY <1>1, <1>3, FS_Subset
<1>5. \A i \in S : i \in DOMAIN commands /\ commands[i] \in Hits[f]
  OBVIOUS
<1> HIDE DEF S
<1>6. /\ Cardinality(S) \in Nat /\ DOMAIN found = 1..Cardinality(S)
      /\ \A k \in 1..Cardinality(S) : found[k] \in S
  BY <1>2, <1>4, InOrderIs
<1>7. found = [k \in 1..Cardinality(S) |-> found[k]]
  BY <1>2, <1>6 DEF InOrder
<1>8. found \in Seq(Nat)
  BY <1>4, <1>6, <1>7
<1> QED
  BY <1>5, <1>6, <1>8

(* A palette with the rows its filter finds and a highlight on one of them. *)
LEMMA RecordOfRows ==
  ASSUME NEW r, NEW commands \in Seq(CommandNames), NEW f \in DOMAIN Hits,
         NEW found, found = Palette!Matching(commands, f), found \in Seq(Nat),
         NEW row \in Nat, row \in 1..(Len(found) + 1), found # <<>> => row \in DOMAIN found,
         r = [commands |-> commands, filter |-> f, filtered |-> found, selected |-> row]
  PROVE  RowsMatch(r)
<1>1. r.commands = commands /\ r.filter = f /\ r.filtered = found /\ r.selected = row
  OBVIOUS
<1>2. r \in APalette
  BY DEF APalette
<1> QED
  BY <1>1, <1>2 DEF RowsMatch

(* A refresh leaves rows that match and a highlight on one of them.         *)
LEMMA RefreshedRows ==
  ASSUME NEW p, NEW commands \in Seq(CommandNames), NEW f \in DOMAIN Hits
  PROVE  /\ RowsMatch(Palette!RefreshFiltered(p, commands, f))
         /\ Palette!RefreshFiltered(p, commands, f).commands = commands
         /\ Palette!RefreshFiltered(p, commands, f).filter = f
<1> DEFINE r == Palette!RefreshFiltered(p, commands, f)
           found == Palette!Matching(commands, f)
           before == IF p.filtered = <<>> THEN 0 ELSE p.filtered[p.selected]
<1>1. /\ r.commands = commands /\ r.filter = f /\ r.filtered = found
      /\ r = [commands |-> commands, filter |-> f, filtered |-> found,
              selected |-> r.selected]
      /\ r.selected = IF before \in Palette!ToSet(found)
                      THEN CHOOSE row \in DOMAIN found : found[row] = before ELSE 1
  BY DEF Palette!RefreshFiltered
<1>2. found \in Seq(Nat)
  BY MatchingIs
<1> HIDE DEF r, found, before
<1>5. ASSUME r.selected \in Nat, r.selected \in 1..(Len(found) + 1),
             found # <<>> => r.selected \in DOMAIN found
      PROVE  RowsMatch(r)
  <2>1. found = Palette!Matching(commands, f)
    BY DEF found
  <2> QED
    BY <1>1, <1>2, <1>5, <2>1, RecordOfRows, Zenon
<1>3. ASSUME before \in Palette!ToSet(found)
      PROVE  RowsMatch(r)
  <2>1. \E row \in DOMAIN found : found[row] = before
    BY <1>3 DEF Palette!ToSet
  <2>2. r.selected \in DOMAIN found
    BY <2>1, <1>1, <1>3
  <2>3. r.selected \in 1..Len(found) /\ Len(found) \in Nat
    BY <1>2, <2>2
  <2>4. r.selected \in Nat /\ r.selected \in 1..(Len(found) + 1)
    BY <2>3
  <2> QED
    BY <2>2, <2>4, <1>5
<1>4. ASSUME ~(before \in Palette!ToSet(found))
      PROVE  RowsMatch(r)
  <2>1. r.selected = 1
    BY <1>1, <1>4
  <2>2. Len(found) \in Nat /\ (found # <<>> => 1 \in DOMAIN found)
    BY <1>2
  <2>3. r.selected \in Nat /\ r.selected \in 1..(Len(found) + 1)
    BY <2>1, <2>2
  <2>4. found # <<>> => r.selected \in DOMAIN found
    BY <2>1, <2>2
  <2> QED
    BY <2>3, <2>4, <1>5
<1> QED
  BY <1>1, <1>3, <1>4 DEF r

(* After a look at the list the palette has that list and rows that match.  *)
LEMMA SyncedRows ==
  ASSUME PaletteInv, NEW q \in Palette!Palettes,
         NEW p, p = Palette!SyncCommands(q, pal[q])
  PROVE  RowsMatch(p) /\ p.commands = lists[q]
<1>1. lists[q] \in Seq(CommandNames) /\ RowsMatch(pal[q])
  BY DEF PaletteInv
<1>2. CASE pal[q].commands = lists[q]
  BY <1>1, <1>2 DEF Palette!SyncCommands
<1>3. CASE pal[q].commands # lists[q]
  <2>1. pal[q].filter \in DOMAIN Hits
    BY <1>1 DEF RowsMatch, APalette
  <2>2. p = Palette!RefreshFiltered(pal[q], lists[q], pal[q].filter)
    BY <1>3 DEF Palette!SyncCommands, Palette!Resynced
  <2> QED
    BY <1>1, <2>1, <2>2, RefreshedRows
<1> QED
  BY <1>2, <1>3

(* Rows that match are what the type invariant says of a palette.           *)
LEMMA RowsTyped ==
  ASSUME NEW p, RowsMatch(p)
  PROVE  /\ p \in APalette /\ p.filter \in DOMAIN Hits
         /\ Palette!ToSet(p.filtered) \subseteq DOMAIN p.commands
         /\ p.selected \in 1..(Len(p.filtered) + 1)
<1>1. p.commands \in Seq(CommandNames) /\ p.filter \in DOMAIN Hits
  BY DEF RowsMatch, APalette
<1>2. \A k \in DOMAIN p.filtered : p.filtered[k] \in DOMAIN p.commands
  BY <1>1, MatchingIs DEF RowsMatch
<1> QED
  BY <1>1, <1>2 DEF RowsMatch, Palette!ToSet

(* A step that gives one palette rows that match keeps the invariant of the *)
(* palettes.                                                                *)
LEMMA PaletteKept ==
  ASSUME PaletteInv, NEW q \in Palette!Palettes, NEW p, RowsMatch(p), Palette!Keep(q, p)
  PROVE  /\ pal' \in [Palette!Palettes -> APalette]
         /\ \A r \in Palette!Palettes : RowsMatch(pal'[r])
         /\ \A r \in Palette!Palettes :
              /\ pal'[r].filter \in DOMAIN Hits
              /\ Palette!ToSet(pal'[r].filtered) \subseteq DOMAIN pal'[r].commands
              /\ pal'[r].selected \in 1..(Len(pal'[r].filtered) + 1)
<1>1. p \in APalette /\ pal' = [pal EXCEPT ![q] = p]
  BY RowsTyped DEF Palette!Keep
<1>2. pal' \in [Palette!Palettes -> APalette]
  BY <1>1 DEF PaletteInv
<1>3. ASSUME NEW r \in Palette!Palettes
      PROVE  RowsMatch(pal'[r])
  <2>1. pal'[r] = IF r = q THEN p ELSE pal[r]
    BY <1>1 DEF PaletteInv
  <2> QED
    BY <2>1 DEF PaletteInv
<1> QED
  BY <1>2, <1>3, RowsTyped

(* What discovery brings are lists of names, and so is the root's list.     *)
LEMMA ResultsTyped ==
  ASSUME PaletteParameters
  PROVE  /\ \A result \in Palette!Results :
              /\ result.models \in Seq(CommandNames)
              /\ result.status \in {"unsupported", "success", "fallback", "failed"}
         /\ \A models \in Seq(CommandNames) :
              Palette!BuildCommands(models) \in Seq(CommandNames)
<1>1. ASSUME NEW models \in Seq(CommandNames)
      PROVE  Palette!EnsureModelPresent(models) \in Seq(CommandNames)
  <2>1. <<Configured>> \in Seq(CommandNames)
    <3>1. Configured \in CommandNames
      BY Zenon DEF PaletteParameters
    <3> QED
      BY <3>1
  <2>2. <<Configured>> \o models \in Seq(CommandNames)
    BY <2>1
  <2> QED
    BY <2>2, Zenon DEF Palette!EnsureModelPresent
<1>2. ASSUME NEW models \in Seq(CommandNames), NEW threw
      PROVE  /\ Palette!Discovered(models, threw).models \in Seq(CommandNames)
             /\ Palette!Discovered(models, threw).status \in {"success", "fallback", "failed"}
  <2>1. Fallback \in Seq(CommandNames)
    BY Zenon DEF PaletteParameters
  <2> QED
    BY <1>1, <2>1 DEF Palette!Discovered
<1>3. <<>> \in Seq(CommandNames)
  OBVIOUS
<1>4. ASSUME NEW result \in Palette!Results
      PROVE  /\ result.models \in Seq(CommandNames)
             /\ result.status \in {"unsupported", "success", "fallback", "failed"}
  <2>1. CASE result = [models |-> <<>>, status |-> "unsupported"]
    BY <1>3, <2>1
  <2>2. CASE result = Palette!Discovered(<<>>, TRUE)
    BY <1>2, <1>3, <2>2, Zenon
  <2>3. ASSUME NEW models \in Offered \cup {<<>>}, result = Palette!Discovered(models, FALSE)
        PROVE  /\ result.models \in Seq(CommandNames)
               /\ result.status \in {"unsupported", "success", "fallback", "failed"}
    BY <1>2, <1>3, <2>3, Zenon DEF PaletteParameters
  <2> QED
    BY <1>4, <2>1, <2>2, <2>3, Zenon DEF Palette!Results
<1>5. /\ <<"new_chat", "help", "switch_theme">> \in Seq(CommandNames)
      /\ <<"switch_model">> \in Seq(CommandNames) /\ <<"mcp_list">> \in Seq(CommandNames)
  <2>1. /\ "new_chat" \in CommandNames /\ "help" \in CommandNames
        /\ "switch_theme" \in CommandNames /\ "switch_model" \in CommandNames
        /\ "mcp_list" \in CommandNames
    BY Zenon DEF PaletteParameters
  <2> QED
    BY <2>1
<1>6. ASSUME NEW models \in Seq(CommandNames)
      PROVE  Palette!BuildCommands(models) \in Seq(CommandNames)
  <2> DEFINE switch == IF models = <<>> THEN <<>> ELSE <<"switch_model">>
  <2>1. switch \in Seq(CommandNames)
    BY <1>3, <1>5
  <2> HIDE DEF switch
  <2>2. <<"new_chat", "help", "switch_theme">> \o switch \in Seq(CommandNames)
    BY <1>5, <2>1
  <2>3. Palette!BuildCommands(models)
          = <<"new_chat", "help", "switch_theme">> \o switch \o <<"mcp_list">>
    BY Zenon DEF Palette!BuildCommands, switch
  <2> DEFINE front == <<"new_chat", "help", "switch_theme">> \o switch
  <2> HIDE DEF front
  <2>4. front \in Seq(CommandNames) /\ Palette!BuildCommands(models) = front \o <<"mcp_list">>
    BY <2>2, <2>3, Zenon DEF front
  <2> QED
    BY <1>5, <2>4
<1> QED
  BY <1>4, <1>6

(* At the start the root lists the commands and no palette is open.         *)
LEMMA PaletteInit ==
  ASSUME PaletteParameters, Palette!Init
  PROVE  PaletteInv
<1>1. lists \in [Palette!Palettes -> Seq(CommandNames)]
  <2>1. <<>> \in Seq(CommandNames) /\ Themes \in Seq(CommandNames)
    <3>1. Themes \in Seq(CommandNames)
      BY Zenon DEF PaletteParameters
    <3> QED
      BY <3>1
  <2>2. Palette!BuildCommands(<<>>) \in Seq(CommandNames)
    BY <2>1, ResultsTyped, Zenon
  <2> QED
    BY <2>1, <2>2, Zenon DEF Palette!Init, Palette!Palettes, Palette!Root, Palette!ModelList,
       Palette!ThemeList
<1>2. ASSUME NEW q \in Palette!Palettes
      PROVE  RowsMatch(pal[q])
  <2>1. lists[q] \in Seq(CommandNames) /\ "" \in DOMAIN Hits
    BY <1>1, Zenon DEF PaletteParameters
  <2>2. RowsMatch(Palette!RefreshFiltered([filtered |-> <<>>], lists[q], ""))
    BY <2>1, RefreshedRows, Zenon
  <2>3. pal[q] = Palette!RefreshFiltered([filtered |-> <<>>], lists[q], "")
    BY Zenon DEF Palette!Init, Palette!Fresh
  <2> QED
    BY <2>2, <2>3, Zenon
<1>3. pal \in [Palette!Palettes -> APalette]
  <2>1. pal = [q \in Palette!Palettes |-> pal[q]]
    <3>1. pal = [q \in Palette!Palettes |-> Palette!Fresh(lists[q])]
      BY Zenon DEF Palette!Init
    <3> QED
      BY <3>1
  <2>2. \A q \in Palette!Palettes : pal[q] \in APalette
    BY <1>2, RowsTyped
  <2> QED
    BY <2>1, <2>2
<1>4. Palette!TypeOK
  <2>1. \A q \in Palette!Palettes :
          /\ pal[q].filter \in DOMAIN Hits
          /\ Palette!ToSet(pal[q].filtered) \subseteq DOMAIN pal[q].commands
          /\ pal[q].selected \in 1..(Len(pal[q].filtered) + 1)
    BY <1>2, RowsTyped
  <2>2. discovery = "running" /\ level = 0 /\ kind = Palette!None /\ shown = {}
    BY Zenon DEF Palette!Init
  <2> QED
    BY <2>1, <2>2 DEF Palette!TypeOK
<1>5. Palette!RunsAMatch
  BY Zenon DEF Palette!Init, Palette!RunsAMatch, Palette!Panels
<1> QED
  BY <1>1, <1>2, <1>3, <1>4, <1>5 DEF PaletteInv

(* Enter runs a command of the list that the filter finds, and leaves at    *)
(* most the palette it opened.                                              *)
LEMMA Entered ==
  ASSUME PaletteParameters, PaletteInv, NEW q \in Palette!Palettes, Palette!Return(q)
  PROVE  PaletteInv'
<1> DEFINE p == Palette!SyncCommands(q, pal[q])
           index == p.filtered[p.selected]
           command == lists[q][index]
           effect == IF q = Palette!Root THEN Palette!HandleCommandSelection(command)
                     ELSE Palette!HandleSubSelection(command)
<1>1. RowsMatch(p) /\ p.commands = lists[q]
  BY SyncedRows
<1>2. p.filtered # <<>> /\ Palette!Keep(q, p)
  BY Zenon DEF Palette!Return
<1>3. /\ lists[q] \in Seq(CommandNames) /\ p.selected \in DOMAIN p.filtered
      /\ p.filtered = Palette!Matching(lists[q], p.filter)
  BY <1>1, <1>2 DEF RowsMatch, PaletteInv
<1>4. index \in DOMAIN lists[q] /\ command \in Hits[p.filter]
  <2> HIDE DEF p
  <2> QED
    BY <1>3, MatchingIs
<1>5. command \in CommandNames
  <2> HIDE DEF p
  <2> QED
    BY <1>3, <1>4
<1>6. /\ level' = effect.level /\ kind' = effect.kind
      /\ shown' = ((shown \ Palette!Palettes)
                     \cup Palette!Visible(effect.level, effect.kind)
                     \cup effect.opens) \ {q}
      /\ ran' = [command |-> command, palette |-> q, filter |-> p.filter]
      /\ UNCHANGED <<discovery, lists>>
  BY <1>4, Zenon DEF Palette!Return
<1>7. /\ pal' \in [Palette!Palettes -> APalette]
      /\ \A r \in Palette!Palettes : RowsMatch(pal'[r])
      /\ \A r \in Palette!Palettes :
           /\ pal'[r].filter \in DOMAIN Hits
           /\ Palette!ToSet(pal'[r].filtered) \subseteq DOMAIN pal'[r].commands
           /\ pal'[r].selected \in 1..(Len(pal'[r].filtered) + 1)
  BY <1>1, <1>2, PaletteKept
<1> HIDE DEF p, index, command
<1>8. /\ effect.level \in {0, 2} /\ effect.opens \subseteq {"help"}
      /\ effect.kind \in {Palette!None, Palette!ModelList, Palette!ThemeList}
      /\ effect.level = 2 =>
           q = Palette!Root /\ effect.kind \in {Palette!ModelList, Palette!ThemeList}
  BY DEF Palette!HandleCommandSelection, Palette!HandleSubSelection
<1> HIDE DEF effect
<1>9. shown' \subseteq Palette!Palettes \cup Palette!Dialogs \cup {"help"}
  <2>1. shown \subseteq Palette!Palettes \cup Palette!Dialogs \cup {"help"}
    BY DEF PaletteInv, Palette!TypeOK
  <2>2. Palette!Visible(effect.level, effect.kind) \subseteq Palette!Palettes
    BY <1>8 DEF Palette!Visible, Palette!Palettes, Palette!Root, Palette!ModelList,
       Palette!ThemeList
  <2> QED
    BY <1>6, <1>8, <2>1, <2>2
<1>10. Palette!Panels(shown') \subseteq IF effect.level = 2 THEN {effect.kind} ELSE {}
  BY <1>6, <1>8 DEF Palette!Panels, Palette!Visible, Palette!Palettes, Palette!Root,
     Palette!ModelList, Palette!ThemeList
<1>11. Palette!TypeOK'
  BY <1>6, <1>7, <1>8, <1>9 DEF PaletteInv, Palette!TypeOK
<1>12. Palette!RunsAMatch'
  BY <1>4, <1>5, <1>6, <1>10, Zenon DEF Palette!RunsAMatch, PaletteParameters
<1> QED
  BY <1>6, <1>7, <1>11, <1>12 DEF PaletteInv

(* Typing, moving and drawing leave rows that match.                        *)
LEMMA KeyHandled ==
  ASSUME PaletteInv, NEW q \in Palette!Palettes,
         Palette!Draw(q) \/ Palette!MoveSelection(q) \/ Palette!Type(q)
  PROVE  PaletteInv'
<1> DEFINE p == Palette!SyncCommands(q, pal[q])
<1>1. RowsMatch(p) /\ p.commands = lists[q]
  BY SyncedRows
<1>2. UNCHANGED <<discovery, level, kind, shown, lists, ran>>
  BY DEF Palette!Draw, Palette!MoveSelection, Palette!Type
<1>3. ASSUME NEW new, RowsMatch(new), Palette!Keep(q, new)
      PROVE  PaletteInv'
  <2>1. /\ pal' \in [Palette!Palettes -> APalette]
        /\ \A r \in Palette!Palettes : RowsMatch(pal'[r])
        /\ \A r \in Palette!Palettes :
             /\ pal'[r].filter \in DOMAIN Hits
             /\ Palette!ToSet(pal'[r].filtered) \subseteq DOMAIN pal'[r].commands
             /\ pal'[r].selected \in 1..(Len(pal'[r].filtered) + 1)
    BY <1>3, PaletteKept
  <2>2. Palette!TypeOK' /\ Palette!RunsAMatch'
    BY <1>2, <2>1 DEF PaletteInv, Palette!TypeOK, Palette!RunsAMatch
  <2> QED
    BY <1>2, <2>1, <2>2 DEF PaletteInv
<1>4. CASE Palette!Draw(q)
  BY <1>1, <1>3, <1>4 DEF Palette!Draw
<1>5. CASE Palette!Type(q)
  <2>1. PICK f \in DOMAIN Hits :
          Palette!Keep(q, Palette!RefreshFiltered(p, p.commands, f))
    BY <1>5 DEF Palette!Type
  <2>2. p.commands \in Seq(CommandNames)
    BY <1>1 DEF RowsMatch, APalette
  <2>3. RowsMatch(Palette!RefreshFiltered(p, p.commands, f))
    BY <2>2, RefreshedRows
  <2> QED
    BY <1>3, <2>1, <2>3
<1>6. CASE Palette!MoveSelection(q)
  <2> DEFINE n == Len(p.filtered)
  <2>1. p \in APalette /\ n \in Nat /\ p.filtered \in Seq(Nat)
    BY <1>1 DEF RowsMatch, APalette
  <2>2. ASSUME NEW row \in Nat, row \in 1..(n + 1), n # 0 => row \in 1..n
        PROVE  RowsMatch([p EXCEPT !.selected = row])
    <3> HIDE DEF p
    <3>1. p.filtered # <<>> => row \in DOMAIN p.filtered
      BY <2>1, <2>2
    <3> QED
      BY <1>1, <2>1, <2>2, <3>1, Zenon DEF RowsMatch, APalette
  <2>3. CASE n = 0
    <3>1. Palette!Keep(q, [p EXCEPT !.selected = 1])
      BY <1>6, <2>3 DEF Palette!MoveSelection
    <3> QED
      BY <1>3, <2>2, <2>3, <3>1
  <2>4. CASE n # 0
    <3>1. PICK delta \in {1, n - 1} :
            Palette!Keep(q, [p EXCEPT !.selected = ((p.selected - 1 + delta) % n) + 1])
      BY <1>6, <2>4 DEF Palette!MoveSelection
    <3>2. p.selected \in 1..n
      BY <1>1, <2>1, <2>4 DEF RowsMatch
    <3> DEFINE row == ((p.selected - 1 + delta) % n) + 1
    <3>3. row \in 1..n
      <4> HIDE DEF p, n
      <4>1. p.selected - 1 + delta \in Nat /\ n \in Nat \ {0}
        BY <2>1, <2>4, <3>2
      <4> QED
        BY <4>1
    <3>4. RowsMatch([p EXCEPT !.selected = row])
      <4> HIDE DEF p, row
      <4> QED
        BY <2>1, <2>2, <3>3
    <3> QED
      BY <1>3, <3>1, <3>4
  <2> QED
    BY <2>3, <2>4
<1> QED
  BY <1>4, <1>5, <1>6

(* Every step keeps the invariant of the palettes.                          *)
LEMMA PaletteNext ==
  ASSUME PaletteParameters, PaletteInv, [Palette!Next]_Palette!vars
  PROVE  PaletteInv'
<1>1. ASSUME UNCHANGED pal,
             lists' \in [Palette!Palettes -> Seq(CommandNames)],
             discovery' \in {"running", "unsupported", "success", "fallback", "failed"},
             level' \in 0..2, kind' = kind, ran' = ran,
             shown' \subseteq Palette!Palettes \cup Palette!Dialogs \cup {"help"},
             \A q, r \in Palette!Panels(shown') : q = r
      PROVE  PaletteInv'
  <2>1. Palette!TypeOK' /\ Palette!RunsAMatch'
    BY <1>1 DEF PaletteInv, Palette!TypeOK, Palette!RunsAMatch
  <2> QED
    BY <1>1, <2>1 DEF PaletteInv
<1>2. CASE Palette!ApplyModelDiscoveryResult
  <2>1. PICK result \in Palette!Results :
          /\ discovery' = result.status
          /\ lists' = [lists EXCEPT ![Palette!Root] = Palette!BuildCommands(result.models),
                                    ![Palette!ModelList] = result.models]
    BY <1>2, Zenon DEF Palette!ApplyModelDiscoveryResult
  <2>2. /\ result.models \in Seq(CommandNames)
        /\ result.status \in {"unsupported", "success", "fallback", "failed"}
        /\ Palette!BuildCommands(result.models) \in Seq(CommandNames)
    BY ResultsTyped
  <2>3. lists' \in [Palette!Palettes -> Seq(CommandNames)]
    BY <2>1, <2>2, Zenon DEF PaletteInv
  <2> QED
    BY <1>1, <1>2, <2>1, <2>2, <2>3, Zenon DEF Palette!ApplyModelDiscoveryResult, PaletteInv,
       Palette!TypeOK, Palette!RunsAMatch
<1>3. CASE Palette!Raise
  BY <1>1, <1>3 DEF Palette!Raise, PaletteInv, Palette!TypeOK, Palette!RunsAMatch,
     Palette!Panels, Palette!Palettes, Palette!Root, Palette!ModelList, Palette!ThemeList,
     Palette!Dialogs
<1>4. CASE Palette!Answer
  BY <1>1, <1>4 DEF Palette!Answer, PaletteInv, Palette!TypeOK, Palette!RunsAMatch,
     Palette!Panels
<1>5. CASE Palette!OpenPalette
  BY <1>1, <1>5 DEF Palette!OpenPalette, PaletteInv, Palette!TypeOK, Palette!RunsAMatch,
     Palette!Panels, Palette!Visible, Palette!Palettes
<1>6. CASE Palette!Escape
  BY <1>1, <1>6 DEF Palette!Escape, PaletteInv, Palette!TypeOK, Palette!RunsAMatch,
     Palette!Panels
<1>7. ASSUME NEW q \in Palette!Palettes, Palette!Return(q)
      PROVE  PaletteInv'
  BY <1>7, Entered
<1>8. ASSUME NEW q \in Palette!Palettes,
             Palette!Draw(q) \/ Palette!MoveSelection(q) \/ Palette!Type(q)
      PROVE  PaletteInv'
  BY <1>8, KeyHandled
<1>9. CASE UNCHANGED Palette!vars
  BY <1>9 DEF Palette!vars, PaletteInv, Palette!TypeOK, Palette!RunsAMatch
<1> QED
  BY <1>2, <1>3, <1>4, <1>5, <1>6, <1>7, <1>8, <1>9 DEF Palette!Next

(* Enter runs a command that the filter finds, also when discovery replaced *)
(* the list under the highlight, and no palette is open behind the one that *)
(* takes the keys: for any lists a provider may return and any filters.     *)
THEOREM EnterRunsAMatch ==
  ASSUME PaletteParameters
  PROVE  Palette!Spec => [](Palette!TypeOK /\ Palette!RunsAMatch)
<1>1. Palette!Init => PaletteInv
  BY PaletteInit
<1>2. PaletteInv /\ [Palette!Next]_Palette!vars => PaletteInv'
  BY PaletteNext
<1>3. PaletteInv => Palette!TypeOK /\ Palette!RunsAMatch
  BY DEF PaletteInv
<1> QED
  BY <1>1, <1>2, <1>3, PTL DEF Palette!Spec

-----------------------------------------------------------------------------
(*                     THE SETTINGS OF A START                             *)

CONSTANTS Entries, Variables
VARIABLES file, env, config

Config == INSTANCE Configuration

ConfigParameters == \A v \in Variables : v.field \in Config!ServerFields

(* What was loaded is what the file and the environment say.                *)
LoadedAs(f, e) ==
  /\ config = Config!Loaded(f, e)
  /\ f.key \in [Config!Keys -> Config!Raw] /\ e.key \in [Config!Keys -> Config!Raw]
  /\ f.provider \in {Config!None, "bedrock"} /\ e.provider \in {Config!None, "bedrock"}
  /\ \E n \in Nat : DOMAIN f.servers = 1..n
  /\ e.server.field \in Config!ServerFields \cup {Config!None}

ConfigInv ==
  \/ config = Config!NotLoaded /\ env = Config!EmptyEnv /\ file = Config!EmptyFile
  \/ LoadedAs(file, env)

(* The value and the report of a key say what was written for it.           *)
KeySaid(k, f, e, s) ==
  /\ (f.key[k] # Config!None /\ (k \in Config!OfBedrock => f.provider = "bedrock")) =>
       s.value = f.key[k] \/ s.reported \/ (e.key[k] # Config!None /\ Config!HasVariable(k))
  /\ (e.key[k] # Config!None /\ Config!HasVariable(k)
        /\ k \notin Config!Switches \cup Config!OfBedrock
        /\ (k = Config!ApiKey => e.key[k] # Config!Blank)) =>
       s.value = e.key[k] \/ s.reported
  /\ k \in Config!Checked \cup {Config!MaxTokens} =>
       s.value \in Config!Legal \cup {Config!Default}

ASaid == [value : Config!Raw \cup {Config!Default}, reported : BOOLEAN]

(* What the sets of keys have in common, and what they have not.            *)
LEMMA KeysOverlap ==
  /\ Config!ApiKey \notin Config!OfBedrock /\ Config!ApiKey \notin Config!Checked
  /\ Config!MaxTokens \in Config!OfBedrock /\ Config!ApiKey # Config!MaxTokens
  /\ Config!ApiKey \notin Config!Switches
  /\ \A k \in Config!OfBedrock : k \notin Config!Checked /\ k \notin Config!Switches
  /\ \A k \in Config!Switches : k \notin Config!Checked
  /\ \A k \in Config!FileOnly : k \in Config!Checked
BY DEF Config!ApiKey, Config!OfBedrock, Config!Checked, Config!MaxTokens, Config!Switches,
   Config!Compact, Config!WebSearch, Config!FileOnly

(* The file gives a key a value that is legal for it, or reports the key.   *)
LEMMA FileSays ==
  ASSUME NEW k, NEW raw \in Config!Raw, NEW s, s = Config!LoadSection(k, raw)
  PROVE  /\ s \in ASaid
         /\ raw # Config!None => s.value = raw \/ s.reported
         /\ raw = Config!None => s.value = Config!Default /\ ~s.reported
         /\ k \in Config!Checked \cup Config!Switches =>
              s.value \in Config!Legal \cup {Config!Default}
BY DEF Config!LoadSection, Config!FileRejects, Config!Said, ASaid, Config!Raw, Config!Legal

(* A variable gives a key a value that is legal for it, or reports the key. *)
LEMMA VariableSays ==
  ASSUME NEW k, NEW raw \in Config!Raw, NEW before \in ASaid,
         NEW s, s = Config!Override(k, raw, before)
  PROVE  /\ s \in ASaid
         /\ raw = Config!None \/ ~Config!HasVariable(k) => s = before
         /\ raw # Config!None /\ Config!HasVariable(k) /\ k \notin Config!Switches =>
              s.value = raw \/ s.reported
         /\ k \in Config!Checked /\ before.value \in Config!Legal \cup {Config!Default}
              /\ k \notin Config!Switches =>
              s.value \in Config!Legal \cup {Config!Default}
BY DEF Config!Override, Config!EnvRejects, Config!Said, ASaid, Config!Raw, Config!Legal,
   Config!ParseEnvBool

(* The options of Bedrock in a file, of whatever provider.                  *)
BedrockSaid(s, k, raw, p) ==
  /\ s \in ASaid
  /\ raw # Config!None /\ p = "bedrock" => s.value = raw \/ s.reported
  /\ p # "bedrock" => s.value = Config!Default
  /\ k = Config!MaxTokens =>
       s.value \in Config!Legal \cup {Config!Default, "illegal", Config!Blank}

(* A file of another provider says nothing of them.                         *)
LEMMA BedrockFileSays ==
  ASSUME NEW k, NEW raw \in Config!Raw, NEW p
  PROVE  BedrockSaid(Config!LoadBedrockProviderOptions(k, raw, p), k, raw, p)
<1> DEFINE s == Config!LoadBedrockProviderOptions(k, raw, p)
<1> SUFFICES BedrockSaid(s, k, raw, p)
  OBVIOUS
<1>1. CASE p = "bedrock" /\ k = Config!MaxTokens /\ raw \in Config!Legal \cup {"illegal", Config!Blank}
  <2>1. s = [value |-> raw, reported |-> FALSE]
    BY <1>1 DEF Config!LoadBedrockProviderOptions, Config!Said
  <2>2. s \in ASaid /\ s.value = raw
    BY <2>1 DEF ASaid
  <2> HIDE DEF s
  <2> QED
    BY <1>1, <2>2 DEF BedrockSaid
<1>2. CASE p = "bedrock" /\ ~(k = Config!MaxTokens /\ raw \in Config!Legal \cup {"illegal", Config!Blank})
  <2>1. s = Config!LoadSection(k, raw)
    BY <1>2, Zenon DEF Config!LoadBedrockProviderOptions
  <2>2. /\ s \in ASaid /\ (raw # Config!None => s.value = raw \/ s.reported)
        /\ raw = Config!None => s.value = Config!Default
    BY <2>1, FileSays
  <2>3. k = Config!MaxTokens /\ raw = "mistyped" => s.value = Config!Default
    BY <2>1 DEF Config!LoadSection, Config!FileRejects, Config!Said, Config!None
  <2> HIDE DEF s
  <2> QED
    BY <1>2, <2>2, <2>3 DEF Config!Raw, BedrockSaid
<1>3. CASE p # "bedrock"
  <2>1. s = [value |-> Config!Default, reported |-> FALSE]
    BY <1>3 DEF Config!LoadBedrockProviderOptions, Config!Said
  <2>2. s \in ASaid /\ s.value = Config!Default
    BY <2>1 DEF ASaid
  <2> HIDE DEF s
  <2> QED
    BY <1>3, <2>2 DEF BedrockSaid
<1> QED
  BY <1>1, <1>2, <1>3

(* What a start makes of a key loses nothing in silence.                    *)
LEMMA KeyIsSaid ==
  ASSUME NEW k \in Config!Keys, NEW f, NEW e,
         f.key[k] \in Config!Raw, e.key[k] \in Config!Raw,
         f.provider \in {Config!None, "bedrock"}, e.provider \in {Config!None, "bedrock"},
         NEW s, s = Config!Setting(k, f, e)
  PROVE  s \in ASaid /\ KeySaid(k, f, e, s)
<1> DEFINE used == IF e.provider # Config!None THEN e.provider ELSE f.provider
           written == Config!LoadSettingsFromToml(k, f.key[k], f.provider)
<1>1. CASE k \in Config!OfBedrock
  <2>1. /\ s = Config!BedrockOverride(k, e.key[k], written, used)
        /\ written = Config!LoadBedrockProviderOptions(k, f.key[k], f.provider)
    BY <1>1 DEF Config!Setting, Config!LoadSettingsFromToml
  <2> HIDE DEF written, used
  <2>2. /\ written \in ASaid
        /\ f.key[k] # Config!None /\ f.provider = "bedrock" =>
             written.value = f.key[k] \/ written.reported
        /\ f.provider # "bedrock" => written.value = Config!Default
        /\ k = Config!MaxTokens =>
              written.value \in Config!Legal \cup {Config!Default, "illegal", Config!Blank}
    <3>1. BedrockSaid(written, k, f.key[k], f.provider)
      BY <2>1, BedrockFileSays
    <3> QED
      BY <3>1 DEF BedrockSaid
  <2>4. k \notin Config!Checked /\ k # Config!ApiKey /\ k \notin Config!Switches
    BY <1>1, KeysOverlap
  <2>5. CASE used # "bedrock"
    <3>1. s = written /\ f.provider # "bedrock"
      BY <2>1, <2>5 DEF Config!BedrockOverride, used, Config!None
    <3> QED
      BY <1>1, <2>2, <2>4, <3>1 DEF KeySaid
  <2>6. CASE used = "bedrock"
    <3> DEFINE o == Config!Override(k, e.key[k], written)
    <3>1. /\ o \in ASaid
          /\ e.key[k] = Config!None \/ ~Config!HasVariable(k) => o = written
      <4>1. o = Config!Override(k, e.key[k], written)
        OBVIOUS
      <4> HIDE DEF o
      <4> QED
        BY <2>2, <4>1, VariableSays, SMTT(30)
    <3>2. s = IF k = Config!MaxTokens /\ o.value \notin Config!Legal \cup {Config!Default}
              THEN [value |-> Config!Default, reported |-> TRUE] ELSE o
      BY <2>1, <2>6, Zenon DEF Config!BedrockOverride, Config!Said
    <3> HIDE DEF o
    <3>3. CASE s = o /\ (k = Config!MaxTokens => o.value \in Config!Legal \cup {Config!Default})
      BY <1>1, <2>2, <2>4, <3>1, <3>3 DEF KeySaid
    <3>4. CASE s = [value |-> Config!Default, reported |-> TRUE]
      <4>1. s \in ASaid /\ s.reported /\ s.value = Config!Default
        BY <3>4 DEF ASaid
      <4> QED
        BY <1>1, <2>4, <4>1 DEF KeySaid
    <3> QED
      BY <3>2, <3>3, <3>4
  <2> QED
    BY <2>5, <2>6
<1>2. CASE k = Config!ApiKey
  <2>1. /\ s = Config!ResolveApiKey(e.key[k], written)
        /\ written = Config!LoadSection(k, f.key[k])
    BY <1>2, KeysOverlap DEF Config!Setting, Config!LoadSettingsFromToml
  <2> HIDE DEF written, used
  <2>2. /\ written \in ASaid /\ (f.key[k] # Config!None => written.value = f.key[k] \/ written.reported)
    BY <2>1, FileSays
  <2> QED
    <3>1. k \notin Config!Checked /\ k # Config!MaxTokens
      BY <1>2, KeysOverlap
    <3>2. CASE e.key[k] \notin {Config!None, Config!Blank}
      <4>1. s = [value |-> e.key[k], reported |-> written.reported]
        BY <2>1, <3>2 DEF Config!ResolveApiKey, Config!Said
      <4>2. s \in ASaid /\ s.value = e.key[k]
        BY <2>2, <4>1 DEF ASaid
      <4>3. Config!HasVariable(k)
        BY <1>2 DEF Config!HasVariable, Config!ApiKey, Config!FileOnly
      <4> QED
        BY <3>1, <3>2, <4>2, <4>3 DEF KeySaid
    <3>3. CASE e.key[k] \in {Config!None, Config!Blank}
      <4>1. s = written
        BY <2>1, <3>3 DEF Config!ResolveApiKey
      <4> QED
        BY <1>2, <2>2, <3>1, <3>3, <4>1 DEF KeySaid
    <3> QED
      BY <3>2, <3>3
<1>3. CASE k \notin Config!OfBedrock /\ k # Config!ApiKey
  <2>1. /\ s = Config!Override(k, e.key[k], written)
        /\ written = Config!LoadSection(k, f.key[k])
    BY <1>3 DEF Config!Setting, Config!LoadSettingsFromToml
  <2> HIDE DEF written, used
  <2>2. /\ written \in ASaid /\ (f.key[k] # Config!None => written.value = f.key[k] \/ written.reported)
        /\ k \in Config!Checked => written.value \in Config!Legal \cup {Config!Default}
    BY <2>1, FileSays
  <2>3. k \in Config!Checked => k \notin Config!Switches
    BY KeysOverlap
  <2>4. k # Config!MaxTokens
    BY <1>3, KeysOverlap
  <2>5. /\ s \in ASaid
        /\ e.key[k] = Config!None \/ ~Config!HasVariable(k) => s = written
        /\ e.key[k] # Config!None /\ Config!HasVariable(k) /\ k \notin Config!Switches =>
              s.value = e.key[k] \/ s.reported
        /\ k \in Config!Checked => s.value \in Config!Legal \cup {Config!Default}
    BY <2>1, <2>2, <2>3, VariableSays
  <2> QED
    BY <2>2, <2>4, <2>5 DEF KeySaid
<1> QED
  BY <1>1, <1>2, <1>3

(* The servers are counted and ordered as in this module.                   *)
LEMMA SameServers ==
  /\ \A S : Config!Cardinality(S) = Cardinality(S)
  /\ \A s, S : Config!PickedAt(s, S) = PickedAt(s, S)
<1>1. \A S : Config!Cardinality(S) = Cardinality(S)
  BY Zenon DEF Config!Cardinality, Cardinality
<1>2. \A S : Config!InOrder(S) = InOrder(S)
  BY Zenon DEF Config!InOrder, InOrder, Config!Below, Below, Config!Cardinality, Cardinality
<1>3. \A s, S : Config!PickedAt(s, S) = PickedAt(s, S)
  BY <1>1, <1>2, Zenon DEF Config!PickedAt, PickedAt
<1> QED
  BY <1>1, <1>3

(* What is picked from a sequence at the positions S, and that nothing else *)
(* is.                                                                      *)
Picks(picked, s, S, n) ==
  /\ Cardinality(S) \in 0..n
  /\ DOMAIN picked = 1..Cardinality(S) /\ Len(picked) = Cardinality(S)
  /\ \A k \in DOMAIN picked : \E i \in S : picked[k] = s[i]
  /\ \A i \in S : \E k \in DOMAIN picked : picked[k] = s[i]

(* PickedAt picks the elements at the positions it is given.                *)
LEMMA PickedIsThere ==
  ASSUME NEW s, NEW n \in Nat, NEW S, S \subseteq 1..n
  PROVE  Picks(Config!PickedAt(s, S), s, S, n)
<1> DEFINE picked == Config!PickedAt(s, S)
<1>1. picked = [k \in 1..Cardinality(S) |-> s[InOrder(S)[k]]]
  BY SameServers DEF PickedAt
<1> HIDE DEF picked
<1>2. IsFiniteSet(1..n) /\ Cardinality(1..n) = n
  BY FS_Interval
<1>3. IsFiniteSet(S) /\ Cardinality(S) <= n
  BY <1>2, FS_Subset, Zenon
<1>4. /\ Cardinality(S) \in Nat
      /\ \A k \in 1..Cardinality(S) : InOrder(S)[k] \in S
      /\ \A i \in S : \E k \in 1..Cardinality(S) : InOrder(S)[k] = i
  BY <1>3, InOrderIs
<1>5. DOMAIN picked = 1..Cardinality(S) /\ Len(picked) = Cardinality(S)
  BY <1>1, <1>4
<1>6. \A k \in 1..Cardinality(S) : picked[k] = s[InOrder(S)[k]]
  BY <1>1
<1>7. \A k \in DOMAIN picked : \E i \in S : picked[k] = s[i]
  BY <1>4, <1>5, <1>6, Zenon
<1>8. ASSUME NEW i \in S
      PROVE  \E k \in DOMAIN picked : picked[k] = s[i]
  BY <1>4, <1>5, <1>6
<1> QED
  BY <1>2, <1>3, <1>4, <1>5, <1>7, <1>8 DEF Picks, picked

(* The servers of a file are those that can start.                          *)
LEMMA ServersOfFile ==
  ASSUME NEW servers, NEW n \in Nat, DOMAIN servers = 1..n,
         NEW before, before = Config!LoadMcpSection(servers)
  PROVE  /\ \E m \in Nat : DOMAIN before = 1..m /\ Len(before) = m
         /\ \A i \in DOMAIN before : Config!CanStart(before[i])
<1> DEFINE S == {i \in DOMAIN servers : Config!LoadOneMcpServer(servers, i)}
           listed == [i \in DOMAIN servers |-> Config!McpServerPresets(servers[i])]
<1>1. before = Config!PickedAt(listed, S) /\ S \subseteq 1..n
  BY DEF Config!LoadMcpSection
<1>2. \A i \in S : Config!CanStart(listed[i])
  BY DEF Config!LoadOneMcpServer
<1> HIDE DEF S, listed
<1>3. /\ Cardinality(S) \in 0..n
      /\ DOMAIN before = 1..Cardinality(S) /\ Len(before) = Cardinality(S)
      /\ \A k \in DOMAIN before : \E i \in S : before[k] = listed[i]
  <2>1. Picks(before, listed, S, n)
    BY <1>1, PickedIsThere, Zenon
  <2> QED
    BY <2>1 DEF Picks
<1>4. Cardinality(S) \in Nat
  BY <1>3
<1> QED
  BY <1>2, <1>3, <1>4

(* The servers a variable names, and what it may do to a list of servers.   *)
NamedBy(before, v) ==
  {i \in DOMAIN before :
     v # Config!NoVariable /\ Config!UpperSnakeCase(before[i].id) = v.server}
OthersAreKept(before, named, after) ==
  /\ \A i \in DOMAIN before : (i \notin named \/ Config!Cardinality(named) > 1) =>
       \E j \in DOMAIN after : after[j] = before[i]
  /\ \A j \in DOMAIN after : Config!CanStart(after[j])

(* A variable changes the one server it is named after.                     *)
LEMMA OverridesAreOfOne ==
  ASSUME NEW before, NEW m \in Nat, DOMAIN before = 1..m,
         \A i \in DOMAIN before : Config!CanStart(before[i]), NEW v
  PROVE  /\ OthersAreKept(before, NamedBy(before, v), Config!ServerOverrides(before, v))
         /\ Len(Config!ServerOverrides(before, v)) <= m
<1> DEFINE after == Config!ServerOverrides(before, v)
           named == NamedBy(before, v)
<1> DEFINE all == [i \in DOMAIN before |->
                     IF v # Config!NoVariable /\ i \notin Config!Ambiguous(before)
                          /\ Config!UpperSnakeCase(before[i].id) = v.server
                     THEN Config!Applied(before[i], v) ELSE before[i]]
           T == {i \in DOMAIN all : Config!CanStart(all[i])}
<1>1. after = Config!PickedAt(all, T)
  BY Zenon DEF Config!ServerOverrides
<1> HIDE DEF after
<1>2. T \subseteq 1..m /\ \A i \in T : Config!CanStart(all[i])
  OBVIOUS
<1>3. ASSUME NEW i \in DOMAIN before, i \notin named \/ Config!Cardinality(named) > 1
      PROVE  all[i] = before[i]
  <2>1. CASE i \notin named
    BY <2>1 DEF NamedBy
  <2>2. CASE i \in named
    <3>1. Cardinality(named) > 1
      BY <1>3, <2>2, SameServers
    <3>2. named # {i}
      <4>1. Cardinality({i}) = 1
        BY FS_Singleton, Zenon
      <4>2. named = {i} => Cardinality(named) = 1
        BY <4>1, Zenon
      <4> QED
        BY <3>1, <4>2
    <3>3. PICK j \in named : j # i
      BY <2>2, <3>2
    <3>4. /\ j \in DOMAIN before
          /\ Config!UpperSnakeCase(before[i].id) = Config!UpperSnakeCase(before[j].id)
      BY <2>2, <3>3 DEF NamedBy
    <3>5. i \in Config!Ambiguous(before)
      BY <3>3, <3>4, Zenon DEF Config!Ambiguous, Config!Colliding
    <3> QED
      BY <3>5
  <2> QED
    BY <2>1, <2>2
<1>4. \A i \in DOMAIN before : all[i] = before[i] => i \in T
  OBVIOUS
<1> HIDE DEF all, T
<1>5. /\ Cardinality(T) \in 0..m /\ Len(after) = Cardinality(T)
      /\ \A k \in DOMAIN after : \E i \in T : after[k] = all[i]
      /\ \A i \in T : \E k \in DOMAIN after : after[k] = all[i]
  <2>1. Picks(after, all, T, m)
    BY <1>1, <1>2, PickedIsThere, Zenon
  <2> QED
    BY <2>1 DEF Picks
<1>6. \A j \in DOMAIN after : Config!CanStart(after[j])
  BY <1>2, <1>5
<1>7. ASSUME NEW i \in DOMAIN before, i \notin named \/ Config!Cardinality(named) > 1
      PROVE  \E j \in DOMAIN after : after[j] = before[i]
  <2>1. i \in T /\ all[i] = before[i]
    BY <1>3, <1>4, <1>7
  <2> QED
    BY <1>5, <2>1
<1>8. Len(after) <= m
  BY <1>5
<1> QED
  BY <1>6, <1>7, <1>8 DEF OthersAreKept, after

(* What was loaded is as the theorem says.                                  *)
LEMMA InvConfigures ==
  ASSUME ConfigInv
  PROVE  Config!TypeOK /\ Config!EffectiveOrReported /\ Config!OverridesAreUnambiguous
<1>1. CASE config = Config!NotLoaded /\ env = Config!EmptyEnv /\ file = Config!EmptyFile
  <2>1. ~config.loaded
    BY <1>1 DEF Config!NotLoaded
  <2>2. /\ file.key \in [Config!Keys -> Config!Raw] /\ env.key \in [Config!Keys -> Config!Raw]
        /\ env.server.field = Config!None
    <3>1. Config!NoKeys \in [Config!Keys -> Config!Raw]
      BY DEF Config!NoKeys, Config!Raw
    <3>2. file.key = Config!NoKeys /\ env.key = Config!NoKeys /\ env.server = Config!NoVariable
      BY <1>1 DEF Config!EmptyEnv, Config!EmptyFile
    <3>3. env.server.field = Config!None
      BY <3>2 DEF Config!NoVariable
    <3> QED
      BY <3>1, <3>2, <3>3
  <2> QED
    BY <2>1, <2>2 DEF Config!TypeOK, Config!EffectiveOrReported, Config!OverridesAreUnambiguous
<1>2. CASE LoadedAs(file, env)
  <2>1. /\ config = Config!Loaded(file, env)
        /\ file.key \in [Config!Keys -> Config!Raw]
        /\ env.key \in [Config!Keys -> Config!Raw]
        /\ file.provider \in {Config!None, "bedrock"} /\ env.provider \in {Config!None, "bedrock"}
        /\ \E n \in Nat : DOMAIN file.servers = 1..n
        /\ env.server.field \in Config!ServerFields \cup {Config!None}
    BY <1>2 DEF LoadedAs
  <2> DEFINE setting == [k \in Config!Keys |-> Config!Setting(k, file, env)]
  <2>2. /\ config.value = [k \in Config!Keys |-> setting[k].value]
        /\ config.issues = {k \in Config!Keys : setting[k].reported}
        /\ config.servers = Config!ServerOverrides(Config!LoadMcpSection(file.servers), env.server)
    BY <2>1 DEF Config!Loaded
  <2>3. ASSUME NEW k \in Config!Keys
        PROVE  setting[k] \in ASaid /\ KeySaid(k, file, env, setting[k])
    <3>1. file.key[k] \in Config!Raw /\ env.key[k] \in Config!Raw
      BY <2>1
    <3>2. setting[k] = Config!Setting(k, file, env)
      OBVIOUS
    <3> HIDE DEF setting
    <3> QED
      BY <2>1, <3>1, <3>2, KeyIsSaid
  <2> HIDE DEF setting
  <2>4. Config!EffectiveOrReported
    <3> SUFFICES ASSUME NEW k \in Config!Keys
                 PROVE  KeySaid(k, file, env,
                                [value |-> config.value[k], reported |-> k \in config.issues])
      BY Zenon DEF KeySaid, Config!EffectiveOrReported
    <3>1. config.value[k] = setting[k].value /\ (k \in config.issues <=> setting[k].reported)
      BY <2>2
    <3> QED
      BY <2>3, <3>1, Zenon DEF KeySaid
  <2>5. Config!OverridesAreUnambiguous
    <3> DEFINE before == Config!LoadMcpSection(file.servers)
    <3>1. PICK n \in Nat : DOMAIN file.servers = 1..n
      BY <2>1
    <3>2. /\ \E m \in Nat : DOMAIN before = 1..m /\ Len(before) = m
          /\ \A i \in DOMAIN before : Config!CanStart(before[i])
      BY <3>1, ServersOfFile
    <3> HIDE DEF before
    <3>3. PICK m \in Nat : DOMAIN before = 1..m /\ Len(before) = m
      BY <3>2
    <3>4. config.servers = Config!ServerOverrides(before, env.server)
      BY <2>2 DEF before
    <3>5. /\ OthersAreKept(before, NamedBy(before, env.server),
                           Config!ServerOverrides(before, env.server))
          /\ Len(Config!ServerOverrides(before, env.server)) <= m
      BY <3>2, <3>3, OverridesAreOfOne
    <3>6. OthersAreKept(before, NamedBy(before, env.server), config.servers)
            /\ Len(config.servers) <= Len(before)
      BY <3>3, <3>4, <3>5
    <3> QED
      BY <3>6, Zenon DEF Config!OverridesAreUnambiguous, before, OthersAreKept, NamedBy
  <2>6. Config!TypeOK
    <3>1. config.value \in [Config!Keys -> Config!Raw \cup {Config!Default}]
      <4>1. \A k \in Config!Keys : setting[k].value \in Config!Raw \cup {Config!Default}
        BY <2>3 DEF ASaid
      <4> QED
        BY <2>2, <4>1
    <3>2. config.issues \subseteq Config!Keys
      BY <2>2
    <3> QED
      BY <2>1, <3>1, <3>2 DEF Config!TypeOK
  <2> QED
    BY <2>4, <2>5, <2>6
<1> QED
  BY <1>1, <1>2 DEF ConfigInv

(* A start loads what the file and the environment say.                     *)
LEMMA ConfigNext ==
  ASSUME ConfigParameters, ConfigInv, [Config!Next]_Config!vars
  PROVE  ConfigInv'
<1>1. Config!NoKeys \in [Config!Keys -> Config!Raw]
  BY DEF Config!NoKeys, Config!Raw
<1>2. ASSUME NEW k \in Config!Keys, NEW inFile \in Config!Raw, NEW inEnv \in Config!Raw,
             NEW p \in {Config!None, "bedrock"}, NEW q \in {Config!None, "bedrock"},
             Config!LoadChatConfigResultFrom(
               [Config!EmptyFile EXCEPT !.provider = p, !.key[k] = inFile],
               [Config!EmptyEnv EXCEPT !.provider = q, !.key[k] = inEnv])
      PROVE  ConfigInv'
  <2>1. /\ file' = [provider |-> p, key |-> [Config!NoKeys EXCEPT ![k] = inFile],
                    servers |-> <<>>]
        /\ env' = [provider |-> q, key |-> [Config!NoKeys EXCEPT ![k] = inEnv],
                   server |-> Config!NoVariable]
        /\ config' = Config!Loaded(file', env')
    BY <1>2, Zenon DEF Config!LoadChatConfigResultFrom, Config!EmptyFile, Config!EmptyEnv
  <2>2. /\ file'.key \in [Config!Keys -> Config!Raw]
        /\ env'.key \in [Config!Keys -> Config!Raw]
    BY <1>1, <2>1
  <2>3. file'.provider = p /\ env'.provider = q /\ file'.servers = <<>>
        /\ env'.server.field = Config!None
    BY <2>1 DEF Config!NoVariable
  <2>4. DOMAIN file'.servers = 1..0 /\ 0 \in Nat
    BY <2>3
  <2> QED
    BY <2>1, <2>2, <2>3, <2>4 DEF ConfigInv, LoadedAs
<1>3. ASSUME NEW servers \in Config!SeqOf(Entries, 2),
             NEW v \in Variables \cup {Config!NoVariable},
             Config!LoadChatConfigResultFrom([Config!EmptyFile EXCEPT !.servers = servers],
                                             [Config!EmptyEnv EXCEPT !.server = v])
      PROVE  ConfigInv'
  <2>1. /\ file' = [provider |-> Config!None, key |-> Config!NoKeys, servers |-> servers]
        /\ env' = [provider |-> Config!None, key |-> Config!NoKeys, server |-> v]
        /\ config' = Config!Loaded(file', env')
    BY <1>3 DEF Config!LoadChatConfigResultFrom, Config!EmptyFile, Config!EmptyEnv
  <2>2. v.field \in Config!ServerFields \cup {Config!None}
    BY DEF ConfigParameters, Config!NoVariable
  <2>3. \E n \in Nat : DOMAIN servers = 1..n
    BY SMTT(30) DEF Config!SeqOf
  <2> QED
    BY <1>1, <2>1, <2>2, <2>3 DEF ConfigInv, LoadedAs
<1>4. CASE Config!Quit
  BY <1>4 DEF Config!Quit, ConfigInv
<1>5. CASE UNCHANGED Config!vars
  BY <1>5 DEF Config!vars, ConfigInv, LoadedAs
<1> QED
  BY <1>2, <1>3, <1>4, <1>5, Zenon DEF Config!Next, Config!StartWithKey, Config!StartWithServers

(* A start loses nothing the user wrote: each key has the value of the file *)
(* or of its variable, or is reported, and what is checked is legal; a      *)
(* variable named after a server changes that one only, none when two share *)
(* the name, and every server that is left can start.  For any entries and  *)
(* variables.                                                               *)
THEOREM NothingIsLostInSilence ==
  ASSUME ConfigParameters
  PROVE  Config!Spec =>
           [](Config!TypeOK /\ Config!EffectiveOrReported /\ Config!OverridesAreUnambiguous)
<1>1. Config!Init => ConfigInv
  BY DEF Config!Init, ConfigInv
<1>2. ConfigInv /\ [Config!Next]_Config!vars => ConfigInv'
  BY ConfigNext
<1>3. ConfigInv =>
        Config!TypeOK /\ Config!EffectiveOrReported /\ Config!OverridesAreUnambiguous
  BY InvConfigures
<1> QED
  BY <1>1, <1>2, <1>3, PTL DEF Config!Spec

-----------------------------------------------------------------------------
(*                        EDITS OF A FILE                                  *)

CONSTANTS Texts, OldTexts, NewTexts, MaxLength, MaxDiffCells
VARIABLES content, edit

Edit == INSTANCE Edits WITH file <- content, call <- edit

Written == Seq(Edit!Characters)

(* What is written are texts, and so is what it is replaced by.             *)
EditParameters ==
  Texts \subseteq Written /\ OldTexts \subseteq Written /\ NewTexts \subseteq Written

(* The edits pick elements of a sequence as this module does.               *)
LEMMA SamePicks ==
  /\ \A S : Edit!InOrder(S) = InOrder(S)
  /\ \A s, S : Edit!PickedAt(s, S) = PickedAt(s, S)
<1>1. \A S : Edit!Cardinality(S) = Cardinality(S)
  BY Zenon DEF Edit!Cardinality, Cardinality
<1>2. \A S : Edit!InOrder(S) = InOrder(S)
  BY Zenon DEF Edit!InOrder, InOrder, Edit!Below, Below, Edit!Cardinality, Cardinality
<1>3. \A s, S : Edit!PickedAt(s, S) = PickedAt(s, S)
  BY <1>1, <1>2, Zenon DEF Edit!PickedAt, PickedAt
<1> QED
  BY <1>2, <1>3

(* The place of an element is told by how many are below it.                *)
LEMMA PlaceOf ==
  ASSUME NEW S, S \subseteq Nat, IsFiniteSet(S), NEW i \in S
  PROVE  InOrder(S)[Cardinality(Below(S, i)) + 1] = i
<1>0. S \in SUBSET Nat
  OBVIOUS
<1>1. /\ Cardinality(S) \in Nat
      /\ \A k \in 1..Cardinality(S) : Cardinality(Below(S, InOrder(S)[k])) = k - 1
      /\ \E k \in 1..Cardinality(S) : InOrder(S)[k] = i
  BY <1>0, InOrderIs
<1>2. PICK k \in 1..Cardinality(S) : InOrder(S)[k] = i
  BY <1>1
<1>3. Cardinality(Below(S, i)) = k - 1
  BY <1>1, <1>2
<1>4. Cardinality(Below(S, i)) + 1 = k
  BY <1>1, <1>3
<1> QED
  BY <1>2, <1>4

(* What is picked are elements of the sequence.                             *)
LEMMA PickedType ==
  ASSUME NEW X, NEW s \in Seq(X), NEW S, S \subseteq 1..Len(s)
  PROVE  /\ PickedAt(s, S) \in Seq(X)
         /\ IsFiniteSet(S) /\ Cardinality(S) \in Nat
         /\ Len(PickedAt(s, S)) = Cardinality(S)
<1>1. IsFiniteSet(1..Len(s))
  BY FS_Interval
<1>2. IsFiniteSet(S) /\ S \in SUBSET Nat
  <2>1. S \in SUBSET (1..Len(s)) /\ S \in SUBSET Nat
    OBVIOUS
  <2> QED
    BY <1>1, <2>1, FS_Subset, Zenon
<1>3. Cardinality(S) \in Nat /\ \A k \in 1..Cardinality(S) : InOrder(S)[k] \in S
  BY <1>2, InOrderIs
<1>4. \A k \in 1..Cardinality(S) : s[InOrder(S)[k]] \in X
  <2>1. \A i \in S : s[i] \in X
    OBVIOUS
  <2> QED
    BY <1>3, <2>1, Zenon
<1> QED
  BY <1>2, <1>3, <1>4 DEF PickedAt

(* An element more at the end is picked at the end, or is not.              *)
LEMMA PickedAppend ==
  ASSUME NEW X, NEW s \in Seq(X), NEW c \in X, NEW R, R \subseteq 1..Len(s)
  PROVE  /\ PickedAt(Append(s, c), R) = PickedAt(s, R)
         /\ PickedAt(Append(s, c), R \cup {Len(s) + 1}) = Append(PickedAt(s, R), c)
<1> DEFINE n == Len(s)  S == R \cup {n + 1}
<1>1. n \in Nat /\ \A i \in 1..n : Append(s, c)[i] = s[i]
      /\ Append(s, c)[n + 1] = c
  OBVIOUS
<1>2. /\ IsFiniteSet(R) /\ Cardinality(R) \in Nat
      /\ PickedAt(s, R) \in Seq(X) /\ Len(PickedAt(s, R)) = Cardinality(R)
  BY PickedType, Zenon
<1>3. /\ R \in SUBSET Nat
      /\ \A k \in 1..Cardinality(R) : InOrder(R)[k] \in R
      /\ \A k \in 1..Cardinality(R) : Cardinality(Below(R, InOrder(R)[k])) = k - 1
  <2>1. R \in SUBSET Nat
    OBVIOUS
  <2> QED
    BY <1>2, <2>1, InOrderIs
<1>4. PickedAt(Append(s, c), R) = PickedAt(s, R)
  <2>1. \A k \in 1..Cardinality(R) : Append(s, c)[InOrder(R)[k]] = s[InOrder(R)[k]]
    BY <1>1, <1>3
  <2> QED
    BY <2>1, Zenon DEF PickedAt
<1>5. IsFiniteSet(S) /\ Cardinality(S) = Cardinality(R) + 1 /\ S \subseteq Nat
  <2>1. n + 1 \notin R /\ R \cup {n + 1} \subseteq Nat
    <3>1. R \subseteq 1..n
      OBVIOUS
    <3> HIDE DEF n
    <3> QED
      BY <1>1, <3>1
  <2>2. IsFiniteSet(R \cup {n + 1})
        /\ Cardinality(R \cup {n + 1}) = Cardinality(R) + 1
    BY <1>2, <2>1, FS_AddElement, Zenon
  <2> QED
    BY <2>1, <2>2
<1>6. InOrder(S)[Cardinality(R) + 1] = n + 1
  <2>1. Below(S, n + 1) = R
    <3>1. R \subseteq 1..n
      OBVIOUS
    <3> HIDE DEF n
    <3>2. \A i \in R : i < n + 1
      BY <1>1, <3>1
    <3>3. ~(n + 1 < n + 1)
      BY <1>1
    <3> QED
      BY <3>2, <3>3, Zenon DEF Below
  <2>2. n + 1 \in S
    OBVIOUS
  <2> HIDE DEF S
  <2> QED
    BY <1>5, <2>1, <2>2, PlaceOf, Zenon
<1>7. ASSUME NEW k \in 1..Cardinality(R)
      PROVE  InOrder(S)[k] = InOrder(R)[k]
  <2> DEFINE i == InOrder(R)[k]
  <2>1. i \in R /\ i \in 1..n /\ i \in S /\ Cardinality(Below(R, i)) = k - 1
    BY <1>3, Zenon
  <2> HIDE DEF i
  <2>2. Below(S, i) = Below(R, i)
    BY <1>1, <2>1 DEF Below
  <2> HIDE DEF S
  <2>3. InOrder(S)[Cardinality(Below(S, i)) + 1] = i
    BY <1>5, <2>1, PlaceOf, Zenon
  <2>4. Cardinality(Below(S, i)) + 1 = k
    BY <1>2, <2>1, <2>2
  <2> QED
    BY <2>3, <2>4 DEF i
<1> HIDE DEF S
<1>8. PickedAt(Append(s, c), S) = Append(PickedAt(s, R), c)
  <2> DEFINE a == PickedAt(Append(s, c), S)  b == Append(PickedAt(s, R), c)
  <2>1. DOMAIN a = 1..(Cardinality(R) + 1)
    BY <1>5 DEF PickedAt
  <2>2. DOMAIN b = 1..(Cardinality(R) + 1)
    BY <1>2
  <2>3. a[Cardinality(R) + 1] = c /\ b[Cardinality(R) + 1] = c
    BY <1>1, <1>2, <1>5, <1>6 DEF PickedAt
  <2>4. ASSUME NEW k \in 1..Cardinality(R)
        PROVE  a[k] = b[k]
    <3>0. k \in 1..Cardinality(S)
      BY <1>2, <1>5
    <3>1. a[k] = Append(s, c)[InOrder(S)[k]]
      BY <3>0, Zenon DEF PickedAt
    <3>2. b[k] = PickedAt(s, R)[k]
      BY <1>2
    <3>3. PickedAt(s, R)[k] = s[InOrder(R)[k]]
      BY DEF PickedAt
    <3>4. InOrder(R)[k] \in 1..n
      BY <1>3, Zenon
    <3>5. Append(s, c)[InOrder(R)[k]] = s[InOrder(R)[k]]
      BY <1>1, <3>4
    <3> QED
      BY <1>7, <3>1, <3>2, <3>3, <3>5, Zenon
  <2>5. \A k \in 1..(Cardinality(R) + 1) : a[k] = b[k]
    <3> HIDE DEF a, b
    <3> QED
      BY <1>2, <2>3, <2>4
  <2>6. a \in Seq(X) /\ b \in Seq(X)
    <3>1. Append(s, c) \in Seq(X) /\ S \subseteq 1..Len(Append(s, c))
      <4>1. Append(s, c) \in Seq(X) /\ Len(Append(s, c)) = n + 1
        OBVIOUS
      <4>2. R \subseteq 1..n
        OBVIOUS
      <4> HIDE DEF n
      <4>3. S \subseteq 1..(n + 1)
        BY <1>1, <4>2 DEF S
      <4> QED
        BY <4>1, <4>3
    <3>2. a \in Seq(X)
      BY <3>1, PickedType, Zenon
    <3>3. b \in Seq(X)
      BY <1>2
    <3> QED
      BY <3>2, <3>3
  <2> HIDE DEF a, b
  <2>7. a = b
    <3>1. a = [k \in DOMAIN a |-> a[k]] /\ b = [k \in DOMAIN b |-> b[k]]
      BY <2>6
    <3> QED
      BY <2>1, <2>2, <2>5, <3>1, Zenon
  <2> QED
    BY <2>7 DEF a, b
<1> QED
  BY <1>4, <1>8, Zenon DEF S

(* Nothing is picked at no position.                                        *)
LEMMA PickedNothing ==
  ASSUME NEW s
  PROVE  PickedAt(s, {}) = <<>>
<1>1. Cardinality({}) = 0
  BY FS_EmptySet
<1> QED
  BY <1>1 DEF PickedAt

Inked(text) == {i \in DOMAIN text : text[i] # Edit!Blank}

(* The ink of a text is written from left to right.                         *)
LEMMA InkIs ==
  /\ Edit!Ink(<<>>) = <<>>
  /\ \A text \in Written : Edit!Ink(text) \in Written
  /\ \A text \in Written, c \in Edit!Characters :
       Edit!Ink(Append(text, c)) =
         IF c = Edit!Blank THEN Edit!Ink(text) ELSE Append(Edit!Ink(text), c)
<1>1. \A text : Edit!Ink(text) = PickedAt(text, Inked(text))
  BY SamePicks, Zenon DEF Edit!Ink, Inked
<1>2. Edit!Ink(<<>>) = <<>>
  <2>1. Inked(<<>>) = {}
    BY DEF Inked
  <2> QED
    BY <1>1, <2>1, PickedNothing, Zenon
<1>3. ASSUME NEW text \in Written
      PROVE  Edit!Ink(text) \in Written
  <2>1. Inked(text) \subseteq 1..Len(text)
    BY DEF Inked, Written
  <2>2. text \in Seq(Edit!Characters)
    BY DEF Written
  <2>3. PickedAt(text, Inked(text)) \in Seq(Edit!Characters)
    BY <2>1, <2>2, PickedType
  <2> QED
    BY <1>1, <2>3 DEF Written
<1>4. ASSUME NEW text \in Written, NEW c \in Edit!Characters
      PROVE  Edit!Ink(Append(text, c)) =
               IF c = Edit!Blank THEN Edit!Ink(text) ELSE Append(Edit!Ink(text), c)
  <2> DEFINE R == Inked(text)  n == Len(text)
  <2>1. text \in Seq(Edit!Characters) /\ R \subseteq 1..n /\ n \in Nat
    BY DEF Inked, Written
  <2>2. /\ PickedAt(Append(text, c), R) = PickedAt(text, R)
        /\ PickedAt(Append(text, c), R \cup {n + 1}) = Append(PickedAt(text, R), c)
    <3> HIDE DEF R
    <3> QED
      BY <2>1, PickedAppend, ZenonT(40)
  <2>3. /\ DOMAIN Append(text, c) = 1..(n + 1) /\ DOMAIN text = 1..n
        /\ \A i \in 1..n : Append(text, c)[i] = text[i]
        /\ Append(text, c)[n + 1] = c
    BY <2>1
  <2> HIDE DEF n
  <2>4. Inked(Append(text, c)) = IF c = Edit!Blank THEN R ELSE R \cup {n + 1}
    BY <2>1, <2>3 DEF Inked
  <2> QED
    BY <1>1, <2>2, <2>4, Zenon
<1> QED
  BY <1>2, <1>3, <1>4

(* The ink of two texts behind one another is the ink of each.              *)
LEMMA InkOfParts ==
  ASSUME NEW a \in Written, NEW b \in Written
  PROVE  Edit!Ink(a \o b) = Edit!Ink(a) \o Edit!Ink(b)
<1> DEFINE S == {n \in Nat : n <= Len(b) =>
                   Edit!Ink(a \o SubSeq(b, 1, n)) = Edit!Ink(a) \o Edit!Ink(SubSeq(b, 1, n))}
<1>0. a \in Seq(Edit!Characters) /\ b \in Seq(Edit!Characters)
      /\ Edit!Ink(a) \in Seq(Edit!Characters)
  BY InkIs DEF Written
<1>1. 0 \in S
  <2>1. SubSeq(b, 1, 0) = <<>> /\ a \o <<>> = a /\ Edit!Ink(a) \o <<>> = Edit!Ink(a)
    BY <1>0
  <2> QED
    BY <2>1, InkIs, Zenon
<1>2. ASSUME NEW n \in Nat, n \in S
      PROVE  n + 1 \in S
  <2> SUFFICES ASSUME n + 1 <= Len(b)
               PROVE  Edit!Ink(a \o SubSeq(b, 1, n + 1))
                        = Edit!Ink(a) \o Edit!Ink(SubSeq(b, 1, n + 1))
    OBVIOUS
  <2> DEFINE p == SubSeq(b, 1, n)  c == b[n + 1]  i == Edit!Ink(a)  j == Edit!Ink(p)
  <2>1. p \in Seq(Edit!Characters) /\ c \in Edit!Characters
    BY <1>0
  <2>2. SubSeq(b, 1, n + 1) = Append(p, c)
    BY <1>0
  <2>3. Edit!Ink(a \o p) = i \o j
    BY <1>0, <1>2
  <2>4. i \in Seq(Edit!Characters) /\ j \in Seq(Edit!Characters)
    <3> HIDE DEF p
    <3> QED
      BY <1>0, <2>1, InkIs DEF Written
  <2>5. Edit!Ink(Append(p, c)) = IF c = Edit!Blank THEN j ELSE Append(j, c)
    <3>1. p \in Written
      BY <2>1 DEF Written
    <3> HIDE DEF p, c
    <3> QED
      BY <2>1, <3>1, InkIs
  <2> HIDE DEF p, c
  <2>6. a \o Append(p, c) = Append(a \o p, c) /\ a \o p \in Seq(Edit!Characters)
    BY <1>0, <2>1
  <2>7. Edit!Ink(Append(a \o p, c)) = IF c = Edit!Blank THEN i \o j ELSE Append(i \o j, c)
    <3>1. a \o p \in Written
      BY <2>6 DEF Written
    <3> DEFINE ap == a \o p
    <3> HIDE DEF ap, i, j
    <3>2. ap \in Written /\ Edit!Ink(ap) = i \o j
      BY <2>3, <3>1 DEF ap
    <3>3. Edit!Ink(Append(ap, c)) = IF c = Edit!Blank THEN Edit!Ink(ap) ELSE Append(Edit!Ink(ap), c)
      BY <2>1, <3>2, InkIs, Zenon
    <3> QED
      BY <3>2, <3>3, Zenon DEF ap
  <2> HIDE DEF i, j
  <2>8. i \o Append(j, c) = Append(i \o j, c)
    BY <2>1, <2>4
  <2>9. Edit!Ink(a \o Append(p, c)) = i \o Edit!Ink(Append(p, c))
    BY <2>5, <2>6, <2>7, <2>8, Zenon
  <2> QED
    BY <2>2, <2>9, Zenon DEF i
<1> HIDE DEF S
<1>3. Len(b) \in S
  <2>1. Len(b) \in Nat
    BY <1>0
  <2>2. Nat \subseteq S
    BY <1>1, <1>2, Induction
  <2> QED
    BY <2>1, <2>2
<1>4. SubSeq(b, 1, Len(b)) = b /\ Len(b) <= Len(b)
  BY <1>0
<1>5. Edit!Ink(a \o SubSeq(b, 1, Len(b))) = Edit!Ink(a) \o Edit!Ink(SubSeq(b, 1, Len(b)))
  BY <1>3, <1>4 DEF S
<1> QED
  BY <1>4, <1>5, Zenon

(* Blanks at the end of a line are no ink.                                  *)
LEMMA InkOfTrimmed ==
  ASSUME NEW line \in Written
  PROVE  Edit!Ink(Edit!TrimRight(line)) = Edit!Ink(line)
<1> DEFINE ink == {i \in DOMAIN line : line[i] # Edit!Blank}
<1>1. line \in Seq(Edit!Characters)
  BY DEF Written
<1>2. \A text \in Written : (\A i \in DOMAIN text : text[i] = Edit!Blank) => Edit!Ink(text) = <<>>
  <2> SUFFICES ASSUME NEW text \in Written, \A i \in DOMAIN text : text[i] = Edit!Blank
               PROVE  Edit!Ink(text) = <<>>
    OBVIOUS
  <2>1. Inked(text) = {}
    BY DEF Inked
  <2>2. Edit!Ink(text) = PickedAt(text, Inked(text))
    BY SamePicks, Zenon DEF Edit!Ink, Inked
  <2> QED
    BY <2>1, <2>2, PickedNothing
<1>3. CASE ink = {}
  <2>1. Edit!TrimRight(line) = <<>>
    BY <1>3 DEF Edit!TrimRight
  <2>2. Edit!Ink(line) = <<>>
    BY <1>2, <1>3
  <2> QED
    BY <2>1, <2>2, InkIs
<1>4. CASE ink # {}
  <2>1. \E i \in ink : \A j \in ink : j <= i
    <3>1. IsFiniteSet(1..Len(line)) /\ ink \subseteq 1..Len(line) /\ ink \in SUBSET Nat
          /\ ink \in SUBSET (1..Len(line))
      <4>1. Len(line) \in Int
        BY <1>1
      <4>2. IsFiniteSet(1..Len(line))
        BY <4>1, FS_Interval
      <4> QED
        BY <1>1, <4>2
    <3>2. IsFiniteSet(ink)
      <4> HIDE DEF ink
      <4> QED
        BY <3>1, FS_Subset, Zenon
    <3> HIDE DEF ink
    <3>3. /\ Cardinality(ink) \in Nat /\ Cardinality(ink) # 0
          /\ \A k \in 1..Cardinality(ink) : InOrder(ink)[k] \in ink
          /\ \A k, l \in 1..Cardinality(ink) : k < l => InOrder(ink)[k] < InOrder(ink)[l]
          /\ \A i \in ink : \E k \in 1..Cardinality(ink) : InOrder(ink)[k] = i
      BY <1>4, <3>1, <3>2, InOrderIs, FS_EmptySet
    <3> DEFINE c == Cardinality(ink)  top == InOrder(ink)[c]
    <3>4. c \in 1..c /\ top \in ink /\ top \in Nat
      <4>1. c \in 1..c
        BY <3>3
      <4>2. top \in ink
        BY <3>3, <4>1, Zenon
      <4> HIDE DEF top
      <4> QED
        BY <3>1, <4>1, <4>2
    <3>5. ASSUME NEW j \in ink
          PROVE  j <= top
      <4>1. PICK k \in 1..c : InOrder(ink)[k] = j
        BY <3>3
      <4>2. k = c \/ k < c
        BY <3>3
      <4>3. j \in Nat
        BY <3>1
      <4> HIDE DEF c
      <4>4. j = top \/ j < top
        BY <3>3, <3>4, <4>1, <4>2 DEF c
      <4> HIDE DEF top
      <4> QED
        BY <3>4, <4>3, <4>4
    <3> QED
      BY <3>4, <3>5
  <2> DEFINE last == CHOOSE i \in ink : \A j \in ink : j <= i
             head == SubSeq(line, 1, last)  rest == SubSeq(line, last + 1, Len(line))
  <2>2. last \in ink /\ \A j \in ink : j <= last
    <3> HIDE DEF ink
    <3> QED
      BY <2>1, Zenon
  <2>3. Edit!TrimRight(line) = head
    BY <1>4, Zenon DEF Edit!TrimRight
  <2> HIDE DEF last
  <2>4. last \in 1..Len(line) /\ \A j \in 1..Len(line) : line[j] # Edit!Blank => j <= last
    BY <1>1, <2>2
  <2>5. /\ head \in Written /\ rest \in Written /\ line = head \o rest
        /\ \A i \in DOMAIN rest : rest[i] = Edit!Blank
    <3>1. head \in Seq(Edit!Characters) /\ rest \in Seq(Edit!Characters) /\ line = head \o rest
      BY <1>1, <2>4
    <3>2. \A i \in DOMAIN rest : rest[i] = line[last + i] /\ last + i \in 1..Len(line) /\ ~(last + i <= last)
      BY <1>1, <2>4
    <3> QED
      BY <2>4, <3>1, <3>2 DEF Written
  <2> HIDE DEF head, rest
  <2>6. Edit!Ink(rest) = <<>>
    BY <1>2, <2>5
  <2>7. Edit!Ink(head \o rest) = Edit!Ink(head) \o Edit!Ink(rest)
    BY <2>5, InkOfParts
  <2>8. Edit!Ink(head) \o <<>> = Edit!Ink(head)
    <3>1. Edit!Ink(head) \in Seq(Edit!Characters)
      BY <2>5, InkIs DEF Written
    <3> QED
      BY <3>1
  <2> QED
    BY <2>3, <2>5, <2>6, <2>7, <2>8, Zenon
<1> QED
  BY <1>3, <1>4

Kept(line) ==
  {i \in DOMAIN line : ~(line[i] = Edit!Blank /\ i > 1 /\ line[i - 1] = Edit!Blank)}

(* Nor is a blank that follows a blank.                                     *)
LEMMA InkOfCollapsed ==
  ASSUME NEW line \in Written
  PROVE  Edit!Ink(Edit!CollapseWhitespaceRuns(line)) = Edit!Ink(line)
<1> DEFINE Short(t) == PickedAt(t, Kept(t))
           S == {n \in Nat : n <= Len(line) =>
                   Edit!Ink(Short(SubSeq(line, 1, n))) = Edit!Ink(SubSeq(line, 1, n))}
<1>0. line \in Seq(Edit!Characters) /\ Edit!CollapseWhitespaceRuns(line) = Short(line)
  BY SamePicks, Zenon DEF Written, Edit!CollapseWhitespaceRuns, Kept
<1>1. 0 \in S
  <2>1. SubSeq(line, 1, 0) = <<>>
    BY <1>0
  <2>2. Kept(<<>>) = {}
    BY DEF Kept
  <2>3. Short(<<>>) = <<>>
    BY <2>2, PickedNothing, Zenon
  <2> QED
    BY <2>1, <2>3, Zenon
<1>2. ASSUME NEW n \in Nat, n \in S
      PROVE  n + 1 \in S
  <2> SUFFICES ASSUME n + 1 <= Len(line)
               PROVE  Edit!Ink(Short(SubSeq(line, 1, n + 1))) = Edit!Ink(SubSeq(line, 1, n + 1))
    OBVIOUS
  <2> DEFINE p == SubSeq(line, 1, n)  c == line[n + 1]  R == Kept(p)
  <2>1. p \in Seq(Edit!Characters) /\ c \in Edit!Characters /\ Len(p) = n
    BY <1>0
  <2>2. SubSeq(line, 1, n + 1) = Append(p, c)
    BY <1>0
  <2>3. Edit!Ink(PickedAt(p, R)) = Edit!Ink(p)
    BY <1>2
  <2> HIDE DEF p, c
  <2>4. R \subseteq 1..n
    BY <2>1 DEF Kept
  <2>5. /\ DOMAIN Append(p, c) = 1..(n + 1) /\ DOMAIN p = 1..n
        /\ \A i \in 1..n : Append(p, c)[i] = p[i]
        /\ Append(p, c)[n + 1] = c
    BY <2>1
  <2>6. \/ Kept(Append(p, c)) = R \cup {n + 1}
        \/ Kept(Append(p, c)) = R /\ c = Edit!Blank
    <3>1. \A i \in 1..n : i \in Kept(Append(p, c)) <=> i \in R
      <4>1. \A i \in 1..n : i > 1 => i - 1 \in 1..n
        OBVIOUS
      <4> QED
        BY <2>5, <4>1 DEF Kept
    <3>2. n + 1 \notin Kept(Append(p, c)) => c = Edit!Blank
      BY <2>5 DEF Kept
    <3>3. Kept(Append(p, c)) \subseteq 1..(n + 1)
      BY <2>5 DEF Kept
    <3> QED
      BY <2>4, <3>1, <3>2, <3>3
  <2>7. /\ PickedAt(Append(p, c), R) = PickedAt(p, R)
        /\ PickedAt(Append(p, c), R \cup {n + 1}) = Append(PickedAt(p, R), c)
        /\ PickedAt(p, R) \in Seq(Edit!Characters)
    <3> HIDE DEF R
    <3>1. R \subseteq 1..Len(p)
      BY <2>1, <2>4
    <3>2. PickedAt(p, R) \in Seq(Edit!Characters)
      BY <2>1, <3>1, PickedType, Zenon
    <3>3. /\ PickedAt(Append(p, c), R) = PickedAt(p, R)
          /\ PickedAt(Append(p, c), R \cup {Len(p) + 1}) = Append(PickedAt(p, R), c)
      BY <2>1, <3>1, PickedAppend, ZenonT(40)
    <3> QED
      BY <2>1, <3>2, <3>3, Zenon
  <2> HIDE DEF R
  <2> DEFINE q == PickedAt(p, R)
  <2>8. /\ Edit!Ink(Append(p, c)) = IF c = Edit!Blank THEN Edit!Ink(p) ELSE Append(Edit!Ink(p), c)
        /\ Edit!Ink(Append(q, c)) = IF c = Edit!Blank THEN Edit!Ink(q) ELSE Append(Edit!Ink(q), c)
    <3>1. p \in Written /\ q \in Written
      BY <2>1, <2>7 DEF Written
    <3> HIDE DEF q
    <3> QED
      BY <2>1, <3>1, InkIs, Zenon
  <2>9. Edit!Ink(PickedAt(Append(p, c), Kept(Append(p, c)))) = Edit!Ink(Append(p, c))
    <3>1. Edit!Ink(q) = Edit!Ink(p)
      BY <2>3
    <3>2. CASE Kept(Append(p, c)) = R \cup {n + 1}
      <4>1. PickedAt(Append(p, c), Kept(Append(p, c))) = Append(q, c)
        BY <2>7, <3>2, Zenon
      <4> HIDE DEF q
      <4>2. Edit!Ink(Append(q, c)) = Edit!Ink(Append(p, c))
        BY <2>8, <3>1, Zenon
      <4> QED
        BY <4>1, <4>2, Zenon
    <3>3. CASE Kept(Append(p, c)) = R /\ c = Edit!Blank
      <4>1. PickedAt(Append(p, c), Kept(Append(p, c))) = q
        BY <2>7, <3>3, Zenon
      <4> HIDE DEF q
      <4>2. Edit!Ink(Append(p, c)) = Edit!Ink(q)
        BY <2>8, <3>1, <3>3, Zenon
      <4> QED
        BY <4>1, <4>2, Zenon
    <3> QED
      BY <2>6, <3>2, <3>3, Zenon
  <2> QED
    BY <2>2, <2>9, Zenon
<1> HIDE DEF S
<1>3. Len(line) \in S
  <2>1. Len(line) \in Nat
    BY <1>0
  <2>2. Nat \subseteq S
    BY <1>1, <1>2, Induction
  <2> QED
    BY <2>1, <2>2
<1>4. SubSeq(line, 1, Len(line)) = line /\ Len(line) <= Len(line)
  BY <1>0
<1>5. Edit!Ink(Short(SubSeq(line, 1, Len(line)))) = Edit!Ink(SubSeq(line, 1, Len(line)))
  <2> HIDE DEF Short
  <2> QED
    BY <1>3, <1>4 DEF S
<1> QED
  BY <1>0, <1>4, <1>5, Zenon

-----------------------------------------------------------------------------

(* A line of a text, up to its newline or to the end.                       *)
ALine(line, text) ==
  /\ line.start \in 1..Len(text) /\ line.end \in line.start..(Len(text) + 1)
  /\ line.text = Edit!Cut(text, line.start, line.end)
  /\ \/ line.end = Len(text) + 1 /\ line.endWithNewline = line.end
     \/ /\ line.end <= Len(text) /\ text[line.end] = Edit!NewLine
        /\ line.endWithNewline = line.end + 1
  /\ \A i \in line.start..(line.end - 1) : text[i] # Edit!NewLine

(* LineAt finds one at every start.                                         *)
LEMMA LineAtIs ==
  ASSUME NEW text \in Written, NEW s \in Edit!Starts(text)
  PROVE  ALine(Edit!LineAt(text, s), text) /\ Edit!LineAt(text, s).start = s
<1> DEFINE after == {i \in Edit!Breaks(text) : i >= s}
           end == IF after = {} THEN Len(text) + 1
                  ELSE CHOOSE i \in after : \A j \in after : i <= j
<1>0. text \in Seq(Edit!Characters) /\ s \in 1..Len(text) /\ Len(text) \in Nat
  BY DEF Written, Edit!Starts
<1>1. Edit!LineAt(text, s) =
        [text |-> Edit!Cut(text, s, end), start |-> s, end |-> end,
         endWithNewline |-> IF after = {} THEN end ELSE end + 1]
  BY DEF Edit!LineAt
<1>2. /\ after \subseteq Nat
      /\ \A i \in 1..Len(text) : text[i] = Edit!NewLine /\ i >= s <=> i \in after
      /\ \A i \in after : i \in 1..Len(text) /\ i >= s /\ text[i] = Edit!NewLine
  BY <1>0 DEF Edit!Breaks
<1>3. CASE after = {}
  <2>1. end = Len(text) + 1
    BY <1>3
  <2>2. \A i \in s..(end - 1) : text[i] # Edit!NewLine
    <3> HIDE DEF after
    <3> QED
      BY <1>0, <1>2, <1>3, <2>1
  <2> HIDE DEF end, after
  <2> QED
    BY <1>0, <1>1, <1>3, <2>1, <2>2 DEF ALine
<1>4. CASE after # {}
  <2> HIDE DEF after
  <2>1. \E i \in after : \A j \in after : i <= j
    <3>1. after \in SUBSET Nat
      BY <1>2
    <3> QED
      BY <1>4, <3>1, LeastNatural
  <2>2. end \in after /\ \A j \in after : end <= j
    BY <1>4, <2>1, Zenon
  <2> HIDE DEF end
  <2>3. end \in 1..Len(text) /\ end >= s /\ text[end] = Edit!NewLine
    BY <1>2, <2>2
  <2>4. \A i \in s..(end - 1) : text[i] # Edit!NewLine
    <3> SUFFICES ASSUME NEW i \in s..(end - 1), text[i] = Edit!NewLine PROVE FALSE
      OBVIOUS
    <3>1. i \in 1..Len(text) /\ i >= s /\ ~(end <= i)
      BY <1>0, <2>3
    <3>2. i \in after
      BY <1>2, <3>1
    <3> QED
      BY <2>2, <3>1, <3>2
  <2> QED
    BY <1>0, <1>1, <1>4, <2>3, <2>4 DEF ALine
<1> QED
  BY <1>3, <1>4

(* The lines of a text, which follow one another and leave nothing out.     *)
Lines(lines, text, m) ==
  /\ DOMAIN lines = 1..m /\ Len(lines) = m
  /\ \A l \in 1..m : ALine(lines[l], text)
  /\ \A k, l \in 1..m : k < l => lines[k].start < lines[l].start
  /\ \A l \in 1..m : l < m => lines[l].end <= Len(text)
                              /\ lines[l + 1].start = lines[l].end + 1
  /\ m > 0 => lines[1].start = 1 /\ lines[m].endWithNewline = Len(text) + 1
  /\ text # <<>> => m > 0

(* SplitLinesWithOffsets finds them.                                        *)
LEMMA SplitIs ==
  ASSUME NEW text \in Written
  PROVE  \E m \in Nat : Lines(Edit!SplitLinesWithOffsets(text), text, m)
<1> DEFINE B == Edit!Starts(text)  f == InOrder(B)  n == Len(text)
           lines == Edit!SplitLinesWithOffsets(text)  m == Cardinality(B)
<1>0. text \in Seq(Edit!Characters) /\ n \in Nat /\ DOMAIN text = 1..n
      /\ (text # <<>> => n > 0)
  BY DEF Written
<1>1. /\ B \in SUBSET Nat /\ B \subseteq 1..n
      /\ n > 0 => 1 \in B
      /\ \A i \in B : i = 1 \/ text[i - 1] = Edit!NewLine
      /\ \A i \in 1..n : i + 1 <= n /\ text[i] = Edit!NewLine => i + 1 \in B
  <2>1. B \subseteq 1..n
    BY <1>0 DEF Edit!Starts
  <2>2. \A i \in 1..n : i + 1 <= n /\ text[i] = Edit!NewLine => i + 1 \in B
    <3> SUFFICES ASSUME NEW i \in 1..n, i + 1 <= n, text[i] = Edit!NewLine PROVE i + 1 \in B
      OBVIOUS
    <3>1. i + 1 \in DOMAIN text /\ (i + 1) - 1 = i
      BY <1>0
    <3> QED
      BY <3>1 DEF Edit!Starts
  <2> QED
    BY <1>0, <2>1, <2>2 DEF Edit!Starts
<1>2. IsFiniteSet(B)
  <2>1. IsFiniteSet(1..n)
    BY <1>0, FS_Interval
  <2>2. B \in SUBSET (1..n)
    BY <1>1
  <2> QED
    BY <2>1, <2>2, FS_Subset
<1>3. /\ m \in Nat /\ DOMAIN f = 1..m
      /\ \A k \in 1..m : f[k] \in B
      /\ \A k, l \in 1..m : k < l => f[k] < f[l]
      /\ \A i \in B : \E k \in 1..m : f[k] = i
  <2> HIDE DEF B
  <2> QED
    BY <1>1, <1>2, InOrderIs
<1>4. lines = [l \in DOMAIN f |-> Edit!LineAt(text, f[l])]
  BY SamePicks, Zenon DEF Edit!SplitLinesWithOffsets
<1> HIDE DEF B, f, m, lines, n
<1>5. DOMAIN lines = 1..m /\ Len(lines) = m
  BY <1>3, <1>4
<1>6. ASSUME NEW l \in 1..m
      PROVE  ALine(lines[l], text) /\ lines[l].start = f[l] /\ f[l] \in 1..n
  BY <1>1, <1>3, <1>4, LineAtIs DEF B
<1>7. \A k, l \in 1..m : f[k] < f[l] => k < l
  <2> SUFFICES ASSUME NEW k \in 1..m, NEW l \in 1..m, f[k] < f[l] PROVE k < l
    OBVIOUS
  <2>1. f[k] \in Nat /\ f[l] \in Nat
    BY <1>6
  <2>2. ~(f[l] < f[k]) /\ f[l] # f[k]
    BY <2>1
  <2>3. ~(l < k) /\ l # k
    BY <1>3, <2>2
  <2> QED
    BY <1>3, <2>3
<1>8. ASSUME NEW l \in 1..m
      PROVE  /\ l < m => lines[l].end <= n /\ f[l + 1] = lines[l].end + 1
             /\ l = m => lines[l].endWithNewline = n + 1
  <2> DEFINE e == lines[l].end
  <2>1. /\ f[l] \in 1..n /\ e \in f[l]..(n + 1)
        /\ \/ e = n + 1 /\ lines[l].endWithNewline = e
           \/ e <= n /\ text[e] = Edit!NewLine /\ lines[l].endWithNewline = e + 1
        /\ \A i \in f[l]..(e - 1) : text[i] # Edit!NewLine
    BY <1>6 DEF ALine, n
  <2> HIDE DEF e
  <2>2. e <= n /\ e + 1 <= n => \E k \in 1..m : f[k] = e + 1 /\ l < k
    <3> SUFFICES ASSUME e <= n, e + 1 <= n PROVE \E k \in 1..m : f[k] = e + 1 /\ l < k
      OBVIOUS
    <3>1. text[e] = Edit!NewLine /\ e \in 1..n /\ f[l] < e + 1
      BY <1>0, <2>1
    <3>2. e + 1 \in B
      BY <1>1, <3>1
    <3>3. PICK k \in 1..m : f[k] = e + 1
      BY <1>3, <3>2
    <3> QED
      BY <1>7, <3>1, <3>3
  <2>3. CASE l < m
    <3>1. l + 1 \in 1..m /\ f[l] < f[l + 1] /\ f[l + 1] \in 1..n
      <4>1. l + 1 \in 1..m /\ l < l + 1
        BY <1>3, <2>3
      <4> QED
        BY <1>3, <1>6, <4>1
    <3>2. text[f[l + 1] - 1] = Edit!NewLine /\ f[l + 1] - 1 \in f[l]..n
      <4>1. f[l + 1] # 1 /\ f[l + 1] - 1 \in f[l]..n
        BY <1>0, <2>1, <3>1
      <4> QED
        BY <1>1, <1>3, <3>1, <4>1
    <3>3. e <= f[l + 1] - 1
      <4> DEFINE i == f[l + 1] - 1
      <4>1. i \in f[l]..n /\ text[i] = Edit!NewLine
        BY <3>2
      <4> HIDE DEF i
      <4>2. ~(i \in f[l]..(e - 1))
        BY <2>1, <4>1
      <4>3. e <= i
        BY <1>0, <2>1, <4>1, <4>2
      <4> QED
        BY <4>3 DEF i
    <3>4. e <= n /\ e + 1 <= n
      BY <1>0, <2>1, <3>1, <3>3
    <3>5. PICK k \in 1..m : f[k] = e + 1 /\ l < k
      BY <2>2, <3>4
    <3>6. f[l + 1] = e + 1
      <4>1. k = l + 1 \/ l + 1 < k
        BY <1>3, <3>5
      <4>2. l + 1 < k => f[l + 1] < f[k]
        BY <1>3, <3>1
      <4> QED
        BY <1>0, <2>1, <3>1, <3>3, <3>5, <4>1, <4>2
    <3> QED
      BY <1>3, <2>3, <3>4, <3>6 DEF e
  <2>4. CASE l = m
    <3>1. ~(e <= n /\ e + 1 <= n)
      BY <1>3, <2>2, <2>4
    <3>2. lines[l].endWithNewline = n + 1
      BY <1>0, <2>1, <3>1
    <3> QED
      BY <1>3, <2>4, <3>2
  <2> QED
    BY <1>3, <2>3, <2>4
<1>9. m > 0 => lines[1].start = 1
  <2> SUFFICES ASSUME m > 0 PROVE lines[1].start = 1
    OBVIOUS
  <2>1. 1 \in 1..m /\ f[1] \in 1..n
    BY <1>3, <1>6
  <2>2. PICK k \in 1..m : f[k] = 1
    BY <1>0, <1>1, <1>3, <2>1
  <2>3. k = 1 \/ f[1] < f[k]
    BY <1>3, <2>1
  <2>4. f[1] = 1
    BY <2>1, <2>2, <2>3
  <2> QED
    BY <1>6, <2>1, <2>4
<1>10. text # <<>> => m > 0
  <2> SUFFICES ASSUME text # <<>> PROVE m > 0
    OBVIOUS
  <2>1. \E k \in 1..m : f[k] = 1
    BY <1>0, <1>1, <1>3
  <2> QED
    BY <1>3, <2>1
<1>11. /\ \A l \in 1..m : ALine(lines[l], text)
       /\ \A k, l \in 1..m : k < l => lines[k].start < lines[l].start
  BY <1>3, <1>6
<1>12. \A l \in 1..m : l < m => lines[l].end <= n /\ lines[l + 1].start = lines[l].end + 1
  <2> SUFFICES ASSUME NEW l \in 1..m, l < m
               PROVE  lines[l].end <= n /\ lines[l + 1].start = lines[l].end + 1
    OBVIOUS
  <2>1. l + 1 \in 1..m
    BY <1>3
  <2> QED
    BY <1>6, <1>8, <2>1
<1>13. m > 0 => lines[m].endWithNewline = n + 1
  <2>1. m > 0 => m \in 1..m
    BY <1>3
  <2> QED
    BY <1>8, <2>1
<1> QED
  BY <1>3, <1>5, <1>9, <1>10, <1>11, <1>12, <1>13, Zenon DEF Lines, n, lines

(* What is cut is written as the text is, and a stretch grows by a line.    *)
LEMMA StretchGrows ==
  ASSUME NEW text \in Written, NEW lines, NEW m \in Nat, Lines(lines, text, m),
         NEW a \in 1..m, NEW i \in 1..m, a <= i, i < m
  PROVE  Edit!Ink(Edit!Cut(text, lines[a].start, lines[i + 1].end))
           = (Edit!Ink(Edit!Cut(text, lines[a].start, lines[i].end)) \o Edit!Ink(<<Edit!NewLine>>))
               \o Edit!Ink(lines[i + 1].text)
<1> DEFINE s == lines[a].start  e == lines[i].end  z == lines[i + 1].end
           x == Edit!Cut(text, s, e)  y == <<Edit!NewLine>>  w == lines[i + 1].text
<1>0. text \in Seq(Edit!Characters) /\ Len(text) \in Nat
  BY DEF Written
<1>1. i + 1 \in 1..m
  OBVIOUS
<1>2. /\ ALine(lines[a], text) /\ ALine(lines[i], text) /\ ALine(lines[i + 1], text)
      /\ s <= lines[i].start
      /\ e <= Len(text) /\ lines[i + 1].start = e + 1
  <2>1. a = i \/ a < i
    OBVIOUS
  <2>2. s <= lines[i].start
    <3>1. s \in Nat /\ lines[i].start \in Nat
      <4>1. ALine(lines[a], text) /\ ALine(lines[i], text)
        BY DEF Lines
      <4> QED
        BY <1>0, <4>1 DEF ALine
    <3>2. a < i => s < lines[i].start
      BY DEF Lines
    <3> HIDE DEF s
    <3> QED
      BY <2>1, <3>1, <3>2 DEF s
  <2> QED
    BY <1>1, <2>2 DEF Lines
<1>3. /\ s \in 1..Len(text) /\ e \in s..Len(text) /\ z \in (e + 1)..(Len(text) + 1)
      /\ text[e] = Edit!NewLine /\ w = Edit!Cut(text, e + 1, z)
  <2>1. s \in 1..Len(text) /\ lines[i].start \in 1..Len(text)
        /\ e \in lines[i].start..(Len(text) + 1)
        /\ (e = Len(text) + 1 \/ text[e] = Edit!NewLine)
    BY <1>2 DEF ALine
  <2>2. z \in (e + 1)..(Len(text) + 1) /\ w = Edit!Cut(text, e + 1, z)
    BY <1>2 DEF ALine
  <2> HIDE DEF s, e, z, w
  <2> QED
    BY <1>0, <1>2, <2>1, <2>2
<1> HIDE DEF s, e, z, w
<1>4. /\ x \in Seq(Edit!Characters) /\ y \in Seq(Edit!Characters) /\ w \in Seq(Edit!Characters)
      /\ Edit!Cut(text, s, z) = (x \o y) \o w
  <2>1. e \in 1..Len(text) /\ text[e] \in Edit!Characters
    BY <1>0, <1>3
  <2>2. y \in Seq(Edit!Characters)
    BY <1>3, <2>1
  <2>3. x \in Seq(Edit!Characters) /\ w \in Seq(Edit!Characters)
    BY <1>0, <1>3 DEF Edit!Cut
  <2>4. SubSeq(text, s, z - 1) = (SubSeq(text, s, e - 1) \o <<text[e]>>) \o SubSeq(text, e + 1, z - 1)
    BY <1>0, <1>3
  <2> QED
    BY <1>3, <2>2, <2>3, <2>4, Zenon DEF Edit!Cut
<1> HIDE DEF x, y
<1>5. x \o y \in Seq(Edit!Characters)
  BY <1>4
<1>6. Edit!Ink((x \o y) \o w) = Edit!Ink(x \o y) \o Edit!Ink(w)
      /\ Edit!Ink(x \o y) = Edit!Ink(x) \o Edit!Ink(y)
  <2> DEFINE xy == x \o y
  <2>1. x \in Written /\ y \in Written /\ w \in Written /\ xy \in Written
    BY <1>4, <1>5 DEF Written
  <2>2. Edit!Ink(x \o y) = Edit!Ink(x) \o Edit!Ink(y)
    BY <2>1, InkOfParts, Zenon
  <2> HIDE DEF xy
  <2>3. Edit!Ink(xy \o w) = Edit!Ink(xy) \o Edit!Ink(w)
    BY <2>1, InkOfParts, Zenon
  <2> QED
    BY <2>2, <2>3 DEF xy
<1> QED
  BY <1>4, <1>6, Zenon DEF x, y, s, e, z, w

(* The lines from l on read like the first n of the others, for the blanks. *)
ReadAlike(lines, l, oldLines, n) ==
  \A k \in 1..n : Edit!Ink(lines[l + k - 1].text) = Edit!Ink(oldLines[k].text)

(* Lines that read alike one by one read alike together.                    *)
LEMMA StretchesAlike ==
  ASSUME NEW text \in Written, NEW lines, NEW m \in Nat, Lines(lines, text, m),
         NEW old \in Written, NEW oldLines, NEW n \in Nat, Lines(oldLines, old, n), n > 0,
         NEW l \in 1..m, l + n - 1 <= m, ReadAlike(lines, l, oldLines, n)
  PROVE  Edit!Ink(Edit!Cut(text, lines[l].start, lines[l + n - 1].end))
           = Edit!Ink(Edit!Cut(old, 1, oldLines[n].end))
<1> DEFINE Here(k) == Edit!Ink(Edit!Cut(text, lines[l].start, lines[l + k].end))
           There(k) == Edit!Ink(Edit!Cut(old, oldLines[1].start, oldLines[k + 1].end))
           S == {k \in Nat : k + 1 <= n => Here(k) = There(k)}
<1>1. 0 \in S
  <2>1. 1 \in 1..n /\ l + 1 - 1 = l /\ l + 0 = l /\ 0 + 1 = 1
    OBVIOUS
  <2>2. /\ lines[l].text = Edit!Cut(text, lines[l].start, lines[l].end)
        /\ oldLines[1].text = Edit!Cut(old, oldLines[1].start, oldLines[1].end)
    BY <2>1 DEF Lines, ALine
  <2>3. Edit!Ink(lines[l].text) = Edit!Ink(oldLines[1].text)
    BY <2>1 DEF ReadAlike
  <2>4. Here(0) = There(0)
    BY <2>1, <2>2, <2>3
  <2> HIDE DEF Here, There
  <2> QED
    BY <2>4
<1>2. ASSUME NEW k \in Nat, k \in S
      PROVE  k + 1 \in S
  <2> SUFFICES ASSUME (k + 1) + 1 <= n PROVE Here(k + 1) = There(k + 1)
    <3> HIDE DEF Here, There
    <3> QED
      OBVIOUS
  <2>1. Here(k) = There(k)
    <3> HIDE DEF Here, There
    <3> QED
      BY <1>2
  <2>2. /\ l + k \in 1..m /\ l <= l + k /\ l + k < m /\ (l + k) + 1 = l + (k + 1)
        /\ 1 \in 1..n /\ k + 1 \in 1..n /\ 1 <= k + 1 /\ k + 1 < n
        /\ (k + 1) + 1 \in 1..n /\ l + ((k + 1) + 1) - 1 = l + (k + 1)
    OBVIOUS
  <2> DEFINE i == l + k  j == k + 1  nl == Edit!Ink(<<Edit!NewLine>>)
  <2>3. Here(k + 1) = (Here(k) \o nl) \o Edit!Ink(lines[l + (k + 1)].text)
    <3>1. i \in 1..m /\ l <= i /\ i < m
      BY <2>2
    <3> HIDE DEF i
    <3>2. Edit!Ink(Edit!Cut(text, lines[l].start, lines[i + 1].end))
            = (Edit!Ink(Edit!Cut(text, lines[l].start, lines[i].end)) \o nl)
                 \o Edit!Ink(lines[i + 1].text)
      BY <3>1, StretchGrows, Zenon
    <3> QED
      BY <2>2, <3>2, Zenon DEF i
  <2>4. There(k + 1) = (There(k) \o nl) \o Edit!Ink(oldLines[(k + 1) + 1].text)
    <3>1. 1 \in 1..n /\ j \in 1..n /\ 1 <= j /\ j < n
      BY <2>2
    <3> HIDE DEF j
    <3>2. Edit!Ink(Edit!Cut(old, oldLines[1].start, oldLines[j + 1].end))
            = (Edit!Ink(Edit!Cut(old, oldLines[1].start, oldLines[j].end)) \o nl)
                 \o Edit!Ink(oldLines[j + 1].text)
      BY <3>1, StretchGrows, Zenon
    <3> QED
      BY <3>2 DEF j
  <2>5. Edit!Ink(lines[l + (k + 1)].text) = Edit!Ink(oldLines[(k + 1) + 1].text)
    BY <2>2 DEF ReadAlike
  <2> HIDE DEF Here, There, nl
  <2> QED
    BY <2>1, <2>3, <2>4, <2>5, Zenon
<1> HIDE DEF S, Here, There
<1>3. n - 1 \in S
  <2>1. n - 1 \in Nat
    OBVIOUS
  <2>2. Nat \subseteq S
    BY <1>1, <1>2, Induction
  <2> QED
    BY <2>1, <2>2
<1>4. Here(n - 1) = There(n - 1)
  BY <1>3 DEF S
<1>5. l + (n - 1) = l + n - 1 /\ (n - 1) + 1 = n /\ oldLines[1].start = 1
  BY DEF Lines
<1> QED
  BY <1>4, <1>5 DEF Here, There

(* What an edit takes out: from i to j, and what it reads like.             *)
Takes(text, old, i, j) ==
  /\ i \in 1..(Len(text) + 1) /\ j \in 1..(Len(text) + 1) /\ i <= j
  /\ \/ Edit!Ink(Edit!Cut(text, i, j)) = Edit!Ink(old)
     \/ Edit!Ink(Edit!Cut(text, i, j)) \o <<Edit!NewLine>> = Edit!Ink(old) /\ j = Len(text) + 1

(* A match found by lines reads like old_string.                            *)
LEMMA WindowReads ==
  ASSUME NEW text \in Written, NEW old \in Written, old # <<>>,
         NEW way \in {"trimmed", "collapsed"},
         NEW match \in Edit!FindLineWindowMatches(text, old, way)
  PROVE  Takes(text, old, match.start, match.end)
<1> DEFINE lines == Edit!SplitLinesWithOffsets(text)
           split == Edit!SplitLinesWithOffsets(old)
           oldLines == Edit!SplitLines(old)
<1>0. /\ text \in Seq(Edit!Characters) /\ Len(text) \in Nat
      /\ old \in Seq(Edit!Characters) /\ Len(old) \in Nat /\ Len(old) > 0
  BY DEF Written
<1>1. PICK m \in Nat : Lines(lines, text, m)
  BY SplitIs
<1>2. PICK n \in Nat : Lines(split, old, n)
  BY SplitIs
<1>3. oldLines = [l \in 1..n |-> split[l].text] /\ Len(oldLines) = n /\ n > 0
  <2>1. oldLines = [l \in DOMAIN split |-> split[l].text]
    BY DEF Edit!SplitLines
  <2> HIDE DEF oldLines, split
  <2>2. DOMAIN split = 1..n /\ n > 0
    BY <1>2 DEF Lines
  <2> QED
    BY <2>1, <2>2
<1>4. PICK l \in DOMAIN lines :
        /\ l + Len(oldLines) - 1 <= Len(lines)
        /\ \A k \in DOMAIN oldLines :
             Edit!Normalized(lines[l + k - 1].text, way) = Edit!Normalized(oldLines[k], way)
        /\ match = [start |-> lines[l].start,
                    end |-> Edit!MatchEnd(old, lines[l + Len(oldLines) - 1])]
  <2> HIDE DEF lines, oldLines
  <2> QED
    BY Zenon DEF Edit!FindLineWindowMatches, lines, oldLines
<1> HIDE DEF lines, split, oldLines
<1>5. /\ l \in 1..m /\ l + n - 1 <= m /\ l + n - 1 \in 1..m
      /\ match = [start |-> lines[l].start, end |-> Edit!MatchEnd(old, lines[l + n - 1])]
      /\ \A k \in 1..n : Edit!Normalized(lines[l + k - 1].text, way)
                           = Edit!Normalized(split[k].text, way)
  <2>1. DOMAIN lines = 1..m /\ Len(lines) = m /\ DOMAIN oldLines = 1..n
        /\ \A k \in 1..n : oldLines[k] = split[k].text
    BY <1>1, <1>3 DEF Lines
  <2> QED
    BY <1>3, <1>4, <2>1
<1>6. /\ \A k \in 1..m : ALine(lines[k], text)
      /\ \A k \in 1..n : ALine(split[k], old)
  BY <1>1, <1>2 DEF Lines
<1>7. \A t \in Written : Edit!Ink(Edit!Normalized(t, way)) = Edit!Ink(t)
  BY InkOfTrimmed, InkOfCollapsed DEF Edit!Normalized
<1>8. ReadAlike(lines, l, split, n)
  <2> SUFFICES ASSUME NEW k \in 1..n
               PROVE  Edit!Ink(lines[l + k - 1].text) = Edit!Ink(split[k].text)
    BY DEF ReadAlike
  <2>1. l + k - 1 \in 1..m
    BY <1>5
  <2>2. lines[l + k - 1].text \in Written /\ split[k].text \in Written
    <3>1. \A t \in Written : \A line : ALine(line, t) => line.text \in Written
      <4> SUFFICES ASSUME NEW t \in Written, NEW line, ALine(line, t) PROVE line.text \in Written
        OBVIOUS
      <4> DEFINE a == line.start  b == line.end
      <4>1. t \in Seq(Edit!Characters) /\ a \in 1..Len(t) /\ b \in a..(Len(t) + 1)
            /\ line.text = SubSeq(t, a, b - 1)
        BY DEF Written, ALine, Edit!Cut
      <4> HIDE DEF a, b
      <4>2. SubSeq(t, a, b - 1) \in Seq(Edit!Characters)
        BY <4>1
      <4> QED
        BY <4>1, <4>2 DEF Written
    <3> QED
      BY <1>6, <2>1, <3>1
  <2>3. Edit!Normalized(lines[l + k - 1].text, way) = Edit!Normalized(split[k].text, way)
    BY <1>5
  <2> QED
    BY <1>7, <2>2, <2>3, Zenon
<1> DEFINE s == lines[l].start  last == lines[l + n - 1]  e == last.end
           oldLast == split[n]  oe == oldLast.end
<1>9. Edit!Ink(Edit!Cut(text, s, e)) = Edit!Ink(Edit!Cut(old, 1, oe))
  <2>1. Lines(lines, text, m) /\ Lines(split, old, n) /\ n > 0 /\ l \in 1..m /\ l + n - 1 <= m
    BY <1>1, <1>2, <1>3, <1>5
  <2>2. Edit!Ink(Edit!Cut(text, lines[l].start, lines[l + n - 1].end))
          = Edit!Ink(Edit!Cut(old, 1, split[n].end))
    BY <1>8, <2>1, StretchesAlike, SMTT(30)
  <2> QED
    BY <2>2
<1>10. /\ s \in 1..Len(text) /\ e \in s..(Len(text) + 1)
       /\ \/ e = Len(text) + 1 /\ last.endWithNewline = e
          \/ e <= Len(text) /\ text[e] = Edit!NewLine /\ last.endWithNewline = e + 1
  <2>1. s <= last.start
    <3>1. n = 1 \/ l < l + n - 1
      BY <1>3, <1>5
    <3>2. s \in Nat /\ last.start \in Nat
      BY <1>0, <1>5, <1>6 DEF ALine
    <3>3. l < l + n - 1 => s < last.start
      BY <1>1, <1>5 DEF Lines
    <3>4. n = 1 => last.start = s
      BY <1>5
    <3> HIDE DEF s, last
    <3> QED
      BY <3>1, <3>2, <3>3, <3>4
  <2>2. s \in 1..Len(text) /\ last.start \in 1..Len(text) /\ e \in last.start..(Len(text) + 1)
        /\ \/ e = Len(text) + 1 /\ last.endWithNewline = e
           \/ e <= Len(text) /\ text[e] = Edit!NewLine /\ last.endWithNewline = e + 1
    BY <1>5, <1>6, Zenon DEF ALine
  <2> HIDE DEF s, last, e
  <2> QED
    BY <1>0, <2>1, <2>2
<1>11. /\ oldLast.endWithNewline = Len(old) + 1
       /\ oldLast.start \in 1..Len(old) /\ oe \in oldLast.start..(Len(old) + 1)
       /\ \/ oe = Len(old) + 1
          \/ oe <= Len(old) /\ old[oe] = Edit!NewLine /\ oldLast.endWithNewline = oe + 1
       /\ \A i \in oldLast.start..(oe - 1) : old[i] # Edit!NewLine
  <2>1. n \in 1..n
    BY <1>3
  <2>2. ALine(oldLast, old) /\ oldLast.endWithNewline = Len(old) + 1
    BY <1>2, <1>3, <1>6, <2>1 DEF Lines
  <2> QED
    BY <2>2 DEF ALine
<1>12. match.start = s
       /\ match.end = IF Edit!HasTrailingNewline(old) THEN last.endWithNewline ELSE e
  BY <1>5 DEF Edit!MatchEnd
<1>13. Edit!HasTrailingNewline(old) <=> old[Len(old)] = Edit!NewLine
  <2>1. Edit!Last(old) = old[Len(old)]
    BY DEF Edit!Last
  <2> QED
    BY <2>1 DEF Edit!HasTrailingNewline
<1> HIDE DEF s, last, e, oldLast, oe
<1>14. CASE old[Len(old)] # Edit!NewLine
  <2>1. oe = Len(old) + 1
    BY <1>0, <1>11, <1>14
  <2>2. Edit!Cut(old, 1, oe) = old
    BY <1>0, <2>1 DEF Edit!Cut
  <2>3. match.start = s /\ match.end = e
    BY <1>12, <1>13, <1>14
  <2>4. Edit!Ink(Edit!Cut(text, s, e)) = Edit!Ink(old)
    BY <1>9, <2>2, Zenon
  <2>5. s \in 1..(Len(text) + 1) /\ e \in 1..(Len(text) + 1) /\ s <= e
    BY <1>0, <1>10
  <2> QED
    BY <2>3, <2>4, <2>5, Zenon DEF Takes
<1>15. CASE old[Len(old)] = Edit!NewLine
  <2>1. oe = Len(old)
    <3>1. oe # Len(old) + 1
      <4> SUFFICES ASSUME oe = Len(old) + 1 PROVE FALSE
        OBVIOUS
      <4>1. Len(old) \in oldLast.start..(oe - 1)
        BY <1>0, <1>11
      <4> QED
        BY <1>11, <1>15, <4>1
    <3> QED
      BY <1>0, <1>11, <3>1
  <2> DEFINE h == Edit!Cut(old, 1, oe)  nl == <<Edit!NewLine>>
  <2>2. h \in Written /\ nl \in Written /\ old = h \o nl
    <3>1. old[Len(old)] \in Edit!Characters
      BY <1>0
    <3>2. nl \in Seq(Edit!Characters)
      BY <1>15, <3>1
    <3>3. SubSeq(old, 1, Len(old) - 1) \in Seq(Edit!Characters)
          /\ old = SubSeq(old, 1, Len(old) - 1) \o <<old[Len(old)]>>
      BY <1>0
    <3> QED
      BY <1>15, <2>1, <3>2, <3>3 DEF Written, Edit!Cut
  <2>3. Edit!Ink(nl) = nl
    <3>1. <<>> \in Written /\ Edit!NewLine \in Edit!Characters /\ Edit!NewLine # Edit!Blank
      BY DEF Written, Edit!NewLine, Edit!Blank, Edit!Characters
    <3> DEFINE none == <<>>
    <3>2. Append(none, Edit!NewLine) = nl /\ none \in Written /\ Edit!Ink(none) = none
      BY <3>1, InkIs DEF Written
    <3> HIDE DEF none, nl
    <3>3. Edit!Ink(Append(none, Edit!NewLine)) = Append(Edit!Ink(none), Edit!NewLine)
      BY <3>1, <3>2, InkIs, Zenon
    <3> QED
      BY <3>2, <3>3, Zenon
  <2> HIDE DEF h, nl
  <2>4. Edit!Ink(old) = Edit!Ink(h) \o nl
    <3>1. Edit!Ink(h \o nl) = Edit!Ink(h) \o Edit!Ink(nl)
      BY <2>2, InkOfParts, Zenon
    <3> QED
      BY <2>2, <2>3, <3>1, Zenon
  <2>5. match.start = s /\ match.end = last.endWithNewline
    BY <1>12, <1>13, <1>15
  <2>6. CASE e = Len(text) + 1 /\ last.endWithNewline = e
    <3>1. Edit!Ink(Edit!Cut(text, s, e)) \o nl = Edit!Ink(old)
      BY <1>9, <2>4, Zenon DEF h
    <3>2. s \in 1..(Len(text) + 1) /\ e \in 1..(Len(text) + 1) /\ s <= e
      BY <1>0, <1>10
    <3> QED
      BY <2>5, <2>6, <3>1, <3>2, Zenon DEF Takes, nl
  <2>7. CASE e <= Len(text) /\ text[e] = Edit!NewLine /\ last.endWithNewline = e + 1
    <3> DEFINE x == Edit!Cut(text, s, e)
    <3>1. x \in Written /\ Edit!Cut(text, s, e + 1) = x \o nl
      <4>1. SubSeq(text, s, e - 1) \in Seq(Edit!Characters)
            /\ SubSeq(text, s, (e + 1) - 1) = SubSeq(text, s, e - 1) \o <<text[e]>>
        BY <1>0, <1>10, <2>7
      <4> QED
        BY <2>7, <4>1, Zenon DEF Written, Edit!Cut, nl
    <3> HIDE DEF x
    <3>2. Edit!Ink(x \o nl) = Edit!Ink(x) \o Edit!Ink(nl)
      BY <2>2, <3>1, InkOfParts, Zenon
    <3>3. Edit!Ink(Edit!Cut(text, s, e + 1)) = Edit!Ink(old)
      BY <1>9, <2>3, <2>4, <3>1, <3>2, Zenon DEF h, x
    <3>4. s \in 1..(Len(text) + 1) /\ e + 1 \in 1..(Len(text) + 1) /\ s <= e + 1
      BY <1>0, <1>10, <2>7
    <3> QED
      BY <2>5, <2>7, <3>3, <3>4, Zenon DEF Takes
  <2> QED
    BY <1>10, <2>6, <2>7
<1> QED
  BY <1>14, <1>15

(* A match found character by character is old_string itself.               *)
LEMMA OccurrenceReads ==
  ASSUME NEW text \in Written, NEW old \in Written,
         NEW match \in Edit!Occurrences(text, old)
  PROVE  Takes(text, old, match.start, match.end)
<1>1. text \in Seq(Edit!Characters) /\ old \in Seq(Edit!Characters)
      /\ DOMAIN text = 1..Len(text)
  BY DEF Written
<1>2. PICK i \in DOMAIN text : /\ Edit!IsPrefix(old, SubSeq(text, i, Len(text)))
                               /\ match = [start |-> i, end |-> i + Len(old)]
  BY Zenon DEF Edit!Occurrences
<1> DEFINE tail == SubSeq(text, i, Len(text))  n == Len(old)
<1>3. n <= Len(tail) /\ SubSeq(old, 1, n) = SubSeq(tail, 1, n)
  BY <1>2 DEF Edit!IsPrefix
<1>4. /\ i \in 1..Len(text) /\ n \in Nat /\ Len(tail) = Len(text) - i + 1
      /\ SubSeq(old, 1, n) = old
  BY <1>1
<1>5. i + n <= Len(text) + 1 /\ Len(text) \in Nat
  <2>1. Len(text) \in Nat
    BY <1>1
  <2> HIDE DEF tail, n
  <2> QED
    BY <1>3, <1>4, <2>1
<1>6. SubSeq(tail, 1, n) = SubSeq(text, i, i + n - 1)
  <2> HIDE DEF n
  <2> QED
    BY <1>1, <1>4, <1>5, SMTT(30)
<1>7. Edit!Cut(text, i, i + n) = old
  <2> HIDE DEF n, tail
  <2>1. SubSeq(text, i, i + n - 1) = old
    BY <1>3, <1>4, <1>6, Zenon
  <2>2. \A upto : Edit!Cut(text, i, upto) = SubSeq(text, i, upto - 1)
    BY Zenon DEF Edit!Cut
  <2> DEFINE upto == i + n
  <2>3. SubSeq(text, i, upto - 1) = old
    <3>1. upto - 1 = i + n - 1
      BY <1>4
    <3> HIDE DEF upto
    <3> QED
      BY <2>1, <3>1, Zenon
  <2> HIDE DEF upto
  <2>4. Edit!Cut(text, i, upto) = old
    BY <2>2, <2>3, Zenon
  <2> QED
    BY <2>4 DEF upto
<1>8. i \in 1..(Len(text) + 1) /\ i + n \in 1..(Len(text) + 1) /\ i <= i + n
  <2> HIDE DEF n
  <2> QED
    BY <1>4, <1>5
<1> QED
  BY <1>2, <1>7, <1>8 DEF Takes

(* So is the first of all those that a text has.                            *)
LEMMA LeftmostIs ==
  ASSUME NEW text \in Written, NEW old, Edit!Occurrences(text, old) # {}
  PROVE  Edit!Leftmost(Edit!Occurrences(text, old)) \in Edit!Occurrences(text, old)
<1> DEFINE all == Edit!Occurrences(text, old)  T == {m.start : m \in all}
<1>1. \A m \in all : m.start \in Nat
  BY DEF Edit!Occurrences, Written
<1> HIDE DEF all
<1>2. T \in SUBSET Nat /\ T # {}
  BY <1>1 DEF all
<1>3. PICK x \in T : \A y \in T : x <= y
  <2> HIDE DEF T
  <2> QED
    BY <1>2, LeastNatural
<1>4. \E m \in all : \A n \in all : m.start <= n.start
  BY <1>3
<1>5. Edit!Leftmost(all) \in all
  BY <1>4, Zenon DEF Edit!Leftmost
<1> QED
  BY <1>5 DEF all

(* Whatever a replacer matches reads like old_string.                       *)
LEMMA MatchReads ==
  ASSUME NEW text \in Written, NEW old \in Written, old # <<>>,
         NEW match \in Edit!Matches(text, old)
  PROVE  Takes(text, old, match.start, match.end)
<1>1. \/ match \in Edit!SimpleMatches(text, old)
      \/ match \in Edit!FindLineWindowMatches(text, old, "trimmed")
      \/ match \in Edit!FindLineWindowMatches(text, old, "collapsed")
  BY Zenon DEF Edit!Matches
<1>2. Edit!SimpleMatches(text, old) \subseteq Edit!Occurrences(text, old)
  <2> DEFINE all == Edit!Occurrences(text, old)
  <2>1. all # {} => Edit!Leftmost(all) \in all
    BY LeftmostIs
  <2> HIDE DEF all
  <2>2. Edit!SimpleMatches(text, old) =
          IF all = {} THEN {}
          ELSE {Edit!Leftmost(all)} \cup {m \in all : m.start >= Edit!Leftmost(all).end}
    BY DEF Edit!SimpleMatches, all
  <2>3. Edit!SimpleMatches(text, old) \subseteq all
    BY <2>1, <2>2, Zenon
  <2> QED
    BY <2>3 DEF all
<1>3. ASSUME match \in Edit!SimpleMatches(text, old)
      PROVE  Takes(text, old, match.start, match.end)
  <2>1. match \in Edit!Occurrences(text, old)
    BY <1>2, <1>3
  <2> QED
    BY <2>1, OccurrenceReads
<1>4. ASSUME NEW way \in {"trimmed", "collapsed"},
             match \in Edit!FindLineWindowMatches(text, old, way)
      PROVE  Takes(text, old, match.start, match.end)
  BY <1>4, WindowReads
<1> QED
  BY <1>1, <1>3, <1>4

EditInv ==
  /\ edit = Edit!NoCall => content = Edit!None \/ content \in Written
  /\ Edit!EditIsLocal

(* An edit takes out such a stretch and nothing else.                       *)
LEMMA EditStep ==
  ASSUME EditParameters, EditInv, NEW old \in OldTexts, NEW new \in NewTexts,
         Edit!ExecuteEditTool(old, new)
  PROVE  EditInv'
<1>1. content \in Written /\ old \in Written /\ old # <<>>
  BY DEF EditInv, EditParameters, Edit!ExecuteEditTool, Edit!MayEdit
<1>2. PICK match \in Edit!Matches(content, old) :
        Edit!Edited(FALSE, old, new, Edit!Replaced(content, match, new))
  BY Zenon DEF Edit!ExecuteEditTool
<1>3. Takes(content, old, match.start, match.end)
  BY <1>1, MatchReads
<1>4. /\ edit'.all = FALSE /\ edit'.old = old /\ edit'.new = new /\ edit'.before = content
      /\ edit'.after = Edit!Replaced(content, match, new)
  BY <1>2 DEF Edit!Edited
<1>5. edit' # Edit!NoCall
  BY <1>1, <1>4 DEF Edit!NoCall
<1> DEFINE i == match.start  j == match.end
<1>6. edit'.after = Edit!Replaced(edit'.before, [start |-> i, end |-> j], edit'.new)
  BY <1>4 DEF Edit!Replaced
<1>7. Takes(edit'.before, edit'.old, i, j)
  BY <1>3, <1>4
<1> HIDE DEF i, j
<1>8. Edit!EditIsLocal'
  BY <1>6, <1>7, Zenon DEF Edit!EditIsLocal, Takes
<1> QED
  BY <1>5, <1>8 DEF EditInv

(* However the three replacers find it, an edit without replace_all takes   *)
(* out one stretch of the file that reads like old_string but for blanks,   *)
(* ends a line where old_string does, and leaves all the rest as it was     *)
(* (edit_replacers.cpp).                                                    *)
THEOREM EditsAreLocal == ASSUME EditParameters PROVE Edit!Spec => []Edit!EditIsLocal
<1>1. Edit!Init => EditInv
  BY DEF Edit!Init, EditInv, Edit!EditIsLocal
<1>2. ASSUME EditInv, [Edit!Next]_Edit!vars
      PROVE  EditInv'
  <2>1. ASSUME NEW text \in Texts, Edit!ExecuteFileWriteTool(text)
        PROVE  EditInv'
    BY <2>1 DEF EditInv, EditParameters, Edit!ExecuteFileWriteTool, Edit!EditIsLocal
  <2>2. ASSUME NEW old \in OldTexts, NEW new \in NewTexts, Edit!ExecuteEditTool(old, new)
        PROVE  EditInv'
    BY <1>2, <2>2, EditStep
  <2>3. ASSUME NEW old \in OldTexts, NEW new \in NewTexts, Edit!ExecuteEditToolAll(old, new)
        PROVE  EditInv'
    <3>1. edit'.all = TRUE /\ edit'.old = old /\ old # <<>>
      BY <2>3 DEF Edit!ExecuteEditToolAll, Edit!Edited, Edit!MayEdit
    <3>2. edit' # Edit!NoCall
      BY <3>1 DEF Edit!NoCall
    <3> QED
      BY <3>1, <3>2 DEF EditInv, Edit!EditIsLocal
  <2>4. CASE UNCHANGED Edit!vars
    BY <1>2, <2>4 DEF Edit!vars, EditInv, Edit!EditIsLocal
  <2> QED
    BY <1>2, <2>1, <2>2, <2>3, <2>4 DEF Edit!Next
<1>3. EditInv => Edit!EditIsLocal
  BY DEF EditInv
<1> QED
  BY <1>1, <1>2, <1>3, PTL DEF Edit!Spec

-----------------------------------------------------------------------------
(*                        PROMPTS AS COMMANDS                              *)

CONSTANTS Builtin, Later, Protected, Names, UserText, Arguments, MaxStarts, MaxEdits,
          Labels,     \* whatever commands and their aliases are called
          Tokens      \* whatever a prompt's text and what is typed are made of
VARIABLES seed, others, fingerprint, version, phase, commands, submitted, saved, starts, edits

Library == INSTANCE PromptLibrary

ACommand == [name : Labels, aliases : SUBSET Labels, prompt : BOOLEAN]

(* No two commands of a list answer to the same name.                       *)
Unambiguous(list) ==
  \A i, j \in DOMAIN list :
    i # j => \A x : ~(Library!Answers(list[i], x) /\ Library!Answers(list[j], x))

Builtins == [i \in DOMAIN Builtin |->
               Library!Command(Builtin[i].name, Builtin[i].aliases, FALSE)]

Placeholders == {"$ARGUMENTS", "$REPO_CONTEXT", "$WORKSPACE_ROOT"}

(* The commands defined before the prompts have names of their own, as      *)
(* RegisterBuiltinSlashCommands gives them, and a user's prompt has one     *)
(* placeholder, for what is typed behind its name.                          *)
LibraryParameters ==
  /\ Names \in Seq(Labels) /\ Builtins \in Seq(ACommand) /\ Unambiguous(Builtins)
  /\ \E n \in Nat : DOMAIN Later = 1..n
  /\ UserText \in Seq(Tokens) /\ Arguments \subseteq Seq(Tokens)
  /\ \E n \in DOMAIN UserText :
       /\ UserText[n] = "$ARGUMENTS"
       /\ \A i \in DOMAIN UserText : i # n => UserText[i] \notin Placeholders

(* A command of a list that answers to a name is the first that does, if no *)
(* two commands answer to the same name.                                    *)
LEMMA FirstIs ==
  ASSUME NEW list \in Seq(ACommand), Unambiguous(list), NEW j \in DOMAIN list, NEW x,
         Library!Answers(list[j], x),
         NEW all, NEW m \in Nat, DOMAIN all = 1..m, Len(list) <= m,
         \A i \in 1..Len(list) : all[i] = list[i]
  PROVE  /\ Library!Exists(all, x) /\ Library!First(all, x) = j
         /\ all[j] = list[j]
<1> DEFINE n == Len(list)
<1>1. /\ n \in Nat /\ DOMAIN list = 1..n
      /\ DOMAIN all = 1..m /\ n <= m /\ \A i \in 1..n : all[i] = list[i]
  OBVIOUS
<1>2. all[j] = list[j] /\ j \in DOMAIN all /\ j \in 1..n
  BY <1>1
<1>3. \A i \in 1..(j - 1) : ~Library!Answers(all[i], x)
  <2> SUFFICES ASSUME NEW i \in 1..(j - 1), Library!Answers(all[i], x) PROVE FALSE
    OBVIOUS
  <2>1. i \in DOMAIN list /\ i # j /\ all[i] = list[i]
    <3> HIDE DEF n
    <3> QED
      BY <1>1, <1>2
  <2> QED
    BY <2>1, Zenon DEF Unambiguous
<1>4. ASSUME NEW i \in DOMAIN all, Library!Answers(all[i], x),
             \A k \in 1..(i - 1) : ~Library!Answers(all[k], x)
      PROVE  i = j
  <2> HIDE DEF n
  <2>1. i \in Nat /\ j \in Nat
    BY <1>1, <1>2
  <2>2. ~(j < i)
    <3>1. j < i => j \in 1..(i - 1)
      BY <1>2, <2>1
    <3> QED
      BY <1>2, <1>4, <3>1
  <2>3. ~(i < j)
    <3>1. i < j => i \in 1..(j - 1)
      BY <1>1, <1>2, <2>1
    <3> QED
      BY <1>3, <1>4, <3>1
  <2> QED
    BY <2>1, <2>2, <2>3
<1>5. Library!Answers(all[j], x)
  BY <1>2
<1>6. Library!First(all, x) = j
  BY <1>2, <1>3, <1>4, <1>5, Zenon DEF Library!First
<1>7. Library!Exists(all, x)
  BY <1>2, <1>5 DEF Library!Exists
<1> QED
  BY <1>2, <1>6, <1>7

(* The elements of two sequences one behind the other.                      *)
LEMMA BehindOneAnother ==
  ASSUME NEW X, NEW a \in Seq(X), NEW b \in Seq(X)
  PROVE  /\ Len(a \o b) = Len(a) + Len(b)
         /\ \A i \in 1..Len(b) : (a \o b)[Len(a) + i] = b[i]
OBVIOUS

(* A prompt takes the place of the command that had its name, unless that   *)
(* one is protected, and takes no other name away.                          *)
Registers(new, list, name) ==
  /\ new \in Seq(ACommand) /\ Unambiguous(new)
  /\ name \notin Protected => \E j \in DOMAIN new : new[j] = Library!Command(name, {}, TRUE)
  /\ \A j \in DOMAIN list : ~Library!Answers(list[j], name) =>
       \E i \in DOMAIN new : new[i] = list[j]

(* RegisterPrompt does.                                                     *)
LEMMA RegisterOne ==
  ASSUME NEW list \in Seq(ACommand), Unambiguous(list), NEW name \in Labels,
         NEW new, new = Library!RegisterPrompt(list, name)
  PROVE  Registers(new, list, name)
<1> DEFINE n == Len(list)  c == Library!Command(name, {}, TRUE)
           rest == Library!Undefine(list, name)
<1>1. n \in Nat /\ DOMAIN list = 1..n /\ \A i \in 1..n : list[i] \in ACommand
  OBVIOUS
<1>2. c \in ACommand /\ \A x : Library!Answers(c, x) => x = name
  BY DEF Library!Command, Library!Answers, ACommand
<1>3. CASE Library!Exists(list, name) /\ name \in Protected
  <2>1. new = list
    BY <1>3 DEF Library!RegisterPrompt
  <2> QED
    BY <1>3, <2>1, Zenon DEF Registers
<1>4. CASE ~(Library!Exists(list, name) /\ name \in Protected)
  <2>1. new = Append(rest, c)
    BY <1>4, Zenon DEF Library!RegisterPrompt
  <2>2. /\ rest \in Seq(ACommand) /\ Unambiguous(rest)
        /\ \A i \in DOMAIN rest : ~Library!Answers(rest[i], name)
        /\ \A j \in DOMAIN list : ~Library!Answers(list[j], name) =>
             \E i \in DOMAIN rest : rest[i] = list[j]
    <3>1. CASE ~Library!Exists(list, name)
      <4>1. rest = list
        BY <3>1 DEF Library!Undefine
      <4>2. \A i \in DOMAIN list : ~Library!Answers(list[i], name)
        BY <3>1 DEF Library!Exists
      <4> HIDE DEF rest
      <4> QED
        BY <4>1, <4>2
    <3>2. CASE Library!Exists(list, name)
      <4>1. PICK f \in DOMAIN list : Library!Answers(list[f], name)
        BY <3>2 DEF Library!Exists
      <4>2. Library!First(list, name) = f
        <5>1. DOMAIN list = 1..n /\ n <= n /\ \A i \in 1..n : list[i] = list[i]
          BY <1>1
        <5> QED
          BY <1>1, <4>1, <5>1, FirstIs
      <4>3. rest = SubSeq(list, 1, f - 1) \o SubSeq(list, f + 1, Len(list))
        BY <3>2, <4>2, Zenon DEF Library!Undefine, Library!RemoveAt
      <4> HIDE DEF rest
      <4>4. /\ rest \in Seq(ACommand) /\ DOMAIN rest = 1..(n - 1)
            /\ \A i \in 1..(n - 1) : rest[i] = list[IF i < f THEN i ELSE i + 1]
        <5> DEFINE a == SubSeq(list, 1, f - 1)  b == SubSeq(list, f + 1, Len(list))
        <5>1. /\ a \in Seq(ACommand) /\ Len(a) = f - 1
              /\ \A i \in 1..(f - 1) : a[i] = list[i]
          BY <1>1
        <5>2. /\ b \in Seq(ACommand) /\ Len(b) = n - f
              /\ \A i \in 1..(n - f) : b[i] = list[f + i]
          <6>1. f \in 1..n /\ b \in Seq(ACommand) /\ Len(b) = n - f
            BY <1>1
          <6>2. \A i \in 1..Len(b) : b[i] = list[(f + 1) + i - 1]
            OBVIOUS
          <6> HIDE DEF b, n
          <6>3. \A i \in 1..(n - f) : (f + 1) + i - 1 = f + i
            BY <1>1, <6>1
          <6> QED
            BY <6>1, <6>2, <6>3
        <5> HIDE DEF a, b, n
        <5>3. f \in 1..n
          BY <1>1
        <5>4. /\ rest \in Seq(ACommand) /\ Len(rest) = n - 1
              /\ \A i \in 1..(f - 1) : rest[i] = a[i]
              /\ \A i \in 1..(n - f) : rest[(f - 1) + i] = b[i]
          <6>1. rest = a \o b
            BY <4>3 DEF a, b
          <6>2. Len(rest) = (f - 1) + (n - f)
            <7>1. Len(a \o b) = Len(a) + Len(b)
              BY <5>1, <5>2, BehindOneAnother, Zenon
            <7> QED
              BY <5>1, <5>2, <6>1, <7>1
          <6>3. \A i \in 1..(f - 1) : rest[i] = a[i]
            BY <5>1, <5>2, <6>1
          <6>4. \A i \in 1..Len(b) : rest[Len(a) + i] = b[i]
            <7>1. \A i \in 1..Len(b) : (a \o b)[Len(a) + i] = b[i]
              BY <5>1, <5>2, BehindOneAnother
            <7> QED
              BY <6>1, <7>1, Zenon
          <6>5. rest \in Seq(ACommand) /\ Len(rest) = n - 1
            <7>1. rest \in Seq(ACommand)
              BY <5>1, <5>2, <6>1
            <7>2. (f - 1) + (n - f) = n - 1
              BY <1>1, <5>3
            <7> QED
              BY <6>2, <7>1, <7>2, Zenon
          <6>6. \A i \in 1..(n - f) : rest[(f - 1) + i] = b[i]
            BY <5>1, <5>2, <6>4, Zenon
          <6> QED
            BY <6>3, <6>5, <6>6, Zenon
        <5>5. ASSUME NEW i \in 1..(n - 1)
              PROVE  rest[i] = list[IF i < f THEN i ELSE i + 1]
          <6>1. CASE i < f
            <7>1. i \in 1..(f - 1)
              BY <1>1, <5>3, <6>1
            <7> QED
              BY <5>1, <5>4, <6>1, <7>1
          <6>2. CASE ~(i < f)
            <7>1. /\ i - (f - 1) \in 1..(n - f) /\ (f - 1) + (i - (f - 1)) = i
                  /\ f + (i - (f - 1)) = i + 1
              BY <1>1, <5>3, <6>2
            <7>2. rest[(f - 1) + (i - (f - 1))] = b[i - (f - 1)]
              BY <5>4, <7>1
            <7>3. b[i - (f - 1)] = list[f + (i - (f - 1))]
              BY <5>2, <7>1
            <7> QED
              BY <6>2, <7>1, <7>2, <7>3
          <6> QED
            BY <6>1, <6>2
        <5>6. DOMAIN rest = 1..(n - 1)
          BY <1>1, <5>3, <5>4
        <5> QED
          BY <5>4, <5>5, <5>6
      <4> DEFINE from(i) == IF i < f THEN i ELSE i + 1
      <4>5. /\ \A i \in 1..(n - 1) : from(i) \in 1..n /\ from(i) # f /\ rest[i] = list[from(i)]
            /\ \A i, k \in 1..(n - 1) : i # k => from(i) # from(k)
            /\ \A j \in 1..n : j # f => \E i \in 1..(n - 1) : from(i) = j
        <5>1. \A i \in 1..(n - 1) : from(i) \in 1..n /\ from(i) # f
          BY <1>1
        <5>2. \A i, k \in 1..(n - 1) : i # k => from(i) # from(k)
          BY <1>1
        <5>3. ASSUME NEW j \in 1..n, j # f
              PROVE  \E i \in 1..(n - 1) : from(i) = j
          <6>1. CASE j < f
            <7>1. j \in 1..(n - 1) /\ from(j) = j
              BY <1>1, <6>1
            <7> QED
              BY <7>1
          <6>2. CASE f < j
            <7>1. j - 1 \in 1..(n - 1) /\ from(j - 1) = j
              BY <1>1, <6>2
            <7> QED
              BY <7>1
          <6> QED
            BY <1>1, <5>3, <6>1, <6>2
        <5> QED
          BY <4>4, <5>1, <5>2, <5>3
      <4> HIDE DEF from, n
      <4>6. Unambiguous(rest)
        <5> SUFFICES ASSUME NEW i \in 1..(n - 1), NEW k \in 1..(n - 1), i # k, NEW x
                     PROVE  ~(Library!Answers(rest[i], x) /\ Library!Answers(rest[k], x))
          BY <4>4 DEF Unambiguous
        <5>1. /\ from(i) \in DOMAIN list /\ from(k) \in DOMAIN list /\ from(i) # from(k)
              /\ rest[i] = list[from(i)] /\ rest[k] = list[from(k)]
          BY <1>1, <4>5
        <5> QED
          BY <5>1, Zenon DEF Unambiguous
      <4>7. \A i \in DOMAIN rest : ~Library!Answers(rest[i], name)
        <5> SUFFICES ASSUME NEW i \in 1..(n - 1) PROVE ~Library!Answers(rest[i], name)
          BY <4>4
        <5>1. from(i) \in DOMAIN list /\ from(i) # f /\ rest[i] = list[from(i)]
          BY <1>1, <4>5
        <5> QED
          BY <4>1, <5>1, Zenon DEF Unambiguous
      <4>8. \A j \in DOMAIN list : ~Library!Answers(list[j], name) =>
              \E i \in DOMAIN rest : rest[i] = list[j]
        <5> SUFFICES ASSUME NEW j \in 1..n, ~Library!Answers(list[j], name)
                     PROVE  \E i \in 1..(n - 1) : rest[i] = list[j]
          BY <1>1, <4>4, Zenon
        <5>1. j # f
          BY <4>1
        <5>2. PICK i \in 1..(n - 1) : from(i) = j
          BY <4>5, <5>1
        <5> QED
          BY <4>5, <5>2
      <4> QED
        BY <4>4, <4>6, <4>7, <4>8
    <3> QED
      BY <3>1, <3>2
  <2> HIDE DEF rest, c
  <2> DEFINE m == Len(rest)
  <2>3. /\ m \in Nat /\ DOMAIN rest = 1..m /\ new \in Seq(ACommand)
        /\ DOMAIN new = 1..(m + 1) /\ new[m + 1] = c
        /\ \A i \in 1..m : new[i] = rest[i]
    BY <1>2, <2>1, <2>2
  <2> HIDE DEF m
  <2>4. Unambiguous(new)
    <3> SUFFICES ASSUME NEW i \in 1..(m + 1), NEW j \in 1..(m + 1), i # j, NEW x,
                        Library!Answers(new[i], x), Library!Answers(new[j], x)
                 PROVE  FALSE
      BY <2>3 DEF Unambiguous
    <3>1. CASE i \in 1..m /\ j \in 1..m
      BY <2>2, <2>3, <3>1, Zenon DEF Unambiguous
    <3>2. CASE i = m + 1 /\ j \in 1..m
      BY <1>2, <2>2, <2>3, <3>2, Zenon
    <3>3. CASE j = m + 1 /\ i \in 1..m
      BY <1>2, <2>2, <2>3, <3>3, Zenon
    <3> QED
      BY <2>3, <3>1, <3>2, <3>3
  <2>5. \E j \in DOMAIN new : new[j] = c
    BY <2>3
  <2>6. \A j \in DOMAIN list : ~Library!Answers(list[j], name) =>
          \E i \in DOMAIN new : new[i] = list[j]
    <3> SUFFICES ASSUME NEW j \in DOMAIN list, ~Library!Answers(list[j], name)
                 PROVE  \E i \in DOMAIN new : new[i] = list[j]
      OBVIOUS
    <3>1. PICK i \in 1..m : rest[i] = list[j]
      BY <2>2, <2>3
    <3>2. i \in DOMAIN new /\ new[i] = list[j]
      BY <2>3, <3>1
    <3> QED
      BY <3>2
  <2> QED
    BY <2>3, <2>4, <2>5, <2>6, Zenon DEF c, Registers
<1> QED
  BY <1>3, <1>4

(* f are the lists after the first n prompts, from list on.                 *)
IsRegistering(f, list, names, n) ==
  f = [k \in 0..n |-> IF k = 0 THEN list ELSE Library!RegisterPrompt(f[k - 1], names[k])]

(* The function that Registered is defined with exists.                     *)
LEMMA RegisteringExists ==
  ASSUME NEW list, NEW names
  PROVE  \A n \in Nat : \E f : IsRegistering(f, list, names, n)
<1> DEFINE N == {n \in Nat : \E f : IsRegistering(f, list, names, n)}
<1>1. 0 \in N
  <2> DEFINE g == [k \in 0..0 |-> list]
  <2>1. IsRegistering(g, list, names, 0)
    BY DEF IsRegistering
  <2> QED
    BY <2>1
<1>2. ASSUME NEW n \in Nat, n \in N
      PROVE  n + 1 \in N
  <2>1. PICK f : IsRegistering(f, list, names, n)
    BY <1>2
  <2> DEFINE g == [k \in 0..(n + 1) |->
                     IF k = n + 1 THEN Library!RegisterPrompt(f[n], names[n + 1]) ELSE f[k]]
  <2>2. ASSUME NEW k \in 0..(n + 1)
        PROVE  g[k] = IF k = 0 THEN list ELSE Library!RegisterPrompt(g[k - 1], names[k])
    BY <2>1 DEF IsRegistering
  <2>3. IsRegistering(g, list, names, n + 1)
    BY <2>2 DEF IsRegistering
  <2> QED
    BY <2>3
<1> HIDE DEF N
<1>3. Nat \subseteq N
  BY <1>1, <1>2, Induction
<1> QED
  BY <1>3 DEF N

(* What the registration of the prompts makes of the list.                  *)
AllRegistered(all, names) ==
  /\ all \in Seq(ACommand) /\ Unambiguous(all)
  /\ \A i \in DOMAIN names : names[i] \notin Protected =>
       \E j \in DOMAIN all : all[j] = Library!Command(names[i], {}, TRUE)

(* After each prompt the list is one of commands with names of their own,   *)
(* and the prompts registered so far are in it.                             *)
LEMMA RegisteredIs ==
  ASSUME NEW list \in Seq(ACommand), Unambiguous(list), NEW names \in Seq(Labels),
         NEW all, all = Library!Registered(list, names)
  PROVE  AllRegistered(all, names)
<1> DEFINE n == Len(names)
           Is(f) == f = [k \in 0..Len(names) |->
                           IF k = 0 THEN list ELSE Library!RegisterPrompt(f[k - 1], names[k])]
           f == CHOOSE g : Is(g)
           Has(l, name) == \E j \in DOMAIN l : l[j] = Library!Command(name, {}, TRUE)
<1>0. n \in Nat /\ DOMAIN names = 1..n /\ \A i \in 1..n : names[i] \in Labels
  OBVIOUS
<1>1. \E g : Is(g)
  <2>1. PICK g : IsRegistering(g, list, names, n)
    BY <1>0, RegisteringExists, Zenon
  <2>2. Is(g)
    BY <2>1, Zenon DEF IsRegistering
  <2> QED
    BY <2>2, Zenon
<1>2. Is(f)
  <2> HIDE DEF Is
  <2> QED
    BY <1>1
<1>3. all = f[n]
  BY DEF Library!Registered
<1>4. f[0] = list /\ \A k \in 1..n : f[k] = Library!RegisterPrompt(f[k - 1], names[k])
  <2> HIDE DEF f
  <2>1. f = [k \in 0..n |-> IF k = 0 THEN list ELSE Library!RegisterPrompt(f[k - 1], names[k])]
    BY <1>2, Zenon
  <2> HIDE DEF n, Is
  <2>2. 0 \in 0..n /\ \A k \in 1..n : k \in 0..n /\ k # 0
    BY <1>0
  <2> QED
    BY <2>1, <2>2, Zenon
<1> HIDE DEF f, Is, n, Has
<1> DEFINE S == {k \in Nat : k <= n =>
                   /\ f[k] \in Seq(ACommand) /\ Unambiguous(f[k])
                   /\ \A i \in 1..k : names[i] \notin Protected => Has(f[k], names[i])}
<1>5. 0 \in S
  <2>1. 0 \in Nat /\ \A i \in 1..0 : FALSE
    OBVIOUS
  <2> QED
    BY <1>4, <2>1
<1>6. ASSUME NEW k \in Nat, k \in S
      PROVE  k + 1 \in S
  <2> SUFFICES ASSUME k + 1 <= n
               PROVE  /\ f[k + 1] \in Seq(ACommand) /\ Unambiguous(f[k + 1])
                      /\ \A i \in 1..(k + 1) : names[i] \notin Protected =>
                           Has(f[k + 1], names[i])
    OBVIOUS
  <2> DEFINE l == f[k]  m == f[k + 1]  name == names[k + 1]
  <2>1. /\ l \in Seq(ACommand) /\ Unambiguous(l)
        /\ \A i \in 1..k : names[i] \notin Protected => Has(l, names[i])
        /\ name \in Labels /\ k + 1 \in 1..n
    BY <1>0, <1>6
  <2>2. m = Library!RegisterPrompt(l, name)
    BY <1>4, <2>1
  <2> HIDE DEF l, m
  <2>3. /\ m \in Seq(ACommand) /\ Unambiguous(m)
        /\ name \notin Protected => Has(m, name)
        /\ \A j \in DOMAIN l : ~Library!Answers(l[j], name) => \E i \in DOMAIN m : m[i] = l[j]
    <3> HIDE DEF name
    <3> QED
      <4>1. Registers(m, l, name)
        BY <2>1, <2>2, RegisterOne
      <4> QED
        BY <4>1, Zenon DEF Registers, Has
  <2>4. ASSUME NEW i \in 1..(k + 1), names[i] \notin Protected
        PROVE  Has(m, names[i])
    <3>1. CASE names[i] = name
      BY <2>3, <2>4, <3>1, Zenon DEF Has
    <3>2. CASE names[i] # name
      <4>1. i \in 1..k
        BY <3>2
      <4>2. PICK j \in DOMAIN l : l[j] = Library!Command(names[i], {}, TRUE)
        BY <2>1, <2>4, <4>1, Zenon DEF Has
      <4>3. ~Library!Answers(l[j], name)
        BY <3>2, <4>2 DEF Library!Answers, Library!Command
      <4>4. PICK h \in DOMAIN m : m[h] = l[j]
        BY <2>3, <4>3
      <4> QED
        BY <4>2, <4>4, Zenon DEF Has
    <3> QED
      BY <3>1, <3>2
  <2> QED
    BY <2>3, <2>4 DEF m
<1> HIDE DEF S
<1>7. n \in S
  <2>1. Nat \subseteq S
    BY <1>5, <1>6, Induction
  <2> QED
    BY <1>0, <2>1
<1>8. /\ f[n] \in Seq(ACommand) /\ Unambiguous(f[n])
      /\ \A i \in 1..n : names[i] \notin Protected => Has(f[n], names[i])
  BY <1>0, <1>7 DEF S
<1> QED
  BY <1>0, <1>3, <1>8, Zenon DEF Has, AllRegistered


(* A message grows by what a token stands for.                              *)
Grown(message, token, typed) == message \o Library!Expanded(token, typed)

(* A stretch of a sequence, and one element more.                           *)
LEMMA StretchAndOne ==
  ASSUME NEW X, NEW s \in Seq(X), NEW a \in Nat, NEW k \in Nat,
         1 <= a, a <= k + 1, k + 1 <= Len(s)
  PROVE  SubSeq(s, a, k + 1) = SubSeq(s, a, k) \o <<s[k + 1]>>
OBVIOUS

(* f are the messages after the first n tokens of a prompt.                 *)
IsRendering(f, text, typed, n) ==
  f = [k \in 0..n |-> IF k = 0 THEN <<>> ELSE Grown(f[k - 1], text[k], typed)]

(* The function that RenderPrompt is defined with exists.                   *)
LEMMA RenderingExists ==
  ASSUME NEW text, NEW typed
  PROVE  \A n \in Nat : \E f : IsRendering(f, text, typed, n)
<1> DEFINE N == {n \in Nat : \E f : IsRendering(f, text, typed, n)}
<1>1. 0 \in N
  <2> DEFINE g == [k \in 0..0 |-> <<>>]
  <2>1. IsRendering(g, text, typed, 0)
    BY DEF IsRendering
  <2> QED
    BY <2>1
<1>2. ASSUME NEW n \in Nat, n \in N
      PROVE  n + 1 \in N
  <2>1. PICK f : IsRendering(f, text, typed, n)
    BY <1>2
  <2> DEFINE g == [k \in 0..(n + 1) |->
                     IF k = n + 1 THEN Grown(f[n], text[n + 1], typed) ELSE f[k]]
  <2>2. ASSUME NEW k \in 0..(n + 1)
        PROVE  g[k] = IF k = 0 THEN <<>> ELSE Grown(g[k - 1], text[k], typed)
    BY <2>1 DEF IsRendering
  <2>3. IsRendering(g, text, typed, n + 1)
    BY <2>2 DEF IsRendering
  <2> QED
    BY <2>3
<1> HIDE DEF N
<1>3. Nat \subseteq N
  BY <1>1, <1>2, Induction
<1> QED
  BY <1>3 DEF N

(* A prompt with one placeholder is what stands before it, what was typed,  *)
(* and what stands behind it.                                               *)
LEMMA RenderIs ==
  ASSUME NEW text \in Seq(Tokens), NEW typed \in Seq(Tokens), NEW n \in DOMAIN text,
         text[n] = "$ARGUMENTS",
         \A i \in DOMAIN text : i # n => text[i] \notin Placeholders
  PROVE  Library!RenderPrompt(text, typed)
           = (SubSeq(text, 1, n - 1) \o typed) \o SubSeq(text, n + 1, Len(text))
<1> DEFINE z == Len(text)
           Is(f) == f = [k \in 0..Len(text) |->
                           IF k = 0 THEN <<>> ELSE f[k - 1] \o Library!Expanded(text[k], typed)]
           f == CHOOSE g : Is(g)
<1>0. z \in Nat /\ DOMAIN text = 1..z /\ n \in 1..z
  OBVIOUS
<1>1. \E g : Is(g)
  <2>1. PICK g : IsRendering(g, text, typed, z)
    BY <1>0, RenderingExists, Zenon
  <2>2. Is(g)
    BY <2>1, Zenon DEF IsRendering, Grown
  <2> QED
    BY <2>2, Zenon
<1>2. Is(f)
  <2> HIDE DEF Is
  <2> QED
    BY <1>1
<1>3. Library!RenderPrompt(text, typed) = f[z]
  BY DEF Library!RenderPrompt
<1>4. f[0] = <<>> /\ \A k \in 1..z : f[k] = Grown(f[k - 1], text[k], typed)
  <2> HIDE DEF f
  <2>1. f = [k \in 0..z |-> IF k = 0 THEN <<>> ELSE Grown(f[k - 1], text[k], typed)]
    BY <1>2, Zenon DEF Grown
  <2> HIDE DEF z, Is
  <2>2. 0 \in 0..z /\ \A k \in 1..z : k \in 0..z /\ k # 0
    BY <1>0
  <2> QED
    BY <2>1, <2>2, Zenon
<1> HIDE DEF f, Is
<1>5. /\ Library!Expanded(text[n], typed) = typed
      /\ \A i \in 1..z : i # n => Library!Expanded(text[i], typed) = <<text[i]>>
  <2>1. \A i \in 1..z : i # n => text[i] \notin Placeholders
    BY <1>0
  <2> QED
    BY <2>1 DEF Library!Expanded, Placeholders
<1> DEFINE so(k) == IF k < n THEN SubSeq(text, 1, k)
                    ELSE (SubSeq(text, 1, n - 1) \o typed) \o SubSeq(text, n + 1, k)
           S == {k \in Nat : k <= z => f[k] = so(k)}
<1>6. 0 \in S
  <2>1. so(0) = <<>>
    BY <1>0
  <2> HIDE DEF so
  <2> QED
    BY <1>4, <2>1
<1>7. ASSUME NEW k \in Nat, k \in S
      PROVE  k + 1 \in S
  <2> SUFFICES ASSUME k + 1 <= z PROVE f[k + 1] = so(k + 1)
    <3> HIDE DEF so
    <3> QED
      OBVIOUS
  <2>1. f[k + 1] = Grown(f[k], text[k + 1], typed) /\ f[k] = so(k) /\ k + 1 \in 1..z
    <3> HIDE DEF so
    <3>1. k + 1 \in 1..z /\ (k + 1) - 1 = k /\ k <= z
      BY <1>0
    <3>2. f[k] = so(k)
      BY <1>7, <3>1
    <3>3. f[k + 1] = Grown(f[k], text[k + 1], typed)
      BY <1>4, <3>1
    <3> QED
      BY <3>1, <3>2, <3>3
  <2>2. so(k + 1) = so(k) \o Library!Expanded(text[k + 1], typed)
    <3>1. CASE k + 1 < n
      <4>1. Library!Expanded(text[k + 1], typed) = <<text[k + 1]>>
        BY <1>0, <1>5, <2>1, <3>1
      <4>2. SubSeq(text, 1, k + 1) = SubSeq(text, 1, k) \o <<text[k + 1]>>
        BY <1>0, <2>1
      <4>3. so(k + 1) = SubSeq(text, 1, k + 1) /\ so(k) = SubSeq(text, 1, k)
        BY <1>0, <3>1
      <4> QED
        BY <4>1, <4>2, <4>3, Zenon
    <3>2. CASE k + 1 = n
      <4>1. Library!Expanded(text[k + 1], typed) = typed
        BY <1>5, <3>2
      <4>2. so(k) = SubSeq(text, 1, k)
        BY <1>0, <3>2
      <4>3. so(k + 1) = SubSeq(text, 1, k) \o typed
        <5>1. so(k + 1) = (SubSeq(text, 1, n - 1) \o typed) \o SubSeq(text, n + 1, n)
          BY <1>0, <3>2
        <5>2. SubSeq(text, n + 1, n) = <<>> /\ n - 1 = k
          BY <1>0, <3>2
        <5> DEFINE x == SubSeq(text, 1, k) \o typed
        <5>3. x \in Seq(Tokens)
          BY <1>0, <3>2
        <5>4. x \o <<>> = x
          <6> HIDE DEF x
          <6> QED
            BY <5>3
        <5> QED
          BY <5>1, <5>2, <5>4, Zenon
      <4> QED
        BY <4>1, <4>2, <4>3, Zenon
    <3>3. CASE n < k + 1
      <4> DEFINE x == SubSeq(text, 1, n - 1) \o typed  y == SubSeq(text, n + 1, k)
                 c == text[k + 1]
      <4>1. Library!Expanded(text[k + 1], typed) = <<c>>
        BY <1>0, <1>5, <2>1, <3>3
      <4>2. x \in Seq(Tokens) /\ y \in Seq(Tokens) /\ c \in Tokens
        BY <1>0, <2>1
      <4>3. SubSeq(text, n + 1, k + 1) = y \o <<c>>
        <5>1. n + 1 \in Nat /\ 1 <= n + 1 /\ n + 1 <= k + 1 /\ k + 1 <= Len(text)
          BY <1>0, <2>1, <3>3
        <5> QED
          BY <5>1, StretchAndOne, Zenon
      <4>4. so(k) = x \o y /\ so(k + 1) = x \o SubSeq(text, n + 1, k + 1)
        <5>1. ~(k < n) /\ ~(k + 1 < n)
          BY <1>0, <3>3
        <5> QED
          BY <5>1, Zenon
      <4> HIDE DEF x, y, c, so
      <4>5. x \o (y \o <<c>>) = (x \o y) \o <<c>>
        BY <4>2
      <4> QED
        BY <4>1, <4>3, <4>4, <4>5, Zenon
    <3>4. k + 1 < n \/ k + 1 = n \/ n < k + 1
      BY <1>0
    <3> HIDE DEF so
    <3> QED
      BY <3>1, <3>2, <3>3, <3>4, Zenon
  <2> HIDE DEF so
  <2> QED
    BY <2>1, <2>2, Zenon DEF Grown
<1> HIDE DEF S
<1>8. z \in S
  <2>1. Nat \subseteq S
    BY <1>6, <1>7, Induction, Zenon
  <2> QED
    BY <1>0, <2>1
<1>9. f[z] = so(z)
  <2> HIDE DEF so
  <2> QED
    BY <1>0, <1>8 DEF S
<1>10. so(z) = (SubSeq(text, 1, n - 1) \o typed) \o SubSeq(text, n + 1, Len(text))
  <2>1. ~(z < n)
    BY <1>0
  <2> QED
    BY <2>1, Zenon
<1> QED
  BY <1>3, <1>9, <1>10, Zenon

(* The prompts of the user answer to their names.                           *)
PromptsAnswer(list) ==
  \A name \in others \ Protected :
    Library!Exists(list, name) /\ list[Library!First(list, name)].prompt

LibraryInv ==
  /\ others \subseteq Library!UserNames
  /\ phase = "ready" => PromptsAnswer(commands)
  /\ Library!PromptRunsAsTyped

(* A start gives each of the user's prompts its command.                    *)
LEMMA RegisterStep ==
  ASSUME LibraryParameters, LibraryInv, Library!RegisterPromptSlashCommands
  PROVE  LibraryInv'
<1> DEFINE names == Library!LoadPromptLibrary
           S == {i \in DOMAIN Names :
                   \/ Names[i] \in others
                   \/ Names[i] = "init" /\ seed.text \notin {"absent", "half"}}
           list == Library!Registered(Builtins, names)
           later == [i \in DOMAIN Later |-> Library!Command(Later[i], {}, FALSE)]
<1>1. Names \in Seq(Labels) /\ DOMAIN Names = 1..Len(Names) /\ Len(Names) \in Nat
      /\ S \subseteq 1..Len(Names)
  BY DEF LibraryParameters
<1>2. names = Config!PickedAt(Names, S) /\ names = PickedAt(Names, S)
  <2>1. \A S_1 : Library!Cardinality(S_1) = Cardinality(S_1)
    BY Zenon DEF Library!Cardinality, Cardinality
  <2>2. \A S_1 : Library!InOrder(S_1) = InOrder(S_1)
    BY Zenon DEF Library!InOrder, InOrder, Library!Below, Below, Library!Cardinality, Cardinality
  <2>3. \A s, S_1 : Library!PickedAt(s, S_1) = PickedAt(s, S_1)
    BY <2>1, <2>2, Zenon DEF Library!PickedAt, PickedAt
  <2>4. names = Library!PickedAt(Names, S)
    BY Zenon DEF Library!LoadPromptLibrary
  <2> QED
    BY <2>3, <2>4, SameServers, Zenon
<1>3. names \in Seq(Labels)
      /\ \A i \in S : \E k \in DOMAIN names : names[k] = Names[i]
  <2> HIDE DEF S, names
  <2>1. Picks(names, Names, S, Len(Names))
    BY <1>1, <1>2, PickedIsThere, Zenon
  <2>2. names \in Seq(Labels)
    BY <1>1, <1>2, PickedType, Zenon
  <2> QED
    BY <2>1, <2>2 DEF Picks
<1>4. \A name \in others : \E i \in S : Names[i] = name
  <2>1. others \subseteq {Names[i] : i \in DOMAIN Names}
    BY DEF LibraryInv, Library!UserNames, Library!Range
  <2> QED
    BY <2>1
<1>5. commands' = list \o later /\ phase' = "ready"
      /\ UNCHANGED <<others, submitted>>
  BY Zenon DEF Library!RegisterPromptSlashCommands, Builtins, Library!disk
<1> HIDE DEF S, names
<1>6. /\ list \in Seq(ACommand) /\ Unambiguous(list)
      /\ \A i \in DOMAIN names : names[i] \notin Protected =>
           \E j \in DOMAIN list : list[j] = Library!Command(names[i], {}, TRUE)
  <2>1. Builtins \in Seq(ACommand) /\ Unambiguous(Builtins)
    BY Zenon DEF LibraryParameters
  <2>2. names \in Seq(Labels)
    BY <1>3
  <2> HIDE DEF list
  <2>3. ASSUME NEW all, all = Library!Registered(Builtins, names) PROVE AllRegistered(all, names)
    BY <2>1, <2>2, <2>3, RegisteredIs
  <2>4. AllRegistered(list, names)
    BY <2>3, Zenon DEF list
  <2> QED
    BY <2>4, Zenon DEF AllRegistered
<1>7. PICK m \in Nat : DOMAIN later = 1..m /\ Len(later) = m
  <2>1. PICK m \in Nat : DOMAIN Later = 1..m
    BY Zenon DEF LibraryParameters
  <2> QED
    BY <2>1
<1> HIDE DEF list, later
<1>8. ASSUME NEW name \in others \ Protected
      PROVE  /\ Library!Exists(list \o later, name)
             /\ (list \o later)[Library!First(list \o later, name)].prompt
  <2>1. PICK k \in DOMAIN names : names[k] = name
    BY <1>3, <1>4
  <2>2. PICK j \in DOMAIN list : list[j] = Library!Command(name, {}, TRUE)
    BY <1>6, <2>1, Zenon
  <2>3. Library!Answers(list[j], name) /\ list[j].prompt
    BY <2>2 DEF Library!Answers, Library!Command
  <2> DEFINE all == list \o later  n == Len(list) + m
  <2>4. DOMAIN all = 1..n /\ n \in Nat /\ Len(list) <= n
        /\ \A i \in 1..Len(list) : all[i] = list[i]
    <3>1. Len(list) \in Nat /\ DOMAIN list = 1..Len(list)
      BY <1>6
    <3>2. DOMAIN all = 1..(Len(list) + Len(later)) /\ \A i \in 1..Len(list) : all[i] = list[i]
      BY <1>6, <1>7, <3>1
    <3> HIDE DEF all
    <3> QED
      BY <1>7, <3>1, <3>2
  <2> HIDE DEF all, n
  <2>5. Library!Exists(all, name) /\ Library!First(all, name) = j /\ all[j] = list[j]
    BY <1>6, <2>3, <2>4, FirstIs
  <2> QED
    BY <2>3, <2>5 DEF all
<1>9. PromptsAnswer(commands)'
  BY <1>5, <1>8, Zenon DEF PromptsAnswer
<1> QED
  BY <1>5, <1>9, Zenon DEF LibraryInv, Library!PromptRunsAsTyped

(* What is submitted is the user's text with what was typed in its place.   *)
LEMMA SubmitStep ==
  ASSUME LibraryParameters, LibraryInv, Library!Submit
  PROVE  LibraryInv'
<1>1. PICK name, typed :
        /\ typed \in Arguments
        /\ submitted'.name = name /\ submitted'.arguments = typed
        /\ submitted'.message =
             IF commands[Library!First(commands, name)].prompt
             THEN Library!RenderPrompt(Library!Texts(name), typed) ELSE <<"builtin">>
  <2> DEFINE Sent(name, typed) ==
               IF commands[Library!First(commands, name)].prompt
               THEN Library!RenderPrompt(Library!Texts(name), typed) ELSE <<"builtin">>
  <2>1. PICK name, typed :
          typed \in Arguments /\ submitted' = [name |-> name, arguments |-> typed, message |-> Sent(name, typed)]
    BY Zenon DEF Library!Submit
  <2>2. \A m : submitted' = [name |-> name, arguments |-> typed, message |-> m] =>
          submitted'.name = name /\ submitted'.arguments = typed /\ submitted'.message = m
    OBVIOUS
  <2> QED
    BY <2>1, <2>2, Zenon
<1>2. phase = "ready" /\ UNCHANGED <<others, phase, commands>>
  BY DEF Library!Submit, Library!disk
<1>3. ASSUME name \in others \ Protected
      PROVE  LET n == CHOOSE i \in DOMAIN UserText : UserText[i] = "$ARGUMENTS"
             IN submitted'.message = SubSeq(UserText, 1, n - 1) \o submitted'.arguments
                                       \o SubSeq(UserText, n + 1, Len(UserText))
  <2>1. commands[Library!First(commands, name)].prompt
    BY <1>2, <1>3 DEF LibraryInv, PromptsAnswer
  <2>2. Library!Texts(name) = UserText
    <3>1. name # "init"
      BY <1>3 DEF LibraryInv, Library!UserNames
    <3> QED
      BY <3>1, Zenon DEF Library!Texts
  <2>3. submitted'.message = Library!RenderPrompt(UserText, typed)
    BY <1>1, <2>1, <2>2, Zenon
  <2> DEFINE n == CHOOSE i \in DOMAIN UserText : UserText[i] = "$ARGUMENTS"
  <2>4. PICK p \in DOMAIN UserText :
          /\ UserText[p] = "$ARGUMENTS"
          /\ \A i \in DOMAIN UserText : i # p => UserText[i] \notin Placeholders
    BY DEF LibraryParameters
  <2>5. n = p
    <3>1. \A i \in DOMAIN UserText : UserText[i] = "$ARGUMENTS" => i = p
      BY <2>4 DEF Placeholders
    <3> QED
      BY <2>4, <3>1
  <2> HIDE DEF n
  <2>6. UserText \in Seq(Tokens) /\ typed \in Seq(Tokens)
    BY <1>1 DEF LibraryParameters
  <2>7. Library!RenderPrompt(UserText, typed)
          = (SubSeq(UserText, 1, p - 1) \o typed) \o SubSeq(UserText, p + 1, Len(UserText))
    BY <2>4, <2>6, RenderIs, Zenon
  <2> QED
    BY <1>1, <2>3, <2>5, <2>7, Zenon DEF n
<1>4. Library!PromptRunsAsTyped'
  BY <1>1, <1>2, <1>3, Zenon DEF Library!PromptRunsAsTyped
<1> QED
  BY <1>2, <1>4 DEF LibraryInv, PromptsAnswer

(* A user's prompt answers to its name, also when that is the name or an    *)
(* alias of a command, unless it is protected; and what was typed behind    *)
(* the name is in the message as it was typed, placeholders of its own      *)
(* included (prompt_slash_commands.cpp; prompt_library.cpp, RenderPrompt).  *)
THEOREM PromptsRunAsTyped ==
  ASSUME LibraryParameters PROVE Library!Spec => []Library!PromptRunsAsTyped
<1>1. Library!Init => LibraryInv
  BY DEF Library!Init, LibraryInv, Library!PromptRunsAsTyped
<1>2. ASSUME LibraryInv, [Library!Next]_Library!vars
      PROVE  LibraryInv'
  <2>1. CASE Library!RegisterPromptSlashCommands
    BY <1>2, <2>1, RegisterStep
  <2>2. CASE Library!Submit
    BY <1>2, <2>2, SubmitStep
  <2>3. CASE Library!Crash
    <3>1. /\ UNCHANGED others /\ phase' = "off" /\ submitted' = Library!None
      BY <2>3 DEF Library!Crash, Library!disk
    <3> QED
      BY <1>2, <3>1 DEF LibraryInv, Library!PromptRunsAsTyped
  <2>4. CASE \/ Library!Start \/ Library!WriteSeedPrompt \/ Library!Truncate
             \/ Library!WriteContent \/ Library!RecordSeedFingerprint \/ Library!Edit
             \/ UNCHANGED Library!vars
    <3>1. UNCHANGED <<others, commands, submitted>>
      BY <2>4, Zenon DEF Library!Start, Library!WriteSeedPrompt, Library!Truncate,
           Library!WriteContent, Library!RecordSeedFingerprint, Library!Edit,
           Library!disk, Library!vars
    <3>2. phase' = "ready" => phase = "ready"
      BY <2>4 DEF Library!Start, Library!WriteSeedPrompt, Library!Truncate,
           Library!WriteContent, Library!RecordSeedFingerprint, Library!Edit, Library!vars
    <3> QED
      BY <1>2, <3>1, <3>2, Zenon DEF LibraryInv, PromptsAnswer, Library!PromptRunsAsTyped
  <2> QED
    BY <1>2, <2>1, <2>2, <2>3, <2>4 DEF Library!Next
<1>3. LibraryInv => Library!PromptRunsAsTyped
  BY DEF LibraryInv
<1> QED
  BY <1>1, <1>2, <1>3, PTL DEF Library!Spec

-----------------------------------------------------------------------------
(*                        EFFORTS IN THE FILE                              *)

CONSTANTS Models, Efforts, FilesOfUser, EnvsOfUser, Profiles, MaxCommands,
          Words       \* whatever stands on the two sides of an equals sign
VARIABLES store, saving, told, left

Chosen == INSTANCE Settings

Assignments == [key : Words, value : Words]

Body(lines, i) == {lines[j] : j \in Chosen!BlockLines(lines, i)}

(* A block has a key once.                                                  *)
Proper(lines) ==
  /\ lines \in Seq(Assignments)
  /\ \A i \in Chosen!Headers(lines) : \A j, k \in Chosen!BlockLines(lines, i) :
       lines[j].key = lines[k].key => j = k

Reads(lines, p, m) == Chosen!EffortIn(Chosen!LoadProviderModelSettings(lines), p, m)

Is(lines, i, p, m) ==
  /\ i \in Chosen!Headers(lines)
  /\ Chosen!Entry(lines, i).provider = p /\ Chosen!Entry(lines, i).model = m

FirstOf(lines, i, p, m) ==
  Is(lines, i, p, m) /\ \A j \in Chosen!Headers(lines) : j < i => ~Is(lines, j, p, m)

(* An entry has its fields.                                                 *)
LEMMA EntryIs ==
  ASSUME NEW lines, NEW i
  PROVE  LET within == Chosen!BlockLines(lines, i)  e == Chosen!Entry(lines, i)
         IN /\ e.provider = Chosen!KeyIn(lines, within, "provider")
            /\ e.model = Chosen!KeyIn(lines, within, "model")
            /\ e.effort = Chosen!KeyIn(lines, within, "effort")
  BY DEF Chosen!Entry

(* The list that a start makes has the first entry of a pair first.         *)
LEMMA ReadsFirst ==
  ASSUME NEW lines \in Seq(Assignments), NEW p, NEW m, p # "none", m # "none"
  PROVE  /\ \A i : FirstOf(lines, i, p, m) => Reads(lines, p, m) = Chosen!Entry(lines, i).effort
         /\ (\A i \in Chosen!Headers(lines) : ~Is(lines, i, p, m)) => Reads(lines, p, m) = "none"
<1> DEFINE S == {i \in Chosen!Headers(lines) : /\ Chosen!Entry(lines, i).provider # "none"
                                               /\ Chosen!Entry(lines, i).model # "none"}
           n == Cardinality(S)
           order == InOrder(S)
           list == Chosen!LoadProviderModelSettings(lines)
           matching == {k \in DOMAIN list : list[k].provider = p /\ list[k].model = m}
<1>1. Len(lines) \in Nat /\ DOMAIN lines = 1..Len(lines)
  OBVIOUS
<1>2. S \subseteq Nat /\ IsFiniteSet(S)
  <2>1. S \subseteq 1..Len(lines)
    BY <1>1 DEF Chosen!Headers
  <2>2. IsFiniteSet(1..Len(lines))
    BY <1>1, FS_Interval
  <2> QED
    BY <2>1, <2>2, FS_Subset
<1>3. /\ n \in Nat /\ DOMAIN order = 1..n
      /\ \A k \in 1..n : order[k] \in S
      /\ \A k, l \in 1..n : k < l => order[k] < order[l]
      /\ \A i \in S : \E k \in 1..n : order[k] = i
  <2> HIDE DEF S
  <2> QED
    BY <1>2, InOrderIs
<1>4. list = [k \in DOMAIN order |-> Chosen!Entry(lines, order[k])]
  <2>1. \A T : Chosen!InOrder(T) = InOrder(T)
    BY Zenon DEF Chosen!InOrder, InOrder, Chosen!Below, Below, Chosen!Cardinality, Cardinality
  <2> QED
    BY <2>1, Zenon DEF Chosen!LoadProviderModelSettings, Chosen!None
<1> HIDE DEF n, order, list
<1>5. DOMAIN list = 1..n /\ \A k \in 1..n : list[k] = Chosen!Entry(lines, order[k])
  BY <1>3, <1>4
<1>6. \A k \in 1..n : k \in matching <=> Is(lines, order[k], p, m)
  BY <1>3, <1>5 DEF Is
<1>7. \A i : Is(lines, i, p, m) => i \in S
  BY DEF Is
<1>8. ASSUME NEW i, FirstOf(lines, i, p, m)
      PROVE  Reads(lines, p, m) = Chosen!Entry(lines, i).effort
  <2>1. PICK k \in 1..n : order[k] = i
    BY <1>3, <1>7, <1>8 DEF FirstOf
  <2>2. k \in matching
    BY <1>6, <1>8, <2>1 DEF FirstOf
  <2>3. \A l \in matching : k <= l
    <3> SUFFICES ASSUME NEW l \in matching, l < k PROVE FALSE
      BY <1>3, <1>5, <2>1
    <3>1. l \in 1..n /\ order[l] < i /\ order[l] \in S
      BY <1>3, <1>5, <2>1
    <3>2. Is(lines, order[l], p, m)
      BY <1>6, <3>1
    <3> QED
      BY <1>8, <3>1, <3>2 DEF FirstOf
  <2>4. Chosen!First(matching) = k
    <3>1. matching \subseteq Nat
      BY <1>5
    <3> HIDE DEF matching
    <3>2. \A x \in matching : (\A y \in matching : x <= y) => x = k
      BY <2>2, <2>3, <3>1
    <3> QED
      BY <2>2, <2>3, <3>2, Zenon DEF Chosen!First
  <2>5. Reads(lines, p, m) = list[Chosen!First(matching)].effort
    BY <2>2, Zenon DEF Reads, Chosen!EffortIn, list
  <2> QED
    BY <1>5, <2>1, <2>4, <2>5
<1>9. ASSUME \A i \in Chosen!Headers(lines) : ~Is(lines, i, p, m)
      PROVE  Reads(lines, p, m) = "none"
  <2>1. matching = {}
    BY <1>3, <1>5, <1>6, <1>9
  <2> QED
    BY <2>1, Zenon DEF Reads, Chosen!EffortIn, Chosen!None, list
<1> QED
  BY <1>8, <1>9

(* What is read for a pair is the effort of its first block.                *)
LEMMA ReadsAt ==
  ASSUME NEW lines \in Seq(Assignments), NEW p, NEW m, p # "none", m # "none",
         NEW i, FirstOf(lines, i, p, m)
  PROVE  Reads(lines, p, m) = Chosen!Entry(lines, i).effort
  BY ReadsFirst

(* Of the blocks of a pair one is the first.                                *)
LEMMA FirstThere ==
  ASSUME NEW lines \in Seq(Assignments), NEW i, NEW p, NEW m, Is(lines, i, p, m)
  PROVE  \E j : FirstOf(lines, j, p, m)
<1> DEFINE T == {j \in Chosen!Headers(lines) : Is(lines, j, p, m)}
<1>1. T \subseteq Nat /\ i \in T
  BY DEF Is, Chosen!Headers
<1>2. PICK j \in T : \A k \in T : j <= k
  <2> HIDE DEF T
  <2> QED
    BY <1>1, LeastNatural
<1>3. \A k \in Chosen!Headers(lines) : k \in Nat
  BY DEF Chosen!Headers
<1> QED
  BY <1>1, <1>2, <1>3 DEF FirstOf

(* What a key of a block is follows from the lines of the block.            *)
LEMMA KeyIs ==
  ASSUME NEW lines, Proper(lines), NEW i \in Chosen!Headers(lines), NEW key
  PROVE  LET value == Chosen!KeyIn(lines, Chosen!BlockLines(lines, i), key)
         IN /\ \A r \in Body(lines, i) : r.key = key => value = r.value
            /\ (\A r \in Body(lines, i) : r.key # key) => value = "none"
<1> DEFINE where == Chosen!BlockLines(lines, i)
<1>1. \A j, k \in where : lines[j].key = lines[k].key => j = k
  BY DEF Proper
<1> HIDE DEF where
<1>2. ASSUME NEW r \in {lines[j] : j \in where}, r.key = key
      PROVE  Chosen!KeyIn(lines, where, key) = r.value
  <2>1. PICK j \in where : lines[j] = r
    BY <1>2
  <2>2. (CHOOSE k \in where : lines[k].key = key) = j
    BY <1>1, <1>2, <2>1
  <2> QED
    BY <1>2, <2>1, <2>2, Zenon DEF Chosen!KeyIn
<1>3. (\A r \in {lines[j] : j \in where} : r.key # key)
         => Chosen!KeyIn(lines, where, key) = "none"
  BY Zenon DEF Chosen!KeyIn, Chosen!None
<1> QED
  BY <1>2, <1>3, Zenon DEF Body, where

(* Blocks with the same lines of a key agree on it.                         *)
LEMMA KeysAgree ==
  ASSUME NEW a, Proper(a), NEW b, Proper(b),
         NEW i \in Chosen!Headers(a), NEW j \in Chosen!Headers(b), NEW key,
         \A r : r.key = key => (r \in Body(a, i) <=> r \in Body(b, j))
  PROVE  Chosen!KeyIn(a, Chosen!BlockLines(a, i), key)
           = Chosen!KeyIn(b, Chosen!BlockLines(b, j), key)
<1>1. CASE \E r \in Body(a, i) : r.key = key
  BY <1>1, KeyIs
<1>2. CASE \A r \in Body(a, i) : r.key # key
  <2>1. \A r \in Body(b, j) : r.key # key
    BY <1>2
  <2> QED
    BY <1>2, <2>1, KeyIs
<1> QED
  BY <1>1, <1>2

(* long is short and one line more, at k, which sets an effort.             *)
WithLine(long, short, k) ==
  /\ long \in Seq(Assignments) /\ short \in Seq(Assignments)
  /\ Len(long) = Len(short) + 1 /\ k \in 1..Len(long) /\ long[k].key = "effort"
  /\ \A i \in 1..(k - 1) : long[i] = short[i]
  /\ \A i \in k..Len(short) : long[i + 1] = short[i]

(* Where a line of short is in long.                                        *)
Moved(i, k) == IF i < k THEN i ELSE i + 1

(* The lines of short are those of long but for the one at k, in the same   *)
(* order.                                                                   *)
LEMMA LinesMove ==
  ASSUME NEW long, NEW short, NEW k, WithLine(long, short, k), NEW n, n = Len(short)
  PROVE  /\ n \in Nat /\ k \in 1..(n + 1)
         /\ DOMAIN short = 1..n /\ DOMAIN long = 1..(n + 1)
         /\ \A i \in 1..n : /\ Moved(i, k) \in 1..(n + 1) /\ Moved(i, k) # k
                            /\ long[Moved(i, k)] = short[i]
         /\ \A j \in 1..(n + 1) : j # k => \E i \in 1..n : Moved(i, k) = j
         /\ \A i, j \in 1..n : i < j <=> Moved(i, k) < Moved(j, k)
<1>1. /\ n \in Nat /\ k \in 1..(n + 1) /\ DOMAIN short = 1..n /\ DOMAIN long = 1..(n + 1)
  BY DEF WithLine
<1>2. ASSUME NEW i \in 1..n
      PROVE  /\ Moved(i, k) \in 1..(n + 1) /\ Moved(i, k) # k
             /\ long[Moved(i, k)] = short[i]
  <2>1. CASE i < k
    BY <1>1, <2>1 DEF WithLine, Moved
  <2>2. CASE ~(i < k)
    BY <1>1, <2>2 DEF WithLine, Moved
  <2> QED
    BY <2>1, <2>2
<1>3. ASSUME NEW j \in 1..(n + 1), j # k
      PROVE  \E i \in 1..n : Moved(i, k) = j
  <2>1. CASE j < k
    <3>1. j \in 1..n /\ Moved(j, k) = j
      BY <1>1, <2>1 DEF Moved
    <3> QED
      BY <3>1
  <2>2. CASE j > k
    <3>1. j - 1 \in 1..n /\ Moved(j - 1, k) = j
      BY <1>1, <2>2 DEF Moved
    <3> QED
      BY <3>1
  <2> QED
    BY <1>1, <1>3, <2>1, <2>2
<1>4. \A i, j \in 1..n : i < j <=> Moved(i, k) < Moved(j, k)
  BY <1>1 DEF Moved
<1> QED
  BY <1>1, <1>2, <1>3, <1>4, Zenon

(* The blocks stay as they were but for the one the line is in.             *)
LEMMA BlocksMove ==
  ASSUME NEW long, NEW short, NEW k, WithLine(long, short, k)
  PROVE  /\ \A i \in 1..Len(short) :
              i \in Chosen!Headers(short) <=> Moved(i, k) \in Chosen!Headers(long)
         /\ \A j \in Chosen!Headers(long) :
              \E i \in Chosen!Headers(short) : Moved(i, k) = j
         /\ \A i, j \in 1..Len(short) :
              j \in Chosen!BlockLines(short, i)
                <=> Moved(j, k) \in Chosen!BlockLines(long, Moved(i, k))
<1> DEFINE n == Len(short)
<1>0. /\ n \in Nat /\ k \in 1..(n + 1)
      /\ DOMAIN short = 1..n /\ DOMAIN long = 1..(n + 1)
      /\ \A i \in 1..n : /\ Moved(i, k) \in 1..(n + 1) /\ Moved(i, k) # k
                         /\ long[Moved(i, k)] = short[i]
      /\ \A j \in 1..(n + 1) : j # k => \E i \in 1..n : Moved(i, k) = j
      /\ \A i, j \in 1..n : i < j <=> Moved(i, k) < Moved(j, k)
  BY LinesMove, Zenon
<1> HIDE DEF n
<1>1. k \notin Chosen!Headers(long) /\ ~Chosen!IsAnyTableHeader(long[k])
  <2>1. long[k].key = "effort"
    BY DEF WithLine
  <2>2. Chosen!BlockHeader.key = "[["
    BY DEF Chosen!BlockHeader, Chosen!Line
  <2> QED
    BY <2>1, <2>2 DEF Chosen!Headers, Chosen!IsAnyTableHeader
<1>2. \A i \in 1..n : i \in Chosen!Headers(short) <=> Moved(i, k) \in Chosen!Headers(long)
  BY <1>0 DEF Chosen!Headers
<1>3. \A j \in Chosen!Headers(long) : \E i \in Chosen!Headers(short) : Moved(i, k) = j
  <2> SUFFICES ASSUME NEW j \in Chosen!Headers(long)
               PROVE  \E i \in Chosen!Headers(short) : Moved(i, k) = j
    OBVIOUS
  <2>1. j \in 1..(n + 1) /\ j # k
    BY <1>0, <1>1 DEF Chosen!Headers
  <2>2. PICK i \in 1..n : Moved(i, k) = j
    BY <1>0, <2>1
  <2> QED
    BY <1>2, <2>2
<1>4. ASSUME NEW i \in 1..n, NEW j \in 1..n
      PROVE  j \in Chosen!BlockLines(short, i)
               <=> Moved(j, k) \in Chosen!BlockLines(long, Moved(i, k))
  <2> DEFINE a == Moved(i, k)  b == Moved(j, k)
  <2>1. a \in 1..(n + 1) /\ b \in 1..(n + 1) /\ (i < j <=> a < b)
    BY <1>0
  <2>2. ASSUME \A l \in (i + 1)..j : ~Chosen!IsAnyTableHeader(short[l]),
               NEW x \in (a + 1)..b
        PROVE  ~Chosen!IsAnyTableHeader(long[x])
    <3>1. CASE x = k
      BY <1>1, <3>1
    <3>2. CASE x # k
      <4>1. x \in 1..(n + 1)
        BY <1>0, <2>1
      <4>2. PICK l \in 1..n : Moved(l, k) = x
        BY <1>0, <3>2, <4>1
      <4>3. l \in (i + 1)..j
        <5>1. a < Moved(l, k) /\ ~(b < Moved(l, k))
          BY <2>1, <4>1, <4>2
        <5>2. i < l /\ ~(j < l)
          BY <1>0, <5>1
        <5> QED
          BY <1>0, <5>2
      <4>4. long[x] = short[l]
        BY <1>0, <4>2
      <4> QED
        BY <2>2, <4>3, <4>4
    <3> QED
      BY <3>1, <3>2
  <2>3. ASSUME \A x \in (a + 1)..b : ~Chosen!IsAnyTableHeader(long[x]),
               NEW l \in (i + 1)..j
        PROVE  ~Chosen!IsAnyTableHeader(short[l])
    <3>1. l \in 1..n /\ i < l /\ ~(j < l)
      BY <1>0
    <3>2. Moved(l, k) \in 1..(n + 1) /\ a < Moved(l, k) /\ ~(b < Moved(l, k))
          /\ long[Moved(l, k)] = short[l]
      BY <1>0, <3>1
    <3>3. Moved(l, k) \in (a + 1)..b
      <4> HIDE DEF a, b
      <4> QED
        BY <1>0, <2>1, <3>2
    <3> QED
      BY <2>3, <3>2, <3>3
  <2> HIDE DEF a, b
  <2>4. j \in Chosen!BlockLines(short, i)
          <=> i < j /\ \A l \in (i + 1)..j : ~Chosen!IsAnyTableHeader(short[l])
    BY <1>0, Zenon DEF Chosen!BlockLines
  <2>5. b \in Chosen!BlockLines(long, a)
          <=> a < b /\ \A l \in (a + 1)..b : ~Chosen!IsAnyTableHeader(long[l])
    BY <1>0, <2>1 DEF Chosen!BlockLines
  <2> QED
    BY <2>1, <2>2, <2>3, <2>4, <2>5, Zenon DEF a, b
<1> QED
  BY <1>2, <1>3, <1>4, Zenon DEF n

(* A line is in one block.                                                  *)
LEMMA OneBlock ==
  ASSUME NEW lines \in Seq(Assignments), NEW i \in Chosen!Headers(lines),
         NEW j \in Chosen!Headers(lines), NEW l,
         l \in Chosen!BlockLines(lines, i), l \in Chosen!BlockLines(lines, j)
  PROVE  i = j
<1>1. i \in Nat /\ j \in Nat /\ l \in Nat /\ l > i /\ l > j
  BY DEF Chosen!Headers, Chosen!BlockLines
<1>2. Chosen!IsAnyTableHeader(lines[i]) /\ Chosen!IsAnyTableHeader(lines[j])
  BY DEF Chosen!Headers, Chosen!IsAnyTableHeader, Chosen!BlockHeader, Chosen!Line
<1>3. ~(i < j)
  <2> SUFFICES ASSUME i < j PROVE FALSE
    OBVIOUS
  <2>1. j \in (i + 1)..l
    BY <1>1
  <2> QED
    BY <1>2, <2>1 DEF Chosen!BlockLines
<1>4. ~(j < i)
  <2> SUFFICES ASSUME j < i PROVE FALSE
    OBVIOUS
  <2>1. i \in (j + 1)..l
    BY <1>1
  <2> QED
    BY <1>2, <2>1 DEF Chosen!BlockLines
<1> QED
  BY <1>1, <1>3, <1>4

(* The line at k is in the block of the header at x: that block has one     *)
(* line more, every other one has its lines.                                *)
LEMMA BodiesMove ==
  ASSUME NEW long, NEW short, NEW k, WithLine(long, short, k),
         NEW x \in Chosen!Headers(long), k \in Chosen!BlockLines(long, x)
  PROVE  /\ x \in Chosen!Headers(short) /\ Moved(x, k) = x
         /\ Body(long, x) = Body(short, x) \cup {long[k]}
         /\ \A i \in Chosen!Headers(short) :
              i # x => Body(long, Moved(i, k)) = Body(short, i)
<1> DEFINE n == Len(short)
<1>0. /\ n \in Nat /\ k \in 1..(n + 1)
      /\ DOMAIN short = 1..n /\ DOMAIN long = 1..(n + 1)
      /\ \A i \in 1..n : /\ Moved(i, k) \in 1..(n + 1) /\ Moved(i, k) # k
                         /\ long[Moved(i, k)] = short[i]
      /\ \A j \in 1..(n + 1) : j # k => \E i \in 1..n : Moved(i, k) = j
      /\ \A i, j \in 1..n : i < j <=> Moved(i, k) < Moved(j, k)
  BY LinesMove, Zenon
<1>1. /\ \A i \in 1..n :
           i \in Chosen!Headers(short) <=> Moved(i, k) \in Chosen!Headers(long)
      /\ \A i, j \in 1..n : j \in Chosen!BlockLines(short, i)
                              <=> Moved(j, k) \in Chosen!BlockLines(long, Moved(i, k))
  BY BlocksMove, Zenon
<1> HIDE DEF n
<1>2. x \in 1..n /\ Moved(x, k) = x /\ x \in Chosen!Headers(short)
  <2>1. x \in 1..n /\ x < k
    BY <1>0 DEF Chosen!BlockLines, Chosen!Headers
  <2>2. Moved(x, k) = x
    BY <2>1 DEF Moved
  <2> QED
    BY <1>1, <2>1, <2>2
<1>3. \A i \in Chosen!Headers(short) : i \in 1..n
  BY <1>0 DEF Chosen!Headers
<1>4. ASSUME NEW i \in 1..n
      PROVE  Body(short, i) = {long[y] : y \in Chosen!BlockLines(long, Moved(i, k)) \ {k}}
  <2>1. ASSUME NEW j \in Chosen!BlockLines(short, i)
        PROVE  \E y \in Chosen!BlockLines(long, Moved(i, k)) \ {k} : long[y] = short[j]
    <3>1. j \in 1..n
      BY <1>0 DEF Chosen!BlockLines
    <3> QED
      BY <1>0, <1>1, <3>1
  <2>2. ASSUME NEW y \in Chosen!BlockLines(long, Moved(i, k)) \ {k}
        PROVE  \E j \in Chosen!BlockLines(short, i) : long[y] = short[j]
    <3>1. y \in 1..(n + 1) /\ y # k
      BY <1>0 DEF Chosen!BlockLines
    <3>2. PICK j \in 1..n : Moved(j, k) = y
      BY <1>0, <3>1
    <3> QED
      BY <1>0, <1>1, <3>2
  <2> QED
    BY <2>1, <2>2 DEF Body
<1>5. Body(long, x) = Body(short, x) \cup {long[k]}
  <2>1. Body(short, x) = {long[y] : y \in Chosen!BlockLines(long, x) \ {k}}
    BY <1>2, <1>4
  <2> QED
    BY <2>1, Zenon DEF Body
<1>6. ASSUME NEW i \in Chosen!Headers(short), i # x
      PROVE  Body(long, Moved(i, k)) = Body(short, i)
  <2>1. Moved(i, k) \in Chosen!Headers(long) /\ i \in 1..n
    BY <1>1, <1>3
  <2>2. Moved(i, k) # x
    BY <1>0, <1>2, <1>6, <2>1
  <2>3. k \notin Chosen!BlockLines(long, Moved(i, k))
    <3>1. long \in Seq(Assignments)
      BY DEF WithLine
    <3> QED
      BY <2>1, <2>2, <3>1, OneBlock, Zenon
  <2> QED
    BY <1>4, <2>1, <2>3 DEF Body
<1> QED
  BY <1>2, <1>5, <1>6

(* The line can be added where the block has none of its key, and only there.*)
LEMMA ProperBeside ==
  ASSUME NEW long, NEW short, NEW k, WithLine(long, short, k),
         NEW x \in Chosen!Headers(long), k \in Chosen!BlockLines(long, x)
  PROVE  Proper(long) <=> Proper(short) /\ \A r \in Body(short, x) : r.key # "effort"
<1> DEFINE n == Len(short)
<1>0. /\ n \in Nat /\ k \in 1..(n + 1)
      /\ DOMAIN short = 1..n /\ DOMAIN long = 1..(n + 1)
      /\ \A i \in 1..n : /\ Moved(i, k) \in 1..(n + 1) /\ Moved(i, k) # k
                         /\ long[Moved(i, k)] = short[i]
      /\ \A j \in 1..(n + 1) : j # k => \E i \in 1..n : Moved(i, k) = j
      /\ \A i, j \in 1..n : i < j <=> Moved(i, k) < Moved(j, k)
  BY LinesMove, Zenon
<1>1. /\ \A i \in 1..n :
           i \in Chosen!Headers(short) <=> Moved(i, k) \in Chosen!Headers(long)
      /\ \A j \in Chosen!Headers(long) :
           \E i \in Chosen!Headers(short) : Moved(i, k) = j
      /\ \A i, j \in 1..n : j \in Chosen!BlockLines(short, i)
                              <=> Moved(j, k) \in Chosen!BlockLines(long, Moved(i, k))
  BY BlocksMove, Zenon
<1>2. /\ x \in Chosen!Headers(short) /\ Moved(x, k) = x
      /\ long \in Seq(Assignments) /\ short \in Seq(Assignments)
      /\ long[k].key = "effort"
  <2>1. x \in Chosen!Headers(short) /\ Moved(x, k) = x
    BY BodiesMove
  <2> QED
    BY <2>1, Zenon DEF WithLine
<1> HIDE DEF n
<1>3. /\ \A i \in Chosen!Headers(short) : i \in 1..n
      /\ \A i, j : j \in Chosen!BlockLines(short, i) => j \in 1..n
      /\ \A i, j : j \in Chosen!BlockLines(long, i) => j \in 1..(n + 1)
  BY <1>0 DEF Chosen!Headers, Chosen!BlockLines
<1>4. ASSUME Proper(long)
      PROVE  Proper(short) /\ \A r \in Body(short, x) : r.key # "effort"
  <2>1. ASSUME NEW i \in Chosen!Headers(short),
               NEW a \in Chosen!BlockLines(short, i), NEW b \in Chosen!BlockLines(short, i),
               short[a].key = short[b].key
        PROVE  a = b
    <3>1. i \in 1..n /\ a \in 1..n /\ b \in 1..n
      BY <1>3
    <3>2. /\ Moved(i, k) \in Chosen!Headers(long)
          /\ Moved(a, k) \in Chosen!BlockLines(long, Moved(i, k))
          /\ Moved(b, k) \in Chosen!BlockLines(long, Moved(i, k))
          /\ long[Moved(a, k)].key = long[Moved(b, k)].key
      BY <1>0, <1>1, <2>1, <3>1
    <3>3. Moved(a, k) = Moved(b, k)
      BY <1>4, <3>2 DEF Proper
    <3>4. ~(a < b) /\ ~(b < a)
      BY <1>0, <3>1, <3>3
    <3> QED
      BY <3>1, <3>4
  <2>2. ASSUME NEW a \in Chosen!BlockLines(short, x), short[a].key = "effort"
        PROVE  FALSE
    <3>1. x \in 1..n /\ a \in 1..n
      BY <1>2, <1>3
    <3>2. /\ Moved(a, k) \in Chosen!BlockLines(long, x)
          /\ long[Moved(a, k)].key = "effort" /\ Moved(a, k) # k
      BY <1>0, <1>1, <1>2, <2>2, <3>1
    <3> QED
      BY <1>2, <1>4, <3>2 DEF Proper
  <2> QED
    BY <1>2, <2>1, <2>2 DEF Proper, Body
<1>5. ASSUME Proper(short), \A r \in Body(short, x) : r.key # "effort"
      PROVE  Proper(long)
  <2> SUFFICES ASSUME NEW h \in Chosen!Headers(long),
                      NEW a \in Chosen!BlockLines(long, h),
                      NEW b \in Chosen!BlockLines(long, h),
                      long[a].key = long[b].key
               PROVE  a = b
    BY <1>2 DEF Proper
  <2>1. PICK i \in Chosen!Headers(short) : Moved(i, k) = h
    BY <1>1
  <2>2. i \in 1..n /\ a \in 1..(n + 1) /\ b \in 1..(n + 1)
    BY <1>3
  <2>3. \A c \in Chosen!BlockLines(long, h) : c # k =>
          \E j \in Chosen!BlockLines(short, i) : Moved(j, k) = c /\ short[j] = long[c]
    <3> SUFFICES ASSUME NEW c \in Chosen!BlockLines(long, h), c # k
                 PROVE  \E j \in Chosen!BlockLines(short, i) :
                          Moved(j, k) = c /\ short[j] = long[c]
      OBVIOUS
    <3>1. PICK j \in 1..n : Moved(j, k) = c
      BY <1>0, <1>3
    <3> QED
      BY <1>0, <1>1, <2>1, <2>2, <3>1
  <2>4. ASSUME NEW c \in Chosen!BlockLines(long, h), c # k, h = x
        PROVE  long[c].key # "effort"
    <3>1. PICK j \in Chosen!BlockLines(short, i) : short[j] = long[c]
      BY <2>3, <2>4
    <3>2. i = x
      <4>1. x \in 1..n /\ Moved(i, k) = Moved(x, k)
        BY <1>2, <1>3, <2>1, <2>4
      <4>2. ~(i < x) /\ ~(x < i)
        <5>1. Moved(i, k) \in 1..(n + 1)
          BY <1>0, <2>2
        <5> QED
          BY <1>0, <2>2, <4>1, <5>1
      <4> QED
        BY <2>2, <4>1, <4>2
    <3> QED
      BY <1>5, <3>1, <3>2 DEF Body
  <2>5. k \in Chosen!BlockLines(long, h) => h = x
    BY <1>2, OneBlock
  <2>6. CASE a = k \/ b = k
    <3>1. h = x /\ long[a].key = "effort" /\ long[b].key = "effort"
      BY <1>2, <2>5, <2>6
    <3> QED
      BY <2>4, <2>6, <3>1
  <2>7. CASE a # k /\ b # k
    <3>1. PICK c \in Chosen!BlockLines(short, i) : Moved(c, k) = a /\ short[c] = long[a]
      BY <2>3, <2>7
    <3>2. PICK d \in Chosen!BlockLines(short, i) : Moved(d, k) = b /\ short[d] = long[b]
      BY <2>3, <2>7
    <3>3. c = d
      BY <1>5, <3>1, <3>2 DEF Proper
    <3> QED
      BY <3>1, <3>2, <3>3
  <2> QED
    BY <2>6, <2>7
<1> QED
  BY <1>4, <1>5

(* Adding the line sets what is read for the pair whose block it is, taking *)
(* it away unsets it, and neither changes what is read for others.          *)
LEMMA ReadsBeside ==
  ASSUME NEW long, NEW short, NEW k, WithLine(long, short, k),
         NEW x \in Chosen!Headers(long), k \in Chosen!BlockLines(long, x),
         Proper(long), NEW p, NEW m, p # "none", m # "none"
  PROVE  /\ FirstOf(long, x, p, m) <=> FirstOf(short, x, p, m)
         /\ FirstOf(long, x, p, m) => /\ Reads(long, p, m) = long[k].value
                                      /\ Reads(short, p, m) = "none"
         /\ ~Is(long, x, p, m) => Reads(long, p, m) = Reads(short, p, m)
<1> DEFINE n == Len(short)
<1>0. /\ n \in Nat /\ k \in 1..(n + 1)
      /\ \A i \in 1..n : Moved(i, k) \in 1..(n + 1)
      /\ \A i, j \in 1..n : i < j <=> Moved(i, k) < Moved(j, k)
  BY LinesMove, Zenon
<1>1. /\ \A i \in 1..n :
           i \in Chosen!Headers(short) <=> Moved(i, k) \in Chosen!Headers(long)
      /\ \A j \in Chosen!Headers(long) :
           \E i \in Chosen!Headers(short) : Moved(i, k) = j
  BY BlocksMove, Zenon
<1>2. /\ x \in Chosen!Headers(short) /\ Moved(x, k) = x
      /\ Body(long, x) = Body(short, x) \cup {long[k]}
      /\ \A i \in Chosen!Headers(short) :
           i # x => Body(long, Moved(i, k)) = Body(short, i)
  BY BodiesMove
<1>3. /\ Proper(short) /\ \A r \in Body(short, x) : r.key # "effort"
      /\ long \in Seq(Assignments) /\ short \in Seq(Assignments)
      /\ long[k].key = "effort"
  BY ProperBeside DEF WithLine
<1>4. \A i \in Chosen!Headers(short) : i \in 1..n
  BY <1>3 DEF Chosen!Headers
<1> HIDE DEF n
<1>5. ASSUME NEW i \in Chosen!Headers(short)
      PROVE  /\ Chosen!Entry(long, Moved(i, k)).provider = Chosen!Entry(short, i).provider
             /\ Chosen!Entry(long, Moved(i, k)).model = Chosen!Entry(short, i).model
             /\ i # x => Chosen!Entry(long, Moved(i, k)).effort = Chosen!Entry(short, i).effort
  <2>1. Moved(i, k) \in Chosen!Headers(long)
    BY <1>1, <1>4
  <2>2. ASSUME NEW key, key # "effort" \/ i # x
        PROVE  Chosen!KeyIn(long, Chosen!BlockLines(long, Moved(i, k)), key)
                 = Chosen!KeyIn(short, Chosen!BlockLines(short, i), key)
    <3>1. \A r : r.key = key => (r \in Body(long, Moved(i, k)) <=> r \in Body(short, i))
      BY <1>2, <1>3, <2>2
    <3> QED
      BY <1>3, <2>1, <3>1, KeysAgree
  <2> QED
    BY <2>2, EntryIs
<1>6. \A i \in Chosen!Headers(short) : Is(long, Moved(i, k), p, m) <=> Is(short, i, p, m)
  BY <1>1, <1>4, <1>5 DEF Is
<1>7. ASSUME NEW i \in Chosen!Headers(short)
      PROVE  FirstOf(long, Moved(i, k), p, m) <=> FirstOf(short, i, p, m)
  <2>1. ASSUME FirstOf(long, Moved(i, k), p, m), NEW j \in Chosen!Headers(short), j < i
        PROVE  ~Is(short, j, p, m)
    <3>1. Moved(j, k) < Moved(i, k) /\ Moved(j, k) \in Chosen!Headers(long)
      BY <1>0, <1>1, <1>4, <2>1
    <3> QED
      BY <1>6, <2>1, <3>1 DEF FirstOf
  <2>2. ASSUME FirstOf(short, i, p, m), NEW h \in Chosen!Headers(long), h < Moved(i, k)
        PROVE  ~Is(long, h, p, m)
    <3>1. PICK j \in Chosen!Headers(short) : Moved(j, k) = h
      BY <1>1
    <3>2. j < i
      BY <1>0, <1>4, <2>2, <3>1
    <3> QED
      BY <1>6, <2>2, <3>1, <3>2 DEF FirstOf
  <2> QED
    BY <1>6, <2>1, <2>2 DEF FirstOf
<1>8. FirstOf(long, x, p, m) <=> FirstOf(short, x, p, m)
  BY <1>2, <1>7
<1>9. ASSUME FirstOf(long, x, p, m)
      PROVE  Reads(long, p, m) = long[k].value /\ Reads(short, p, m) = "none"
  <2>1. Reads(long, p, m) = Chosen!Entry(long, x).effort
        /\ Reads(short, p, m) = Chosen!Entry(short, x).effort
    BY <1>3, <1>8, <1>9, ReadsFirst
  <2>2. Chosen!Entry(long, x).effort = long[k].value
    <3>1. long[k] \in Body(long, x)
      BY <1>2
    <3>2. Chosen!KeyIn(long, Chosen!BlockLines(long, x), "effort") = long[k].value
      BY <1>3, <3>1, KeyIs
    <3> QED
      BY <3>2, EntryIs
  <2>3. Chosen!Entry(short, x).effort = "none"
    <3>1. Chosen!KeyIn(short, Chosen!BlockLines(short, x), "effort") = "none"
      BY <1>2, <1>3, KeyIs
    <3> QED
      BY <3>1, EntryIs
  <2> QED
    BY <2>1, <2>2, <2>3
<1>10. ASSUME ~Is(long, x, p, m)
       PROVE  Reads(long, p, m) = Reads(short, p, m)
  <2>1. CASE \E i \in Chosen!Headers(short) : Is(short, i, p, m)
    <3>1. PICK i : FirstOf(short, i, p, m)
      BY <1>3, <2>1, FirstThere
    <3>2. i \in Chosen!Headers(short) /\ i # x
      BY <1>2, <1>6, <1>10, <3>1 DEF FirstOf, Is
    <3>3. FirstOf(long, Moved(i, k), p, m)
      BY <1>7, <3>1, <3>2
    <3>4. Reads(long, p, m) = Chosen!Entry(long, Moved(i, k)).effort
          /\ Reads(short, p, m) = Chosen!Entry(short, i).effort
      BY <1>3, <3>1, <3>3, ReadsFirst
    <3> QED
      BY <1>5, <3>2, <3>4
  <2>2. CASE \A i \in Chosen!Headers(short) : ~Is(short, i, p, m)
    <3>1. \A j \in Chosen!Headers(long) : ~Is(long, j, p, m)
      BY <1>1, <1>6, <2>2
    <3> QED
      BY <1>3, <2>2, <3>1, ReadsFirst
  <2> QED
    BY <2>1, <2>2
<1> QED
  BY <1>8, <1>9, <1>10

(* The words of a block.                                                    *)
BlockWords == {"[[", "[", "provider", "model", "effort", "none"} \subseteq Words

(* A line has its key and its value, and a header is a line.                *)
LEMMA LineIs ==
  ASSUME BlockWords, NEW key \in Words, NEW value \in Words
  PROVE  /\ Chosen!Line(key, value) \in Assignments
         /\ Chosen!Line(key, value).key = key /\ Chosen!Line(key, value).value = value
         /\ Chosen!BlockHeader \in Assignments /\ Chosen!BlockHeader.key = "[["
  BY DEF BlockWords, Assignments, Chosen!Line, Chosen!BlockHeader, Chosen!None

(* What the edit of a file leaves to be read.                               *)
SetsEffort(new, lines, p, m, e) ==
  /\ Proper(new) /\ Reads(new, p, m) = e
  /\ \A r, s : r # "none" /\ s # "none" /\ (r # p \/ s # m)
       => Reads(new, r, s) = Reads(lines, r, s)

(* A block at the end is read for its pair if no other one is.              *)
LEMMA ReadsAppended ==
  ASSUME BlockWords, NEW lines, Proper(lines), NEW p \in Words, NEW m \in Words, NEW e \in Words,
         p # "none", m # "none", \A i \in Chosen!Headers(lines) : ~Is(lines, i, p, m),
         NEW new, new = lines \o <<Chosen!BlockHeader, Chosen!Line("provider", p),
                                   Chosen!Line("model", m), Chosen!Line("effort", e)>>
  PROVE  SetsEffort(new, lines, p, m, e)
<1> DEFINE n == Len(lines)
           a == Chosen!BlockHeader    b == Chosen!Line("provider", p)
           c == Chosen!Line("model", m)  d == Chosen!Line("effort", e)
<1>1. /\ a \in Assignments /\ a.key = "[["
      /\ b \in Assignments /\ b.key = "provider" /\ b.value = p
      /\ c \in Assignments /\ c.key = "model" /\ c.value = m
      /\ d \in Assignments /\ d.key = "effort" /\ d.value = e
  BY LineIs DEF BlockWords
<1>2. lines \in Seq(Assignments) /\ n \in Nat /\ DOMAIN lines = 1..n
  BY DEF Proper
<1> HIDE DEF a, b, c, d
<1>3. /\ new \in Seq(Assignments) /\ DOMAIN new = 1..(n + 4)
      /\ \A i \in 1..n : new[i] = lines[i]
      /\ new[n + 1] = a /\ new[n + 2] = b /\ new[n + 3] = c /\ new[n + 4] = d
  <2>1. new = lines \o <<a, b, c, d>>
    BY DEF a, b, c, d
  <2> DEFINE tail == <<a, b, c, d>>
  <2>2. tail \in Seq(Assignments) /\ Len(tail) = 4
        /\ tail[1] = a /\ tail[2] = b /\ tail[3] = c /\ tail[4] = d
    BY <1>1
  <2> HIDE DEF tail
  <2>3. /\ new \in Seq(Assignments) /\ DOMAIN new = 1..(n + 4)
        /\ \A i \in 1..n : new[i] = lines[i]
        /\ \A i \in 1..4 : new[n + i] = tail[i]
    BY <1>2, <2>1, <2>2 DEF tail
  <2> QED
    BY <2>2, <2>3
<1> HIDE DEF n
<1>4. /\ Chosen!IsAnyTableHeader(new[n + 1]) /\ ~Chosen!IsAnyTableHeader(new[n + 2])
      /\ ~Chosen!IsAnyTableHeader(new[n + 3]) /\ ~Chosen!IsAnyTableHeader(new[n + 4])
  BY <1>1, <1>3, Zenon DEF Chosen!IsAnyTableHeader
<1>5. \A i \in 1..(n + 4) : i \in Chosen!Headers(new) <=> i \in Chosen!Headers(lines) \/ i = n + 1
  <2>1. b # Chosen!BlockHeader /\ c # Chosen!BlockHeader /\ d # Chosen!BlockHeader
    BY <1>1 DEF a
  <2> SUFFICES ASSUME NEW i \in 1..(n + 4)
               PROVE  i \in Chosen!Headers(new) <=> i \in Chosen!Headers(lines) \/ i = n + 1
    BY Zenon
  <2>2. CASE i \in 1..n
    BY <1>2, <1>3, <2>2 DEF Chosen!Headers
  <2>3. CASE i = n + 1
    BY <1>2, <1>3, <2>3 DEF Chosen!Headers, a
  <2>4. CASE i \in {n + 2, n + 3, n + 4}
    <3>1. new[i] # Chosen!BlockHeader
      BY <1>3, <2>1, <2>4, Zenon
    <3>2. i \notin 1..n /\ i # n + 1
      BY <1>2, <2>4
    <3> QED
      BY <1>2, <1>3, <3>1, <3>2 DEF Chosen!Headers
  <2> QED
    BY <1>2, <2>2, <2>3, <2>4
<1>6. /\ Chosen!Headers(lines) \subseteq 1..n /\ Chosen!Headers(new) \subseteq 1..(n + 4)
  BY <1>2, <1>3 DEF Chosen!Headers
<1>7. ASSUME NEW i \in Chosen!Headers(lines)
      PROVE  Chosen!BlockLines(new, i) = Chosen!BlockLines(lines, i)
  <2>1. i \in 1..n
    BY <1>6
  <2>2. ASSUME NEW j \in Chosen!BlockLines(new, i)
        PROVE  j \in Chosen!BlockLines(lines, i)
    <3>1. j \in 1..(n + 4) /\ j > i /\ \A l \in (i + 1)..j : ~Chosen!IsAnyTableHeader(new[l])
      BY <1>3, Zenon DEF Chosen!BlockLines
    <3>2. n + 1 \notin (i + 1)..j
      BY <1>4, <3>1, Zenon
    <3>3. j \in 1..n
      BY <1>2, <2>1, <3>1, <3>2
    <3>4. \A l \in (i + 1)..j : new[l] = lines[l]
      BY <1>2, <1>3, <2>1, <3>3
    <3> QED
      BY <1>2, <3>1, <3>3, <3>4, Zenon DEF Chosen!BlockLines
  <2>3. ASSUME NEW j \in Chosen!BlockLines(lines, i)
        PROVE  j \in Chosen!BlockLines(new, i)
    <3>1. j \in 1..n /\ j > i /\ \A l \in (i + 1)..j : ~Chosen!IsAnyTableHeader(lines[l])
      BY <1>2 DEF Chosen!BlockLines
    <3>2. \A l \in (i + 1)..j : new[l] = lines[l]
      BY <1>2, <1>3, <2>1, <3>1
    <3>3. j \in DOMAIN new
      BY <1>2, <1>3, <3>1
    <3> QED
      BY <3>1, <3>2, <3>3, Zenon DEF Chosen!BlockLines
  <2> QED
    BY <2>2, <2>3, Zenon
<1>8. Chosen!BlockLines(new, n + 1) = {n + 2, n + 3, n + 4}
  <2>1. \A j \in 1..(n + 4) : j > n + 1 <=> j \in {n + 2, n + 3, n + 4}
    BY <1>2
  <2>2. \A j \in {n + 2, n + 3, n + 4} : \A l \in ((n + 1) + 1)..j : l \in {n + 2, n + 3, n + 4}
    BY <1>2
  <2>3. \A l \in {n + 2, n + 3, n + 4} : ~Chosen!IsAnyTableHeader(new[l])
    BY <1>4, Zenon
  <2>4. ASSUME NEW j \in Chosen!BlockLines(new, n + 1)
        PROVE  j \in {n + 2, n + 3, n + 4}
    BY <1>3, <2>1, Zenon DEF Chosen!BlockLines
  <2>5. ASSUME NEW j \in {n + 2, n + 3, n + 4}
        PROVE  j \in Chosen!BlockLines(new, n + 1)
    <3>1. j \in 1..(n + 4) /\ j > n + 1
      BY <1>2, <2>5
    <3>2. \A l \in ((n + 1) + 1)..j : ~Chosen!IsAnyTableHeader(new[l])
      BY <2>2, <2>3, <2>5, Zenon
    <3> QED
      BY <1>3, <3>1, <3>2, Zenon DEF Chosen!BlockLines
  <2> QED
    BY <2>4, <2>5, Zenon
<1>9. Body(new, n + 1) = {b, c, d}
  <2>1. Body(new, n + 1) = {new[j] : j \in {n + 2, n + 3, n + 4}}
    BY <1>8, Zenon DEF Body
  <2>2. {new[j] : j \in {n + 2, n + 3, n + 4}} = {new[n + 2], new[n + 3], new[n + 4]}
    OBVIOUS
  <2> QED
    BY <1>3, <2>1, <2>2, Zenon
<1>10. \A i \in Chosen!Headers(lines) : Body(new, i) = Body(lines, i)
  <2> SUFFICES ASSUME NEW i \in Chosen!Headers(lines) PROVE Body(new, i) = Body(lines, i)
    OBVIOUS
  <2>1. \A j \in Chosen!BlockLines(lines, i) : new[j] = lines[j]
    BY <1>2, <1>3 DEF Chosen!BlockLines
  <2> QED
    BY <1>7, <2>1, Zenon DEF Body
<1>11. Proper(new)
  <2> SUFFICES ASSUME NEW i \in Chosen!Headers(new), NEW j \in Chosen!BlockLines(new, i),
                      NEW k \in Chosen!BlockLines(new, i), new[j].key = new[k].key
               PROVE  j = k
    BY <1>3, Zenon DEF Proper
  <2>1. CASE i \in Chosen!Headers(lines)
    <3>1. new[j] = lines[j] /\ new[k] = lines[k]
      BY <1>2, <1>3, <1>7, <2>1, Zenon DEF Chosen!BlockLines
    <3> QED
      BY <1>7, <2>1, <3>1, Zenon DEF Proper
  <2>2. CASE i = n + 1
    <3>1. j \in {n + 2, n + 3, n + 4} /\ k \in {n + 2, n + 3, n + 4}
      BY <1>8, <2>2, Zenon
    <3>2. /\ new[n + 2].key = "provider" /\ new[n + 3].key = "model"
          /\ new[n + 4].key = "effort"
      BY <1>1, <1>3, Zenon
    <3>3. CASE j = n + 2
      <4>1. k # n + 3 /\ k # n + 4
        BY <3>2, <3>3, Zenon
      <4> QED
        BY <3>1, <3>3, <4>1
    <3>4. CASE j = n + 3
      <4>1. k # n + 2 /\ k # n + 4
        BY <3>2, <3>4, Zenon
      <4> QED
        BY <3>1, <3>4, <4>1
    <3>5. CASE j = n + 4
      <4>1. k # n + 2 /\ k # n + 3
        BY <3>2, <3>5, Zenon
      <4> QED
        BY <3>1, <3>5, <4>1
    <3> QED
      BY <3>1, <3>3, <3>4, <3>5
  <2> QED
    BY <1>5, <1>6, <2>1, <2>2, Zenon
<1>12. n + 1 \in Chosen!Headers(new) /\ \A i \in Chosen!Headers(lines) : i \in Chosen!Headers(new)
  <2>1. n + 1 \in 1..(n + 4) /\ \A i \in 1..n : i \in 1..(n + 4)
    BY <1>2
  <2> QED
    BY <1>5, <1>6, <2>1, Zenon
<1>13. /\ Chosen!Entry(new, n + 1).provider = p /\ Chosen!Entry(new, n + 1).model = m
       /\ Chosen!Entry(new, n + 1).effort = e
  <2>1. /\ Chosen!KeyIn(new, Chosen!BlockLines(new, n + 1), "provider") = p
        /\ Chosen!KeyIn(new, Chosen!BlockLines(new, n + 1), "model") = m
        /\ Chosen!KeyIn(new, Chosen!BlockLines(new, n + 1), "effort") = e
    <3>1. ASSUME NEW key, NEW x \in Body(new, n + 1), x.key = key
          PROVE  Chosen!KeyIn(new, Chosen!BlockLines(new, n + 1), key) = x.value
      BY <1>11, <1>12, <3>1, KeyIs
    <3>2. b \in Body(new, n + 1) /\ c \in Body(new, n + 1) /\ d \in Body(new, n + 1)
      BY <1>9, Zenon
    <3> QED
      BY <1>1, <3>1, <3>2, Zenon
  <2> QED
    BY <2>1, EntryIs
<1>14. ASSUME NEW i \in Chosen!Headers(lines)
       PROVE  /\ Chosen!Entry(new, i).provider = Chosen!Entry(lines, i).provider
              /\ Chosen!Entry(new, i).model = Chosen!Entry(lines, i).model
              /\ Chosen!Entry(new, i).effort = Chosen!Entry(lines, i).effort
  <2>1. \A key : Chosen!KeyIn(new, Chosen!BlockLines(new, i), key)
                   = Chosen!KeyIn(lines, Chosen!BlockLines(lines, i), key)
    <3> SUFFICES ASSUME NEW key
                 PROVE  Chosen!KeyIn(new, Chosen!BlockLines(new, i), key)
                          = Chosen!KeyIn(lines, Chosen!BlockLines(lines, i), key)
      BY Zenon
    <3>1. Body(new, i) = Body(lines, i) /\ i \in Chosen!Headers(new)
      BY <1>10, <1>12, Zenon
    <3>2. \A r : r.key = key => (r \in Body(new, i) <=> r \in Body(lines, i))
      BY <3>1
    <3> QED
      BY <1>11, <3>1, <3>2, KeysAgree
  <2> DEFINE here == Chosen!Entry(new, i)  there == Chosen!Entry(lines, i)
  <2>2. /\ here.provider = Chosen!KeyIn(new, Chosen!BlockLines(new, i), "provider")
        /\ here.model = Chosen!KeyIn(new, Chosen!BlockLines(new, i), "model")
        /\ here.effort = Chosen!KeyIn(new, Chosen!BlockLines(new, i), "effort")
    BY EntryIs
  <2>3. /\ there.provider = Chosen!KeyIn(lines, Chosen!BlockLines(lines, i), "provider")
        /\ there.model = Chosen!KeyIn(lines, Chosen!BlockLines(lines, i), "model")
        /\ there.effort = Chosen!KeyIn(lines, Chosen!BlockLines(lines, i), "effort")
    BY EntryIs
  <2> HIDE DEF here, there
  <2>4. /\ here.provider = there.provider /\ here.model = there.model
        /\ here.effort = there.effort
    BY <2>1, <2>2, <2>3, Zenon
  <2> QED
    BY <2>4, Zenon DEF here, there
<1>15. \A i \in Chosen!Headers(lines) : \A r, s : Is(new, i, r, s) <=> Is(lines, i, r, s)
  BY <1>12, <1>14, Zenon DEF Is
<1>16. \A i \in Chosen!Headers(new) : i \in Chosen!Headers(lines) \/ i = n + 1
  BY <1>5, <1>6, Zenon
<1>17. FirstOf(new, n + 1, p, m)
  <2>1. ASSUME NEW j \in Chosen!Headers(new), j < n + 1
        PROVE  j \in Chosen!Headers(lines)
    <3>1. j # n + 1
      BY <1>2, <2>1
    <3> QED
      BY <1>16, <3>1, Zenon
  <2>2. Is(new, n + 1, p, m)
    BY <1>12, <1>13, Zenon DEF Is
  <2>3. ASSUME NEW j \in Chosen!Headers(lines) PROVE ~Is(new, j, p, m)
    BY <1>15, <2>3, Zenon DEF Is
  <2> QED
    BY <2>1, <2>2, <2>3, Zenon DEF FirstOf
<1>18. Reads(new, p, m) = e
  <2>1. Reads(new, p, m) = Chosen!Entry(new, n + 1).effort
    <3>1. new \in Seq(Assignments)
      BY <1>3, Zenon
    <3> QED
      BY <1>17, <3>1, ReadsAt
  <2> QED
    BY <1>13, <2>1, Zenon
<1>19. ASSUME NEW r, NEW s, r # "none", s # "none", r # p \/ s # m
       PROVE  Reads(new, r, s) = Reads(lines, r, s)
  <2>1. ~Is(new, n + 1, r, s)
    BY <1>13, <1>19 DEF Is
  <2>2. CASE \E i \in Chosen!Headers(lines) : Is(lines, i, r, s)
    <3>1. PICK i : FirstOf(lines, i, r, s)
      BY <1>2, <2>2, FirstThere
    <3>2. i \in Chosen!Headers(lines)
      BY <3>1 DEF FirstOf, Is
    <3>3. FirstOf(new, i, r, s)
      BY <1>15, <1>16, <2>1, <3>1, <3>2, Zenon DEF FirstOf
    <3>4. Reads(new, r, s) = Chosen!Entry(new, i).effort
      <4>1. new \in Seq(Assignments)
        BY <1>3, Zenon
      <4> QED
        BY <1>19, <3>3, <4>1, ReadsAt
    <3>5. Reads(lines, r, s) = Chosen!Entry(lines, i).effort
      BY <1>2, <1>19, <3>1, ReadsAt
    <3> QED
      BY <1>14, <3>2, <3>4, <3>5, Zenon
  <2>3. CASE \A i \in Chosen!Headers(lines) : ~Is(lines, i, r, s)
    <3>1. \A i \in Chosen!Headers(new) : ~Is(new, i, r, s)
      BY <1>15, <1>16, <2>1, <2>3, Zenon
    <3> QED
      BY <1>2, <1>3, <1>19, <2>3, <3>1, ReadsFirst, Zenon
  <2> QED
    BY <2>2, <2>3
<1> QED
  BY <1>11, <1>18, <1>19, Zenon DEF SetsEffort

(* Two sequences, one behind the other.                                     *)
LEMMA TwoParts ==
  ASSUME NEW X, NEW a \in Seq(X), NEW b \in Seq(X)
  PROVE  /\ a \o b \in Seq(X) /\ Len(a \o b) = Len(a) + Len(b)
         /\ \A i \in 1..Len(a) : (a \o b)[i] = a[i]
         /\ \A i \in 1..Len(b) : (a \o b)[Len(a) + i] = b[i]
OBVIOUS

(* A line taken out or put in.                                              *)
LEMMA LineTakenOut ==
  ASSUME NEW lines \in Seq(Assignments), NEW k \in DOMAIN lines, lines[k].key = "effort",
         NEW short, short = Chosen!RemoveAt(lines, k)
  PROVE  WithLine(lines, short, k)
<1> DEFINE n == Len(lines)
<1>1. n \in Nat /\ k \in 1..n
  OBVIOUS
<1>2. short = SubSeq(lines, 1, k - 1) \o SubSeq(lines, k + 1, n)
  BY DEF Chosen!RemoveAt
<1>3. /\ SubSeq(lines, 1, k - 1) \in Seq(Assignments) /\ Len(SubSeq(lines, 1, k - 1)) = k - 1
      /\ \A i \in 1..(k - 1) : SubSeq(lines, 1, k - 1)[i] = lines[i]
  BY <1>1
<1>4. /\ SubSeq(lines, k + 1, n) \in Seq(Assignments) /\ Len(SubSeq(lines, k + 1, n)) = n - k
      /\ \A i \in 1..(n - k) : SubSeq(lines, k + 1, n)[i] = lines[k + i]
  <2>1. /\ SubSeq(lines, k + 1, n) \in Seq(Assignments) /\ Len(SubSeq(lines, k + 1, n)) = n - k
        /\ \A i \in 1..(n - k) : SubSeq(lines, k + 1, n)[i] = lines[(k + 1) + i - 1]
    BY <1>1
  <2> HIDE DEF n
  <2>2. \A i \in 1..(n - k) : (k + 1) + i - 1 = k + i
    BY <1>1
  <2> QED
    BY <2>1, <2>2, Zenon
<1> DEFINE a == SubSeq(lines, 1, k - 1)  b == SubSeq(lines, k + 1, n)
<1> HIDE DEF a, b, n
<1>5. /\ a \in Seq(Assignments) /\ Len(a) = k - 1 /\ \A i \in 1..(k - 1) : a[i] = lines[i]
      /\ b \in Seq(Assignments) /\ Len(b) = n - k /\ \A i \in 1..(n - k) : b[i] = lines[k + i]
      /\ short = a \o b
  BY <1>2, <1>3, <1>4, Zenon DEF a, b
<1>6. /\ short \in Seq(Assignments) /\ Len(short) = (k - 1) + (n - k)
      /\ \A i \in 1..(k - 1) : short[i] = lines[i]
  <2>1. /\ a \o b \in Seq(Assignments) /\ Len(a \o b) = Len(a) + Len(b)
        /\ \A i \in 1..Len(a) : (a \o b)[i] = a[i]
    <3>1. a \in Seq(Assignments) /\ b \in Seq(Assignments)
      BY <1>5
    <3> QED
      BY <3>1, TwoParts, Zenon
  <2> QED
    BY <1>5, <2>1, Zenon
<1>7. \A i \in 1..(n - k) : short[(k - 1) + i] = lines[k + i]
  <2>1. \A i \in 1..Len(b) : (a \o b)[Len(a) + i] = b[i]
    <3>1. a \in Seq(Assignments) /\ b \in Seq(Assignments)
      BY <1>5, Zenon
    <3> QED
      BY <3>1, BehindOneAnother, Zenon
  <2> QED
    BY <1>5, <2>1, Zenon
<1>8. Len(short) = n - 1
  BY <1>1, <1>6
<1>9. ASSUME NEW i \in k..Len(short)
      PROVE  lines[i + 1] = short[i]
  <2>1. i - (k - 1) \in 1..(n - k)
    BY <1>1, <1>8
  <2>2. (k - 1) + (i - (k - 1)) = i /\ k + (i - (k - 1)) = i + 1
    BY <1>1, <1>8
  <2>3. short[(k - 1) + (i - (k - 1))] = lines[k + (i - (k - 1))]
    BY <1>7, <2>1
  <2> QED
    BY <2>2, <2>3, Zenon
<1>10. Len(lines) = Len(short) + 1 /\ k \in 1..Len(lines)
  BY <1>1, <1>8 DEF n
<1> QED
  BY <1>6, <1>9, <1>10 DEF WithLine

(* InsertAt puts one line in.                                               *)
LEMMA LinePutIn ==
  ASSUME NEW lines \in Seq(Assignments), NEW k \in 1..(Len(lines) + 1),
         NEW line \in Assignments, line.key = "effort",
         NEW long, long = Chosen!InsertAt(lines, k, line)
  PROVE  WithLine(long, lines, k) /\ long[k] = line
<1> DEFINE n == Len(lines)
<1>1. n \in Nat /\ k \in 1..(n + 1)
  OBVIOUS
<1>2. long = (SubSeq(lines, 1, k - 1) \o <<line>>) \o SubSeq(lines, k, n)
  BY DEF Chosen!InsertAt
<1> DEFINE a == SubSeq(lines, 1, k - 1)  b == SubSeq(lines, k, n)  c == a \o <<line>>
<1>3. a \in Seq(Assignments) /\ Len(a) = k - 1 /\ \A i \in 1..(k - 1) : a[i] = lines[i]
  BY <1>1
<1>4. /\ b \in Seq(Assignments) /\ Len(b) = n - k + 1
      /\ \A i \in 1..(n - k + 1) : b[i] = lines[k + i - 1]
  BY <1>1
<1> HIDE DEF a, b, n
<1>5. /\ c \in Seq(Assignments) /\ Len(c) = k /\ \A i \in 1..(k - 1) : c[i] = lines[i]
      /\ c[k] = line
  BY <1>1, <1>3
<1> HIDE DEF c
<1>6. long = c \o b
  BY <1>2 DEF a, b, c
<1>7. /\ long \in Seq(Assignments) /\ Len(long) = k + (n - k + 1)
      /\ \A i \in 1..k : long[i] = c[i]
  <2>1. /\ c \o b \in Seq(Assignments) /\ Len(c \o b) = Len(c) + Len(b)
        /\ \A i \in 1..Len(c) : (c \o b)[i] = c[i]
    <3>1. c \in Seq(Assignments) /\ b \in Seq(Assignments)
      BY <1>4, <1>5
    <3> QED
      BY <3>1, TwoParts, Zenon
  <2> QED
    BY <1>4, <1>5, <1>6, <2>1, Zenon
<1>8. \A i \in 1..(n - k + 1) : long[k + i] = lines[k + i - 1]
  <2>1. \A i \in 1..Len(b) : (c \o b)[Len(c) + i] = b[i]
    <3>1. c \in Seq(Assignments) /\ b \in Seq(Assignments)
      BY <1>4, <1>5
    <3> QED
      BY <3>1, BehindOneAnother, Zenon
  <2>2. Len(c) = k /\ Len(b) = n - k + 1
    BY <1>4, <1>5, Zenon
  <2>3. \A i \in 1..(n - k + 1) : long[k + i] = b[i]
    BY <1>6, <2>1, <2>2, Zenon
  <2> QED
    BY <1>4, <2>3, Zenon
<1>9. Len(long) = n + 1 /\ k \in 1..Len(long) /\ long[k] = line
      /\ \A i \in 1..(k - 1) : long[i] = lines[i]
  BY <1>1, <1>5, <1>7
<1>10. ASSUME NEW i \in k..n
       PROVE  long[i + 1] = lines[i]
  <2>1. i - k + 1 \in 1..(n - k + 1) /\ k + (i - k + 1) = i + 1 /\ k + (i - k + 1) - 1 = i
    BY <1>1
  <2>2. long[k + (i - k + 1)] = lines[k + (i - k + 1) - 1]
    BY <1>8, <2>1
  <2> QED
    BY <2>1, <2>2, Zenon
<1> QED
  BY <1>7, <1>9, <1>10 DEF WithLine, n

(* A line put into the first block of the pair, or taken out of it.         *)
LEMMA SetBeside ==
  ASSUME NEW long, NEW short, NEW k, WithLine(long, short, k),
         NEW x \in Chosen!Headers(long), k \in Chosen!BlockLines(long, x), Proper(long),
         NEW p, NEW m, p # "none", m # "none",
         FirstOf(long, x, p, m) \/ FirstOf(short, x, p, m)
  PROVE  SetsEffort(long, short, p, m, long[k].value) /\ SetsEffort(short, long, p, m, "none")
<1>1. Proper(short)
  BY ProperBeside
<1>2. FirstOf(long, x, p, m) /\ Reads(long, p, m) = long[k].value /\ Reads(short, p, m) = "none"
  BY ReadsBeside
<1>3. ASSUME NEW r, NEW s, r # "none", s # "none", r # p \/ s # m
      PROVE  Reads(long, r, s) = Reads(short, r, s)
  <2>1. ~Is(long, x, r, s)
    BY <1>2, <1>3 DEF FirstOf, Is
  <2> QED
    BY <1>3, <2>1, ReadsBeside
<1> QED
  BY <1>1, <1>2, <1>3, Zenon DEF SetsEffort

(* SaveProviderModelEffortToSettingsToml sets the effort of its pair and of *)
(* no other pair: where a block of the pair has an effort that line is      *)
(* replaced or taken out, where it has none a line is put in after its model,*)
(* and where no block is of the pair one comes at the end.                  *)
LEMMA EditSets ==
  ASSUME BlockWords, NEW lines, Proper(lines), NEW p \in Words, NEW m \in Words, NEW e \in Words,
         p # "none", m # "none",
         NEW new, new = Chosen!WithProviderModelEffort(lines, p, m, e)
  PROVE  SetsEffort(new, lines, p, m, e)
<1> DEFINE matching == {i \in Chosen!Headers(lines) : /\ Chosen!Entry(lines, i).provider = p
                                                      /\ Chosen!Entry(lines, i).model = m}
           x == Chosen!First(matching)
           within == Chosen!BlockLines(lines, x)
           efforts == {j \in within : lines[j].key = "effort"}
           models == {j \in within : lines[j].key = "model"}
           line == Chosen!Line("effort", e)
<1>1. new = IF matching = {}
            THEN IF e = "none" THEN lines
                 ELSE lines \o <<Chosen!BlockHeader, Chosen!Line("provider", p),
                                 Chosen!Line("model", m), line>>
            ELSE IF efforts # {}
            THEN IF e = "none" THEN Chosen!RemoveAt(lines, Chosen!First(efforts))
                 ELSE [lines EXCEPT ![Chosen!First(efforts)] = line]
            ELSE IF e = "none" THEN lines
                 ELSE Chosen!InsertAt(lines, Chosen!First(models) + 1, line)
  BY Zenon DEF Chosen!WithProviderModelEffort, Chosen!FindModelSettingsBlock, Chosen!None
<1>2. lines \in Seq(Assignments) /\ Len(lines) \in Nat /\ DOMAIN lines = 1..Len(lines)
  BY DEF Proper
<1>3. line \in Assignments /\ line.key = "effort" /\ line.value = e
  BY LineIs DEF BlockWords
<1>4. \A i : i \in matching <=> Is(lines, i, p, m)
  BY DEF Is
<1> HIDE DEF line
<1>5. CASE matching = {}
  <2>1. \A i \in Chosen!Headers(lines) : ~Is(lines, i, p, m)
    BY <1>4, <1>5
  <2>2. CASE e = "none"
    <3>1. new = lines
      BY <1>1, <1>5, <2>2, Zenon
    <3>2. Reads(lines, p, m) = "none"
      BY <1>2, <2>1, ReadsFirst
    <3> QED
      BY <2>2, <3>1, <3>2, Zenon DEF SetsEffort
  <2>3. CASE e # "none"
    <3>1. new = lines \o <<Chosen!BlockHeader, Chosen!Line("provider", p),
                           Chosen!Line("model", m), Chosen!Line("effort", e)>>
      BY <1>1, <1>5, <2>3, Zenon DEF line
    <3> QED
      BY <2>1, <3>1, ReadsAppended, Zenon
  <2> QED
    BY <2>2, <2>3
<1>6. CASE matching # {}
  <2>1. x \in Chosen!Headers(lines) /\ FirstOf(lines, x, p, m)
    <3>1. PICK i : FirstOf(lines, i, p, m)
      BY <1>2, <1>4, <1>6, FirstThere
    <3>2. matching \subseteq Nat
      BY <1>2 DEF Chosen!Headers
    <3>3. i \in matching /\ \A j \in matching : i <= j
      <4>1. i \in matching
        BY <1>4, <3>1 DEF FirstOf
      <4>2. ASSUME NEW j \in matching, j < i PROVE FALSE
        BY <1>4, <3>1, <4>2 DEF FirstOf, Is
      <4> QED
        BY <3>2, <4>1, <4>2
    <3> HIDE DEF matching
    <3>4. \A y \in matching : (\A j \in matching : y <= j) => y = i
      BY <3>2, <3>3
    <3>5. x = i
      BY <3>3, <3>4 DEF Chosen!First
    <3> QED
      BY <3>1, <3>5 DEF FirstOf, Is
  <2> HIDE DEF x
  <2>2. \A j, k \in within : lines[j].key = lines[k].key => j = k
    BY <2>1 DEF Proper
  <2>3. within \subseteq 1..Len(lines)
    BY <1>2 DEF Chosen!BlockLines
  <2> HIDE DEF within, matching
  <2>4. CASE efforts # {}
    <3> DEFINE k == Chosen!First(efforts)
    <3>1. k \in efforts
      <4>1. PICK j : j \in efforts
        BY <2>4
      <4>2. \A i \in efforts : i = j
        BY <2>2, <4>1
      <4>3. j \in Nat
        BY <2>3, <4>1
      <4> HIDE DEF efforts
      <4>4. j \in efforts /\ \A i \in efforts : j <= i
        BY <4>1, <4>2, <4>3
      <4> QED
        BY <4>4 DEF Chosen!First
    <3> DEFINE short == Chosen!RemoveAt(lines, k)
    <3>2. k \in 1..Len(lines) /\ k \in within /\ lines[k].key = "effort"
      BY <2>3, <3>1, Zenon
    <3> HIDE DEF efforts, k
    <3>3. WithLine(lines, short, k)
      BY <1>2, <3>2, LineTakenOut
    <3> HIDE DEF short
    <3>4. SetsEffort(short, lines, p, m, "none")
      BY <2>1, <3>2, <3>3, SetBeside DEF within
    <3>5. CASE e = "none"
      <4>1. new = short
        BY <1>1, <1>6, <2>4, <3>5, Zenon DEF short, k
      <4> QED
        BY <3>4, <3>5, <4>1
    <3>6. CASE e # "none"
      <4>1. new = [lines EXCEPT ![k] = line]
        BY <1>1, <1>6, <2>4, <3>6, Zenon DEF k
      <4>2. new \in Seq(Assignments) /\ Len(new) = Len(lines) /\ new[k] = line
            /\ \A i \in 1..Len(lines) : i # k => new[i] = lines[i]
        BY <1>2, <1>3, <3>2, <4>1
      <4>3. WithLine(new, short, k)
        <5>1. /\ short \in Seq(Assignments) /\ Len(lines) = Len(short) + 1
              /\ \A i \in 1..(k - 1) : lines[i] = short[i]
              /\ \A i \in k..Len(short) : lines[i + 1] = short[i]
          BY <3>3, Zenon DEF WithLine
        <5>2. ASSUME NEW i \in 1..(k - 1) PROVE new[i] = short[i]
          <6>1. i \in 1..Len(lines) /\ i # k
            BY <3>2
          <6> QED
            BY <4>2, <5>1, <6>1, Zenon
        <5>3. ASSUME NEW i \in k..Len(short) PROVE new[i + 1] = short[i]
          <6>1. i + 1 \in 1..Len(lines) /\ i + 1 # k
            BY <3>2, <5>1
          <6> QED
            BY <4>2, <5>1, <6>1, Zenon
        <5> QED
          BY <1>3, <3>2, <4>2, <5>1, <5>2, <5>3, Zenon DEF WithLine
      <4>4. \A i \in 1..Len(lines) :
              Chosen!IsAnyTableHeader(new[i]) <=> Chosen!IsAnyTableHeader(lines[i])
        BY <1>3, <3>2, <4>2 DEF Chosen!IsAnyTableHeader
      <4>5. x \in Chosen!Headers(new) /\ k \in Chosen!BlockLines(new, x)
        <5>1. DOMAIN new = 1..Len(lines)
          BY <4>2
        <5>2. /\ x \in 1..Len(lines) /\ lines[x] = Chosen!BlockHeader
              /\ k > x /\ \A l \in (x + 1)..k : ~Chosen!IsAnyTableHeader(lines[l])
          BY <1>2, <2>1, <3>2 DEF Chosen!Headers, Chosen!BlockLines, within
        <5>3. x # k /\ new[x] = lines[x] /\ \A l \in (x + 1)..k : l \in 1..Len(lines)
          BY <1>2, <3>2, <4>2, <5>2
        <5> QED
          BY <3>2, <4>4, <5>1, <5>2, <5>3 DEF Chosen!Headers, Chosen!BlockLines
      <4>6. FirstOf(short, x, p, m)
        BY <2>1, <3>2, <3>3, ReadsBeside DEF within
      <4>7. Proper(new)
        <5>1. Proper(short) /\ \A r \in Body(short, x) : r.key # "effort"
          BY <2>1, <3>2, <3>3, ProperBeside DEF within
        <5> QED
          BY <4>3, <4>5, <5>1, ProperBeside
      <4>8. SetsEffort(new, short, p, m, e)
        BY <1>3, <4>2, <4>3, <4>5, <4>6, <4>7, SetBeside
      <4> QED
        BY <3>4, <4>8, Zenon DEF SetsEffort
    <3> QED
      BY <3>5, <3>6
  <2>5. CASE efforts = {}
    <3>1. \A r \in Body(lines, x) : r.key # "effort"
      BY <2>5 DEF Body, within
    <3>2. CASE e = "none"
      <4>1. new = lines
        BY <1>1, <1>6, <2>5, <3>2, Zenon
      <4>2. Chosen!KeyIn(lines, Chosen!BlockLines(lines, x), "effort") = "none"
        BY <2>1, <3>1, KeyIs
      <4>3. Reads(lines, p, m) = Chosen!Entry(lines, x).effort
        BY <1>2, <2>1, ReadsFirst
      <4>4. Reads(lines, p, m) = "none"
        BY <4>2, <4>3, EntryIs
      <4> QED
        BY <3>2, <4>1, <4>4, Zenon DEF SetsEffort
    <3>3. CASE e # "none"
      <4> DEFINE j == Chosen!First(models)  k == j + 1
      <4>1. j \in models
        <5>1. PICK i : i \in models
          <6>1. Chosen!KeyIn(lines, Chosen!BlockLines(lines, x), "model") = m
            BY <2>1, EntryIs DEF FirstOf, Is
          <6>2. ~(\A r \in Body(lines, x) : r.key # "model")
            BY <2>1, <6>1, KeyIs
          <6> QED
            BY <6>2 DEF Body, within
        <5>2. \A l \in models : l = i
          BY <2>2, <5>1
        <5>3. i \in Nat
          BY <2>3, <5>1
        <5> HIDE DEF models
        <5>4. i \in models /\ \A l \in models : i <= l
          BY <5>1, <5>2, <5>3
        <5> QED
          BY <5>4 DEF Chosen!First
      <4>2. j \in 1..Len(lines) /\ j \in within
        BY <2>3, <4>1, Zenon
      <4>3. new = Chosen!InsertAt(lines, k, line)
        BY <1>1, <1>6, <2>5, <3>3, Zenon
      <4> HIDE DEF j, models, efforts
      <4>4. k \in 1..(Len(lines) + 1)
        BY <1>2, <4>2
      <4>5. WithLine(new, lines, k) /\ new[k] = line
        BY <1>2, <1>3, <4>3, <4>4, LinePutIn
      <4>6. x \in Chosen!Headers(new) /\ k \in Chosen!BlockLines(new, x)
        <5>1. /\ x \in 1..Len(lines) /\ j > x
          BY <1>2, <2>1, <4>2 DEF Chosen!Headers, Chosen!BlockLines, within
        <5>2. Moved(x, k) = x /\ Moved(j, k) = j
          BY <1>2, <4>2, <5>1 DEF Moved
        <5>3. x \in Chosen!Headers(new) /\ j \in Chosen!BlockLines(new, x)
          <6>1. /\ x \in Chosen!Headers(lines) <=> Moved(x, k) \in Chosen!Headers(new)
                /\ j \in Chosen!BlockLines(lines, x)
                     <=> Moved(j, k) \in Chosen!BlockLines(new, Moved(x, k))
            BY <4>2, <4>5, <5>1, BlocksMove
          <6> QED
            BY <2>1, <4>2, <5>2, <6>1 DEF within
        <5>4. \A l \in (x + 1)..k : ~Chosen!IsAnyTableHeader(new[l])
          <6>1. \A l \in (x + 1)..j : ~Chosen!IsAnyTableHeader(new[l])
            BY <5>3 DEF Chosen!BlockLines
          <6>2. ~Chosen!IsAnyTableHeader(new[k])
            BY <1>3, <4>5 DEF Chosen!IsAnyTableHeader
          <6>3. \A l \in (x + 1)..k : l \in (x + 1)..j \/ l = k
            BY <4>2, <5>1
          <6> QED
            BY <6>1, <6>2, <6>3
        <5>5. k \in DOMAIN new /\ k > x
          BY <4>2, <4>5, <5>1 DEF WithLine
        <5> QED
          BY <5>3, <5>4, <5>5 DEF Chosen!BlockLines
      <4>7. Proper(new)
        BY <3>1, <4>5, <4>6, ProperBeside
      <4>8. SetsEffort(new, lines, p, m, new[k].value)
        BY <2>1, <4>5, <4>6, <4>7, SetBeside
      <4> QED
        BY <1>3, <4>5, <4>8
    <3> QED
      BY <3>2, <3>3
  <2> QED
    BY <2>4, <2>5
<1> QED
  BY <1>5, <1>6

(* A file of the user's has a key once in a block, as TOML wants it, and no *)
(* model and no effort is called like the absence of one.                   *)
EffortParameters ==
  /\ BlockWords /\ Chosen!Providers \subseteq Words /\ Models \subseteq Words
  /\ Efforts \subseteq Words
  /\ "none" \notin Models /\ "none" \notin Efforts /\ "unset" \notin Efforts
  /\ \A f \in FilesOfUser : DOMAIN f = {"id", "model", "lines"} /\ Proper(f.lines)

(* What the user was told is what is read.                                  *)
Agrees(lines, t) ==
  \A q \in Chosen!Pairs : t[q] # "none" =>
    Reads(lines, q[1], q[2]) = IF t[q] = "unset" THEN "none" ELSE t[q]

AsTold(e) == IF e = "none" THEN "unset" ELSE e

(* The file is about to be written with an effort, and may be truncated.    *)
WriteAhead(f, e) ==
  /\ saving = <<Chosen!Write("file", f), Chosen!Write("effort", e)>>
  /\ e \in Efforts \cup {"none"}
  /\ config.running /\ Chosen!ActivePair \in Chosen!Pairs
  /\ DOMAIN f = {"id", "model", "lines"} /\ Proper(f.lines)
  /\ Agrees(f.lines, [told EXCEPT ![Chosen!ActivePair] = AsTold(e)])
  /\ file = Chosen!EmptyFile \/ Agrees(file.lines, told)

(* No write of the file is ahead.                                           *)
NoFileAhead ==
  \/ saving = <<>>
  \/ \E a : saving = <<a>> /\ a.what # "file"
  \/ \E a, b : saving = <<a, b>> /\ a.what # "file" /\ b.what # "file"
  \/ \E a, b, c : saving = <<a, b, c>> /\ a.what # "file" /\ b.what # "file" /\ c.what # "file"

EffortInv ==
  /\ DOMAIN file = {"id", "model", "lines"} /\ Proper(file.lines)
  /\ told \in [Chosen!Pairs -> Efforts \cup {"none", "unset"}]
  /\ \/ NoFileAhead /\ Agrees(file.lines, told)
     \/ \E f, e : WriteAhead(f, e)

(* The truncated file has no block.                                         *)
LEMMA EmptyFileProper ==
  DOMAIN Chosen!EmptyFile = {"id", "model", "lines"} /\ Proper(Chosen!EmptyFile.lines)
<1>1. DOMAIN Chosen!EmptyFile = {"id", "model", "lines"} /\ Chosen!EmptyFile.lines = <<>>
  BY DEF Chosen!EmptyFile
<1>2. <<>> \in Seq(Assignments) /\ \A i : i \notin DOMAIN <<>>
  OBVIOUS
<1> QED
  BY <1>1, <1>2 DEF Proper, Chosen!Headers

(* To a user who was told nothing every file agrees.                        *)
LEMMA NothingTold ==
  ASSUME NEW lines
  PROVE  Agrees(lines, [q \in Chosen!Pairs |-> "none"])
  BY DEF Agrees

(* A pair with an effort is two names.                                      *)
LEMMA PairIs ==
  ASSUME EffortParameters, NEW q \in Chosen!Pairs
  PROVE  /\ q[1] \in Words /\ q[2] \in Words /\ q[1] # "none" /\ q[2] # "none"
         /\ q = <<q[1], q[2]>>
  BY DEF Chosen!Pairs, EffortParameters, Chosen!Providers

(* With no write of the file ahead none comes next, nor after the next.     *)
LEMMA HeadOfSaving ==
  ASSUME NoFileAhead
  PROVE  /\ saving # <<>> => Head(saving).what # "file"
         /\ saving # <<>> /\ saving' = Tail(saving) => NoFileAhead'
<1>1. CASE saving = <<>>
  BY <1>1
<1>2. CASE \E a : saving = <<a>> /\ a.what # "file"
  <2>1. PICK a : saving = <<a>> /\ a.what # "file"
    BY <1>2
  <2>2. Head(saving) = a /\ Tail(saving) = <<>>
    BY <2>1
  <2> QED
    BY <2>1, <2>2, Zenon DEF NoFileAhead
<1>3. CASE \E a, b : saving = <<a, b>> /\ a.what # "file" /\ b.what # "file"
  <2>1. PICK a, b : saving = <<a, b>> /\ a.what # "file" /\ b.what # "file"
    BY <1>3
  <2>2. Head(saving) = a /\ Tail(saving) = <<b>>
    BY <2>1
  <2> QED
    BY <2>1, <2>2, Zenon DEF NoFileAhead
<1>4. CASE \E a, b, c : /\ saving = <<a, b, c>>
                       /\ a.what # "file" /\ b.what # "file" /\ c.what # "file"
  <2>1. PICK a, b, c : /\ saving = <<a, b, c>>
                       /\ a.what # "file" /\ b.what # "file" /\ c.what # "file"
    BY <1>4
  <2>2. Head(saving) = a /\ Tail(saving) = <<b, c>>
    BY <2>1
  <2> QED
    BY <2>1, <2>2, Zenon DEF NoFileAhead
<1> QED
  BY <1>1, <1>2, <1>3, <1>4, Zenon DEF NoFileAhead

(* The command that sets an effort.                                         *)
LEMMA EffortCommand ==
  ASSUME EffortParameters, EffortInv, NEW e \in Efforts \cup {"none"},
         Chosen!HandleEffortCommand(e)
  PROVE  EffortInv'
<1> DEFINE p == Chosen!ActivePair[1]  m == Chosen!ActivePair[2]  f == Chosen!Edited(e)
<1>1. /\ config.running /\ saving = <<>> /\ Chosen!EffortSupported
      /\ config.model.value \in Models
      /\ file' = IF f = file THEN file ELSE Chosen!EmptyFile
      /\ saving' = <<Chosen!Write("file", f), Chosen!Write("effort", e)>>
      /\ UNCHANGED <<config, told>>
  BY Zenon DEF Chosen!HandleEffortCommand, Chosen!Ready
<1>2. Chosen!ActivePair \in Chosen!Pairs
  BY <1>1 DEF Chosen!ActivePair, Chosen!Pairs, Chosen!EffortSupported
<1>3. Agrees(file.lines, told)
  BY <1>1 DEF EffortInv, WriteAhead
<1>4. DOMAIN f = {"id", "model", "lines"}
      /\ f.lines = Chosen!WithProviderModelEffort(file.lines, p, m, e)
  BY DEF Chosen!Edited, EffortInv
<1>5. p \in Words /\ m \in Words /\ p # "none" /\ m # "none"
  BY <1>2, PairIs
<1> HIDE DEF p, m, f
<1>6. SetsEffort(f.lines, file.lines, p, m, e)
  <2>1. e \in Words /\ BlockWords
    BY DEF EffortParameters, BlockWords
  <2> QED
    BY <1>4, <1>5, <2>1, EditSets DEF EffortInv
<1>7. Agrees(f.lines, [told EXCEPT ![Chosen!ActivePair] = AsTold(e)])
  <2> DEFINE t == [told EXCEPT ![Chosen!ActivePair] = AsTold(e)]
  <2>1. t[Chosen!ActivePair] = AsTold(e)
        /\ \A q \in Chosen!Pairs : q # Chosen!ActivePair => t[q] = told[q]
    BY <1>2 DEF EffortInv
  <2> HIDE DEF t
  <2> SUFFICES ASSUME NEW q \in Chosen!Pairs, t[q] # "none"
               PROVE  Reads(f.lines, q[1], q[2]) = IF t[q] = "unset" THEN "none" ELSE t[q]
    BY Zenon DEF Agrees, t
  <2>2. CASE q = Chosen!ActivePair
    <3>1. Reads(f.lines, q[1], q[2]) = e
      BY <1>6, <2>2, Zenon DEF SetsEffort, p, m
    <3>2. e # "unset" /\ t[q] = AsTold(e)
      BY <2>1, <2>2 DEF EffortParameters
    <3> QED
      BY <3>1, <3>2 DEF AsTold
  <2>3. CASE q # Chosen!ActivePair
    <3>1. q[1] # "none" /\ q[2] # "none" /\ q = <<q[1], q[2]>>
          /\ Chosen!ActivePair = <<p, m>>
      BY <1>2, PairIs, Zenon DEF p, m
    <3>2. q[1] # p \/ q[2] # m
      BY <2>3, <3>1, Zenon
    <3>3. Reads(f.lines, q[1], q[2]) = Reads(file.lines, q[1], q[2])
      BY <1>6, <3>1, <3>2, Zenon DEF SetsEffort
    <3> QED
      BY <1>3, <2>1, <2>3, <3>3, Zenon DEF Agrees
  <2> QED
    BY <2>2, <2>3
<1>8. file' = Chosen!EmptyFile \/ Agrees(file'.lines, told)
  BY <1>1, <1>3, Zenon
<1>9. \A g : g = f => WriteAhead(g, e)'
  <2> SUFFICES ASSUME NEW g, g = f PROVE WriteAhead(g, e)'
    OBVIOUS
  <2>1. Proper(g.lines) /\ DOMAIN g = {"id", "model", "lines"}
    BY <1>4, <1>6, Zenon DEF SetsEffort
  <2>2. Chosen!ActivePair' = Chosen!ActivePair /\ config'.running /\ told' = told
    BY <1>1, Zenon DEF Chosen!ActivePair
  <2>3. saving' = <<Chosen!Write("file", g), Chosen!Write("effort", e)>>
    BY <1>1, Zenon
  <2>4. Agrees(g.lines, [told' EXCEPT ![Chosen!ActivePair'] = AsTold(e)])
    BY <1>7, <2>2, Zenon
  <2>5. file' = Chosen!EmptyFile \/ Agrees(file'.lines, told')
    BY <1>8, <2>2, Zenon
  <2>6. Chosen!ActivePair' \in Chosen!Pairs
    BY <1>2, <2>2, Zenon
  <2> QED
    BY <2>1, <2>2, <2>3, <2>4, <2>5, <2>6, Zenon DEF WriteAhead
<1>10. DOMAIN file' = {"id", "model", "lines"} /\ Proper(file'.lines)
  BY <1>1, EmptyFileProper, Zenon DEF EffortInv
<1> QED
  <2>1. PICK g : g = f
    OBVIOUS
  <2>2. WriteAhead(g, e)'
    BY <1>9, <2>1
  <2>3. \E h, d : WriteAhead(h, d)'
    BY <2>2
  <2> QED
    BY <1>1, <1>10, <2>3, Zenon DEF EffortInv

(* The file is written: what is read is what the user is told now.          *)
LEMMA FileWritten ==
  ASSUME EffortParameters, EffortInv, Chosen!WriteTextFile
  PROVE  EffortInv'
<1>1. saving # <<>> /\ Head(saving).what = "file" /\ file' = Head(saving).value
      /\ saving' = Tail(saving)
  BY DEF Chosen!WriteTextFile
<1>2. PICK f, e : WriteAhead(f, e)
  BY <1>1, HeadOfSaving DEF EffortInv
<1>3. Head(saving).value = f /\ Tail(saving) = <<Chosen!Write("effort", e)>>
      /\ Head(Tail(saving)).value = e /\ Chosen!Write("effort", e).what = "effort"
  BY <1>2 DEF WriteAhead, Chosen!Write
<1>4. told' = [told EXCEPT ![Chosen!ActivePair] = AsTold(e)]
  BY <1>1, <1>3, Zenon DEF Chosen!WriteTextFile, AsTold, Chosen!None
<1>5. NoFileAhead'
  <2>1. saving' = <<Chosen!Write("effort", e)>> /\ Chosen!Write("effort", e).what # "file"
    BY <1>1, <1>3
  <2> QED
    BY <2>1, Zenon DEF NoFileAhead
<1>6. Agrees(file'.lines, told')
  BY <1>1, <1>2, <1>3, <1>4, Zenon DEF WriteAhead
<1>7. told' \in [Chosen!Pairs -> Efforts \cup {"none", "unset"}]
  BY <1>2, <1>4 DEF EffortInv, WriteAhead, AsTold
<1> QED
  BY <1>1, <1>2, <1>3, <1>5, <1>6, <1>7, Zenon DEF EffortInv, WriteAhead

(* Every step keeps the agreement of the file with what the user was told.  *)
LEMMA EffortStep ==
  ASSUME EffortParameters, EffortInv, [Chosen!Next]_(Chosen!vars)
  PROVE  EffortInv'
<1>1. CASE UNCHANGED Chosen!vars
  BY <1>1, Zenon DEF Chosen!vars, EffortInv, WriteAhead, NoFileAhead, Chosen!ActivePair
<1>2. CASE Chosen!WriteTextFile
  BY <1>2, FileWritten
<1>3. CASE \E e \in Efforts \cup {Chosen!None} : Chosen!HandleEffortCommand(e)
  BY <1>3, EffortCommand DEF Chosen!None
<1>4. CASE Chosen!SaveRuntimeAppState \/ Chosen!SaveFails
  <2>1. /\ saving # <<>> /\ Head(saving).what # "file" /\ saving' = Tail(saving)
        /\ UNCHANGED <<file, told>>
    BY <1>4 DEF Chosen!SaveRuntimeAppState, Chosen!SaveFails
  <2>2. \A f, e : ~WriteAhead(f, e)
    BY <2>1 DEF WriteAhead, Chosen!Write
  <2>3. NoFileAhead /\ Agrees(file.lines, told)
    BY <2>2 DEF EffortInv
  <2>4. NoFileAhead'
    BY <2>1, <2>3, HeadOfSaving
  <2> QED
    BY <2>1, <2>3, <2>4, Zenon DEF EffortInv
<1>5. CASE Chosen!LoadChatConfig \/ Chosen!Quit \/ \E x \in EnvsOfUser : Chosen!SetEnv(x)
  <2>1. (~config.running \/ saving = <<>>) /\ UNCHANGED <<file, told, saving>>
    BY <1>5 DEF Chosen!LoadChatConfig, Chosen!Quit, Chosen!SetEnv, Chosen!Ready
  <2>2. \A f, e : ~WriteAhead(f, e)
    BY <2>1 DEF WriteAhead
  <2>3. NoFileAhead /\ Agrees(file.lines, told)
    BY <2>2 DEF EffortInv
  <2> QED
    BY <2>1, <2>3, Zenon DEF EffortInv, NoFileAhead
<1>6. CASE \E m \in Models : Chosen!SetModel(m)
  <2>1. saving = <<>> /\ UNCHANGED <<file, told>>
        /\ \E a, b, c : saving' = <<Chosen!Write("provider", a), Chosen!Write("profile", b),
                                    Chosen!Write("model", c)>>
    BY <1>6, Zenon DEF Chosen!SetModel, Chosen!Ready
  <2>2. \A f, e : ~WriteAhead(f, e)
    BY <2>1 DEF WriteAhead
  <2>3. Agrees(file.lines, told)
    BY <2>2 DEF EffortInv
  <2>4. \A v : /\ Chosen!Write("provider", v).what # "file"
               /\ Chosen!Write("profile", v).what # "file"
               /\ Chosen!Write("model", v).what # "file"
    BY DEF Chosen!Write
  <2>5. NoFileAhead'
    <3>1. PICK a, b, c : saving' = <<Chosen!Write("provider", a), Chosen!Write("profile", b),
                                     Chosen!Write("model", c)>>
      BY <2>1
    <3> DEFINE x == Chosen!Write("provider", a)  y == Chosen!Write("profile", b)
               z == Chosen!Write("model", c)
    <3>2. saving' = <<x, y, z>> /\ x.what # "file" /\ y.what # "file" /\ z.what # "file"
      BY <2>4, <3>1
    <3> HIDE DEF x, y, z
    <3> QED
      BY <3>2, Zenon DEF NoFileAhead
  <2> QED
    BY <2>1, <2>3, <2>5, Zenon DEF EffortInv
<1>7. CASE Chosen!Crash
  <2>1. /\ saving' = <<>> /\ file' = file
        /\ told' = IF file = Chosen!EmptyFile
                   THEN [q \in Chosen!Pairs |-> "none"] ELSE told
    BY <1>7, Zenon DEF Chosen!Crash, Chosen!None
  <2>2. Agrees(file.lines, told')
    <3>1. CASE file = Chosen!EmptyFile
      BY <2>1, <3>1, NothingTold, Zenon
    <3>2. CASE file # Chosen!EmptyFile
      BY <2>1, <3>2, Zenon DEF EffortInv, WriteAhead
    <3> QED
      BY <3>1, <3>2
  <2>3. told' \in [Chosen!Pairs -> Efforts \cup {"none", "unset"}]
    BY <2>1 DEF EffortInv
  <2> QED
    BY <2>1, <2>2, <2>3, Zenon DEF EffortInv, NoFileAhead
<1>8. CASE \E f \in FilesOfUser : Chosen!EditFile(f)
  <2>1. PICK f \in FilesOfUser :
          /\ file' = f /\ told' = [q \in Chosen!Pairs |-> "none"]
          /\ ~config.running /\ saving' = saving
    BY <1>8, Zenon DEF Chosen!EditFile, Chosen!None
  <2>2. NoFileAhead
    BY <2>1, Zenon DEF EffortInv, WriteAhead
  <2>3. Agrees(f.lines, told')
    BY <2>1, NothingTold, Zenon
  <2>4. told' \in [Chosen!Pairs -> Efforts \cup {"none", "unset"}]
    BY <2>1
  <2>5. DOMAIN f = {"id", "model", "lines"} /\ Proper(f.lines)
    BY DEF EffortParameters
  <2> QED
    <3>1. NoFileAhead'
      BY <2>1, <2>2, Zenon DEF NoFileAhead
    <3> QED
      BY <2>1, <2>3, <2>4, <2>5, <3>1, Zenon DEF EffortInv
<1> QED
  BY <1>1, <1>2, <1>3, <1>4, <1>5, <1>6, <1>7, <1>8, Zenon DEF Chosen!Next

(* An effort that /effort reported as saved is the one a start reads, from  *)
(* whatever file, until the user edits it (settings_toml_edit.cpp,          *)
(* SaveProviderModelEffortToSettingsToml).                                  *)
THEOREM EffortsReload == ASSUME EffortParameters PROVE Chosen!Spec => []Chosen!EffortReloads
<1>1. ASSUME Chosen!Init PROVE EffortInv
  <2>1. /\ file = Chosen!EmptyFile /\ told = [q \in Chosen!Pairs |-> "none"] /\ saving = <<>>
    BY <1>1, Zenon DEF Chosen!Init, Chosen!None
  <2>2. Agrees(file.lines, told)
    BY <2>1, NothingTold, Zenon
  <2>3. told \in [Chosen!Pairs -> Efforts \cup {"none", "unset"}]
    BY <2>1
  <2> QED
    BY <2>1, <2>2, <2>3, EmptyFileProper, Zenon DEF EffortInv, NoFileAhead
<1>2. ASSUME EffortInv, [Chosen!Next]_(Chosen!vars) PROVE EffortInv'
  BY <1>2, EffortStep
<1>3. ASSUME EffortInv PROVE Chosen!EffortReloads
  <2> SUFFICES ASSUME saving = <<>> \/ Head(saving).what # "file"
               PROVE  Agrees(file.lines, told)
    BY Zenon DEF Chosen!EffortReloads, Agrees, Reads, Chosen!None
  <2>1. \A f, e : ~WriteAhead(f, e)
    BY DEF WriteAhead, Chosen!Write
  <2> QED
    BY <1>3, <2>1 DEF EffortInv
<1> QED
  BY <1>1, <1>2, <1>3, PTL DEF Chosen!Spec

===============================================================================
