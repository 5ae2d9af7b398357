------------------------- MODULE AspHandlersProofs -------------------------
(***************************************************************************)
(* Proofs about the audio commands: for any number of voices and lists,    *)
(* any frames, predictors, pitches and ramps, any commands of no voice,    *)
(* and any sizes of vectors, buffers and filters that the layout allows,   *)
(* what a list leaves in the output is the sum of its voices, and what it  *)
(* keeps of each voice that lost no command is where that voice goes on.   *)
(*                                                                         *)
(* A property of what a list comes to is of no use while it is dispatched: *)
(* buffers and scratch pass from command to command, of one voice after    *)
(* the other.  The invariant (IInv) therefore speaks of the end: running   *)
(* what will be dispatched of the list leads from the machine there is to  *)
(* one that is as it ought to be (Leaves).  A handler takes one command    *)
(* off and leaves the end as it is; the synthesizer appends commands and   *)
(* moves it on, unless a command before them ends the list.                *)
(* What is to be proved is then what each group of commands does, run from *)
(* a machine that is as it ought to be: DecodeIs, ResampleIs, EnvelopeIs,  *)
(* and with them PullIs; StartRun and FinishRun.  And, for the voices that *)
(* lost commands, what it does run from any machine whose blocks have the  *)
(* right shapes: DecodeStill, ResampleStill, EnvelopeStill, PullStill.     *)
(*                                                                         *)
(* The handlers are folds over the vectors of a buffer.  That a fold has a *)
(* value, and that Total is a sum, is proved first, by induction over a    *)
(* set of numbers (UpInduction).                                           *)
(***************************************************************************)
EXTENDS AspHandlers, SequenceTheorems, WellFoundedInduction, TLAPS

-----------------------------------------------------------------------------
(* Folds over a segment of numbers have a value. *)

(* A set that holds 0 and the successor of each of its elements is Nat. *)
LEMMA SetInduction ==
    ASSUME NEW A, A \subseteq Nat, 0 \in A, \A i \in A : i + 1 \in A
    PROVE A = Nat
<1> DEFINE R == OpToRel(<, Nat)
<1>1. IsWellFoundedOn(R, Nat)  BY NatLessThanWellFounded
<1>2. \A i, j \in Nat : i < j => <<i, j>> \in R  BY DEF OpToRel
<1> HIDE DEF R
<1>3. SUFFICES ASSUME Nat \ A # {} PROVE FALSE  OBVIOUS
<1>4. PICK k \in Nat \ A : \A i \in Nat \ A : <<i, k>> \notin R
  BY <1>1, <1>3, WFMin
<1>5. k \in Nat \ {0}  BY <1>4
<1>6. k - 1 \in Nat /\ k - 1 < k /\ k - 1 + 1 = k  BY <1>5
<1>7. k - 1 \in Nat \ A  BY <1>4, <1>6
<1>8. QED  BY <1>2, <1>4, <1>5, <1>6, <1>7

(* The same up to n. *)
LEMMA UpInduction ==
    ASSUME NEW n \in Nat, NEW A, 0 \in A, \A i \in A : i \in 0 .. n - 1 => i + 1 \in A
    PROVE 0 .. n \subseteq A
<1> DEFINE B == {i \in Nat : i <= n => i \in A}
<1>1. 0 \in B  OBVIOUS
<1>2. ASSUME NEW i \in B PROVE i + 1 \in B
  <2>1. i \in Nat /\ i + 1 \in Nat  BY <1>2
  <2>2. CASE i + 1 <= n
    <3>1. i \in 0 .. n - 1 /\ i \in A  BY <1>2, <2>1, <2>2
    <3>2. QED  BY <2>1, <3>1
  <2>3. CASE ~(i + 1 <= n)  BY <2>1, <2>3
  <2>4. QED  BY <2>2, <2>3
<1>3. B = Nat
  <2>1. B \subseteq Nat  OBVIOUS
  <2> HIDE DEF B
  <2>2. QED  BY <1>1, <1>2, <2>1, SetInduction
<1>4. QED  BY <1>3

(* The greatest element is the one that bounds the others. *)
LEMMA MaxIs ==
    ASSUME NEW s, s \subseteq Int, NEW m \in s, \A i \in s : i <= m
    PROVE Max(s) = m
<1>1. \A k \in s : (\A i \in s : k >= i) => k = m
  <2>1. SUFFICES ASSUME NEW k \in s, \A i \in s : k >= i PROVE k = m  OBVIOUS
  <2>2. k >= m /\ k <= m  BY <2>1
  <2>3. QED  BY <2>2
<1>2. \A i \in s : m >= i  OBVIOUS
<1>3. QED  BY <1>1, <1>2 DEF Max

(* A set of numbers that are not beyond n has a greatest. *)
LEMMA MaxOf ==
    ASSUME NEW n \in Nat, NEW s \in SUBSET (1 .. n), s # {}
    PROVE Max(s) \in s
<1> DEFINE A == {k \in 0 .. n : s \cap (1 .. k) # {} =>
                                  \E m \in s \cap (1 .. k) : \A i \in s \cap (1 .. k) : i <= m}
<1>1. 0 \in A  OBVIOUS
<1>2. ASSUME NEW k \in A, k \in 0 .. n - 1 PROVE k + 1 \in A
  <2>1. CASE k + 1 \in s
    <3>1. k + 1 \in s \cap (1 .. k + 1) /\ \A i \in s \cap (1 .. k + 1) : i <= k + 1  BY <1>2, <2>1
    <3>2. QED  BY <1>2, <3>1
  <2>2. CASE k + 1 \notin s
    <3>1. s \cap (1 .. k + 1) = s \cap (1 .. k)  BY <1>2, <2>2
    <3>2. QED  BY <1>2, <3>1
  <2>3. QED  BY <2>1, <2>2
<1>3. n \in A
  <2> HIDE DEF A
  <2>1. 0 .. n \subseteq A  BY <1>1, <1>2, UpInduction
  <2>2. QED  BY <2>1
<1>4. s \cap (1 .. n) = s  OBVIOUS
<1>5. PICK m \in s : \A i \in s : i <= m  BY <1>3, <1>4
<1>6. s \subseteq Int  OBVIOUS
<1>7. QED  BY <1>5, <1>6, MaxIs

(* The segments 1 .. k are what a fold over 1 .. n goes down through. *)
LEMMA Segment ==
    ASSUME NEW n \in Nat, NEW k \in 1 .. n
    PROVE /\ 1 .. k \in SUBSET (1 .. n) /\ 1 .. k # {}
          /\ Max(1 .. k) = k /\ (1 .. k) \ {k} = 1 .. k - 1 /\ 1 .. k - 1 \in SUBSET (1 .. n)
<1>1. k \in Nat /\ k \in 1 .. k /\ 1 .. k \subseteq Int /\ \A i \in 1 .. k : i <= k
  OBVIOUS
<1>2. Max(1 .. k) = k  BY <1>1, MaxIs
<1>3. QED  BY <1>1, <1>2

(* A fold is the value, at the whole domain, of a function of the sets of  *)
(* places: there is one when the operation stays in a set D.               *)
Fold(n, e, F, h) ==
    h = [s \in SUBSET (1 .. n) |-> IF s = {} THEN e ELSE F[<<h[s \ {Max(s)}], Max(s)>>]]

(* Such a fold exists: it is the library's recursive function over finite  *)
(* sets.                                                                   *)
LEMMA FoldExists ==
    ASSUME NEW n \in Nat, NEW D, NEW e \in D, NEW F \in [D \X (1 .. n) -> D]
    PROVE \E h : h \in [SUBSET (1 .. n) -> D] /\ Fold(n, e, F, h)
<1> DEFINE Upto(m, h) == /\ h \in [SUBSET (1 .. m) -> D]
                         /\ \A s \in SUBSET (1 .. m) :
                               h[s] = IF s = {} THEN e ELSE F[<<h[s \ {Max(s)}], Max(s)>>]
           A == {m \in Nat : \E h : Upto(m, h)}
<1>1. 0 \in A
  <2> DEFINE h == [s \in SUBSET (1 .. 0) |-> e]
  <2>1. \A s \in SUBSET (1 .. 0) : s = {}  OBVIOUS
  <2>2. h \in [SUBSET (1 .. 0) -> D]  OBVIOUS
  <2>3. Upto(0, h)  BY <2>1, <2>2
  <2> HIDE DEF h, Upto
  <2>4. QED  BY <2>3
<1>2. ASSUME NEW m \in A, m \in 0 .. n - 1 PROVE m + 1 \in A
  <2> HIDE DEF Upto
  <2>1. m \in Nat /\ m + 1 \in 1 .. n /\ \E h : Upto(m, h)  BY <1>2
  <2>2. PICK h : Upto(m, h)  BY <2>1
  <2> USE DEF Upto
  <2> DEFINE k == [s \in SUBSET (1 .. m + 1) |->
                      IF m + 1 \in s THEN F[<<h[s \ {m + 1}], m + 1>>] ELSE h[s]]
  <2>3. \A s \in SUBSET (1 .. m + 1) : m + 1 \notin s => s \in SUBSET (1 .. m)  BY <2>1
  <2>4. \A s \in SUBSET (1 .. m + 1) : s \ {m + 1} \in SUBSET (1 .. m)  BY <2>1
  <2>5. \A s \in SUBSET (1 .. m) : h[s] \in D  BY <2>2
  <2>6. \A d \in D : F[<<d, m + 1>>] \in D  BY <2>1
  <2>7. k \in [SUBSET (1 .. m + 1) -> D]
    <3> HIDE DEF Upto
    <3>1. ASSUME NEW s \in SUBSET (1 .. m + 1)
          PROVE (IF m + 1 \in s THEN F[<<h[s \ {m + 1}], m + 1>>] ELSE h[s]) \in D
      <4>1. CASE m + 1 \in s  BY <2>4, <2>5, <2>6, <4>1
      <4>2. CASE m + 1 \notin s  BY <2>3, <2>5, <4>2
      <4>3. QED  BY <4>1, <4>2
    <3>2. QED  BY <3>1
  <2>8. ASSUME NEW s \in SUBSET (1 .. m + 1)
        PROVE k[s] = IF s = {} THEN e ELSE F[<<k[s \ {Max(s)}], Max(s)>>]
    <3>1. CASE m + 1 \in s
      <4>1. s \subseteq Int /\ \A i \in s : i <= m + 1  BY <2>1
      <4>2. Max(s) = m + 1  BY <3>1, <4>1, MaxIs
      <4>3. s \ {m + 1} \in SUBSET (1 .. m + 1) /\ m + 1 \notin s \ {m + 1}  OBVIOUS
      <4>4. k[s \ {m + 1}] = h[s \ {m + 1}]  BY <4>3
      <4>5. k[s] = F[<<h[s \ {m + 1}], m + 1>>] /\ s # {}  BY <3>1
      <4> HIDE DEF k, Upto
      <4>6. QED  BY <4>2, <4>4, <4>5
    <3>2. CASE m + 1 \notin s
      <4>1. s \in SUBSET (1 .. m)  BY <3>2, <2>3
      <4>2. h[s] = IF s = {} THEN e ELSE F[<<h[s \ {Max(s)}], Max(s)>>]
        BY <4>1, <2>2
      <4>3. s \ {Max(s)} \in SUBSET (1 .. m + 1) /\ m + 1 \notin s \ {Max(s)}  BY <3>2
      <4>4. k[s] = h[s] /\ k[s \ {Max(s)}] = h[s \ {Max(s)}]  BY <4>3, <3>2
      <4> HIDE DEF k, Upto
      <4>5. QED  BY <4>2, <4>4
    <3>3. QED  BY <3>1, <3>2
  <2> HIDE DEF k
  <2>9. Upto(m + 1, k)  BY <2>7, <2>8
  <2>10. m + 1 \in Nat  BY <2>1
  <2> HIDE DEF Upto
  <2>11. QED  BY <2>9, <2>10
<1>3. n \in A
  <2> HIDE DEF A
  <2>1. 0 .. n \subseteq A  BY <1>1, <1>2, UpInduction
  <2>2. QED  BY <2>1
<1>4. PICK h : Upto(n, h)
  <2> HIDE DEF Upto
  <2>1. QED  BY <1>3
<1>5. h = [s \in SUBSET (1 .. n) |-> h[s]]  BY <1>4
<1>6. h \in [SUBSET (1 .. n) -> D]  BY <1>4
<1>7. Fold(n, e, F, h)  BY <1>4, <1>5 DEF Fold
<1>8. QED  BY <1>6, <1>7

(* A sum is made term by term. *)
Sums(f, s, n) ==
    /\ f \in [0 .. n -> Int] /\ f[0] = 0
    /\ \A k \in 1 .. n : f[k] = f[k - 1] + s[k]
    /\ Total(s) = f[n]

(* Total is the last of the partial sums. *)
LEMMA TotalIs ==
    ASSUME NEW n \in Nat, NEW s \in Numbers(n)
    PROVE \E f : Sums(f, s, n)
<1> USE DEF Numbers
<1> DEFINE Eq(h) == h = [t \in SUBSET (1 .. n) |->
                            IF t = {} THEN 0 ELSE h[t \ {Max(t)}] + s[Max(t)]]
<1>1. Total(s) = (CHOOSE h : Eq(h))[1 .. n]
  <2>1. Total(s) = (CHOOSE h : h = [t \in SUBSET (DOMAIN s) |->
                       IF t = {} THEN 0 ELSE h[t \ {Max(t)}] + s[Max(t)]])[DOMAIN s]
    BY DEF Total, FoldLeft, MapThenFoldSet
  <2>2. DOMAIN s = 1 .. n  OBVIOUS
  <2>3. QED  BY <2>1, <2>2
<1>2. \E h : Eq(h)
  <2> DEFINE F == [x \in Int \X (1 .. n) |-> x[1] + s[x[2]]]
  <2>1. F \in [Int \X (1 .. n) -> Int]  OBVIOUS
  <2>2. PICK h : h \in [SUBSET (1 .. n) -> Int] /\ Fold(n, 0, F, h)
    <3> HIDE DEF F, Eq
    <3>1. 0 \in Int  OBVIOUS
    <3>2. QED  BY <2>1, <3>1, FoldExists
  <2>3. ASSUME NEW t \in SUBSET (1 .. n), t # {}
        PROVE F[<<h[t \ {Max(t)}], Max(t)>>] = h[t \ {Max(t)}] + s[Max(t)]
    <3>1. Max(t) \in 1 .. n  BY <2>3, MaxOf
    <3>2. h[t \ {Max(t)}] \in Int  BY <2>2
    <3>3. QED  BY <3>1, <3>2
  <2> HIDE DEF F
  <2>4. h = [t \in SUBSET (1 .. n) |->
                IF t = {} THEN 0 ELSE h[t \ {Max(t)}] + s[Max(t)]]
    BY <2>2, <2>3 DEF Fold
  <2>5. QED  BY <2>4
<1>3. PICK h : Eq(h) /\ Total(s) = h[1 .. n]
  <2> HIDE DEF Eq
  <2>1. QED  BY <1>1, <1>2
<1> DEFINE f == [k \in 0 .. n |-> h[1 .. k]]
<1>4. \A k \in 1 .. n : f[k] = f[k - 1] + s[k]
  <2>1. SUFFICES ASSUME NEW k \in 1 .. n PROVE h[1 .. k] = h[1 .. k - 1] + s[k]
    OBVIOUS
  <2>2. QED  BY <1>3, Segment
<1>5. f[0] = 0 /\ f[n] = Total(s)
  <2>1. 1 .. 0 = {} /\ 1 .. 0 \in SUBSET (1 .. n)  OBVIOUS
  <2>2. h[1 .. 0] = 0  BY <1>3, <2>1
  <2> HIDE DEF Eq
  <2>3. f[0] = h[1 .. 0] /\ f[n] = h[1 .. n]  OBVIOUS
  <2>4. QED  BY <1>3, <2>2, <2>3
<1>6. f \in [0 .. n -> Int]
  <2> DEFINE A == {k \in 0 .. n : f[k] \in Int}
  <2> HIDE DEF f
  <2>1. 0 \in A  BY <1>5
  <2>2. ASSUME NEW k \in A, k \in 0 .. n - 1 PROVE k + 1 \in A
    <3>1. k + 1 \in 1 .. n /\ k + 1 - 1 = k /\ f[k] \in Int /\ s[k + 1] \in Int  BY <2>2
    <3>2. f[k + 1] = f[k] + s[k + 1]  BY <1>4, <3>1
    <3>3. QED  BY <3>1, <3>2
  <2> HIDE DEF A
  <2>3. 0 .. n \subseteq A  BY <2>1, <2>2, UpInduction
  <2>4. \A k \in 0 .. n : f[k] \in Int  BY <2>3 DEF A
  <2>5. f = [k \in 0 .. n |-> f[k]]  BY DEF f
  <2>6. QED  BY <2>4, <2>5
<1> HIDE DEF f
<1>7. QED  BY <1>4, <1>5, <1>6 DEF Sums

-----------------------------------------------------------------------------
(* Tuples of numbers, and the buffers. *)

(* The memories there may be. *)
Memory == [Cells -> Int]

(* What the sizes are to each other, as far as the layout fixes it. *)
LEMMA Sizes ==
    /\ {Lanes, Vectors, TempSize, Taps, Phases, Buffer, Frame} \subseteq Nat \ {0}
    /\ Taps < Lanes /\ Frame = Lanes + Lanes /\ Buffer = Lanes * Vectors
    /\ Lanes + Lanes <= Buffer
    /\ Main = 0 /\ Second = Buffer /\ Temp = Buffer + Buffer
    /\ DryL = Buffer + Buffer + TempSize /\ DryR = DryL + Buffer
    /\ WetL = DryR + Buffer /\ WetR = WetL + Buffer
    /\ {Main, Second, Temp, DryL, DryR, WetL, WetR} \subseteq Nat
    /\ Cells = 0 .. WetR + Buffer - 1
<1>1. /\ {Lanes, Vectors, TempSize, Taps, Phases} \subseteq Nat \ {0}
      /\ Vectors > 1 /\ Taps < Lanes
  BY HandlerAssumption
<1>2. \A l \in Nat \ {0}, n \in Nat : n > 1 => l * n \in Nat \ {0} /\ l + l <= l * n
  <2>1. SUFFICES ASSUME NEW l \in Nat \ {0}, NEW n \in Nat, n > 1
                 PROVE l * n \in Nat \ {0} /\ l + l <= l * n
    OBVIOUS
  <2>2. PICK m \in Nat : n = m + 2
    <3>1. n - 2 \in Nat /\ n = (n - 2) + 2  BY <2>1
    <3>2. QED  BY <3>1
  <2>3. l * n = l * m + l + l /\ l * m \in Nat  BY <2>2
  <2>4. QED  BY <2>3
<1>3. Buffer \in Nat \ {0} /\ Lanes + Lanes <= Buffer  BY <1>1, <1>2 DEF Buffer
<1>4. Buffer = Lanes * Vectors  BY DEF Buffer
<1>5. Frame = Lanes + Lanes /\ Frame \in Nat \ {0}  BY <1>1 DEF Frame
<1>6. /\ Main = 0 /\ Second = Buffer /\ Temp = Buffer + Buffer
      /\ DryL = Buffer + Buffer + TempSize /\ DryR = DryL + Buffer
      /\ WetL = DryR + Buffer /\ WetR = WetL + Buffer
      /\ Cells = 0 .. WetR + Buffer - 1
  BY <1>3 DEF Main, Second, Temp, DryL, DryR, WetL, WetR, Cells
<1> HIDE DEF Buffer, Frame
<1>7. {Main, Second, Temp, DryL, DryR, WetL, WetR} \subseteq Nat
  <2>1. Buffer \in Nat /\ TempSize \in Nat  BY <1>1, <1>3
  <2>2. Main \in Nat /\ Second \in Nat /\ Temp \in Nat /\ DryL \in Nat  BY <1>6, <2>1
  <2>3. DryR \in Nat  BY <1>6, <2>1, <2>2
  <2>4. WetL \in Nat  BY <1>6, <2>1, <2>3
  <2>5. WetR \in Nat  BY <1>6, <2>1, <2>4
  <2>6. QED  BY <2>2, <2>3, <2>4, <2>5
<1>8. QED  BY <1>1, <1>3, <1>4, <1>5, <1>6, <1>7

(* A tuple of n numbers, as a sequence. *)
LEMMA NumbersAre ==
    ASSUME NEW n \in Nat, NEW s \in Numbers(n)
    PROVE s \in Seq(Int) /\ Len(s) = n /\ DOMAIN s = 1 .. n /\ \A i \in 1 .. n : s[i] \in Int
BY DEF Numbers

(* And a sequence of numbers as a tuple. *)
LEMMA SeqIs ==
    ASSUME NEW s \in Seq(Int)
    PROVE Len(s) \in Nat /\ s \in Numbers(Len(s))
BY DEF Numbers

(* Tuples of one length that agree everywhere are the same. *)
LEMMA NumbersSame ==
    ASSUME NEW n \in Nat, NEW s \in Numbers(n), NEW t \in Numbers(n),
           \A i \in 1 .. n : s[i] = t[i]
    PROVE s = t
BY DEF Numbers

(* A concatenation, place by place. *)
LEMMA ConcatIs ==
    ASSUME NEW m \in Nat, NEW n \in Nat, NEW s \in Numbers(m), NEW t \in Numbers(n)
    PROVE /\ s \o t \in Numbers(m + n)
          /\ \A i \in 1 .. m : (s \o t)[i] = s[i]
          /\ \A i \in 1 .. n : (s \o t)[m + i] = t[i]
<1>1. s \in Seq(Int) /\ t \in Seq(Int) /\ Len(s) = m /\ Len(t) = n  BY NumbersAre
<1>2. PICK q : q = s \o t  OBVIOUS
<1>3. /\ q \in Seq(Int) /\ Len(q) = m + n
      /\ \A i \in 1 .. m + n : q[i] = IF i <= m THEN s[i] ELSE t[i - m]
  BY <1>1, <1>2, ConcatProperties
<1>4. q \in Numbers(m + n)  BY <1>3, SeqIs
<1>5. \A i \in 1 .. m : i \in 1 .. m + n /\ i <= m  OBVIOUS
<1>6. \A i \in 1 .. n : m + i \in 1 .. m + n /\ ~(m + i <= m) /\ m + i - m = i  OBVIOUS
<1>7. (\A i \in 1 .. m : q[i] = s[i]) /\ \A i \in 1 .. n : q[m + i] = t[i]
  BY <1>3, <1>5, <1>6
<1>8. QED  BY <1>2, <1>4, <1>7, Zenon

(* A part of a tuple, place by place. *)
LEMMA PartIs ==
    ASSUME NEW n \in Nat, NEW s \in Numbers(n), NEW i \in Nat, NEW m \in Nat, i + m <= n
    PROVE /\ SubSeq(s, i + 1, i + m) \in Numbers(m)
          /\ \A k \in 1 .. m : SubSeq(s, i + 1, i + m)[k] = s[i + k]
<1>1. SubSeq(s, i + 1, i + m) = [k \in 1 .. m |-> s[i + k]]
  <2>1. SubSeq(s, i + 1, i + m) = [k \in 1 .. (i + m) - (i + 1) + 1 |-> s[(i + 1) + k - 1]]
    BY NumbersAre
  <2>2. (i + m) - (i + 1) + 1 = m /\ \A k \in 1 .. m : (i + 1) + k - 1 = i + k  OBVIOUS
  <2>3. QED  BY <2>1, <2>2
<1>2. \A k \in 1 .. m : i + k \in 1 .. n  OBVIOUS
<1>3. QED  BY <1>1, <1>2 DEF Numbers

(* What Put leaves in every cell. *)
LEMMA PutIs ==
    ASSUME NEW mem \in Memory, NEW a \in Int, NEW n \in Nat, NEW s \in Numbers(n)
    PROVE /\ Put(mem, a, s) \in Memory
          /\ \A x \in Cells : Put(mem, a, s)[x] =
                                 IF a <= x /\ x < a + n THEN s[x - a + 1] ELSE mem[x]
<1>1. Len(s) = n /\ DOMAIN mem = Cells /\ \A i \in 1 .. n : s[i] \in Int
  BY NumbersAre DEF Memory
<1>2. Cells \subseteq Int  BY DEF Cells
<1>3. \A x \in Cells : /\ x \in a .. a + n - 1 <=> a <= x /\ x < a + n
                       /\ a <= x /\ x < a + n => x - a + 1 \in 1 .. n
  BY <1>2
<1>4. Put(mem, a, s) = [x \in Cells |-> IF a <= x /\ x < a + n THEN s[x - a + 1] ELSE mem[x]]
  BY <1>1, <1>3 DEF Put
<1>5. \A x \in Cells : mem[x] \in Int  BY DEF Memory
<1>6. \A x \in Cells : (IF a <= x /\ x < a + n THEN s[x - a + 1] ELSE mem[x]) \in Int
  BY <1>1, <1>3, <1>5
<1>7. QED  BY <1>4, <1>6 DEF Memory

(* What Window takes from the cells. *)
LEMMA WindowIs ==
    ASSUME NEW mem \in Memory, NEW a \in Nat, NEW n \in Nat, a + n <= WetR + Buffer
    PROVE /\ Window(mem, a, n) \in Numbers(n)
          /\ \A i \in 1 .. n : Window(mem, a, n)[i] = mem[a + i - 1]
<1>1. WetR \in Int /\ Buffer \in Int /\ Cells = 0 .. WetR + Buffer - 1  BY Sizes
<1>2. \A i \in 1 .. n : a + i - 1 \in Cells  BY <1>1
<1>3. QED  BY <1>2 DEF Window, Numbers, Memory

(* Zeros, place by place. *)
LEMMA ZerosAre ==
    ASSUME NEW n \in Nat
    PROVE Zeros(n) \in Numbers(n) /\ \A i \in 1 .. n : Zeros(n)[i] = 0
BY DEF Zeros, Numbers

(* Loops work in whole vectors. *)
LEMMA VectorsIn ==
    ASSUME NEW m \in Nat \ {0}
    PROVE InVectors(Lanes * m) = m
<1>1. PICK l \in Nat \ {0} : l = Lanes  BY Sizes
<1>2. l * m \in Nat /\ l * m > 0
  OBVIOUS
<1>3. (l * m + l - 1) \div l = m
  <2>1. PICK r \in Nat : r = l - 1 /\ r < l  OBVIOUS
  <2>2. l * m + l - 1 = m * l + r  BY <2>1
  <2>3. QED  BY <2>1, <2>2
<1>4. QED  BY <1>1, <1>2, <1>3 DEF InVectors

-----------------------------------------------------------------------------
(* DMEMMOVE: what is moved downwards arrives, also over itself. *)

(* The k-th of m vectors lies within all of them. *)
LEMMA Times ==
    ASSUME NEW l \in Nat, NEW m \in Nat, NEW k \in 1 .. m
    PROVE /\ l * (k - 1) \in Nat /\ l * k \in Nat /\ l * m \in Nat
          /\ l * (k - 1) + l = l * k /\ l * k <= l * m
<1>1. PICK j \in Nat : j = k - 1  OBVIOUS
<1>2. PICK i \in Nat : i = m - k
  <2>1. m - k \in Nat  OBVIOUS
  <2>2. QED  BY <2>1
<1>3. l * (j + 1) = l * j + l /\ l * j \in Nat /\ l * i \in Nat  BY <1>1, <1>2
<1>4. l * m = l * k + l * i
  <2>1. m = k + i  BY <1>2
  <2>2. QED  BY <1>2, <2>1
<1>5. k = j + 1  BY <1>1
<1>6. QED  BY <1>1, <1>3, <1>4, <1>5

(* One vector moved. *)
MoveStep(mem, c, k) ==
    Put(mem, c.dst + Lanes * (k - 1), Window(mem, c.src + Lanes * (k - 1), Lanes))

(* c moves m vectors down. *)
Moves(a, c, m) ==
    /\ a.dmem \in Memory /\ c.n = Lanes * m
    /\ c.src \in Nat /\ c.dst \in Nat /\ c.dst <= c.src
    /\ c.src + Lanes * m <= WetR + Buffer

(* DMEMMOVE, vector by vector. *)
LEMMA MovedFold ==
    ASSUME NEW a, NEW c, NEW m \in Nat \ {0}, Moves(a, c, m)
    PROVE \E f : /\ f[0] = a.dmem
                 /\ \A k \in 1 .. m : f[k] = MoveStep(f[k - 1], c, k)
                 /\ Moved(a, c) = f[m]
<1> USE DEF Moves
<1> DEFINE g == UpTo(m)
           Eq(h) == h = [s \in SUBSET (1 .. m) |->
                            IF s = {} THEN a.dmem
                            ELSE MoveStep(h[s \ {Max(s)}], c, g[Max(s)])]
<1>1. DOMAIN g = 1 .. m /\ \A k \in 1 .. m : g[k] = k  BY DEF UpTo
<1>2. Moved(a, c) = (CHOOSE h : Eq(h))[1 .. m]
  <2>1. InVectors(c.n) = m  BY VectorsIn
  <2>2. Moved(a, c) = (CHOOSE h : h = [s \in SUBSET (DOMAIN g) |->
                           IF s = {} THEN a.dmem
                           ELSE MoveStep(h[s \ {Max(s)}], c, g[Max(s)])])[DOMAIN g]
    BY <2>1 DEF Moved, MoveStep, FoldLeft, MapThenFoldSet
  <2>3. QED  BY <1>1, <2>2
<1> HIDE DEF g
<1>3. \E h : Eq(h)
  <2> DEFINE F == [x \in Memory \X (1 .. m) |-> MoveStep(x[1], c, x[2])]
  <2>1. ASSUME NEW mem \in Memory, NEW k \in 1 .. m PROVE MoveStep(mem, c, k) \in Memory
    <3>1. Lanes \in Nat /\ WetR \in Nat /\ Buffer \in Nat  BY Sizes
    <3>2. /\ Lanes * (k - 1) \in Nat /\ Lanes * m \in Nat
          /\ Lanes * (k - 1) + Lanes <= Lanes * m
      BY <3>1, Times
    <3>3. PICK y \in Nat : y = c.src + Lanes * (k - 1)  BY <3>2
    <3>4. y + Lanes <= WetR + Buffer  BY <3>1, <3>2, <3>3
    <3>5. Window(mem, y, Lanes) \in Numbers(Lanes)  BY <3>1, <3>4, WindowIs
    <3>6. c.dst + Lanes * (k - 1) \in Int  BY <3>2
    <3>7. QED  BY <3>1, <3>3, <3>5, <3>6, PutIs DEF MoveStep
  <2>2. F \in [Memory \X (1 .. m) -> Memory]  BY <2>1
  <2>3. PICK h : h \in [SUBSET (1 .. m) -> Memory] /\ Fold(m, a.dmem, F, h)
    <3> HIDE DEF F, Eq
    <3>1. QED  BY <2>2, FoldExists
  <2>4. ASSUME NEW s \in SUBSET (1 .. m), s # {}
        PROVE F[<<h[s \ {Max(s)}], Max(s)>>] = MoveStep(h[s \ {Max(s)}], c, g[Max(s)])
    BY <2>4, <2>3, <1>1, MaxOf
  <2> HIDE DEF F
  <2>5. h = [s \in SUBSET (1 .. m) |->
                IF s = {} THEN a.dmem ELSE MoveStep(h[s \ {Max(s)}], c, g[Max(s)])]
    BY <2>3, <2>4 DEF Fold
  <2>6. QED  BY <2>5
<1>4. PICK h : Eq(h) /\ Moved(a, c) = h[1 .. m]
  <2> HIDE DEF Eq
  <2>1. QED  BY <1>2, <1>3
<1> DEFINE f == [k \in 0 .. m |-> h[1 .. k]]
<1>5. ASSUME NEW k \in 1 .. m PROVE f[k] = MoveStep(f[k - 1], c, k)
  <2>1. f[k] = h[1 .. k] /\ f[k - 1] = h[1 .. k - 1]  OBVIOUS
  <2> HIDE DEF f
  <2>2. h[1 .. k] = MoveStep(h[(1 .. k) \ {Max(1 .. k)}], c, g[Max(1 .. k)])  BY <1>4, Segment
  <2>3. QED  BY <1>1, <2>1, <2>2, Segment
<1>6. f[0] = a.dmem /\ f[m] = Moved(a, c)
  <2>1. 1 .. 0 = {} /\ 1 .. 0 \in SUBSET (1 .. m)  OBVIOUS
  <2>2. h[1 .. 0] = a.dmem  BY <1>4, <2>1
  <2> HIDE DEF Eq
  <2>3. f[0] = h[1 .. 0] /\ f[m] = h[1 .. m]  OBVIOUS
  <2>4. QED  BY <1>4, <2>2, <2>3
<1> HIDE DEF f, Eq, Moves
<1>7. QED  BY <1>5, <1>6

(* The first n cells from src on have been moved to dst. *)
HasMoved(mem, now, src, dst, n) ==
    /\ now \in Memory
    /\ \A x \in Cells :
          now[x] = IF dst <= x /\ x < dst + n THEN mem[src + (x - dst)] ELSE mem[x]

(* One vector more is moved. *)
LEMMA MovesOn ==
    ASSUME NEW mem \in Memory, NEW now, NEW src \in Nat, NEW dst \in Nat, NEW p \in Nat,
           dst <= src, src + p + Lanes <= WetR + Buffer,
           HasMoved(mem, now, src, dst, p)
    PROVE HasMoved(mem, Put(now, dst + p, Window(now, src + p, Lanes)), src, dst, p + Lanes)
<1>1. /\ now \in Memory
      /\ \A x \in Cells :
            now[x] = IF dst <= x /\ x < dst + p THEN mem[src + (x - dst)] ELSE mem[x]
  BY DEF HasMoved
<1>2. PICK new : new = Put(now, dst + p, Window(now, src + p, Lanes))  OBVIOUS
<1>3. Lanes \in Nat \ {0} /\ WetR \in Nat /\ Buffer \in Nat /\ Cells = 0 .. WetR + Buffer - 1
  BY Sizes
<1>4. PICK w : /\ w = Window(now, src + p, Lanes) /\ w \in Numbers(Lanes)
               /\ \A i \in 1 .. Lanes : w[i] = now[src + p + i - 1]
  <2>1. src + p \in Nat  OBVIOUS
  <2>2. QED  BY <1>1, <1>3, <2>1, WindowIs
<1>5. ASSUME NEW i \in 1 .. Lanes PROVE w[i] = mem[src + (p + i - 1)]
  <2>1. src + p + i - 1 \in Cells /\ ~(src + p + i - 1 < dst + p)  BY <1>3
  <2>2. src + p + i - 1 = src + (p + i - 1)  BY <1>3
  <2>3. QED  BY <1>1, <1>4, <2>1, <2>2
<1>6. /\ new \in Memory
      /\ \A x \in Cells : new[x] =
            IF dst + p <= x /\ x < dst + p + Lanes THEN w[x - (dst + p) + 1] ELSE now[x]
  <2>1. dst + p \in Int /\ Lanes \in Nat  BY <1>3
  <2>2. new = Put(now, dst + p, w) /\ w \in Numbers(Lanes)  BY <1>2, <1>4
  <2>3. QED  BY <1>1, <2>1, <2>2, PutIs, Zenon
<1>7. ASSUME NEW x \in Cells
      PROVE new[x] = IF dst <= x /\ x < dst + (p + Lanes) THEN mem[src + (x - dst)] ELSE mem[x]
  <2>1. x \in Nat  BY <1>3
  <2>2. CASE dst + p <= x /\ x < dst + p + Lanes
    <3>1. x - (dst + p) + 1 \in 1 .. Lanes  BY <1>3, <2>1, <2>2
    <3>2. src + (p + (x - (dst + p) + 1) - 1) = src + (x - dst)  BY <2>1
    <3>3. dst <= x /\ x < dst + (p + Lanes)  BY <1>3, <2>1, <2>2
    <3>4. QED  BY <1>5, <1>6, <2>2, <3>1, <3>2, <3>3
  <2>3. CASE ~(dst + p <= x /\ x < dst + p + Lanes)
    <3>1. (dst <= x /\ x < dst + (p + Lanes)) <=> (dst <= x /\ x < dst + p)
      BY <1>3, <2>1, <2>3
    <3>2. QED  BY <1>1, <1>6, <2>3, <3>1
  <2>4. QED  BY <2>2, <2>3
<1>8. QED  BY <1>2, <1>6, <1>7 DEF HasMoved

(* DMEMMOVE downwards copies what was there before. *)
LEMMA MovedIs ==
    ASSUME NEW a, NEW c, NEW m \in Nat \ {0}, Moves(a, c, m)
    PROVE HasMoved(a.dmem, Moved(a, c), c.src, c.dst, Lanes * m)
<1>1. PICK f : /\ f[0] = a.dmem
               /\ \A k \in 1 .. m : f[k] = MoveStep(f[k - 1], c, k)
               /\ Moved(a, c) = f[m]
  BY MovedFold
<1>2. PICK src \in Nat, dst \in Nat :
          src = c.src /\ dst = c.dst /\ dst <= src /\ src + Lanes * m <= WetR + Buffer
  BY DEF Moves
<1>3. PICK mem \in Memory : mem = a.dmem  BY DEF Moves
<1>4. m \in Nat \ {0} /\ Lanes \in Nat \ {0} /\ WetR \in Nat /\ Buffer \in Nat /\ Cells = 0 .. WetR + Buffer - 1
  BY Sizes DEF Moves
<1> DEFINE A == {k \in 0 .. m : HasMoved(mem, f[k], src, dst, Lanes * k)}
<1>5. 0 \in A
  <2>1. \A x \in Cells : ~(dst <= x /\ x < dst + Lanes * 0)  BY <1>4
  <2>2. QED  BY <1>1, <1>3, <2>1 DEF HasMoved
<1>6. ASSUME NEW k \in A, k \in 0 .. m - 1 PROVE k + 1 \in A
  <2>1. k + 1 \in 1 .. m /\ k + 1 - 1 = k  BY <1>6
  <2>2. f[k + 1] = MoveStep(f[k], c, k + 1)  BY <1>1, <2>1
  <2>3. PICK p \in Nat : /\ p = Lanes * k /\ p + Lanes = Lanes * (k + 1)
                         /\ p + Lanes <= Lanes * m
    <3>1. /\ Lanes * (k + 1 - 1) \in Nat /\ Lanes * (k + 1 - 1) + Lanes = Lanes * (k + 1)
          /\ Lanes * (k + 1) <= Lanes * m
      BY <1>4, <2>1, Times
    <3>2. QED  BY <2>1, <3>1
  <2>4. f[k + 1] = Put(f[k], dst + p, Window(f[k], src + p, Lanes))
    BY <1>2, <2>1, <2>2, <2>3 DEF MoveStep
  <2>5. HasMoved(mem, f[k], src, dst, p)  BY <1>6, <2>3
  <2>6. PICK q \in Nat : q = Lanes * m  BY <1>4
  <2>7. dst <= src /\ src + p + Lanes <= WetR + Buffer
    <3>1. dst <= src /\ src + q <= WetR + Buffer /\ p + Lanes <= q  BY <1>2, <2>3, <2>6
    <3>2. QED  BY <1>4, <3>1
  <2>8. HasMoved(mem, f[k + 1], src, dst, p + Lanes)  BY <2>4, <2>5, <2>7, MovesOn
  <2>9. QED  BY <2>1, <2>3, <2>8
<1>7. m \in A
  <2> HIDE DEF A
  <2>1. 0 .. m \subseteq A  BY <1>5, <1>6, UpInduction
  <2>2. QED  BY <2>1
<1>8. QED  BY <1>1, <1>2, <1>3, <1>7

-----------------------------------------------------------------------------
(* Recurrences and sums. *)

(* One sample more of the recurrence, and the fold of Recurred over it. *)
RecurStep(s, w, r, k) == Append(s, w[k][1] * s[Len(s) - 1] + w[k][2] * s[Len(s)] + r[k])

(* A recurrence, term by term. *)
LEMMA RecurredFold ==
    ASSUME NEW n \in Nat, NEW w \in [1 .. n -> Numbers(2)], NEW r \in Numbers(n),
           NEW b \in Numbers(2)
    PROVE \E f : /\ f[0] = b
                 /\ \A k \in 1 .. n : f[k] = RecurStep(f[k - 1], w, r, k)
                 /\ Recurred(b, w, r) = f[n]
<1> DEFINE g == UpTo(n)
           Eq(h) == h = [s \in SUBSET (1 .. n) |->
                            IF s = {} THEN b
                            ELSE RecurStep(h[s \ {Max(s)}], w, r, g[Max(s)])]
<1>1. DOMAIN g = 1 .. n /\ \A k \in 1 .. n : g[k] = k  BY DEF UpTo
<1>2. Recurred(b, w, r) = (CHOOSE h : Eq(h))[1 .. n]
  <2>1. Len(r) = n  BY NumbersAre
  <2>2. Recurred(b, w, r) = (CHOOSE h : h = [s \in SUBSET (DOMAIN g) |->
                                IF s = {} THEN b
                                ELSE RecurStep(h[s \ {Max(s)}], w, r, g[Max(s)])])[DOMAIN g]
    BY <2>1 DEF Recurred, RecurStep, FoldLeft, MapThenFoldSet
  <2>3. QED  BY <1>1, <2>2
<1> HIDE DEF g
<1>3. \E h : Eq(h)
  <2> DEFINE D == {s \in Seq(Int) : Len(s) >= 2}
             F == [x \in D \X (1 .. n) |-> RecurStep(x[1], w, r, x[2])]
  <2>1. ASSUME NEW s \in D, NEW k \in 1 .. n PROVE RecurStep(s, w, r, k) \in D
    <3>1. w[k][1] \in Int /\ w[k][2] \in Int /\ r[k] \in Int
      <4>1. w[k] \in Numbers(2) /\ 1 \in 1 .. 2 /\ 2 \in 1 .. 2  OBVIOUS
      <4>2. QED  BY <4>1 DEF Numbers
    <3>2. s \in Seq(Int) /\ Len(s) - 1 \in 1 .. Len(s) /\ Len(s) \in 1 .. Len(s)  OBVIOUS
    <3>3. s[Len(s) - 1] \in Int /\ s[Len(s)] \in Int  BY <3>2
    <3>4. w[k][1] * s[Len(s) - 1] + w[k][2] * s[Len(s)] + r[k] \in Int  BY <3>1, <3>3
    <3>5. QED  BY <3>2, <3>4 DEF RecurStep
  <2>2. b \in D  BY NumbersAre
  <2> HIDE DEF D
  <2>3. F \in [D \X (1 .. n) -> D]  BY <2>1
  <2>4. PICK h : h \in [SUBSET (1 .. n) -> D] /\ Fold(n, b, F, h)
    <3> HIDE DEF F, Eq
    <3>1. QED  BY <2>2, <2>3, FoldExists
  <2>5. ASSUME NEW s \in SUBSET (1 .. n), s # {}
        PROVE F[<<h[s \ {Max(s)}], Max(s)>>] = RecurStep(h[s \ {Max(s)}], w, r, g[Max(s)])
    <3>1. Max(s) \in 1 .. n  BY <2>5, MaxOf
    <3>2. h[s \ {Max(s)}] \in D  BY <2>4
    <3>3. QED  BY <1>1, <3>1, <3>2
  <2> HIDE DEF F
  <2>6. h = [s \in SUBSET (1 .. n) |->
                IF s = {} THEN b ELSE RecurStep(h[s \ {Max(s)}], w, r, g[Max(s)])]
    BY <2>4, <2>5 DEF Fold
  <2>7. QED  BY <2>6
<1>4. PICK h : Eq(h) /\ Recurred(b, w, r) = h[1 .. n]
  <2> HIDE DEF Eq
  <2>1. QED  BY <1>2, <1>3
<1> DEFINE f == [k \in 0 .. n |-> h[1 .. k]]
<1>5. ASSUME NEW k \in 1 .. n PROVE f[k] = RecurStep(f[k - 1], w, r, k)
  <2>1. f[k] = h[1 .. k] /\ f[k - 1] = h[1 .. k - 1]  OBVIOUS
  <2> HIDE DEF f
  <2>2. h[1 .. k] = RecurStep(h[(1 .. k) \ {Max(1 .. k)}], w, r, g[Max(1 .. k)])
    BY <1>4, Segment
  <2>3. QED  BY <1>1, <2>1, <2>2, Segment
<1>6. f[0] = b /\ f[n] = Recurred(b, w, r)
  <2>1. 1 .. 0 = {} /\ 1 .. 0 \in SUBSET (1 .. n)  OBVIOUS
  <2>2. h[1 .. 0] = b  BY <1>4, <2>1
  <2> HIDE DEF Eq
  <2>3. f[0] = h[1 .. 0] /\ f[n] = h[1 .. n]  OBVIOUS
  <2>4. QED  BY <1>4, <2>2, <2>3
<1> HIDE DEF f, Eq
<1>7. QED  BY <1>5, <1>6

(* s holds b and k terms after it, each made of the last two. *)
Recurs(s, b, w, r, k) ==
    /\ s \in Numbers(k + 2) /\ s[1] = b[1] /\ s[2] = b[2]
    /\ \A j \in 1 .. k : s[j + 2] = w[j][1] * s[j] + w[j][2] * s[j + 1] + r[j]

(* The recurrence goes on by one sample. *)
LEMMA RecursOn ==
    ASSUME NEW n \in Nat, NEW w \in [1 .. n -> Numbers(2)], NEW r \in Numbers(n), NEW b,
           NEW k \in 0 .. n - 1, NEW s, Recurs(s, b, w, r, k)
    PROVE Recurs(RecurStep(s, w, r, k + 1), b, w, r, k + 1)
<1>1. /\ s \in Numbers(k + 2) /\ s[1] = b[1] /\ s[2] = b[2]
      /\ \A j \in 1 .. k : s[j + 2] = w[j][1] * s[j] + w[j][2] * s[j + 1] + r[j]
  BY DEF Recurs
<1>2. /\ s \in Seq(Int) /\ Len(s) = k + 2 /\ k + 2 \in Nat
      /\ \A i \in 1 .. k + 2 : s[i] \in Int
  BY <1>1, NumbersAre
<1>3. PICK z : z = w[k + 1][1] * s[k + 1] + w[k + 1][2] * s[k + 2] + r[k + 1]  OBVIOUS
<1>4. z \in Int
  <2>1. w[k + 1] \in Numbers(2) /\ r[k + 1] \in Int /\ 1 \in 1 .. 2 /\ 2 \in 1 .. 2
    BY DEF Numbers
  <2>2. w[k + 1][1] \in Int /\ w[k + 1][2] \in Int  BY <2>1 DEF Numbers
  <2>3. s[k + 1] \in Int /\ s[k + 2] \in Int  BY <1>2
  <2>4. QED  BY <1>3, <2>1, <2>2, <2>3
<1>5. PICK t : t = RecurStep(s, w, r, k + 1)  OBVIOUS
<1>6. t = Append(s, z)
  <2>1. Len(s) - 1 = k + 1 /\ Len(s) = k + 2  BY <1>2
  <2>2. QED  BY <1>3, <1>5, <2>1 DEF RecurStep
<1>7. /\ t \in Seq(Int) /\ Len(t) = k + 3 /\ t[k + 3] = z
      /\ \A i \in 1 .. k + 2 : t[i] = s[i]
  BY <1>2, <1>4, <1>6
<1>8. t \in Numbers(k + 1 + 2)
  <2>1. k + 1 + 2 = k + 3  OBVIOUS
  <2>2. QED  BY <1>7, <2>1, SeqIs
<1>9. ASSUME NEW j \in 1 .. k + 1
      PROVE t[j + 2] = w[j][1] * t[j] + w[j][2] * t[j + 1] + r[j]
  <2>1. t[j] = s[j] /\ t[j + 1] = s[j + 1]
    <3>1. j \in 1 .. k + 2 /\ j + 1 \in 1 .. k + 2  OBVIOUS
    <3>2. QED  BY <1>7, <3>1
  <2>2. CASE j = k + 1
    <3>1. j + 2 = k + 3 /\ j + 1 = k + 2  BY <2>2
    <3>2. QED  BY <1>3, <1>7, <2>1, <2>2, <3>1
  <2>3. CASE j # k + 1
    <3>1. j \in 1 .. k /\ j + 2 \in 1 .. k + 2  BY <2>3
    <3>2. QED  BY <1>1, <1>7, <2>1, <3>1
  <2>4. QED  BY <2>2, <2>3
<1>10. t[1] = b[1] /\ t[2] = b[2]  BY <1>1, <1>7
<1>11. QED  BY <1>5, <1>8, <1>9, <1>10 DEF Recurs

(* Recurred is what its recurrence says. *)
LEMMA RecurredIs ==
    ASSUME NEW n \in Nat, NEW w \in [1 .. n -> Numbers(2)], NEW r \in Numbers(n),
           NEW b \in Numbers(2)
    PROVE Recurs(Recurred(b, w, r), b, w, r, n)
<1>1. PICK f : /\ f[0] = b
               /\ \A k \in 1 .. n : f[k] = RecurStep(f[k - 1], w, r, k)
               /\ Recurred(b, w, r) = f[n]
  BY RecurredFold
<1> DEFINE A == {k \in 0 .. n : Recurs(f[k], b, w, r, k)}
<1>2. 0 \in A  BY <1>1 DEF Recurs
<1>3. ASSUME NEW k \in A, k \in 0 .. n - 1 PROVE k + 1 \in A
  <2>1. k + 1 \in 1 .. n /\ k + 1 \in 0 .. n /\ k + 1 - 1 = k /\ Recurs(f[k], b, w, r, k)
    BY <1>3
  <2>2. f[k + 1] = RecurStep(f[k], w, r, k + 1)  BY <1>1, <2>1
  <2>3. Recurs(f[k + 1], b, w, r, k + 1)  BY <1>3, <2>1, <2>2, RecursOn
  <2>4. QED  BY <2>1, <2>3
<1>4. n \in A
  <2> HIDE DEF A
  <2>1. 0 .. n \subseteq A  BY <1>2, <1>3, UpInduction
  <2>2. QED  BY <2>1
<1>5. QED  BY <1>1, <1>4

(* A sum of integers is one. *)
LEMMA TotalTyped ==
    ASSUME NEW n \in Nat, NEW s \in Numbers(n)
    PROVE Total(s) \in Int
<1>1. PICK f : Sums(f, s, n)  BY TotalIs
<1>2. QED  BY <1>1 DEF Sums

(* One term more. *)
LEMMA TotalOn ==
    ASSUME NEW n \in Nat, NEW s \in Numbers(n + 1), NEW t \in Numbers(n),
           \A j \in 1 .. n : t[j] = s[j]
    PROVE Total(s) = Total(t) + s[n + 1]
<1>1. PICK f : Sums(f, s, n + 1)
  <2>1. n + 1 \in Nat  OBVIOUS
  <2>2. QED  BY <2>1, TotalIs
<1>2. PICK g : Sums(g, t, n)  BY TotalIs
<1> USE DEF Sums
<1> DEFINE A == {k \in 0 .. n : f[k] = g[k]}
<1>3. 0 \in A  BY <1>1, <1>2
<1>4. ASSUME NEW k \in A, k \in 0 .. n - 1 PROVE k + 1 \in A  BY <1>1, <1>2, <1>4
<1>5. n \in A
  <2> HIDE DEF A
  <2>1. 0 .. n \subseteq A  BY <1>3, <1>4, UpInduction
  <2>2. QED  BY <2>1
<1>6. n + 1 \in 1 .. n + 1 /\ n + 1 - 1 = n  OBVIOUS
<1>7. QED  BY <1>1, <1>2, <1>5, <1>6

(* The empty sum. *)
LEMMA TotalNone ==
    ASSUME NEW s \in Numbers(0)
    PROVE Total(s) = 0
<1>1. 0 \in Nat  OBVIOUS
<1>2. PICK f : Sums(f, s, 0)  BY <1>1, TotalIs
<1>3. QED  BY <1>2 DEF Sums

(* A partial sum and the next. *)
LEMMA SumsOn ==
    ASSUME NEW n \in Nat, NEW f, NEW s, Sums(f, s, n), NEW k \in 0 .. n - 1
    PROVE f[k] \in Int /\ f[k + 1] = f[k] + s[k + 1]
<1>1. k + 1 \in 1 .. n /\ k + 1 - 1 = k /\ k \in 0 .. n  OBVIOUS
<1>2. QED  BY <1>1 DEF Sums

(* z is the combination of x and y with the weights a and b. *)
Linear(z, a, x, b, y, n) == \A j \in 1 .. n : z[j] = a * x[j] + b * y[j]

(* Total is linear. *)
LEMMA TotalLinear ==
    ASSUME NEW n \in Nat, NEW x \in Numbers(n), NEW y \in Numbers(n), NEW z \in Numbers(n),
           NEW a \in Int, NEW b \in Int, Linear(z, a, x, b, y, n)
    PROVE Total(z) = a * Total(x) + b * Total(y)
<1>1. PICK f : Sums(f, x, n)  BY TotalIs
<1>2. PICK g : Sums(g, y, n)  BY TotalIs
<1>3. PICK h : Sums(h, z, n)  BY TotalIs
<1> DEFINE A == {k \in 0 .. n : h[k] = a * f[k] + b * g[k]}
<1>4. 0 \in A  BY <1>1, <1>2, <1>3 DEF Sums
<1>5. ASSUME NEW k \in A, k \in 0 .. n - 1 PROVE k + 1 \in A
  <2>1. k + 1 \in 1 .. n /\ k + 1 \in 0 .. n /\ k + 1 - 1 = k /\ h[k] = a * f[k] + b * g[k]
    BY <1>5
  <2>2. k \in 0 .. n - 1  BY <1>5
  <2>3. /\ f[k] \in Int /\ f[k + 1] = f[k] + x[k + 1]
        /\ g[k] \in Int /\ g[k + 1] = g[k] + y[k + 1]
        /\ h[k + 1] = h[k] + z[k + 1]
    BY <1>1, <1>2, <1>3, <2>2, SumsOn
  <2>4. PICK p \in Int, q \in Int, u \in Int, w \in Int :
            p = f[k] /\ q = g[k] /\ u = x[k + 1] /\ w = y[k + 1]
    BY <2>1, <2>3 DEF Numbers
  <2>5. h[k] = a * p + b * q /\ z[k + 1] = a * u + b * w  BY <2>1, <2>4 DEF Linear
  <2>6. (a * p + b * q) + (a * u + b * w) = a * (p + u) + b * (q + w)  OBVIOUS
  <2>7. h[k + 1] = a * f[k + 1] + b * g[k + 1]  BY <2>3, <2>4, <2>5, <2>6
  <2>8. QED  BY <2>1, <2>7
<1>6. n \in A
  <2> HIDE DEF A
  <2>1. 0 .. n \subseteq A  BY <1>4, <1>5, UpInduction
  <2>2. QED  BY <2>1
<1>7. h[n] = a * f[n] + b * g[n]  BY <1>6
<1>8. QED  BY <1>1, <1>2, <1>3, <1>7 DEF Sums

(* What residuals alone amount to at the i-th place after them. *)
Response(q, r, i) == Total([j \in 1 .. i |-> q[i - j + 2] * r[j]])

(* q is the response of a predictor to what b starts it with. *)
Impulse(q, b, w) == Recurs(q, b, [k \in 1 .. Lanes |-> w], Zeros(Lanes), Lanes)

(* The impulse response, written out. *)
LEMMA ImpulseIs ==
    ASSUME NEW w \in Numbers(2), NEW b \in Numbers(2), NEW q, Impulse(q, b, w)
    PROVE /\ q \in Numbers(Lanes + 2) /\ q[1] = b[1] /\ q[2] = b[2]
          /\ \A j \in 1 .. Lanes : q[j + 2] = w[1] * q[j] + w[2] * q[j + 1]
<1>1. Lanes \in Nat  BY Sizes
<1>2. /\ q \in Numbers(Lanes + 2) /\ q[1] = b[1] /\ q[2] = b[2]
      /\ \A j \in 1 .. Lanes : q[j + 2] = w[1] * q[j] + w[2] * q[j + 1] + Zeros(Lanes)[j]
  BY DEF Impulse, Recurs
<1>3. w[1] \in Int /\ w[2] \in Int  BY DEF Numbers
<1>4. ASSUME NEW j \in 1 .. Lanes PROVE q[j + 2] = w[1] * q[j] + w[2] * q[j + 1]
  <2>1. j \in 1 .. Lanes + 2 /\ j + 1 \in 1 .. Lanes + 2  BY <1>1
  <2>2. q[j] \in Int /\ q[j + 1] \in Int  BY <1>2, <2>1 DEF Numbers
  <2>3. w[1] * q[j] + w[2] * q[j + 1] \in Int  BY <1>3, <2>2
  <2>4. Zeros(Lanes)[j] = 0  BY <1>1, ZerosAre
  <2>5. QED  BY <1>2, <2>3, <2>4
<1>5. QED  BY <1>2, <1>4

(* A response is an integer, and what it sums are. *)
LEMMA ResponseTyped ==
    ASSUME NEW q \in Numbers(Lanes + 2), NEW r \in Numbers(Lanes), NEW i \in 0 .. Lanes
    PROVE /\ [j \in 1 .. i |-> q[i - j + 2] * r[j]] \in Numbers(i)
          /\ Response(q, r, i) \in Int
<1>1. Lanes \in Nat /\ i \in Nat  BY Sizes
<1>2. ASSUME NEW j \in 1 .. i PROVE q[i - j + 2] * r[j] \in Int  BY <1>1 DEF Numbers
<1>3. [j \in 1 .. i |-> q[i - j + 2] * r[j]] \in Numbers(i)  BY <1>2 DEF Numbers
<1>4. QED  BY <1>1, <1>3, TotalTyped DEF Response

(* The response follows the recurrence that the impulse follows. *)
LEMMA ResponseOn ==
    ASSUME NEW w \in Numbers(2), NEW q, Impulse(q, <<0, 1>>, w), NEW r \in Numbers(Lanes),
           NEW i \in 1 .. Lanes
    PROVE Response(q, r, i) = w[1] * (IF i = 1 THEN 0 ELSE Response(q, r, i - 2))
                              + w[2] * Response(q, r, i - 1) + r[i]
<1>1. Lanes \in Nat /\ i \in Nat /\ i - 1 \in Nat  BY Sizes
<1>2. /\ q \in Numbers(Lanes + 2) /\ q[1] = 0 /\ q[2] = 1
      /\ \A j \in 1 .. Lanes : q[j + 2] = w[1] * q[j] + w[2] * q[j + 1]
  BY ImpulseIs DEF Numbers
<1>3. /\ \A j \in 1 .. Lanes : r[j] \in Int
      /\ \A j \in 1 .. Lanes + 2 : q[j] \in Int
      /\ w[1] \in Int /\ w[2] \in Int
  <2>1. 1 \in 1 .. 2 /\ 2 \in 1 .. 2  OBVIOUS
  <2>2. QED  BY <1>2, <2>1 DEF Numbers
<1> DEFINE z == [j \in 1 .. i - 1 |-> q[i - j + 2] * r[j]]
           x == [j \in 1 .. i - 1 |-> q[i - j] * r[j]]
           y == [j \in 1 .. i - 1 |-> q[(i - 1) - j + 2] * r[j]]
<1>4. ASSUME NEW j \in 1 .. i - 1
      PROVE /\ z[j] \in Int /\ x[j] \in Int /\ y[j] \in Int
            /\ z[j] = w[1] * x[j] + w[2] * y[j]
  BY <1>1, <1>2, <1>3
<1>5. z \in Numbers(i - 1) /\ x \in Numbers(i - 1) /\ y \in Numbers(i - 1)  BY <1>4 DEF Numbers
<1>6. Total(y) = Response(q, r, i - 1)  BY DEF Response
<1>7. Total(z) = w[1] * Total(x) + w[2] * Total(y)
  <2>1. Linear(z, w[1], x, w[2], y, i - 1)  BY <1>4 DEF Linear
  <2> HIDE DEF x, y, z
  <2>2. QED  BY <1>1, <1>3, <1>5, <2>1, TotalLinear
<1>8. Response(q, r, i) = Total(z) + r[i]
  <2> DEFINE s == [j \in 1 .. i |-> q[i - j + 2] * r[j]]
  <2>1. s \in Numbers(i)
    <3>1. i \in 0 .. Lanes  BY <1>1
    <3>2. QED  BY <1>2, <3>1, ResponseTyped
  <2>2. i = (i - 1) + 1 /\ i - i + 2 = 2 /\ i \in 1 .. i  BY <1>1
  <2>3. s[i] = r[i]
    <3>1. s[i] = q[2] * r[i]  BY <2>2
    <3>2. QED  BY <1>2, <1>3, <3>1
  <2>4. \A j \in 1 .. i - 1 : z[j] = s[j]  BY <1>1
  <2>5. Response(q, r, i) = Total(s)  BY DEF Response
  <2> HIDE DEF s, z
  <2>6. Total(s) = Total(z) + s[(i - 1) + 1]  BY <1>1, <1>5, <2>1, <2>2, <2>4, TotalOn
  <2>7. QED  BY <2>2, <2>3, <2>5, <2>6
<1>9. Total(x) = IF i = 1 THEN 0 ELSE Response(q, r, i - 2)
  <2>1. CASE i = 1  BY <1>5, <2>1, TotalNone
  <2>2. CASE i # 1
    <3> DEFINE s == [j \in 1 .. i - 2 |-> q[(i - 2) - j + 2] * r[j]]
    <3>1. i - 2 \in 0 .. Lanes /\ i - 2 \in Nat /\ i - 1 = (i - 2) + 1 /\ i - 1 \in 1 .. i - 1
      BY <1>1, <2>2
    <3>2. s \in Numbers(i - 2)  BY <1>2, <3>1, ResponseTyped
    <3>3. \A j \in 1 .. i - 2 : s[j] = x[j]  BY <1>1
    <3>4. x[i - 1] = 0  BY <1>1, <1>2, <1>3, <3>1
    <3>5. Total(s) = Response(q, r, i - 2)  BY DEF Response
    <3>6. Total(s) \in Int  BY <1>2, <3>1, <3>5, ResponseTyped
    <3> HIDE DEF s, x
    <3>7. Total(x) = Total(s) + x[(i - 2) + 1]  BY <1>5, <3>1, <3>2, <3>3, TotalOn
    <3>8. QED  BY <2>2, <3>1, <3>4, <3>5, <3>6, <3>7
  <2>3. QED  BY <2>1, <2>2
<1> HIDE DEF x, y, z
<1>10. QED  BY <1>6, <1>7, <1>8, <1>9

-----------------------------------------------------------------------------
(* ADPCM: a vector predicted at once by the expanded weights is what the   *)
(* recurrence makes one sample after the other.                            *)

(* The last residual enters a response as it is, as the microcode adds it. *)
LEMMA ResponseLast ==
    ASSUME NEW q \in Numbers(Lanes + 2), q[2] = 1, NEW r \in Numbers(Lanes),
           NEW i \in 1 .. Lanes
    PROVE /\ Total([j \in 1 .. i - 1 |-> q[i - j + 2] * r[j]]) \in Int
          /\ Response(q, r, i) = Total([j \in 1 .. i - 1 |-> q[i - j + 2] * r[j]]) + r[i]
<1> DEFINE s == [j \in 1 .. i |-> q[i - j + 2] * r[j]]
           z == [j \in 1 .. i - 1 |-> q[i - j + 2] * r[j]]
<1>1. Lanes \in Nat /\ i \in Nat /\ i - 1 \in Nat /\ i \in 0 .. Lanes  BY Sizes
<1>2. s \in Numbers(i)  BY <1>1, ResponseTyped
<1>3. i = (i - 1) + 1 /\ i - i + 2 = 2 /\ i \in 1 .. i  BY <1>1
<1>4. s[i] = r[i]
  <2>1. s[i] = q[2] * r[i]  BY <1>3
  <2>2. r[i] \in Int  BY DEF Numbers
  <2>3. QED  BY <2>1, <2>2
<1>5. \A j \in 1 .. i - 1 : z[j] = s[j]  BY <1>1
<1>6. z \in Numbers(i - 1)
  <2>1. \A j \in 1 .. i - 1 : s[j] \in Int
    <3>1. \A j \in 1 .. i - 1 : j \in 1 .. i  BY <1>1
    <3> HIDE DEF s
    <3>2. QED  BY <1>2, <3>1 DEF Numbers
  <2>2. z = [j \in 1 .. i - 1 |-> z[j]]  OBVIOUS
  <2> HIDE DEF s, z
  <2>3. QED  BY <1>5, <2>1, <2>2 DEF Numbers
<1>7. Response(q, r, i) = Total(s)  BY DEF Response
<1> HIDE DEF s
<1>8. SUFFICES Total(z) \in Int /\ Total(s) = Total(z) + r[i]  BY <1>7
<1> HIDE DEF z
<1>9. Total(z) \in Int  BY <1>1, <1>6, TotalTyped
<1>10. Total(s) = Total(z) + s[(i - 1) + 1]  BY <1>1, <1>2, <1>3, <1>5, <1>6, TotalOn
<1>11. QED  BY <1>3, <1>4, <1>9, <1>10

(* v is the last two samples before and a vector that follows from them. *)
Follows(v, w, before, r) ==
    /\ v \in Numbers(Lanes + 2)
    /\ v[1] = before[Lanes - 1] /\ v[2] = before[Lanes]
    /\ \A i \in 1 .. Lanes : v[i + 2] = w[1] * v[i] + w[2] * v[i + 1] + r[i]

(* The samples are what each of the two before and the residuals make.     *)
Superposed(v, p, q, r, k) ==
    v[k + 2] = p[k + 2] * v[1] + q[k + 2] * v[2] + Response(q, r, k)

(* What follows a vector is the superposition of three responses: to the   *)
(* sample before last, to the last, and to the residuals.                  *)
LEMMA FollowsIs ==
    ASSUME NEW w \in Numbers(2), NEW p, Impulse(p, <<1, 0>>, w),
           NEW q, Impulse(q, <<0, 1>>, w), NEW r \in Numbers(Lanes), NEW before,
           NEW v, Follows(v, w, before, r)
    PROVE \A i \in 0 .. Lanes : Superposed(v, p, q, r, i)
<1>1. Lanes \in Nat \ {0} /\ Lanes > 1  BY HandlerAssumption
<1>2. /\ p \in Numbers(Lanes + 2) /\ p[1] = 1 /\ p[2] = 0
      /\ \A j \in 1 .. Lanes : p[j + 2] = w[1] * p[j] + w[2] * p[j + 1]
  <2>1. <<1, 0>> \in Numbers(2) /\ <<1, 0>>[1] = 1 /\ <<1, 0>>[2] = 0  BY DEF Numbers
  <2>2. QED  BY <2>1, ImpulseIs
<1>3. /\ q \in Numbers(Lanes + 2) /\ q[1] = 0 /\ q[2] = 1
      /\ \A j \in 1 .. Lanes : q[j + 2] = w[1] * q[j] + w[2] * q[j + 1]
  <2>1. <<0, 1>> \in Numbers(2) /\ <<0, 1>>[1] = 0 /\ <<0, 1>>[2] = 1  BY DEF Numbers
  <2>2. QED  BY <2>1, ImpulseIs
<1>4. /\ v \in Numbers(Lanes + 2)
      /\ \A i \in 1 .. Lanes : v[i + 2] = w[1] * v[i] + w[2] * v[i + 1] + r[i]
  BY DEF Follows
<1>5. /\ w[1] \in Int /\ w[2] \in Int /\ v[1] \in Int /\ v[2] \in Int
      /\ \A k \in 1 .. Lanes : r[k] \in Int
      /\ \A k \in 1 .. Lanes + 2 : p[k] \in Int /\ q[k] \in Int /\ v[k] \in Int
  <2>1. 1 \in 1 .. 2 /\ 2 \in 1 .. 2 /\ 1 \in 1 .. Lanes + 2 /\ 2 \in 1 .. Lanes + 2  BY <1>1
  <2>2. QED  BY <1>2, <1>3, <1>4, <2>1 DEF Numbers
<1>6. \A k \in 0 .. Lanes : Response(q, r, k) \in Int  BY <1>3, ResponseTyped
<1>7. Response(q, r, 0) = 0
  <2>1. [j \in 1 .. 0 |-> q[0 - j + 2] * r[j]] \in Numbers(0)  BY DEF Numbers
  <2>2. QED  BY <2>1, TotalNone DEF Response
<1>8. Superposed(v, p, q, r, 0)
  <2>1. 0 + 2 = 2  OBVIOUS
  <2>2. QED  BY <1>2, <1>3, <1>5, <1>7, <2>1 DEF Superposed
<1> DEFINE Earlier(k) == IF k = 0 THEN 0 ELSE Response(q, r, k - 1)
           A == {k \in 0 .. Lanes : /\ Superposed(v, p, q, r, k)
                                    /\ v[k + 1] = p[k + 1] * v[1] + q[k + 1] * v[2] + Earlier(k)}
<1>9. 0 \in A
  <2>1. 0 + 1 = 1 /\ Earlier(0) = 0 /\ 0 \in 0 .. Lanes  BY <1>1
  <2> HIDE DEF Earlier
  <2>2. QED  BY <1>2, <1>3, <1>5, <1>8, <2>1
<1>10. ASSUME NEW k \in A, k \in 0 .. Lanes - 1 PROVE k + 1 \in A
  <2>1. /\ k \in Nat /\ k + 1 \in 1 .. Lanes /\ k + 1 \in 0 .. Lanes /\ k \in 0 .. Lanes
        /\ k + 1 \in 1 .. Lanes + 2
        /\ k + 2 \in 1 .. Lanes + 2 /\ k + 3 \in 1 .. Lanes + 2
        /\ k + 1 + 2 = k + 3 /\ k + 1 + 1 = k + 2 /\ k + 1 - 1 = k /\ (k + 1) - 2 = k - 1
        /\ (k + 1 = 1 <=> k = 0) /\ k + 1 # 0 /\ (k = 0 \/ k - 1 \in 0 .. Lanes)
    BY <1>1, <1>10
  <2>2. /\ v[k + 2] = p[k + 2] * v[1] + q[k + 2] * v[2] + Response(q, r, k)
        /\ v[k + 1] = p[k + 1] * v[1] + q[k + 1] * v[2] + Earlier(k)
    BY <1>10 DEF Superposed
  <2>3. Response(q, r, k + 1) = w[1] * Earlier(k) + w[2] * Response(q, r, k) + r[k + 1]
    <3>1. Response(q, r, k + 1) = w[1] * (IF k + 1 = 1 THEN 0 ELSE Response(q, r, (k + 1) - 2))
                                  + w[2] * Response(q, r, (k + 1) - 1) + r[k + 1]
      BY <2>1, ResponseOn
    <3>2. QED  BY <2>1, <3>1
  <2>4. Earlier(k) \in Int
    <3>1. k # 0 => Response(q, r, k - 1) \in Int  BY <1>6, <2>1
    <3>2. QED  BY <3>1
  <2>5. Earlier(k + 1) = Response(q, r, k)  BY <2>1
  <2> HIDE DEF Earlier, A
  <2>6. PICK a \in Int, b \in Int, c \in Int, d \in Int, e \in Int, f \in Int,
             g \in Int, h \in Int :
           a = w[1] /\ b = w[2] /\ c = v[1] /\ d = v[2]
           /\ e = p[k + 1] /\ f = p[k + 2] /\ g = q[k + 1] /\ h = q[k + 2]
    BY <1>5, <2>1
  <2>7. PICK s \in Int, t \in Int, u \in Int :
           s = Earlier(k) /\ t = Response(q, r, k) /\ u = r[k + 1]
    BY <1>5, <1>6, <2>1, <2>4
  <2>8. /\ v[k + 2] = f * c + h * d + t /\ v[k + 1] = e * c + g * d + s
        /\ p[k + 3] = a * e + b * f /\ q[k + 3] = a * g + b * h
        /\ v[k + 3] = a * v[k + 1] + b * v[k + 2] + u
        /\ Response(q, r, k + 1) = a * s + b * t + u
    <3>1. /\ p[(k + 1) + 2] = w[1] * p[k + 1] + w[2] * p[(k + 1) + 1]
          /\ q[(k + 1) + 2] = w[1] * q[k + 1] + w[2] * q[(k + 1) + 1]
          /\ v[(k + 1) + 2] = w[1] * v[k + 1] + w[2] * v[(k + 1) + 1] + r[k + 1]
      BY <1>2, <1>3, <1>4, <2>1
    <3>2. QED  BY <2>1, <2>2, <2>3, <2>6, <2>7, <3>1
  <2>9. a * (e * c + g * d + s) + b * (f * c + h * d + t) + u
           = (a * e + b * f) * c + (a * g + b * h) * d + (a * s + b * t + u)
    OBVIOUS
  <2>10. v[k + 3] = p[k + 3] * v[1] + q[k + 3] * v[2] + Response(q, r, k + 1)
    BY <2>6, <2>8, <2>9
  <2>11. Superposed(v, p, q, r, k + 1)  BY <2>1, <2>10 DEF Superposed
  <2>12. v[(k + 1) + 1] = p[(k + 1) + 1] * v[1] + q[(k + 1) + 1] * v[2] + Earlier(k + 1)
    BY <2>1, <2>2, <2>5
  <2>13. QED  BY <2>1, <2>11, <2>12 DEF A
<1>11. 0 .. Lanes \subseteq A
  <2> HIDE DEF A
  <2>1. QED  BY <1>1, <1>9, <1>10, UpInduction
<1>12. QED  BY <1>11

(* The weights of a predictor are the samples that follow a 1. *)
LEMMA WeightsAre ==
    ASSUME NEW w \in Numbers(2), NEW b \in Numbers(2)
    PROVE \E q : /\ Impulse(q, b, w) /\ q \in Numbers(Lanes + 2)
                 /\ Weights(w, b) \in Numbers(Lanes)
                 /\ \A i \in 1 .. Lanes : Weights(w, b)[i] = q[i + 2]
<1>1. Lanes \in Nat /\ Lanes + 2 \in Nat /\ 2 \in Nat /\ 2 + Lanes <= Lanes + 2
  <2>1. Lanes \in Nat  BY Sizes
  <2>2. QED  BY <2>1
<1>2. PICK q : q = Recurred(b, [k \in 1 .. Lanes |-> w], Zeros(Lanes))  OBVIOUS
<1>3. Impulse(q, b, w)
  <2>1. [k \in 1 .. Lanes |-> w] \in [1 .. Lanes -> Numbers(2)]  OBVIOUS
  <2>2. Zeros(Lanes) \in Numbers(Lanes)  BY <1>1, ZerosAre
  <2>3. QED  BY <1>1, <1>2, <2>1, <2>2, RecurredIs DEF Impulse
<1>4. q \in Numbers(Lanes + 2)  BY <1>3, ImpulseIs
<1>5. /\ SubSeq(q, 2 + 1, 2 + Lanes) \in Numbers(Lanes)
      /\ \A k \in 1 .. Lanes : SubSeq(q, 2 + 1, 2 + Lanes)[k] = q[2 + k]
  BY <1>1, <1>4, PartIs
<1>6. Weights(w, b) = SubSeq(q, 2 + 1, 2 + Lanes)
  <2>1. 2 + 1 = 3 /\ 2 + Lanes = Lanes + 2  BY <1>1
  <2>2. QED  BY <1>2, <2>1 DEF Weights
<1>7. \A k \in 1 .. Lanes : 2 + k = k + 2  BY <1>1
<1>8. QED  BY <1>3, <1>4, <1>5, <1>6, <1>7

(* The weights that a predictor is expanded to. *)
Expands(e, p, q) ==
    /\ e \in Numbers(Frame)
    /\ \A i \in 1 .. Lanes : e[i] = p[i + 2] /\ e[Lanes + i] = q[i + 2]

(* Expanded is the two impulse responses of its weights. *)
LEMMA ExpandedIs ==
    ASSUME NEW w \in Numbers(2)
    PROVE \E p, q : /\ Impulse(p, <<1, 0>>, w) /\ Impulse(q, <<0, 1>>, w)
                    /\ Expands(Expanded(w), p, q)
<1>1. <<1, 0>> \in Numbers(2) /\ <<0, 1>> \in Numbers(2)  BY DEF Numbers
<1>2. PICK p : /\ Impulse(p, <<1, 0>>, w)
               /\ Weights(w, <<1, 0>>) \in Numbers(Lanes)
               /\ \A i \in 1 .. Lanes : Weights(w, <<1, 0>>)[i] = p[i + 2]
  BY <1>1, WeightsAre
<1>3. PICK q : /\ Impulse(q, <<0, 1>>, w)
               /\ Weights(w, <<0, 1>>) \in Numbers(Lanes)
               /\ \A i \in 1 .. Lanes : Weights(w, <<0, 1>>)[i] = q[i + 2]
  BY <1>1, WeightsAre
<1>4. Lanes \in Nat /\ Frame = Lanes + Lanes  BY Sizes
<1>5. PICK e, s, t : s = Weights(w, <<1, 0>>) /\ t = Weights(w, <<0, 1>>) /\ e = s \o t
  OBVIOUS
<1>6. /\ e \in Numbers(Lanes + Lanes)
      /\ \A i \in 1 .. Lanes : e[i] = s[i] /\ e[Lanes + i] = t[i]
  BY <1>2, <1>3, <1>4, <1>5, ConcatIs
<1>7. Expanded(w) = e  BY <1>5 DEF Expanded
<1>8. Expands(e, p, q)  BY <1>2, <1>3, <1>4, <1>5, <1>6 DEF Expands
<1>9. QED  BY <1>2, <1>3, <1>7, <1>8

(* A vector predicted with the expanded weights is what follows, sample    *)
(* after sample.                                                           *)
LEMMA PredictedIs ==
    ASSUME NEW w \in Numbers(2), NEW r \in Numbers(Lanes), NEW before,
           NEW v, Follows(v, w, before, r)
    PROVE /\ Predicted(Expanded(w), before, r) \in Numbers(Lanes)
          /\ \A i \in 1 .. Lanes : Predicted(Expanded(w), before, r)[i] = v[i + 2]
<1>1. Lanes \in Nat /\ Lanes > 1  BY HandlerAssumption
<1>2. PICK p, q : /\ Impulse(p, <<1, 0>>, w) /\ Impulse(q, <<0, 1>>, w)
                  /\ Expands(Expanded(w), p, q)
  BY ExpandedIs
<1>3. PICK e : e = Expanded(w)  OBVIOUS
<1>4. \A i \in 1 .. Lanes : e[i] = p[i + 2] /\ e[Lanes + i] = q[i + 2]
  BY <1>2, <1>3 DEF Expands
<1>5. \A i \in 0 .. Lanes : Superposed(v, p, q, r, i)  BY <1>2, FollowsIs
<1>6. q \in Numbers(Lanes + 2) /\ q[2] = 1 /\ p \in Numbers(Lanes + 2)
  <2>1. <<0, 1>> \in Numbers(2) /\ <<0, 1>>[2] = 1 /\ <<1, 0>> \in Numbers(2)  BY DEF Numbers
  <2>2. QED  BY <1>2, <2>1, ImpulseIs
<1>7. v \in Numbers(Lanes + 2) /\ v[1] = before[Lanes - 1] /\ v[2] = before[Lanes]
  BY DEF Follows
<1>8. ASSUME NEW i \in 1 .. Lanes
      PROVE e[i] * before[Lanes - 1] + e[Lanes + i] * before[Lanes]
            + Total([j \in 1 .. i - 1 |-> e[Lanes + i - j] * r[j]]) + r[i] = v[i + 2]
  <2>1. \A j \in 1 .. i - 1 : /\ i - j \in 1 .. Lanes /\ Lanes + i - j = Lanes + (i - j)
                               /\ (i - j) + 2 = i - j + 2
    BY <1>1
  <2>2. \A j \in 1 .. i - 1 : e[Lanes + i - j] = q[i - j + 2]  BY <1>4, <2>1
  <2>3. [j \in 1 .. i - 1 |-> e[Lanes + i - j] * r[j]]
        = [j \in 1 .. i - 1 |-> q[i - j + 2] * r[j]]
    BY <2>2
  <2>4. PICK t \in Int : /\ t = Total([j \in 1 .. i - 1 |-> e[Lanes + i - j] * r[j]])
                         /\ Response(q, r, i) = t + r[i]
    BY <1>6, <2>3, ResponseLast
  <2>5. v[i + 2] = p[i + 2] * v[1] + q[i + 2] * v[2] + Response(q, r, i)
    <3>1. i \in 0 .. Lanes  BY <1>1
    <3>2. QED  BY <1>5, <3>1 DEF Superposed
  <2>6. p[i + 2] \in Int /\ q[i + 2] \in Int /\ v[1] \in Int /\ v[2] \in Int /\ r[i] \in Int
    <3>1. i + 2 \in 1 .. Lanes + 2 /\ 1 \in 1 .. Lanes + 2 /\ 2 \in 1 .. Lanes + 2  BY <1>1
    <3>2. QED  BY <1>6, <1>7, <3>1 DEF Numbers
  <2>7. PICK a \in Int, b \in Int : a = p[i + 2] * v[1] /\ b = q[i + 2] * v[2]
    BY <2>6
  <2>8. v[i + 2] = a + b + t + r[i]
    <3>1. v[i + 2] = a + b + (t + r[i])  BY <2>4, <2>5, <2>7, Zenon
    <3>2. PICK x \in Int : x = r[i]  BY <2>6
    <3>3. a + b + (t + x) = a + b + t + x  OBVIOUS
    <3>4. QED  BY <3>1, <3>2, <3>3
  <2>9. e[i] * before[Lanes - 1] = a /\ e[Lanes + i] * before[Lanes] = b
    BY <1>4, <1>7, <2>7
  <2>10. QED  BY <2>4, <2>8, <2>9
<1>9. PICK y : y = Predicted(e, before, r)  OBVIOUS
<1>10. y = [i \in 1 .. Lanes |-> v[i + 2]]  BY <1>8, <1>9 DEF Predicted
<1>11. ASSUME NEW i \in 1 .. Lanes PROVE v[i + 2] \in Int
  <2>1. i + 2 \in 1 .. Lanes + 2  BY <1>1
  <2>2. QED  BY <1>7, <2>1 DEF Numbers
<1>12. y \in Numbers(Lanes) /\ \A i \in 1 .. Lanes : y[i] = v[i + 2]
  BY <1>10, <1>11 DEF Numbers
<1>13. QED  BY <1>3, <1>9, <1>12

-----------------------------------------------------------------------------
(* The frames of a voice. *)

(* Quotient and remainder are what they are made of. *)
LEMMA DivOf ==
    ASSUME NEW d \in Nat \ {0}, NEW q \in Int, NEW r \in 0 .. d - 1
    PROVE /\ d * q \in Int /\ d * q + r \in Int
          /\ (d * q + r) \div d = q /\ (d * q + r) % d = r
<1>1. PICK x \in Int : x = d * q  OBVIOUS
<1>2. r \in Int /\ 0 <= r /\ r < d  OBVIOUS
<1>3. (q * d + r) \div d = q  BY <1>2
<1>4. (q * d + r) % d = r  BY <1>2
<1>5. d * q = q * d  OBVIOUS
<1>6. QED  BY <1>1, <1>2, <1>3, <1>4, <1>5

(* Every number is made of its quotient and its remainder. *)
LEMMA DivIs ==
    ASSUME NEW d \in Nat \ {0}, NEW x \in Int
    PROVE /\ x \div d \in Int /\ x % d \in 0 .. d - 1 /\ d * (x \div d) \in Int
          /\ x = d * (x \div d) + (x % d)
<1>1. PICK q \in Int, r \in 0 .. d - 1 : x = d * q + r
  <2>1. x = d * (x \div d) + (x % d) /\ x % d \in 0 .. d - 1 /\ x \div d \in Int  OBVIOUS
  <2>2. QED  BY <2>1
<1>2. x \div d = q /\ x % d = r /\ d * q \in Int  BY <1>1, DivOf
<1>3. QED  BY <1>1, <1>2

(* A frame has as many residuals as samples. *)
LEMMA ResidualsAre ==
    ASSUME NEW frame \in Int
    PROVE Residuals(frame) \in Numbers(Frame)
<1>1. ASSUME NEW i \in 1 .. Frame PROVE ((frame + i * i) % 3) - 1 \in Int  BY Sizes
<1>2. QED  BY <1>1 DEF Residuals, Numbers

(* A frame's header names one of the two predictors. *)
LEMMA PredictorIs ==
    ASSUME NEW v \in Voices, NEW frame \in Int
    PROVE Predictor(frame) \in 0 .. 1 /\ Coefficients[v][Predictor(frame)] \in Numbers(2)
<1>1. Predictor(frame) \in 0 .. 1  BY DEF Predictor
<1>2. Coefficients[v] \in [0 .. 1 -> Numbers(2)]  BY HandlerAssumption
<1>3. QED  BY <1>1, <1>2

(* An expanded predictor is as long as a frame. *)
LEMMA ExpandedTyped ==
    ASSUME NEW w \in Numbers(2)
    PROVE Expanded(w) \in Numbers(Frame)
BY ExpandedIs DEF Expands

(* A book is two of them. *)
LEMMA BookTyped ==
    ASSUME NEW v \in Voices
    PROVE Book(v) \in Numbers(Frame + Frame)
<1>1. Frame \in Nat  BY Sizes
<1>2. Coefficients[v][0] \in Numbers(2) /\ Coefficients[v][1] \in Numbers(2)  BY HandlerAssumption
<1>3. Expanded(Coefficients[v][0]) \in Numbers(Frame) /\ Expanded(Coefficients[v][1]) \in Numbers(Frame)
  BY <1>2, ExpandedTyped
<1>4. QED  BY <1>1, <1>3, ConcatIs DEF Book

(* The entry of a book that a header names is its expanded predictor. *)
LEMMA EntryIs ==
    ASSUME NEW v \in Voices, NEW frame \in Int
    PROVE Entry(Book(v), frame) = Expanded(Coefficients[v][Predictor(frame)])
<1>1. Frame \in Nat  BY Sizes
<1>2. PICK x \in Numbers(Frame), y \in Numbers(Frame) :
          x = Expanded(Coefficients[v][0]) /\ y = Expanded(Coefficients[v][1])
  BY HandlerAssumption, ExpandedTyped
<1>3. PICK b : b = Book(v)  OBVIOUS
<1>4. /\ b \in Numbers(Frame + Frame)
      /\ \A i \in 1 .. Frame : b[i] = x[i] /\ b[Frame + i] = y[i]
  <2>1. b = x \o y  BY <1>2, <1>3 DEF Book
  <2>2. QED  BY <1>1, <2>1, ConcatIs
<1>5. Predictor(frame) = 0 \/ Predictor(frame) = 1  BY DEF Predictor
<1>6. Predictor(frame) = 0 => Entry(b, frame) = x
  <2>1. SUFFICES ASSUME Predictor(frame) = 0 PROVE Entry(b, frame) = x  OBVIOUS
  <2>2. 0 \in Nat /\ 0 + Frame <= Frame + Frame /\ Frame + Frame \in Nat /\ Frame * 0 = 0
        /\ \A k \in 1 .. Frame : 0 + k = k
    BY <1>1
  <2>3. PICK s : s = SubSeq(b, 0 + 1, 0 + Frame)  OBVIOUS
  <2>4. s \in Numbers(Frame) /\ \A k \in 1 .. Frame : s[k] = b[0 + k]
    BY <1>1, <1>4, <2>2, <2>3, PartIs
  <2>5. \A k \in 1 .. Frame : s[k] = x[k]  BY <1>4, <2>2, <2>4
  <2>6. s = x  BY <1>1, <1>2, <2>4, <2>5, NumbersSame
  <2>7. QED  BY <2>1, <2>2, <2>3, <2>6 DEF Entry
<1>7. Predictor(frame) = 1 => Entry(b, frame) = y
  <2>1. SUFFICES ASSUME Predictor(frame) = 1 PROVE Entry(b, frame) = y  OBVIOUS
  <2>2. Frame + Frame <= Frame + Frame /\ Frame + Frame \in Nat /\ Frame * 1 = Frame
    BY <1>1
  <2>3. PICK s : s = SubSeq(b, Frame + 1, Frame + Frame)  OBVIOUS
  <2>4. s \in Numbers(Frame) /\ \A k \in 1 .. Frame : s[k] = b[Frame + k]
    BY <1>1, <1>4, <2>2, <2>3, PartIs
  <2>5. \A k \in 1 .. Frame : s[k] = y[k]  BY <1>4, <2>4
  <2>6. s = y  BY <1>1, <1>2, <2>4, <2>5, NumbersSame
  <2>7. QED  BY <2>1, <2>2, <2>3, <2>6 DEF Entry
<1>8. QED  BY <1>2, <1>3, <1>5, <1>6, <1>7, Zenon

(* A voice goes on frame by frame. *)
PlainFrame(v, m) ==
    \A i \in 1 .. Frame :
        Plain[v][Frame * m + i + 2] =
            Coefficients[v][Predictor(Rom[v][m + 1])][1] * Plain[v][Frame * m + i]
            + Coefficients[v][Predictor(Rom[v][m + 1])][2] * Plain[v][Frame * m + i + 1]
            + Residuals(Rom[v][m + 1])[i]

(* The frames of a voice and its loop, which is neither all nor nothing of *)
(* it.                                                                     *)
LEMMA RomIs ==
    ASSUME NEW v \in Voices
    PROVE /\ Len(Rom[v]) \in Nat /\ LoopStart[v] \in 1 .. Len(Rom[v]) - 1
          /\ \A k \in 1 .. Len(Rom[v]) : Rom[v][k] \in Nat
          /\ Frame * Len(Rom[v]) \in Nat
<1>1. Rom[v] \in Seq(Nat) /\ LoopStart[v] \in 1 .. Len(Rom[v]) - 1  BY HandlerAssumption
<1>2. Len(Rom[v]) \in Nat /\ \A k \in 1 .. Len(Rom[v]) : Rom[v][k] \in Nat  BY <1>1
<1>3. Frame \in Nat  BY Sizes
<1>4. Frame * Len(Rom[v]) \in Nat  BY <1>2, <1>3
<1>5. QED  BY <1>1, <1>2, <1>4

(* The reference decodes a voice frame by frame. *)
LEMMA PlainIs ==
    ASSUME NEW v \in Voices
    PROVE /\ Plain[v] \in Numbers(Frame * Len(Rom[v]) + 2)
          /\ Plain[v][1] = 0 /\ Plain[v][2] = 0
          /\ \A m \in 0 .. Len(Rom[v]) - 1 : PlainFrame(v, m)
<1> DEFINE n == Frame * Len(Rom[v])
           Source(k) == Rom[v][((k - 1) \div Frame) + 1]
           w == [k \in 1 .. n |-> Coefficients[v][Predictor(Source(k))]]
           r == [k \in 1 .. n |-> Residuals(Source(k))[((k - 1) % Frame) + 1]]
<1>1. Plain[v] = Recurred(<<0, 0>>, w, r)  BY DEF Plain
<1>2. Frame \in Nat \ {0} /\ Len(Rom[v]) \in Nat /\ n \in Nat  BY Sizes, RomIs
<1>3. ASSUME NEW k \in 1 .. n
      PROVE Source(k) \in Nat /\ ((k - 1) % Frame) + 1 \in 1 .. Frame
  <2>1. PICK q \in Int, t \in 0 .. Frame - 1 :
            q = (k - 1) \div Frame /\ t = (k - 1) % Frame /\ k - 1 = Frame * q + t
    <3>1. k - 1 \in Int  BY <1>2
    <3>2. QED  BY <1>2, <3>1, DivIs
  <2>2. k - 1 \in Nat /\ k - 1 < n  BY <1>2
  <2>3. q >= 0
    <3>1. SUFFICES ASSUME q <= -1 PROVE FALSE  BY <2>1
    <3>2. PICK j \in Nat : q = -1 - j  BY <3>1
    <3>3. Frame * q = -Frame - Frame * j /\ Frame * j \in Nat  BY <1>2, <3>2
    <3>4. QED  BY <1>2, <2>1, <2>2, <3>3
  <2>4. q < Len(Rom[v])
    <3>1. SUFFICES ASSUME q >= Len(Rom[v]) PROVE FALSE  BY <1>2, <2>1
    <3>2. PICK j \in Nat : q = Len(Rom[v]) + j
      <4>1. q - Len(Rom[v]) \in Nat /\ q = Len(Rom[v]) + (q - Len(Rom[v]))  BY <1>2, <3>1
      <4>2. QED  BY <4>1
    <3>3. PICK f \in Nat, l \in Nat : f = Frame /\ l = Len(Rom[v])  BY <1>2
    <3>4. f * (l + j) = f * l + f * j /\ f * j \in Nat  OBVIOUS
    <3>5. Frame * q = n + f * j /\ f * j \in Nat  BY <3>2, <3>3, <3>4
    <3> HIDE DEF n
    <3>6. QED  BY <1>2, <2>1, <2>2, <3>5
  <2>5. q + 1 \in 1 .. Len(Rom[v])  BY <1>2, <2>3, <2>4
  <2>6. Rom[v][q + 1] \in Nat  BY <2>5, RomIs
  <2>7. t + 1 \in 1 .. Frame  BY <1>2
  <2>8. QED  BY <2>1, <2>6, <2>7
<1>4. w \in [1 .. n -> Numbers(2)]
  <2>1. ASSUME NEW k \in 1 .. n PROVE Coefficients[v][Predictor(Source(k))] \in Numbers(2)
    BY <1>3, PredictorIs
  <2> HIDE DEF Source, n
  <2>2. QED  BY <2>1
<1>5. r \in Numbers(n)
  <2>1. ASSUME NEW k \in 1 .. n
        PROVE Residuals(Source(k))[((k - 1) % Frame) + 1] \in Int
    <3>1. Source(k) \in Int /\ ((k - 1) % Frame) + 1 \in 1 .. Frame  BY <1>3
    <3> HIDE DEF Source
    <3>2. Residuals(Source(k)) \in Numbers(Frame)  BY <3>1, ResidualsAre
    <3>3. QED  BY <3>1, <3>2 DEF Numbers
  <2> HIDE DEF Source, n
  <2>2. QED  BY <2>1 DEF Numbers
<1>6. Recurs(Plain[v], <<0, 0>>, w, r, n)
  <2>1. <<0, 0>> \in Numbers(2)  BY DEF Numbers
  <2> HIDE DEF w, r, n
  <2>2. QED  BY <1>1, <1>2, <1>4, <1>5, <2>1, RecurredIs
<1>7. /\ Plain[v] \in Numbers(n + 2) /\ Plain[v][1] = 0 /\ Plain[v][2] = 0
      /\ \A j \in 1 .. n : Plain[v][j + 2] = w[j][1] * Plain[v][j] + w[j][2] * Plain[v][j + 1] + r[j]
  <2> HIDE DEF w, r, n
  <2>1. QED  BY <1>6 DEF Recurs
<1>8. ASSUME NEW m \in 0 .. Len(Rom[v]) - 1, NEW i \in 1 .. Frame
      PROVE /\ Frame * m + i \in 1 .. n
            /\ Source(Frame * m + i) = Rom[v][m + 1]
            /\ ((Frame * m + i - 1) % Frame) + 1 = i
  <2>1. i - 1 \in 0 .. Frame - 1 /\ m \in Int /\ i \in Nat /\ i <= Frame /\ i >= 1 /\ m \in Nat
    BY <1>2
  <2>2. PICK x \in Nat : x = Frame * m  BY <1>2, <2>1
  <2>3. (x + (i - 1)) \div Frame = m /\ (x + (i - 1)) % Frame = i - 1
    BY <1>2, <2>1, <2>2, DivOf
  <2>4. x + i - 1 = x + (i - 1) /\ (x + i) - 1 = x + (i - 1)  BY <2>1
  <2>5. x + Frame <= n  BY <1>2, <2>2, Times
  <2>6. x + i \in 1 .. n  BY <1>2, <2>1, <2>5
  <2>7. Source(x + i) = Rom[v][m + 1]  BY <2>3, <2>4
  <2>8. ((x + i - 1) % Frame) + 1 = i  BY <2>1, <2>3, <2>4
  <2>9. QED  BY <2>2, <2>6, <2>7, <2>8
<1>9. ASSUME NEW m \in 0 .. Len(Rom[v]) - 1 PROVE PlainFrame(v, m)
  <2>1. ASSUME NEW i \in 1 .. Frame
        PROVE Plain[v][Frame * m + i + 2] =
                 Coefficients[v][Predictor(Rom[v][m + 1])][1] * Plain[v][Frame * m + i]
                 + Coefficients[v][Predictor(Rom[v][m + 1])][2] * Plain[v][Frame * m + i + 1]
                 + Residuals(Rom[v][m + 1])[i]
    <3>1. PICK j : j = Frame * m + i  OBVIOUS
    <3>2. /\ j \in 1 .. n /\ Source(j) = Rom[v][m + 1] /\ ((j - 1) % Frame) + 1 = i
      <4>1. i \in Int /\ Frame * m \in Int  BY <1>2
      <4>2. Frame * m + i - 1 = (Frame * m + i) - 1  BY <4>1
      <4> HIDE DEF n, Source
      <4>3. QED  BY <1>8, <3>1, <4>2
    <3>3. w[j] = Coefficients[v][Predictor(Rom[v][m + 1])] /\ r[j] = Residuals(Rom[v][m + 1])[i]
      <4> HIDE DEF n, Source
      <4>1. QED  BY <3>2
    <3>4. j + 2 = Frame * m + i + 2 /\ j + 1 = Frame * m + i + 1  BY <3>1
    <3> HIDE DEF n, w, r, Source
    <3>5. QED  BY <1>7, <3>1, <3>2, <3>3, <3>4
  <2>2. QED  BY <2>1 DEF PlainFrame
<1>10. QED  BY <1>7, <1>9

(* A vector has at least two samples, for the recurrence to look back on.  *)
LEMMA LanesAre ==
    Lanes \in Nat /\ Lanes > 1 /\ Frame = Lanes + Lanes /\ Frame \in Nat /\ Frame > 1
<1>1. {Lanes, Taps} \subseteq Nat \ {0} /\ Taps < Lanes  BY HandlerAssumption
<1>2. Lanes \in Nat /\ Lanes > 1  BY <1>1
<1>3. QED  BY <1>2 DEF Frame

(* The frame played is one of the voice, and its n-th until the loop       *)
(* comes.                                                                  *)
LEMMA SourceFrameIs ==
    ASSUME NEW v \in Voices, NEW n \in Nat
    PROVE /\ SourceFrame(v, n) \in 0 .. Len(Rom[v]) - 1
          /\ n < Len(Rom[v]) => SourceFrame(v, n) = n
<1>1. PICK len \in Nat, s \in Nat : len = Len(Rom[v]) /\ s = LoopStart[v] /\ s < len
  BY RomIs
<1>2. CASE n < len  BY <1>1, <1>2 DEF SourceFrame
<1>3. CASE ~(n < len)
  <2>1. PICK d \in Nat \ {0} : d = len - s  BY <1>1
  <2>2. n - len \in Int  OBVIOUS
  <2>3. (n - len) % d \in 0 .. d - 1  BY <2>1, <2>2
  <2>4. PICK q \in 0 .. d - 1 : q = (n - len) % d  BY <2>3
  <2>5. SourceFrame(v, n) = s + q  BY <1>1, <1>3, <2>1, <2>4 DEF SourceFrame
  <2>6. s + q \in 0 .. len - 1  BY <1>1, <2>1
  <2>7. QED  BY <1>1, <1>3, <2>5, <2>6
<1>4. QED  BY <1>2, <1>3

(* A sample of the voice as played is one of the reference. *)
LEMMA SampleIs ==
    ASSUME NEW v \in Voices, NEW n \in Nat, NEW j \in 0 .. Frame - 1
    PROVE /\ SampleAt(v, Frame * n + j) = Plain[v][Frame * SourceFrame(v, n) + j + 3]
          /\ SampleAt(v, Frame * n + j) \in Int
<1>1. PICK f \in Nat \ {0} : f = Frame  BY Sizes
<1>2. PICK x \in Nat : x = f * n  BY <1>1
<1>3. (x + j) \div f = n /\ (x + j) % f = j  BY <1>1, <1>2, DivOf
<1>4. ~(x + j < 0)  BY <1>1, <1>2
<1>5. SampleAt(v, x + j) = Plain[v][f * SourceFrame(v, n) + j + 3]
  BY <1>1, <1>3, <1>4 DEF SampleAt
<1>6. PICK s \in 0 .. Len(Rom[v]) - 1 : s = SourceFrame(v, n)  BY SourceFrameIs
<1>7. f * s + j + 3 \in 1 .. f * Len(Rom[v]) + 2
  <2>1. Len(Rom[v]) \in Nat  BY RomIs
  <2>2. s + 1 \in 1 .. Len(Rom[v]) /\ s + 1 - 1 = s  BY <2>1
  <2>3. PICK y \in Nat, z \in Nat : y = f * s /\ z = f * Len(Rom[v]) /\ y + f <= z
    <3>1. PICK m \in Nat : m = Len(Rom[v])  BY <2>1
    <3>2. PICK k \in 1 .. m : k = s + 1 /\ k - 1 = s  BY <2>2, <3>1
    <3>3. /\ f * (k - 1) \in Nat /\ f * k \in Nat /\ f * m \in Nat
          /\ f * (k - 1) + f = f * k /\ f * k <= f * m
      BY <1>1, Times
    <3>4. f * s \in Nat /\ f * Len(Rom[v]) \in Nat /\ f * s + f <= f * Len(Rom[v])
      BY <3>1, <3>2, <3>3
    <3>5. QED  BY <3>4
  <2>4. y + j + 3 \in 1 .. z + 2  BY <1>1, <2>3
  <2>5. QED  BY <2>3, <2>4
<1>8. Plain[v][f * s + j + 3] \in Int  BY <1>1, <1>7, PlainIs DEF Numbers
<1>9. QED  BY <1>1, <1>2, <1>5, <1>6, <1>8

(* Every sample is an integer, and before the voice there is silence. *)
LEMMA SampleTyped ==
    ASSUME NEW v \in Voices, NEW k \in Int
    PROVE SampleAt(v, k) \in Int /\ (k < 0 => SampleAt(v, k) = 0)
<1>1. CASE k < 0  BY <1>1 DEF SampleAt
<1>2. CASE ~(k < 0)
  <2>1. Frame \in Nat \ {0}  BY Sizes
  <2>2. PICK n \in Int, j \in 0 .. Frame - 1 : k = Frame * n + j  BY <2>1, DivIs
  <2>3. n \in Nat
    <3>1. SUFFICES ASSUME n <= -1 PROVE FALSE  OBVIOUS
    <3>2. PICK f \in Nat \ {0} : f = Frame  BY <2>1
    <3>3. PICK i \in Nat : n = -1 - i  BY <3>1
    <3>4. f * (-1 - i) = -f - f * i /\ f * i \in Nat  OBVIOUS
    <3>5. QED  BY <1>2, <2>2, <3>2, <3>3, <3>4
  <2>4. QED  BY <1>2, <2>2, <2>3, SampleIs
<1>3. QED  BY <1>1, <1>2

(* What the decoder keeps is a frame of samples. *)
LEMMA BeforeTyped ==
    ASSUME NEW v \in Voices, NEW n \in Int
    PROVE Before(v, n) \in Numbers(Frame)
<1>1. ASSUME NEW i \in 1 .. Frame PROVE SampleAt(v, Frame * (n - 1) + i - 1) \in Int
  <2>1. i \in Int /\ Frame \in Int  BY Sizes
  <2>2. Frame * (n - 1) \in Int  BY <2>1
  <2>3. Frame * (n - 1) + i - 1 \in Int  BY <2>1, <2>2
  <2>4. QED  BY <2>3, SampleTyped
<1>2. QED  BY <1>1 DEF Before, Numbers

(* The samples of a frame. *)
LEMMA BeforeIs ==
    ASSUME NEW v \in Voices, NEW n \in Nat, NEW i \in 1 .. Frame
    PROVE Before(v, n + 1)[i] = Plain[v][Frame * SourceFrame(v, n) + i + 2]
<1>1. Frame \in Nat \ {0} /\ i \in Nat /\ n + 1 - 1 = n /\ i - 1 \in 0 .. Frame - 1
  <2>1. Frame \in Nat \ {0}  BY Sizes
  <2>2. QED  BY <2>1
<1>2. PICK x \in Nat : x = Frame * n  BY <1>1
<1>3. x + i - 1 = x + (i - 1)  BY <1>1
<1>4. Before(v, n + 1)[i] = SampleAt(v, x + i - 1)  BY <1>1, <1>2 DEF Before
<1>5. SampleAt(v, x + (i - 1)) = Plain[v][Frame * SourceFrame(v, n) + (i - 1) + 3]
  BY <1>1, <1>2, SampleIs
<1>6. PICK y \in Int : y = Frame * SourceFrame(v, n)
  <2>1. SourceFrame(v, n) \in Int  BY SourceFrameIs, RomIs
  <2>2. QED  BY <1>1, <2>1
<1>7. y + (i - 1) + 3 = y + i + 2  BY <1>1
<1>8. QED  BY <1>3, <1>4, <1>5, <1>6, <1>7

(* The two samples that the next frame of the voice follows from. *)
LEMMA LastTwo ==
    ASSUME NEW v \in Voices, NEW m \in 0 .. Len(Rom[v])
    PROVE /\ Before(v, m)[Frame - 1] = Plain[v][Frame * m + 1]
          /\ Before(v, m)[Frame] = Plain[v][Frame * m + 2]
<1>1. PICK f \in Nat : f = Frame /\ f > 1
  <2>1. Lanes \in Nat \ {0} /\ Frame = Lanes + Lanes  BY Sizes
  <2>2. QED  BY <2>1
<1>2. f \in 1 .. f /\ f - 1 \in 1 .. f /\ Len(Rom[v]) \in Nat /\ m \in Nat  BY <1>1, RomIs
<1>3. CASE m = 0
  <2>1. /\ Before(v, m)[f - 1] = SampleAt(v, f * (0 - 1) + (f - 1) - 1)
        /\ Before(v, m)[f] = SampleAt(v, f * (0 - 1) + f - 1)
    BY <1>1, <1>2, <1>3 DEF Before
  <2>2. f * (0 - 1) = -f  OBVIOUS
  <2>3. /\ f * (0 - 1) + (f - 1) - 1 \in Int /\ f * (0 - 1) + (f - 1) - 1 < 0
        /\ f * (0 - 1) + f - 1 \in Int /\ f * (0 - 1) + f - 1 < 0
    BY <1>1, <2>2
  <2>4. Before(v, m)[f - 1] = 0 /\ Before(v, m)[f] = 0  BY <2>1, <2>3, SampleTyped
  <2>5. f * m + 1 = 1 /\ f * m + 2 = 2  BY <1>3
  <2>6. QED  BY <1>1, <2>4, <2>5, PlainIs
<1>4. CASE m # 0
  <2>1. PICK n \in Nat : m = n + 1 /\ n < Len(Rom[v])  BY <1>2, <1>4
  <2>2. SourceFrame(v, n) = n  BY <2>1, SourceFrameIs
  <2>3. /\ Before(v, n + 1)[f - 1] = Plain[v][f * n + (f - 1) + 2]
        /\ Before(v, n + 1)[f] = Plain[v][f * n + f + 2]
    <3>1. \A i \in 1 .. Frame : Before(v, n + 1)[i] = Plain[v][Frame * SourceFrame(v, n) + i + 2]
      BY BeforeIs
    <3>2. QED  BY <1>1, <1>2, <2>2, <3>1
  <2>4. PICK x \in Int : x = f * n  OBVIOUS
  <2>5. f * (n + 1) = x + f  BY <2>4
  <2>6. x + (f - 1) + 2 = (x + f) + 1 /\ x + f + 2 = (x + f) + 2  OBVIOUS
  <2>7. QED  BY <1>1, <2>1, <2>3, <2>4, <2>5, <2>6
<1>5. QED  BY <1>3, <1>4

(* From place x on, p holds two samples and a vector that follows. *)
Runs(p, x, w, r, b) ==
    /\ \A i \in 1 .. Lanes + 2 : p[x + i] \in Int
    /\ \A i \in 1 .. Lanes : p[x + i + 2] = w[1] * p[x + i] + w[2] * p[x + i + 1] + r[i]
    /\ b[Lanes - 1] = p[x + 1] /\ b[Lanes] = p[x + 2]

(* A vector that is predicted at once is what the recurrence makes one     *)
(* sample after the other.                                                 *)
LEMMA VectorIs ==
    ASSUME NEW w \in Numbers(2), NEW r \in Numbers(Lanes), NEW p, NEW x \in Nat, NEW b,
           Runs(p, x, w, r, b)
    PROVE /\ Predicted(Expanded(w), b, r) \in Numbers(Lanes)
          /\ \A i \in 1 .. Lanes : Predicted(Expanded(w), b, r)[i] = p[x + i + 2]
<1>1. PICK l \in Nat : l = Lanes /\ l > 1  BY HandlerAssumption
<1>2. /\ \A i \in 1 .. l + 2 : p[x + i] \in Int
      /\ \A i \in 1 .. l : p[x + i + 2] = w[1] * p[x + i] + w[2] * p[x + i + 1] + r[i]
      /\ b[l - 1] = p[x + 1] /\ b[l] = p[x + 2]
  BY <1>1 DEF Runs
<1> DEFINE q == [i \in 1 .. l + 2 |-> p[x + i]]
<1>3. q \in Numbers(l + 2)  BY <1>2 DEF Numbers
<1>4. q[1] = b[l - 1] /\ q[2] = b[l]  BY <1>1, <1>2
<1>5. ASSUME NEW i \in 1 .. l
      PROVE q[i + 2] = w[1] * q[i] + w[2] * q[i + 1] + r[i] /\ q[i + 2] = p[x + i + 2]
  BY <1>1, <1>2
<1> HIDE DEF q
<1>6. Follows(q, w, b, r)  BY <1>1, <1>3, <1>4, <1>5 DEF Follows
<1>7. PICK y : y = Predicted(Expanded(w), b, r)  OBVIOUS
<1>8. y \in Numbers(Lanes) /\ \A i \in 1 .. Lanes : y[i] = q[i + 2]
  BY <1>6, <1>7, PredictedIs
<1>9. QED  BY <1>1, <1>5, <1>7, <1>8

(* A frame is to be decoded: it is in cell src, and the two samples before *)
(* it are in front of where it goes.                                       *)
Ready(v, m, mem, src, dst) ==
    /\ mem \in Memory /\ mem[src] = Rom[v][m + 1]
    /\ dst \in Nat /\ Frame <= dst /\ dst <= WetR + Buffer
    /\ mem[dst - 2] = Plain[v][Frame * m + 1] /\ mem[dst - 1] = Plain[v][Frame * m + 2]

(* L_1510 decodes one frame: it leaves the reference's samples at dst. *)
LEMMA FrameIs ==
    ASSUME NEW v \in Voices, NEW m \in 0 .. Len(Rom[v]) - 1, NEW mem,
           NEW src, NEW dst, Ready(v, m, mem, src, dst)
    PROVE L_1510(Book(v), mem, src, dst) = Put(mem, dst, Before(v, m + 1))
<1>1. PICK l \in Nat, f \in Nat : l = Lanes /\ f = Frame /\ l > 1 /\ f = l + l
  BY LanesAre
<1>2. PICK frame \in Int : frame = Rom[v][m + 1]  BY RomIs
<1>3. PICK w \in Numbers(2) : w = Coefficients[v][Predictor(frame)]  BY PredictorIs
<1>4. PICK r \in Numbers(f) : r = Residuals(frame)  BY <1>1, <1>2, ResidualsAre
<1>5. PICK e : e = Expanded(w) /\ Entry(Book(v), frame) = e  BY <1>2, <1>3, EntryIs
<1>6. PICK p : p = Plain[v]  OBVIOUS
<1>7. PICK x \in Nat : x = f * m /\ x + f <= f * Len(Rom[v]) /\ f * Len(Rom[v]) \in Nat
  <2>1. Len(Rom[v]) \in Nat  BY RomIs
  <2>2. m + 1 \in 1 .. Len(Rom[v]) /\ m + 1 - 1 = m  BY <2>1
  <2>3. /\ f * (m + 1 - 1) \in Nat /\ f * (m + 1 - 1) + f = f * (m + 1)
        /\ f * (m + 1) <= f * Len(Rom[v]) /\ f * Len(Rom[v]) \in Nat
    BY <2>1, <2>2, Times
  <2>4. QED  BY <2>2, <2>3
<1>8. /\ \A i \in 1 .. f : p[x + i + 2] = w[1] * p[x + i] + w[2] * p[x + i + 1] + r[i]
      /\ \A i \in 1 .. f + 2 : p[x + i] \in Int
  <2>1. PlainFrame(v, m) /\ p \in Numbers(f * Len(Rom[v]) + 2)  BY <1>1, <1>6, PlainIs
  <2>2. \A i \in 1 .. f + 2 : x + i \in 1 .. f * Len(Rom[v]) + 2  BY <1>7
  <2>3. \A i \in 1 .. f + 2 : p[x + i] \in Int  BY <2>1, <2>2 DEF Numbers
  <2>4. QED  BY <1>1, <1>2, <1>3, <1>4, <1>6, <1>7, <2>1, <2>3 DEF PlainFrame
<1>9. PICK r1 : r1 = SubSeq(r, 1, l) /\ r1 \in Numbers(l) /\ \A i \in 1 .. l : r1[i] = r[i]
  <2>1. 0 + 1 = 1 /\ 0 + l = l /\ 0 \in Nat  BY <1>1
  <2>2. 0 + l <= f  BY <1>1
  <2>3. \A i \in 1 .. l : 0 + i = i  BY <1>1
  <2>4. /\ SubSeq(r, 0 + 1, 0 + l) \in Numbers(l)
        /\ \A i \in 1 .. l : SubSeq(r, 0 + 1, 0 + l)[i] = r[0 + i]
    BY <2>1, <2>2, PartIs
  <2>5. PICK t : t = SubSeq(r, 1, l)  OBVIOUS
  <2>6. t \in Numbers(l) /\ \A i \in 1 .. l : t[i] = r[i]  BY <2>1, <2>3, <2>4, <2>5
  <2>7. QED  BY <2>5, <2>6
<1>10. PICK r2 : r2 = SubSeq(r, l + 1, f) /\ r2 \in Numbers(l) /\ \A i \in 1 .. l : r2[i] = r[l + i]
  <2>1. l + l <= f /\ l + l = f  BY <1>1
  <2>2. /\ SubSeq(r, l + 1, l + l) \in Numbers(l)
        /\ \A i \in 1 .. l : SubSeq(r, l + 1, l + l)[i] = r[l + i]
    BY <2>1, PartIs
  <2>3. QED  BY <2>1, <2>2
<1>11. PICK b : b = Window(mem, dst - Lanes, Lanes) /\ b[l - 1] = p[x + 1] /\ b[l] = p[x + 2]
  <2>1. PICK y \in Nat : y = dst - l /\ y + l = dst  BY <1>1 DEF Ready
  <2>2. y + l <= WetR + Buffer /\ mem \in Memory  BY <2>1 DEF Ready
  <2>3. \A i \in 1 .. l : Window(mem, y, l)[i] = mem[y + i - 1]  BY <2>2, WindowIs
  <2>4. /\ l - 1 \in 1 .. l /\ l \in 1 .. l
        /\ y + (l - 1) - 1 = dst - 2 /\ y + l - 1 = dst - 1
    <3>1. dst \in Nat  BY DEF Ready
    <3>2. QED  BY <1>1, <2>1, <3>1
  <2>5. Window(mem, y, l)[l - 1] = mem[dst - 2] /\ Window(mem, y, l)[l] = mem[dst - 1]
    BY <2>3, <2>4
  <2>6. mem[dst - 2] = p[x + 1] /\ mem[dst - 1] = p[x + 2]
    BY <1>1, <1>6, <1>7 DEF Ready
  <2>7. QED  BY <1>1, <2>1, <2>5, <2>6
<1>12. PICK v28 : /\ v28 = Predicted(e, b, r1)
                  /\ v28 \in Numbers(l) /\ \A i \in 1 .. l : v28[i] = p[x + i + 2]
  <2>1. Runs(p, x, w, r1, b)
    <3>1. /\ \A i \in 1 .. l + 2 : i \in 1 .. f + 2
          /\ \A i \in 1 .. l : i \in 1 .. f
      BY <1>1
    <3>2. QED  BY <1>1, <1>8, <1>9, <1>11, <3>1 DEF Runs
  <2>2. /\ Predicted(e, b, r1) \in Numbers(l)
        /\ \A i \in 1 .. l : Predicted(e, b, r1)[i] = p[x + i + 2]
    BY <1>1, <1>9, <2>1, <1>5, VectorIs
  <2>3. QED  BY <2>2
<1>13. PICK v27 : /\ v27 = Predicted(e, v28, r2)
                  /\ v27 \in Numbers(l) /\ \A i \in 1 .. l : v27[i] = p[x + l + i + 2]
  <2>1. PICK z \in Nat : z = x + l  OBVIOUS
  <2>2. Runs(p, z, w, r2, v28)
    <3>1. \A i \in 1 .. l + 2 : l + i \in 1 .. f + 2 /\ z + i = x + (l + i)  BY <1>1, <2>1
    <3>2. \A i \in 1 .. l + 2 : p[z + i] \in Int  BY <1>8, <3>1
    <3>3. \A i \in 1 .. l : /\ l + i \in 1 .. f /\ z + i = x + (l + i)
                            /\ z + i + 2 = x + (l + i) + 2 /\ z + i + 1 = x + (l + i) + 1
      BY <1>1, <2>1
    <3>4. \A i \in 1 .. l : p[z + i + 2] = w[1] * p[z + i] + w[2] * p[z + i + 1] + r2[i]
      BY <1>8, <1>10, <3>3
    <3>5. /\ l - 1 \in 1 .. l /\ l \in 1 .. l
          /\ x + (l - 1) + 2 = z + 1 /\ x + l + 2 = z + 2
      BY <1>1, <2>1
    <3>6. v28[l - 1] = p[z + 1] /\ v28[l] = p[z + 2]  BY <1>12, <3>5
    <3>7. QED  BY <1>1, <3>2, <3>4, <3>6 DEF Runs
  <2>3. /\ Predicted(e, v28, r2) \in Numbers(l)
        /\ \A i \in 1 .. l : Predicted(e, v28, r2)[i] = p[z + i + 2]
    BY <1>1, <1>10, <2>2, <1>5, VectorIs
  <2>4. QED  BY <2>1, <2>3
<1>14. L_1510(Book(v), mem, src, dst) = Put(mem, dst, v28 \o v27)
  <2>1. mem[src] = frame  BY <1>2 DEF Ready
  <2>2. L_1510(Book(v), mem, src, dst)
        = Put(mem, dst, Predicted(e, b, r1) \o Predicted(e, Predicted(e, b, r1), r2))
    BY <1>1, <1>4, <1>5, <1>9, <1>10, <1>11, <2>1 DEF L_1510
  <2>3. QED  BY <1>12, <1>13, <2>2
<1>15. v28 \o v27 = Before(v, m + 1)
  <2>1. PICK s : s = v28 \o v27  OBVIOUS
  <2>2. /\ s \in Numbers(l + l) /\ \A i \in 1 .. l : s[i] = v28[i]
        /\ \A i \in 1 .. l : s[l + i] = v27[i]
    <3>1. v28 \in Numbers(l) /\ v27 \in Numbers(l)  BY <1>12, <1>13
    <3>2. QED  BY <2>1, <3>1, ConcatIs
  <2>3. PICK t : t = Before(v, m + 1)  OBVIOUS
  <2>4. t \in Numbers(f)
    <3>1. m + 1 \in Int  OBVIOUS
    <3>2. QED  BY <1>1, <2>3, <3>1, BeforeTyped
  <2>5. m \in Nat /\ SourceFrame(v, m) = m
    <3>1. m \in Nat /\ m < Len(Rom[v])  BY RomIs
    <3>2. QED  BY <3>1, SourceFrameIs
  <2>6. \A i \in 1 .. f : t[i] = p[x + i + 2]
    <3>1. \A i \in 1 .. Frame : Before(v, m + 1)[i] = Plain[v][Frame * SourceFrame(v, m) + i + 2]
      BY <2>5, BeforeIs
    <3>2. QED  BY <1>1, <1>6, <1>7, <2>3, <2>5, <3>1
  <2>7. ASSUME NEW i \in 1 .. f PROVE s[i] = t[i]
    <3>1. CASE i <= l
      <4>1. i \in 1 .. l  BY <1>1, <3>1
      <4>2. QED  BY <1>12, <2>2, <2>6, <4>1
    <3>2. CASE ~(i <= l)
      <4>1. PICK j \in 1 .. l : i = l + j  BY <1>1, <3>2
      <4>2. x + l + j + 2 = x + i + 2  BY <1>1, <4>1
      <4>3. QED  BY <1>13, <2>2, <2>6, <4>1, <4>2
    <3>3. QED  BY <3>1, <3>2
  <2>8. s = t  BY <1>1, <2>2, <2>4, <2>7, NumbersSame
  <2>9. QED  BY <2>1, <2>3, <2>8
<1>16. QED  BY <1>14, <1>15

-----------------------------------------------------------------------------
(* ADPCM: the frames of a command. *)

(* A predicted vector is a vector. *)
LEMMA PredictedTyped ==
    ASSUME NEW e \in Numbers(Frame), NEW b \in Numbers(Lanes), NEW r \in Numbers(Lanes)
    PROVE Predicted(e, b, r) \in Numbers(Lanes)
<1>1. PICK l \in Nat : l = Lanes /\ l > 1 /\ Frame = l + l  BY LanesAre
<1>2. /\ \A i \in 1 .. l : b[i] \in Int /\ r[i] \in Int
      /\ \A i \in 1 .. l + l : e[i] \in Int
  BY <1>1 DEF Numbers
<1>3. ASSUME NEW i \in 1 .. l
      PROVE e[i] * b[l - 1] + e[l + i] * b[l]
            + Total([j \in 1 .. i - 1 |-> e[l + i - j] * r[j]]) + r[i] \in Int
  <2>1. i \in 1 .. l + l /\ l + i \in 1 .. l + l /\ l - 1 \in 1 .. l /\ l \in 1 .. l
    BY <1>1
  <2>2. PICK x \in Int, y \in Int, z \in Int, u \in Int, t \in Int :
            x = e[i] /\ y = b[l - 1] /\ z = e[l + i] /\ u = b[l] /\ t = r[i]
    BY <1>2, <2>1
  <2>3. Total([j \in 1 .. i - 1 |-> e[l + i - j] * r[j]]) \in Int
    <3>1. ASSUME NEW j \in 1 .. i - 1 PROVE e[l + i - j] * r[j] \in Int  BY <1>1, <1>2
    <3>2. [j \in 1 .. i - 1 |-> e[l + i - j] * r[j]] \in Numbers(i - 1)  BY <3>1 DEF Numbers
    <3>3. i - 1 \in Nat  BY <1>1
    <3>4. QED  BY <3>2, <3>3, TotalTyped
  <2>4. PICK w \in Int : w = Total([j \in 1 .. i - 1 |-> e[l + i - j] * r[j]])  BY <2>3
  <2>5. x * y + z * u + w + t \in Int  OBVIOUS
  <2>6. QED  BY <2>2, <2>4, <2>5
<1>4. QED  BY <1>1, <1>3 DEF Predicted, Numbers

(* A frame goes from cell src to dst; the two do not overlap. *)
Fits(src, dst) ==
    src \in Nat /\ dst \in Nat /\ src < dst /\ Frame <= dst /\ dst + Frame <= WetR + Buffer

(* An entry of any book is a frame of weights. *)
LEMMA EntryTyped ==
    ASSUME NEW book \in Numbers(Frame + Frame), NEW frame \in Int
    PROVE Entry(book, frame) \in Numbers(Frame)
<1>1. PICK f \in Nat : f = Frame  BY LanesAre
<1>2. Predictor(frame) \in 0 .. 1  BY DEF Predictor
<1>3. PICK i \in Nat : i = f * Predictor(frame) /\ i + f <= f + f
  <2>1. CASE Predictor(frame) = 0
    <3>1. f * Predictor(frame) = 0  BY <2>1
    <3>2. QED  BY <3>1
  <2>2. CASE Predictor(frame) = 1
    <3>1. f * Predictor(frame) = f  BY <2>2
    <3>2. QED  BY <3>1
  <2>3. QED  BY <1>2, <2>1, <2>2
<1>4. SubSeq(book, i + 1, i + f) \in Numbers(f)  BY <1>1, <1>3, PartIs
<1>5. QED  BY <1>1, <1>3, <1>4 DEF Entry

(* Decoding a frame, right or wrong, leaves a memory. *)
LEMMA FrameTyped ==
    ASSUME NEW book \in Numbers(Frame + Frame), NEW mem \in Memory, NEW src, NEW dst,
           Fits(src, dst)
    PROVE L_1510(book, mem, src, dst) \in Memory
<1>1. PICK l \in Nat, f \in Nat : l = Lanes /\ f = Frame /\ l > 1 /\ f = l + l
  BY LanesAre
<1>2. src \in Nat /\ dst \in Nat /\ src < dst /\ f <= dst /\ dst + f <= WetR + Buffer
  BY <1>1 DEF Fits
<1>3. PICK frame \in Int : frame = mem[src]
  <2>1. WetR \in Int /\ Buffer \in Int /\ Cells = 0 .. WetR + Buffer - 1  BY Sizes
  <2>2. src \in Cells  BY <1>1, <1>2, <2>1
  <2>3. QED  BY <2>2 DEF Memory
<1>4. PICK r \in Numbers(f) : r = Residuals(frame)  BY <1>1, <1>3, ResidualsAre
<1>5. PICK e \in Numbers(Frame) : e = Entry(book, frame)
  BY <1>3, EntryTyped
<1>6. SubSeq(r, 1, Lanes) \in Numbers(Lanes) /\ SubSeq(r, Lanes + 1, Frame) \in Numbers(Lanes)
  <2>1. 0 + 1 = 1 /\ 0 + l = l /\ 0 + l <= f /\ 0 \in Nat /\ l + l <= f /\ l + l = f
    BY <1>1
  <2>2. SubSeq(r, 0 + 1, 0 + l) \in Numbers(l)  BY <2>1, PartIs
  <2>3. SubSeq(r, l + 1, l + l) \in Numbers(l)  BY <2>1, PartIs
  <2>4. QED  BY <1>1, <2>1, <2>2, <2>3
<1>7. Window(mem, dst - Lanes, Lanes) \in Numbers(Lanes)
  <2>1. dst - Lanes \in Nat /\ (dst - Lanes) + Lanes <= WetR + Buffer /\ Lanes \in Nat
    <3>1. dst - l \in Nat /\ (dst - l) + l = dst  BY <1>1, <1>2
    <3>2. WetR \in Int /\ Buffer \in Int  BY Sizes
    <3>3. QED  BY <1>1, <1>2, <3>1, <3>2
  <2>2. QED  BY <2>1, WindowIs
<1>8. PICK v28 \in Numbers(Lanes) :
          v28 = Predicted(e, Window(mem, dst - Lanes, Lanes), SubSeq(r, 1, Lanes))
  BY <1>6, <1>7, PredictedTyped
<1>9. PICK v27 \in Numbers(Lanes) : v27 = Predicted(e, v28, SubSeq(r, Lanes + 1, Frame))
  BY <1>6, PredictedTyped
<1>10. L_1510(book, mem, src, dst) = Put(mem, dst, v28 \o v27)
  BY <1>3, <1>4, <1>5, <1>8, <1>9 DEF L_1510
<1>11. Lanes \in Nat /\ Lanes + Lanes \in Nat /\ dst \in Int  BY <1>1, <1>2
<1>12. v28 \o v27 \in Numbers(Lanes + Lanes)  BY <1>11, ConcatIs
<1>13. QED  BY <1>10, <1>11, <1>12, PutIs

(* One frame more of ADPCM. *)
DecodeStep(mem, book, c, k) == L_1510(book, mem, c.src + k - 1, c.dst + Frame * k)

(* c decodes something. *)
DecodesIn(a, c) ==
    /\ a.dmem \in Memory /\ a.book \in Numbers(Frame + Frame) /\ c.count \in Nat
    /\ c.src \in Nat /\ c.dst \in Nat /\ c.src + c.count <= c.dst
    /\ c.dst + Frame * (c.count + 1) <= WetR + Buffer
    /\ L_1460(a, c) \in Numbers(Frame)

(* c decodes the frames of v after m; b is what goes before them. *)
Decodes(a, c, v, m, b) ==
    /\ a.dmem \in Memory /\ a.book = Book(v)
    /\ c.count \in Nat /\ m \in Nat /\ m + c.count <= Len(Rom[v])
    /\ c.src \in Nat /\ c.dst \in Nat /\ c.src + c.count <= c.dst
    /\ c.dst + Frame * (c.count + 1) <= WetR + Buffer
    /\ L_1460(a, c) = b /\ b \in Numbers(Frame)
    /\ c.count = 0 \/ b = Before(v, m)
    /\ \A k \in 1 .. c.count : a.dmem[c.src + k - 1] = Rom[v][m + k]

(* Decoding one frame more, right or wrong. *)
LEMMA DecodeStepTyped ==
    ASSUME NEW a, NEW c, DecodesIn(a, c), NEW now \in Memory, NEW k \in 1 .. c.count
    PROVE DecodeStep(now, a.book, c, k) \in Memory
<1>1. PICK n \in Nat, src \in Nat, dst \in Nat :
          /\ n = c.count /\ src = c.src /\ dst = c.dst /\ k \in 1 .. n
          /\ src + n <= dst /\ dst + Frame * (n + 1) <= WetR + Buffer
  BY DEF DecodesIn
<1>2. PICK book \in Numbers(Frame + Frame) : book = a.book  BY DEF DecodesIn
<1>3. PICK f \in Nat : f = Frame /\ f > 1  BY LanesAre
<1>4. k \in Nat /\ k + 1 \in 1 .. n + 1 /\ k + 1 - 1 = k /\ n + 1 \in Nat  BY <1>1
<1>5. /\ f * (k + 1 - 1) \in Nat /\ f * (k + 1 - 1) + f = f * (k + 1)
      /\ f * (k + 1) <= f * (n + 1) /\ f * (n + 1) \in Nat
  BY <1>4, Times
<1>6. PICK y \in Nat, z \in Nat : y = f * k /\ z = f * (n + 1) /\ y + f <= z
  BY <1>4, <1>5
<1>7. y >= f  BY <1>1, <1>6, Times
<1>8. PICK s \in Nat, d \in Nat : s = src + k - 1 /\ d = dst + y  BY <1>1
<1>9. Fits(s, d)
  <2>1. s < d /\ f <= d  BY <1>1, <1>3, <1>7, <1>8
  <2>2. WetR \in Int /\ Buffer \in Int  BY Sizes
  <2>3. d + f <= WetR + Buffer  BY <1>1, <1>3, <1>6, <1>8, <2>2
  <2>4. QED  BY <1>3, <2>1, <2>3 DEF Fits
<1>10. DecodeStep(now, book, c, k) = L_1510(book, now, s, d)
  BY <1>1, <1>3, <1>6, <1>8 DEF DecodeStep
<1>11. QED  BY <1>2, <1>9, <1>10, FrameTyped

(* Decoded, as the frames come. *)
LEMMA DecodedFold ==
    ASSUME NEW a, NEW c, DecodesIn(a, c)
    PROVE \E f : /\ f[0] = Put(a.dmem, c.dst, L_1460(a, c))
                 /\ \A k \in 1 .. c.count : f[k] = DecodeStep(f[k - 1], a.book, c, k)
                 /\ Decoded(a, c) = f[c.count]
<1>1. PICK n \in Nat, src \in Nat, dst \in Nat :
          /\ n = c.count /\ src = c.src /\ dst = c.dst
          /\ src + n <= dst /\ dst + Frame * (n + 1) <= WetR + Buffer
  BY DEF DecodesIn
<1>2. PICK book \in Numbers(Frame + Frame), b \in Numbers(Frame) :
          book = a.book /\ b = L_1460(a, c)
  BY DEF DecodesIn
<1>3. Put(a.dmem, dst, b) \in Memory
  <2>1. a.dmem \in Memory /\ Frame \in Nat /\ dst \in Int
    BY LanesAre DEF DecodesIn
  <2>2. QED  BY <1>1, <2>1, PutIs
<1>4. PICK mem \in Memory : mem = Put(a.dmem, dst, b)  BY <1>3
<1> DEFINE g == UpTo(n)
           Eq(h) == h = [s \in SUBSET (1 .. n) |->
                            IF s = {} THEN mem
                            ELSE DecodeStep(h[s \ {Max(s)}], book, c, g[Max(s)])]
<1>5. DOMAIN g = 1 .. n /\ \A k \in 1 .. n : g[k] = k  BY DEF UpTo
<1>6. Decoded(a, c) = (CHOOSE h : Eq(h))[1 .. n]
  BY <1>1, <1>4, <1>2, <1>5 DEF Decoded, DecodeStep, FoldLeft, MapThenFoldSet
<1> HIDE DEF g
<1>7. \E h : Eq(h)
  <2> DEFINE F == [x \in Memory \X (1 .. n) |-> DecodeStep(x[1], book, c, x[2])]
  <2>1. ASSUME NEW now \in Memory, NEW k \in 1 .. n PROVE DecodeStep(now, book, c, k) \in Memory
    BY <1>1, <1>2, DecodeStepTyped
  <2>2. F \in [Memory \X (1 .. n) -> Memory]  BY <2>1
  <2>3. PICK h : h \in [SUBSET (1 .. n) -> Memory] /\ Fold(n, mem, F, h)
    <3> HIDE DEF F, Eq
    <3>1. QED  BY <1>3, <2>2, FoldExists
  <2>4. ASSUME NEW s \in SUBSET (1 .. n), s # {}
        PROVE F[<<h[s \ {Max(s)}], Max(s)>>] = DecodeStep(h[s \ {Max(s)}], book, c, g[Max(s)])
    BY <1>5, <2>3, <2>4, MaxOf
  <2> HIDE DEF F
  <2>5. h = [s \in SUBSET (1 .. n) |->
                IF s = {} THEN mem ELSE DecodeStep(h[s \ {Max(s)}], book, c, g[Max(s)])]
    BY <2>3, <2>4 DEF Fold
  <2>6. QED  BY <2>5
<1>8. PICK h : Eq(h) /\ Decoded(a, c) = h[1 .. n]
  <2> HIDE DEF Eq
  <2>1. QED  BY <1>6, <1>7
<1> DEFINE f == [k \in 0 .. n |-> h[1 .. k]]
<1>9. ASSUME NEW k \in 1 .. n PROVE f[k] = DecodeStep(f[k - 1], book, c, k)
  <2>1. f[k] = h[1 .. k] /\ f[k - 1] = h[1 .. k - 1]  OBVIOUS
  <2> HIDE DEF f
  <2>2. h[1 .. k] = DecodeStep(h[(1 .. k) \ {Max(1 .. k)}], book, c, g[Max(1 .. k)])
    BY <1>8, Segment
  <2>3. QED  BY <1>5, <2>1, <2>2, Segment
<1>10. f[0] = mem /\ f[n] = Decoded(a, c)
  <2>1. 1 .. 0 = {} /\ 1 .. 0 \in SUBSET (1 .. n)  OBVIOUS
  <2>2. h[1 .. 0] = mem  BY <1>8, <2>1
  <2> HIDE DEF Eq
  <2>3. f[0] = h[1 .. 0] /\ f[n] = h[1 .. n]  OBVIOUS
  <2>4. QED  BY <1>8, <2>2, <2>3
<1> HIDE DEF f, Eq
<1>11. QED  BY <1>1, <1>4, <1>2, <1>8, <1>9, <1>10

(* Decoding, right or wrong. *)
LEMMA DecodedTyped ==
    ASSUME NEW a, NEW c, DecodesIn(a, c)
    PROVE Decoded(a, c) \in Memory
<1>1. PICK f : /\ f[0] = Put(a.dmem, c.dst, L_1460(a, c))
               /\ \A k \in 1 .. c.count : f[k] = DecodeStep(f[k - 1], a.book, c, k)
               /\ Decoded(a, c) = f[c.count]
  BY DecodedFold
<1>2. PICK n \in Nat : n = c.count  BY DEF DecodesIn
<1> DEFINE A == {k \in 0 .. n : f[k] \in Memory}
<1>3. 0 \in A
  <2>1. a.dmem \in Memory /\ L_1460(a, c) \in Numbers(Frame) /\ Frame \in Nat /\ c.dst \in Int
    BY LanesAre DEF DecodesIn
  <2>2. f[0] \in Memory  BY <1>1, <2>1, PutIs
  <2>3. QED  BY <2>2
<1>4. ASSUME NEW k \in A, k \in 0 .. n - 1 PROVE k + 1 \in A  BY <1>1, <1>2, <1>4, DecodeStepTyped
<1>5. n \in A
  <2> HIDE DEF A
  <2>1. 0 .. n \subseteq A  BY <1>3, <1>4, UpInduction
  <2>2. QED  BY <2>1
<1>6. QED  BY <1>1, <1>2, <1>5

(* b is at dst, and k frames of v, those after m, are behind it. *)
HasDecoded(mem, now, v, m, b, dst, k) ==
    /\ now \in Memory
    /\ \A i \in 1 .. Frame : now[dst + i - 1] = b[i]
    /\ \A j \in 1 .. k : \A i \in 1 .. Frame : now[dst + Frame * j + i - 1] = Before(v, m + j)[i]
    /\ \A x \in Cells : x < dst \/ x >= dst + Frame * (k + 1) => now[x] = mem[x]

(* The frame after the k-th is in cell src. *)
DecodesOn(mem, v, m, b, src, dst, k) ==
    /\ k \in Nat /\ m \in Nat /\ m + k < Len(Rom[v])
    /\ src \in Nat /\ dst \in Nat /\ src < dst /\ mem[src] = Rom[v][m + k + 1]
    /\ dst + Frame * (k + 2) <= WetR + Buffer
    /\ b = Before(v, m)

(* Then the frame can be decoded: it follows the samples before it. *)
LEMMA DecodedReady ==
    ASSUME NEW v \in Voices, NEW mem, NEW now, NEW m, NEW b, NEW src, NEW dst, NEW k,
           DecodesOn(mem, v, m, b, src, dst, k), HasDecoded(mem, now, v, m, b, dst, k)
    PROVE Ready(v, m + k, now, src, dst + Frame * (k + 1))
<1>1. PICK f \in Nat : f = Frame /\ f > 1  BY LanesAre
<1>2. /\ k \in Nat /\ m \in Nat /\ m + k < Len(Rom[v]) /\ src \in Nat /\ dst \in Nat
      /\ src < dst /\ mem[src] = Rom[v][m + k + 1]
      /\ dst + f * (k + 2) <= WetR + Buffer /\ b = Before(v, m)
  BY <1>1 DEF DecodesOn
<1>3. /\ now \in Memory
      /\ \A i \in 1 .. f : now[dst + i - 1] = b[i]
      /\ \A j \in 1 .. k : \A i \in 1 .. f : now[dst + f * j + i - 1] = Before(v, m + j)[i]
      /\ \A x \in Cells : x < dst \/ x >= dst + f * (k + 1) => now[x] = mem[x]
  BY <1>1 DEF HasDecoded
<1>4. PICK p \in Nat : p = f * k  BY <1>2
<1>5. f * (k + 1) = p + f /\ f * (k + 2) = p + f + f  BY <1>2, <1>4
<1>6. WetR \in Nat /\ Buffer \in Nat /\ Cells = 0 .. WetR + Buffer - 1  BY Sizes
<1>7. PICK d \in Nat : d = dst + (p + f)  BY <1>2
<1>8. d <= WetR + Buffer /\ f <= d  BY <1>1, <1>2, <1>5, <1>6, <1>7
<1>9. now[src] = mem[src]
  <2>1. src \in Cells /\ src < dst  BY <1>1, <1>2, <1>5, <1>6
  <2>2. QED  BY <1>3, <2>1
<1>10. /\ now[dst + p + (f - 1) - 1] = Before(v, m + k)[f - 1]
       /\ now[dst + p + f - 1] = Before(v, m + k)[f]
  <2>1. f - 1 \in 1 .. f /\ f \in 1 .. f  BY <1>1
  <2>2. CASE k = 0  BY <1>2, <1>3, <1>4, <2>1, <2>2
  <2>3. CASE k # 0  BY <1>2, <1>3, <1>4, <2>1, <2>3
  <2>4. QED  BY <2>2, <2>3
<1>11. dst + p + (f - 1) - 1 = d - 2 /\ dst + p + f - 1 = d - 1  BY <1>1, <1>2, <1>7
<1>12. /\ Before(v, m + k)[f - 1] = Plain[v][f * (m + k) + 1]
       /\ Before(v, m + k)[f] = Plain[v][f * (m + k) + 2]
  <2>1. m + k \in 0 .. Len(Rom[v])  BY <1>2, RomIs
  <2>2. QED  BY <1>1, <2>1, LastTwo
<1>13. Ready(v, m + k, now, src, d)  BY <1>1, <1>2, <1>3, <1>8, <1>9, <1>10, <1>11, <1>12 DEF Ready
<1>14. QED  BY <1>1, <1>5, <1>7, <1>13

(* And then one frame more is decoded. *)
LEMMA DecodedNext ==
    ASSUME NEW v \in Voices, NEW mem, NEW now, NEW m, NEW b, NEW src, NEW dst, NEW k,
           DecodesOn(mem, v, m, b, src, dst, k), HasDecoded(mem, now, v, m, b, dst, k)
    PROVE HasDecoded(mem, L_1510(Book(v), now, src, dst + Frame * (k + 1)),
                     v, m, b, dst, k + 1)
<1>1. PICK f \in Nat : f = Frame /\ f > 1  BY LanesAre
<1>2. /\ k \in Nat /\ m \in Nat /\ m + k < Len(Rom[v]) /\ dst \in Nat
      /\ dst + f * (k + 2) <= WetR + Buffer
  BY <1>1 DEF DecodesOn
<1>3. /\ now \in Memory
      /\ \A i \in 1 .. f : now[dst + i - 1] = b[i]
      /\ \A j \in 1 .. k : \A i \in 1 .. f : now[dst + f * j + i - 1] = Before(v, m + j)[i]
      /\ \A x \in Cells : x < dst \/ x >= dst + f * (k + 1) => now[x] = mem[x]
  BY <1>1 DEF HasDecoded
<1>4. PICK p \in Nat : p = f * k  BY <1>2
<1>5. f * (k + 1) = p + f /\ f * (k + 2) = p + f + f /\ f * (k + 1 + 1) = p + f + f  BY <1>2, <1>4
<1>6. WetR \in Nat /\ Buffer \in Nat /\ Cells = 0 .. WetR + Buffer - 1  BY Sizes
<1>7. PICK d \in Nat : d = dst + (p + f)  BY <1>2
<1>8. PICK t \in Numbers(f) : t = Before(v, m + k + 1)
  <2>1. m + k + 1 \in Int  BY <1>2
  <2>2. QED  BY <1>1, <2>1, BeforeTyped
<1>9. PICK new : new = L_1510(Book(v), now, src, d)  OBVIOUS
<1>10. new = Put(now, d, t)
  <2>1. Ready(v, m + k, now, src, d)  BY <1>1, <1>5, <1>7, DecodedReady
  <2>2. m + k \in 0 .. Len(Rom[v]) - 1  BY <1>2, RomIs
  <2>3. QED  BY <1>8, <1>9, <2>1, <2>2, FrameIs
<1>11. /\ new \in Memory
       /\ \A x \in Cells : new[x] = IF d <= x /\ x < d + f THEN t[x - d + 1] ELSE now[x]
  <2>1. d \in Int  OBVIOUS
  <2>2. QED  BY <1>3, <1>8, <1>10, <2>1, PutIs
<1>12. ASSUME NEW i \in 1 .. f PROVE new[dst + i - 1] = b[i]
  <2>1. dst + i - 1 \in Cells /\ ~(d <= dst + i - 1)  BY <1>1, <1>2, <1>5, <1>6, <1>7
  <2>2. QED  BY <1>3, <1>11, <2>1
<1>13. ASSUME NEW j \in 1 .. k + 1, NEW i \in 1 .. f
       PROVE new[dst + f * j + i - 1] = Before(v, m + j)[i]
  <2>1. CASE j = k + 1
    <3>1. f * j = p + f /\ m + j = m + k + 1  BY <1>2, <1>5, <2>1
    <3>2. PICK x \in Int : x = dst + (p + f) + i - 1  BY <1>2
    <3>3. x \in Cells /\ d <= x /\ x < d + f /\ x - d + 1 = i
      BY <1>1, <1>2, <1>5, <1>6, <1>7, <3>2
    <3>4. new[x] = t[i]  BY <1>11, <3>3
    <3>5. QED  BY <1>8, <3>1, <3>2, <3>4
  <2>2. CASE j # k + 1
    <3>1. j \in 1 .. k /\ j \in Nat  BY <1>2, <2>2
    <3>2. PICK y \in Nat : y = f * j /\ y <= p  BY <1>1, <1>2, <1>4, <3>1, Times
    <3>3. PICK x \in Int : x = dst + y + i - 1  BY <1>2
    <3>4. x \in Cells /\ ~(d <= x)  BY <1>1, <1>2, <1>5, <1>6, <1>7, <3>2, <3>3
    <3>5. new[x] = now[x]  BY <1>11, <3>4
    <3>6. now[dst + f * j + i - 1] = Before(v, m + j)[i]  BY <1>3, <3>1
    <3>7. QED  BY <3>2, <3>3, <3>5, <3>6
  <2>3. QED  BY <2>1, <2>2
<1>14. ASSUME NEW x \in Cells, x < dst \/ x >= dst + f * (k + 1 + 1) PROVE new[x] = mem[x]
  <2>1. x \in Nat  BY <1>6
  <2>2. ~(d <= x /\ x < d + f)  BY <1>1, <1>2, <1>5, <1>7, <1>14, <2>1
  <2>3. x < dst \/ x >= dst + f * (k + 1)  BY <1>1, <1>2, <1>5, <1>14, <2>1
  <2>4. QED  BY <1>3, <1>11, <2>2, <2>3
<1>15. HasDecoded(mem, new, v, m, b, dst, k + 1)
  BY <1>1, <1>11, <1>12, <1>13, <1>14 DEF HasDecoded
<1>16. QED  BY <1>1, <1>5, <1>7, <1>9, <1>15

(* ADPCM, frame by frame. *)
LEMMA DecodedIs ==
    ASSUME NEW v \in Voices, NEW a, NEW c, NEW m, NEW b, Decodes(a, c, v, m, b)
    PROVE HasDecoded(a.dmem, Decoded(a, c), v, m, b, c.dst, c.count)
<1>1. PICK g : /\ g[0] = Put(a.dmem, c.dst, b)
               /\ \A k \in 1 .. c.count : g[k] = DecodeStep(g[k - 1], Book(v), c, k)
               /\ Decoded(a, c) = g[c.count]
  BY BookTyped, DecodedFold DEF Decodes, DecodesIn
<1>2. PICK f \in Nat : f = Frame /\ f > 1  BY LanesAre
<1>3. PICK n \in Nat, src \in Nat, dst \in Nat, mem \in Memory :
          n = c.count /\ src = c.src /\ dst = c.dst /\ mem = a.dmem /\ src + n <= dst
  BY DEF Decodes
<1>4. PICK z \in Nat : z = f * (n + 1) /\ dst + z <= WetR + Buffer  BY <1>2, <1>3 DEF Decodes
<1>5. m \in Nat /\ m + n <= Len(Rom[v])  BY <1>3 DEF Decodes
<1>6. b \in Numbers(f) /\ (n = 0 \/ b = Before(v, m))  BY <1>2, <1>3 DEF Decodes
<1>7. \A k \in 1 .. n : mem[src + k - 1] = Rom[v][m + k]  BY <1>3 DEF Decodes
<1>8. WetR \in Nat /\ Buffer \in Nat /\ Cells = 0 .. WetR + Buffer - 1  BY Sizes
<1> DEFINE A == {k \in 0 .. n : HasDecoded(mem, g[k], v, m, b, dst, k)}
<1>9. 0 \in A
  <2>1. PICK now : now = g[0]  OBVIOUS
  <2>2. /\ now \in Memory
        /\ \A x \in Cells : now[x] = IF dst <= x /\ x < dst + f THEN b[x - dst + 1] ELSE mem[x]
    <3>1. now = Put(mem, dst, b)  BY <1>1, <1>3, <2>1
    <3>2. dst \in Int  OBVIOUS
    <3>3. QED  BY <1>6, <3>1, <3>2, PutIs
  <2>3. f <= z
    <3>1. PICK y \in Nat : y = f * n  OBVIOUS
    <3>2. f * (n + 1) = y + f  BY <3>1
    <3>3. QED  BY <1>4, <3>2
  <2>4. ASSUME NEW i \in 1 .. f PROVE now[dst + i - 1] = b[i]  BY <1>4, <1>8, <2>2, <2>3
  <2>5. ASSUME NEW x \in Cells, x < dst \/ x >= dst + f * (0 + 1) PROVE now[x] = mem[x]
    <3>1. f * (0 + 1) = f /\ x \in Nat  BY <1>8
    <3>2. QED  BY <2>2, <2>5, <3>1
  <2>6. HasDecoded(mem, now, v, m, b, dst, 0)  BY <1>2, <2>2, <2>4, <2>5 DEF HasDecoded
  <2>7. QED  BY <2>1, <2>6
<1>10. ASSUME NEW k \in A, k \in 0 .. n - 1 PROVE k + 1 \in A
  <2>1. k \in Nat /\ k + 1 \in 1 .. n /\ k + 1 \in 0 .. n /\ k + 1 - 1 = k  BY <1>10
  <2>2. HasDecoded(mem, g[k], v, m, b, dst, k)  BY <1>10
  <2> HIDE DEF A
  <2>3. PICK s \in Nat : s = src + k /\ src + (k + 1) - 1 = s  BY <2>1
  <2>4. g[k + 1] = L_1510(Book(v), g[k], s, dst + Frame * (k + 1))
    BY <1>1, <1>3, <2>1, <2>3 DEF DecodeStep
  <2>5. DecodesOn(mem, v, m, b, s, dst, k)
    <3>1. mem[s] = Rom[v][m + k + 1]
      <4>1. mem[src + (k + 1) - 1] = Rom[v][m + (k + 1)]  BY <1>7, <2>1
      <4>2. m \in Nat  BY <1>5
      <4>3. m + (k + 1) = m + k + 1  BY <2>1, <4>2
      <4>4. QED  BY <2>3, <4>1, <4>3
    <3>2. m + k < Len(Rom[v]) /\ s < dst /\ n # 0
      <4>1. Len(Rom[v]) \in Nat  BY RomIs
      <4>2. PICK p \in Nat, q \in Nat : p = m /\ q = Len(Rom[v]) /\ p + n <= q
        BY <1>5, <4>1
      <4>3. k + 1 <= n  BY <2>1
      <4>4. p + k < q  BY <2>1, <4>2, <4>3
      <4>5. src + n <= dst  BY <1>3
      <4>6. s < dst  BY <2>1, <2>3, <4>3, <4>5
      <4>7. n # 0  BY <2>1, <4>3
      <4>8. QED  BY <4>2, <4>4, <4>6, <4>7
    <3>3. f * (k + 2) <= f * (n + 1) /\ f * (k + 2) \in Nat
      <4>1. k + 2 \in 1 .. n + 1 /\ n + 1 \in Nat  BY <2>1
      <4>2. QED  BY <4>1, Times
    <3>4. PICK y \in Nat : y = f * (k + 2) /\ y <= z  BY <1>4, <3>3
    <3>5. dst + y <= WetR + Buffer  BY <1>4, <1>8, <3>4
    <3>6. QED  BY <1>2, <1>5, <1>6, <2>1, <3>1, <3>2, <3>4, <3>5 DEF DecodesOn
  <2>6. HasDecoded(mem, g[k + 1], v, m, b, dst, k + 1)  BY <2>2, <2>4, <2>5, DecodedNext
  <2>7. QED  BY <2>1, <2>6 DEF A
<1>11. n \in A
  <2> HIDE DEF A
  <2>1. 0 .. n \subseteq A  BY <1>9, <1>10, UpInduction
  <2>2. QED  BY <2>1
<1>12. QED  BY <1>1, <1>3, <1>11

-----------------------------------------------------------------------------
(* The frames of a voice as it is played, up to its loop and from there    *)
(* on.                                                                     *)

(* n frames from v's dec-th on are those of the voice from m on. *)
Straight(v, dec, m, n) == \A j \in 0 .. n - 1 : SourceFrame(v, dec + j) = m + j

(* From v's dec-th, which is its own m-th, it is u frames to the end.      *)
Ends(v, dec, m, u) ==
    /\ u \in Nat /\ Straight(v, dec, m, u) /\ m + u <= Len(Rom[v])
    /\ Straight(v, dec + u, LoopStart[v], Len(Rom[v]) - LoopStart[v])
    /\ u > 0 /\ dec > 0 => m >= 1 /\ SourceFrame(v, dec - 1) = m - 1

(* Up to the end the frames follow each other in the voice, and the next   *)
(* are those of the loop.                                                  *)
LEMMA UntilLoopIs ==
    ASSUME NEW v \in Voices, NEW dec \in Nat
    PROVE Ends(v, dec, SourceFrame(v, dec), UntilLoop(v, dec))
<1>1. PICK len \in Nat, s \in Nat, d \in Nat \ {0} :
          len = Len(Rom[v]) /\ s = LoopStart[v] /\ s >= 1 /\ d = len - s /\ len = s + d
  <2>1. PICK len \in Nat, s \in Nat : len = Len(Rom[v]) /\ s = LoopStart[v] /\ s >= 1 /\ s < len
    BY RomIs
  <2>2. len - s \in Nat \ {0} /\ len = s + (len - s)  BY <2>1
  <2>3. QED  BY <2>1, <2>2
<1>2. ASSUME NEW n \in Nat, n < len PROVE SourceFrame(v, n) = n
  BY <1>1, <1>2 DEF SourceFrame
<1>3. ASSUME NEW q \in Nat, NEW r \in 0 .. d - 1
      PROVE SourceFrame(v, len + (d * q + r)) = s + r
  <2>1. PICK x \in Nat : x = d * q + r /\ x % d = r
    <3>1. (d * q + r) % d = r  BY DivOf
    <3>2. d * q + r \in Nat  OBVIOUS
    <3>3. QED  BY <3>1, <3>2
  <2>2. ~(len + x < len) /\ (len + x) - len = x  OBVIOUS
  <2>3. SourceFrame(v, len + x) = s + (x % d)  BY <1>1, <2>2 DEF SourceFrame
  <2>4. QED  BY <2>1, <2>3
<1>4. CASE dec < len
  <2>1. UntilLoop(v, dec) = len - dec  BY <1>1, <1>4 DEF UntilLoop
  <2>2. SourceFrame(v, dec) = dec  BY <1>2, <1>4
  <2>3. Straight(v, dec, dec, len - dec)
    <3>1. ASSUME NEW j \in 0 .. (len - dec) - 1 PROVE SourceFrame(v, dec + j) = dec + j
      BY <1>2, <1>4
    <3>2. QED  BY <3>1 DEF Straight
  <2>4. Straight(v, len, s, d)
    <3>1. ASSUME NEW j \in 0 .. d - 1 PROVE SourceFrame(v, len + j) = s + j
      <4>1. d * 0 + j = j  BY <1>1
      <4>2. QED  BY <1>3, <4>1
    <3>2. QED  BY <3>1 DEF Straight
  <2>5. dec > 0 => SourceFrame(v, dec) >= 1 /\ SourceFrame(v, dec - 1) = SourceFrame(v, dec) - 1
    BY <1>2, <1>4, <2>2
  <2>6. dec + (len - dec) = len /\ len - dec \in Nat  BY <1>4
  <2>7. Ends(v, dec, dec, len - dec)
    <3>1. dec + (len - dec) <= len  BY <2>6
    <3>2. Straight(v, dec + (len - dec), s, d)  BY <2>4, <2>6
    <3>3. QED  BY <1>1, <2>2, <2>3, <2>5, <2>6, <3>1, <3>2 DEF Ends
  <2>8. QED  BY <2>1, <2>2, <2>7
<1>5. CASE ~(dec < len)
  <2>1. PICK q \in Nat, r \in 0 .. d - 1 : dec = len + (d * q + r)
    <3>1. PICK x \in Nat : x = dec - len /\ dec = len + x  BY <1>5
    <3>2. x \div d \in Int /\ x % d \in 0 .. d - 1 /\ x = d * (x \div d) + (x % d)
      BY DivIs
    <3>3. PICK q \in Int, r \in 0 .. d - 1 : x = d * q + r  BY <3>2
    <3>4. q \in Nat
      <4>1. SUFFICES ASSUME q <= -1 PROVE FALSE  OBVIOUS
      <4>2. PICK i \in Nat : q = -1 - i  BY <4>1
      <4>3. d * (-1 - i) = -d - d * i /\ d * i \in Nat  OBVIOUS
      <4>4. QED  BY <3>3, <4>2, <4>3
    <3>5. QED  BY <3>1, <3>3, <3>4
  <2>2. PICK y \in Nat : y = d * q  OBVIOUS
  <2>3. SourceFrame(v, dec) = s + r  BY <1>3, <2>1
  <2>4. UntilLoop(v, dec) = IF r = 0 THEN 0 ELSE d - r
    <3>1. (dec - len) % d = r  BY <2>1, <2>2, DivOf
    <3>2. (d - r) % d = IF r = 0 THEN 0 ELSE d - r
      <4>1. CASE r = 0
        <5>1. d * 1 + 0 = d /\ (d * 1 + 0) % d = 0  BY DivOf
        <5>2. d - r = d  BY <4>1
        <5>3. QED  BY <4>1, <5>1, <5>2
      <4>2. CASE r # 0  BY <4>2, DivOf
      <4>3. QED  BY <4>1, <4>2
    <3>3. dec <= len => dec = len /\ r = 0  BY <1>5, <2>1, <2>2
    <3>4. CASE dec <= len  BY <1>1, <3>3, <3>4 DEF UntilLoop
    <3>5. CASE ~(dec <= len)  BY <1>1, <3>1, <3>2, <3>5 DEF UntilLoop
    <3>6. QED  BY <3>4, <3>5
  <2>5. CASE r = 0
    <3>1. UntilLoop(v, dec) = 0  BY <2>4, <2>5
    <3>2. Straight(v, dec, s + r, 0)  BY DEF Straight
    <3>3. Straight(v, dec + 0, s, d)
      <4>1. ASSUME NEW j \in 0 .. d - 1 PROVE SourceFrame(v, dec + j) = s + j
        <5>1. dec + j = len + (d * q + j)  BY <2>1, <2>2, <2>5
        <5>2. QED  BY <1>3, <5>1
      <4>2. dec + 0 = dec  OBVIOUS
      <4>3. QED  BY <4>1, <4>2 DEF Straight
    <3>4. s + r + 0 <= len  BY <1>1, <2>5
    <3>5. Ends(v, dec, s + r, 0)  BY <1>1, <3>2, <3>3, <3>4 DEF Ends
    <3>6. QED  BY <2>3, <3>1, <3>5
  <2>6. CASE r # 0
    <3>1. UntilLoop(v, dec) = d - r /\ d - r \in Nat  BY <2>4, <2>6
    <3>2. Straight(v, dec, s + r, d - r)
      <4>1. ASSUME NEW j \in 0 .. (d - r) - 1 PROVE SourceFrame(v, dec + j) = (s + r) + j
        <5>1. r + j \in 0 .. d - 1 /\ s + (r + j) = (s + r) + j  OBVIOUS
        <5>2. dec + j = len + (d * q + (r + j))  BY <2>1, <2>2
        <5>3. QED  BY <1>3, <5>1, <5>2
      <4>2. QED  BY <4>1 DEF Straight
    <3>3. Straight(v, dec + (d - r), s, d)
      <4>1. ASSUME NEW j \in 0 .. d - 1 PROVE SourceFrame(v, dec + (d - r) + j) = s + j
        <5>1. q + 1 \in Nat /\ d * (q + 1) = y + d  BY <2>2
        <5>2. dec + (d - r) + j = len + (d * (q + 1) + j)  BY <2>1, <2>2, <5>1
        <5>3. QED  BY <1>3, <5>1, <5>2
      <4>2. QED  BY <4>1 DEF Straight
    <3>4. s + r + (d - r) <= len  BY <1>1
    <3>5. s + r >= 1 /\ SourceFrame(v, dec - 1) = (s + r) - 1
      <4>1. r - 1 \in 0 .. d - 1  BY <2>6
      <4>2. s + (r - 1) = (s + r) - 1 /\ s + r >= 1
        <5>1. s >= 1 /\ r >= 0 /\ r \in Int  BY <1>1
        <5>2. QED  BY <5>1
      <4>3. dec - 1 = len + (d * q + (r - 1))  BY <2>1, <2>2
      <4>4. QED  BY <1>3, <4>1, <4>2, <4>3
    <3>6. Ends(v, dec, s + r, d - r)  BY <1>1, <3>1, <3>2, <3>3, <3>4, <3>5 DEF Ends
    <3>7. QED  BY <2>3, <3>1, <3>6
  <2>7. QED  BY <2>5, <2>6
<1>6. QED  BY <1>4, <1>5

(* So do the frames before them. *)
LEMMA BeforeSame ==
    ASSUME NEW v \in Voices, NEW m \in Nat, NEW n \in Nat,
           SourceFrame(v, m) = SourceFrame(v, n)
    PROVE Before(v, m + 1) = Before(v, n + 1)
<1>1. m + 1 \in Int /\ n + 1 \in Int /\ Frame \in Nat  BY LanesAre
<1>2. Before(v, m + 1) \in Numbers(Frame) /\ Before(v, n + 1) \in Numbers(Frame)
  BY <1>1, BeforeTyped
<1>3. \A i \in 1 .. Frame : Before(v, m + 1)[i] = Before(v, n + 1)[i]  BY BeforeIs
<1>4. QED  BY <1>1, <1>2, <1>3, NumbersSame

(* In a straight run, the frames of the voice as played are those of the   *)
(* voice.                                                                  *)
LEMMA StraightBefore ==
    ASSUME NEW v \in Voices, NEW dec \in Nat, NEW m \in Nat, NEW n \in Nat,
           Straight(v, dec, m, n), m + n <= Len(Rom[v]), NEW k \in 1 .. n
    PROVE Before(v, dec + k) = Before(v, m + k)
<1>1. PICK j \in Nat : j = k - 1 /\ k = j + 1 /\ j \in 0 .. n - 1  OBVIOUS
<1>2. SourceFrame(v, dec + j) = m + j  BY <1>1 DEF Straight
<1>3. m + j < Len(Rom[v])  BY <1>1, RomIs
<1>4. m + j \in Nat /\ dec + j \in Nat  BY <1>1
<1>5. SourceFrame(v, m + j) = m + j  BY <1>3, <1>4, SourceFrameIs
<1>6. Before(v, dec + j + 1) = Before(v, m + j + 1)  BY <1>2, <1>4, <1>5, BeforeSame
<1>7. dec + j + 1 = dec + k /\ m + j + 1 = m + k  BY <1>1
<1>8. QED  BY <1>6, <1>7

(* What the decoder keeps for v is where the voice itself goes on.         *)
LEMMA BeforeSource ==
    ASSUME NEW v \in Voices, NEW dec \in Nat, UntilLoop(v, dec) > 0
    PROVE Before(v, dec) = Before(v, SourceFrame(v, dec))
<1>1. CASE dec = 0
  <2>1. Len(Rom[v]) > 0  BY RomIs
  <2>2. SourceFrame(v, dec) = 0  BY <1>1, <2>1, SourceFrameIs
  <2>3. QED  BY <1>1, <2>2
<1>2. CASE dec # 0
  <2>1. PICK n \in Nat : n = dec - 1 /\ dec = n + 1  BY <1>2
  <2>2. dec > 0  BY <1>2
  <2>3. SourceFrame(v, dec) >= 1 /\ SourceFrame(v, n) = SourceFrame(v, dec) - 1
    BY <2>1, <2>2, UntilLoopIs DEF Ends
  <2>4. PICK m \in Nat : SourceFrame(v, dec) = m + 1 /\ m < Len(Rom[v])
    <3>1. SourceFrame(v, dec) \in 0 .. Len(Rom[v]) - 1 /\ Len(Rom[v]) \in Nat
      BY SourceFrameIs, RomIs
    <3>2. PICK x \in Nat, len \in Nat : x = SourceFrame(v, dec) /\ len = Len(Rom[v]) /\ x < len
      BY <3>1
    <3>3. x - 1 \in Nat /\ x = (x - 1) + 1 /\ x - 1 < len  BY <2>3, <3>2
    <3>4. QED  BY <3>2, <3>3
  <2>5. SourceFrame(v, n) = m  BY <2>3, <2>4
  <2>6. SourceFrame(v, m) = m  BY <2>4, SourceFrameIs
  <2>7. Before(v, n + 1) = Before(v, m + 1)  BY <2>5, <2>6, BeforeSame
  <2>8. QED  BY <2>1, <2>4, <2>7
<1>3. QED  BY <1>1, <1>2

-----------------------------------------------------------------------------
(* Running a list of commands. *)

(* The jump table as a relation: command c, not a stop, makes b of a. *)
Handled(c, a, b) ==
    \/ c.op = "CLEARBUFF"  /\ b = L_119C(a, c)
    \/ c.op = "LOADBUFF"   /\ b = L_11C8(a, c)
    \/ c.op = "SAVEBUFF"   /\ b = L_1208(a, c)
    \/ c.op = "LOADADPCM"  /\ b = L_1248(a, c)
    \/ c.op = "SETVOL"     /\ b = L_127C(a, c)
    \/ c.op = "INTERLEAVE" /\ b = L_12D4(a, c)
    \/ c.op = "DMEMMOVE"   /\ b = L_1348(a, c)
    \/ c.op = "SETLOOP"    /\ b = L_1384(a, c)
    \/ c.op = "ADPCM"      /\ b = L_139C(a, c)
    \/ c.op = "RESAMPLE"   /\ b = L_17EC(a, c)
    \/ c.op = "ENVMIXER"   /\ b = L_1A64(a, c)
    \/ c.op = "MIXER"      /\ b = L_1C84(a, c)
    \/ c.op = "0x12B0"     /\ b = L_12B0(a, c)
    \/ c.op = "0x1BB4"     /\ b = L_1BB4Alone(a, c)

(* A command has one result. *)
LEMMA OneResult ==
    ASSUME NEW c, NEW a, NEW b, NEW d, Handled(c, a, b), Handled(c, a, d)
    PROVE b = d
BY DEF Handled

(* t is a list of commands. *)
IsList(t) == \E S : t \in Seq(S)

(* q are the states on the way when the commands of t make b of a. *)
Steps(t, a, b, q) ==
    /\ q \in [0 .. Len(t) -> Machine] /\ q[0] = a /\ q[Len(t)] = b
    /\ \A k \in 1 .. Len(t) : Handled(t[k], q[k - 1], q[k])

(* Run from a, the commands of t come to b. *)
Run(t, a, b) == IsList(t) /\ \E q : Steps(t, a, b, q)

(* What runs, starts from a machine and comes to one. *)
LEMMA RunTyped ==
    ASSUME NEW t, NEW a, NEW b, Run(t, a, b)
    PROVE a \in Machine /\ b \in Machine
<1>1. PICK S : t \in Seq(S)  BY DEF Run, IsList
<1>2. PICK q : Steps(t, a, b, q)  BY DEF Run
<1>3. Len(t) \in Nat  BY <1>1
<1>4. 0 \in 0 .. Len(t) /\ Len(t) \in 0 .. Len(t)  BY <1>3
<1>5. QED  BY <1>2, <1>4 DEF Steps

(* Nothing to run comes to what it starts from. *)
LEMMA RunNone ==
    ASSUME NEW a, NEW b, Run(<<>>, a, b)
    PROVE a = b
<1>1. PICK q : Steps(<<>>, a, b, q)  BY DEF Run
<1>2. Len(<<>>) = 0  OBVIOUS
<1>3. QED  BY <1>1, <1>2 DEF Steps

(* And does so from every machine. *)
LEMMA RunNil ==
    ASSUME NEW a \in Machine
    PROVE Run(<<>>, a, a)
<1>1. <<>> \in Seq({}) /\ Len(<<>>) = 0  OBVIOUS
<1>2. Steps(<<>>, a, a, [k \in 0 .. 0 |-> a])  BY <1>1 DEF Steps
<1>3. QED  BY <1>1, <1>2 DEF Run, IsList

(* One command. *)
LEMMA RunOne ==
    ASSUME NEW c, NEW a \in Machine, NEW b \in Machine, Handled(c, a, b)
    PROVE Run(<<c>>, a, b)
<1>1. <<c>> \in Seq({c}) /\ Len(<<c>>) = 1 /\ <<c>>[1] = c  OBVIOUS
<1>2. PICK q : q = [k \in 0 .. 1 |-> IF k = 0 THEN a ELSE b]  OBVIOUS
<1>3. q \in [0 .. 1 -> Machine] /\ q[0] = a /\ q[1] = b  BY <1>2
<1>4. \A k \in 1 .. 1 : k = 1 /\ k - 1 = 0  OBVIOUS
<1>5. \A k \in 1 .. 1 : Handled(<<c>>[k], q[k - 1], q[k])  BY <1>1, <1>3, <1>4
<1>6. Steps(<<c>>, a, b, q)  BY <1>1, <1>3, <1>5 DEF Steps
<1>7. QED  BY <1>1, <1>6 DEF Run, IsList

(* One list after the other. *)
LEMMA RunConcat ==
    ASSUME NEW s, NEW t, NEW a, NEW b, NEW d, Run(s, a, b), Run(t, b, d)
    PROVE Run(s \o t, a, d)
<1>1. PICK S : s \in Seq(S)  BY DEF Run, IsList
<1>2. PICK T : t \in Seq(T)  BY DEF Run, IsList
<1>3. s \in Seq(S \union T) /\ t \in Seq(S \union T)  BY <1>1, <1>2
<1>4. PICK m \in Nat, n \in Nat : m = Len(s) /\ n = Len(t)  BY <1>1, <1>2
<1>5. PICK r : r = s \o t  OBVIOUS
<1>6. /\ r \in Seq(S \union T) /\ Len(r) = m + n
      /\ \A i \in 1 .. m + n : r[i] = IF i <= m THEN s[i] ELSE t[i - m]
  BY <1>3, <1>4, <1>5, ConcatProperties
<1>7. PICK f : Steps(s, a, b, f)  BY DEF Run
<1>8. PICK g : Steps(t, b, d, g)  BY DEF Run
<1>9. /\ f \in [0 .. m -> Machine] /\ f[0] = a /\ f[m] = b
      /\ \A k \in 1 .. m : Handled(s[k], f[k - 1], f[k])
  BY <1>4, <1>7 DEF Steps
<1>10. /\ g \in [0 .. n -> Machine] /\ g[0] = b /\ g[n] = d
       /\ \A k \in 1 .. n : Handled(t[k], g[k - 1], g[k])
  BY <1>4, <1>8 DEF Steps
<1>11. PICK q : q = [k \in 0 .. m + n |-> IF k <= m THEN f[k] ELSE g[k - m]]  OBVIOUS
<1>12. q \in [0 .. m + n -> Machine]
  <2>1. ASSUME NEW k \in 0 .. m + n PROVE (IF k <= m THEN f[k] ELSE g[k - m]) \in Machine
    <3>1. k <= m => k \in 0 .. m  OBVIOUS
    <3>2. ~(k <= m) => k - m \in 0 .. n  OBVIOUS
    <3>3. QED  BY <1>9, <1>10, <3>1, <3>2
  <2>2. QED  BY <1>11, <2>1
<1>13. (\A k \in 0 .. m : q[k] = f[k]) /\ \A k \in 0 .. n : q[m + k] = g[k]
  <2>1. ASSUME NEW k \in 0 .. m PROVE q[k] = f[k]
    <3>1. k \in 0 .. m + n /\ k <= m  OBVIOUS
    <3>2. QED  BY <1>11, <3>1
  <2>2. ASSUME NEW k \in 0 .. n PROVE q[m + k] = g[k]
    <3>1. CASE k = 0
      <4>1. m + k = m /\ m \in 0 .. m  BY <3>1
      <4>2. QED  BY <1>9, <1>10, <2>1, <3>1, <4>1
    <3>2. CASE k # 0
      <4>1. m + k \in 0 .. m + n /\ ~(m + k <= m) /\ (m + k) - m = k  BY <3>2
      <4>2. QED  BY <1>11, <4>1
    <3>3. QED  BY <3>1, <3>2
  <2>3. QED  BY <2>1, <2>2
<1>14. ASSUME NEW k \in 1 .. m + n PROVE Handled(r[k], q[k - 1], q[k])
  <2>1. CASE k <= m
    <3>1. k \in 1 .. m /\ k \in 0 .. m /\ k - 1 \in 0 .. m  BY <2>1
    <3>2. r[k] = s[k] /\ q[k - 1] = f[k - 1] /\ q[k] = f[k]  BY <1>6, <1>13, <2>1, <3>1
    <3>3. QED  BY <1>9, <3>1, <3>2
  <2>2. CASE ~(k <= m)
    <3>1. PICK j \in 1 .. n : k = m + j
      <4>1. k - m \in 1 .. n /\ k = m + (k - m)  BY <2>2
      <4>2. QED  BY <4>1
    <3>2. j \in 0 .. n /\ j - 1 \in 0 .. n /\ k - 1 = m + (j - 1) /\ k - m = j  BY <3>1
    <3>3. q[k - 1] = g[j - 1] /\ q[k] = g[j]  BY <1>13, <3>1, <3>2
    <3>4. r[k] = t[j]  BY <1>6, <2>2, <3>2
    <3>5. QED  BY <1>10, <3>3, <3>4
  <2>3. QED  BY <2>1, <2>2
<1>15. q[0] = a /\ q[m + n] = d
  <2>1. 0 \in 0 .. m /\ n \in 0 .. n  OBVIOUS
  <2>2. QED  BY <1>9, <1>10, <1>13, <2>1
<1>16. Steps(r, a, d, q)  BY <1>6, <1>12, <1>14, <1>15 DEF Steps
<1>17. QED  BY <1>5, <1>6, <1>16 DEF Run, IsList

(* The first command, then the others. *)
LEMMA RunHead ==
    ASSUME NEW t, NEW a, NEW b, t # <<>>, Run(t, a, b)
    PROVE \E m : Handled(Head(t), a, m) /\ Run(Tail(t), m, b)
<1>1. PICK S : t \in Seq(S)  BY DEF Run, IsList
<1>2. PICK f : Steps(t, a, b, f)  BY DEF Run
<1>3. PICK n \in Nat : Len(t) = n + 1
  <2>1. Len(t) \in Nat /\ Len(t) # 0  BY <1>1
  <2>2. Len(t) - 1 \in Nat /\ Len(t) = (Len(t) - 1) + 1  BY <2>1
  <2>3. QED  BY <2>2
<1>4. PICK u : u = Tail(t)  OBVIOUS
<1>5. u \in Seq(S) /\ Len(u) = n /\ \A i \in 1 .. n : u[i] = t[i + 1]
  BY <1>1, <1>3, <1>4
<1>6. /\ f \in [0 .. n + 1 -> Machine] /\ f[0] = a /\ f[n + 1] = b
      /\ \A k \in 1 .. n + 1 : Handled(t[k], f[k - 1], f[k])
  BY <1>2, <1>3 DEF Steps
<1>7. Head(t) = t[1]  BY <1>1, <1>3
<1>8. Handled(Head(t), a, f[1])
  <2>1. 1 \in 1 .. n + 1 /\ 1 - 1 = 0  OBVIOUS
  <2>2. QED  BY <1>6, <1>7, <2>1
<1>9. PICK q : q = [k \in 0 .. n |-> f[k + 1]]  OBVIOUS
<1>10. q \in [0 .. n -> Machine] /\ q[0] = f[1] /\ q[n] = b
  <2>1. \A k \in 0 .. n : k + 1 \in 0 .. n + 1  OBVIOUS
  <2>2. 0 \in 0 .. n /\ n \in 0 .. n /\ 0 + 1 = 1  OBVIOUS
  <2>3. QED  BY <1>6, <1>9, <2>1, <2>2
<1>11. ASSUME NEW k \in 1 .. n PROVE Handled(u[k], q[k - 1], q[k])
  <2>1. /\ k \in 0 .. n /\ k - 1 \in 0 .. n /\ k - 1 + 1 = k /\ k + 1 \in 1 .. n + 1
        /\ k + 1 - 1 = k
    OBVIOUS
  <2>2. q[k - 1] = f[k] /\ q[k] = f[k + 1] /\ u[k] = t[k + 1]  BY <1>5, <1>9, <2>1
  <2>3. QED  BY <1>6, <2>1, <2>2
<1>12. Steps(u, f[1], b, q)  BY <1>5, <1>10, <1>11 DEF Steps
<1>13. Run(u, f[1], b)  BY <1>5, <1>12 DEF Run, IsList
<1>14. QED  BY <1>4, <1>8, <1>13

(* A concatenation of sequences, place by place. *)
LEMMA JoinIs ==
    ASSUME NEW S, NEW s \in Seq(S), NEW t \in Seq(S)
    PROVE /\ s \o t \in Seq(S) /\ Len(s \o t) = Len(s) + Len(t)
          /\ \A i \in 1 .. Len(s) + Len(t) : (s \o t)[i] = IF i <= Len(s) THEN s[i] ELSE t[i - Len(s)]
BY ConcatProperties

(* Two commands. *)
LEMMA RunTwo ==
    ASSUME NEW c, NEW d, NEW x, NEW y, NEW z, Run(<<c>>, x, y), Run(<<d>>, y, z)
    PROVE Run(<<c, d>>, x, z)
<1>1. PICK s, t, S : s = <<c>> /\ t = <<d>> /\ S = {c, d}  OBVIOUS
<1>2. s \in Seq(S) /\ t \in Seq(S) /\ Len(s) = 1 /\ Len(t) = 1 /\ s[1] = c /\ t[1] = d
  BY <1>1
<1>3. PICK r : r = s \o t  OBVIOUS
<1>4. /\ r \in Seq(S) /\ Len(r) = Len(s) + Len(t)
      /\ \A i \in 1 .. Len(s) + Len(t) : r[i] = IF i <= Len(s) THEN s[i] ELSE t[i - Len(s)]
  <2>1. s \in Seq(S) /\ t \in Seq(S)  BY <1>2
  <2>2. QED  BY <1>3, <2>1, JoinIs, Zenon
<1>5. r[1] = c /\ r[2] = d /\ Len(r) = 2
  <2>1. \A i \in 1 .. 2 : r[i] = IF i <= 1 THEN s[i] ELSE t[i - 1]  BY <1>2, <1>4
  <2>2. 1 \in 1 .. 2 /\ 2 \in 1 .. 2 /\ 2 - 1 = 1  OBVIOUS
  <2>3. r[1] = s[1]  BY <2>1, <2>2
  <2>4. r[2] = t[1]  BY <2>1, <2>2
  <2>5. QED  BY <1>2, <1>4, <2>3, <2>4
<1>6. r = <<c, d>>
  <2>1. DOMAIN r = 1 .. 2 /\ r = [i \in 1 .. 2 |-> r[i]]
    <3>1. r \in Seq(S) /\ Len(r) = 2  BY <1>4, <1>5
    <3>2. QED  BY <3>1
  <2>2. DOMAIN <<c, d>> = 1 .. 2 /\ <<c, d>>[1] = c /\ <<c, d>>[2] = d  OBVIOUS
  <2>3. \A i \in 1 .. 2 : r[i] = <<c, d>>[i]  BY <1>5, <2>2
  <2>4. QED  BY <2>1, <2>2, <2>3
<1>7. Run(<<c>> \o <<d>>, x, z)  BY RunConcat
<1>8. QED  BY <1>1, <1>3, <1>6, <1>7

(* Three commands. *)
LEMMA RunThree ==
    ASSUME NEW c, NEW d, NEW e, NEW w, NEW x, NEW y, NEW z,
           Run(<<c>>, w, x), Run(<<d>>, x, y), Run(<<e>>, y, z)
    PROVE Run(<<c, d, e>>, w, z)
<1>1. <<c, d, e>> = <<c, d>> \o <<e>>  OBVIOUS
<1>2. Run(<<c, d>>, w, y)  BY RunTwo
<1>3. Run(<<c, d>> \o <<e>>, w, z)  BY <1>2, RunConcat
<1>4. QED  BY <1>1, <1>3

(* Four commands. *)
LEMMA RunFour ==
    ASSUME NEW c, NEW d, NEW e, NEW f, NEW v, NEW w, NEW x, NEW y, NEW z,
           Run(<<c>>, v, w), Run(<<d>>, w, x), Run(<<e>>, x, y), Run(<<f>>, y, z)
    PROVE Run(<<c, d, e, f>>, v, z)
<1>1. <<c, d, e, f>> = <<c, d, e>> \o <<f>>  OBVIOUS
<1>2. Run(<<c, d, e>>, v, y)  BY RunThree
<1>3. Run(<<c, d, e>> \o <<f>>, v, z)  BY <1>2, RunConcat
<1>4. QED  BY <1>1, <1>3

-----------------------------------------------------------------------------
(* Machines, and the commands that fetch frames and decode them. *)

(* The fields of a machine. *)
LEMMA MachineIs ==
    ASSUME NEW a \in Machine
    PROVE /\ a.dmem \in Memory /\ a.book \in {<<>>} \union Numbers(2 * Frame) /\ a.loop \in Blocks
          /\ a.left \in Numbers(Lanes) /\ a.right \in Numbers(Lanes) /\ a.v24 \in Numbers(6)
          /\ a.start \in Int /\ a.dram \in [Blocks -> Seq(Int)]
BY DEF Machine, Memory

(* A machine with another memory. *)
LEMMA WithMemory ==
    ASSUME NEW a \in Machine, NEW mem \in Memory
    PROVE /\ [a EXCEPT !.dmem = mem] \in Machine
          /\ [a EXCEPT !.dmem = mem].dmem = mem
          /\ [a EXCEPT !.dmem = mem].book = a.book /\ [a EXCEPT !.dmem = mem].loop = a.loop
          /\ [a EXCEPT !.dmem = mem].left = a.left /\ [a EXCEPT !.dmem = mem].right = a.right
          /\ [a EXCEPT !.dmem = mem].v24 = a.v24 /\ [a EXCEPT !.dmem = mem].start = a.start
          /\ [a EXCEPT !.dmem = mem].dram = a.dram
BY DEF Machine, Memory

(* Some block of DRAM is s, the others are as they were. *)
Stored(dram, b, s) == [dram EXCEPT ![b] = s]

(* Storing a block changes it alone. *)
LEMMA StoredIs ==
    ASSUME NEW dram \in [Blocks -> Seq(Int)], NEW b \in Blocks, NEW n \in Nat, NEW s \in Numbers(n)
    PROVE /\ Stored(dram, b, s) \in [Blocks -> Seq(Int)] /\ Stored(dram, b, s)[b] = s
          /\ \A o \in Blocks : o # b => Stored(dram, b, s)[o] = dram[o]
<1>1. s \in Seq(Int)  BY NumbersAre
<1>2. QED  BY <1>1 DEF Stored

(* The blocks there are. *)
LEMMA BlocksAre ==
    /\ <<"out">> \in Blocks
    /\ \A v \in Voices : /\ <<"rom", v>> \in Blocks /\ <<"book", v>> \in Blocks
                         /\ <<"loop", v>> \in Blocks /\ <<"adpcm", v>> \in Blocks
                         /\ <<"resample", v>> \in Blocks /\ <<"env", v>> \in Blocks
BY DEF Blocks

(* What is left alone by commands that decode, resample or move. *)
Alike(a, d) ==
    /\ d \in Machine /\ d.book = a.book /\ d.v24 = a.v24 /\ d.start = a.start

(* Frames of v have been fetched and decoded, the first of them its m-th;  *)
(* what they followed, b, is at dst.                                       *)
Fetched(a, d, v, m, b, dst, count) ==
    /\ Alike(a, d) /\ d.loop = a.loop
    /\ d.dram = Stored(a.dram, <<"adpcm", v>>, IF count = 0 THEN b ELSE Before(v, m + count))
    /\ \A i \in 1 .. Frame : d.dmem[dst + i - 1] = b[i]
    /\ \A j \in 1 .. count : \A i \in 1 .. Frame :
          d.dmem[dst + Frame * j + i - 1] = Before(v, m + j)[i]
    /\ \A x \in Cells : Temp <= x /\ (x < dst \/ x >= dst + Frame * (count + 1)) =>
                           d.dmem[x] = a.dmem[x]

(* What an ADPCM of v finds. *)
Found(a, v, flags) ==
    IF "INIT" \in flags THEN Zeros(Frame)
    ELSE IF "LOOP" \in flags THEN a.dram[a.loop] ELSE a.dram[<<"adpcm", v>>]

(* count frames of v, from its dec-th as played on, can be fetched to dst; *)
(* m is that frame in the voice, and b what it follows.                    *)
Fetches(a, v, dec, m, b, count, flags, dst) ==
    /\ a \in Machine /\ a.book = Book(v) /\ a.dram[<<"rom", v>>] = Rom[v]
    /\ count \in Nat /\ dec \in Nat /\ SourceFrame(v, dec) = m /\ m \in Nat
    /\ m + count <= Len(Rom[v]) /\ count + 1 <= Buffer + Buffer
    /\ dst \in Nat /\ Temp <= dst /\ dst + Frame * (count + 1) <= DryL
    /\ b \in Numbers(Frame) /\ Found(a, v, flags) = b
    /\ count = 0 \/ b = Before(v, m)

(* The command that loads them, from an even frame on. *)
Loader(v, m, count) ==
    [op |-> "LOADBUFF", addr |-> <<"rom", v>>, from |-> m - (m % 2), dst |-> Main,
     n |-> IF count = 0 THEN 0 ELSE count + (m % 2)]

(* They have been loaded. *)
Loaded(a, mem, v, m, count) ==
    /\ mem \in Memory
    /\ \A x \in Cells : Temp <= x => mem[x] = a.dmem[x]
    /\ \A k \in 1 .. count : mem[Main + (m % 2) + k - 1] = Rom[v][m + k]

(* The compressed frames are in the main buffer. *)
LEMMA FramesLoaded ==
    ASSUME NEW v \in Voices, NEW a, NEW dec, NEW m, NEW b, NEW count, NEW flags, NEW dst,
           Fetches(a, v, dec, m, b, count, flags, dst), NEW c,
           c = Loader(v, m, count)
    PROVE \E mem : Run(<<c>>, a, [a EXCEPT !.dmem = mem]) /\ Loaded(a, mem, v, m, count)
<1>1. PICK mem0 \in Memory : mem0 = a.dmem  BY MachineIs DEF Fetches
<1>2. a \in Machine /\ a.dram[<<"rom", v>>] = Rom[v] /\ count \in Nat /\ m \in Nat
  BY DEF Fetches
<1>3. PICK k2 \in Nat : k2 = m % 2 /\ k2 <= 1 /\ m - k2 \in Nat
  <2>1. m % 2 \in 0 .. 1 /\ m - (m % 2) \in Nat  BY <1>2
  <2>2. QED  BY <2>1
<1>4. PICK from \in Nat : from = m - k2 /\ from + k2 = m
  <2>1. m - k2 \in Nat /\ (m - k2) + k2 = m  BY <1>2, <1>3
  <2>2. QED  BY <2>1
<1>5. c.op = "LOADBUFF" /\ c.addr = <<"rom", v>> /\ c.from = from /\ c.dst = 0
      /\ c.n = IF count = 0 THEN 0 ELSE count + k2
  BY <1>3, <1>4, Sizes DEF Loader
<1>6. Handled(c, a, L_11C8(a, c))  BY <1>5 DEF Handled
<1>7. CASE count = 0
  <2>1. L_11C8(a, c) = a  BY <1>5, <1>7 DEF L_11C8
  <2>2. [a EXCEPT !.dmem = mem0] = a  BY <1>1, <1>2 DEF Machine
  <2>3. Run(<<c>>, a, [a EXCEPT !.dmem = mem0])  BY <1>2, <1>6, <2>1, <2>2, RunOne
  <2>4. \A k \in 1 .. count : FALSE  BY <1>7
  <2>5. QED  BY <1>1, <2>3, <2>4 DEF Loaded
<1>8. CASE count # 0
  <2>1. PICK n \in Nat : n = count + k2 /\ c.n = n /\ n # 0  BY <1>2, <1>5, <1>8
  <2>2. from + n <= Len(Rom[v])
    <3>1. m + count <= Len(Rom[v]) /\ Len(Rom[v]) \in Nat  BY RomIs DEF Fetches
    <3>2. from + n = m + count  BY <1>2, <1>4, <2>1
    <3>3. QED  BY <3>1, <3>2
  <2>3. Rom[v] \in Numbers(Len(Rom[v])) /\ Len(Rom[v]) \in Nat
    <3>1. Rom[v] \in Seq(Nat)  BY HandlerAssumption
    <3>2. Rom[v] \in Seq(Int)  BY <3>1
    <3>3. QED  BY <3>2, SeqIs
  <2>4. PICK s : s = SubSeq(Rom[v], from + 1, from + n)  OBVIOUS
  <2>5. s \in Numbers(n) /\ \A k \in 1 .. n : s[k] = Rom[v][from + k]
    BY <2>2, <2>3, <2>4, PartIs
  <2>6. PICK mem : mem = Put(mem0, 0, s)  OBVIOUS
  <2>7. /\ mem \in Memory
        /\ \A x \in Cells : mem[x] = IF 0 <= x /\ x < 0 + n THEN s[x - 0 + 1] ELSE mem0[x]
    <3>1. 0 \in Int  OBVIOUS
    <3>2. QED  BY <2>5, <2>6, <3>1, PutIs
  <2>8. L_11C8(a, c) = [a EXCEPT !.dmem = mem]
    BY <1>1, <1>2, <1>5, <2>1, <2>4, <2>6 DEF L_11C8
  <2>9. [a EXCEPT !.dmem = mem] \in Machine  BY <1>2, <2>7, WithMemory
  <2>10. Run(<<c>>, a, [a EXCEPT !.dmem = mem])  BY <1>2, <1>6, <2>8, <2>9, RunOne
  <2>11. PICK size \in Nat, wet \in Nat : size = Buffer /\ wet = WetR /\ Temp = size + size
                                          /\ Cells = 0 .. wet + size - 1 /\ size + size <= wet
    <3>1. /\ Buffer \in Nat /\ WetR \in Nat /\ Temp = Buffer + Buffer
          /\ Cells = 0 .. WetR + Buffer - 1
      BY Sizes
    <3>2. Buffer + Buffer <= WetR
      <4>1. TempSize \in Nat /\ DryL = Buffer + Buffer + TempSize /\ DryR = DryL + Buffer
            /\ WetL = DryR + Buffer /\ WetR = WetL + Buffer
        BY Sizes
      <4>2. QED  BY <3>1, <4>1
    <3>3. QED  BY <3>1, <3>2
  <2>12. n <= size + size
    <3>1. count + 1 <= size + size  BY <2>11 DEF Fetches
    <3>2. QED  BY <1>2, <1>3, <2>1, <2>11, <3>1
  <2>13. ASSUME NEW x \in Cells, Temp <= x PROVE mem[x] = a.dmem[x]
    <3>1. x \in Int /\ ~(x < 0 + n)  BY <2>11, <2>12, <2>13
    <3>2. QED  BY <1>1, <2>7, <3>1
  <2>14. ASSUME NEW k \in 1 .. count PROVE mem[Main + (m % 2) + k - 1] = Rom[v][m + k]
    <3>1. PICK x \in Nat : x = k2 + k - 1 /\ x + 1 = k2 + k /\ x < n
      <4>1. k2 + k - 1 \in Nat /\ (k2 + k - 1) + 1 = k2 + k /\ k2 + k - 1 < n
        BY <1>2, <1>3, <2>1
      <4>2. QED  BY <4>1
    <3>2. x \in Cells /\ x - 0 + 1 = k2 + k /\ k2 + k \in 1 .. n /\ 0 <= x /\ x < 0 + n
      BY <1>2, <2>1, <2>11, <2>12, <3>1
    <3>3. mem[x] = s[k2 + k]  BY <2>7, <3>2
    <3>4. s[k2 + k] = Rom[v][from + (k2 + k)]  BY <2>5, <3>2
    <3>5. from + (k2 + k) = m + k /\ 0 + k2 + k - 1 = x  BY <1>2, <1>3, <1>4, <3>1
    <3>6. Main = 0  BY Sizes
    <3>7. QED  BY <1>3, <3>1, <3>3, <3>4, <3>5, <3>6
  <2>15. QED  BY <2>7, <2>10, <2>13, <2>14 DEF Loaded
<1>9. QED  BY <1>7, <1>8

(* A machine whose memory and one of whose blocks have been written. *)
Worked(a, mem, b, s) == [a EXCEPT !.dmem = mem, !.dram = Stored(a.dram, b, s)]

(* Its fields. *)
LEMMA BlockFields ==
    ASSUME NEW a \in Machine, NEW mem \in Memory, NEW b \in Blocks, NEW n \in Nat,
           NEW s \in Numbers(n), NEW d,
           d = Worked(a, mem, b, s)
    PROVE /\ d \in Machine /\ d.dmem = mem /\ d.dram = Stored(a.dram, b, s)
          /\ d.book = a.book /\ d.loop = a.loop /\ d.left = a.left /\ d.right = a.right
          /\ d.v24 = a.v24 /\ d.start = a.start
<1>1. a.dram \in [Blocks -> Seq(Int)]  BY MachineIs
<1>2. PICK dram \in [Blocks -> Seq(Int)] : dram = Stored(a.dram, b, s)  BY <1>1, StoredIs
<1>3. d = [a EXCEPT !.dmem = mem, !.dram = dram]  BY <1>2 DEF Worked
<1>4. /\ [a EXCEPT !.dmem = mem, !.dram = dram] \in Machine
      /\ [a EXCEPT !.dmem = mem, !.dram = dram].dmem = mem
      /\ [a EXCEPT !.dmem = mem, !.dram = dram].dram = dram
      /\ [a EXCEPT !.dmem = mem, !.dram = dram].book = a.book
      /\ [a EXCEPT !.dmem = mem, !.dram = dram].loop = a.loop
      /\ [a EXCEPT !.dmem = mem, !.dram = dram].left = a.left
      /\ [a EXCEPT !.dmem = mem, !.dram = dram].right = a.right
      /\ [a EXCEPT !.dmem = mem, !.dram = dram].v24 = a.v24
      /\ [a EXCEPT !.dmem = mem, !.dram = dram].start = a.start
  BY DEF Machine, Memory
<1>5. QED  BY <1>2, <1>3, <1>4

(* A pass: what is decoded is the voice, and what is kept its last frame. *)
LEMMA FetchIs ==
    ASSUME NEW v \in Voices, NEW a, NEW dec, NEW m, NEW b, NEW count, NEW flags, NEW dst,
           Fetches(a, v, dec, m, b, count, flags, dst)
    PROVE \E d : Run(Fetch(v, dec, count, flags, dst), a, d) /\ Fetched(a, d, v, m, b, dst, count)
<1>1. PICK c : c = Loader(v, m, count)  OBVIOUS
<1>2. PICK e : e = [op |-> "ADPCM", flags |-> flags, state |-> <<"adpcm", v>>,
                    src |-> Main + (m % 2), dst |-> dst, count |-> count]
  OBVIOUS
<1>3. Fetch(v, dec, count, flags, dst) = <<c, e>>
  <2>1. SourceFrame(v, dec) = m  BY DEF Fetches
  <2>2. QED  BY <1>1, <1>2, <2>1 DEF Fetch, Loader
<1>4. PICK mem : Run(<<c>>, a, [a EXCEPT !.dmem = mem]) /\ Loaded(a, mem, v, m, count)
  BY <1>1, FramesLoaded
<1>5. mem \in Memory /\ (\A x \in Cells : Temp <= x => mem[x] = a.dmem[x])
  BY <1>4 DEF Loaded
<1>6. \A k \in 1 .. count : mem[Main + (m % 2) + k - 1] = Rom[v][m + k]
  BY <1>4 DEF Loaded
<1>7. PICK a1 : a1 = [a EXCEPT !.dmem = mem]  OBVIOUS
<1>8. /\ a1 \in Machine /\ a1.dmem = mem /\ a1.book = a.book /\ a1.loop = a.loop
      /\ a1.v24 = a.v24 /\ a1.start = a.start /\ a1.dram = a.dram
  <2>1. a \in Machine  BY DEF Fetches
  <2>2. QED  BY <1>5, <1>7, <2>1, WithMemory
<1>9. PICK n \in Nat, f \in Nat, q \in Nat :
          n = count /\ f = Frame /\ f > 1 /\ q = dst
  BY LanesAre DEF Fetches
<1>10. PICK z \in Nat, y \in Nat : z = f * (n + 1) /\ y = f * n /\ z = y + f  OBVIOUS
<1>11. PICK size \in Nat, top \in Nat, t \in Nat :
          /\ size = Buffer /\ top = WetR + Buffer /\ t = Temp /\ t = size + size
          /\ Cells = 0 .. top - 1 /\ q + z <= top /\ t <= q /\ n + 1 <= t
  <2>1. PICK size \in Nat, wet \in Nat, dry \in Nat, temp \in Nat :
            /\ size = Buffer /\ wet = WetR /\ dry = DryL /\ temp = TempSize
            /\ Cells = 0 .. wet + size - 1 /\ dry = size + size + temp
            /\ wet = dry + size + size + size /\ Temp = size + size
    BY Sizes
  <2>2. dst + Frame * (count + 1) <= DryL /\ Temp <= dst /\ count + 1 <= Buffer + Buffer
    BY DEF Fetches
  <2>3. q + z <= dry /\ size + size <= q /\ n + 1 <= size + size  BY <1>9, <1>10, <2>1, <2>2
  <2>4. q + z <= wet + size /\ wet + size \in Nat /\ size + size \in Nat  BY <2>1, <2>3
  <2>5. QED  BY <2>1, <2>3, <2>4
<1>12. PICK k2 \in Nat : k2 = m % 2 /\ k2 <= 1 /\ Main + (m % 2) = k2  BY Sizes DEF Fetches
<1>13. /\ e.op = "ADPCM" /\ e.flags = flags /\ e.state = <<"adpcm", v>> /\ e.src = k2
       /\ e.dst = dst /\ e.count = count
  BY <1>2, <1>12
<1>14. Decodes(a1, e, v, m, b)
  <2>1. L_1460(a1, e) = b  BY <1>8, <1>13 DEF Fetches, Found, L_1460, L_140C
  <2>2. e.src + e.count <= e.dst /\ e.src \in Nat
    <3>1. k2 + n <= q  BY <1>11, <1>12
    <3>2. QED  BY <1>9, <1>13, <3>1
  <2>3. e.dst + Frame * (e.count + 1) <= WetR + Buffer  BY <1>9, <1>10, <1>11, <1>13
  <2>4. \A k \in 1 .. e.count : a1.dmem[e.src + k - 1] = Rom[v][m + k]
    <3>1. \A k \in 1 .. count : mem[k2 + k - 1] = Rom[v][m + k]
      <4>1. ASSUME NEW k \in 1 .. count PROVE mem[k2 + k - 1] = Rom[v][m + k]  BY <1>6, <1>12
      <4>2. QED  BY <4>1
    <3>2. QED  BY <1>8, <1>13, <3>1
  <2>5. /\ a1.book = Book(v) /\ m \in Nat /\ m + e.count <= Len(Rom[v])
        /\ b \in Numbers(Frame) /\ (e.count = 0 \/ b = Before(v, m))
    BY <1>8, <1>13 DEF Fetches
  <2>6. a1.dmem \in Memory /\ e.count \in Nat /\ e.dst \in Nat  BY <1>5, <1>8, <1>9, <1>13
  <2>7. QED  BY <2>1, <2>2, <2>3, <2>4, <2>5, <2>6 DEF Decodes
<1>15. PICK now : now = Decoded(a1, e)  OBVIOUS
<1>16. HasDecoded(mem, now, v, m, b, dst, count)  BY <1>8, <1>13, <1>14, <1>15, DecodedIs
<1>17. now \in Memory  BY <1>16 DEF HasDecoded
<1>18. PICK w : w = IF count = 0 THEN b ELSE Before(v, m + count)  OBVIOUS
<1>19. m + count \in Int /\ b \in Numbers(Frame)  BY DEF Fetches
<1>20. w \in Numbers(f)  BY <1>9, <1>18, <1>19, BeforeTyped
<1>21. Window(now, e.dst + Frame * e.count, Frame) = w
  <2>1. PICK x \in Nat : x = q + y /\ x + f <= top /\ x = e.dst + Frame * e.count
    <3>1. q + y \in Nat /\ q + y + f <= top  BY <1>10, <1>11
    <3>2. QED  BY <1>9, <1>10, <1>13, <3>1
  <2>2. /\ Window(now, x, f) \in Numbers(f)
        /\ \A i \in 1 .. f : Window(now, x, f)[i] = now[x + i - 1]
    <3>1. x + f <= WetR + Buffer  BY <1>11, <2>1
    <3>2. QED  BY <1>17, <3>1, WindowIs
  <2>3. ASSUME NEW i \in 1 .. f PROVE now[x + i - 1] = w[i]
    <3>1. CASE count = 0  BY <1>9, <1>10, <1>16, <1>18, <2>1, <3>1 DEF HasDecoded
    <3>2. CASE count # 0  BY <1>9, <1>13, <1>16, <1>18, <2>1, <3>2 DEF HasDecoded
    <3>3. QED  BY <3>1, <3>2
  <2>4. Window(now, x, f) = w  BY <1>20, <2>2, <2>3, NumbersSame
  <2>5. QED  BY <1>9, <2>1, <2>4
<1>22. PICK d, o : d = Worked(a1, now, o, w) /\ o = <<"adpcm", v>>  OBVIOUS
<1>23. /\ d \in Machine /\ d.dmem = now /\ d.dram = Stored(a1.dram, <<"adpcm", v>>, w)
       /\ d.book = a1.book /\ d.loop = a1.loop /\ d.v24 = a1.v24 /\ d.start = a1.start
  <2>1. o \in Blocks  BY <1>22, BlocksAre
  <2>2. d \in Machine /\ d.dmem = now /\ d.dram = Stored(a1.dram, o, w)
        /\ d.book = a1.book /\ d.loop = a1.loop /\ d.v24 = a1.v24 /\ d.start = a1.start
    BY <1>8, <1>17, <1>20, <1>22, <2>1, BlockFields
  <2>3. QED  BY <1>22, <2>2
<1>24. L_139C(a1, e) = d  BY <1>13, <1>15, <1>21, <1>22 DEF L_1634, Stored, L_139C, Worked
<1>25. Run(<<e>>, a1, d)
  <2>1. Handled(e, a1, d)  BY <1>13, <1>24 DEF Handled
  <2>2. QED  BY <1>8, <1>23, <2>1, RunOne
<1>26. Run(<<c, e>>, a, d)  BY <1>4, <1>7, <1>25, RunTwo
<1>27. ASSUME NEW x \in Cells, Temp <= x, x < dst \/ x >= dst + Frame * (count + 1)
       PROVE d.dmem[x] = a.dmem[x]
  <2>1. now[x] = mem[x]  BY <1>16, <1>27 DEF HasDecoded
  <2>2. QED  BY <1>5, <1>23, <1>27, <2>1
<1>28. Fetched(a, d, v, m, b, dst, count)
  BY <1>8, <1>16, <1>18, <1>23, <1>27 DEF Alike, Fetched, HasDecoded
<1>29. QED  BY <1>3, <1>26, <1>28

(* DMEMMOVE downwards. *)
LEMMA MoveIs ==
    ASSUME NEW a \in Machine, NEW c, c.op = "DMEMMOVE", NEW m \in Nat \ {0}, Moves(a, c, m)
    PROVE \E mem : /\ Run(<<c>>, a, [a EXCEPT !.dmem = mem])
                   /\ HasMoved(a.dmem, mem, c.src, c.dst, Lanes * m)
<1>1. PICK mem : mem = Moved(a, c)  OBVIOUS
<1>2. HasMoved(a.dmem, mem, c.src, c.dst, Lanes * m)  BY <1>1, MovedIs
<1>3. mem \in Memory  BY <1>2 DEF HasMoved
<1>4. Handled(c, a, [a EXCEPT !.dmem = mem])  BY <1>1 DEF Handled, L_1348
<1>5. [a EXCEPT !.dmem = mem] \in Machine  BY <1>3, WithMemory
<1>6. Run(<<c>>, a, [a EXCEPT !.dmem = mem])  BY <1>4, <1>5, RunOne
<1>7. QED  BY <1>2, <1>6

(* SETLOOP. *)
LEMMA SetloopIs ==
    ASSUME NEW a \in Machine, NEW c, c.op = "SETLOOP", NEW b \in Blocks, c.addr = b
    PROVE \E d : /\ Run(<<c>>, a, d) /\ Alike(a, d) /\ d.loop = b
                 /\ d.dmem = a.dmem /\ d.dram = a.dram
<1>1. PICK d : d = [a EXCEPT !.loop = b]  OBVIOUS
<1>2. /\ d \in Machine /\ d.dmem = a.dmem /\ d.dram = a.dram /\ d.loop = b
      /\ d.book = a.book /\ d.v24 = a.v24 /\ d.start = a.start
  BY <1>1 DEF Machine
<1>3. Handled(c, a, d)  BY <1>1 DEF Handled, L_1384
<1>4. Run(<<c>>, a, d)  BY <1>2, <1>3, RunOne
<1>5. QED  BY <1>2, <1>4 DEF Alike

(* From dst on there are v's frames, from the one before its n-th on. *)
Holds(mem, v, n, dst, count) ==
    \A j \in 0 .. count : \A i \in 1 .. Frame : mem[dst + Frame * j + i - 1] = Before(v, n + j)[i]

(* Where a voice is, is in its block. *)
Going(a, v, s) ==
    /\ a \in Machine /\ a.book = Book(v) /\ a.dram[<<"rom", v>>] = Rom[v]
    /\ a.dram[<<"loop", v>>] = Before(v, LoopStart[v])
    /\ s.dec \in Nat /\ s.fresh \in BOOLEAN /\ (s.fresh => s.dec = 0)
    /\ ~s.fresh => a.dram[<<"adpcm", v>>] = Before(v, s.dec)

(* The frames needed fit and do not pass the loop twice. *)
Room(v, need) ==
    /\ need \in Nat /\ Temp + Frame * (need + 2) <= DryL
    /\ need + 1 <= Buffer + Buffer /\ need <= Len(Rom[v]) - LoopStart[v]

(* What Decode leaves. *)
Continued(a, d, v, dec, need) ==
    /\ Alike(a, d) /\ d.dram = Stored(a.dram, <<"adpcm", v>>, Before(v, dec + need))
    /\ Holds(d.dmem, v, dec, Temp, need)
    /\ \A x \in Cells : DryL <= x => d.dmem[x] = a.dmem[x]

(* The flags of a first pass. *)
Flags(s) == IF s.fresh THEN {"INIT"} ELSE {}

(* Before the first frame there is silence. *)
LEMMA BeforeNone ==
    ASSUME NEW v \in Voices
    PROVE Before(v, 0) = Zeros(Frame)
<1>1. PICK f \in Nat : f = Frame /\ f > 1  BY LanesAre
<1>2. ASSUME NEW i \in 1 .. f PROVE SampleAt(v, f * (0 - 1) + i - 1) = 0
  <2>1. PICK k \in Int : k = f * (0 - 1) + i - 1 /\ k < 0
    <3>1. f * (0 - 1) = -f  OBVIOUS
    <3>2. f * (0 - 1) + i - 1 \in Int /\ f * (0 - 1) + i - 1 < 0  BY <3>1
    <3>3. QED  BY <3>2
  <2>2. QED  BY <2>1, SampleTyped
<1>3. QED  BY <1>1, <1>2 DEF Before, Zeros

(* Wherever ADPCM finds its state, it is the frame before. *)
LEMMA FoundIs ==
    ASSUME NEW a, NEW v \in Voices, NEW s, Going(a, v, s)
    PROVE Found(a, v, Flags(s)) = Before(v, s.dec)
<1>1. CASE s.fresh
  <2>1. "INIT" \in Flags(s)  BY <1>1 DEF Flags
  <2>2. s.dec = 0  BY <1>1 DEF Going
  <2>3. QED  BY <2>1, <2>2, BeforeNone DEF Found
<1>2. CASE ~s.fresh
  <2>1. "INIT" \notin Flags(s) /\ "LOOP" \notin Flags(s)  BY <1>2 DEF Flags
  <2>2. a.dram[<<"adpcm", v>>] = Before(v, s.dec)  BY <1>2 DEF Going
  <2>3. QED  BY <2>1, <2>2 DEF Found
<1>3. QED  BY <1>1, <1>2

(* n frames up to the loop fit where they are decoded from and to. *)
PassFits(v, dec, n) ==
    n \in Nat /\ n <= UntilLoop(v, dec) /\ Temp + Frame * (n + 1) <= DryL /\ n + 1 <= Buffer + Buffer

(* They have been decoded. *)
PassDone(a, d, v, dec, n) ==
    /\ Alike(a, d) /\ d.dram = Stored(a.dram, <<"adpcm", v>>, Before(v, dec + n))
    /\ Holds(d.dmem, v, dec, Temp, n)
    /\ \A x \in Cells : Temp + Frame * (n + 1) <= x => d.dmem[x] = a.dmem[x]

(* The first pass, up to the end or to what is needed. *)
LEMMA FirstPass ==
    ASSUME NEW a, NEW v \in Voices, NEW s, Going(a, v, s), NEW dec, dec = s.dec,
           NEW n, PassFits(v, dec, n)
    PROVE \E d : Run(Fetch(v, dec, n, Flags(s), Temp), a, d) /\ PassDone(a, d, v, dec, n)
<1>1. /\ n \in Nat /\ n <= UntilLoop(v, dec)
      /\ Temp + Frame * (n + 1) <= DryL /\ n + 1 <= Buffer + Buffer
  BY DEF PassFits
<1>2. dec \in Nat  BY DEF Going
<1>3. PICK m : m = SourceFrame(v, dec)  OBVIOUS
<1>4. PICK len \in Nat : len = Len(Rom[v])  BY RomIs
<1>5. m \in Nat
  <2>1. m \in 0 .. len - 1  BY <1>2, <1>3, <1>4, SourceFrameIs
  <2>2. QED  BY <2>1
<1>6. PICK u : u = UntilLoop(v, dec)  OBVIOUS
<1>7. Ends(v, dec, m, u)  BY <1>2, <1>3, <1>6, UntilLoopIs
<1>8. u \in Nat /\ Straight(v, dec, m, u) /\ m + u <= len  BY <1>4, <1>7 DEF Ends
<1>9. n <= u /\ m + n <= len
  <2>1. n <= u  BY <1>1, <1>6
  <2>2. QED  BY <1>1, <1>4, <1>5, <1>8, <2>1
<1>10. PICK b : b = Before(v, dec)  OBVIOUS
<1>11. b \in Numbers(Frame)
  <2>1. dec \in Int  BY <1>2
  <2>2. QED  BY <1>10, <2>1, BeforeTyped
<1>12. n = 0 \/ b = Before(v, m)
  <2>1. SUFFICES ASSUME n # 0 PROVE b = Before(v, m)  OBVIOUS
  <2>2. UntilLoop(v, dec) > 0  BY <1>1, <1>6, <1>8, <1>9, <2>1
  <2>3. QED  BY <1>2, <1>3, <1>10, <2>2, BeforeSource
<1>13. PICK t \in Nat : t = Temp  BY Sizes
<1>14. Fetches(a, v, dec, m, b, n, Flags(s), t)
  <2>1. a \in Machine /\ a.book = Book(v) /\ a.dram[<<"rom", v>>] = Rom[v]  BY DEF Going
  <2>2. Found(a, v, Flags(s)) = b  BY <1>10, FoundIs
  <2>3. t \in Nat /\ Temp <= t /\ t + Frame * (n + 1) <= DryL  BY <1>1, <1>13
  <2>4. m + n <= Len(Rom[v])  BY <1>4, <1>9
  <2>5. QED  BY <1>1, <1>2, <1>3, <1>5, <1>11, <1>12, <2>1, <2>2, <2>3, <2>4 DEF Fetches
<1>15. PICK d : Run(Fetch(v, dec, n, Flags(s), t), a, d) /\ Fetched(a, d, v, m, b, t, n)
  BY <1>14, FetchIs
<1>16. ASSUME NEW j \in 1 .. n PROVE Before(v, m + j) = Before(v, dec + j)
  <2>1. j \in 1 .. u  BY <1>1, <1>8, <1>9
  <2>2. QED  BY <1>2, <1>4, <1>5, <1>8, <2>1, StraightBefore
<1>17. d.dram = Stored(a.dram, <<"adpcm", v>>, Before(v, dec + n))
  <2>1. d.dram = Stored(a.dram, <<"adpcm", v>>, IF n = 0 THEN b ELSE Before(v, m + n))
    BY <1>15 DEF Fetched
  <2>2. CASE n = 0
    <3>1. dec + n = dec  BY <1>2, <2>2
    <3>2. QED  BY <1>10, <2>1, <2>2, <3>1
  <2>3. CASE n # 0
    <3>1. n \in 1 .. n  BY <1>1, <2>3
    <3>2. QED  BY <1>16, <2>1, <2>3, <3>1
  <2>4. QED  BY <2>2, <2>3
<1>18. Holds(d.dmem, v, dec, t, n)
  <2>1. ASSUME NEW j \in 0 .. n, NEW i \in 1 .. Frame
        PROVE d.dmem[t + Frame * j + i - 1] = Before(v, dec + j)[i]
    <3>1. CASE j = 0
      <4>1. d.dmem[t + i - 1] = b[i]  BY <1>15 DEF Fetched
      <4>2. PICK f \in Nat : f = Frame  BY LanesAre
      <4>3. t + f * j = t /\ dec + j = dec  BY <1>2, <3>1, <4>2
      <4>4. QED  BY <1>10, <4>1, <4>2, <4>3
    <3>2. CASE j # 0
      <4>1. j \in 1 .. n  BY <1>1, <3>2
      <4>2. d.dmem[t + Frame * j + i - 1] = Before(v, m + j)[i]  BY <1>15, <4>1 DEF Fetched
      <4>3. QED  BY <1>16, <4>1, <4>2
    <3>3. QED  BY <3>1, <3>2
  <2>2. QED  BY <2>1 DEF Holds
<1>19. ASSUME NEW x \in Cells, t + Frame * (n + 1) <= x PROVE d.dmem[x] = a.dmem[x]
  <2>1. PICK z \in Nat : z = Frame * (n + 1)
    <3>1. PICK f \in Nat : f = Frame  BY LanesAre
    <3>2. f * (n + 1) \in Nat  BY <1>1
    <3>3. QED  BY <3>1, <3>2
  <2>2. x \in Int
    <3>1. Cells = 0 .. WetR + Buffer - 1  BY Sizes
    <3>2. QED  BY <3>1
  <2>3. t <= x /\ x >= t + Frame * (n + 1)  BY <1>19, <2>1, <2>2
  <2>4. QED  BY <1>13, <1>15, <2>3 DEF Fetched
<1>20. Alike(a, d)  BY <1>15 DEF Fetched
<1>21. PassDone(a, d, v, dec, n)  BY <1>13, <1>17, <1>18, <1>19, <1>20 DEF PassDone
<1>22. QED  BY <1>13, <1>15, <1>21

-----------------------------------------------------------------------------
(* Decoding over the loop: two passes, moved together. *)

(* A voice that has come to the end of its loop, at frame e. *)
Looping(a, v, e, n, next) ==
    /\ a \in Machine /\ a.book = Book(v) /\ a.dram[<<"rom", v>>] = Rom[v]
    /\ a.loop = <<"loop", v>> /\ a.dram[<<"loop", v>>] = Before(v, LoopStart[v])
    /\ e \in Nat /\ Straight(v, e, LoopStart[v], Len(Rom[v]) - LoopStart[v])
    /\ n \in Nat \ {0} /\ n <= Len(Rom[v]) - LoopStart[v] /\ n + 1 <= Buffer + Buffer
    /\ next \in Nat /\ Temp <= next /\ next + Frame * (n + 1) <= DryL

(* What it leaves: frame e + 1 is where the second one goes. *)
Looped(a, d, v, e, n, next) ==
    /\ Alike(a, d) /\ d.dram = Stored(a.dram, <<"adpcm", v>>, Before(v, e + n))
    /\ \A j \in 1 .. n : \A i \in 1 .. Frame :
          d.dmem[next + Frame * j + i - 1] = Before(v, e + j)[i]
    /\ \A x \in Cells : Temp <= x /\ (x < next \/ x >= next + Frame * (n + 1)) =>
                           d.dmem[x] = a.dmem[x]

(* The pass after the loop. *)
LEMMA SecondPass ==
    ASSUME NEW a, NEW v \in Voices, NEW e, NEW n, NEW next, Looping(a, v, e, n, next)
    PROVE \E d : Run(Fetch(v, e, n, {"LOOP"}, next), a, d) /\ Looped(a, d, v, e, n, next)
<1>1. PICK len \in Nat, m \in Nat : len = Len(Rom[v]) /\ m = LoopStart[v] /\ m < len
  <2>1. Len(Rom[v]) \in Nat /\ LoopStart[v] \in 1 .. Len(Rom[v]) - 1  BY RomIs
  <2>2. QED  BY <2>1
<1>2. /\ e \in Nat /\ Straight(v, e, m, len - m) /\ n \in Nat /\ n # 0 /\ n <= len - m
  BY <1>1 DEF Looping
<1>3. SourceFrame(v, e) = m
  <2>1. 0 \in 0 .. (len - m) - 1 /\ e + 0 = e /\ m + 0 = m  BY <1>1, <1>2
  <2>2. SourceFrame(v, e + 0) = m + 0  BY <1>2, <2>1 DEF Straight
  <2>3. QED  BY <2>1, <2>2
<1>4. PICK b : b = Before(v, m)  OBVIOUS
<1>5. Fetches(a, v, e, m, b, n, {"LOOP"}, next)
  <2>1. b \in Numbers(Frame)
    <3>1. m \in Int  OBVIOUS
    <3>2. QED  BY <1>4, <3>1, BeforeTyped
  <2>2. Found(a, v, {"LOOP"}) = b  BY <1>1, <1>4 DEF Found, Looping
  <2>3. m + n <= Len(Rom[v])  BY <1>1, <1>2
  <2>4. QED  BY <1>2, <1>3, <1>4, <2>1, <2>2, <2>3 DEF Fetches, Looping
<1>6. PICK d : Run(Fetch(v, e, n, {"LOOP"}, next), a, d) /\ Fetched(a, d, v, m, b, next, n)
  BY <1>5, FetchIs
<1>7. ASSUME NEW j \in 1 .. n PROVE Before(v, m + j) = Before(v, e + j)
  <2>1. len - m \in Nat /\ j \in 1 .. len - m /\ m + (len - m) <= len  BY <1>1, <1>2
  <2>2. PICK k \in Nat : k = len - m  BY <2>1
  <2>3. Straight(v, e, m, k) /\ m + k <= Len(Rom[v]) /\ j \in 1 .. k  BY <1>1, <1>2, <2>1, <2>2
  <2>4. QED  BY <1>2, <2>3, StraightBefore
<1>8. Looped(a, d, v, e, n, next)
  <2>1. d.dram = Stored(a.dram, <<"adpcm", v>>, Before(v, e + n))
    <3>1. d.dram = Stored(a.dram, <<"adpcm", v>>, Before(v, m + n))
      BY <1>2, <1>6 DEF Fetched
    <3>2. n \in 1 .. n  BY <1>2
    <3>3. QED  BY <1>7, <3>1, <3>2
  <2>2. ASSUME NEW j \in 1 .. n, NEW i \in 1 .. Frame
        PROVE d.dmem[next + Frame * j + i - 1] = Before(v, e + j)[i]
    <3>1. d.dmem[next + Frame * j + i - 1] = Before(v, m + j)[i]  BY <1>6 DEF Fetched
    <3>2. QED  BY <1>7, <3>1
  <2>3. QED  BY <1>6, <2>1, <2>2 DEF Fetched, Looped
<1>9. QED  BY <1>6, <1>8

(* The command that closes the gap between the two passes. *)
Mover(next, n) ==
    [op |-> "DMEMMOVE", src |-> next + Frame, dst |-> next, n |-> Frame * n]

(* n frames have been moved down by one. *)
MovedOver(old, mem, next, n) ==
    /\ mem \in Memory
    /\ \A j \in 1 .. n : \A i \in 1 .. Frame :
          mem[next + Frame * (j - 1) + i - 1] = old[next + Frame * j + i - 1]
    /\ \A x \in Cells : x < next \/ x >= DryL => mem[x] = old[x]

(* The samples the loop was fetched with are moved over. *)
LEMMA MoveOver ==
    ASSUME NEW a \in Machine, NEW n \in Nat \ {0}, NEW next \in Nat,
           next + Frame * (n + 1) <= DryL, NEW c, c = Mover(next, n)
    PROVE \E mem : Run(<<c>>, a, [a EXCEPT !.dmem = mem]) /\ MovedOver(a.dmem, mem, next, n)
<1>1. PICK l \in Nat, f \in Nat : l = Lanes /\ f = Frame /\ f = l + l /\ l > 1  BY LanesAre
<1>2. PICK z \in Nat : z = f * n /\ f * (n + 1) = z + f
  <2>1. f * n \in Nat /\ f * (n + 1) = f * n + f  OBVIOUS
  <2>2. QED  BY <2>1
<1>3. PICK m \in Nat \ {0} : m = n + n  OBVIOUS
<1>4. l * m = z
  <2>1. l * (n + n) = (l + l) * n  OBVIOUS
  <2>2. QED  BY <1>1, <1>2, <1>3, <2>1
<1>5. PICK dry \in Nat, top \in Nat :
          dry = DryL /\ top = WetR + Buffer /\ dry <= top /\ Cells = 0 .. top - 1
  <2>1. PICK size \in Nat, wet \in Nat, dry \in Nat :
            /\ size = Buffer /\ wet = WetR /\ dry = DryL
            /\ wet = dry + size + size + size /\ Cells = 0 .. wet + size - 1
    BY Sizes
  <2>2. dry <= wet + size /\ wet + size \in Nat  BY <2>1
  <2>3. QED  BY <2>1, <2>2
<1>6. next + f + z <= dry
  <2>1. next + f * (n + 1) <= dry  BY <1>1, <1>5
  <2>2. QED  BY <1>2, <2>1
<1>7. c.op = "DMEMMOVE" /\ c.src = next + f /\ c.dst = next /\ c.n = z  BY <1>1, <1>2 DEF Mover
<1>8. Moves(a, c, m)
  <2>1. a.dmem \in Memory  BY MachineIs
  <2>2. c.n = Lanes * m  BY <1>1, <1>4, <1>7
  <2>3. c.src \in Nat /\ c.dst \in Nat /\ c.dst <= c.src  BY <1>7
  <2>4. next + f + z <= top  BY <1>5, <1>6
  <2>5. c.src + Lanes * m <= WetR + Buffer  BY <1>1, <1>4, <1>5, <1>7, <2>4
  <2>6. QED  BY <2>1, <2>2, <2>3, <2>5 DEF Moves
<1>9. PICK mem : /\ Run(<<c>>, a, [a EXCEPT !.dmem = mem])
                 /\ HasMoved(a.dmem, mem, c.src, c.dst, Lanes * m)
  BY <1>7, <1>8, MoveIs
<1>10. HasMoved(a.dmem, mem, next + f, next, z)  BY <1>1, <1>4, <1>7, <1>9
<1>11. /\ mem \in Memory
       /\ \A x \in Cells : mem[x] = IF next <= x /\ x < next + z THEN a.dmem[next + f + (x - next)]
                                    ELSE a.dmem[x]
  BY <1>10 DEF HasMoved
<1>12. ASSUME NEW j \in 1 .. n, NEW i \in 1 .. f
       PROVE mem[next + f * (j - 1) + i - 1] = a.dmem[next + f * j + i - 1]
  <2>1. PICK y \in Nat : y = f * (j - 1) /\ f * j = y + f /\ y + f <= z  BY <1>2, Times
  <2>2. PICK x \in Nat : x = next + y + i - 1
    <3>1. next + y + i - 1 \in Nat  OBVIOUS
    <3>2. QED  BY <3>1
  <2>3. x \in Cells /\ next <= x /\ x < next + z  BY <1>5, <1>6, <2>1, <2>2
  <2>4. next + f + (x - next) = next + (y + f) + i - 1  BY <2>2
  <2>5. mem[x] = a.dmem[next + f + (x - next)]  BY <1>11, <2>3
  <2>6. QED  BY <2>1, <2>2, <2>4, <2>5
<1>13. ASSUME NEW x \in Cells, x < next \/ x >= DryL PROVE mem[x] = a.dmem[x]
  <2>1. x \in Nat  BY <1>5
  <2>2. ~(next <= x /\ x < next + z)  BY <1>5, <1>6, <1>13, <2>1
  <2>3. QED  BY <1>11, <2>2
<1>14. MovedOver(a.dmem, mem, next, n)  BY <1>1, <1>11, <1>12, <1>13 DEF MovedOver
<1>15. QED  BY <1>9, <1>14

(* Of two blocks stored to one place the second stays. *)
LEMMA StoredTwice ==
    ASSUME NEW dram \in [Blocks -> Seq(Int)], NEW b, NEW s, NEW t
    PROVE Stored(Stored(dram, b, s), b, t) = Stored(dram, b, t)
BY DEF Stored

(* What two steps leave alone, both do. *)
LEMMA AlikeTwice ==
    ASSUME NEW a, NEW b, NEW d, Alike(a, b), Alike(b, d)
    PROVE Alike(a, d)
BY DEF Alike

(* Frames up to the u-th, and n more after the loop has been gone through. *)
TwoPasses(m1, m2, m3, v, dec, u, n, next) ==
    /\ next = Temp + Frame * (u + 1) /\ next + Frame * (n + 1) <= DryL
    /\ Holds(m1, v, dec, Temp, u)
    /\ \A j \in 1 .. n : \A i \in 1 .. Frame :
          m2[next + Frame * j + i - 1] = Before(v, dec + u + j)[i]
    /\ \A x \in Cells : Temp <= x /\ (x < next \/ x >= next + Frame * (n + 1)) => m2[x] = m1[x]
    /\ MovedOver(m2, m3, next, n)

(* Moved over, the two passes are one run of samples, and the buses are    *)
(* untouched.                                                              *)
LEMMA HoldsBoth ==
    ASSUME NEW v, NEW dec \in Nat, NEW u \in Nat, NEW n \in Nat \ {0}, NEW next \in Nat,
           NEW m1, NEW m2, NEW m3, TwoPasses(m1, m2, m3, v, dec, u, n, next)
    PROVE /\ Holds(m3, v, dec, Temp, u + n)
          /\ \A x \in Cells : DryL <= x => m3[x] = m1[x]
<1>1. PICK f \in Nat : f = Frame  BY LanesAre
<1>2. PICK t \in Nat : t = Temp  BY Sizes
<1>3. next = t + f * (u + 1) /\ next + f * (n + 1) <= DryL  BY <1>1, <1>2 DEF TwoPasses
<1>4. PICK z \in Nat : z = f * u /\ f * (u + 1) = z + f /\ next = t + z + f
  <2>1. f * u \in Nat /\ f * (u + 1) = f * u + f  OBVIOUS
  <2>2. PICK z \in Nat : z = f * u /\ f * (u + 1) = z + f  BY <2>1
  <2>3. QED  BY <1>3, <2>2
<1>5. PICK top \in Nat : Cells = 0 .. top - 1 /\ next <= top
  <2>1. PICK size \in Nat, wet \in Nat, dry \in Nat :
            /\ size = Buffer /\ wet = WetR /\ dry = DryL
            /\ wet = dry + size + size + size /\ Cells = 0 .. wet + size - 1
    BY Sizes
  <2>2. PICK y \in Nat : y = f * (n + 1)
    <3>1. f * (n + 1) \in Nat  OBVIOUS
    <3>2. QED  BY <3>1
  <2>3. next + y <= dry  BY <1>3, <2>1, <2>2
  <2>4. next <= wet + size /\ wet + size \in Nat  BY <2>1, <2>3
  <2>5. QED  BY <2>1, <2>4
<1>6. \A x \in Cells : Temp <= x /\ (x < next \/ x >= next + f * (n + 1)) => m2[x] = m1[x]
  BY <1>1 DEF TwoPasses
<1>7. MovedOver(m2, m3, next, n)  BY DEF TwoPasses
<1>8. ASSUME NEW j \in 0 .. u + n, NEW i \in 1 .. f
      PROVE m3[t + f * j + i - 1] = Before(v, dec + j)[i]
  <2>1. CASE j <= u
    <3>1. j \in 0 .. u  BY <2>1
    <3>2. PICK y \in Nat : y = f * j /\ y <= z
      <4>1. CASE u = 0
        <5>1. j = u  BY <2>1, <4>1
        <5>2. QED  BY <1>4, <5>1
      <4>2. CASE j = 0
        <5>1. f * 0 = 0  OBVIOUS
        <5>2. QED  BY <1>4, <4>2, <5>1
      <4>3. CASE j # 0
        <5>1. j \in 1 .. u  BY <3>1, <4>3
        <5>2. QED  BY <1>4, <5>1, Times
      <4>4. QED  BY <4>2, <4>3
    <3>3. PICK x \in Nat : x = t + y + i - 1
      <4>1. t + y + i - 1 \in Nat  OBVIOUS
      <4>2. QED  BY <4>1
    <3>4. x \in Cells /\ Temp <= x /\ x < next  BY <1>2, <1>4, <1>5, <3>2, <3>3
    <3>5. m3[x] = m2[x] /\ m2[x] = m1[x]  BY <1>6, <1>7, <3>4 DEF MovedOver
    <3>6. m1[x] = Before(v, dec + j)[i]
      <4>1. m1[t + Frame * j + i - 1] = Before(v, dec + j)[i]  BY <1>1, <1>2, <3>1 DEF Holds, TwoPasses
      <4>2. QED  BY <1>1, <3>2, <3>3, <4>1
    <3>7. QED  BY <3>2, <3>3, <3>5, <3>6
  <2>2. CASE ~(j <= u)
    <3>1. PICK k \in 1 .. n : j = u + k
      <4>1. j - u \in 1 .. n /\ j = u + (j - u)  BY <2>2
      <4>2. QED  BY <4>1
    <3>2. f * j = z + f + f * (k - 1)
      <4>1. f * (u + k) = f * u + f + f * (k - 1)  OBVIOUS
      <4>2. QED  BY <1>4, <3>1, <4>1
    <3>3. PICK y \in Nat : y = f * (k - 1)  BY Times
    <3>4. t + f * j + i - 1 = next + y + i - 1  BY <1>4, <3>2, <3>3
    <3>5. m3[next + f * (k - 1) + i - 1] = m2[next + f * k + i - 1]  BY <1>1, <1>7 DEF MovedOver
    <3>6. m2[next + f * k + i - 1] = Before(v, dec + u + k)[i]  BY <1>1 DEF TwoPasses
    <3>7. dec + u + k = dec + j  BY <3>1
    <3>8. QED  BY <3>3, <3>4, <3>5, <3>6, <3>7
  <2>3. QED  BY <2>1, <2>2
<1>9. ASSUME NEW x \in Cells, DryL <= x PROVE m3[x] = m1[x]
  <2>1. PICK dry \in Nat, y \in Nat : dry = DryL /\ y = f * (n + 1)
    <3>1. f * (n + 1) \in Nat /\ DryL \in Nat
      <4>1. f * (n + 1) \in Nat  OBVIOUS
      <4>2. DryL \in Nat  BY Sizes
      <4>3. QED  BY <4>1, <4>2
    <3>2. QED  BY <3>1
  <2>2. x \in Nat  BY <1>5
  <2>3. x >= dry /\ Temp <= x /\ x >= next + f * (n + 1)
    <3>1. next + y <= dry /\ dry <= x  BY <1>3, <1>9, <2>1
    <3>2. t <= next  BY <1>4
    <3>3. x >= next + y /\ t <= x  BY <2>1, <2>2, <3>1, <3>2
    <3>4. QED  BY <1>2, <2>1, <2>2, <3>1, <3>3
  <2>4. m2[x] = m1[x]  BY <1>6, <2>3
  <2>5. m3[x] = m2[x]  BY <1>7, <2>1, <2>3 DEF MovedOver
  <2>6. QED  BY <2>4, <2>5
<1>10. Holds(m3, v, dec, Temp, u + n)  BY <1>1, <1>2, <1>8 DEF Holds
<1>11. QED  BY <1>9, <1>10

(* A list that does not come to the loop decodes in one pass. *)
LEMMA OnePass ==
    ASSUME NEW a, NEW v \in Voices, NEW s, Going(a, v, s), NEW need, Room(v, need),
           need <= UntilLoop(v, s.dec)
    PROVE \E d : Run(Decode(v, s, need), a, d) /\ Continued(a, d, v, s.dec, need)
<1>1. PICK n \in Nat, dec \in Nat : n = need /\ dec = s.dec  BY DEF Room, Going
<1>2. PICK f \in Nat, t \in Nat, dry \in Nat, y \in Nat :
          f = Frame /\ t = Temp /\ dry = DryL /\ y = f * (n + 1) /\ f * (n + 2) = y + f
  <2>1. PICK f \in Nat, t \in Nat, dry \in Nat : f = Frame /\ t = Temp /\ dry = DryL
    BY LanesAre, Sizes
  <2>2. f * (n + 1) \in Nat /\ f * (n + 2) = f * (n + 1) + f  OBVIOUS
  <2>3. QED  BY <2>1, <2>2
<1>3. t + y <= dry
  <2>1. t + f * (n + 2) <= dry  BY <1>1, <1>2 DEF Room
  <2>2. QED  BY <1>2, <2>1
<1>4. Temp + Frame * (n + 1) <= DryL  BY <1>2, <1>3
<1>5. n + 1 <= Buffer + Buffer  BY <1>1 DEF Room
<1>6. PassFits(v, dec, n)  BY <1>1, <1>4, <1>5 DEF PassFits, Room
<1>7. PICK d : Run(Fetch(v, dec, n, Flags(s), Temp), a, d) /\ PassDone(a, d, v, dec, n)
  BY <1>1, <1>6, FirstPass
<1>8. /\ Alike(a, d) /\ d.dram = Stored(a.dram, <<"adpcm", v>>, Before(v, dec + n))
      /\ Holds(d.dmem, v, dec, Temp, n)
      /\ \A x \in Cells : Temp + Frame * (n + 1) <= x => d.dmem[x] = a.dmem[x]
  BY <1>7 DEF PassDone
<1>9. PICK u \in Nat : u = UntilLoop(v, dec)
  <2>1. dec \in Nat  BY <1>1 DEF Going
  <2>2. QED  BY <2>1, UntilLoopIs DEF Ends
<1>10. n <= u  BY <1>1, <1>9
<1>11. Decode(v, s, need) = Fetch(v, dec, n, Flags(s), Temp)
  <2>1. (IF need < UntilLoop(v, s.dec) THEN need ELSE UntilLoop(v, s.dec)) = n
    BY <1>1, <1>9, <1>10
  <2>2. Decode(v, s, need) = Fetch(v, dec, n, Flags(s), Temp) \o <<>>
    BY <1>1, <2>1 DEF Decode, Flags
  <2>3. PICK S : Fetch(v, dec, n, Flags(s), Temp) \in Seq(S)  BY <1>7 DEF Run, IsList
  <2>4. QED  BY <2>2, <2>3
<1>12. ASSUME NEW x \in Cells, DryL <= x PROVE d.dmem[x] = a.dmem[x]
  <2>1. x \in Nat  BY Sizes
  <2>2. Temp + Frame * (n + 1) <= x  BY <1>2, <1>3, <1>12, <2>1
  <2>3. QED  BY <1>8, <2>2
<1>13. Continued(a, d, v, s.dec, need)  BY <1>1, <1>8, <1>12 DEF Continued
<1>14. QED  BY <1>7, <1>11, <1>13

(* One that does, in two. *)
LEMMA PassesIs ==
    ASSUME NEW a, NEW v \in Voices, NEW s, Going(a, v, s), NEW need, Room(v, need),
           NEW u \in Nat, u = UntilLoop(v, s.dec), NEW n \in Nat \ {0}, need = u + n
    PROVE \E d : Run(Decode(v, s, need), a, d) /\ Continued(a, d, v, s.dec, need)
<1>1. PICK dec \in Nat : dec = s.dec  BY DEF Going
<1>2. PICK f \in Nat, t \in Nat, dry \in Nat :
          f = Frame /\ t = Temp /\ dry = DryL
  BY LanesAre, Sizes
<1>3. PICK y \in Nat, z \in Nat :
          y = f * (u + 1) /\ z = f * (n + 1) /\ t + y + z <= dry
  <2>1. f * (u + 1) \in Nat /\ f * (n + 1) \in Nat
    OBVIOUS
  <2>2. t + f * (u + n + 2) <= dry  BY <1>2 DEF Room
  <2>3. f * (u + n + 2) = f * (u + 1) + f * (n + 1)  OBVIOUS
  <2>4. PICK y \in Nat, z \in Nat : y = f * (u + 1) /\ z = f * (n + 1)  BY <2>1
  <2>5. t + (y + z) <= dry  BY <2>2, <2>3, <2>4
  <2>6. t + y + z <= dry  BY <2>5
  <2>7. QED  BY <2>4, <2>6
<1>4. PICK next \in Nat : next = t + y /\ t <= next /\ next + z <= dry  BY <1>3
<1>5. u + 1 <= Buffer + Buffer /\ n + 1 <= Buffer + Buffer /\ n <= Len(Rom[v]) - LoopStart[v]
  <2>1. PICK size \in Nat, len \in Nat, loop \in Nat :
            size = Buffer /\ len = Len(Rom[v]) /\ loop = LoopStart[v]
    <3>1. Buffer \in Nat  BY Sizes
    <3>2. Len(Rom[v]) \in Nat /\ LoopStart[v] \in Nat  BY RomIs
    <3>3. QED  BY <3>1, <3>2
  <2>2. u + n + 1 <= size + size /\ u + n <= len - loop  BY <2>1 DEF Room
  <2>3. u + 1 <= size + size /\ n + 1 <= size + size /\ n <= len - loop  BY <2>1, <2>2
  <2>4. QED  BY <2>1, <2>3
<1>6. PassFits(v, dec, u)
  <2>1. t + y <= dry  BY <1>4
  <2>2. Temp + Frame * (u + 1) <= DryL  BY <1>2, <1>3, <2>1
  <2>3. u <= UntilLoop(v, dec)  BY <1>1
  <2>4. QED  BY <1>5, <2>2, <2>3 DEF PassFits
<1>7. PICK d1 : Run(Fetch(v, dec, u, Flags(s), Temp), a, d1) /\ PassDone(a, d1, v, dec, u)
  BY <1>1, <1>6, FirstPass
<1>8. /\ Alike(a, d1) /\ d1.dram = Stored(a.dram, <<"adpcm", v>>, Before(v, dec + u))
      /\ Holds(d1.dmem, v, dec, Temp, u)
      /\ \A x \in Cells : Temp + Frame * (u + 1) <= x => d1.dmem[x] = a.dmem[x]
  BY <1>7 DEF PassDone
<1>9. /\ a \in Machine /\ a.book = Book(v) /\ a.dram[<<"rom", v>>] = Rom[v]
      /\ a.dram[<<"loop", v>>] = Before(v, LoopStart[v]) /\ a.dram \in [Blocks -> Seq(Int)]
  BY MachineIs DEF Going
<1>10. d1 \in Machine /\ d1.book = Book(v)  BY <1>8, <1>9 DEF Alike
<1>11. d1.dram[<<"rom", v>>] = Rom[v] /\ d1.dram[<<"loop", v>>] = Before(v, LoopStart[v])
  BY <1>8, <1>9, BlocksAre DEF Stored
<1>12. PICK setloop : setloop = [op |-> "SETLOOP", addr |-> <<"loop", v>>]  OBVIOUS
<1>13. PICK d2 : /\ Run(<<setloop>>, d1, d2) /\ Alike(d1, d2) /\ d2.loop = <<"loop", v>>
                 /\ d2.dmem = d1.dmem /\ d2.dram = d1.dram
  <2>1. PICK b \in Blocks : b = <<"loop", v>>  BY BlocksAre
  <2>2. setloop.op = "SETLOOP" /\ setloop.addr = b  BY <1>12, <2>1
  <2>3. QED  BY <1>10, <2>1, <2>2, SetloopIs
<1>14. PICK e \in Nat : e = dec + u  OBVIOUS
<1>15. Looping(d2, v, e, n, next)
  <2>1. Straight(v, e, LoopStart[v], Len(Rom[v]) - LoopStart[v])
    BY <1>1, <1>14, UntilLoopIs DEF Ends
  <2>2. d2 \in Machine /\ d2.book = Book(v)  BY <1>10, <1>13 DEF Alike
  <2>3. next + Frame * (n + 1) <= DryL  BY <1>2, <1>3, <1>4
  <2>4. QED  BY <1>2, <1>4, <1>5, <1>11, <1>13, <2>1, <2>2, <2>3 DEF Looping
<1>16. PICK d3 : Run(Fetch(v, e, n, {"LOOP"}, next), d2, d3) /\ Looped(d2, d3, v, e, n, next)
  BY <1>15, SecondPass
<1>17. PICK mover : mover = Mover(next, n)  OBVIOUS
<1>18. d3 \in Machine  BY <1>16 DEF Looped, Alike
<1>19. PICK mem : /\ Run(<<mover>>, d3, [d3 EXCEPT !.dmem = mem])
                  /\ MovedOver(d3.dmem, mem, next, n)
  <2>1. next + Frame * (n + 1) <= DryL  BY <1>2, <1>3, <1>4
  <2>2. QED  BY <1>17, <1>18, <2>1, MoveOver
<1>20. PICK d : d = [d3 EXCEPT !.dmem = mem]  OBVIOUS
<1>21. mem \in Memory  BY <1>19 DEF MovedOver
<1>22. /\ d \in Machine /\ d.dmem = mem /\ d.book = d3.book /\ d.v24 = d3.v24
       /\ d.start = d3.start /\ d.dram = d3.dram
  BY <1>18, <1>20, <1>21, WithMemory
<1>23. Run(Decode(v, s, need), a, d)
  <2>1. Decode(v, s, need)
        = Fetch(v, dec, u, Flags(s), Temp)
          \o (<<setloop>> \o Fetch(v, e, n, {"LOOP"}, next) \o <<mover>>)
    <3>1. ~(need < UntilLoop(v, s.dec)) /\ need # u /\ need - u = n  OBVIOUS
    <3>2. next = Temp + Frame * (u + 1)  BY <1>2, <1>3, <1>4
    <3>3. (IF need < UntilLoop(v, s.dec) THEN need ELSE UntilLoop(v, s.dec)) = u  BY <3>1
    <3>4. QED  BY <1>1, <1>12, <1>14, <1>17, <3>1, <3>2, <3>3 DEF Decode, Flags, Mover
  <2>2. Run(<<setloop>> \o Fetch(v, e, n, {"LOOP"}, next), d1, d3)
    BY <1>13, <1>16, RunConcat
  <2>3. Run(<<setloop>> \o Fetch(v, e, n, {"LOOP"}, next) \o <<mover>>, d1, d)
    BY <1>19, <1>20, <2>2, RunConcat
  <2>4. QED  BY <1>7, <2>1, <2>3, RunConcat
<1>24. /\ Holds(d.dmem, v, dec, Temp, u + n)
       /\ \A x \in Cells : DryL <= x => d.dmem[x] = d1.dmem[x]
  <2>1. TwoPasses(d1.dmem, d3.dmem, mem, v, dec, u, n, next)
    BY <1>2, <1>3, <1>4, <1>8, <1>13, <1>14, <1>16, <1>19 DEF TwoPasses, Looped
  <2>2. QED  BY <1>22, <2>1, HoldsBoth
<1>25. d.dram = Stored(a.dram, <<"adpcm", v>>, Before(v, dec + need))
  <2>1. e + n = dec + need  BY <1>14
  <2>2. d3.dram = Stored(d2.dram, <<"adpcm", v>>, Before(v, e + n))  BY <1>16 DEF Looped
  <2>3. PICK b, p, q : b = <<"adpcm", v>> /\ p = Before(v, dec + u) /\ q = Before(v, dec + need)
    OBVIOUS
  <2>4. d3.dram = Stored(Stored(a.dram, b, p), b, q)  BY <1>8, <1>13, <2>1, <2>2, <2>3
  <2>5. PICK dram \in [Blocks -> Seq(Int)] : dram = a.dram  BY <1>9
  <2>6. Stored(Stored(dram, b, p), b, q) = Stored(dram, b, q)  BY StoredTwice
  <2>7. d3.dram = Stored(a.dram, b, q)  BY <2>4, <2>5, <2>6
  <2>8. QED  BY <1>22, <2>3, <2>7
<1>26. Alike(a, d)  BY <1>8, <1>13, <1>16, <1>22, AlikeTwice DEF Looped, Alike
<1>27. ASSUME NEW x \in Cells, DryL <= x PROVE d.dmem[x] = a.dmem[x]
  <2>1. d.dmem[x] = d1.dmem[x]  BY <1>24, <1>27
  <2>2. x \in Nat  BY Sizes
  <2>3. Temp + Frame * (u + 1) <= x
    <3>1. t + y <= x  BY <1>2, <1>3, <1>27, <2>2
    <3>2. QED  BY <1>2, <1>3, <3>1
  <2>4. QED  BY <1>8, <2>1, <2>3
<1>28. Continued(a, d, v, dec, need)  BY <1>24, <1>25, <1>26, <1>27 DEF Continued
<1>29. QED  BY <1>1, <1>23, <1>28

(* However many passes it takes, the samples asked for are there, and what *)
(* is kept is the last frame of them.                                      *)
LEMMA DecodeIs ==
    ASSUME NEW a, NEW v \in Voices, NEW s, Going(a, v, s), NEW need, Room(v, need)
    PROVE \E d : Run(Decode(v, s, need), a, d) /\ Continued(a, d, v, s.dec, need)
<1>1. PICK u \in Nat : u = UntilLoop(v, s.dec)
  <2>1. s.dec \in Nat  BY DEF Going
  <2>2. QED  BY <2>1, UntilLoopIs DEF Ends
<1>2. need \in Nat  BY DEF Room
<1>3. CASE need <= u  BY <1>1, <1>3, OnePass
<1>4. CASE ~(need <= u)
  <2>1. PICK n \in Nat \ {0} : need = u + n  BY <1>2, <1>4
  <2>2. QED  BY <1>1, <2>1, PassesIs
<1>5. QED  BY <1>3, <1>4

-----------------------------------------------------------------------------
(* Where a voice is, and how far it has been decoded. *)

(* The samples decoded reach to less than a frame past a place. *)
Ahead(place, dec) ==
    /\ place \in Nat /\ dec \in Nat
    /\ place \div Phases <= Frame * dec /\ Frame * dec < (place \div Phases) + Frame

(* None of these sizes is 0. *)
LEMMA PhasesAre ==
    Phases \in Nat \ {0} /\ Taps \in Nat \ {0} /\ Taps < Lanes /\ Frame \in Nat \ {0} /\ Buffer \in Nat \ {0}
BY Sizes

(* Division keeps the order. *)
LEMMA DivMono ==
    ASSUME NEW d \in Nat \ {0}, NEW x \in Int, NEW y \in Int, x <= y
    PROVE x \div d <= y \div d
<1>1. PICK p \in Int, q \in 0 .. d - 1 : p = x \div d /\ x = d * p + q  BY DivIs
<1>2. PICK i \in Int, j \in 0 .. d - 1 : i = y \div d /\ y = d * i + j  BY DivIs
<1>3. p <= i
  <2>1. SUFFICES ASSUME ~(p <= i) PROVE FALSE  OBVIOUS
  <2>2. PICK k \in Nat : p = i + 1 + k  BY <2>1
  <2>3. d * (i + 1 + k) = d * i + d + d * k /\ d * k \in Nat /\ d * i \in Int  OBVIOUS
  <2>4. PICK z \in Int, w \in Nat : z = d * i /\ w = d * k /\ d * p = z + d + w
    BY <2>2, <2>3
  <2>5. x = z + d + w + q /\ y = z + j  BY <1>1, <1>2, <2>4
  <2>6. QED  BY <2>5
<1>4. QED  BY <1>1, <1>2, <1>3

(* The quotient of a sum. *)
LEMMA DivSum ==
    ASSUME NEW d \in Nat \ {0}, NEW x \in Nat, NEW y \in Nat
    PROVE (x + y) \div d <= (x \div d) + (y \div d) + 1
<1>1. PICK p \in Int, q \in 0 .. d - 1 : p = x \div d /\ x = d * p + q  BY DivIs
<1>2. PICK i \in Int, j \in 0 .. d - 1 : i = y \div d /\ y = d * i + j  BY DivIs
<1>3. PICK a \in Int, b \in Int : a = d * p /\ b = d * i /\ d * (p + i + 1) = a + b + d  OBVIOUS
<1>4. d - 1 \in 0 .. d - 1 /\ p + i + 1 \in Int  OBVIOUS
<1>5. (d * (p + i + 1) + (d - 1)) \div d = p + i + 1  BY <1>4, DivOf
<1>6. x + y <= a + b + d + (d - 1)  BY <1>1, <1>2, <1>3
<1>7. PICK z \in Int : z = d * (p + i + 1) + (d - 1) /\ x + y <= z  BY <1>3, <1>6
<1>8. (x + y) \div d <= z \div d  BY <1>7, DivMono
<1>9. QED  BY <1>1, <1>2, <1>5, <1>7, <1>8

(* The quotient of a natural number. *)
LEMMA DivNat ==
    ASSUME NEW d \in Nat \ {0}, NEW x \in Nat
    PROVE x \div d \in Nat
<1>1. 0 \div d = 0  BY DivOf
<1>2. 0 \in Int /\ x \in Int /\ 0 <= x  OBVIOUS
<1>3. 0 \div d <= x \div d  BY <1>2, DivMono
<1>4. x \div d \in Int  BY DivIs
<1>5. QED  BY <1>1, <1>3, <1>4

(* A number of frames that is enough and not one more. *)
LEMMA NeededIs ==
    ASSUME NEW s, Ahead(s.place, s.dec), NEW pitch \in Nat
    PROVE /\ Needed(s, pitch) \in Nat /\ Needed(s, pitch) <= Most(pitch)
          /\ Ahead(s.place + Buffer * pitch, s.dec + Needed(s, pitch))
<1>1. PICK f \in Nat \ {0}, d \in Nat \ {0}, x \in Nat, n \in Nat :
          f = Frame /\ d = Phases /\ x = s.place /\ n = s.dec
  BY PhasesAre DEF Ahead
<1>2. PICK y \in Nat : y = Buffer * pitch  BY PhasesAre
<1>3. PICK q0 \in Nat, q1 \in Nat, q \in Nat :
          q0 = x \div d /\ q1 = y \div d /\ q = (x + y) \div d
  <2>1. x + y \in Nat  OBVIOUS
  <2>2. x \div d \in Nat /\ y \div d \in Nat /\ (x + y) \div d \in Nat  BY <2>1, DivNat
  <2>3. QED  BY <2>2
<1>4. q <= q0 + q1 + 1  BY <1>3, DivSum
<1>5. q0 <= q  BY <1>3, DivMono
<1>6. PICK z \in Nat : z = f * n /\ q0 <= z /\ z < q0 + f  BY <1>1, <1>3 DEF Ahead
<1>7. PICK more \in Int : more = q - z  OBVIOUS
<1>8. Needed(s, pitch) = IF more <= 0 THEN 0 ELSE (more + f - 1) \div f
  BY <1>1, <1>2, <1>3, <1>6, <1>7 DEF Needed
<1>9. Most(pitch) = (q1 + f) \div f  BY <1>1, <1>2, <1>3 DEF Most
<1>10. (q1 + f) \div f \in Nat
  <2>1. q1 + f \in Nat  OBVIOUS
  <2>2. QED  BY <2>1, DivNat
<1>11. PICK need \in Nat : need = Needed(s, pitch) /\ need <= Most(pitch)
                           /\ 0 <= f * need - more /\ f * need - more < f
  <2>1. CASE more <= 0  BY <1>5, <1>6, <1>7, <1>8, <1>9, <1>10, <2>1
  <2>2. CASE ~(more <= 0)
    <3>1. PICK k \in Nat : k = more + f - 1
      <4>1. more + f - 1 \in Nat  BY <2>2
      <4>2. QED  BY <4>1
    <3>2. PICK need \in Nat, r \in 0 .. f - 1 : need = k \div f /\ k = f * need + r
      <4>1. k \in Int  OBVIOUS
      <4>2. k % f \in 0 .. f - 1 /\ k = f * (k \div f) + (k % f)  BY <4>1, DivIs
      <4>3. k \div f \in Nat  BY DivNat
      <4>4. QED  BY <4>2, <4>3
    <3>3. Needed(s, pitch) = need  BY <1>8, <2>2, <3>1, <3>2
    <3>4. need <= Most(pitch)  BY <1>4, <1>6, <1>7, <1>9, <3>1, <3>2, DivMono
    <3>5. PICK w \in Nat : w = f * need
      <4>1. f * need \in Nat  OBVIOUS
      <4>2. QED  BY <4>1
    <3>6. 0 <= w - more /\ w - more < f  BY <3>1, <3>2, <3>5
    <3>7. QED  BY <3>3, <3>4, <3>5, <3>6
  <2>3. QED  BY <2>1, <2>2
<1>12. Ahead(x + y, n + need)
  <2>1. PICK w \in Nat : w = f * need /\ f * (n + need) = z + w  BY <1>6
  <2>2. q <= z + w /\ z + w < q + f  BY <1>7, <1>11, <2>1
  <2>3. x + y \in Nat /\ n + need \in Nat  OBVIOUS
  <2>4. QED  BY <1>1, <1>3, <2>1, <2>2, <2>3 DEF Ahead
<1>13. QED  BY <1>1, <1>2, <1>11, <1>12

(* There is room for them. *)
LEMMA RoomIs ==
    ASSUME NEW v \in Voices, NEW pitch \in Pitches[v], NEW n \in Nat, n <= Most(pitch)
    PROVE Room(v, n)
<1>1. PICK f \in Nat, t \in Nat, dry \in Nat, temp \in Nat, size \in Nat :
          f = Frame /\ t = Temp /\ dry = DryL /\ temp = TempSize /\ dry = t + temp /\ size = Buffer
  BY Sizes
<1>2. PICK len \in Nat, loop \in Nat : len = Len(Rom[v]) /\ loop = LoopStart[v]  BY RomIs
<1>3. PICK most : most = Most(pitch)  OBVIOUS
<1>4. most \in Int  BY <1>1, <1>3, HandlerAssumption, PhasesAre DEF Most
<1>5. /\ f * (most + 2) <= temp /\ most + 1 <= 2 * size /\ most <= len - loop
  BY <1>1, <1>2, <1>3, LayoutAssumption
<1>6. t + f * (n + 2) <= dry
  <2>1. PICK m \in Nat : most + 2 = m /\ n + 2 \in 1 .. m  BY <1>3, <1>4
  <2>2. f * (n + 2) <= f * m /\ f * (n + 2) \in Nat /\ f * m \in Nat  BY <2>1, Times
  <2>3. PICK x \in Nat, y \in Nat : x = f * (n + 2) /\ y = f * m /\ x <= y  BY <2>2
  <2>4. y <= temp  BY <1>5, <2>1, <2>3
  <2>5. t + x <= dry  BY <1>1, <2>3, <2>4
  <2>6. QED  BY <2>3, <2>5
<1>7. n + 1 <= size + size /\ n <= len - loop  BY <1>3, <1>4, <1>5
<1>8. QED  BY <1>1, <1>2, <1>6, <1>7 DEF Room

-----------------------------------------------------------------------------
(* RESAMPLE: what it hears, reads, writes and keeps. *)

(* Moving on from a place moves its quotient and its remainder. *)
LEMMA PlaceIs ==
    ASSUME NEW d \in Nat \ {0}, NEW x \in Nat, NEW z \in Nat
    PROVE /\ (x + z) \div d = (x \div d) + (((x % d) + z) \div d)
          /\ (x + z) % d = ((x % d) + z) % d
<1>1. PICK p \in Int, q \in 0 .. d - 1 : p = x \div d /\ q = x % d /\ x = d * p + q
  <2>1. x \div d \in Int /\ x % d \in 0 .. d - 1 /\ x = d * (x \div d) + (x % d)  BY DivIs
  <2>2. QED  BY <2>1
<1>2. PICK y \in Int : y = q + z  OBVIOUS
<1>3. PICK i \in Int, j \in 0 .. d - 1 : i = y \div d /\ j = y % d /\ y = d * i + j
  <2>1. y \div d \in Int /\ y % d \in 0 .. d - 1 /\ y = d * (y \div d) + (y % d)  BY DivIs
  <2>2. QED  BY <2>1
<1>4. x + z = d * (p + i) + j
  <2>1. d * (p + i) = d * p + d * i  OBVIOUS
  <2>2. PICK a \in Int, b \in Int : a = d * p /\ b = d * i  OBVIOUS
  <2>3. QED  BY <1>1, <1>2, <1>3, <2>1, <2>2
<1>5. (d * (p + i) + j) \div d = p + i /\ (d * (p + i) + j) % d = j
  <2>1. p + i \in Int  OBVIOUS
  <2>2. QED  BY <2>1, DivOf
<1>6. (x + z) \div d = p + i /\ (x + z) % d = j  BY <1>4, <1>5
<1>7. (x % d) + z = y /\ x \div d = p  BY <1>1, <1>2
<1>8. QED  BY <1>3, <1>6, <1>7

(* Cells that hold a voice, the sample at p in cell src. *)
Samples(mem, v, src, p, lo, top) ==
    \A x \in Cells : lo <= x /\ x < top => mem[x] = SampleAt(v, p + (x - src))

(* A window is Taps samples. *)
LEMMA SourceWindowTyped ==
    ASSUME NEW v \in Voices, NEW place \in Nat
    PROVE SourceWindow(v, place) \in Numbers(Taps)
<1>1. PICK p \in Int, n \in Nat : p = place \div Phases /\ n = Taps
  <2>1. place \div Phases \in Nat /\ Taps \in Nat  BY PhasesAre, DivNat
  <2>2. QED  BY <2>1
<1>2. ASSUME NEW t \in 1 .. n PROVE SampleAt(v, p - n + t - 1) \in Int
  <2>1. p - n + t - 1 \in Int  OBVIOUS
  <2>2. QED  BY <2>1, SampleTyped
<1>3. QED  BY <1>1, <1>2 DEF SourceWindow, Numbers

(* Cell at is where the output that is z on from place starts. *)
StartsAt(at, src, place, z) == at = src - Taps + (((place % Phases) + z) \div Phases)

(* The window of an output is what is heard there. *)
LEMMA WindowHeard ==
    ASSUME NEW mem \in Memory, NEW v \in Voices, NEW src \in Nat, NEW place \in Nat,
           NEW z \in Nat, NEW lo \in Nat, NEW top \in Nat, top <= WetR + Buffer,
           NEW at \in Nat, StartsAt(at, src, place, z),
           lo <= at, at + Taps <= top, NEW p, p = place \div Phases,
           Samples(mem, v, src, p, lo, top)
    PROVE Window(mem, at, Taps) = SourceWindow(v, place + z)
<1>1. PICK d \in Nat \ {0}, n \in Nat : d = Phases /\ n = Taps  BY PhasesAre
<1>2. PICK q \in Int : q = ((place % d) + z) \div d
  <2>1. place % d \in 0 .. d - 1
    <3>1. place \in Int  OBVIOUS
    <3>2. QED  BY <3>1, DivIs
  <2>2. (place % d) + z \in Int  BY <2>1
  <2>3. PICK y \in Int : y = (place % d) + z  BY <2>2
  <2>4. y \div d \in Int  BY DivIs
  <2>5. QED  BY <2>3, <2>4
<1>3. PICK i \in Int : i = p
  <2>1. place \in Int  OBVIOUS
  <2>2. place \div d \in Int  BY <2>1, DivIs
  <2>3. QED  BY <1>1, <2>2
<1>4. (place + z) \div d = i + q  BY <1>1, <1>2, <1>3, PlaceIs
<1>5. PICK s \in Numbers(n) : s = SourceWindow(v, place + z)
  <2>1. place + z \in Nat  OBVIOUS
  <2>2. QED  BY <1>1, <2>1, SourceWindowTyped
<1>6. PICK size \in Nat : size = WetR + Buffer /\ Cells = 0 .. size - 1 /\ top <= size
  <2>1. PICK a \in Nat, b \in Nat : a = WetR /\ b = Buffer /\ Cells = 0 .. a + b - 1  BY Sizes
  <2>2. a + b \in Nat  OBVIOUS
  <2>3. QED  BY <2>1, <2>2
<1>7. /\ Window(mem, at, n) \in Numbers(n)
      /\ \A t \in 1 .. n : Window(mem, at, n)[t] = mem[at + t - 1]
  <2>1. at + n <= WetR + Buffer  BY <1>1, <1>6
  <2>2. QED  BY <2>1, WindowIs
<1>8. ASSUME NEW t \in 1 .. n PROVE mem[at + t - 1] = s[t]
  <2>1. PICK x \in Nat : x = at + t - 1
    <3>1. at + t - 1 \in Nat  OBVIOUS
    <3>2. QED  BY <3>1
  <2>2. x \in Cells /\ lo <= x /\ x < top  BY <1>1, <1>6, <2>1
  <2>3. mem[x] = SampleAt(v, p + (x - src))  BY <2>2 DEF Samples
  <2>4. i + (x - src) = (i + q) - n + t - 1  BY <1>1, <1>2, <2>1 DEF StartsAt
  <2>5. s[t] = SampleAt(v, (i + q) - n + t - 1)  BY <1>1, <1>4, <1>5 DEF SourceWindow
  <2>6. QED  BY <1>3, <2>1, <2>3, <2>4, <2>5
<1>9. Window(mem, at, n) = s  BY <1>5, <1>7, <1>8, NumbersSame
<1>10. QED  BY <1>1, <1>5, <1>9

(* What a filter makes is an integer. *)
LEMMA FilteredTyped ==
    ASSUME NEW f \in Numbers(Taps), NEW s \in Numbers(Taps)
    PROVE Filtered(f, s) \in Int
<1>1. PICK n \in Nat : n = Taps  BY PhasesAre
<1>2. PICK z : z = [t \in 1 .. n |-> f[t] * s[t]]  OBVIOUS
<1>3. z \in Numbers(n)
  <2>1. ASSUME NEW t \in 1 .. n PROVE f[t] * s[t] \in Int
    <3>1. f[t] \in Int /\ s[t] \in Int  BY <1>1 DEF Numbers
    <3>2. QED  BY <3>1
  <2>2. QED  BY <1>2, <2>1 DEF Numbers
<1>4. Total(z) \in Int  BY <1>3, TotalTyped
<1>5. QED  BY <1>1, <1>2, <1>4 DEF Filtered

(* Every fraction has its taps. *)
LEMMA FilterIs ==
    ASSUME NEW x \in Int
    PROVE Filter[x % Phases] \in Numbers(Taps)
<1>1. PICK d \in Nat \ {0} : d = Phases  BY PhasesAre
<1>2. x % d \in 0 .. d - 1  BY DivIs
<1>3. Filter \in [0 .. d - 1 -> Numbers(Taps)]  BY <1>1, HandlerAssumption
<1>4. QED  BY <1>1, <1>2, <1>3

(* What is heard is an integer. *)
LEMMA HeardTyped ==
    ASSUME NEW v \in Voices, NEW place \in Nat
    PROVE Heard(v, place) \in Int
<1>1. place \in Int  OBVIOUS
<1>2. QED  BY <1>1, FilterIs, SourceWindowTyped, FilteredTyped DEF Heard

(* c resamples from place on. *)
Resamples(a, c, src, place, pitch, top) ==
    /\ c.src = src /\ c.pitch = pitch /\ place \in Nat /\ pitch \in Nat
    /\ L_1848(a, c)[Taps + 1] = place % Phases
    /\ src \in Nat /\ Taps <= src /\ top \in Nat /\ top <= WetR + Buffer
    /\ L_18E8(c) \in Nat /\ L_18E8(c) + Buffer <= (src - Taps) + Lanes
    /\ src + (((place % Phases) + Buffer * pitch) \div Phases) <= top

(* Where the resampler reads for its i-th output, and with which fraction. *)
OutputAt(a, c, src, place, pitch, top, i) ==
    /\ At(a, c, i) \in Nat /\ src - Taps <= At(a, c, i) /\ At(a, c, i) + Taps <= top
    /\ StartsAt(At(a, c, i), src, place, i * pitch)
    /\ Phase(a, c, i) = (place + i * pitch) % Phases

(* The cells it reads are within the window and the samples decoded. *)
LEMMA OutputAtIs ==
    ASSUME NEW a, NEW c, NEW src, NEW place, NEW pitch, NEW top,
           Resamples(a, c, src, place, pitch, top), NEW i \in 0 .. Buffer
    PROVE OutputAt(a, c, src, place, pitch, top, i)
<1>1. PICK d \in Nat \ {0}, n \in Nat, b \in Nat : d = Phases /\ n = Taps /\ b = Buffer
  BY PhasesAre
<1>2. PICK x \in Nat, w \in Nat, s \in Nat, t \in Nat :
          x = place /\ w = pitch /\ s = src /\ t = top /\ n <= s
  BY <1>1 DEF Resamples
<1>3. i \in Nat /\ i <= b  BY <1>1
<1>4. PICK z \in Nat, y \in Nat : z = i * w /\ y = b * w /\ z <= y
  <2>1. PICK k \in Nat : b = i + k
    <3>1. b - i \in Nat /\ b = i + (b - i)  BY <1>3
    <3>2. QED  BY <3>1
  <2>2. i * w \in Nat /\ k * w \in Nat /\ (i + k) * w = i * w + k * w  BY <1>3
  <2>3. PICK p \in Nat, q \in Nat : p = i * w /\ q = k * w /\ b * w = p + q  BY <2>1, <2>2
  <2>4. p <= p + q /\ p + q \in Nat  OBVIOUS
  <2>5. QED  BY <2>3, <2>4
<1>5. PICK r \in Nat : r = x % d
  <2>1. x % d \in 0 .. d - 1
    <3>1. x \in Int  OBVIOUS
    <3>2. QED  BY <3>1, DivIs
  <2>2. QED  BY <2>1
<1>6. r + z \in Nat /\ r + y \in Nat /\ r + z <= r + y  BY <1>4
<1>7. PICK g \in Nat, h \in Nat : g = (r + z) \div d /\ h = (r + y) \div d /\ g <= h
  <2>1. (r + z) \div d \in Nat /\ (r + y) \div d \in Nat  BY <1>6, DivNat
  <2>2. (r + z) \div d <= (r + y) \div d
    <3>1. r + z \in Int /\ r + y \in Int  BY <1>6
    <3>2. QED  BY <1>6, <3>1, DivMono
  <2>3. QED  BY <2>1, <2>2
<1>8. s + h <= t
  <2>1. src + (((place % Phases) + Buffer * pitch) \div Phases) <= top  BY DEF Resamples
  <2>2. QED  BY <1>1, <1>2, <1>4, <1>5, <1>7, <2>1
<1>9. L_1848(a, c)[Taps + 1] = r /\ c.pitch = w /\ c.src = s
  BY <1>1, <1>2, <1>5 DEF Resamples
<1>10. At(a, c, i) = s - n + g  BY <1>1, <1>4, <1>7, <1>9 DEF At
<1>11. Phase(a, c, i) = (r + z) % d  BY <1>1, <1>4, <1>9 DEF Phase
<1>12. (x + z) % d = (r + z) % d  BY <1>5, PlaceIs
<1>13. s - n + g \in Nat /\ s - n <= s - n + g /\ (s - n + g) + n <= t  BY <1>2, <1>7, <1>8
<1>14. StartsAt(At(a, c, i), src, place, i * pitch)
  BY <1>1, <1>2, <1>4, <1>5, <1>7, <1>10 DEF StartsAt
<1>15. QED  BY <1>1, <1>2, <1>4, <1>10, <1>11, <1>12, <1>13, <1>14 DEF OutputAt

(* The i-th output, computed from mem. *)
Output(a, c, mem, i) == Filtered(Filter[Phase(a, c, i)], Window(mem, At(a, c, i), Taps))

(* It is an integer. *)
LEMMA OutputTyped ==
    ASSUME NEW a, NEW c, NEW src, NEW place, NEW pitch, NEW top,
           Resamples(a, c, src, place, pitch, top), NEW i \in 0 .. Buffer, NEW mem \in Memory
    PROVE Output(a, c, mem, i) \in Int
<1>1. OutputAt(a, c, src, place, pitch, top, i)  BY OutputAtIs
<1>2. PICK at \in Nat : at = At(a, c, i)  BY <1>1 DEF OutputAt
<1>3. at + Taps <= WetR + Buffer
  <2>1. PICK n \in Nat, t \in Nat, size \in Nat : n = Taps /\ t = top /\ size = WetR + Buffer
    <3>1. WetR \in Nat /\ Buffer \in Nat  BY Sizes
    <3>2. WetR + Buffer \in Nat  BY <3>1
    <3>3. QED  BY <3>2, PhasesAre DEF Resamples
  <2>2. at + n <= t /\ t <= size  BY <1>1, <1>2, <2>1 DEF OutputAt, Resamples
  <2>3. QED  BY <2>1, <2>2
<1>4. Taps \in Nat  BY PhasesAre
<1>5. Window(mem, at, Taps) \in Numbers(Taps)  BY <1>3, <1>4, WindowIs
<1>6. PICK x \in Int : Phase(a, c, i) = x % Phases
  <2>1. PICK z \in Nat, p \in Nat : z = i /\ p = pitch
    <3>1. Buffer \in Nat  BY PhasesAre
    <3>2. i \in Nat  BY <3>1
    <3>3. QED  BY <3>2 DEF Resamples
  <2>2. place \in Nat  BY DEF Resamples
  <2>3. z * p \in Nat  OBVIOUS
  <2>4. place + z * p \in Int  BY <2>2, <2>3
  <2>5. QED  BY <1>1, <2>1, <2>4 DEF OutputAt
<1>7. Filter[Phase(a, c, i)] \in Numbers(Taps)  BY <1>6, FilterIs
<1>8. QED  BY <1>2, <1>5, <1>7, FilteredTyped DEF Output

(* It is what is heard of the voice at that place. *)
LEMMA OutputIs ==
    ASSUME NEW a, NEW c, NEW src, NEW place, NEW pitch, NEW top,
           Resamples(a, c, src, place, pitch, top), NEW i \in 0 .. Buffer, NEW mem \in Memory,
           NEW v \in Voices, Samples(mem, v, src, place \div Phases, src - Taps, top)
    PROVE /\ Window(mem, At(a, c, i), Taps) = SourceWindow(v, place + i * pitch)
          /\ Output(a, c, mem, i) = Heard(v, place + i * pitch)
<1>1. OutputAt(a, c, src, place, pitch, top, i)  BY OutputAtIs
<1>2. PICK at \in Nat : at = At(a, c, i)  BY <1>1 DEF OutputAt
<1>3. PICK z \in Nat : z = i * pitch
  <2>1. PICK k \in Nat, p \in Nat : k = i /\ p = pitch
    <3>1. Buffer \in Nat  BY PhasesAre
    <3>2. i \in Nat  BY <3>1
    <3>3. QED  BY <3>2 DEF Resamples
  <2>2. k * p \in Nat  OBVIOUS
  <2>3. QED  BY <2>1, <2>2
<1>4. PICK lo \in Nat : lo = src - Taps
  <2>1. src - Taps \in Nat
    <3>1. src \in Nat /\ Taps \in Nat /\ Taps <= src  BY PhasesAre DEF Resamples
    <3>2. QED  BY <3>1
  <2>2. QED  BY <2>1
<1>5. PICK p : p = place \div Phases  OBVIOUS
<1>6. StartsAt(at, src, place, z) /\ lo <= at /\ at + Taps <= top
  BY <1>1, <1>2, <1>3, <1>4 DEF OutputAt
<1>7. src \in Nat /\ place \in Nat /\ top \in Nat /\ top <= WetR + Buffer  BY DEF Resamples
<1>8. Samples(mem, v, src, p, lo, top)  BY <1>4, <1>5
<1>9. Window(mem, at, Taps) = SourceWindow(v, place + z)
  BY <1>5, <1>6, <1>7, <1>8, WindowHeard
<1>10. Phase(a, c, i) = (place + z) % Phases  BY <1>1, <1>3 DEF OutputAt
<1>11. QED  BY <1>2, <1>3, <1>9, <1>10 DEF Output, Heard

(* A vector of outputs, from the p-th on. *)
OutputVector(a, c, mem, p) == [j \in 1 .. Lanes |-> Output(a, c, mem, p + j - 1)]

(* One vector more of the output. *)
ResampleStep(mem, a, c, k) ==
    Put(mem, L_18E8(c) + Lanes * (k - 1), OutputVector(a, c, mem, Lanes * (k - 1)))

(* It is a vector. *)
LEMMA OutputVectorTyped ==
    ASSUME NEW a, NEW c, NEW src, NEW place, NEW pitch, NEW top,
           Resamples(a, c, src, place, pitch, top), NEW mem \in Memory,
           NEW p \in Nat, p + Lanes <= Buffer
    PROVE OutputVector(a, c, mem, p) \in Numbers(Lanes)
<1>1. PICK l \in Nat, b \in Nat : l = Lanes /\ b = Buffer /\ p + l <= b  BY LanesAre, PhasesAre
<1>2. ASSUME NEW j \in 1 .. l PROVE Output(a, c, mem, p + j - 1) \in Int  BY <1>1, OutputTyped
<1>3. QED  BY <1>1, <1>2 DEF OutputVector, Numbers

(* The k-th vector lies in the buffer. *)
LEMMA VectorPlace ==
    ASSUME NEW k \in 1 .. Vectors
    PROVE /\ Lanes * (k - 1) \in Nat /\ Lanes * (k - 1) + Lanes <= Buffer
          /\ Lanes * k = Lanes * (k - 1) + Lanes
<1>1. PICK l \in Nat, n \in Nat : l = Lanes /\ n = Vectors /\ Buffer = l * n  BY Sizes
<1>2. l * (k - 1) \in Nat /\ l * (k - 1) + l = l * k /\ l * k <= l * n  BY <1>1, Times
<1>3. QED  BY <1>1, <1>2

(* Resampled, as the vectors come. *)
LEMMA ResampledFold ==
    ASSUME NEW a, NEW c, NEW src, NEW place, NEW pitch, NEW top,
           Resamples(a, c, src, place, pitch, top), NEW mem \in Memory,
           mem = Put(a.dmem, c.src - Taps, SubSeq(L_1848(a, c), 1, Taps))
    PROVE \E f : /\ f[0] = mem
                 /\ \A k \in 1 .. Vectors : f[k] = ResampleStep(f[k - 1], a, c, k)
                 /\ Resampled(a, c) = f[Vectors]
<1>1. PICK n \in Nat : n = Vectors  BY Sizes
<1> DEFINE g == UpTo(n)
           Eq(h) == h = [s \in SUBSET (1 .. n) |->
                            IF s = {} THEN mem
                            ELSE ResampleStep(h[s \ {Max(s)}], a, c, g[Max(s)])]
<1>2. DOMAIN g = 1 .. n /\ \A k \in 1 .. n : g[k] = k  BY DEF UpTo
<1>3. Resampled(a, c) = (CHOOSE h : Eq(h))[1 .. n]
  <2>1. Resampled(a, c) = (CHOOSE h : h = [s \in SUBSET (DOMAIN g) |->
                           IF s = {} THEN mem
                           ELSE ResampleStep(h[s \ {Max(s)}], a, c, g[Max(s)])])[DOMAIN g]
    BY <1>1 DEF Resampled, ResampleStep, OutputVector, Output, FoldLeft, MapThenFoldSet
  <2>2. QED  BY <1>2, <2>1
<1> HIDE DEF g
<1>4. \E h : Eq(h)
  <2> DEFINE F == [x \in Memory \X (1 .. n) |-> ResampleStep(x[1], a, c, x[2])]
  <2>1. ASSUME NEW now \in Memory, NEW k \in 1 .. n PROVE ResampleStep(now, a, c, k) \in Memory
    <3>1. PICK p \in Nat : p = Lanes * (k - 1) /\ p + Lanes <= Buffer  BY <1>1, VectorPlace
    <3>2. OutputVector(a, c, now, p) \in Numbers(Lanes)  BY <3>1, OutputVectorTyped
    <3>3. L_18E8(c) + p \in Int
      <4>1. L_18E8(c) \in Nat  BY DEF Resamples
      <4>2. QED  BY <4>1
    <3>4. Lanes \in Nat  BY LanesAre
    <3>5. QED  BY <3>1, <3>2, <3>3, <3>4, PutIs DEF ResampleStep
  <2>2. F \in [Memory \X (1 .. n) -> Memory]  BY <2>1
  <2>3. PICK h : h \in [SUBSET (1 .. n) -> Memory] /\ Fold(n, mem, F, h)
    <3> HIDE DEF F, Eq
    <3>1. QED  BY <2>2, FoldExists
  <2>4. ASSUME NEW s \in SUBSET (1 .. n), s # {}
        PROVE F[<<h[s \ {Max(s)}], Max(s)>>] = ResampleStep(h[s \ {Max(s)}], a, c, g[Max(s)])
    BY <1>2, <2>3, <2>4, MaxOf
  <2> HIDE DEF F
  <2>5. h = [s \in SUBSET (1 .. n) |->
                IF s = {} THEN mem ELSE ResampleStep(h[s \ {Max(s)}], a, c, g[Max(s)])]
    BY <2>3, <2>4 DEF Fold
  <2>6. QED  BY <2>5
<1>5. PICK h : Eq(h) /\ Resampled(a, c) = h[1 .. n]
  <2> HIDE DEF Eq
  <2>1. QED  BY <1>3, <1>4
<1> DEFINE f == [k \in 0 .. n |-> h[1 .. k]]
<1>6. ASSUME NEW k \in 1 .. n PROVE f[k] = ResampleStep(f[k - 1], a, c, k)
  <2>1. f[k] = h[1 .. k] /\ f[k - 1] = h[1 .. k - 1]  OBVIOUS
  <2> HIDE DEF f
  <2>2. h[1 .. k] = ResampleStep(h[(1 .. k) \ {Max(1 .. k)}], a, c, g[Max(1 .. k)])
    BY <1>5, Segment
  <2>3. QED  BY <1>2, <2>1, <2>2, Segment
<1>7. f[0] = mem /\ f[n] = Resampled(a, c)
  <2>1. 1 .. 0 = {} /\ 1 .. 0 \in SUBSET (1 .. n)  OBVIOUS
  <2>2. h[1 .. 0] = mem  BY <1>5, <2>1
  <2> HIDE DEF Eq
  <2>3. f[0] = h[1 .. 0] /\ f[n] = h[1 .. n]  OBVIOUS
  <2>4. QED  BY <1>5, <2>2, <2>3
<1> HIDE DEF f, Eq
<1>8. QED  BY <1>1, <1>6, <1>7

(* p outputs of v have been written, the rest is as it was. *)
HasResampled(mem, now, v, place, pitch, out, p) ==
    /\ now \in Memory
    /\ \A x \in 0 .. p - 1 : now[out + x] = Heard(v, place + x * pitch)
    /\ \A y \in Cells : y < out \/ y >= out + p => now[y] = mem[y]

(* One vector more. *)
LEMMA ResamplesOn ==
    ASSUME NEW a, NEW c, NEW src, NEW place, NEW pitch, NEW top,
           Resamples(a, c, src, place, pitch, top), NEW mem \in Memory,
           NEW v \in Voices, Samples(mem, v, src, place \div Phases, src - Taps, top),
           NEW out \in Nat, out = L_18E8(c), NEW p \in Nat, p + Lanes <= Buffer,
           NEW now, HasResampled(mem, now, v, place, pitch, out, p)
    PROVE HasResampled(mem, Put(now, out + p, OutputVector(a, c, now, p)),
                       v, place, pitch, out, p + Lanes)
<1>1. PICK l \in Nat, b \in Nat, s \in Nat, n \in Nat, t \in Nat :
          l = Lanes /\ b = Buffer /\ s = src /\ n = Taps /\ t = top
  BY LanesAre, PhasesAre DEF Resamples
<1>2. n < l /\ n <= s /\ out + b <= (s - n) + l /\ p + l <= b
  BY <1>1, PhasesAre DEF Resamples
<1>3. PICK size \in Nat : size = WetR + Buffer /\ Cells = 0 .. size - 1 /\ t <= size
  <2>1. PICK x \in Nat, y \in Nat : x = WetR /\ y = Buffer /\ Cells = 0 .. x + y - 1  BY Sizes
  <2>2. x + y \in Nat /\ t <= x + y  BY <1>1, <2>1 DEF Resamples
  <2>3. QED  BY <2>1, <2>2
<1>4. /\ now \in Memory
      /\ \A x \in 0 .. p - 1 : now[out + x] = Heard(v, place + x * pitch)
      /\ \A y \in Cells : y < out \/ y >= out + p => now[y] = mem[y]
  BY DEF HasResampled
<1>5. Samples(now, v, src, place \div Phases, src - Taps, top)
  <2>1. ASSUME NEW x \in Cells, src - Taps <= x, x < top PROVE now[x] = mem[x]
    <3>1. x \in Nat  BY <1>3
    <3>2. x >= out + p
      <4>1. s - n <= x  BY <1>1, <2>1
      <4>2. QED  BY <1>2, <3>1, <4>1
    <3>3. QED  BY <1>4, <3>2
  <2>2. QED  BY <2>1 DEF Samples
<1>6. ASSUME NEW j \in 1 .. l
      PROVE Output(a, c, now, p + j - 1) = Heard(v, place + (p + j - 1) * pitch)
  BY <1>1, <1>2, <1>4, <1>5, OutputIs
<1>7. PICK w : w = OutputVector(a, c, now, p)  OBVIOUS
<1>8. w \in Numbers(l)  BY <1>1, <1>4, <1>7, OutputVectorTyped
<1>9. \A j \in 1 .. l : w[j] = Heard(v, place + (p + j - 1) * pitch)
  BY <1>1, <1>6, <1>7 DEF OutputVector
<1>10. PICK d \in Int : d = out + p  OBVIOUS
<1>11. PICK new : new = Put(now, d, w)  OBVIOUS
<1>12. /\ new \in Memory
       /\ \A x \in Cells : new[x] = IF d <= x /\ x < d + l THEN w[x - d + 1] ELSE now[x]
  BY <1>4, <1>8, <1>11, PutIs
<1>13. out + b <= size
  <2>1. t >= s
    <3>1. PICK h \in Nat : s + h <= t
      <4>1. PICK r \in Nat, y \in Nat, f \in Nat \ {0} :
                r = place % Phases /\ y = Buffer * pitch /\ f = Phases
        BY <1>1, PhasesAre, DivIs DEF Resamples
      <4>2. r + y \in Nat  OBVIOUS
      <4>3. (r + y) \div f \in Nat  BY <4>2, DivNat
      <4>4. s + ((r + y) \div f) <= t  BY <1>1, <4>1 DEF Resamples
      <4>5. QED  BY <4>3, <4>4
    <3>2. QED  BY <3>1
  <2>2. Buffer + Buffer + Buffer <= WetR + Buffer /\ Lanes <= Buffer
    <3>1. PICK wet \in Nat, dry \in Nat, temp \in Nat :
              wet = WetR /\ dry = DryL /\ temp = TempSize /\ dry = b + b + temp
              /\ wet = dry + b + b + b
      BY <1>1, Sizes
    <3>2. l + l <= b  BY <1>1, Sizes
    <3>3. QED  BY <1>1, <3>1, <3>2
  <2>3. out <= size - b \/ out + b <= (s - n) + l  BY <1>2
  <2>4. L_18E8(c) = Main \/ L_18E8(c) = Second  BY DEF L_18E8
  <2>5. out = 0 \/ out = b  BY <1>1, <2>4, Sizes
  <2>6. b + b <= size  BY <1>1, <1>3, <2>2
  <2>7. QED  BY <2>5, <2>6
<1>14. ASSUME NEW x \in 0 .. (p + l) - 1 PROVE new[out + x] = Heard(v, place + x * pitch)
  <2>1. out + x \in Cells  BY <1>2, <1>3, <1>13
  <2>2. CASE x < p  BY <1>4, <1>10, <1>12, <2>1, <2>2
  <2>3. CASE ~(x < p)
    <3>1. PICK j \in 1 .. l : j = x - p + 1
      <4>1. x - p + 1 \in 1 .. l  BY <2>3
      <4>2. QED  BY <4>1
    <3>2. d <= out + x /\ out + x < d + l /\ (out + x) - d + 1 = j /\ p + j - 1 = x
      BY <1>10, <2>3, <3>1
    <3>3. new[out + x] = w[j]  BY <1>12, <2>1, <3>2
    <3>4. QED  BY <1>9, <3>2, <3>3
  <2>4. QED  BY <2>2, <2>3
<1>15. ASSUME NEW y \in Cells, y < out \/ y >= out + (p + l) PROVE new[y] = mem[y]
  BY <1>3, <1>4, <1>10, <1>12, <1>15
<1>16. HasResampled(mem, new, v, place, pitch, out, p + l)
  BY <1>12, <1>14, <1>15 DEF HasResampled
<1>17. QED  BY <1>1, <1>7, <1>10, <1>11, <1>16

(* The window kept before is in place. *)
Reads(a, c, mem, v, src, place, top) ==
    /\ mem \in Memory
    /\ mem = Put(a.dmem, c.src - Taps, SubSeq(L_1848(a, c), 1, Taps))
    /\ Samples(mem, v, src, place \div Phases, src - Taps, top)

(* The whole buffer is what is heard of the voice. *)
LEMMA ResampledIs ==
    ASSUME NEW a, NEW c, NEW src, NEW place, NEW pitch, NEW top,
           Resamples(a, c, src, place, pitch, top), NEW v \in Voices,
           NEW mem, Reads(a, c, mem, v, src, place, top),
           NEW out \in Nat, out = L_18E8(c)
    PROVE HasResampled(mem, Resampled(a, c), v, place, pitch, out, Buffer)
<1>1. PICK f : /\ f[0] = mem
               /\ \A k \in 1 .. Vectors : f[k] = ResampleStep(f[k - 1], a, c, k)
               /\ Resampled(a, c) = f[Vectors]
  BY ResampledFold DEF Reads
<1>2. PICK n \in Nat, l \in Nat : n = Vectors /\ l = Lanes /\ Buffer = l * n  BY Sizes
<1> DEFINE A == {k \in 0 .. n : HasResampled(mem, f[k], v, place, pitch, out, l * k)}
<1>3. 0 \in A
  <2>1. \A x \in 0 .. 0 - 1 : FALSE  OBVIOUS
  <2>2. HasResampled(mem, f[0], v, place, pitch, out, 0)
    <3>1. PICK now : now = f[0]  OBVIOUS
    <3>2. now = mem /\ now \in Memory  BY <1>1, <3>1 DEF Reads
    <3>3. HasResampled(mem, now, v, place, pitch, out, 0)  BY <2>1, <3>2 DEF HasResampled
    <3>4. QED  BY <3>1, <3>3
  <2>3. l * 0 = 0 /\ 0 \in 0 .. n  OBVIOUS
  <2>4. QED  BY <2>2, <2>3
<1>4. ASSUME NEW k \in A, k \in 0 .. n - 1 PROVE k + 1 \in A
  <2>1. k + 1 \in 1 .. n /\ k + 1 \in 0 .. n /\ k + 1 - 1 = k  BY <1>4
  <2>2. PICK i \in Nat : i \in 1 .. n /\ i = k + 1 /\ i - 1 = k
    <3>1. k + 1 \in Nat  BY <2>1
    <3>2. QED  BY <2>1, <3>1
  <2>3. HasResampled(mem, f[k], v, place, pitch, out, l * k)  BY <1>4
  <2> HIDE DEF A
  <2>4. PICK p \in Nat : p = l * k /\ p + l <= Buffer /\ l * (k + 1) = p + l
    <3>1. i \in 1 .. Vectors /\ i = k + 1 /\ i - 1 = k  BY <1>2, <2>2
    <3>2. Lanes * (i - 1) \in Nat /\ Lanes * (i - 1) + Lanes <= Buffer
          /\ Lanes * i = Lanes * (i - 1) + Lanes
      BY <3>1, VectorPlace
    <3>3. l * k \in Nat /\ l * k + l <= Buffer /\ l * (k + 1) = l * k + l  BY <1>2, <3>1, <3>2
    <3>4. QED  BY <3>3
  <2>5. PICK now : now = f[k]  OBVIOUS
  <2>6. f[k + 1] = Put(now, out + p, OutputVector(a, c, now, p))
    <3>1. i \in 1 .. Vectors /\ i = k + 1 /\ i - 1 = k  BY <1>2, <2>2
    <3>2. f[i] = ResampleStep(f[i - 1], a, c, i)  BY <1>1, <3>1
    <3>3. f[i] = ResampleStep(now, a, c, i) /\ Lanes * (i - 1) = p  BY <1>2, <2>4, <2>5, <3>1, <3>2
    <3>4. QED  BY <3>1, <3>3 DEF ResampleStep
  <2>7. HasResampled(mem, now, v, place, pitch, out, p)  BY <2>3, <2>4, <2>5
  <2>8. HasResampled(mem, f[k + 1], v, place, pitch, out, p + l)
    <3>1. p + Lanes <= Buffer  BY <1>2, <2>4
    <3>2. mem \in Memory /\ Samples(mem, v, src, place \div Phases, src - Taps, top)  BY DEF Reads
    <3>3. HasResampled(mem, Put(now, out + p, OutputVector(a, c, now, p)),
                       v, place, pitch, out, p + Lanes)
      BY <2>7, <3>1, <3>2, ResamplesOn
    <3>4. QED  BY <1>2, <2>6, <3>3
  <2>9. QED  BY <2>1, <2>4, <2>8 DEF A
<1>5. n \in A
  <2> HIDE DEF A
  <2>1. 0 .. n \subseteq A  BY <1>3, <1>4, UpInduction
  <2>2. QED  BY <2>1
<1>6. QED  BY <1>1, <1>2, <1>5

(* The list moves the resampler past what lies before Temp. *)
Passes(c, src, pitch) ==
    Temp < src /\ (Taps - 1) * Phases <= Buffer * pitch /\ L_18E8(c) + Buffer <= Temp

(* What is kept is the next place. *)
LEMMA KeptWindowIs ==
    ASSUME NEW a, NEW c, NEW src, NEW place, NEW pitch, NEW top,
           Resamples(a, c, src, place, pitch, top), NEW v \in Voices,
           NEW mem, Reads(a, c, mem, v, src, place, top), Passes(c, src, pitch)
    PROVE L_1A3C(a, c) = SourceWindow(v, place + Buffer * pitch)
                         \o <<(place + Buffer * pitch) % Phases>>
<1>1. PICK out \in Nat : out = L_18E8(c)  BY DEF Resamples
<1>2. PICK now : now = Resampled(a, c)  OBVIOUS
<1>3. HasResampled(mem, now, v, place, pitch, out, Buffer)  BY <1>1, <1>2, ResampledIs
<1>4. /\ now \in Memory
      /\ \A y \in Cells : y < out \/ y >= out + Buffer => now[y] = mem[y]
  BY <1>3 DEF HasResampled
<1>5. PICK b \in Nat, t \in Nat, n \in Nat, d \in Nat \ {0} :
          b = Buffer /\ t = Temp /\ n = Taps /\ d = Phases /\ n > 0
  <2>1. Temp \in Nat  BY Sizes
  <2>2. Phases \in Nat \ {0} /\ Taps \in Nat /\ Taps > 0 /\ Buffer \in Nat  BY PhasesAre
  <2>3. QED  BY <2>1, <2>2
<1>6. b \in 0 .. Buffer  BY <1>5
<1>7. OutputAt(a, c, src, place, pitch, top, b)  BY <1>6, OutputAtIs
<1>8. PICK at \in Nat : at = At(a, c, b)  BY <1>7 DEF OutputAt
<1>9. PICK w \in Nat, x \in Nat, s \in Nat, m \in Nat :
          w = pitch /\ x = place /\ s = src /\ m = top
  BY DEF Resamples
<1>10. PICK z \in Nat : z = b * w  OBVIOUS
<1>11. StartsAt(at, s, x, z)  BY <1>7, <1>8, <1>9, <1>10 DEF OutputAt
<1>12. PICK r \in Nat : r = x % d
  <2>1. x % d \in 0 .. d - 1
    <3>1. x \in Int  OBVIOUS
    <3>2. QED  BY <3>1, DivIs
  <2>2. QED  BY <2>1
<1>13. PICK g \in Nat : g = (r + z) \div d /\ n - 1 <= g
  <2>1. r + z \in Nat  OBVIOUS
  <2>2. (r + z) \div d \in Nat  BY <2>1, DivNat
  <2>3. PICK y \in Int : y = d * (n - 1)  OBVIOUS
  <2>4. y \div d = n - 1
    <3>1. n - 1 \in Int /\ 0 \in 0 .. d - 1  BY <1>5
    <3>2. (d * (n - 1) + 0) \div d = n - 1  BY <3>1, DivOf
    <3>3. y + 0 = y  OBVIOUS
    <3>4. QED  BY <2>3, <3>2, <3>3
  <2>5. y <= r + z
    <3>1. (n - 1) * d <= b * w  BY <1>5, <1>9 DEF Passes
    <3>2. (n - 1) * d = d * (n - 1)  BY <1>5
    <3>3. y <= z  BY <1>10, <2>3, <3>1, <3>2
    <3>4. QED  BY <3>3
  <2>6. r + z \in Int  OBVIOUS
  <2>7. y \div d <= (r + z) \div d  BY <2>5, <2>6, DivMono
  <2>8. QED  BY <2>2, <2>4, <2>7
<1>14. at = s - n + g  BY <1>5, <1>11, <1>12, <1>13 DEF StartsAt
<1>15. t <= at
  <2>1. t < s  BY <1>5, <1>9 DEF Passes
  <2>2. QED  BY <1>13, <1>14, <2>1
<1>16. PICK lo \in Nat : t <= lo /\ s - n <= lo /\ lo <= at
  <2>1. s - n <= at  BY <1>14
  <2>2. CASE s - n <= t  BY <1>15, <2>2
  <2>3. CASE ~(s - n <= t)
    <3>1. s - n \in Nat /\ t <= s - n  BY <2>3
    <3>2. QED  BY <2>1, <3>1
  <2>4. QED  BY <2>2, <2>3
<1>17. at + n <= m /\ m <= WetR + Buffer
  BY <1>5, <1>7, <1>8, <1>9 DEF OutputAt, Resamples
<1>18. PICK p : p = place \div Phases  OBVIOUS
<1>19. Samples(now, v, s, p, lo, m)
  <2>1. ASSUME NEW y \in Cells, lo <= y, y < m PROVE now[y] = SampleAt(v, p + (y - s))
    <3>1. y \in Nat
      <4>1. Cells = 0 .. WetR + Buffer - 1  BY Sizes
      <4>2. QED  BY <4>1
    <3>2. out + b <= t  BY <1>1, <1>5 DEF Passes
    <3>3. y >= out + b  BY <1>16, <2>1, <3>1, <3>2
    <3>4. now[y] = mem[y]  BY <1>4, <1>5, <3>3
    <3>5. s - n <= y /\ y < m  BY <1>16, <2>1, <3>1
    <3>6. src - Taps <= y /\ y < top  BY <1>5, <1>9, <3>5
    <3>7. mem[y] = SampleAt(v, p + (y - src))  BY <1>18, <3>6 DEF Samples, Reads
    <3>8. QED  BY <1>9, <3>4, <3>7
  <2>2. QED  BY <2>1 DEF Samples
<1>20. Window(now, at, Taps) = SourceWindow(v, x + z)
  <2>1. at + Taps <= m  BY <1>5, <1>17
  <2>2. p = x \div Phases  BY <1>9, <1>18
  <2>3. QED  BY <1>4, <1>11, <1>16, <1>17, <1>19, <2>1, <2>2, WindowHeard
<1>21. Phase(a, c, b) = (x + z) % Phases  BY <1>7, <1>9, <1>10 DEF OutputAt
<1>22. x + z = place + Buffer * pitch  BY <1>5, <1>9, <1>10
<1>23. L_1A3C(a, c) = Window(now, at, Taps) \o <<Phase(a, c, b)>>
  BY <1>2, <1>5, <1>8 DEF L_1A3C
<1>24. QED  BY <1>20, <1>21, <1>22, <1>23

(* The beginning of a tuple. *)
LEMMA FirstPart ==
    ASSUME NEW m \in Nat, NEW s \in Numbers(m), NEW n \in Nat, n <= m
    PROVE SubSeq(s, 1, n) \in Numbers(n) /\ \A k \in 1 .. n : SubSeq(s, 1, n)[k] = s[k]
<1>1. PICK i \in Nat : i = 0  OBVIOUS
<1>2. i + n <= m /\ i + 1 = 1 /\ i + n = n /\ \A k \in 1 .. n : i + k = k  BY <1>1
<1>3. /\ SubSeq(s, i + 1, i + n) \in Numbers(n)
      /\ \A k \in 1 .. n : SubSeq(s, i + 1, i + n)[k] = s[i + k]
  BY <1>2, PartIs
<1>4. QED  BY <1>2, <1>3

(* The command that resamples a voice. *)
Resampler(v, s, pitch, out) ==
    [op |-> "RESAMPLE", init |-> s.fresh, state |-> <<"resample", v>>, pitch |-> pitch,
     src |-> Temp + Frame - (Frame * s.dec - (s.place \div Phases)), out |-> out]

(* A voice that goes on at s has its window in its block. *)
HasWindow(a, v, s) ==
    /\ s.fresh \in BOOLEAN /\ (s.fresh => s.place = 0) /\ s.place \in Nat
    /\ ~s.fresh => a.dram[<<"resample", v>>] = SourceWindow(v, s.place) \o <<s.place % Phases>>

(* kept is the window at a place of v, and its fraction. *)
IsWindow(kept, v, place) ==
    /\ kept \in Numbers(Taps + 1) /\ kept[Taps + 1] = place % Phases
    /\ \A t \in 1 .. Taps : kept[t] = SampleAt(v, (place \div Phases) - Taps + t - 1)

(* A tuple with one number more. *)
LEMMA AppendedIs ==
    ASSUME NEW n \in Nat, NEW s \in Numbers(n), NEW r \in Int
    PROVE /\ s \o <<r>> \in Numbers(n + 1) /\ (\A i \in 1 .. n : (s \o <<r>>)[i] = s[i])
          /\ (s \o <<r>>)[n + 1] = r
<1>1. <<r>> \in Numbers(1) /\ <<r>>[1] = r  BY DEF Numbers
<1>2. PICK e : e = <<r>>  OBVIOUS
<1>3. \A u \in Nat : e \in Numbers(u) =>
        /\ s \o e \in Numbers(n + u) /\ (\A i \in 1 .. n : (s \o e)[i] = s[i])
        /\ \A i \in 1 .. u : (s \o e)[n + i] = e[i]
  BY ConcatIs
<1>4. e \in Numbers(1) /\ e[1] = r  BY <1>1, <1>2
<1>5. /\ s \o e \in Numbers(n + 1) /\ (\A i \in 1 .. n : (s \o e)[i] = s[i])
      /\ \A i \in 1 .. 1 : (s \o e)[n + i] = e[i]
  <2>1. 1 \in Nat  OBVIOUS
  <2>2. QED  BY <1>3, <1>4, <2>1
<1>6. (s \o e)[n + 1] = r
  <2>1. 1 \in 1 .. 1  OBVIOUS
  <2>2. QED  BY <1>4, <1>5, <2>1
<1>7. QED  BY <1>2, <1>5, <1>6

(* The block of a resampler that was kept is a window and a fraction. *)
LEMMA WindowTyped ==
    ASSUME NEW v \in Voices, NEW place \in Nat
    PROVE IsWindow(SourceWindow(v, place) \o <<place % Phases>>, v, place)
<1>1. PICK n \in Nat : n = Taps  BY PhasesAre
<1>2. PICK r \in Int : r = place % Phases
  <2>1. PICK d \in Nat \ {0} : d = Phases  BY PhasesAre
  <2>2. place % d \in 0 .. d - 1
    <3>1. place \in Int  OBVIOUS
    <3>2. QED  BY <3>1, DivIs
  <2>3. QED  BY <2>1, <2>2
<1>3. PICK s \in Numbers(n) : s = SourceWindow(v, place)  BY <1>1, SourceWindowTyped
<1>4. PICK k : k = s \o <<r>>  OBVIOUS
<1>5. k \in Numbers(n + 1) /\ (\A i \in 1 .. n : k[i] = s[i]) /\ k[n + 1] = r
  <2>1. /\ s \o <<r>> \in Numbers(n + 1) /\ (\A i \in 1 .. n : (s \o <<r>>)[i] = s[i])
        /\ (s \o <<r>>)[n + 1] = r
    BY AppendedIs
  <2>2. QED  BY <1>4, <2>1
<1>6. \A t \in 1 .. n : s[t] = SampleAt(v, (place \div Phases) - n + t - 1)
  BY <1>1, <1>3 DEF SourceWindow
<1>7. IsWindow(k, v, place)  BY <1>1, <1>2, <1>5, <1>6 DEF IsWindow
<1>8. QED  BY <1>2, <1>3, <1>4, <1>7

(* Wherever RESAMPLE finds its state, it is the window at the voice's      *)
(* place.                                                                  *)
LEMMA KeptIs ==
    ASSUME NEW v \in Voices, NEW a, NEW s, HasWindow(a, v, s), NEW c, c.init = s.fresh,
           c.state = <<"resample", v>>
    PROVE IsWindow(L_1848(a, c), v, s.place)
<1>1. s.place \in Nat /\ s.fresh \in BOOLEAN  BY DEF HasWindow
<1>2. CASE ~s.fresh
  <2>1. L_1848(a, c) = SourceWindow(v, s.place) \o <<s.place % Phases>>
    BY <1>2 DEF L_1848, HasWindow
  <2>2. QED  BY <1>1, <2>1, WindowTyped
<1>3. CASE s.fresh
  <2>1. PICK n \in Nat, d \in Nat \ {0}, m \in Nat : n = Taps /\ d = Phases /\ m = n + 1
    BY PhasesAre
  <2>2. s.place = 0  BY <1>3 DEF HasWindow
  <2>3. 0 \div d = 0 /\ 0 % d = 0
    <3>1. 0 \in Int /\ 0 \in 0 .. d - 1  OBVIOUS
    <3>2. (d * 0 + 0) \div d = 0 /\ (d * 0 + 0) % d = 0  BY <3>1, DivOf
    <3>3. d * 0 + 0 = 0  OBVIOUS
    <3>4. QED  BY <3>2, <3>3
  <2>4. PICK k : k = Zeros(m)  OBVIOUS
  <2>5. k \in Numbers(m) /\ \A i \in 1 .. m : k[i] = 0  BY <2>4, ZerosAre
  <2>6. L_1848(a, c) = k  BY <1>3, <2>1, <2>4 DEF L_1848, L_1860
  <2>7. k[n + 1] = 0
    <3>1. n + 1 \in 1 .. m  BY <2>1
    <3>2. QED  BY <2>5, <3>1
  <2>8. ASSUME NEW t \in 1 .. n PROVE k[t] = SampleAt(v, 0 - n + t - 1)
    <3>1. t \in 1 .. m  BY <2>1
    <3>2. PICK x \in Int : x = 0 - n + t - 1 /\ x < 0
      <4>1. 0 - n + t - 1 \in Int /\ 0 - n + t - 1 < 0  OBVIOUS
      <4>2. QED  BY <4>1
    <3>3. SampleAt(v, x) = 0  BY <3>2, SampleTyped
    <3>4. QED  BY <2>5, <3>1, <3>2, <3>3
  <2>9. IsWindow(k, v, 0)  BY <2>1, <2>3, <2>5, <2>7, <2>8 DEF IsWindow
  <2>10. QED  BY <2>2, <2>6, <2>9
<1>4. QED  BY <1>1, <1>2, <1>3

(* What the resampler works on. *)
LEMMA ReadsIs ==
    ASSUME NEW v \in Voices, NEW a \in Machine, NEW c, NEW src \in Nat, c.src = src,
           NEW place \in Nat, NEW dec \in Nat, NEW need \in Nat,
           IsWindow(L_1848(a, c), v, place), Holds(a.dmem, v, dec, Temp, need),
           NEW p \in Nat, p = place \div Phases, NEW g \in Nat, g = Frame * dec,
           src = Temp + Frame - (g - p), Temp < src,
           NEW top \in Nat, top = Temp + Frame * (need + 1)
    PROVE \E mem : Reads(a, c, mem, v, src, place, top)
<1>1. PICK n \in Nat, f \in Nat \ {0}, t \in Nat : n = Taps /\ f = Frame /\ t = Temp
  BY PhasesAre, Sizes
<1>2. PICK kept : kept = L_1848(a, c)  OBVIOUS
<1>3. kept \in Numbers(n + 1) /\ \A i \in 1 .. n : kept[i] = SampleAt(v, p - n + i - 1)
  BY <1>1, <1>2 DEF IsWindow
<1>4. PICK s : s = SubSeq(kept, 1, n)  OBVIOUS
<1>5. s \in Numbers(n) /\ \A i \in 1 .. n : s[i] = kept[i]
  <2>1. n + 1 \in Nat /\ n <= n + 1  OBVIOUS
  <2>2. QED  BY <1>3, <1>4, <2>1, FirstPart
<1>6. PICK lo \in Int : lo = src - n  OBVIOUS
<1>7. PICK old \in Memory : old = a.dmem  BY MachineIs
<1>8. PICK mem : mem = Put(old, lo, s)  OBVIOUS
<1>9. /\ mem \in Memory
      /\ \A x \in Cells : mem[x] = IF lo <= x /\ x < lo + n THEN s[x - lo + 1] ELSE old[x]
  <2>1. /\ Put(old, lo, s) \in Memory
        /\ \A x \in Cells : Put(old, lo, s)[x] =
                               IF lo <= x /\ x < lo + n THEN s[x - lo + 1] ELSE old[x]
    BY <1>5, PutIs
  <2>2. QED  BY <1>8, <2>1
<1>10. ASSUME NEW x \in Cells, lo <= x, x < top PROVE mem[x] = SampleAt(v, p + (x - src))
  <2>1. x \in Nat
    <3>1. Cells = 0 .. WetR + Buffer - 1  BY Sizes
    <3>2. QED  BY <3>1
  <2>2. CASE x < lo + n
    <3>1. PICK i \in 1 .. n : i = x - lo + 1
      <4>1. x - lo + 1 \in 1 .. n  BY <1>10, <2>1, <2>2
      <4>2. QED  BY <4>1
    <3>2. mem[x] = kept[i]  BY <1>5, <1>9, <1>10, <2>2, <3>1
    <3>3. p - n + i - 1 = p + (x - src)  BY <1>6, <2>1, <3>1
    <3>4. QED  BY <1>3, <3>2, <3>3
  <2>3. CASE ~(x < lo + n)
    <3>1. mem[x] = old[x]  BY <1>9, <2>3
    <3>2. PICK y \in Nat : y = x - t
      <4>1. x - t \in Nat  BY <1>1, <1>6, <2>1, <2>3
      <4>2. QED  BY <4>1
    <3>3. PICK j \in Nat, r \in 0 .. f - 1 : y = f * j + r
      <4>1. y \in Int  OBVIOUS
      <4>2. y % f \in 0 .. f - 1 /\ y = f * (y \div f) + (y % f)  BY <4>1, DivIs
      <4>3. y \div f \in Nat  BY DivNat
      <4>4. QED  BY <4>2, <4>3
    <3>4. PICK z \in Nat : z = f * j  OBVIOUS
    <3>5. j \in 0 .. need
      <4>1. SUFFICES ASSUME j > need PROVE FALSE  OBVIOUS
      <4>2. need + 1 \in 1 .. j  BY <4>1
      <4>3. f * (need + 1) <= f * j /\ f * (need + 1) \in Nat  BY <4>2, Times
      <4>4. PICK w \in Nat : w = f * (need + 1) /\ w <= z  BY <3>4, <4>3
      <4>5. x < t + w  BY <1>1, <1>10, <4>4
      <4>6. y < w  BY <2>1, <3>2, <4>5
      <4>7. QED  BY <3>3, <3>4, <4>4, <4>6
    <3>6. PICK i \in 1 .. f : i = r + 1
      <4>1. r + 1 \in 1 .. f  OBVIOUS
      <4>2. QED  BY <4>1
    <3>7. old[t + f * j + i - 1] = Before(v, dec + j)[i]  BY <1>1, <1>7, <3>5 DEF Holds
    <3>8. t + f * j + i - 1 = x  BY <1>1, <2>1, <3>2, <3>3, <3>4, <3>6
    <3>9. Before(v, dec + j)[i] = SampleAt(v, f * (dec + j - 1) + i - 1)
      BY <1>1 DEF Before
    <3>10. f * (dec + j - 1) = g + z - f
      <4>1. f * (dec + j - 1) = f * dec + f * j - f  OBVIOUS
      <4>2. QED  BY <1>1, <3>4, <4>1
    <3>11. g + z - f + i - 1 = p + (x - src)
      <4>1. src = t + f - (g - p)  BY <1>1
      <4>2. x = t + z + r  BY <2>1, <3>2, <3>3, <3>4
      <4>3. QED  BY <3>6, <4>1, <4>2
    <3>12. QED  BY <3>1, <3>7, <3>8, <3>9, <3>10, <3>11
  <2>4. QED  BY <2>2, <2>3
<1>11. Reads(a, c, mem, v, src, place, top)
  <2>1. mem = Put(a.dmem, c.src - Taps, SubSeq(L_1848(a, c), 1, Taps))
    BY <1>1, <1>2, <1>4, <1>6, <1>7, <1>8
  <2>2. Samples(mem, v, src, place \div Phases, src - Taps, top)
    BY <1>1, <1>6, <1>10 DEF Samples
  <2>3. QED  BY <1>9, <2>1, <2>2 DEF Reads
<1>12. QED  BY <1>11

(* Where the resampler reads: src, from which the samples are the new ones, *)
(* and top, where they end.                                                 *)
Source(place, dec) == Temp + Frame - (Frame * dec - (place \div Phases))

(* What is read lies behind Temp and below top, and moves past what was    *)
(* kept.                                                                   *)
Spans(src, top, place, pitch) ==
    /\ src \in Nat /\ Temp < src /\ top \in Nat /\ top <= DryL
    /\ src + (((place % Phases) + Buffer * pitch) \div Phases) <= top
    /\ (Taps - 1) * Phases <= Buffer * pitch

(* What was decoded for a list reaches as far as the resampler reads. *)
LEMMA SpansAre ==
    ASSUME NEW v \in Voices, NEW pitch \in Pitches[v], NEW place, NEW dec, Ahead(place, dec),
           NEW need, Room(v, need), Ahead(place + Buffer * pitch, dec + need)
    PROVE Spans(Source(place, dec), Temp + Frame * (need + 1), place, pitch)
<1>1. PICK f \in Nat \ {0}, d \in Nat \ {0}, t \in Nat, dry \in Nat, n \in Nat, m \in Nat :
          f = Frame /\ d = Phases /\ t = Temp /\ dry = DryL /\ n = dec /\ m = need
  BY PhasesAre, Sizes DEF Ahead, Room
<1>2. PICK x \in Nat : x = place  BY DEF Ahead
<1>3. PICK y \in Nat : y = Buffer * pitch
  <2>1. PICK b \in Nat : b = Buffer  BY PhasesAre
  <2>2. pitch \in Nat  BY HandlerAssumption
  <2>3. b * pitch \in Nat  BY <2>2
  <2>4. QED  BY <2>1, <2>3
<1>4. PICK p \in Nat, q \in Nat, e \in Int :
          p = x \div d /\ q = (x + y) \div d /\ e = ((x % d) + y) \div d /\ q = p + e
  <2>1. x + y \in Nat /\ x \in Int  OBVIOUS
  <2>2. x \div d \in Nat /\ (x + y) \div d \in Nat  BY <2>1, DivNat
  <2>3. (x % d) + y \in Int
    <3>1. x % d \in 0 .. d - 1  BY <2>1, DivIs
    <3>2. QED  BY <3>1
  <2>4. ((x % d) + y) \div d \in Int  BY <2>3, DivIs
  <2>5. (x + y) \div d = (x \div d) + (((x % d) + y) \div d)  BY PlaceIs
  <2>6. QED  BY <2>2, <2>4, <2>5
<1>5. PICK z \in Nat, w \in Nat : z = f * n /\ w = f * m /\ f * (n + m) = z + w
                                  /\ f * (m + 1) = w + f /\ f * (m + 2) = w + f + f
  <2>1. /\ f * n \in Nat /\ f * m \in Nat /\ f * (n + m) = f * n + f * m
        /\ f * (m + 1) = f * m + f /\ f * (m + 2) = f * m + f + f
    OBVIOUS
  <2>2. QED  BY <2>1
<1>6. p <= z /\ z < p + f  BY <1>1, <1>2, <1>4, <1>5 DEF Ahead
<1>7. q <= z + w  BY <1>1, <1>2, <1>3, <1>4, <1>5 DEF Ahead
<1>8. t + w + f + f <= dry  BY <1>1, <1>5 DEF Room
<1>9. PICK src \in Nat : src = t + f - (z - p) /\ src = Source(place, dec)
  <2>1. t + f - (z - p) \in Nat  BY <1>6
  <2>2. Source(place, dec) = t + f - (z - p)  BY <1>1, <1>2, <1>4, <1>5 DEF Source
  <2>3. QED  BY <2>1, <2>2
<1>10. PICK top \in Nat : top = t + w + f /\ top = Temp + Frame * (need + 1)  BY <1>1, <1>5
<1>11. t < src /\ src + e <= top /\ top <= dry  BY <1>4, <1>6, <1>7, <1>8, <1>9, <1>10
<1>12. (Taps - 1) * Phases <= Buffer * pitch  BY LayoutAssumption
<1>13. QED  BY <1>1, <1>2, <1>3, <1>4, <1>9, <1>10, <1>11, <1>12 DEF Spans

(* Then it resamples within its bounds and past what was kept. *)
LEMMA ResamplesIs ==
    ASSUME NEW v \in Voices, NEW a, NEW c, NEW src, NEW place \in Nat, NEW pitch \in Nat, NEW top,
           Spans(src, top, place, pitch), c.src = src, c.pitch = pitch,
           IsWindow(L_1848(a, c), v, place)
    PROVE Resamples(a, c, src, place, pitch, top) /\ Passes(c, src, pitch)
<1>1. PICK n \in Nat, t \in Nat, b \in Nat, l \in Nat, dry \in Nat, end \in Nat :
          n = Taps /\ t = Temp /\ b = Buffer /\ l = Lanes /\ dry = DryL /\ end = WetR + Buffer
          /\ n < l /\ l <= b /\ t = b + b /\ dry <= end /\ Main = 0 /\ Second = b
  <2>1. {Taps, Temp, Buffer, Lanes, DryL, DryR, WetL, WetR} \subseteq Nat  BY Sizes
  <2>2. /\ Taps < Lanes /\ Lanes + Lanes <= Buffer /\ Temp = Buffer + Buffer
        /\ DryR = DryL + Buffer /\ WetL = DryR + Buffer /\ WetR = WetL + Buffer
        /\ Main = 0 /\ Second = Buffer
    BY Sizes
  <2>3. Lanes <= Buffer /\ DryL <= WetR + Buffer /\ WetR + Buffer \in Nat  BY <2>1, <2>2
  <2>4. QED  BY <2>1, <2>2, <2>3
<1>2. L_18E8(c) \in Nat /\ L_18E8(c) + b <= t
  <2>1. L_18E8(c) = 0 \/ L_18E8(c) = b  BY <1>1 DEF L_18E8
  <2>2. QED  BY <1>1, <2>1
<1>3. src \in Nat /\ top \in Nat /\ t < src /\ top <= dry  BY <1>1 DEF Spans
<1>4. n <= src /\ top <= end /\ L_18E8(c) + b <= (src - n) + l  BY <1>1, <1>2, <1>3
<1>5. L_1848(a, c)[Taps + 1] = place % Phases  BY DEF IsWindow
<1>6. Resamples(a, c, src, place, pitch, top)
  BY <1>1, <1>2, <1>3, <1>4, <1>5 DEF Resamples, Spans
<1>7. Passes(c, src, pitch)  BY <1>1, <1>2 DEF Passes, Spans
<1>8. QED  BY <1>6, <1>7

(* The machine after a RESAMPLE. *)
Scratched(a, d, mem, b, s) ==
    /\ Alike(a, d) /\ d.loop = a.loop /\ d.dmem = mem /\ d.dram = Stored(a.dram, b, s)

(* The fractions left in the scratch are a vector. *)
LEMMA RightTyped ==
    ASSUME NEW a, NEW c, NEW src, NEW place, NEW pitch, NEW top,
           Resamples(a, c, src, place, pitch, top)
    PROVE [j \in 1 .. Lanes |-> Phase(a, c, Buffer + j - 1)] \in Numbers(Lanes)
<1>1. PICK d \in Nat \ {0}, b \in Nat, r \in Int : d = Phases /\ b = Buffer /\ r = place % Phases
  <2>1. place \in Int  BY DEF Resamples
  <2>2. PICK d \in Nat \ {0}, b \in Nat : d = Phases /\ b = Buffer  BY PhasesAre
  <2>3. place % d \in 0 .. d - 1  BY <2>1, DivIs
  <2>4. QED  BY <2>2, <2>3
<1>2. pitch \in Nat /\ L_1848(a, c)[Taps + 1] = r /\ c.pitch = pitch  BY <1>1 DEF Resamples
<1>3. ASSUME NEW j \in 1 .. Lanes PROVE Phase(a, c, Buffer + j - 1) \in Int
  <2>1. j \in Int  BY LanesAre
  <2>2. PICK x \in Int : x = r + (b + j - 1) * pitch
    <3>1. PICK i \in Int : i = b + j - 1  BY <2>1
    <3>2. r + i * pitch \in Int  BY <1>2
    <3>3. QED  BY <3>1, <3>2
  <2>3. Phase(a, c, Buffer + j - 1) = x % d  BY <1>1, <1>2, <2>2 DEF Phase
  <2>4. x % d \in 0 .. d - 1  BY DivIs
  <2>5. QED  BY <2>3, <2>4
<1>4. QED  BY <1>3 DEF Numbers

(* A machine whose memory, scratch and one of whose blocks have been       *)
(* written.                                                                *)
Scratch(a, mem, b, s, l, r) ==
    [a EXCEPT !.dmem = mem, !.dram = Stored(a.dram, b, s), !.left = l, !.right = r]

(* A machine written so. *)
LEMMA ScratchIs ==
    ASSUME NEW a \in Machine, NEW mem \in Memory, NEW b \in Blocks, NEW n \in Nat,
           NEW s \in Numbers(n), NEW l \in Numbers(Lanes), NEW r \in Numbers(Lanes), NEW d,
           d = Scratch(a, mem, b, s, l, r)
    PROVE d \in Machine /\ Scratched(a, d, mem, b, s)
<1>1. a.dram \in [Blocks -> Seq(Int)]  BY MachineIs
<1>2. PICK dram \in [Blocks -> Seq(Int)] : dram = Stored(a.dram, b, s)  BY <1>1, StoredIs
<1>3. d = [a EXCEPT !.dmem = mem, !.dram = dram, !.left = l, !.right = r]
  BY <1>2 DEF Scratch
<1>4. PICK e : e = [a EXCEPT !.dmem = mem, !.dram = dram, !.left = l, !.right = r]  OBVIOUS
<1>5. /\ e \in Machine /\ e.dmem = mem /\ e.dram = dram /\ e.book = a.book /\ e.loop = a.loop
      /\ e.v24 = a.v24 /\ e.start = a.start
  BY <1>4 DEF Machine, Memory
<1>6. QED  BY <1>2, <1>3, <1>4, <1>5 DEF Scratched, Alike

(* The block in the scratch, and what lies behind it, are a vector. *)
LEMMA LeftTyped ==
    ASSUME NEW l \in Numbers(Lanes), NEW k \in Numbers(Taps + 1)
    PROVE k \o SubSeq(l, Taps + 2, Lanes) \in Numbers(Lanes)
<1>1. PICK n \in Nat, t \in Nat : n = Lanes /\ t = Taps /\ t < n
  <2>1. {Lanes, Taps} \subseteq Nat /\ Taps < Lanes  BY Sizes
  <2>2. QED  BY <2>1
<1>2. PICK i \in Nat, m \in Nat : i = t + 1 /\ i + m = n /\ i + 1 = t + 2
  <2>1. t + 1 \in Nat /\ n - t - 1 \in Nat /\ t + 1 + (n - t - 1) = n /\ t + 1 + 1 = t + 2  BY <1>1
  <2>2. QED  BY <2>1
<1>3. PICK s : s = SubSeq(l, i + 1, i + m)  OBVIOUS
<1>4. s \in Numbers(m)
  <2>1. l \in Numbers(n) /\ i + m <= n  BY <1>1, <1>2
  <2>2. SubSeq(l, i + 1, i + m) \in Numbers(m)  BY <2>1, PartIs
  <2>3. QED  BY <1>3, <2>2
<1>5. k \in Numbers(i)  BY <1>1, <1>2
<1>6. k \o s \in Numbers(i + m)  BY <1>4, <1>5, ConcatIs
<1>7. QED  BY <1>1, <1>2, <1>3, <1>6

(* What is kept of a voice at a place. *)
Kept(v, place) == SourceWindow(v, place) \o <<place % Phases>>

(* RESAMPLE writes its output and keeps the window of the next place. *)
LEMMA ResampleCommand ==
    ASSUME NEW a \in Machine, NEW v \in Voices, NEW c, c.op = "RESAMPLE",
           c.state = <<"resample", v>>, NEW src, NEW place, NEW pitch, NEW top,
           Resamples(a, c, src, place, pitch, top), Passes(c, src, pitch),
           NEW mem, Reads(a, c, mem, v, src, place, top)
    PROVE \E d : /\ Run(<<c>>, a, d)
                 /\ Scratched(a, d, Resampled(a, c), <<"resample", v>>,
                              Kept(v, place + Buffer * pitch))
<1>1. PICK out \in Nat : out = L_18E8(c)  BY DEF Resamples
<1>2. PICK now \in Memory : now = Resampled(a, c)
  <2>1. HasResampled(mem, Resampled(a, c), v, place, pitch, out, Buffer)  BY <1>1, ResampledIs
  <2>2. QED  BY <2>1 DEF HasResampled
<1>3. PICK next \in Nat : next = place + Buffer * pitch
  <2>1. PICK b \in Nat : b = Buffer  BY PhasesAre
  <2>2. place \in Nat /\ pitch \in Nat  BY DEF Resamples
  <2>3. place + b * pitch \in Nat  BY <2>2
  <2>4. QED  BY <2>1, <2>3
<1>4. PICK k : k = Kept(v, next)  OBVIOUS
<1>5. k \in Numbers(Taps + 1)
  <2>1. IsWindow(SourceWindow(v, next) \o <<next % Phases>>, v, next)  BY WindowTyped
  <2>2. QED  BY <1>4, <2>1 DEF IsWindow, Kept
<1>6. L_1A3C(a, c) = k
  <2>1. L_1A3C(a, c) = SourceWindow(v, place + Buffer * pitch)
                       \o <<(place + Buffer * pitch) % Phases>>
    BY KeptWindowIs
  <2>2. QED  BY <1>3, <1>4, <2>1 DEF Kept
<1>7. PICK l \in Numbers(Lanes) : l = k \o SubSeq(a.left, Taps + 2, Lanes)
  <2>1. a.left \in Numbers(Lanes)  BY MachineIs
  <2>2. QED  BY <1>5, <2>1, LeftTyped
<1>8. PICK r \in Numbers(Lanes) : r = [j \in 1 .. Lanes |-> Phase(a, c, Buffer + j - 1)]
  BY RightTyped
<1>9. PICK b \in Blocks : b = <<"resample", v>>  BY BlocksAre
<1>10. PICK d : d = Scratch(a, now, b, k, l, r)  OBVIOUS
<1>11. d \in Machine /\ Scratched(a, d, now, b, k)
  <2>1. PICK n \in Nat : n = Taps + 1 /\ k \in Numbers(n)
    <3>1. Taps \in Nat  BY PhasesAre
    <3>2. Taps + 1 \in Nat  BY <3>1
    <3>3. QED  BY <1>5, <3>2
  <2>2. QED  BY <1>10, <2>1, ScratchIs
<1>12. d = L_17EC(a, c)
  BY <1>2, <1>6, <1>7, <1>8, <1>9, <1>10 DEF L_17EC, Scratch, Stored
<1>13. Handled(c, a, d)  BY <1>12 DEF Handled
<1>14. Run(<<c>>, a, d)  BY <1>11, <1>13, RunOne
<1>15. QED  BY <1>2, <1>3, <1>4, <1>9, <1>11, <1>14

(* The voice has been resampled to out, with the buses untouched. *)
ResampledAt(a, d, v, place, pitch, out) ==
    /\ Alike(a, d) /\ d.loop = a.loop
    /\ d.dram = Stored(a.dram, <<"resample", v>>, Kept(v, place + Buffer * pitch))
    /\ \A x \in 0 .. Buffer - 1 : d.dmem[out + x] = Heard(v, place + x * pitch)
    /\ \A x \in Cells : DryL <= x => d.dmem[x] = a.dmem[x]

(* What the resampler needs of a voice whose frames are decoded. *)
Resampling(a, v, s, pitch) ==
    /\ a \in Machine /\ HasWindow(a, v, s) /\ Ahead(s.place, s.dec)
    /\ Holds(a.dmem, v, s.dec, Temp, Needed(s, pitch))

(* The buffers lie behind each other. *)
LEMMA BuffersAre ==
    /\ {Buffer, Temp, DryL, DryR, WetL, WetR, TempSize, Lanes, Frame} \subseteq Nat
    /\ Temp <= DryL /\ Buffer + Buffer <= DryL /\ Buffer + Buffer <= WetR + Buffer
    /\ DryL + Buffer <= DryR /\ DryR + Buffer <= WetL /\ WetL + Buffer <= WetR
    /\ Cells = 0 .. WetR + Buffer - 1
<1>1. {Buffer, Temp, DryL, DryR, WetL, WetR, TempSize, Lanes, Frame} \subseteq Nat  BY Sizes
<1>2. /\ DryL = Buffer + Buffer + TempSize /\ DryR = DryL + Buffer /\ Temp = Buffer + Buffer
      /\ WetL = DryR + Buffer /\ WetR = WetL + Buffer /\ Cells = 0 .. WetR + Buffer - 1
  BY Sizes
<1>3. PICK b \in Nat, t \in Nat : b = Buffer /\ t = TempSize  BY <1>1
<1>4. DryL = b + b + t /\ DryR = b + b + t + b /\ WetL = b + b + t + b + b
      /\ WetR = b + b + t + b + b + b /\ Temp = b + b
  BY <1>2, <1>3
<1>5. /\ Temp <= DryL /\ Buffer + Buffer <= DryL /\ Buffer + Buffer <= WetR + Buffer
      /\ DryL + Buffer <= DryR /\ DryR + Buffer <= WetL /\ WetL + Buffer <= WetR
  BY <1>3, <1>4
<1>6. QED  BY <1>1, <1>2, <1>5

(* The window that is fetched is put below the buses. *)
LEMMA AboveIs ==
    ASSUME NEW a \in Machine, NEW c, NEW v, NEW src, NEW place, NEW pitch, NEW top,
           Spans(src, top, place, pitch), Resamples(a, c, src, place, pitch, top),
           IsWindow(L_1848(a, c), v, place), NEW mem, Reads(a, c, mem, v, src, place, top)
    PROVE \A x \in Cells : DryL <= x => mem[x] = a.dmem[x]
<1>1. PICK n \in Nat, dry \in Nat : n = Taps /\ dry = DryL  BY PhasesAre, Sizes
<1>2. PICK x0 \in Nat, t0 \in Nat : x0 = src /\ t0 = top /\ t0 <= dry /\ c.src = x0
  BY <1>1 DEF Spans, Resamples
<1>3. x0 <= t0
  <2>1. PICK d \in Nat \ {0}, b \in Nat : d = Phases /\ b = Buffer  BY PhasesAre
  <2>2. place \in Nat /\ pitch \in Nat  BY DEF Resamples
  <2>3. PICK z \in Nat : z = (place % d) + b * pitch
    <3>1. place \in Int  BY <2>2
    <3>2. place % d \in 0 .. d - 1  BY <3>1, DivIs
    <3>3. PICK r \in Nat : r = place % d  BY <3>2
    <3>4. r + b * pitch \in Nat  BY <2>2
    <3>5. QED  BY <3>3, <3>4
  <2>4. PICK e \in Nat : e = z \div d  BY DivNat
  <2>5. x0 + e <= t0  BY <1>2, <2>1, <2>3, <2>4 DEF Spans
  <2>6. QED  BY <2>5
<1>4. PICK s \in Numbers(n) : s = SubSeq(L_1848(a, c), 1, n)
  <2>1. PICK k \in Numbers(n + 1) : k = L_1848(a, c)  BY <1>1 DEF IsWindow
  <2>2. n + 1 \in Nat /\ n <= n + 1  OBVIOUS
  <2>3. SubSeq(k, 1, n) \in Numbers(n)  BY <2>2, FirstPart
  <2>4. QED  BY <2>1, <2>3
<1>5. PICK lo \in Int : lo = x0 - n  OBVIOUS
<1>6. PICK old \in Memory : old = a.dmem  BY MachineIs
<1>7. mem = Put(old, lo, s)  BY <1>1, <1>2, <1>4, <1>5, <1>6 DEF Reads
<1>8. \A x \in Cells : Put(old, lo, s)[x] =
                          IF lo <= x /\ x < lo + n THEN s[x - lo + 1] ELSE old[x]
  BY PutIs
<1>9. ASSUME NEW x \in Cells, dry <= x PROVE mem[x] = old[x]
  <2>1. x \in Int  BY Sizes
  <2>2. ~(x < lo + n)  BY <1>2, <1>3, <1>5, <1>9, <2>1
  <2>3. QED  BY <1>7, <1>8, <2>2
<1>10. QED  BY <1>1, <1>6, <1>9

(* The command, with its output in either buffer. *)
LEMMA ResampleRun ==
    ASSUME NEW a, NEW v \in Voices, NEW s, NEW pitch \in Pitches[v],
           Resampling(a, v, s, pitch), NEW out \in {0, 1}
    PROVE \E d : /\ Run(<<Resampler(v, s, pitch, out)>>, a, d)
                 /\ ResampledAt(a, d, v, s.place, pitch, IF out = 0 THEN Main ELSE Second)
<1>1. PICK place \in Nat, dec \in Nat : place = s.place /\ dec = s.dec
  BY DEF Resampling, Ahead
<1>2. PICK need : need = Needed(s, pitch)  OBVIOUS
<1>3. place = s.place /\ dec = s.dec /\ need = Needed(s, pitch)  BY <1>1, <1>2
<1>4. pitch \in Nat  BY HandlerAssumption
<1>5. a \in Machine /\ HasWindow(a, v, s) /\ Ahead(place, dec) /\ Holds(a.dmem, v, dec, Temp, need)
  BY <1>3 DEF Resampling
<1>6. need \in Nat /\ need <= Most(pitch) /\ Ahead(place + Buffer * pitch, dec + need)
  BY <1>3, <1>4, <1>5, NeededIs
<1>7. Room(v, need)  BY <1>6, RoomIs
<1>8. PICK src, top : src = Source(place, dec) /\ top = Temp + Frame * (need + 1)  OBVIOUS
<1>9. Spans(src, top, place, pitch)  BY <1>5, <1>6, <1>7, <1>8, SpansAre
<1>10. PICK c : c = Resampler(v, s, pitch, out)  OBVIOUS
<1>11. /\ c.op = "RESAMPLE" /\ c.init = s.fresh /\ c.state = <<"resample", v>>
      /\ c.pitch = pitch /\ c.src = src /\ c.out = out
  BY <1>3, <1>8, <1>10 DEF Resampler, Source
<1>12. IsWindow(L_1848(a, c), v, place)  BY <1>3, <1>5, <1>11, KeptIs
<1>13. Resamples(a, c, src, place, pitch, top) /\ Passes(c, src, pitch)
  <2>1. c.src = src /\ c.pitch = pitch  BY <1>11
  <2>2. QED  BY <1>4, <1>9, <1>12, <2>1, ResamplesIs
<1>14. PICK mem : Reads(a, c, mem, v, src, place, top)
  <2>1. PICK p \in Nat, g \in Nat : p = place \div Phases /\ g = Frame * dec  BY PhasesAre, DivNat
  <2>2. src \in Nat /\ top \in Nat /\ Temp < src  BY <1>9 DEF Spans
  <2>3. src = Temp + Frame - (g - p)  BY <1>8, <2>1 DEF Source
  <2>4. \E mem : Reads(a, c, mem, v, src, place, top)
    BY <1>5, <1>6, <1>8, <1>11, <1>12, <2>1, <2>2, <2>3, ReadsIs
  <2>5. QED  BY <2>4
<1>15. PICK d : /\ Run(<<c>>, a, d)
                /\ Scratched(a, d, Resampled(a, c), <<"resample", v>>,
                             Kept(v, place + Buffer * pitch))
  BY <1>5, <1>11, <1>13, <1>14, ResampleCommand
<1>16. PICK o \in Nat : o = L_18E8(c) /\ o = IF out = 0 THEN Main ELSE Second
  BY <1>11, <1>13 DEF Resamples, L_18E8
<1>17. PICK now : now = Resampled(a, c) /\ HasResampled(mem, now, v, place, pitch, o, Buffer)
  BY <1>13, <1>14, <1>16, ResampledIs
<1>18. ASSUME NEW x \in Cells, DryL <= x PROVE now[x] = a.dmem[x]
  <2>1. mem[x] = a.dmem[x]  BY <1>5, <1>9, <1>12, <1>13, <1>14, <1>18, AboveIs
  <2>2. x >= o + Buffer
    <3>1. o + Buffer <= Temp  BY <1>13, <1>16 DEF Passes
    <3>2. {Temp, DryL, Buffer} \subseteq Nat /\ Temp <= DryL /\ Cells = 0 .. WetR + Buffer - 1
      BY BuffersAre
    <3>3. x \in Int  BY <3>2
    <3>4. QED  BY <1>18, <3>1, <3>2, <3>3
  <2>3. QED  BY <1>17, <2>1, <2>2 DEF HasResampled
<1>19. ResampledAt(a, d, v, place, pitch, o)
  BY <1>15, <1>17, <1>18 DEF HasResampled, Scratched, ResampledAt
<1>20. QED  BY <1>3, <1>10, <1>15, <1>16, <1>19

(* The commands of a voice leave it where the mixer reads, moved there or  *)
(* not.                                                                    *)
LEMMA ResampleIs ==
    ASSUME NEW a, NEW v \in Voices, NEW s, NEW pitch \in Pitches[v],
           Resampling(a, v, s, pitch), tasks \in Nat
    PROVE \E d : Run(Resample(v, s, pitch), a, d) /\ ResampledAt(a, d, v, s.place, pitch, Main)
<1>1. PICK o \in {0, 1} : o = tasks % 2  OBVIOUS
<1>2. PICK d : /\ Run(<<Resampler(v, s, pitch, o)>>, a, d)
               /\ ResampledAt(a, d, v, s.place, pitch, IF o = 0 THEN Main ELSE Second)
  BY ResampleRun
<1>3. CASE o = 0
  <2>1. Resample(v, s, pitch) = <<Resampler(v, s, pitch, o)>> \o <<>>
    BY <1>1, <1>3 DEF Resample, Resampler
  <2>2. Run(<<Resampler(v, s, pitch, o)>> \o <<>>, a, d)
    BY <1>2, RunNil, RunConcat DEF ResampledAt, Alike
  <2>3. QED  BY <1>2, <1>3, <2>1, <2>2
<1>4. CASE o = 1
  <2>1. PICK c : c = [op |-> "DMEMMOVE", src |-> Second, dst |-> Main, n |-> Buffer]  OBVIOUS
  <2>2. /\ c.op = "DMEMMOVE" /\ c.src = Second /\ c.dst = Main /\ c.n = Buffer  BY <2>1
  <2>3. PICK m \in Nat \ {0} : m = Vectors /\ Buffer = Lanes * m  BY Sizes
  <2>4. ResampledAt(a, d, v, s.place, pitch, Second) /\ d \in Machine
    BY <1>2, <1>4 DEF ResampledAt, Alike
  <2>5. PICK b \in Nat, dry \in Nat, wet \in Nat :
            /\ b = Buffer /\ Second = b /\ Main = 0 /\ dry = DryL /\ wet = WetR
            /\ b + b <= dry /\ b + b <= wet + b /\ Cells = 0 .. wet + b - 1
    BY BuffersAre, Sizes
  <2>6. Moves(d, c, m)  BY <2>2, <2>3, <2>4, <2>5, MachineIs DEF Moves
  <2>7. PICK mem : /\ Run(<<c>>, d, [d EXCEPT !.dmem = mem])
                   /\ HasMoved(d.dmem, mem, c.src, c.dst, Lanes * m)
    BY <2>2, <2>4, <2>6, MoveIs
  <2>8. PICK e : e = [d EXCEPT !.dmem = mem]  OBVIOUS
  <2>9. /\ e \in Machine /\ e.dmem = mem /\ e.book = d.book /\ e.loop = d.loop
        /\ e.v24 = d.v24 /\ e.start = d.start /\ e.dram = d.dram
    <3>1. mem \in Memory  BY <2>7 DEF HasMoved
    <3>2. QED  BY <2>4, <2>8, <3>1, WithMemory
  <2>10. HasMoved(d.dmem, mem, b, 0, b)  BY <2>2, <2>3, <2>5, <2>7
  <2>11. ASSUME NEW x \in 0 .. Buffer - 1
         PROVE e.dmem[Main + x] = Heard(v, s.place + x * pitch)
    <3>1. x \in Cells /\ 0 <= x /\ x < 0 + b /\ 0 + x = x /\ b + (x - 0) = b + x  BY <2>5
    <3>2. mem[x] = d.dmem[b + x]  BY <2>10, <3>1 DEF HasMoved
    <3>3. d.dmem[b + x] = Heard(v, s.place + x * pitch)  BY <2>4, <2>5 DEF ResampledAt
    <3>4. QED  BY <2>5, <2>9, <3>1, <3>2, <3>3
  <2>12. ASSUME NEW x \in Cells, DryL <= x PROVE e.dmem[x] = a.dmem[x]
    <3>1. ~(x < 0 + b)  BY <2>5, <2>12
    <3>2. mem[x] = d.dmem[x]  BY <2>10, <3>1 DEF HasMoved
    <3>3. QED  BY <2>4, <2>9, <2>12, <3>2 DEF ResampledAt
  <2>13. ResampledAt(a, e, v, s.place, pitch, Main)
    BY <2>4, <2>9, <2>11, <2>12 DEF ResampledAt, Alike
  <2>14. Resample(v, s, pitch) = <<Resampler(v, s, pitch, o)>> \o <<c>>
    BY <1>1, <1>4, <2>1 DEF Resample, Resampler
  <2>15. Run(<<Resampler(v, s, pitch, o)>> \o <<c>>, a, e)  BY <1>2, <2>7, <2>8, RunConcat
  <2>16. QED  BY <2>13, <2>14, <2>15
<1>5. QED  BY <1>3, <1>4

-----------------------------------------------------------------------------
(* ENVMIXER: the volumes of a ramp, vector by vector. *)

(* The state of the mixer after each vector, and in the end. *)
LEMMA MixedIs ==
    ASSUME NEW a, NEW c
    PROVE \E f : /\ f[0] = MixStart(a, c)
                 /\ \A k \in 1 .. Vectors : f[k] = MixVector(a, c, f[k - 1], k)
                 /\ Mixed(a, c) = f[Vectors]
<1> DEFINE g == UpTo(Vectors)
           Eq(h, n) == h = [s \in SUBSET (1 .. n) |->
                               IF s = {} THEN MixStart(a, c)
                               ELSE MixVector(a, c, h[s \ {Max(s)}], g[Max(s)])]
           A == {n \in Nat : \E h : Eq(h, n)}
<1>1. Vectors \in Nat /\ DOMAIN g = 1 .. Vectors /\ \A k \in 1 .. Vectors : g[k] = k
  BY HandlerAssumption DEF UpTo
<1>2. Mixed(a, c) = (CHOOSE h : Eq(h, Vectors))[1 .. Vectors]
  BY <1>1 DEF Mixed, FoldLeft, MapThenFoldSet
<1> HIDE DEF g
<1>3. 0 \in A
  <2> DEFINE h == [s \in SUBSET (1 .. 0) |-> MixStart(a, c)]
  <2>1. \A s \in SUBSET (1 .. 0) : s = {}  OBVIOUS
  <2>2. Eq(h, 0)  BY <2>1
  <2>3. QED  BY <2>2
<1>4. ASSUME NEW m \in A PROVE m + 1 \in A
  <2>1. m \in Nat /\ \E h : Eq(h, m)  OBVIOUS
  <2>2. PICK h : Eq(h, m)  BY <2>1
  <2> DEFINE k == [s \in SUBSET (1 .. m + 1) |->
                      IF m + 1 \in s THEN MixVector(a, c, h[s \ {m + 1}], g[m + 1]) ELSE h[s]]
  <2>3. \A s \in SUBSET (1 .. m + 1) : m + 1 \notin s => s \in SUBSET (1 .. m)  BY <2>1
  <2>4. ASSUME NEW s \in SUBSET (1 .. m + 1)
        PROVE k[s] = IF s = {} THEN MixStart(a, c)
                     ELSE MixVector(a, c, k[s \ {Max(s)}], g[Max(s)])
    <3>1. CASE m + 1 \in s
      <4>1. s \subseteq Int /\ \A i \in s : i <= m + 1  BY <2>1
      <4>2. Max(s) = m + 1  BY <3>1, <4>1, MaxIs
      <4>3. s \ {m + 1} \in SUBSET (1 .. m + 1) /\ m + 1 \notin s \ {m + 1}  OBVIOUS
      <4>4. k[s \ {m + 1}] = h[s \ {m + 1}]  BY <4>3
      <4>5. k[s] = MixVector(a, c, h[s \ {m + 1}], g[m + 1]) /\ s # {}  BY <3>1
      <4> HIDE DEF k, Eq
      <4>6. QED  BY <4>2, <4>4, <4>5
    <3>2. CASE m + 1 \notin s  BY <2>2, <2>3, <3>2
    <3>3. QED  BY <3>1, <3>2
  <2>5. k = [s \in SUBSET (1 .. m + 1) |-> k[s]]  OBVIOUS
  <2> HIDE DEF k
  <2>6. Eq(k, m + 1)  BY <2>4, <2>5
  <2>7. m + 1 \in Nat  BY <2>1
  <2> HIDE DEF Eq
  <2>8. QED  BY <2>6, <2>7
<1>5. A = Nat  BY <1>3, <1>4, SetInduction
<1>6. PICK h : Eq(h, Vectors) /\ Mixed(a, c) = h[1 .. Vectors]  BY <1>1, <1>2, <1>5
<1>7. ASSUME NEW k \in 1 .. Vectors
      PROVE h[1 .. k] = MixVector(a, c, h[1 .. k - 1], k)
  <2>1. k \in Nat /\ k \in 1 .. k /\ 1 .. k \subseteq Int /\ \A i \in 1 .. k : i <= k
    BY <1>1
  <2>2. Max(1 .. k) = k  BY <2>1, MaxIs
  <2>3. (1 .. k) \ {k} = 1 .. k - 1 /\ 1 .. k # {} /\ 1 .. k \in SUBSET (1 .. Vectors)
    BY <1>1
  <2>4. h[1 .. k] = MixVector(a, c, h[(1 .. k) \ {Max(1 .. k)}], g[Max(1 .. k)])
    BY <1>6, <2>3
  <2>5. QED  BY <1>1, <2>2, <2>3, <2>4
<1>8. h[1 .. 0] = MixStart(a, c)  BY <1>6
<1> DEFINE f == [k \in 0 .. Vectors |-> h[1 .. k]]
<1>9. \A k \in 1 .. Vectors : f[k] = h[1 .. k] /\ f[k - 1] = h[1 .. k - 1]  BY <1>1
<1>10. f[0] = h[1 .. 0] /\ f[Vectors] = h[1 .. Vectors]  BY <1>1
<1> HIDE DEF f, Eq
<1>11. \A k \in 1 .. Vectors : f[k] = MixVector(a, c, f[k - 1], k)  BY <1>7, <1>9
<1>12. f[0] = MixStart(a, c) /\ Mixed(a, c) = f[Vectors]  BY <1>6, <1>8, <1>10
<1>13. QED  BY <1>11, <1>12

(* A vector of steps is one rate. *)
LEMMA DivOn ==
    ASSUME NEW n \in Nat \ {0}, NEW a \in Int, NEW r \in Int
    PROVE (a + r * n) \div n = (a \div n) + r
OBVIOUS

(* Held at its target twice, a volume is held once. *)
LEMMA TowardAgain ==
    ASSUME NEW t \in Int, NEW r \in Int, NEW x \in Int
    PROVE /\ Toward(t, r, Toward(t, r, x) + r) = Toward(t, r, x + r)
          /\ Toward(t, r, x) \in Int
BY DEF Toward

(* The volume of one channel after k samples. *)
RampedAt(t, q, s, k) == Toward(t, q, s + (q * k) \div Lanes)

(* A vector on, a ramp has moved by its rate. *)
LEMMA RampGoesOn ==
    ASSUME NEW r \in Ramps, NEW k \in Int
    PROVE /\ RampedLeft(r, k) \in Int /\ RampedRight(r, k) \in Int
          /\ Toward(r.targetL, r.rateL, RampedLeft(r, k) + r.rateL) = RampedLeft(r, k + Lanes)
          /\ Toward(r.targetR, r.rateR, RampedRight(r, k) + r.rateR) = RampedRight(r, k + Lanes)
<1>1. Lanes \in Nat \ {0}  BY HandlerAssumption
<1>2. /\ r.targetL \in Int /\ r.rateL \in Int /\ r.startL \in Int
      /\ r.targetR \in Int /\ r.rateR \in Int /\ r.startR \in Int
  BY DEF Ramps
<1>3. ASSUME NEW t \in Int, NEW q \in Int, NEW s \in Int
      PROVE /\ RampedAt(t, q, s, k) \in Int
            /\ Toward(t, q, RampedAt(t, q, s, k) + q) = RampedAt(t, q, s, k + Lanes)
  <2>1. PICK x \in Int : x = (q * k) \div Lanes  BY <1>1
  <2>2. q * (k + Lanes) = q * k + q * Lanes  BY <1>1
  <2>3. (q * (k + Lanes)) \div Lanes = x + q  BY <1>1, <2>1, <2>2, DivOn
  <2>4. PICK y \in Int : y = s + x  OBVIOUS
  <2>5. s + (x + q) = y + q  BY <2>4
  <2>6. /\ Toward(t, q, y) \in Int
        /\ Toward(t, q, Toward(t, q, y) + q) = Toward(t, q, y + q)
    BY TowardAgain
  <2>7. QED  BY <2>1, <2>3, <2>4, <2>5, <2>6, Zenon DEF RampedAt
<1>4. /\ RampedLeft(r, k) \in Int
      /\ Toward(r.targetL, r.rateL, RampedLeft(r, k) + r.rateL) = RampedLeft(r, k + Lanes)
  <2>1. PICK t \in Int, q \in Int, s \in Int :
            t = r.targetL /\ q = r.rateL /\ s = r.startL
    BY <1>2
  <2>2. /\ RampedAt(t, q, s, k) \in Int
        /\ Toward(t, q, RampedAt(t, q, s, k) + q) = RampedAt(t, q, s, k + Lanes)
    BY <1>3
  <2>3. QED  BY <2>1, <2>2, Zenon DEF RampedLeft, RampedAt
<1>5. /\ RampedRight(r, k) \in Int
      /\ Toward(r.targetR, r.rateR, RampedRight(r, k) + r.rateR) = RampedRight(r, k + Lanes)
  <2>1. PICK t \in Int, q \in Int, s \in Int :
            t = r.targetR /\ q = r.rateR /\ s = r.startR
    BY <1>2
  <2>2. /\ RampedAt(t, q, s, k) \in Int
        /\ Toward(t, q, RampedAt(t, q, s, k) + q) = RampedAt(t, q, s, k + Lanes)
    BY <1>3
  <2>3. QED  BY <2>1, <2>2, Zenon DEF RampedRight, RampedAt
<1>6. QED  BY <1>4, <1>5

(* One vector further on a ramp. *)
LEMMA VectorOn ==
    ASSUME NEW r \in Ramps, NEW n \in Int
    PROVE /\ L_1BA8(Words(r), LeftAt(r, n)) = LeftAt(r, n + Lanes)
          /\ L_1BB4(Words(r), RightAt(r, n)) = RightAt(r, n + Lanes)
<1>1. Lanes \in Nat  BY HandlerAssumption
<1>2. /\ Words(r)[1] = r.targetL /\ Words(r)[2] = r.rateL
      /\ Words(r)[3] = r.targetR /\ Words(r)[4] = r.rateR
  BY DEF Words
<1>3. ASSUME NEW j \in 1 .. Lanes
      PROVE /\ Toward(r.targetL, r.rateL, LeftAt(r, n)[j] + r.rateL) = LeftAt(r, n + Lanes)[j]
            /\ Toward(r.targetR, r.rateR, RightAt(r, n)[j] + r.rateR) = RightAt(r, n + Lanes)[j]
  BY <1>1, RampGoesOn DEF LeftAt, RightAt
<1>4. /\ LeftAt(r, n + Lanes) = [j \in 1 .. Lanes |-> LeftAt(r, n + Lanes)[j]]
      /\ RightAt(r, n + Lanes) = [j \in 1 .. Lanes |-> RightAt(r, n + Lanes)[j]]
  BY DEF LeftAt, RightAt
<1>5. QED  BY <1>2, <1>3, <1>4 DEF L_1BA8, L_1BB4

(* The first vector of a ramp. *)
LEMMA VectorFirst ==
    ASSUME NEW r \in Ramps
    PROVE /\ FirstLeft(Words(r), r.startL) = LeftAt(r, Lanes)
          /\ FirstRight(Words(r), r.startR) = RightAt(r, Lanes)
<1>1. Lanes \in Nat  BY HandlerAssumption
<1>2. /\ Words(r)[1] = r.targetL /\ Words(r)[2] = r.rateL
      /\ Words(r)[3] = r.targetR /\ Words(r)[4] = r.rateR
  BY DEF Words
<1>3. \A j \in 1 .. Lanes : Lanes - Lanes + j = j  BY <1>1
<1>4. QED  BY <1>2, <1>3 DEF FirstLeft, FirstRight, LeftAt, RightAt, RampedLeft, RampedRight

(* The block of a ramp is two vectors and six words. *)
LEMMA RampTyped ==
    ASSUME NEW r \in Ramps, NEW n \in Int
    PROVE LeftAt(r, n) \in Numbers(Lanes) /\ RightAt(r, n) \in Numbers(Lanes)
          /\ Words(r) \in Numbers(6)
<1>1. Lanes \in Nat  BY LanesAre
<1>2. ASSUME NEW j \in 1 .. Lanes
      PROVE RampedLeft(r, n - Lanes + j) \in Int /\ RampedRight(r, n - Lanes + j) \in Int
  <2>1. n - Lanes + j \in Int  BY <1>1
  <2>2. QED  BY <2>1, RampGoesOn
<1>3. LeftAt(r, n) \in Numbers(Lanes) /\ RightAt(r, n) \in Numbers(Lanes)
  BY <1>2 DEF LeftAt, RightAt, Numbers
<1>4. /\ r.targetL \in Int /\ r.rateL \in Int /\ r.targetR \in Int /\ r.rateR \in Int
      /\ r.dry \in Int /\ r.wet \in Int
  BY DEF Ramps
<1>5. Words(r) \in Numbers(6)  BY <1>4 DEF Words, Numbers
<1>6. QED  BY <1>3, <1>5

(* s is a, b and d behind each other. *)
Parts(s, n, m, a, b, d) ==
    /\ s \in Numbers(n + n + m) /\ SubSeq(s, 1, n) = a /\ SubSeq(s, n + 1, n + n) = b
    /\ SubSeq(s, n + n + 1, n + n + m) = d

(* A concatenation of three can be taken apart. *)
LEMMA ThreeParts ==
    ASSUME NEW n \in Nat, NEW m \in Nat, NEW a \in Numbers(n), NEW b \in Numbers(n),
           NEW d \in Numbers(m)
    PROVE Parts(a \o b \o d, n, m, a, b, d)
<1>1. PICK f \in Nat, t \in Nat : f = n + n /\ t = f + m  OBVIOUS
<1>2. PICK q \in Numbers(f) : /\ q = a \o b /\ (\A i \in 1 .. n : q[i] = a[i])
                             /\ \A i \in 1 .. n : q[n + i] = b[i]
  <2>1. /\ a \o b \in Numbers(n + n) /\ (\A i \in 1 .. n : (a \o b)[i] = a[i])
        /\ \A i \in 1 .. n : (a \o b)[n + i] = b[i]
    BY ConcatIs
  <2>2. QED  BY <1>1, <2>1
<1>3. PICK s \in Numbers(t) : /\ s = q \o d /\ (\A i \in 1 .. f : s[i] = q[i])
                             /\ \A i \in 1 .. m : s[f + i] = d[i]
  <2>1. /\ q \o d \in Numbers(f + m) /\ (\A i \in 1 .. f : (q \o d)[i] = q[i])
        /\ \A i \in 1 .. m : (q \o d)[f + i] = d[i]
    BY ConcatIs
  <2>2. QED  BY <1>1, <2>1
<1>4. SubSeq(s, 1, n) = a
  <2>1. n <= t  BY <1>1
  <2>2. PICK x : x = SubSeq(s, 1, n)  OBVIOUS
  <2>3. SubSeq(s, 1, n) \in Numbers(n) /\ \A k \in 1 .. n : SubSeq(s, 1, n)[k] = s[k]
    BY <2>1, FirstPart
  <2>4. \A k \in 1 .. n : s[k] = a[k]
    <3>1. \A k \in 1 .. n : k \in 1 .. f  BY <1>1
    <3>2. QED  BY <1>2, <1>3, <3>1
  <2>5. x \in Numbers(n) /\ \A k \in 1 .. n : x[k] = a[k]  BY <2>2, <2>3, <2>4
  <2>6. x = a  BY <2>5, NumbersSame
  <2>7. QED  BY <2>2, <2>6
<1>5. SubSeq(s, n + 1, n + n) = b
  <2>1. n + n <= t  BY <1>1
  <2>2. PICK x : x = SubSeq(s, n + 1, n + n)  OBVIOUS
  <2>3. /\ SubSeq(s, n + 1, n + n) \in Numbers(n)
        /\ \A k \in 1 .. n : SubSeq(s, n + 1, n + n)[k] = s[n + k]
    BY <2>1, PartIs
  <2>4. \A k \in 1 .. n : s[n + k] = b[k]
    <3>1. \A k \in 1 .. n : n + k \in 1 .. f  BY <1>1
    <3>2. QED  BY <1>2, <1>3, <3>1
  <2>5. x \in Numbers(n) /\ \A k \in 1 .. n : x[k] = b[k]  BY <2>2, <2>3, <2>4
  <2>6. x = b  BY <2>5, NumbersSame
  <2>7. QED  BY <2>2, <2>6
<1>6. SubSeq(s, f + 1, f + m) = d
  <2>1. f + m <= t  BY <1>1
  <2>2. PICK x : x = SubSeq(s, f + 1, f + m)  OBVIOUS
  <2>3. /\ SubSeq(s, f + 1, f + m) \in Numbers(m)
        /\ \A k \in 1 .. m : SubSeq(s, f + 1, f + m)[k] = s[f + k]
    BY <2>1, PartIs
  <2>4. x \in Numbers(m) /\ \A k \in 1 .. m : x[k] = d[k]  BY <1>3, <2>2, <2>3
  <2>5. x = d  BY <2>4, NumbersSame
  <2>6. QED  BY <2>2, <2>5
<1>7. Parts(s, n, m, a, b, d)  BY <1>1, <1>3, <1>4, <1>5, <1>6 DEF Parts
<1>8. QED  BY <1>2, <1>3, <1>7

(* What is stored in a block is what is fetched from it. *)
LEMMA BlockParts ==
    ASSUME NEW r \in Ramps, NEW n \in Int
    PROVE /\ RampBlock(r, n) \in Numbers(Frame + 6)
          /\ SubSeq(RampBlock(r, n), 1, Lanes) = LeftAt(r, n)
          /\ SubSeq(RampBlock(r, n), Lanes + 1, Frame) = RightAt(r, n)
          /\ SubSeq(RampBlock(r, n), Frame + 1, Frame + 6) = Words(r)
<1>1. PICK l \in Nat : l = Lanes /\ Frame = l + l  BY LanesAre
<1>2. PICK a \in Numbers(l), b \in Numbers(l), d \in Numbers(6) :
          a = LeftAt(r, n) /\ b = RightAt(r, n) /\ d = Words(r)
  BY <1>1, RampTyped
<1>3. ASSUME NEW m \in Nat, NEW e \in Numbers(m) PROVE Parts(a \o b \o e, l, m, a, b, e)
  BY ThreeParts
<1>4. Parts(a \o b \o d, l, 6, a, b, d)
  <2>1. 6 \in Nat  OBVIOUS
  <2>2. QED  BY <1>3, <2>1
<1>5. RampBlock(r, n) = a \o b \o d  BY <1>2 DEF RampBlock
<1>6. QED  BY <1>1, <1>2, <1>4, <1>5 DEF Parts

-----------------------------------------------------------------------------
(* ENVMIXER: what it adds to the buses. *)

(* A vector is added to a bus. *)
Added(m, src, p, bus, vol, gain) ==
    Put(m, bus + p, [j \in 1 .. Lanes |->
                        m[bus + p + j - 1] + src[Main + p + j - 1] * vol[j] * gain])

(* It has been, and nothing else was written. *)
Grown(m, now, src, p, bus, vol, gain) ==
    /\ now \in Memory
    /\ \A x \in Cells : x < bus + p \/ x >= bus + p + Lanes => now[x] = m[x]
    /\ \A j \in 1 .. Lanes :
          now[bus + p + j - 1] = m[bus + p + j - 1] + src[p + j - 1] * vol[j] * gain

(* The four buses. *)
Buses == {DryL, DryR, WetL, WetR}

(* They lie behind the buffers that the commands of one voice use. *)
LEMMA BusIs ==
    ASSUME NEW bus \in Buses
    PROVE bus \in Nat /\ DryL <= bus /\ bus + Buffer <= WetR + Buffer
<1>1. PICK b \in Nat, a \in Nat, c \in Nat, d \in Nat, e \in Nat :
          b = Buffer /\ a = DryL /\ c = DryR /\ d = WetL /\ e = WetR
  BY BuffersAre
<1>2. a + b <= c /\ c + b <= d /\ d + b <= e  BY <1>1, BuffersAre
<1>3. bus = a \/ bus = c \/ bus = d \/ bus = e  BY <1>1 DEF Buses
<1>4. QED  BY <1>1, <1>2, <1>3

(* The code's addition of a vector. *)
LEMMA AddedIs ==
    ASSUME NEW m \in Memory, NEW src \in Memory, NEW p \in Nat, p + Lanes <= Buffer,
           NEW bus \in Buses, NEW vol \in Numbers(Lanes), NEW gain \in Int
    PROVE Grown(m, Added(m, src, p, bus, vol, gain), src, p, bus, vol, gain)
<1>1. PICK l \in Nat, b \in Nat, end \in Nat :
          l = Lanes /\ b = Buffer /\ end = WetR /\ Cells = 0 .. end + b - 1 /\ Main = 0
  <2>1. {Lanes, Buffer, WetR} \subseteq Nat /\ Cells = 0 .. WetR + Buffer - 1  BY BuffersAre
  <2>2. Main = 0  BY Sizes
  <2>3. QED  BY <2>1, <2>2
<1>2. PICK at \in Nat : at = bus /\ at + b <= end + b  BY <1>1, BusIs
<1>3. p + l <= b  BY <1>1
<1>4. ASSUME NEW j \in 1 .. l PROVE at + p + j - 1 \in Cells /\ Main + p + j - 1 = p + j - 1
                                    /\ p + j - 1 \in Cells
  BY <1>1, <1>2, <1>3
<1>5. PICK s : s = [j \in 1 .. l |-> m[at + p + j - 1] + src[Main + p + j - 1] * vol[j] * gain]
  OBVIOUS
<1>6. ASSUME NEW j \in 1 .. l
      PROVE /\ s[j] = m[at + p + j - 1] + src[p + j - 1] * vol[j] * gain
            /\ s[j] \in Int
  <2>1. /\ at + p + j - 1 \in Cells /\ p + j - 1 \in Cells /\ Main + p + j - 1 = p + j - 1  BY <1>4
  <2>2. PICK x \in Int, y \in Int, z \in Int :
            x = m[at + p + j - 1] /\ y = src[p + j - 1] /\ z = vol[j]
    <3>1. m[at + p + j - 1] \in Int /\ src[p + j - 1] \in Int  BY <2>1 DEF Memory
    <3>2. vol[j] \in Int  BY <1>1 DEF Numbers
    <3>3. QED  BY <3>1, <3>2
  <2>3. x + y * z * gain \in Int  OBVIOUS
  <2>4. s[j] = m[at + p + j - 1] + src[Main + p + j - 1] * vol[j] * gain  BY <1>5
  <2>5. QED  BY <2>1, <2>2, <2>3, <2>4
<1>7. s \in Numbers(l)
  <2>1. s = [j \in 1 .. l |-> s[j]]  BY <1>5
  <2>2. QED  BY <1>6, <2>1 DEF Numbers
<1>8. PICK i \in Nat : i = at + p  OBVIOUS
<1>9. PICK now : now = Put(m, i, s)  OBVIOUS
<1>10. i = at + p /\ now = Put(m, i, s)  BY <1>8, <1>9
<1>11. /\ now \in Memory
      /\ \A x \in Cells : now[x] = IF i <= x /\ x < i + l THEN s[x - i + 1] ELSE m[x]
  <2>1. /\ Put(m, i, s) \in Memory
        /\ \A x \in Cells : Put(m, i, s)[x] = IF i <= x /\ x < i + l THEN s[x - i + 1] ELSE m[x]
    BY <1>7, PutIs
  <2>2. QED  BY <1>10, <2>1
<1>12. now = Added(m, src, p, bus, vol, gain)  BY <1>1, <1>2, <1>5, <1>10 DEF Added
<1>13. ASSUME NEW x \in Cells, x < bus + p \/ x >= bus + p + Lanes PROVE now[x] = m[x]
  <2>1. x \in Int  BY <1>1
  <2>2. ~(i <= x /\ x < i + l)  BY <1>1, <1>2, <1>10, <1>13, <2>1
  <2>3. QED  BY <1>11, <2>2
<1>14. ASSUME NEW j \in 1 .. Lanes
       PROVE now[bus + p + j - 1] = m[bus + p + j - 1] + src[p + j - 1] * vol[j] * gain
  <2>1. PICK x : x = at + p + j - 1 /\ x \in Cells  BY <1>1, <1>4
  <2>2. i <= x /\ x < i + l /\ x - i + 1 = j  BY <1>1, <1>10, <2>1
  <2>3. now[x] = s[j]  BY <1>11, <2>1, <2>2
  <2>4. s[j] = m[at + p + j - 1] + src[p + j - 1] * vol[j] * gain  BY <1>1, <1>6
  <2>5. QED  BY <1>2, <2>1, <2>3, <2>4
<1>15. QED  BY <1>11, <1>12, <1>13, <1>14 DEF Grown

(* The first p samples have been added to a bus, with their volumes. *)
Bus(mem, now, bus, vol, gain, p) ==
    \A x \in 0 .. Buffer - 1 :
        now[bus + x] = IF x < p THEN mem[bus + x] + mem[x] * vol[x] * gain ELSE mem[bus + x]

(* v are the volumes vol from the p-th on. *)
Vols(v, vol, p) == v \in Numbers(Lanes) /\ \A j \in 1 .. Lanes : v[j] = vol[p + j - 1]

(* The voice, resampled, is where it was. *)
SameMain(mem, src) == \A x \in 0 .. Buffer - 1 : src[x] = mem[x]

(* One vector more of a bus. *)
LEMMA BusGrows ==
    ASSUME NEW mem, NEW m, NEW now, NEW src, NEW bus \in Buses, NEW v, NEW vol, NEW gain,
           NEW p \in Nat, p + Lanes <= Buffer, Bus(mem, m, bus, vol, gain, p),
           Grown(m, now, src, p, bus, v, gain), SameMain(mem, src), Vols(v, vol, p)
    PROVE Bus(mem, now, bus, vol, gain, p + Lanes)
<1>1. PICK l \in Nat, b \in Nat, end \in Nat :
          l = Lanes /\ b = Buffer /\ end = WetR /\ Cells = 0 .. end + b - 1
  BY BuffersAre
<1>2. PICK at \in Nat : at = bus /\ at + b <= end + b  BY <1>1, BusIs
<1>3. p + l <= b  BY <1>1
<1>4. ASSUME NEW x \in 0 .. b - 1
      PROVE now[at + x] = IF x < p + l THEN mem[at + x] + mem[x] * vol[x] * gain
                          ELSE mem[at + x]
  <2>1. m[at + x] = IF x < p THEN mem[at + x] + mem[x] * vol[x] * gain ELSE mem[at + x]
    BY <1>1, <1>2 DEF Bus
  <2>2. at + x \in Cells  BY <1>1, <1>2
  <2>3. CASE x < p
    <3>1. at + x < at + p /\ x < p + l  BY <2>3
    <3>2. now[at + x] = m[at + x]  BY <1>2, <2>2, <3>1 DEF Grown
    <3>3. QED  BY <2>1, <2>3, <3>1, <3>2
  <2>4. CASE x >= p + l
    <3>1. at + x >= at + p + l /\ ~(x < p + l) /\ ~(x < p)  BY <2>4
    <3>2. now[at + x] = m[at + x]  BY <1>1, <1>2, <2>2, <3>1 DEF Grown
    <3>3. QED  BY <2>1, <3>1, <3>2
  <2>5. CASE x >= p /\ x < p + l
    <3>1. PICK j \in 1 .. l : j = x - p + 1 /\ at + p + j - 1 = at + x /\ p + j - 1 = x
      <4>1. /\ x - p + 1 \in 1 .. l /\ at + p + (x - p + 1) - 1 = at + x
            /\ p + (x - p + 1) - 1 = x
        BY <2>5
      <4>2. QED  BY <4>1
    <3>2. now[at + p + j - 1] = m[at + p + j - 1] + src[p + j - 1] * v[j] * gain
      BY <1>1, <1>2 DEF Grown
    <3>3. m[at + x] = mem[at + x]  BY <2>1, <2>5
    <3>4. src[x] = mem[x]  BY <1>1 DEF SameMain
    <3>5. v[j] = vol[x]  BY <1>1, <3>1 DEF Vols
    <3>6. now[at + x] = mem[at + x] + mem[x] * vol[x] * gain
      BY <3>1, <3>2, <3>3, <3>4, <3>5
    <3>7. QED  BY <2>5, <3>6
  <2>6. QED  BY <2>3, <2>4, <2>5
<1>5. QED  BY <1>1, <1>2, <1>4 DEF Bus

(* The other buses are not touched by it. *)
LEMMA OtherBus ==
    ASSUME NEW mem, NEW m, NEW now, NEW src, NEW bus \in Buses, NEW v, NEW gain,
           NEW p \in Nat, p + Lanes <= Buffer, Grown(m, now, src, p, bus, v, gain),
           NEW other \in Buses, other # bus,
           NEW vol, NEW g, NEW q, Bus(mem, m, other, vol, g, q)
    PROVE Bus(mem, now, other, vol, g, q)
<1>1. PICK l \in Nat, b \in Nat, end \in Nat :
          l = Lanes /\ b = Buffer /\ end = WetR /\ Cells = 0 .. end + b - 1
  BY BuffersAre
<1>2. PICK at \in Nat, to \in Nat :
          /\ at = bus /\ at + b <= end + b /\ to = other /\ to + b <= end + b
          /\ at + b <= to \/ to + b <= at
  <2>1. bus \in Nat /\ other \in Nat /\ bus + b <= end + b /\ other + b <= end + b  BY <1>1, BusIs
  <2>2. bus + b <= other \/ other + b <= bus
    <3>1. PICK w \in Nat, x \in Nat, y \in Nat, z \in Nat :
              w = DryL /\ x = DryR /\ y = WetL /\ z = WetR
      BY BuffersAre
    <3>2. w + b <= x /\ x + b <= y /\ y + b <= z  BY <1>1, <3>1, BuffersAre
    <3>3. bus \in {w, x, y, z} /\ other \in {w, x, y, z}  BY <3>1 DEF Buses
    <3>4. QED  BY <3>2, <3>3
  <2>3. QED  BY <2>1, <2>2
<1>3. p + l <= b  BY <1>1
<1>4. ASSUME NEW x \in 0 .. b - 1
      PROVE now[to + x] = IF x < q THEN mem[to + x] + mem[x] * vol[x] * g ELSE mem[to + x]
  <2>1. m[to + x] = IF x < q THEN mem[to + x] + mem[x] * vol[x] * g ELSE mem[to + x]
    BY <1>1, <1>2 DEF Bus
  <2>2. to + x \in Cells /\ (to + x < at + p \/ to + x >= at + p + l)  BY <1>1, <1>2, <1>3
  <2>3. now[to + x] = m[to + x]  BY <1>1, <1>2, <2>2 DEF Grown
  <2>4. QED  BY <2>1, <2>3
<1>5. QED  BY <1>1, <1>2, <1>4 DEF Bus

(* The first p samples of the main buffer have been mixed, with volumes l  *)
(* and r and gains dry and wet.                                            *)
HasMixed(mem, now, l, r, dry, wet, p) ==
    /\ now \in Memory
    /\ \A y \in Cells : y < DryL => now[y] = mem[y]
    /\ Bus(mem, now, DryL, l, dry, p) /\ Bus(mem, now, WetL, l, wet, p)
    /\ Bus(mem, now, DryR, r, dry, p) /\ Bus(mem, now, WetR, r, wet, p)

(* There are four. *)
LEMMA BusesDiffer ==
    /\ DryL \in Buses /\ DryR \in Buses /\ WetL \in Buses /\ WetR \in Buses
    /\ DryL # DryR /\ DryL # WetL /\ DryL # WetR
    /\ DryR # WetL /\ DryR # WetR /\ WetL # WetR
<1>1. PICK b \in Nat \ {0}, w \in Nat, x \in Nat, y \in Nat, z \in Nat :
          b = Buffer /\ w = DryL /\ x = DryR /\ y = WetL /\ z = WetR
  BY BuffersAre, PhasesAre
<1>2. w + b <= x /\ x + b <= y /\ y + b <= z  BY <1>1, BuffersAre
<1>3. w # x /\ w # y /\ w # z /\ x # y /\ x # z /\ y # z  BY <1>2
<1>4. QED  BY <1>1, <1>3 DEF Buses

(* What lies below the buses stays. *)
LEMMA LowStays ==
    ASSUME NEW mem, NEW m, NEW now, NEW src, NEW bus \in Buses, NEW v, NEW gain, NEW p \in Nat,
           Grown(m, now, src, p, bus, v, gain), \A y \in Cells : y < DryL => m[y] = mem[y]
    PROVE \A y \in Cells : y < DryL => now[y] = mem[y]
<1>1. PICK at \in Nat, dry \in Nat : at = bus /\ dry = DryL /\ dry <= at  BY BusIs, BuffersAre
<1>2. ASSUME NEW y \in Cells, y < dry PROVE now[y] = m[y]
  <2>1. y \in Int
    <3>1. Cells = 0 .. WetR + Buffer - 1  BY BuffersAre
    <3>2. QED  BY <3>1
  <2>2. y < at + p  BY <1>1, <1>2, <2>1
  <2>3. QED  BY <1>1, <2>2 DEF Grown
<1>3. QED  BY <1>1, <1>2

(* One more vector. *)
LEMMA VectorMixed ==
    ASSUME NEW mem, NEW m, NEW l, NEW r, NEW dry \in Int, NEW wet \in Int,
           NEW p \in Nat, p + Lanes <= Buffer, HasMixed(mem, m, l, r, dry, wet, p),
           NEW v, Vols(v, l, p), NEW u, Vols(u, r, p),
           NEW k, p = Lanes * (k - 1), NEW w, w[5] = dry, w[6] = wet
    PROVE HasMixed(mem, L_1BE4(m, k, w, v, u), l, r, dry, wet, p + Lanes)
<1>1. m \in Memory  BY DEF HasMixed
<1>2. v \in Numbers(Lanes) /\ u \in Numbers(Lanes)  BY DEF Vols
<1>3. SameMain(mem, m)
  <2>1. \A x \in 0 .. Buffer - 1 : x \in Cells /\ x < DryL
    <3>1. PICK b \in Nat, d \in Nat, z \in Nat :
              b = Buffer /\ d = DryL /\ z = WetR /\ b + b <= d /\ Cells = 0 .. z + b - 1
      BY BuffersAre
    <3>2. QED  BY <3>1
  <2>2. QED  BY <2>1 DEF SameMain, HasMixed
<1>4. PICK a : a = Added(m, m, p, DryL, v, dry)  OBVIOUS
<1>5. PICK b : b = Added(a, m, p, WetL, v, wet)  OBVIOUS
<1>6. PICK c : c = Added(b, m, p, DryR, u, dry)  OBVIOUS
<1>7. PICK d : d = Added(c, m, p, WetR, u, wet)  OBVIOUS
<1>8. L_1BE4(m, k, w, v, u) = d  BY <1>4, <1>5, <1>6, <1>7 DEF L_1BE4, Added
<1>9. Grown(m, a, m, p, DryL, v, dry)  BY <1>1, <1>2, <1>4, BusesDiffer, AddedIs
<1>10. a \in Memory  BY <1>9 DEF Grown
<1>11. Grown(a, b, m, p, WetL, v, wet)  BY <1>1, <1>2, <1>5, <1>10, BusesDiffer, AddedIs
<1>12. b \in Memory  BY <1>11 DEF Grown
<1>13. Grown(b, c, m, p, DryR, u, dry)  BY <1>1, <1>2, <1>6, <1>12, BusesDiffer, AddedIs
<1>14. c \in Memory  BY <1>13 DEF Grown
<1>15. Grown(c, d, m, p, WetR, u, wet)  BY <1>1, <1>2, <1>7, <1>14, BusesDiffer, AddedIs
<1>16. d \in Memory  BY <1>15 DEF Grown
<1>17. /\ DryL \in Buses /\ DryR \in Buses /\ WetL \in Buses /\ WetR \in Buses
       /\ DryL # DryR /\ DryL # WetL /\ DryL # WetR
       /\ DryR # WetL /\ DryR # WetR /\ WetL # WetR
  BY BusesDiffer
<1>18. /\ Bus(mem, m, DryL, l, dry, p) /\ Bus(mem, m, WetL, l, wet, p)
       /\ Bus(mem, m, DryR, r, dry, p) /\ Bus(mem, m, WetR, r, wet, p)
       /\ \A y \in Cells : y < DryL => m[y] = mem[y]
  BY DEF HasMixed
<1>19. Bus(mem, d, DryL, l, dry, p + Lanes)
  <2>1. Bus(mem, a, DryL, l, dry, p + Lanes)  BY <1>3, <1>9, <1>17, <1>18, BusGrows
  <2>2. Bus(mem, b, DryL, l, dry, p + Lanes)  BY <1>11, <1>17, <2>1, OtherBus
  <2>3. Bus(mem, c, DryL, l, dry, p + Lanes)  BY <1>13, <1>17, <2>2, OtherBus
  <2>4. QED  BY <1>15, <1>17, <2>3, OtherBus
<1>20. Bus(mem, d, WetL, l, wet, p + Lanes)
  <2>1. Bus(mem, a, WetL, l, wet, p)  BY <1>9, <1>17, <1>18, OtherBus
  <2>2. Bus(mem, b, WetL, l, wet, p + Lanes)  BY <1>3, <1>11, <1>17, <2>1, BusGrows
  <2>3. Bus(mem, c, WetL, l, wet, p + Lanes)  BY <1>13, <1>17, <2>2, OtherBus
  <2>4. QED  BY <1>15, <1>17, <2>3, OtherBus
<1>21. Bus(mem, d, DryR, r, dry, p + Lanes)
  <2>1. Bus(mem, a, DryR, r, dry, p)  BY <1>9, <1>17, <1>18, OtherBus
  <2>2. Bus(mem, b, DryR, r, dry, p)  BY <1>11, <1>17, <2>1, OtherBus
  <2>3. Bus(mem, c, DryR, r, dry, p + Lanes)  BY <1>3, <1>13, <1>17, <2>2, BusGrows
  <2>4. QED  BY <1>15, <1>17, <2>3, OtherBus
<1>22. Bus(mem, d, WetR, r, wet, p + Lanes)
  <2>1. Bus(mem, a, WetR, r, wet, p)  BY <1>9, <1>17, <1>18, OtherBus
  <2>2. Bus(mem, b, WetR, r, wet, p)  BY <1>11, <1>17, <2>1, OtherBus
  <2>3. Bus(mem, c, WetR, r, wet, p)  BY <1>13, <1>17, <2>2, OtherBus
  <2>4. QED  BY <1>3, <1>15, <1>17, <2>3, BusGrows
<1>23. \A y \in Cells : y < DryL => d[y] = mem[y]
  <2>1. \A y \in Cells : y < DryL => a[y] = mem[y]  BY <1>9, <1>17, <1>18, LowStays
  <2>2. \A y \in Cells : y < DryL => b[y] = mem[y]  BY <1>11, <1>17, <2>1, LowStays
  <2>3. \A y \in Cells : y < DryL => c[y] = mem[y]  BY <1>13, <1>17, <2>2, LowStays
  <2>4. QED  BY <1>15, <1>17, <2>3, LowStays
<1>24. HasMixed(mem, d, l, r, dry, wet, p + Lanes)
  BY <1>16, <1>19, <1>20, <1>21, <1>22, <1>23 DEF HasMixed
<1>25. QED  BY <1>8, <1>24

(* The volumes of a buffer that begins after n samples of a ramp. *)
LeftVol(r, n)  == [x \in 0 .. Buffer - 1 |-> RampedLeft(r, n + x + 1)]
RightVol(r, n) == [x \in 0 .. Buffer - 1 |-> RampedRight(r, n + x + 1)]

(* The volumes of a vector are those of the ramp there. *)
LEMMA VolsAre ==
    ASSUME NEW r \in Ramps, NEW n \in Nat, NEW p \in Nat, p + Lanes <= Buffer
    PROVE /\ Vols(LeftAt(r, n + p + Lanes), LeftVol(r, n), p)
          /\ Vols(RightAt(r, n + p + Lanes), RightVol(r, n), p)
<1>1. PICK l \in Nat, b \in Nat : l = Lanes /\ b = Buffer /\ p + l <= b
  BY LanesAre, PhasesAre
<1>2. PICK q \in Int : q = n + p + Lanes  BY <1>1
<1>3. LeftAt(r, q) \in Numbers(Lanes) /\ RightAt(r, q) \in Numbers(Lanes)  BY RampTyped
<1>4. ASSUME NEW j \in 1 .. l
      PROVE LeftAt(r, q)[j] = LeftVol(r, n)[p + j - 1] /\ RightAt(r, q)[j] = RightVol(r, n)[p + j - 1]
  <2>1. PICK x \in 0 .. b - 1 : x = p + j - 1 /\ q - l + j = n + x + 1
    <3>1. p + j - 1 \in 0 .. b - 1 /\ q - l + j = n + (p + j - 1) + 1  BY <1>1, <1>2
    <3>2. QED  BY <3>1
  <2>2. LeftAt(r, q)[j] = RampedLeft(r, q - l + j) /\ RightAt(r, q)[j] = RampedRight(r, q - l + j)
    BY <1>1 DEF LeftAt, RightAt
  <2>3. /\ LeftVol(r, n)[x] = RampedLeft(r, n + x + 1)
        /\ RightVol(r, n)[x] = RampedRight(r, n + x + 1)
    BY <1>1 DEF LeftVol, RightVol
  <2>4. QED  BY <2>1, <2>2, <2>3
<1>5. QED  BY <1>1, <1>2, <1>3, <1>4 DEF Vols

(* An ENVMIXER that starts a ramp, or goes on with it after n samples. *)
Envelops(a, c, r, n) ==
    /\ a \in Machine /\ r \in Ramps /\ n \in Nat /\ (c.init <=> n = 0)
    /\ IF n = 0 THEN c.right = r.startR /\ a.start = r.startL /\ a.v24 = Words(r)
       ELSE a.dram[c.state] = RampBlock(r, n)

(* After p samples: what is on the buses, and the volumes in the scratch.  *)
MixTo(a, st, r, n, p) ==
    /\ HasMixed(a.dmem, st.mem, LeftVol(r, n), RightVol(r, n), r.dry, r.wet, p)
    /\ \/ p = 0 /\ n = 0
       \/ st.left = LeftAt(r, n + p) /\ st.right = RightAt(r, n + p)

(* What it fetches is the ramp. *)
LEMMA EnvelopeFetched ==
    ASSUME NEW a, NEW c, NEW r, NEW n, Envelops(a, c, r, n)
    PROVE /\ L_1A9C(a, c).v24 = Words(r)
          /\ n # 0 => L_1A9C(a, c).left = LeftAt(r, n) /\ L_1A9C(a, c).right = RightAt(r, n)
<1>1. n \in Nat /\ r \in Ramps  BY DEF Envelops
<1>2. CASE n = 0
  <2>1. c.init /\ a.v24 = Words(r)  BY <1>2 DEF Envelops
  <2>2. QED  BY <1>2, <2>1 DEF L_1A9C
<1>3. CASE n # 0
  <2>1. ~c.init /\ a.dram[c.state] = RampBlock(r, n)  BY <1>3 DEF Envelops
  <2>2. /\ SubSeq(RampBlock(r, n), 1, Lanes) = LeftAt(r, n)
        /\ SubSeq(RampBlock(r, n), Lanes + 1, Frame) = RightAt(r, n)
        /\ SubSeq(RampBlock(r, n), Frame + 1, Frame + 6) = Words(r)
    BY <1>1, BlockParts
  <2>3. QED  BY <2>1, <2>2 DEF L_1A9C
<1>4. QED  BY <1>2, <1>3

(* A vector on. *)
LEMMA MixesOn ==
    ASSUME NEW a, NEW c, NEW r, NEW n, Envelops(a, c, r, n), NEW st, NEW p \in Nat,
           p + Lanes <= Buffer, MixTo(a, st, r, n, p),
           NEW k, p = Lanes * (k - 1), k = 1 <=> p = 0
    PROVE MixTo(a, MixVector(a, c, st, k), r, n, p + Lanes)
<1>1. n \in Nat /\ r \in Ramps  BY DEF Envelops
<1>2. PICK w : w = L_1A9C(a, c).v24 /\ w = Words(r)  BY EnvelopeFetched
<1>3. w[5] = r.dry /\ w[6] = r.wet /\ r.dry \in Int /\ r.wet \in Int
  BY <1>1, <1>2 DEF Words, Ramps
<1>4. PICK l : l = IF c.init /\ k = 1 THEN FirstLeft(w, a.start) ELSE L_1BA8(w, st.left)
  OBVIOUS
<1>5. PICK u : u = IF c.init /\ k = 1 THEN FirstRight(w, c.right) ELSE L_1BB4(w, st.right)
  OBVIOUS
<1>6. l = LeftAt(r, n + p + Lanes) /\ u = RightAt(r, n + p + Lanes)
  <2>1. CASE n = 0 /\ k = 1
    <3>1. c.init /\ a.start = r.startL /\ c.right = r.startR  BY <2>1 DEF Envelops
    <3>2. l = FirstLeft(Words(r), r.startL) /\ u = FirstRight(Words(r), r.startR)
      BY <1>2, <1>4, <1>5, <2>1, <3>1
    <3>3. n + p + Lanes = Lanes
      <4>1. p = 0 /\ n = 0  BY <2>1
      <4>2. Lanes \in Nat  BY LanesAre
      <4>3. QED  BY <4>1, <4>2
    <3>4. QED  BY <1>1, <3>2, <3>3, VectorFirst
  <2>2. CASE ~(n = 0 /\ k = 1)
    <3>1. ~(c.init /\ k = 1)  BY <2>2 DEF Envelops
    <3>2. st.left = LeftAt(r, n + p) /\ st.right = RightAt(r, n + p)  BY <2>2 DEF MixTo
    <3>3. l = L_1BA8(Words(r), LeftAt(r, n + p)) /\ u = L_1BB4(Words(r), RightAt(r, n + p))
      BY <1>2, <1>4, <1>5, <3>1, <3>2
    <3>4. PICK m \in Int : m = n + p  BY <1>1
    <3>5. L_1BA8(Words(r), LeftAt(r, m)) = LeftAt(r, m + Lanes)
          /\ L_1BB4(Words(r), RightAt(r, m)) = RightAt(r, m + Lanes)
      BY <1>1, VectorOn
    <3>6. QED  BY <3>3, <3>4, <3>5
  <2>3. QED  BY <2>1, <2>2
<1>7. PICK t : t = MixVector(a, c, st, k)  OBVIOUS
<1>8. t.mem = L_1BE4(st.mem, k, w, l, u) /\ t.left = l /\ t.right = u
  BY <1>2, <1>4, <1>5, <1>7 DEF MixVector
<1>9. HasMixed(a.dmem, t.mem, LeftVol(r, n), RightVol(r, n), r.dry, r.wet, p + Lanes)
  <2>1. Vols(l, LeftVol(r, n), p) /\ Vols(u, RightVol(r, n), p)  BY <1>1, <1>6, VolsAre
  <2>2. HasMixed(a.dmem, st.mem, LeftVol(r, n), RightVol(r, n), r.dry, r.wet, p)  BY DEF MixTo
  <2>3. PICK lv, rv, dry, wet, mem, m :
            /\ lv = LeftVol(r, n) /\ rv = RightVol(r, n) /\ dry = r.dry /\ wet = r.wet
            /\ mem = a.dmem /\ m = st.mem
    OBVIOUS
  <2>4. HasMixed(mem, L_1BE4(m, k, w, l, u), lv, rv, dry, wet, p + Lanes)
    <3>1. dry \in Int /\ wet \in Int /\ w[5] = dry /\ w[6] = wet  BY <1>3, <2>3
    <3>2. HasMixed(mem, m, lv, rv, dry, wet, p) /\ Vols(l, lv, p) /\ Vols(u, rv, p)
      BY <2>1, <2>2, <2>3
    <3>3. QED  BY <3>1, <3>2, VectorMixed
  <2>5. QED  BY <1>8, <2>3, <2>4
<1>10. t.left = LeftAt(r, n + (p + Lanes)) /\ t.right = RightAt(r, n + (p + Lanes))
  <2>1. n + (p + Lanes) = n + p + Lanes
    <3>1. Lanes \in Nat  BY LanesAre
    <3>2. QED  BY <1>1, <3>1
  <2>2. QED  BY <1>6, <1>8, <2>1
<1>11. QED  BY <1>7, <1>9, <1>10 DEF MixTo

(* The whole buffer. *)
LEMMA MixedTo ==
    ASSUME NEW a, NEW c, NEW r, NEW n, Envelops(a, c, r, n)
    PROVE MixTo(a, Mixed(a, c), r, n, Buffer) /\ Mixed(a, c).left = LeftAt(r, n + Buffer)
          /\ Mixed(a, c).right = RightAt(r, n + Buffer)
<1>1. PICK f : /\ f[0] = MixStart(a, c)
               /\ \A k \in 1 .. Vectors : f[k] = MixVector(a, c, f[k - 1], k)
               /\ Mixed(a, c) = f[Vectors]
  BY MixedIs
<1>2. PICK m \in Nat, l \in Nat \ {0} : m = Vectors /\ l = Lanes /\ Buffer = l * m  BY Sizes
<1> DEFINE A == {k \in 0 .. m : MixTo(a, f[k], r, n, l * k)}
<1>3. 0 \in A
  <2>1. PICK st : st = f[0] /\ st.mem = a.dmem /\ st.left = L_1A9C(a, c).left
                  /\ st.right = L_1A9C(a, c).right
    BY <1>1 DEF MixStart
  <2>2. HasMixed(a.dmem, st.mem, LeftVol(r, n), RightVol(r, n), r.dry, r.wet, 0)
    <3>1. a.dmem \in Memory
      <4>1. a \in Machine  BY DEF Envelops
      <4>2. QED  BY <4>1, MachineIs
    <3>2. \A x \in 0 .. Buffer - 1 : ~(x < 0)
      <4>1. Buffer \in Nat  BY PhasesAre
      <4>2. QED  BY <4>1
    <3>3. QED  BY <2>1, <3>1, <3>2 DEF HasMixed, Bus
  <2>3. n # 0 => st.left = LeftAt(r, n + 0) /\ st.right = RightAt(r, n + 0)
    <3>1. n + 0 = n
      <4>1. n \in Nat  BY DEF Envelops
      <4>2. QED  BY <4>1
    <3>2. QED  BY <2>1, <3>1, EnvelopeFetched
  <2>4. MixTo(a, st, r, n, 0)  BY <2>2, <2>3 DEF MixTo
  <2>5. l * 0 = 0 /\ 0 \in 0 .. m  OBVIOUS
  <2>6. QED  BY <2>1, <2>4, <2>5
<1>4. ASSUME NEW k \in A, k \in 0 .. m - 1 PROVE k + 1 \in A
  <2>1. PICK i \in Nat : i \in 1 .. m /\ i = k + 1 /\ i - 1 = k /\ k + 1 \in 0 .. m
    <3>1. k + 1 \in Nat /\ k + 1 \in 1 .. m /\ k + 1 - 1 = k /\ k + 1 \in 0 .. m  BY <1>4
    <3>2. QED  BY <3>1
  <2>2. MixTo(a, f[k], r, n, l * k)  BY <1>4
  <2> HIDE DEF A
  <2>3. PICK p \in Nat : p = l * k /\ p + l <= Buffer /\ l * (k + 1) = p + l
    <3>1. i \in 1 .. Vectors  BY <1>2, <2>1
    <3>2. Lanes * (i - 1) \in Nat /\ Lanes * (i - 1) + Lanes <= Buffer
          /\ Lanes * i = Lanes * (i - 1) + Lanes
      BY <3>1, VectorPlace
    <3>3. l * k \in Nat /\ l * k + l <= Buffer /\ l * (k + 1) = l * k + l  BY <1>2, <2>1, <3>2
    <3>4. QED  BY <3>3
  <2>4. i = 1 <=> p = 0
    <3>1. CASE k = 0  BY <2>1, <2>3, <3>1
    <3>2. CASE k # 0
      <4>1. k \in Nat \ {0}  BY <1>4, <3>2
      <4>2. l * k # 0  BY <4>1
      <4>3. QED  BY <2>1, <2>3, <3>2, <4>2
    <3>3. QED  BY <3>1, <3>2
  <2>5. PICK st : st = f[k]  OBVIOUS
  <2>6. f[k + 1] = MixVector(a, c, st, i)
    <3>1. i \in 1 .. Vectors  BY <1>2, <2>1
    <3>2. f[i] = MixVector(a, c, f[i - 1], i)  BY <1>1, <3>1
    <3>3. QED  BY <2>1, <2>5, <3>2
  <2>7. MixTo(a, MixVector(a, c, st, i), r, n, p + Lanes)
    <3>1. p + Lanes <= Buffer /\ p = Lanes * (i - 1) /\ MixTo(a, st, r, n, p)
      BY <1>2, <2>1, <2>2, <2>3, <2>5
    <3>2. QED  BY <2>4, <3>1, MixesOn
  <2>8. MixTo(a, f[k + 1], r, n, l * (k + 1))  BY <1>2, <2>3, <2>6, <2>7
  <2>9. QED  BY <2>1, <2>8 DEF A
<1>5. m \in A
  <2> HIDE DEF A
  <2>1. 0 .. m \subseteq A  BY <1>3, <1>4, UpInduction
  <2>2. m \in 0 .. m  OBVIOUS
  <2>3. QED  BY <2>1, <2>2
<1>6. MixTo(a, f[m], r, n, l * m)  BY <1>5
<1>7. MixTo(a, Mixed(a, c), r, n, Buffer)  BY <1>1, <1>2, <1>6
<1>8. Buffer # 0  BY PhasesAre
<1>9. QED  BY <1>7, <1>8 DEF MixTo

(* The voice has been mixed, and its block is n + Buffer samples on. *)
Enveloped(a, d, v, r, n) ==
    /\ d \in Machine /\ d.book = a.book /\ d.loop = a.loop
    /\ d.dram = Stored(a.dram, <<"env", v>>, RampBlock(r, n + Buffer))
    /\ HasMixed(a.dmem, d.dmem, LeftVol(r, n), RightVol(r, n), r.dry, r.wet, Buffer)

(* What ENVMIXER writes. *)
MixedMachine(a, mem, l, u, w, b, s) ==
    [a EXCEPT !.dmem = mem, !.left = l, !.right = u, !.v24 = w, !.dram = Stored(a.dram, b, s)]

(* The fields of that machine. *)
LEMMA MixedFields ==
    ASSUME NEW a \in Machine, NEW mem \in Memory, NEW l \in Numbers(Lanes),
           NEW u \in Numbers(Lanes), NEW w \in Numbers(6), NEW b \in Blocks, NEW n \in Nat,
           NEW s \in Numbers(n), NEW d, d = MixedMachine(a, mem, l, u, w, b, s)
    PROVE /\ d \in Machine /\ d.book = a.book /\ d.loop = a.loop /\ d.dmem = mem
          /\ d.dram = Stored(a.dram, b, s)
<1>1. a.dram \in [Blocks -> Seq(Int)]  BY MachineIs
<1>2. PICK dram \in [Blocks -> Seq(Int)] : dram = Stored(a.dram, b, s)  BY <1>1, StoredIs
<1>3. d = [a EXCEPT !.dmem = mem, !.left = l, !.right = u, !.v24 = w, !.dram = dram]
  BY <1>2 DEF MixedMachine
<1>4. PICK e : e = [a EXCEPT !.dmem = mem, !.left = l, !.right = u, !.v24 = w, !.dram = dram]
  OBVIOUS
<1>5. e \in Machine /\ e.book = a.book /\ e.loop = a.loop /\ e.dmem = mem /\ e.dram = dram
  BY <1>4 DEF Machine, Memory
<1>6. QED  BY <1>2, <1>3, <1>4, <1>5

(* ENVMIXER. *)
LEMMA EnvmixerRun ==
    ASSUME NEW v \in Voices, NEW a, NEW c, c.op = "ENVMIXER", c.state = <<"env", v>>, NEW r, NEW n,
           Envelops(a, c, r, n)
    PROVE \E d : Run(<<c>>, a, d) /\ Enveloped(a, d, v, r, n)
<1>1. a \in Machine /\ r \in Ramps /\ n \in Nat  BY DEF Envelops
<1>2. PICK q \in Nat : q = n + Buffer
  <2>1. n + Buffer \in Nat  BY <1>1, PhasesAre
  <2>2. QED  BY <2>1
<1>3. MixTo(a, Mixed(a, c), r, n, Buffer) /\ Mixed(a, c).left = LeftAt(r, q)
      /\ Mixed(a, c).right = RightAt(r, q)
  BY <1>2, MixedTo
<1>4. PICK mem : mem = Mixed(a, c).mem  OBVIOUS
<1>5. HasMixed(a.dmem, mem, LeftVol(r, n), RightVol(r, n), r.dry, r.wet, Buffer)
  BY <1>3, <1>4 DEF MixTo
<1>6. mem \in Memory  BY <1>5 DEF HasMixed
<1>7. PICK l, u, w, b, s : l = LeftAt(r, q) /\ u = RightAt(r, q) /\ w = Words(r)
                           /\ b = <<"env", v>> /\ s = RampBlock(r, q)
  OBVIOUS
<1>8. l \in Numbers(Lanes) /\ u \in Numbers(Lanes) /\ w \in Numbers(6)  BY <1>1, <1>7, RampTyped
<1>9. b \in Blocks  BY <1>7, BlocksAre
<1>10. PICK m \in Nat : s \in Numbers(m)
  <2>1. s \in Numbers(Frame + 6)  BY <1>1, <1>7, BlockParts
  <2>2. Frame + 6 \in Nat  BY PhasesAre
  <2>3. QED  BY <2>1, <2>2
<1>11. PICK d : d = MixedMachine(a, mem, l, u, w, b, s)  OBVIOUS
<1>12. /\ d \in Machine /\ d.book = a.book /\ d.loop = a.loop /\ d.dmem = mem
       /\ d.dram = Stored(a.dram, b, s)
  BY <1>1, <1>6, <1>8, <1>9, <1>10, <1>11, MixedFields
<1>13. L_1A9C(a, c).v24 = w  BY <1>7, EnvelopeFetched
<1>14. d = L_1A64(a, c)
  <2>1. L_1C5C(a, c) = Stored(a.dram, b, s)
    BY <1>3, <1>7, <1>13 DEF L_1C5C, Stored, RampBlock
  <2>2. QED  BY <1>3, <1>4, <1>7, <1>11, <1>13, <2>1 DEF L_1A64, MixedMachine
<1>15. Handled(c, a, d)  BY <1>14 DEF Handled
<1>16. Run(<<c>>, a, d)  BY <1>1, <1>12, <1>15, RunOne
<1>17. Enveloped(a, d, v, r, n)  BY <1>2, <1>5, <1>7, <1>12 DEF Enveloped
<1>18. QED  BY <1>16, <1>17

(* The commands of a new ramp. *)
SetLeft(r)  == [op |-> "SETVOL", flags |-> 0, low |-> r.targetL, word |-> r.rateL]
SetRight(r) == [op |-> "SETVOL", flags |-> 4, low |-> r.targetR, word |-> r.rateR]
SetRest(r)  == [op |-> "SETVOL", flags |-> 6, low |-> r.startL, dry |-> r.dry, wet |-> r.wet]

(* What a SETVOL may write. *)
Set(a, w, x) == [a EXCEPT !.v24 = w, !.start = x]

(* The same but for the words of a ramp. *)
Same(a, d) ==
    /\ d \in Machine /\ d.dmem = a.dmem /\ d.book = a.book /\ d.loop = a.loop /\ d.dram = a.dram

(* The fields of that machine. *)
LEMMA SetIs ==
    ASSUME NEW a \in Machine, NEW w \in Numbers(6), NEW x \in Int, NEW d, d = Set(a, w, x)
    PROVE Same(a, d) /\ d.v24 = w /\ d.start = x
<1>1. PICK e : e = [a EXCEPT !.v24 = w, !.start = x]  OBVIOUS
<1>2. /\ e \in Machine /\ e.dmem = a.dmem /\ e.book = a.book /\ e.loop = a.loop
      /\ e.dram = a.dram /\ e.v24 = w /\ e.start = x
  BY <1>1 DEF Machine
<1>3. QED  BY <1>1, <1>2 DEF Set, Same

(* SETVOL. *)
LEMMA SetvolIs ==
    ASSUME NEW a \in Machine, NEW c, c.op = "SETVOL", NEW w \in Numbers(6), NEW x \in Int,
           L_127C(a, c) = Set(a, w, x)
    PROVE \E d : Run(<<c>>, a, d) /\ Same(a, d) /\ d.v24 = w /\ d.start = x
<1>1. PICK d : d = Set(a, w, x)  OBVIOUS
<1>2. Same(a, d) /\ d.v24 = w /\ d.start = x  BY <1>1, SetIs
<1>3. Handled(c, a, d)  BY <1>1 DEF Handled
<1>4. d \in Machine  BY <1>2 DEF Same
<1>5. Run(<<c>>, a, d)  BY <1>3, <1>4, RunOne
<1>6. QED  BY <1>2, <1>5

(* The three SETVOLs of a new ramp leave its words in the scratch. *)
LEMMA SetvolsRun ==
    ASSUME NEW a \in Machine, NEW r \in Ramps
    PROVE \E d : /\ Run(<<SetLeft(r), SetRight(r), SetRest(r)>>, a, d)
                 /\ Same(a, d) /\ d.v24 = Words(r) /\ d.start = r.startL
<1>1. /\ r.targetL \in Int /\ r.rateL \in Int /\ r.targetR \in Int /\ r.rateR \in Int
      /\ r.dry \in Int /\ r.wet \in Int /\ r.startL \in Int
  BY DEF Ramps
<1>2. a.v24 \in Numbers(6) /\ a.start \in Int  BY MachineIs
<1>3. PICK w1 : w1 = [a.v24 EXCEPT ![1] = r.targetL, ![2] = r.rateL]  OBVIOUS
<1>4. w1 \in Numbers(6) /\ w1[1] = r.targetL /\ w1[2] = r.rateL  BY <1>1, <1>2, <1>3 DEF Numbers
<1>5. PICK b : Run(<<SetLeft(r)>>, a, b) /\ Same(a, b) /\ b.v24 = w1 /\ b.start = a.start
  <2>1. SetLeft(r).op = "SETVOL" /\ SetLeft(r).flags = 0 /\ SetLeft(r).low = r.targetL
        /\ SetLeft(r).word = r.rateL
    BY DEF SetLeft
  <2>2. L_127C(a, SetLeft(r)) = [a EXCEPT !.v24 = w1]  BY <1>3, <2>1 DEF L_127C
  <2>3. [a EXCEPT !.v24 = w1] = [a EXCEPT !.v24 = w1, !.start = a.start]  BY DEF Machine
  <2>4. L_127C(a, SetLeft(r)) = Set(a, w1, a.start)  BY <2>2, <2>3 DEF Set
  <2>5. QED  BY <1>2, <1>4, <2>1, <2>4, SetvolIs
<1>6. PICK w2 : w2 = [w1 EXCEPT ![3] = r.targetR, ![4] = r.rateR]  OBVIOUS
<1>7. w2 \in Numbers(6) /\ w2[1] = r.targetL /\ w2[2] = r.rateL /\ w2[3] = r.targetR
      /\ w2[4] = r.rateR
  BY <1>1, <1>4, <1>6 DEF Numbers
<1>8. b \in Machine  BY <1>5 DEF Same
<1>9. PICK d : Run(<<SetRight(r)>>, b, d) /\ Same(b, d) /\ d.v24 = w2 /\ d.start = a.start
  <2>1. SetRight(r).op = "SETVOL" /\ SetRight(r).flags = 4 /\ SetRight(r).low = r.targetR
        /\ SetRight(r).word = r.rateR
    BY DEF SetRight
  <2>2. L_127C(b, SetRight(r)) = [b EXCEPT !.v24 = w2]  BY <1>5, <1>6, <2>1 DEF L_127C
  <2>3. [b EXCEPT !.v24 = w2] = [b EXCEPT !.v24 = w2, !.start = b.start]  BY <1>8 DEF Machine
  <2>4. L_127C(b, SetRight(r)) = Set(b, w2, a.start)  BY <1>5, <2>2, <2>3 DEF Set
  <2>5. QED  BY <1>2, <1>7, <1>8, <2>1, <2>4, SetvolIs
<1>10. d \in Machine  BY <1>9 DEF Same
<1>11. PICK w3 : w3 = [w2 EXCEPT ![5] = r.dry, ![6] = r.wet]  OBVIOUS
<1>12. w3 \in Numbers(6) /\ w3[1] = r.targetL /\ w3[2] = r.rateL /\ w3[3] = r.targetR
       /\ w3[4] = r.rateR /\ w3[5] = r.dry /\ w3[6] = r.wet
  BY <1>1, <1>7, <1>11 DEF Numbers
<1>13. w3 = Words(r)
  <2>1. Words(r) \in Numbers(6) /\ Words(r)[1] = r.targetL /\ Words(r)[2] = r.rateL
        /\ Words(r)[3] = r.targetR /\ Words(r)[4] = r.rateR
        /\ Words(r)[5] = r.dry /\ Words(r)[6] = r.wet
    <3>1. Words(r) \in Numbers(6)
      <4>1. 0 \in Int  OBVIOUS
      <4>2. QED  BY <4>1, RampTyped
    <3>2. QED  BY <3>1 DEF Words
  <2>2. \A i \in 1 .. 6 : i = 1 \/ i = 2 \/ i = 3 \/ i = 4 \/ i = 5 \/ i = 6  OBVIOUS
  <2>3. \A i \in 1 .. 6 : w3[i] = Words(r)[i]  BY <1>12, <2>1, <2>2
  <2>4. QED  BY <1>12, <2>1, <2>3 DEF Numbers
<1>14. PICK e : Run(<<SetRest(r)>>, d, e) /\ Same(d, e) /\ e.v24 = w3 /\ e.start = r.startL
  <2>1. SetRest(r).op = "SETVOL" /\ SetRest(r).flags = 6 /\ SetRest(r).low = r.startL
        /\ SetRest(r).dry = r.dry /\ SetRest(r).wet = r.wet
    BY DEF SetRest
  <2>2. L_127C(d, SetRest(r)) = [d EXCEPT !.v24 = w3, !.start = r.startL]
    BY <1>9, <1>11, <2>1 DEF L_127C
  <2>3. L_127C(d, SetRest(r)) = Set(d, w3, r.startL)  BY <2>2 DEF Set
  <2>4. QED  BY <1>1, <1>10, <1>12, <2>1, <2>3, SetvolIs
<1>15. Run(<<SetLeft(r), SetRight(r), SetRest(r)>>, a, e)  BY <1>5, <1>9, <1>14, RunThree
<1>16. Same(a, e)  BY <1>5, <1>9, <1>14 DEF Same
<1>17. QED  BY <1>13, <1>14, <1>15, <1>16

(* What keeps a voice's volumes. *)
HasVolumes(a, v, s) ==
    /\ s.ramp \in Ramps /\ s.since \in Nat
    /\ s.since > 0 => a.dram[<<"env", v>>] = RampBlock(s.ramp, s.since)

(* The commands of an envelope, with a new ramp or on the one there is. *)
LEMMA EnvelopeIs ==
    ASSUME NEW a \in Machine, NEW v \in Voices, NEW s, HasVolumes(a, v, s)
    PROVE \E d : Run(Envelope(v, s), a, d) /\ Enveloped(a, d, v, s.ramp, s.since)
<1>1. PICK r \in Ramps, n \in Nat : r = s.ramp /\ n = s.since  BY DEF HasVolumes
<1>2. PICK c : c = [op |-> "ENVMIXER", init |-> s.since = 0, state |-> <<"env", v>>,
                    right |-> IF s.since = 0 THEN s.ramp.startR ELSE 0]
  OBVIOUS
<1>3. /\ c.op = "ENVMIXER" /\ c.state = <<"env", v>> /\ (c.init <=> n = 0)
      /\ c.right = IF n = 0 THEN r.startR ELSE 0
  BY <1>1, <1>2
<1>4. CASE n = 0
  <2>1. PICK b : /\ Run(<<SetLeft(r), SetRight(r), SetRest(r)>>, a, b)
                 /\ Same(a, b) /\ b.v24 = Words(r) /\ b.start = r.startL
    BY SetvolsRun
  <2>2. Envelops(b, c, r, n)  BY <1>3, <1>4, <2>1 DEF Envelops, Same
  <2>3. PICK d : Run(<<c>>, b, d) /\ Enveloped(b, d, v, r, n)  BY <1>3, <2>2, EnvmixerRun
  <2>4. Run(<<SetLeft(r), SetRight(r), SetRest(r)>> \o <<c>>, a, d)  BY <2>1, <2>3, RunConcat
  <2>5. Envelope(v, s) = <<SetLeft(r), SetRight(r), SetRest(r)>> \o <<c>>
    BY <1>1, <1>2, <1>4 DEF Envelope, SetLeft, SetRight, SetRest
  <2>6. Enveloped(a, d, v, r, n)  BY <2>1, <2>3 DEF Enveloped, Same
  <2>7. QED  BY <1>1, <2>4, <2>5, <2>6
<1>5. CASE n # 0
  <2>1. n > 0  BY <1>5
  <2>2. Envelops(a, c, r, n)  BY <1>1, <1>3, <1>5, <2>1 DEF Envelops, HasVolumes
  <2>3. PICK d : Run(<<c>>, a, d) /\ Enveloped(a, d, v, r, n)  BY <1>3, <2>2, EnvmixerRun
  <2>4. Run(<<>> \o <<c>>, a, d)
    <3>1. Run(<<>>, a, a)  BY RunNil
    <3>2. QED  BY <2>3, <3>1, RunConcat
  <2>5. Envelope(v, s) = <<>> \o <<c>>  BY <1>1, <1>2, <2>1 DEF Envelope
  <2>6. QED  BY <1>1, <2>3, <2>4, <2>5
<1>6. QED  BY <1>4, <1>5

-----------------------------------------------------------------------------
(* The commands of one voice, together. *)

(* What never changes in DRAM. *)
Fixed(a) ==
    \A v \in Voices : /\ a.dram[<<"rom", v>>] = Rom[v] /\ a.dram[<<"book", v>>] = Book(v)
                      /\ a.dram[<<"loop", v>>] = Before(v, LoopStart[v])

(* Where a voice can be. *)
Placed(s) ==
    /\ s.fresh \in BOOLEAN /\ s.ramp \in Ramps /\ s.since \in Nat /\ Ahead(s.place, s.dec)
    /\ s.fresh => s.place = 0 /\ s.dec = 0

(* Where v is, is in its blocks. *)
Keeps(a, v, s) ==
    /\ ~s.fresh => /\ a.dram[<<"adpcm", v>>] = Before(v, s.dec)
                   /\ a.dram[<<"resample", v>>] = Kept(v, s.place)
    /\ s.since > 0 => a.dram[<<"env", v>>] = RampBlock(s.ramp, s.since)

(* Only v's blocks have changed. *)
OnlyOf(a, d, v) ==
    \A b \in Blocks : b \notin {<<"adpcm", v>>, <<"resample", v>>, <<"env", v>>} =>
                          d.dram[b] = a.dram[b]

(* Where a voice is when its list is done. *)
After(s, pitch) ==
    [fresh |-> FALSE, place |-> s.place + Buffer * pitch, dec |-> s.dec + Needed(s, pitch),
     ramp |-> s.ramp, since |-> s.since + Buffer]

(* v has been added to the buses. *)
Sounds(mem, now, v, s, pitch) ==
    \A x \in 0 .. Buffer - 1 :
        /\ now[DryL + x] = mem[DryL + x] + Heard(v, s.place + x * pitch)
                                           * RampedLeft(s.ramp, s.since + x + 1) * s.ramp.dry
        /\ now[WetL + x] = mem[WetL + x] + Heard(v, s.place + x * pitch)
                                           * RampedLeft(s.ramp, s.since + x + 1) * s.ramp.wet
        /\ now[DryR + x] = mem[DryR + x] + Heard(v, s.place + x * pitch)
                                           * RampedRight(s.ramp, s.since + x + 1) * s.ramp.dry
        /\ now[WetR + x] = mem[WetR + x] + Heard(v, s.place + x * pitch)
                                           * RampedRight(s.ramp, s.since + x + 1) * s.ramp.wet

(* A voice whose list is done is where it ought to be. *)
LEMMA PlacedOn ==
    ASSUME NEW v \in Voices, NEW s, Placed(s), NEW pitch \in Pitches[v]
    PROVE Placed(After(s, pitch))
<1>1. pitch \in Nat /\ Ahead(s.place, s.dec)  BY HandlerAssumption DEF Placed
<1>2. Ahead(s.place + Buffer * pitch, s.dec + Needed(s, pitch))  BY <1>1, NeededIs
<1>3. s.since + Buffer \in Nat
  <2>1. s.since \in Nat /\ Buffer \in Nat  BY PhasesAre DEF Placed
  <2>2. QED  BY <2>1
<1>4. QED  BY <1>2, <1>3 DEF Placed, After

(* LOADADPCM. *)
LEMMA LoadbookIs ==
    ASSUME NEW a \in Machine, NEW v \in Voices, NEW b \in Numbers(Frame + Frame),
           a.dram[<<"book", v>>] = b
    PROVE \E d : /\ Run(<<[op |-> "LOADADPCM", addr |-> <<"book", v>>]>>, a, d)
                 /\ d \in Machine /\ d.book = b /\ d.dmem = a.dmem /\ d.dram = a.dram
<1>1. PICK c : c = [op |-> "LOADADPCM", addr |-> <<"book", v>>]  OBVIOUS
<1>2. b \in Numbers(2 * Frame)
  <2>1. Frame + Frame = 2 * Frame  BY LanesAre
  <2>2. QED  BY <2>1
<1>3. PICK d : d = [a EXCEPT !.book = b]  OBVIOUS
<1>4. d \in Machine /\ d.book = b /\ d.dmem = a.dmem /\ d.dram = a.dram
  BY <1>2, <1>3 DEF Machine
<1>5. Handled(c, a, d)  BY <1>1, <1>2, <1>3 DEF Handled, L_1248
<1>6. Run(<<c>>, a, d)  BY <1>4, <1>5, RunOne
<1>7. QED  BY <1>1, <1>2, <1>4, <1>6

(* The three blocks of a voice are stored. *)
Three(a, v, x, y, z) ==
    Stored(Stored(Stored(a.dram, <<"adpcm", v>>, x), <<"resample", v>>, y), <<"env", v>>, z)

(* Of r, u has only the block b changed, to x. *)
StoresOnly(r, u, b, x) == u \in [Blocks -> Seq(Int)] /\ u[b] = x /\ \A o \in Blocks : o # b => u[o] = r[o]

(* That is what storing a block does. *)
LEMMA StoresIs ==
    ASSUME NEW r \in [Blocks -> Seq(Int)], NEW b \in Blocks, NEW n \in Nat, NEW x \in Numbers(n)
    PROVE StoresOnly(r, Stored(r, b, x), b, x)
BY StoredIs DEF StoresOnly

(* What the blocks are after the three have been stored. *)
LEMMA ThreeStored ==
    ASSUME NEW a \in Machine, NEW v \in Voices, NEW n \in Nat, NEW x \in Numbers(n),
           NEW m \in Nat, NEW y \in Numbers(m), NEW k \in Nat, NEW z \in Numbers(k),
           NEW d, d.dram = Three(a, v, x, y, z)
    PROVE /\ OnlyOf(a, d, v) /\ d.dram[<<"adpcm", v>>] = x /\ d.dram[<<"resample", v>>] = y
          /\ d.dram[<<"env", v>>] = z
<1>1. PICK b \in Blocks, c \in Blocks, e \in Blocks :
          b = <<"adpcm", v>> /\ c = <<"resample", v>> /\ e = <<"env", v>>
  BY BlocksAre
<1>2. b # c /\ b # e /\ c # e  BY <1>1
<1>3. PICK r \in [Blocks -> Seq(Int)] : r = a.dram  BY MachineIs
<1>4. PICK s : s = Stored(r, b, x)  OBVIOUS
<1>5. StoresOnly(r, s, b, x)  BY <1>4, StoresIs
<1>6. s \in [Blocks -> Seq(Int)]  BY <1>5 DEF StoresOnly
<1>7. PICK t : t = Stored(s, c, y)  OBVIOUS
<1>8. StoresOnly(s, t, c, y)  BY <1>6, <1>7, StoresIs
<1>9. t \in [Blocks -> Seq(Int)]  BY <1>8 DEF StoresOnly
<1>10. PICK u : u = Stored(t, e, z)  OBVIOUS
<1>11. StoresOnly(t, u, e, z)  BY <1>9, <1>10, StoresIs
<1>12. d.dram = u  BY <1>1, <1>3, <1>4, <1>7, <1>10 DEF Three
<1>13. u[b] = x /\ u[c] = y /\ u[e] = z  BY <1>2, <1>5, <1>8, <1>11 DEF StoresOnly
<1>14. \A o \in Blocks : o \notin {b, c, e} => u[o] = r[o]
  BY <1>5, <1>8, <1>11 DEF StoresOnly
<1>15. QED  BY <1>1, <1>3, <1>12, <1>13, <1>14 DEF OnlyOf

(* What is kept for the resampler is a window and a fraction. *)
LEMMA KeptTyped ==
    ASSUME NEW v \in Voices, NEW place \in Nat
    PROVE Kept(v, place) \in Numbers(Taps + 1) /\ Taps + 1 \in Nat
<1>1. IsWindow(SourceWindow(v, place) \o <<place % Phases>>, v, place)  BY WindowTyped
<1>2. Taps \in Nat  BY PhasesAre
<1>3. Taps + 1 \in Nat  BY <1>2
<1>4. QED  BY <1>1, <1>3 DEF IsWindow, Kept

(* The buses after a voice was mixed to them, in terms of what is heard of *)
(* it.                                                                     *)
LEMMA SoundsIs ==
    ASSUME NEW a, NEW b, NEW d, NEW v, NEW s, NEW pitch, s.since \in Nat,
           \A x \in Cells : DryL <= x => b.dmem[x] = a.dmem[x],
           \A x \in 0 .. Buffer - 1 : b.dmem[Main + x] = Heard(v, s.place + x * pitch),
           HasMixed(b.dmem, d.dmem, LeftVol(s.ramp, s.since), RightVol(s.ramp, s.since),
                    s.ramp.dry, s.ramp.wet, Buffer)
    PROVE Sounds(a.dmem, d.dmem, v, s, pitch)
<1>1. PICK n \in Nat, q \in Nat : n = Buffer /\ q = WetR /\ Cells = 0 .. q + n - 1
  BY BuffersAre
<1>2. PICK mem, m, now, l, r : /\ mem = a.dmem /\ m = b.dmem /\ now = d.dmem
                               /\ l = LeftVol(s.ramp, s.since) /\ r = RightVol(s.ramp, s.since)
  OBVIOUS
<1>3. ASSUME NEW bus \in Buses, NEW x \in 0 .. n - 1 PROVE m[bus + x] = mem[bus + x]
  <2>1. PICK at \in Nat, dry \in Nat : at = bus /\ dry = DryL /\ dry <= at /\ at + n <= q + n
    BY <1>1, BusIs, BuffersAre
  <2>2. at + x \in Cells /\ dry <= at + x  BY <1>1, <2>1
  <2>3. QED  BY <1>2, <2>1, <2>2
<1>4. ASSUME NEW bus \in Buses, NEW vol, NEW gain, Bus(m, now, bus, vol, gain, Buffer),
             NEW x \in 0 .. n - 1
      PROVE now[bus + x] = mem[bus + x] + Heard(v, s.place + x * pitch) * vol[x] * gain
  <2>1. x < n /\ x \in 0 .. Buffer - 1 /\ Main + x = x
    <3>1. Main = 0  BY Sizes
    <3>2. QED  BY <1>1, <3>1
  <2>2. now[bus + x] = m[bus + x] + m[x] * vol[x] * gain  BY <1>1, <1>4, <2>1 DEF Bus
  <2>3. m[x] = Heard(v, s.place + x * pitch)  BY <1>2, <2>1
  <2>4. m[bus + x] = mem[bus + x]  BY <1>3
  <2>5. QED  BY <2>2, <2>3, <2>4
<1>5. /\ Bus(m, now, DryL, l, s.ramp.dry, Buffer) /\ Bus(m, now, WetL, l, s.ramp.wet, Buffer)
      /\ Bus(m, now, DryR, r, s.ramp.dry, Buffer) /\ Bus(m, now, WetR, r, s.ramp.wet, Buffer)
  BY <1>2 DEF HasMixed
<1>6. DryL \in Buses /\ DryR \in Buses /\ WetL \in Buses /\ WetR \in Buses  BY BusesDiffer
<1>7. ASSUME NEW x \in 0 .. n - 1
      PROVE /\ l[x] = RampedLeft(s.ramp, s.since + x + 1)
            /\ r[x] = RampedRight(s.ramp, s.since + x + 1)
  BY <1>1, <1>2 DEF LeftVol, RightVol
<1>8. ASSUME NEW x \in 0 .. n - 1
      PROVE /\ now[DryL + x] = mem[DryL + x] + Heard(v, s.place + x * pitch)
                                 * RampedLeft(s.ramp, s.since + x + 1) * s.ramp.dry
            /\ now[WetL + x] = mem[WetL + x] + Heard(v, s.place + x * pitch)
                                 * RampedLeft(s.ramp, s.since + x + 1) * s.ramp.wet
            /\ now[DryR + x] = mem[DryR + x] + Heard(v, s.place + x * pitch)
                                 * RampedRight(s.ramp, s.since + x + 1) * s.ramp.dry
            /\ now[WetR + x] = mem[WetR + x] + Heard(v, s.place + x * pitch)
                                 * RampedRight(s.ramp, s.since + x + 1) * s.ramp.wet
  <2>1. now[DryL + x] = mem[DryL + x] + Heard(v, s.place + x * pitch) * l[x] * s.ramp.dry
    BY <1>4, <1>5, <1>6
  <2>2. now[WetL + x] = mem[WetL + x] + Heard(v, s.place + x * pitch) * l[x] * s.ramp.wet
    BY <1>4, <1>5, <1>6
  <2>3. now[DryR + x] = mem[DryR + x] + Heard(v, s.place + x * pitch) * r[x] * s.ramp.dry
    BY <1>4, <1>5, <1>6
  <2>4. now[WetR + x] = mem[WetR + x] + Heard(v, s.place + x * pitch) * r[x] * s.ramp.wet
    BY <1>4, <1>5, <1>6
  <2>5. QED  BY <1>7, <2>1, <2>2, <2>3, <2>4, Zenon
<1>9. QED  BY <1>1, <1>2, <1>8 DEF Sounds

(* The commands of a voice. *)
Commands(v, s, pitch) ==
    <<[op |-> "LOADADPCM", addr |-> <<"book", v>>]>>
    \o Decode(v, s, Needed(s, pitch)) \o Resample(v, s, pitch) \o Envelope(v, s)

(* The commands of a voice have been run. *)
Pulled(a, d, v, s, pitch) ==
    /\ d \in Machine /\ OnlyOf(a, d, v) /\ Keeps(d, v, After(s, pitch))
    /\ Sounds(a.dmem, d.dmem, v, s, pitch)

(* The decoder's part. *)
LEMMA DecodePart ==
    ASSUME NEW a \in Machine, Fixed(a), NEW v \in Voices, NEW s, Placed(s), Keeps(a, v, s),
           NEW pitch \in Pitches[v]
    PROVE \E d : /\ Run(<<[op |-> "LOADADPCM", addr |-> <<"book", v>>]>>
                        \o Decode(v, s, Needed(s, pitch)), a, d)
                 /\ d \in Machine
                 /\ d.dram = Stored(a.dram, <<"adpcm", v>>, Before(v, s.dec + Needed(s, pitch)))
                 /\ Holds(d.dmem, v, s.dec, Temp, Needed(s, pitch))
                 /\ \A x \in Cells : DryL <= x => d.dmem[x] = a.dmem[x]
<1>1. PICK b : /\ Run(<<[op |-> "LOADADPCM", addr |-> <<"book", v>>]>>, a, b)
               /\ b \in Machine /\ b.book = Book(v) /\ b.dmem = a.dmem /\ b.dram = a.dram
  BY BookTyped, LoadbookIs DEF Fixed
<1>2. PICK need : need = Needed(s, pitch)  OBVIOUS
<1>3. Room(v, need)  BY <1>2, HandlerAssumption, NeededIs, RoomIs DEF Placed
<1>4. Going(b, v, s)  BY <1>1 DEF Fixed, Placed, Ahead, Keeps, Going
<1>5. PICK d : Run(Decode(v, s, need), b, d) /\ Continued(b, d, v, s.dec, need)
  BY <1>3, <1>4, DecodeIs
<1>6. Run(<<[op |-> "LOADADPCM", addr |-> <<"book", v>>]>> \o Decode(v, s, need), a, d)
  BY <1>1, <1>5, RunConcat
<1>7. QED  BY <1>1, <1>2, <1>5, <1>6 DEF Continued, Alike

(* Storing one of a voice's blocks leaves the others. *)
LEMMA StoredKeeps ==
    ASSUME NEW a \in Machine, NEW b, NEW v \in Voices, NEW kind, NEW other, kind # other,
           <<kind, v>> \in Blocks, <<other, v>> \in Blocks, NEW n \in Nat, NEW s \in Numbers(n),
           b.dram = Stored(a.dram, <<kind, v>>, s)
    PROVE b.dram[<<other, v>>] = a.dram[<<other, v>>]
<1>1. PICK x \in Blocks, y \in Blocks : x = <<kind, v>> /\ y = <<other, v>> /\ x # y  OBVIOUS
<1>2. PICK r \in [Blocks -> Seq(Int)] : r = a.dram  BY MachineIs
<1>3. PICK t : t = Stored(r, x, s)  OBVIOUS
<1>4. StoresOnly(r, t, x, s)  BY <1>3, StoresIs
<1>5. t[y] = r[y]  BY <1>1, <1>4 DEF StoresOnly
<1>6. QED  BY <1>1, <1>2, <1>3, <1>5

(* Run from where the voice is, they add it to the buses and leave its     *)
(* blocks where it goes on.                                                *)
LEMMA PullIs ==
    ASSUME NEW a \in Machine, Fixed(a), NEW v \in Voices, NEW s, Placed(s), Keeps(a, v, s),
           NEW pitch \in Pitches[v], tasks \in Nat
    PROVE \E d : Run(Commands(v, s, pitch), a, d) /\ Pulled(a, d, v, s, pitch)
<1>1. PICK b : /\ Run(<<[op |-> "LOADADPCM", addr |-> <<"book", v>>]>>
                      \o Decode(v, s, Needed(s, pitch)), a, b)
               /\ b \in Machine
               /\ b.dram = Stored(a.dram, <<"adpcm", v>>, Before(v, s.dec + Needed(s, pitch)))
               /\ Holds(b.dmem, v, s.dec, Temp, Needed(s, pitch))
               /\ \A x \in Cells : DryL <= x => b.dmem[x] = a.dmem[x]
  BY DecodePart
<1>2. Ahead(s.place, s.dec) /\ s.fresh \in BOOLEAN /\ (s.fresh => s.place = 0)
      /\ s.ramp \in Ramps /\ s.since \in Nat
  BY DEF Placed
<1>3. PICK need : need = Needed(s, pitch)  OBVIOUS
<1>4. pitch \in Nat  BY HandlerAssumption
<1>5. Ahead(s.place + Buffer * pitch, s.dec + need)  BY <1>2, <1>3, <1>4, NeededIs
<1>6. PICK x : x = Before(v, s.dec + need)  OBVIOUS
<1>7. x \in Numbers(Frame) /\ Frame \in Nat  BY <1>5, <1>6, PhasesAre, BeforeTyped DEF Ahead
<1>8. PICK y : y = Kept(v, s.place + Buffer * pitch)  OBVIOUS
<1>9. y \in Numbers(Taps + 1) /\ Taps + 1 \in Nat  BY <1>5, <1>8, KeptTyped DEF Ahead
<1>10. PICK z : z = RampBlock(s.ramp, s.since + Buffer)  OBVIOUS
<1>11. z \in Numbers(Frame + 6) /\ Frame + 6 \in Nat  BY <1>2, <1>10, PhasesAre, BlockParts
<1>12. /\ <<"adpcm", v>> \in Blocks /\ <<"resample", v>> \in Blocks /\ <<"env", v>> \in Blocks
  BY BlocksAre
<1>13. Resampling(b, v, s, pitch)
  <2>1. b.dram[<<"resample", v>>] = a.dram[<<"resample", v>>]
    BY <1>1, <1>3, <1>6, <1>7, <1>12, StoredKeeps
  <2>2. ~s.fresh => a.dram[<<"resample", v>>] = Kept(v, s.place)  BY DEF Keeps
  <2>3. s.place \in Nat  BY <1>2 DEF Ahead
  <2>4. HasWindow(b, v, s)  BY <1>2, <2>1, <2>2, <2>3 DEF HasWindow, Kept
  <2>5. QED  BY <1>1, <1>2, <2>4 DEF Resampling
<1>14. PICK d : Run(Resample(v, s, pitch), b, d) /\ ResampledAt(b, d, v, s.place, pitch, Main)
  BY <1>13, ResampleIs
<1>15. d \in Machine /\ d.dram = Stored(b.dram, <<"resample", v>>, y)
  BY <1>8, <1>14 DEF ResampledAt, Alike
<1>16. HasVolumes(d, v, s)
  <2>1. b.dram[<<"env", v>>] = a.dram[<<"env", v>>]  BY <1>1, <1>3, <1>6, <1>7, <1>12, StoredKeeps
  <2>2. d.dram[<<"env", v>>] = b.dram[<<"env", v>>]
    <3>1. b \in Machine  BY <1>1
    <3>2. QED  BY <1>9, <1>12, <1>15, <3>1, StoredKeeps
  <2>3. QED  BY <1>2, <2>1, <2>2 DEF HasVolumes, Keeps
<1>17. PICK e : Run(Envelope(v, s), d, e) /\ Enveloped(d, e, v, s.ramp, s.since)
  BY <1>15, <1>16, EnvelopeIs
<1>18. e \in Machine /\ e.dram = Stored(d.dram, <<"env", v>>, z)
  BY <1>10, <1>17 DEF Enveloped
<1>19. /\ OnlyOf(a, e, v) /\ e.dram[<<"adpcm", v>>] = x /\ e.dram[<<"resample", v>>] = y
       /\ e.dram[<<"env", v>>] = z
  <2>1. e.dram = Three(a, v, x, y, z)  BY <1>1, <1>3, <1>6, <1>15, <1>18 DEF Three
  <2>2. QED  BY <1>7, <1>9, <1>11, <2>1, ThreeStored
<1>20. Keeps(e, v, After(s, pitch))  BY <1>3, <1>6, <1>8, <1>10, <1>19 DEF After, Keeps
<1>21. Sounds(a.dmem, e.dmem, v, s, pitch)
  <2>1. \A c \in Cells : DryL <= c => d.dmem[c] = a.dmem[c]  BY <1>1, <1>14 DEF ResampledAt
  <2>2. \A c \in 0 .. Buffer - 1 : d.dmem[Main + c] = Heard(v, s.place + c * pitch)
    BY <1>14 DEF ResampledAt
  <2>3. HasMixed(d.dmem, e.dmem, LeftVol(s.ramp, s.since), RightVol(s.ramp, s.since),
                 s.ramp.dry, s.ramp.wet, Buffer)
    BY <1>17 DEF Enveloped
  <2>4. QED  BY <1>2, <2>1, <2>2, <2>3, SoundsIs
<1>22. Run(Commands(v, s, pitch), a, e)  BY <1>1, <1>14, <1>17, RunConcat DEF Commands
<1>23. QED  BY <1>18, <1>19, <1>20, <1>21, <1>22 DEF Pulled

-----------------------------------------------------------------------------
(* The output, from the start of a list to its end. *)

(* The output that the buses come to. *)
Mix(mem, w) ==
    /\ mem \in Memory /\ w \in Numbers(2 * Buffer)
    /\ \A x \in 0 .. Buffer - 1 :
          /\ w[2 * x + 1] = mem[DryL + x] + Gain * mem[WetL + x]
          /\ w[2 * x + 2] = mem[DryR + x] + Gain * mem[WetR + x]

(* The cells of a bus. *)
LEMMA InBus ==
    ASSUME NEW bus \in Buses, NEW x \in 0 .. Buffer - 1
    PROVE bus + x \in Cells /\ DryL <= bus + x /\ bus + x < WetR + Buffer /\ x \in Nat
          /\ bus + x \in Nat
<1>1. PICK n \in Nat, q \in Nat, at \in Nat, dry \in Nat :
          n = Buffer /\ q = WetR /\ at = bus /\ dry = DryL
  BY BuffersAre, BusIs
<1>2. dry <= at /\ at + n <= q + n  BY <1>1, BusIs
<1>3. Cells = 0 .. q + n - 1  BY <1>1, BuffersAre
<1>4. x \in 0 .. n - 1  BY <1>1
<1>5. at + x \in 0 .. q + n - 1 /\ dry <= at + x /\ at + x < q + n /\ x \in Nat /\ at + x \in Nat
  BY <1>2, <1>4
<1>6. QED  BY <1>1, <1>3, <1>5

(* The pair of samples that a place in the output belongs to. *)
LEMMA Halves ==
    ASSUME NEW i \in 1 .. 2 * Buffer
    PROVE \E x \in 0 .. Buffer - 1 : i = 2 * x + 1 \/ i = 2 * x + 2
<1>1. PICK n \in Nat : n = Buffer  BY PhasesAre
<1>2. i \in Nat /\ 1 <= i /\ i <= 2 * n  BY <1>1
<1>3. PICK x \in Int, r \in 0 .. 1 : i - 1 = 2 * x + r
  <2>1. i - 1 \in Int /\ 2 \in Nat \ {0}  BY <1>2
  <2>2. (i - 1) % 2 \in 0 .. 2 - 1 /\ i - 1 = 2 * ((i - 1) \div 2) + ((i - 1) % 2)
        /\ (i - 1) \div 2 \in Int
    BY <1>2
  <2>3. QED  BY <2>2
<1>4. x \in 0 .. n - 1  BY <1>2, <1>3
<1>5. i = 2 * x + 1 \/ i = 2 * x + 2  BY <1>2, <1>3
<1>6. QED  BY <1>1, <1>4, <1>5

(* Which channel a place in the output belongs to, and which sample. *)
LEMMA OddEven ==
    ASSUME NEW x \in Nat
    PROVE /\ (2 * x + 1) % 2 = 1 /\ (2 * x + 2) % 2 = 0
          /\ (2 * x + 1) \div 2 = x /\ (2 * x + 2) \div 2 = x + 1
          /\ (2 * x + 1 + 1) \div 2 = x + 1 /\ (2 * x + 2 + 1) \div 2 = x + 1
OBVIOUS

(* The start of a list: all buses are cleared. *)
LEMMA StartRun ==
    ASSUME NEW a \in Machine
    PROVE \E d : /\ Run(<<[op |-> "CLEARBUFF", dst |-> DryL, n |-> 4 * Buffer]>>, a, d)
                 /\ d \in Machine /\ d.dram = a.dram /\ Mix(d.dmem, Zeros(2 * Buffer))
<1>1. PICK c : c = [op |-> "CLEARBUFF", dst |-> DryL, n |-> 4 * Buffer]  OBVIOUS
<1>2. PICK l \in Nat, m \in Nat \ {0}, n \in Nat, q \in Nat, dry \in Nat :
          l = Lanes /\ m = Vectors /\ n = Buffer /\ n = l * m /\ q = WetR /\ dry = DryL
  <2>1. {Lanes, Vectors, Buffer} \subseteq Nat \ {0} /\ Buffer = Lanes * Vectors  BY Sizes
  <2>2. {WetR, DryL} \subseteq Nat  BY BuffersAre
  <2>3. QED  BY <2>1, <2>2
<1>3. PICK k \in Nat \ {0}, j \in Nat : k = 4 * m /\ j = 4 * n /\ j = l * k
  <2>1. 4 * m \in Nat \ {0} /\ 4 * n \in Nat  OBVIOUS
  <2>2. 4 * n = l * (4 * m)  BY <1>2
  <2>3. QED  BY <2>1, <2>2
<1>4. InVectors(c.n) = k
  <2>1. InVectors(Lanes * k) = k  BY VectorsIn
  <2>2. c.n = Lanes * k  BY <1>1, <1>2, <1>3
  <2>3. QED  BY <2>1, <2>2
<1>5. PICK s : s = Zeros(j)  OBVIOUS
<1>6. s \in Numbers(j) /\ \A i \in 1 .. j : s[i] = 0  BY <1>5, ZerosAre
<1>7. PICK old \in Memory : old = a.dmem  BY MachineIs
<1>8. PICK mem : mem = Put(old, dry, s)  OBVIOUS
<1>9. /\ mem \in Memory
      /\ \A x \in Cells : mem[x] = IF dry <= x /\ x < dry + j THEN s[x - dry + 1] ELSE old[x]
  <2>1. /\ Put(old, dry, s) \in Memory
        /\ \A x \in Cells : Put(old, dry, s)[x] =
                               IF dry <= x /\ x < dry + j THEN s[x - dry + 1] ELSE old[x]
    BY <1>6, PutIs
  <2>2. QED  BY <1>8, <2>1
<1>10. q + n = dry + j
  <2>1. DryR = DryL + Buffer /\ WetL = DryR + Buffer /\ WetR = WetL + Buffer  BY Sizes
  <2>2. {DryR, WetL} \subseteq Nat  BY BuffersAre
  <2>3. PICK u \in Nat, w \in Nat : u = DryR /\ w = WetL  BY <2>2
  <2>4. u = dry + n /\ w = u + n /\ q = w + n  BY <1>2, <2>1, <2>3
  <2>5. QED  BY <1>3, <2>4
<1>11. ASSUME NEW bus \in Buses, NEW x \in 0 .. n - 1 PROVE mem[bus + x] = 0
  <2>1. PICK y \in Nat : y = bus + x /\ y \in Cells /\ dry <= y /\ y < q + n
    <3>1. bus + x \in Cells /\ DryL <= bus + x /\ bus + x < WetR + Buffer /\ bus + x \in Nat
      BY <1>2, InBus
    <3>2. QED  BY <1>2, <3>1
  <2>2. mem[y] = s[y - dry + 1] /\ y - dry + 1 \in 1 .. j  BY <1>9, <1>10, <2>1
  <2>3. QED  BY <1>6, <2>1, <2>2
<1>12. PICK w : w = Zeros(2 * Buffer)  OBVIOUS
<1>13. w \in Numbers(2 * Buffer) /\ \A i \in 1 .. 2 * Buffer : w[i] = 0
  <2>1. 2 * Buffer \in Nat  BY <1>2
  <2>2. QED  BY <1>12, <2>1, ZerosAre
<1>14. ASSUME NEW x \in 0 .. Buffer - 1
       PROVE /\ w[2 * x + 1] = mem[DryL + x] + Gain * mem[WetL + x]
             /\ w[2 * x + 2] = mem[DryR + x] + Gain * mem[WetR + x]
  <2>1. x \in 0 .. n - 1  BY <1>2
  <2>2. mem[DryL + x] = 0 /\ mem[WetL + x] = 0 /\ mem[DryR + x] = 0 /\ mem[WetR + x] = 0
    BY <1>11, <2>1, BusesDiffer
  <2>3. 2 * x + 1 \in 1 .. 2 * Buffer /\ 2 * x + 2 \in 1 .. 2 * Buffer  BY <1>2
  <2>4. w[2 * x + 1] = 0 /\ w[2 * x + 2] = 0  BY <1>13, <2>3
  <2>5. Gain * 0 = 0
    <3>1. Gain \in Int  BY HandlerAssumption
    <3>2. QED  BY <3>1
  <2>6. QED  BY <2>2, <2>4, <2>5
<1>15. Mix(mem, w)  BY <1>9, <1>13, <1>14 DEF Mix
<1>16. PICK d : d = [a EXCEPT !.dmem = mem]  OBVIOUS
<1>17. d \in Machine /\ d.dmem = mem /\ d.dram = a.dram  BY <1>9, <1>16, WithMemory
<1>18. Handled(c, a, d)
  <2>1. mem = Put(a.dmem, c.dst, Zeros(Lanes * InVectors(c.n)))
    <3>1. Lanes * InVectors(c.n) = j  BY <1>2, <1>3, <1>4
    <3>2. c.dst = dry  BY <1>1, <1>2
    <3>3. QED  BY <1>5, <1>7, <1>8, <3>1, <3>2
  <2>2. c.op = "CLEARBUFF"  BY <1>1
  <2>3. QED  BY <1>16, <2>1, <2>2 DEF Handled, L_119C
<1>19. Run(<<c>>, a, d)  BY <1>17, <1>18, RunOne
<1>20. QED  BY <1>1, <1>12, <1>15, <1>17, <1>19

(* What a voice adds to the output. *)
Wanted(w, v, s, pitch) ==
    [i \in 1 .. 2 * Buffer |->
        LET k == (i + 1) \div 2
            x == Heard(v, s.place + (k - 1) * pitch)
            y == IF i % 2 = 1 THEN RampedLeft(s.ramp, s.since + k)
                 ELSE RampedRight(s.ramp, s.since + k)
        IN w[i] + x * y * s.ramp.dry + Gain * x * y * s.ramp.wet]

(* The places of a sample's two channels in the output. *)
LEMMA WantedAt ==
    ASSUME NEW w, NEW v, NEW s, NEW pitch, s.since \in Nat, NEW x \in 0 .. Buffer - 1,
           NEW u, u = Wanted(w, v, s, pitch)
    PROVE /\ u[2 * x + 1] = w[2 * x + 1]
                 + Heard(v, s.place + x * pitch) * RampedLeft(s.ramp, s.since + x + 1) * s.ramp.dry
                 + Gain * Heard(v, s.place + x * pitch)
                        * RampedLeft(s.ramp, s.since + x + 1) * s.ramp.wet
          /\ u[2 * x + 2] = w[2 * x + 2]
                 + Heard(v, s.place + x * pitch) * RampedRight(s.ramp, s.since + x + 1) * s.ramp.dry
                 + Gain * Heard(v, s.place + x * pitch)
                        * RampedRight(s.ramp, s.since + x + 1) * s.ramp.wet
<1>1. PICK n \in Nat : n = Buffer  BY PhasesAre
<1>2. x \in Nat /\ 2 * x + 1 \in 1 .. 2 * Buffer /\ 2 * x + 2 \in 1 .. 2 * Buffer  BY <1>1
<1>3. PICK p \in Nat, q \in Nat : p = 2 * x + 1 /\ q = 2 * x + 2
  BY <1>2
<1>4. /\ p % 2 = 1 /\ q % 2 # 1 /\ (p + 1) \div 2 = x + 1 /\ (q + 1) \div 2 = x + 1
  <2>1. (2 * x + 1) % 2 = 1 /\ (2 * x + 2) % 2 = 0  BY <1>2, OddEven
  <2>2. (2 * x + 1 + 1) \div 2 = x + 1 /\ (2 * x + 2 + 1) \div 2 = x + 1  BY <1>2, OddEven
  <2>3. QED  BY <1>3, <2>1, <2>2
<1>5. PICK k \in Nat : k = x + 1  BY <1>2
<1>6. k - 1 = x /\ s.since + k = s.since + x + 1  BY <1>2, <1>5
<1>7. p \in 1 .. 2 * Buffer /\ q \in 1 .. 2 * Buffer  BY <1>2, <1>3
<1>8. /\ u[p] = w[p] + Heard(v, s.place + x * pitch) * RampedLeft(s.ramp, s.since + x + 1) * s.ramp.dry
                 + Gain * Heard(v, s.place + x * pitch)
                        * RampedLeft(s.ramp, s.since + x + 1) * s.ramp.wet
      /\ u[q] = w[q] + Heard(v, s.place + x * pitch) * RampedRight(s.ramp, s.since + x + 1) * s.ramp.dry
                 + Gain * Heard(v, s.place + x * pitch)
                        * RampedRight(s.ramp, s.since + x + 1) * s.ramp.wet
  <2>1. (p + 1) \div 2 = k /\ (q + 1) \div 2 = k  BY <1>4, <1>5
  <2>2. /\ u[p] = w[p] + Heard(v, s.place + (k - 1) * pitch) * RampedLeft(s.ramp, s.since + k) * s.ramp.dry
                 + Gain * Heard(v, s.place + (k - 1) * pitch)
                        * RampedLeft(s.ramp, s.since + k) * s.ramp.wet
    BY <1>4, <1>7, <2>1, Zenon DEF Wanted
  <2>3. /\ u[q] = w[q] + Heard(v, s.place + (k - 1) * pitch) * RampedRight(s.ramp, s.since + k) * s.ramp.dry
                 + Gain * Heard(v, s.place + (k - 1) * pitch)
                        * RampedRight(s.ramp, s.since + k) * s.ramp.wet
    BY <1>4, <1>7, <2>1, Zenon DEF Wanted
  <2>4. QED  BY <1>6, <2>2, <2>3, Zenon
<1>9. QED  BY <1>3, <1>8, Zenon

(* The arithmetic of one sample: what is added on the buses is added to    *)
(* the output.                                                             *)
LEMMA AddsUp ==
    ASSUME NEW d \in Int, NEW e \in Int, NEW g \in Int, NEW h \in Int, NEW y \in Int,
           NEW m \in Int, NEW n \in Int
    PROVE (d + g * e) + h * y * m + g * h * y * n = (d + h * y * m) + g * (e + h * y * n)
<1>1. PICK z \in Int : z = h * y  OBVIOUS
<1>2. PICK t \in Int : t = z * n  OBVIOUS
<1>3. g * h * y * n = g * t
  <2>1. g * h * y = g * z  BY <1>1
  <2>2. g * z * n = g * t  BY <1>2
  <2>3. QED  BY <2>1, <2>2
<1>4. g * (e + t) = g * e + g * t  OBVIOUS
<1>5. h * y * n = t  BY <1>1, <1>2
<1>6. PICK a \in Int, b \in Int, k \in Int : a = g * e /\ b = g * t /\ k = h * y * m  OBVIOUS
<1>7. (d + a) + k + b = (d + k) + (a + b)  OBVIOUS
<1>8. QED  BY <1>3, <1>4, <1>5, <1>6, <1>7

(* The buses that a voice was mixed to come to the output with the voice. *)
LEMMA WantedOn ==
    ASSUME NEW mem, NEW w, NEW now \in Memory, NEW v \in Voices, NEW s, Placed(s),
           NEW pitch \in Pitches[v], Mix(mem, w), Sounds(mem, now, v, s, pitch)
    PROVE Mix(now, Wanted(w, v, s, pitch))
<1>1. PICK u : u = Wanted(w, v, s, pitch)  OBVIOUS
<1>2. s.since \in Nat /\ s.ramp \in Ramps /\ s.place \in Nat  BY DEF Placed, Ahead
<1>3. pitch \in Nat /\ Gain \in Int  BY HandlerAssumption
<1>4. PICK n \in Nat : n = Buffer  BY PhasesAre
<1>5. PICK dry \in Int, wet \in Int : dry = s.ramp.dry /\ wet = s.ramp.wet  BY <1>2 DEF Ramps
<1>6. w \in [1 .. 2 * Buffer -> Int]  BY DEF Mix, Numbers
<1>7. ASSUME NEW x \in 0 .. Buffer - 1
      PROVE /\ u[2 * x + 1] = now[DryL + x] + Gain * now[WetL + x]
            /\ u[2 * x + 2] = now[DryR + x] + Gain * now[WetR + x]
            /\ u[2 * x + 1] \in Int /\ u[2 * x + 2] \in Int
  <2>1. x \in Nat  BY <1>4
  <2>2. PICK h \in Int : h = Heard(v, s.place + x * pitch)
    <3>1. s.place + x * pitch \in Nat  BY <1>2, <1>3, <2>1
    <3>2. QED  BY <3>1, HeardTyped
  <2>3. PICK y \in Int, z \in Int : y = RampedLeft(s.ramp, s.since + x + 1)
                                    /\ z = RampedRight(s.ramp, s.since + x + 1)
    <3>1. s.since + x + 1 \in Int  BY <1>2, <2>1
    <3>2. QED  BY <1>2, <3>1, RampGoesOn
  <2>4. PICK d \in Int, e \in Int : d = mem[DryL + x] /\ e = mem[WetL + x]
    <3>1. DryL + x \in Cells /\ WetL + x \in Cells  BY BusesDiffer, InBus
    <3>2. QED  BY <3>1 DEF Mix, Memory
  <2>5. PICK f \in Int, g \in Int : f = mem[DryR + x] /\ g = mem[WetR + x]
    <3>1. DryR + x \in Cells /\ WetR + x \in Cells  BY BusesDiffer, InBus
    <3>2. QED  BY <3>1 DEF Mix, Memory
  <2>6. PICK gain \in Int : gain = Gain  BY <1>3
  <2>7. /\ now[DryL + x] = d + h * y * dry /\ now[WetL + x] = e + h * y * wet
        /\ now[DryR + x] = f + h * z * dry /\ now[WetR + x] = g + h * z * wet
    BY <1>5, <2>2, <2>3, <2>4, <2>5, Zenon DEF Sounds
  <2>8. w[2 * x + 1] = d + gain * e /\ w[2 * x + 2] = f + gain * g
    BY <2>4, <2>5, <2>6, Zenon DEF Mix
  <2>9. /\ u[2 * x + 1] = w[2 * x + 1] + h * y * dry + gain * h * y * wet
        /\ u[2 * x + 2] = w[2 * x + 2] + h * z * dry + gain * h * z * wet
    <3>1. /\ u[2 * x + 1] = w[2 * x + 1]
                 + Heard(v, s.place + x * pitch) * RampedLeft(s.ramp, s.since + x + 1) * s.ramp.dry
                 + Gain * Heard(v, s.place + x * pitch)
                        * RampedLeft(s.ramp, s.since + x + 1) * s.ramp.wet
          /\ u[2 * x + 2] = w[2 * x + 2]
                 + Heard(v, s.place + x * pitch) * RampedRight(s.ramp, s.since + x + 1) * s.ramp.dry
                 + Gain * Heard(v, s.place + x * pitch)
                        * RampedRight(s.ramp, s.since + x + 1) * s.ramp.wet
      BY <1>1, <1>2, WantedAt
    <3>2. QED  BY <1>5, <2>2, <2>3, <2>6, <3>1, Zenon
  <2>10. /\ (d + gain * e) + h * y * dry + gain * h * y * wet
            = (d + h * y * dry) + gain * (e + h * y * wet)
         /\ (f + gain * g) + h * z * dry + gain * h * z * wet
            = (f + h * z * dry) + gain * (g + h * z * wet)
    BY AddsUp
  <2>11. /\ u[2 * x + 1] = now[DryL + x] + gain * now[WetL + x]
         /\ u[2 * x + 2] = now[DryR + x] + gain * now[WetR + x]
    BY <2>7, <2>8, <2>9, <2>10, Zenon
  <2>12. /\ (d + h * y * dry) + gain * (e + h * y * wet) \in Int
         /\ (f + h * z * dry) + gain * (g + h * z * wet) \in Int
    OBVIOUS
  <2>13. QED  BY <2>6, <2>7, <2>11, <2>12, Zenon
<1>8. u \in Numbers(2 * Buffer)
  <2>1. \A i \in 1 .. 2 * Buffer : u[i] \in Int
    <3>1. SUFFICES ASSUME NEW i \in 1 .. 2 * Buffer PROVE u[i] \in Int  OBVIOUS
    <3>2. PICK x \in 0 .. Buffer - 1 : i = 2 * x + 1 \/ i = 2 * x + 2  BY Halves
    <3>3. u[2 * x + 1] \in Int /\ u[2 * x + 2] \in Int  BY <1>7
    <3>4. QED  BY <3>2, <3>3
  <2>2. PICK m : m = 2 * Buffer  OBVIOUS
  <2>3. u = [i \in 1 .. m |-> u[i]]  BY <1>1, <2>2 DEF Wanted
  <2>4. QED  BY <2>1, <2>2, <2>3 DEF Numbers
<1>9. Mix(now, u)  BY <1>7, <1>8 DEF Mix
<1>10. QED  BY <1>1, <1>9

(* Two buses do not meet. *)
LEMMA Apart ==
    ASSUME NEW bus \in Buses, NEW other \in Buses, other # bus
    PROVE bus + Buffer <= other \/ other + Buffer <= bus
<1>1. PICK w \in Nat, x \in Nat, y \in Nat, z \in Nat, b \in Nat :
          w = DryL /\ x = DryR /\ y = WetL /\ z = WetR /\ b = Buffer
  BY BuffersAre
<1>2. w + b <= x /\ x + b <= y /\ y + b <= z  BY <1>1, BuffersAre
<1>3. bus \in {w, x, y, z} /\ other \in {w, x, y, z}  BY <1>1 DEF Buses
<1>4. QED  BY <1>1, <1>2, <1>3

(* One bus was mixed to another. *)
ToBus(mem, now, dst, src) ==
    /\ now \in Memory
    /\ \A x \in 0 .. Buffer - 1 :
          /\ now[dst + x] = mem[dst + x] + Gain * mem[src + x]
          /\ \A o \in Buses : o # dst => now[o + x] = mem[o + x]

(* MIXER. *)
LEMMA MixerRun ==
    ASSUME NEW a \in Machine, NEW dst \in Buses, NEW src \in Buses,
           NEW c, c = [op |-> "MIXER", dst |-> dst, src |-> src, gain |-> Gain]
    PROVE \E d : /\ Run(<<c>>, a, d) /\ d \in Machine /\ d.dram = a.dram
                 /\ ToBus(a.dmem, d.dmem, dst, src)
<1>1. PICK n \in Nat : n = Buffer  BY PhasesAre
<1>2. PICK old \in Memory : old = a.dmem  BY MachineIs
<1>3. PICK p \in Nat, q \in Nat : p = dst /\ q = src  BY BusIs
<1>4. Gain \in Int  BY HandlerAssumption
<1>5. PICK s : s = [i \in 1 .. Buffer |-> old[dst + i - 1] + Gain * old[src + i - 1]]  OBVIOUS
<1>6. /\ s \in Numbers(n)
      /\ \A x \in 0 .. n - 1 : s[x + 1] = old[p + x] + Gain * old[q + x]
  <2>1. \A x \in 0 .. n - 1 : p + x \in Cells /\ q + x \in Cells  BY <1>1, <1>3, InBus
  <2>2. \A x \in 0 .. n - 1 : old[p + x] \in Int /\ old[q + x] \in Int  BY <2>1 DEF Memory
  <2>3. s = [i \in 1 .. n |-> old[p + i - 1] + Gain * old[q + i - 1]]  BY <1>1, <1>3, <1>5
  <2>4. ASSUME NEW i \in 1 .. n PROVE s[i] \in Int
    <3>1. i - 1 \in 0 .. n - 1 /\ p + i - 1 = p + (i - 1) /\ q + i - 1 = q + (i - 1)  OBVIOUS
    <3>2. PICK d \in Int, e \in Int : d = old[p + i - 1] /\ e = old[q + i - 1]  BY <2>2, <3>1
    <3>3. s[i] = d + Gain * e  BY <2>3, <3>2
    <3>4. QED  BY <1>4, <3>3
  <2>5. s \in Numbers(n)  BY <2>3, <2>4 DEF Numbers
  <2>6. ASSUME NEW x \in 0 .. n - 1 PROVE s[x + 1] = old[p + x] + Gain * old[q + x]  BY <2>3
  <2>7. QED  BY <2>5, <2>6
<1>7. PICK mem : mem = Put(old, p, s)  OBVIOUS
<1>8. /\ mem \in Memory
      /\ \A x \in Cells : mem[x] = IF p <= x /\ x < p + n THEN s[x - p + 1] ELSE old[x]
  BY <1>6, <1>7, PutIs
<1>9. ToBus(old, mem, dst, src)
  <2>1. ASSUME NEW x \in 0 .. n - 1 PROVE mem[p + x] = old[p + x] + Gain * old[q + x]
    BY <1>1, <1>3, <1>6, <1>8, InBus
  <2>2. ASSUME NEW x \in 0 .. n - 1, NEW o \in Buses, o # dst PROVE mem[o + x] = old[o + x]
    BY <1>1, <1>3, <1>8, <2>2, BusIs, Apart, InBus
  <2>3. QED  BY <1>1, <1>3, <1>8, <2>1, <2>2 DEF ToBus
<1>10. PICK d : d = [a EXCEPT !.dmem = mem]  OBVIOUS
<1>11. d \in Machine /\ d.dmem = mem /\ d.dram = a.dram  BY <1>8, <1>10, WithMemory
<1>12. Handled(c, a, d)
  <2>1. c.op = "MIXER" /\ c.dst = dst /\ c.src = src /\ c.gain = Gain  OBVIOUS
  <2>2. L_1C84(a, c) = [a EXCEPT !.dmem = Put(a.dmem, dst, s)]
    BY <1>2, <1>5, <2>1, Zenon DEF L_1C84
  <2>3. d = L_1C84(a, c)  BY <1>2, <1>3, <1>7, <1>10, <2>2, Zenon
  <2>4. QED  BY <2>1, <2>3 DEF Handled
<1>13. Run(<<c>>, a, d)  BY <1>11, <1>12, RunOne
<1>14. QED  BY <1>2, <1>9, <1>11, <1>13

(* The dry buses, one sample of either in turn. *)
Interleaved(mem, w) ==
    /\ mem \in Memory /\ w \in Numbers(2 * Buffer)
    /\ \A x \in 0 .. Buffer - 1 : w[2 * x + 1] = mem[DryL + x] /\ w[2 * x + 2] = mem[DryR + x]

(* INTERLEAVE leaves the output where SAVEBUFF reads it. *)
LEMMA InterleaveRun ==
    ASSUME NEW a \in Machine, NEW w, Interleaved(a.dmem, w), NEW c, c.op = "INTERLEAVE"
    PROVE \E d : /\ Run(<<c>>, a, d) /\ d \in Machine /\ d.dram = a.dram
                 /\ Window(d.dmem, Main, 2 * Buffer) = w
<1>1. PICK n \in Nat, e \in Nat, m \in Nat :
          n = Buffer /\ e = WetR /\ n + n <= e + n /\ m = 2 * n
  BY BuffersAre
<1>2. PICK old \in Memory : old = a.dmem  BY MachineIs
<1>3. w \in Numbers(m)  BY <1>1 DEF Interleaved
<1>4. PICK s : s = [i \in 1 .. 2 * Buffer |->
                       IF i % 2 = 1 THEN old[DryL + i \div 2] ELSE old[DryR + i \div 2 - 1]]
  OBVIOUS
<1>5. ASSUME NEW i \in 1 .. 2 * Buffer PROVE s[i] = w[i]
  <2>1. PICK x \in 0 .. Buffer - 1 : i = 2 * x + 1 \/ i = 2 * x + 2  BY Halves
  <2>2. x \in Nat  BY <1>1
  <2>3. PICK p \in Nat, q \in Nat : p = DryL /\ q = DryR  BY BuffersAre
  <2>4. CASE i = 2 * x + 1
    <3>1. i % 2 = 1 /\ i \div 2 = x  BY <2>2, <2>4, OddEven
    <3>2. s[i] = old[DryL + x]  BY <1>4, <3>1, Zenon
    <3>3. QED  BY <1>2, <2>4, <3>2 DEF Interleaved
  <2>5. CASE i = 2 * x + 2
    <3>1. i % 2 = 0 /\ i \div 2 = x + 1  BY <2>2, <2>5, OddEven
    <3>2. i % 2 # 1  BY <3>1
    <3>3. s[i] = old[DryR + (x + 1) - 1]  BY <1>4, <3>1, <3>2, Zenon
    <3>4. DryR + (x + 1) - 1 = DryR + x  BY <2>2, <2>3
    <3>5. QED  BY <1>2, <2>5, <3>3, <3>4 DEF Interleaved
  <2>6. QED  BY <2>1, <2>4, <2>5
<1>6. s = w  BY <1>1, <1>3, <1>4, <1>5 DEF Numbers
<1>7. PICK mem : mem = Put(old, 0, w)  OBVIOUS
<1>8. /\ mem \in Memory
      /\ \A x \in Cells : mem[x] = IF 0 <= x /\ x < 0 + m THEN w[x - 0 + 1] ELSE old[x]
  <2>1. 0 \in Int  OBVIOUS
  <2>2. /\ Put(old, 0, w) \in Memory
        /\ \A x \in Cells : Put(old, 0, w)[x] =
                               IF 0 <= x /\ x < 0 + m THEN w[x - 0 + 1] ELSE old[x]
    BY <1>3, <2>1, PutIs
  <2>3. QED  BY <1>7, <2>2
<1>9. Main = 0  BY Sizes
<1>10. Window(mem, Main, 2 * Buffer) = w
  <2>1. PICK t : t = Window(mem, 0, m)  OBVIOUS
  <2>2. t \in Numbers(m) /\ \A i \in 1 .. m : t[i] = mem[0 + i - 1]  BY <1>1, <1>8, <2>1, WindowIs
  <2>3. ASSUME NEW i \in 1 .. m PROVE t[i] = w[i]
    <3>1. Cells = 0 .. e + n - 1  BY <1>1, BuffersAre
    <3>2. PICK x \in Nat : x = i - 1 /\ x \in Cells /\ 0 <= x /\ x < 0 + m /\ x - 0 + 1 = i
      BY <1>1, <3>1
    <3>3. mem[x] = w[i]  BY <1>8, <3>2
    <3>4. 0 + i - 1 = x  BY <3>2
    <3>5. QED  BY <2>2, <3>3, <3>4
  <2>4. t = w  BY <1>3, <2>2, <2>3, NumbersSame
  <2>5. QED  BY <1>1, <1>9, <2>1, <2>4
<1>11. PICK d : d = [a EXCEPT !.dmem = mem]  OBVIOUS
<1>12. d \in Machine /\ d.dmem = mem /\ d.dram = a.dram  BY <1>8, <1>11, WithMemory
<1>13. Handled(c, a, d)
  <2>1. c.op = "INTERLEAVE"  OBVIOUS
  <2>2. L_12D4(a, c) = [a EXCEPT !.dmem = Put(a.dmem, Main, s)]  BY <1>2, <1>4, Zenon DEF L_12D4
  <2>3. d = L_12D4(a, c)  BY <1>2, <1>6, <1>7, <1>9, <1>11, <2>2, Zenon
  <2>4. QED  BY <2>1, <2>3 DEF Handled
<1>14. Run(<<c>>, a, d)  BY <1>12, <1>13, RunOne
<1>15. QED  BY <1>10, <1>12, <1>14

(* What is saved of the buffers. *)
LEMMA SaveRun ==
    ASSUME NEW a \in Machine, NEW w, w \in Numbers(2 * Buffer),
           Window(a.dmem, Main, 2 * Buffer) = w,
           NEW c, c = [op |-> "SAVEBUFF", addr |-> <<"out">>, src |-> Main, n |-> 2 * Buffer]
    PROVE \E d : /\ Run(<<c>>, a, d) /\ d \in Machine /\ d.dmem = a.dmem
                 /\ d.dram = Stored(a.dram, <<"out">>, w)
<1>1. PICK m \in Nat : m = 2 * Buffer /\ m # 0
  <2>1. Buffer \in Nat \ {0}  BY Sizes
  <2>2. 2 * Buffer \in Nat /\ 2 * Buffer # 0  BY <2>1
  <2>3. QED  BY <2>2
<1>2. PICK r : r = Stored(a.dram, <<"out">>, w)  OBVIOUS
<1>3. r \in [Blocks -> Seq(Int)]  BY <1>1, <1>2, MachineIs, BlocksAre, StoresIs DEF StoresOnly
<1>4. PICK d : d = [a EXCEPT !.dram = r]  OBVIOUS
<1>5. d \in Machine /\ d.dmem = a.dmem /\ d.dram = r  BY <1>3, <1>4 DEF Machine
<1>6. Handled(c, a, d)
  <2>1. c.op = "SAVEBUFF" /\ c.n = m /\ c.addr = <<"out">> /\ c.src = Main  BY <1>1
  <2>2. L_1208(a, c) = [a EXCEPT !.dram = [a.dram EXCEPT ![<<"out">>] = Window(a.dmem, Main, m)]]
    BY <1>1, <2>1, Zenon DEF L_1208
  <2>3. r = [a.dram EXCEPT ![<<"out">>] = Window(a.dmem, Main, m)]
    BY <1>1, <1>2, Zenon DEF Stored
  <2>4. d = L_1208(a, c)  BY <1>4, <2>2, <2>3, Zenon
  <2>5. QED  BY <2>1, <2>4 DEF Handled
<1>7. Run(<<c>>, a, d)  BY <1>5, <1>6, RunOne
<1>8. QED  BY <1>2, <1>5, <1>7

(* The commands at the end of a list. *)
Finish ==
    << [op |-> "MIXER", dst |-> DryL, src |-> WetL, gain |-> Gain],
       [op |-> "MIXER", dst |-> DryR, src |-> WetR, gain |-> Gain],
       [op |-> "INTERLEAVE"],
       [op |-> "SAVEBUFF", addr |-> <<"out">>, src |-> Main, n |-> 2 * Buffer] >>

(* What is left in the dry buses is the output. *)
LEMMA MixIs ==
    ASSUME NEW mem, NEW w, Mix(mem, w), NEW m, ToBus(mem, m, DryL, WetL),
           NEW now, ToBus(m, now, DryR, WetR)
    PROVE Interleaved(now, w)
<1>1. ASSUME NEW x \in 0 .. Buffer - 1
      PROVE w[2 * x + 1] = now[DryL + x] /\ w[2 * x + 2] = now[DryR + x]
  <2>1. /\ m[DryL + x] = mem[DryL + x] + Gain * mem[WetL + x]
        /\ m[DryR + x] = mem[DryR + x] /\ m[WetR + x] = mem[WetR + x]
    BY BusesDiffer DEF ToBus
  <2>2. /\ now[DryR + x] = m[DryR + x] + Gain * m[WetR + x]
        /\ now[DryL + x] = m[DryL + x]
    BY BusesDiffer DEF ToBus
  <2>3. /\ w[2 * x + 1] = mem[DryL + x] + Gain * mem[WetL + x]
        /\ w[2 * x + 2] = mem[DryR + x] + Gain * mem[WetR + x]
    BY DEF Mix
  <2>4. QED  BY <2>1, <2>2, <2>3, Zenon
<1>2. QED  BY <1>1 DEF Interleaved, ToBus, Mix

(* The end of a list: the output block gets the mix, no other is written. *)
Finishes(a, d, w) ==
    /\ d \in Machine /\ d.dram[<<"out">>] = w
    /\ \A b \in Blocks : b # <<"out">> => d.dram[b] = a.dram[b]

(* The commands at the end of a list save the mix. *)
LEMMA FinishRun ==
    ASSUME NEW a \in Machine, NEW w, Mix(a.dmem, w)
    PROVE \E d : Run(Finish, a, d) /\ Finishes(a, d, w)
<1>1. PICK c : c = [op |-> "MIXER", dst |-> DryL, src |-> WetL, gain |-> Gain]  OBVIOUS
<1>2. PICK e : e = [op |-> "MIXER", dst |-> DryR, src |-> WetR, gain |-> Gain]  OBVIOUS
<1>3. PICK f : f = [op |-> "INTERLEAVE"]  OBVIOUS
<1>4. PICK g : g = [op |-> "SAVEBUFF", addr |-> <<"out">>, src |-> Main, n |-> 2 * Buffer]  OBVIOUS
<1>5. PICK x : /\ Run(<<c>>, a, x) /\ x \in Machine /\ x.dram = a.dram
               /\ ToBus(a.dmem, x.dmem, DryL, WetL)
  BY <1>1, BusesDiffer, MixerRun
<1>6. PICK y : /\ Run(<<e>>, x, y) /\ y \in Machine /\ y.dram = x.dram
               /\ ToBus(x.dmem, y.dmem, DryR, WetR)
  BY <1>2, <1>5, BusesDiffer, MixerRun
<1>7. Interleaved(y.dmem, w)  BY <1>5, <1>6, MixIs
<1>8. PICK z : /\ Run(<<f>>, y, z) /\ z \in Machine /\ z.dram = y.dram
               /\ Window(z.dmem, Main, 2 * Buffer) = w
  <2>1. f.op = "INTERLEAVE"  BY <1>3
  <2>2. QED  BY <1>6, <1>7, <2>1, InterleaveRun
<1>9. w \in Numbers(2 * Buffer)  BY DEF Mix
<1>10. PICK d : /\ Run(<<g>>, z, d) /\ d \in Machine /\ d.dmem = z.dmem
                /\ d.dram = Stored(z.dram, <<"out">>, w)
  BY <1>4, <1>8, <1>9, SaveRun
<1>11. Run(<<c, e, f, g>>, a, d)  BY <1>5, <1>6, <1>8, <1>10, RunFour
<1>12. Finishes(a, d, w)
  <2>1. PICK m \in Nat : m = 2 * Buffer
    <3>1. Buffer \in Nat  BY Sizes
    <3>2. 2 * Buffer \in Nat  BY <3>1
    <3>3. QED  BY <3>2
  <2>2. z.dram \in [Blocks -> Seq(Int)] /\ <<"out">> \in Blocks  BY <1>8, MachineIs, BlocksAre
  <2>3. StoresOnly(z.dram, Stored(z.dram, <<"out">>, w), <<"out">>, w)
    BY <1>9, <2>1, <2>2, StoresIs
  <2>4. z.dram = a.dram  BY <1>5, <1>6, <1>8
  <2>5. QED  BY <1>10, <2>3, <2>4 DEF Finishes, StoresOnly
<1>13. Finish = <<c, e, f, g>>  BY <1>1, <1>2, <1>3, <1>4 DEF Finish
<1>14. QED  BY <1>11, <1>12, <1>13

-----------------------------------------------------------------------------
(* The commands of one voice, whatever they find: they keep every shape,   *)
(* and touch no block of another voice.                                    *)

(* The blocks hold what the commands of their kind expect. *)
Shaped(a) == a \in Machine /\ \A b \in Blocks : a.dram[b] \in Shape(b)

(* The shapes of a voice's blocks. *)
LEMMA ShapesAre ==
    ASSUME NEW v \in Voices
    PROVE /\ Shape(<<"rom", v>>) = Numbers(Len(Rom[v]))
          /\ Shape(<<"book", v>>) = Numbers(Frame + Frame)
          /\ Shape(<<"loop", v>>) = Numbers(Frame) /\ Shape(<<"adpcm", v>>) = Numbers(Frame)
          /\ Shape(<<"resample", v>>) = {s \in Numbers(Taps + 1) : s[Taps + 1] \in 0 .. Phases - 1}
          /\ Shape(<<"env", v>>) = Numbers(Frame + 6)
<1>1. PICK x \in Blocks : x = <<"rom", v>> /\ x[1] = "rom" /\ x[2] = v  BY BlocksAre
<1>2. PICK y \in Blocks : y = <<"book", v>> /\ y[1] = "book"  BY BlocksAre
<1>3. PICK z \in Blocks : z = <<"loop", v>> /\ z[1] = "loop"  BY BlocksAre
<1>4. PICK u \in Blocks : u = <<"adpcm", v>> /\ u[1] = "adpcm"  BY BlocksAre
<1>5. PICK w \in Blocks : w = <<"resample", v>> /\ w[1] = "resample"  BY BlocksAre
<1>6. PICK e \in Blocks : e = <<"env", v>> /\ e[1] = "env"  BY BlocksAre
<1>7. Frame + Frame = 2 * Frame  BY LanesAre
<1>8. Shape(x) = Numbers(Len(Rom[v]))  BY <1>1 DEF Shape
<1>9. Shape(y) = Numbers(Frame + Frame)  BY <1>2, <1>7 DEF Shape
<1>10. Shape(z) = Numbers(Frame) /\ Shape(u) = Numbers(Frame)  BY <1>3, <1>4 DEF Shape
<1>11. Shape(w) = {s \in Numbers(Taps + 1) : s[Taps + 1] \in 0 .. Phases - 1}  BY <1>5 DEF Shape
<1>12. Shape(e) = Numbers(Frame + 6)  BY <1>6 DEF Shape
<1>13. QED  BY <1>1, <1>2, <1>3, <1>4, <1>5, <1>6, <1>8, <1>9, <1>10, <1>11, <1>12

(* A shape is one of sequences of numbers. *)
LEMMA ShapeIsSeq ==
    ASSUME NEW b \in Blocks, NEW s \in Shape(b)
    PROVE \E n \in Nat : s \in Numbers(n)
<1>1. CASE b = <<"out">>
  <2>1. PICK o \in Blocks : o = <<"out">> /\ o[1] = "out"  BY BlocksAre
  <2>2. Shape(o) = Seq(Int)  BY <2>1 DEF Shape
  <2>3. s \in Seq(Int)  BY <1>1, <2>1, <2>2
  <2>4. QED  BY <2>3, SeqIs
<1>2. ASSUME NEW v \in Voices, b \in {<<"rom", v>>, <<"book", v>>, <<"loop", v>>, <<"adpcm", v>>,
                                      <<"resample", v>>, <<"env", v>>}
      PROVE \E n \in Nat : s \in Numbers(n)
  <2>1. PICK f \in Nat, t \in Nat, l \in Nat : f = Frame /\ t = Taps /\ l = Len(Rom[v])
    BY LanesAre, PhasesAre, RomIs
  <2>2. f + f \in Nat /\ t + 1 \in Nat /\ f + 6 \in Nat  OBVIOUS
  <2>3. \/ s \in Numbers(l) \/ s \in Numbers(f + f) \/ s \in Numbers(f) \/ s \in Numbers(t + 1)
        \/ s \in Numbers(f + 6)
    BY <1>2, <2>1, ShapesAre
  <2>4. QED  BY <2>2, <2>3
<1>3. QED  BY <1>1, <1>2 DEF Blocks

(* What commands of v leave: every block its shape, and those of others    *)
(* what they were.                                                         *)
Still(a, d, v) == Shaped(d) /\ OnlyOf(a, d, v) /\ d.book = a.book

(* One after the other. *)
LEMMA StillTwice ==
    ASSUME NEW a, NEW b, NEW d, NEW v, Still(a, b, v), Still(b, d, v)
    PROVE Still(a, d, v)
<1>1. Shaped(d) /\ d.book = a.book  BY DEF Still
<1>2. OnlyOf(a, b, v) /\ OnlyOf(b, d, v)  BY DEF Still
<1>3. OnlyOf(a, d, v)  BY <1>2 DEF OnlyOf
<1>4. QED  BY <1>1, <1>3 DEF Still

(* A command that writes no block. *)
LEMMA StillIs ==
    ASSUME NEW a, Shaped(a), NEW v, NEW d \in Machine, d.dram = a.dram, d.book = a.book
    PROVE Still(a, d, v)
BY DEF Still, Shaped, OnlyOf

(* One that stores a block of the voice. *)
LEMMA StillStored ==
    ASSUME NEW a, Shaped(a), NEW v \in Voices, NEW kind \in {"adpcm", "resample", "env"},
           NEW s \in Shape(<<kind, v>>), NEW d \in Machine,
           d.dram = Stored(a.dram, <<kind, v>>, s), d.book = a.book
    PROVE Still(a, d, v)
<1>1. PICK b \in Blocks : b = <<kind, v>>  BY BlocksAre
<1>2. a.dram \in [Blocks -> Seq(Int)]  BY MachineIs DEF Shaped
<1>3. PICK n \in Nat : s \in Numbers(n)  BY <1>1, ShapeIsSeq
<1>4. PICK r \in [Blocks -> Seq(Int)] : r = a.dram  BY <1>2
<1>5. Stored(r, b, s)[b] = s /\ \A o \in Blocks : o # b => Stored(r, b, s)[o] = r[o]
  BY <1>3, StoredIs
<1>6. d.dram = Stored(r, b, s)  BY <1>1, <1>4
<1>7. d.dram[b] = s /\ \A o \in Blocks : o # b => d.dram[o] = a.dram[o]
  BY <1>4, <1>5, <1>6
<1>8. ASSUME NEW o \in Blocks PROVE d.dram[o] \in Shape(o)
  <2>1. CASE o = b  BY <1>1, <1>7, <2>1
  <2>2. CASE o # b  BY <1>7, <2>2 DEF Shaped
  <2>3. QED  BY <2>1, <2>2
<1>9. b \in {<<"adpcm", v>>, <<"resample", v>>, <<"env", v>>}  BY <1>1
<1>10. OnlyOf(a, d, v)  BY <1>7, <1>9 DEF OnlyOf
<1>11. QED  BY <1>8, <1>10 DEF Still, Shaped

(* LOADBUFF. *)
LEMMA LoaderRun ==
    ASSUME NEW a, Shaped(a), NEW v \in Voices, NEW m \in Nat, NEW count \in Nat,
           m + count <= Len(Rom[v]), NEW c, c = Loader(v, m, count)
    PROVE \E mem \in Memory : Run(<<c>>, a, [a EXCEPT !.dmem = mem])
<1>1. a \in Machine /\ a.dram[<<"rom", v>>] \in Numbers(Len(Rom[v]))
  BY BlocksAre, ShapesAre DEF Shaped
<1>2. PICK mem0 \in Memory, l \in Nat : mem0 = a.dmem /\ l = Len(Rom[v])
  BY <1>1, MachineIs, RomIs
<1>3. PICK r \in Numbers(l) : r = a.dram[<<"rom", v>>]  BY <1>1, <1>2
<1>4. PICK k2 \in Nat, from \in Nat : k2 = m % 2 /\ from = m - k2  OBVIOUS
<1>5. from + k2 = m  BY <1>4
<1>6. c.op = "LOADBUFF" /\ c.addr = <<"rom", v>> /\ c.from = from /\ c.dst = 0
      /\ c.n = IF count = 0 THEN 0 ELSE count + k2
  BY <1>4, Sizes DEF Loader
<1>7. Handled(c, a, L_11C8(a, c))  BY <1>6 DEF Handled
<1>8. CASE count = 0
  <2>1. L_11C8(a, c) = a  BY <1>6, <1>8 DEF L_11C8
  <2>2. [a EXCEPT !.dmem = mem0] = a  BY <1>1, <1>2 DEF Machine
  <2>3. QED  BY <1>1, <1>7, <2>1, <2>2, RunOne
<1>9. CASE count # 0
  <2>1. PICK n \in Nat : n = count + k2 /\ c.n = n /\ n # 0 /\ from + n <= l
    BY <1>2, <1>5, <1>9, <1>6
  <2>2. PICK s \in Numbers(n) : s = SubSeq(r, from + 1, from + n)  BY <2>1, PartIs
  <2>3. 0 \in Int  OBVIOUS
  <2>4. PICK mem \in Memory : mem = Put(mem0, 0, s)  BY <2>2, <2>3, PutIs
  <2>5. L_11C8(a, c) = [a EXCEPT !.dmem = mem]
    BY <1>1, <1>2, <1>3, <1>6, <2>1, <2>2, <2>4 DEF L_11C8
  <2>6. [a EXCEPT !.dmem = mem] \in Machine  BY <1>1, <2>4, WithMemory
  <2>7. QED  BY <1>1, <1>7, <2>5, <2>6, RunOne
<1>10. QED  BY <1>8, <1>9

(* A pass, of any frames with any predictors. *)
PassesIn(a, v, dec, m, count, flags, dst) ==
    /\ Shaped(a) /\ a.book \in Numbers(Frame + Frame) /\ ("LOOP" \in flags => a.loop = <<"loop", v>>)
    /\ count \in Nat /\ dec \in Nat /\ SourceFrame(v, dec) = m /\ m \in Nat
    /\ m + count <= Len(Rom[v]) /\ count + 1 <= Buffer + Buffer
    /\ dst \in Nat /\ Temp <= dst /\ dst + Frame * (count + 1) <= DryL

(* The command that decodes them. *)
Fetcher(v, m, count, flags, dst) ==
    [op |-> "ADPCM", flags |-> flags, state |-> <<"adpcm", v>>, src |-> Main + (m % 2),
     dst |-> dst, count |-> count]

(* Its fields. *)
LEMMA FetcherIs ==
    ASSUME NEW v \in Voices, NEW a, NEW dec, NEW m, NEW count, NEW flags, NEW dst,
           PassesIn(a, v, dec, m, count, flags, dst),
           NEW c, c = Fetcher(v, m, count, flags, dst)
    PROVE DecodesIn(a, c)
<1>1. PICK n \in Nat, f \in Nat, q \in Nat : n = count /\ f = Frame /\ f > 1 /\ q = dst
  BY LanesAre DEF PassesIn
<1>2. PICK z \in Nat : z = f * (n + 1) /\ f <= z  OBVIOUS
<1>3. q + z <= WetR + Buffer /\ n + 1 <= q
  <2>1. PICK size \in Nat, wet \in Nat, dry \in Nat, temp \in Nat :
            /\ size = Buffer /\ wet = WetR /\ dry = DryL /\ temp = TempSize
            /\ dry = size + size + temp
            /\ wet = dry + size + size + size /\ Temp = size + size
    BY Sizes
  <2>2. q + z <= dry /\ size + size <= q /\ n + 1 <= size + size
    BY <1>1, <1>2, <2>1 DEF PassesIn
  <2>3. QED  BY <2>1, <2>2
<1>4. PICK k2 \in Nat : k2 = m % 2 /\ k2 <= 1 /\ Main + (m % 2) = k2  BY Sizes DEF PassesIn
<1>5. /\ c.flags = flags /\ c.state = <<"adpcm", v>> /\ c.src = k2 /\ c.dst = q /\ c.count = n
  BY <1>1, <1>4 DEF Fetcher
<1>6. Shaped(a) /\ a.book \in Numbers(Frame + Frame)  BY DEF PassesIn
<1>7. a.dmem \in Memory  BY <1>6, MachineIs DEF Shaped
<1>8. L_1460(a, c) \in Numbers(Frame)
  BY <1>6, <1>5, BlocksAre, ShapesAre, LanesAre, ZerosAre DEF Shaped, PassesIn, L_1460, L_140C
<1>9. k2 + n <= q  BY <1>3, <1>4
<1>10. q + Frame * (n + 1) <= WetR + Buffer  BY <1>1, <1>2, <1>3
<1>11. QED  BY <1>5, <1>6, <1>7, <1>8, <1>9, <1>10 DEF DecodesIn

(* ADPCM, whatever it finds. *)
LEMMA FetcherStill ==
    ASSUME NEW v \in Voices, NEW a, NEW dec, NEW m, NEW count, NEW flags, NEW dst,
           PassesIn(a, v, dec, m, count, flags, dst),
           NEW c, c = Fetcher(v, m, count, flags, dst)
    PROVE \E d : Run(<<c>>, a, d) /\ Still(a, d, v) /\ d.loop = a.loop
<1>1. DecodesIn(a, c)  BY FetcherIs
<1>2. PICK mem \in Memory : mem = Decoded(a, c)  BY <1>1, DecodedTyped
<1>3. a \in Machine /\ Shaped(a)  BY DEF PassesIn, Shaped
<1>4. PICK f \in Nat, q \in Nat, n \in Nat : f = Frame /\ q = c.dst /\ n = c.count
  BY <1>1, LanesAre DEF DecodesIn
<1>5. PICK x \in Nat : x = q + f * n /\ x + f <= WetR + Buffer
  <2>1. PICK y \in Nat : y = f * n /\ f * (n + 1) = y + f  BY <1>4
  <2>2. q + (y + f) <= WetR + Buffer  BY <1>1, <1>4, <2>1 DEF DecodesIn
  <2>3. WetR \in Int /\ Buffer \in Int  BY Sizes
  <2>4. q + y \in Nat /\ (q + y) + f <= WetR + Buffer  BY <2>2, <2>3
  <2>5. QED  BY <2>1, <2>4
<1>6. PICK w \in Numbers(f) : w = Window(mem, x, f)  BY <1>2, <1>5, WindowIs
<1>7. PICK b, d : b = <<"adpcm", v>> /\ b \in Blocks /\ d = Worked(a, mem, b, w)  BY BlocksAre
<1>8. /\ d \in Machine /\ d.dram = Stored(a.dram, b, w) /\ d.book = a.book /\ d.loop = a.loop
  BY <1>3, <1>6, <1>7, BlockFields
<1>9. c.op = "ADPCM" /\ c.state = b  BY <1>7 DEF Fetcher
<1>10. L_139C(a, c) = d  BY <1>2, <1>4, <1>5, <1>6, <1>9, <1>7 DEF L_1634, Stored, L_139C, Worked
<1>11. Run(<<c>>, a, d)
  <2>1. Handled(c, a, d)  BY <1>9, <1>10 DEF Handled
  <2>2. QED  BY <1>3, <1>8, <2>1, RunOne
<1>12. Still(a, d, v)  BY <1>4, <1>6, <1>3, <1>7, <1>8, ShapesAre, StillStored
<1>13. QED  BY <1>8, <1>11, <1>12

(* A fetch, whatever it finds. *)
LEMMA FetchStill ==
    ASSUME NEW v \in Voices, NEW a, NEW dec, NEW m, NEW count, NEW flags, NEW dst,
           PassesIn(a, v, dec, m, count, flags, dst)
    PROVE \E d : Run(Fetch(v, dec, count, flags, dst), a, d) /\ Still(a, d, v) /\ d.loop = a.loop
<1>1. PICK c, e : c = Loader(v, m, count) /\ e = Fetcher(v, m, count, flags, dst)  OBVIOUS
<1>2. Fetch(v, dec, count, flags, dst) = <<c, e>>
  <2>1. SourceFrame(v, dec) = m  BY DEF PassesIn
  <2>2. QED  BY <1>1, <2>1 DEF Fetch, Loader, Fetcher
<1>3. Shaped(a) /\ a \in Machine /\ m \in Nat /\ count \in Nat /\ m + count <= Len(Rom[v])
  BY DEF PassesIn, Shaped
<1>4. PICK mem \in Memory : Run(<<c>>, a, [a EXCEPT !.dmem = mem])  BY <1>1, <1>3, LoaderRun
<1>5. PICK a1 : a1 = [a EXCEPT !.dmem = mem]  OBVIOUS
<1>6. a1 \in Machine /\ a1.book = a.book /\ a1.loop = a.loop /\ a1.dram = a.dram
  BY <1>3, <1>5, WithMemory
<1>7. Still(a, a1, v)  BY <1>3, <1>6, StillIs
<1>8. PassesIn(a1, v, dec, m, count, flags, dst)  BY <1>6, <1>7 DEF PassesIn, Still
<1>9. PICK d : Run(<<e>>, a1, d) /\ Still(a1, d, v) /\ d.loop = a1.loop
  BY <1>1, <1>8, FetcherStill
<1>10. Run(<<c, e>>, a, d)  BY <1>4, <1>5, <1>9, RunTwo
<1>11. Still(a, d, v)  BY <1>7, <1>9, StillTwice
<1>12. QED  BY <1>2, <1>6, <1>9, <1>10, <1>11

(* The frames up to the loop. *)
LEMMA FirstStill ==
    ASSUME NEW a, Shaped(a), a.book \in Numbers(Frame + Frame), NEW v \in Voices, NEW s,
           NEW dec \in Nat, NEW n, PassFits(v, dec, n)
    PROVE \E d : Run(Fetch(v, dec, n, Flags(s), Temp), a, d) /\ Still(a, d, v)
<1>1. PICK m \in Nat, u \in Nat, l \in Nat :
          m = SourceFrame(v, dec) /\ u = UntilLoop(v, dec) /\ l = Len(Rom[v]) /\ m + u <= l
  <2>1. Ends(v, dec, SourceFrame(v, dec), UntilLoop(v, dec))  BY UntilLoopIs
  <2>2. SourceFrame(v, dec) \in 0 .. Len(Rom[v]) - 1 /\ Len(Rom[v]) \in Nat  BY SourceFrameIs, RomIs
  <2>3. UntilLoop(v, dec) \in Nat /\ SourceFrame(v, dec) + UntilLoop(v, dec) <= Len(Rom[v])
    BY <2>1 DEF Ends
  <2>4. SourceFrame(v, dec) \in Nat  BY <2>2
  <2>5. QED  BY <2>2, <2>3, <2>4
<1>2. n \in Nat /\ n <= u /\ Temp + Frame * (n + 1) <= DryL /\ n + 1 <= Buffer + Buffer
  BY <1>1 DEF PassFits
<1>3. m + n <= l  BY <1>1, <1>2
<1>4. "LOOP" \notin Flags(s)  BY DEF Flags
<1>5. Temp \in Nat /\ Temp <= Temp  BY Sizes
<1>6. PassesIn(a, v, dec, m, n, Flags(s), Temp)  BY <1>1, <1>2, <1>3, <1>4, <1>5 DEF PassesIn
<1>7. QED  BY <1>6, FetchStill

(* The frames from the loop on. *)
LEMMA SecondStill ==
    ASSUME NEW a, Shaped(a), a.book \in Numbers(Frame + Frame), NEW v \in Voices,
           a.loop = <<"loop", v>>, NEW dec \in Nat, NEW u \in Nat, u = UntilLoop(v, dec),
           NEW n \in Nat \ {0}, n <= Len(Rom[v]) - LoopStart[v], n + 1 <= Buffer + Buffer,
           NEW next \in Nat, Temp <= next, next + Frame * (n + 1) <= DryL
    PROVE \E d : Run(Fetch(v, dec + u, n, {"LOOP"}, next), a, d) /\ Still(a, d, v)
<1>1. PICK m \in Nat, l \in Nat : m = LoopStart[v] /\ l = Len(Rom[v]) /\ m < l
  <2>1. Len(Rom[v]) \in Nat /\ LoopStart[v] \in 1 .. Len(Rom[v]) - 1  BY RomIs
  <2>2. QED  BY <2>1
<1>2. SourceFrame(v, dec + u) = m
  <2>1. Straight(v, dec + u, LoopStart[v], Len(Rom[v]) - LoopStart[v])  BY UntilLoopIs DEF Ends
  <2>2. 0 \in 0 .. (l - m) - 1 /\ m + 0 = m /\ dec + u + 0 = dec + u  BY <1>1
  <2>3. SourceFrame(v, dec + u + 0) = m + 0  BY <1>1, <2>1, <2>2 DEF Straight
  <2>4. QED  BY <2>2, <2>3
<1>3. m + n <= l
  <2>1. n <= l - m  BY <1>1
  <2>2. QED  BY <1>1, <2>1
<1>4. dec + u \in Nat /\ n \in Nat  OBVIOUS
<1>5. PassesIn(a, v, dec + u, m, n, {"LOOP"}, next)  BY <1>1, <1>2, <1>3, <1>4 DEF PassesIn
<1>6. QED  BY <1>4, <1>5, FetchStill

(* Both passes, moved together. *)
LEMMA PassesStill ==
    ASSUME NEW a, Shaped(a), a.book \in Numbers(Frame + Frame), NEW v \in Voices, NEW s,
           NEW dec \in Nat, dec = s.dec, NEW need, Room(v, need),
           NEW u \in Nat, u = UntilLoop(v, dec), NEW n \in Nat \ {0}, need = u + n
    PROVE \E d : Run(Decode(v, s, need), a, d) /\ Still(a, d, v)
<1>1. PICK f \in Nat, t \in Nat, dry \in Nat, y \in Nat, z \in Nat :
          f = Frame /\ t = Temp /\ dry = DryL /\ y = f * (u + 1) /\ z = f * (n + 1)
  <2>1. PICK f \in Nat : f = Frame  BY LanesAre
  <2>2. f * (u + 1) \in Nat /\ f * (n + 1) \in Nat  OBVIOUS
  <2>3. Temp \in Nat /\ DryL \in Nat  BY Sizes
  <2>4. QED  BY <2>1, <2>2, <2>3
<1>2. t + y + z <= dry
  <2>1. t + f * (u + n + 2) <= dry  BY <1>1 DEF Room
  <2>2. f * (u + n + 2) = y + z  BY <1>1
  <2>3. QED  BY <1>1, <2>1, <2>2
<1>3. PICK next \in Nat : next = t + y /\ t <= next /\ next + z <= dry  BY <1>2
<1>4. u + 1 <= Buffer + Buffer /\ n + 1 <= Buffer + Buffer /\ n <= Len(Rom[v]) - LoopStart[v]
  <2>1. PICK size \in Nat, len \in Nat, loop \in Nat :
            size = Buffer /\ len = Len(Rom[v]) /\ loop = LoopStart[v]
    <3>1. Buffer \in Nat  BY Sizes
    <3>2. Len(Rom[v]) \in Nat /\ LoopStart[v] \in 1 .. Len(Rom[v]) - 1  BY RomIs
    <3>3. LoopStart[v] \in Nat  BY <3>2
    <3>4. QED  BY <3>1, <3>2, <3>3
  <2>2. u + n + 1 <= size + size /\ u + n <= len - loop  BY <2>1 DEF Room
  <2>3. u + 1 <= size + size /\ n + 1 <= size + size /\ n <= len - loop  BY <2>1, <2>2
  <2>4. QED  BY <2>1, <2>3
<1>5. PassFits(v, dec, u)
  <2>1. Temp + Frame * (u + 1) <= DryL
    <3>1. t + y <= dry  BY <1>2
    <3>2. QED  BY <1>1, <3>1
  <2>2. u <= UntilLoop(v, dec)  OBVIOUS
  <2>3. QED  BY <1>4, <2>1, <2>2 DEF PassFits
<1>6. PICK d1 : Run(Fetch(v, dec, u, Flags(s), Temp), a, d1) /\ Still(a, d1, v)
  BY <1>5, FirstStill
<1>7. PICK setloop : setloop = [op |-> "SETLOOP", addr |-> <<"loop", v>>]  OBVIOUS
<1>8. d1 \in Machine /\ Shaped(d1)  BY <1>6 DEF Still, Shaped
<1>9. PICK d2 : Run(<<setloop>>, d1, d2) /\ Alike(d1, d2) /\ d2.loop = <<"loop", v>>
                /\ d2.dram = d1.dram
  <2>1. PICK b \in Blocks : b = <<"loop", v>>  BY BlocksAre
  <2>2. setloop.op = "SETLOOP" /\ setloop.addr = b  BY <1>7, <2>1
  <2>3. QED  BY <1>8, <2>1, <2>2, SetloopIs
<1>10. Still(a, d2, v)
  <2>1. Still(d1, d2, v)  BY <1>8, <1>9, StillIs DEF Alike
  <2>2. QED  BY <1>6, <2>1, StillTwice
<1>11. PICK d3 : Run(Fetch(v, dec + u, n, {"LOOP"}, next), d2, d3) /\ Still(d2, d3, v)
  <2>1. Shaped(d2) /\ d2.book \in Numbers(Frame + Frame)  BY <1>10 DEF Still
  <2>2. Temp <= next /\ next + Frame * (n + 1) <= DryL  BY <1>1, <1>3
  <2>3. QED  BY <1>4, <1>9, <2>1, <2>2, SecondStill
<1>12. PICK mover : mover = Mover(next, n)  OBVIOUS
<1>13. d3 \in Machine /\ Shaped(d3)  BY <1>11 DEF Still, Shaped
<1>14. PICK mem : Run(<<mover>>, d3, [d3 EXCEPT !.dmem = mem]) /\ MovedOver(d3.dmem, mem, next, n)
  <2>1. next + Frame * (n + 1) <= DryL  BY <1>1, <1>3
  <2>2. QED  BY <1>12, <1>13, <2>1, MoveOver
<1>15. PICK d : d = [d3 EXCEPT !.dmem = mem]  OBVIOUS
<1>16. d \in Machine /\ d.book = d3.book /\ d.dram = d3.dram
  <2>1. mem \in Memory  BY <1>14 DEF MovedOver
  <2>2. QED  BY <1>13, <1>15, <2>1, WithMemory
<1>17. Still(a, d, v)  BY <1>10, <1>11, <1>13, <1>16, StillIs, StillTwice
<1>18. Run(Decode(v, s, need), a, d)
  <2>1. Decode(v, s, need)
        = Fetch(v, dec, u, Flags(s), Temp)
          \o (<<setloop>> \o Fetch(v, dec + u, n, {"LOOP"}, next) \o <<mover>>)
    <3>1. ~(need < UntilLoop(v, s.dec)) /\ need # u /\ need - u = n  OBVIOUS
    <3>2. next = Temp + Frame * (u + 1)  BY <1>1, <1>3
    <3>3. (IF need < UntilLoop(v, s.dec) THEN need ELSE UntilLoop(v, s.dec)) = u  BY <3>1
    <3>4. QED  BY <1>7, <1>12, <3>1, <3>2, <3>3 DEF Decode, Flags, Mover
  <2>2. Run(<<setloop>> \o Fetch(v, dec + u, n, {"LOOP"}, next), d1, d3)
    BY <1>9, <1>11, RunConcat
  <2>3. Run(<<setloop>> \o Fetch(v, dec + u, n, {"LOOP"}, next) \o <<mover>>, d1, d)
    BY <1>14, <1>15, <2>2, RunConcat
  <2>4. QED  BY <1>6, <2>1, <2>3, RunConcat
<1>19. QED  BY <1>17, <1>18

(* With or without the loop. *)
LEMMA DecodeStill ==
    ASSUME NEW a, Shaped(a), a.book \in Numbers(Frame + Frame), NEW v \in Voices, NEW s,
           s.dec \in Nat, NEW need, Room(v, need)
    PROVE \E d : Run(Decode(v, s, need), a, d) /\ Still(a, d, v)
<1>1. PICK u \in Nat, dec \in Nat : dec = s.dec /\ u = UntilLoop(v, dec)
  BY UntilLoopIs DEF Ends
<1>2. need \in Nat /\ need + 1 <= Buffer + Buffer  BY DEF Room
<1>3. CASE need <= u
  <2>1. Temp + Frame * (need + 1) <= DryL
    <3>1. PICK f \in Nat, t \in Nat, dry \in Nat, y \in Nat :
              f = Frame /\ t = Temp /\ dry = DryL /\ y = f * (need + 1) /\ f * (need + 2) = y + f
      <4>1. PICK f \in Nat : f = Frame  BY LanesAre
      <4>2. f * (need + 1) \in Nat /\ f * (need + 2) = f * (need + 1) + f  BY <1>2
      <4>3. Temp \in Nat /\ DryL \in Nat  BY Sizes
      <4>4. QED  BY <4>1, <4>2, <4>3
    <3>2. t + (y + f) <= dry  BY <3>1 DEF Room
    <3>3. t + y <= dry  BY <3>1, <3>2
    <3>4. QED  BY <3>1, <3>3
  <2>2. PassFits(v, dec, need)  BY <1>1, <1>2, <1>3, <2>1 DEF PassFits
  <2>3. PICK d : Run(Fetch(v, dec, need, Flags(s), Temp), a, d) /\ Still(a, d, v)
    BY <2>2, FirstStill
  <2>4. Decode(v, s, need) = Fetch(v, dec, need, Flags(s), Temp)
    <3>1. (IF need < UntilLoop(v, s.dec) THEN need ELSE UntilLoop(v, s.dec)) = need
      BY <1>1, <1>2, <1>3
    <3>2. Decode(v, s, need) = Fetch(v, dec, need, Flags(s), Temp) \o <<>>
      BY <1>1, <3>1 DEF Decode, Flags
    <3>3. PICK S : Fetch(v, dec, need, Flags(s), Temp) \in Seq(S)  BY <2>3 DEF Run, IsList
    <3>4. QED  BY <3>2, <3>3
  <2>5. QED  BY <2>3, <2>4
<1>4. CASE ~(need <= u)
  <2>1. PICK n \in Nat \ {0} : need = u + n  BY <1>2, <1>4
  <2>2. QED  BY <1>1, <2>1, PassesStill
<1>5. QED  BY <1>3, <1>4

(* Resampling, right or wrong. *)
LEMMA ResampledTyped ==
    ASSUME NEW a \in Machine, NEW c, L_1848(a, c) \in Numbers(Taps + 1), NEW src, NEW place,
           NEW pitch, NEW top, Resamples(a, c, src, place, pitch, top)
    PROVE Resampled(a, c) \in Memory
<1>1. PICK mem \in Memory : mem = Put(a.dmem, c.src - Taps, SubSeq(L_1848(a, c), 1, Taps))
  BY PhasesAre, FirstPart, MachineIs, PutIs DEF Resamples
<1>2. PICK f : /\ f[0] = mem /\ \A k \in 1 .. Vectors : f[k] = ResampleStep(f[k - 1], a, c, k)
               /\ Resampled(a, c) = f[Vectors]
  BY <1>1, ResampledFold
<1>3. PICK m \in Nat : m = Vectors  BY Sizes
<1> DEFINE A == {k \in 0 .. m : f[k] \in Memory}
<1>4. 0 \in A  BY <1>1, <1>2, <1>3
<1>5. ASSUME NEW i \in A, i \in 0 .. m - 1 PROVE i + 1 \in A
  <2>1. PICK k \in 1 .. m : k = i + 1 /\ k - 1 = i  BY <1>5
  <2>2. f[k - 1] \in Memory  BY <2>1
  <2>3. PICK p \in Nat : p = Lanes * (k - 1) /\ p + Lanes <= Buffer  BY <1>3, VectorPlace
  <2>4. OutputVector(a, c, f[k - 1], p) \in Numbers(Lanes)  BY <2>2, <2>3, OutputVectorTyped
  <2>5. L_18E8(c) + p \in Int
    <3>1. L_18E8(c) \in Nat  BY DEF Resamples
    <3>2. QED  BY <3>1
  <2>6. Lanes \in Nat  BY LanesAre
  <2>7. ResampleStep(f[k - 1], a, c, k) \in Memory
    BY <2>2, <2>3, <2>4, <2>5, <2>6, PutIs DEF ResampleStep
  <2>8. QED  BY <1>2, <1>3, <2>1, <2>7
<1>6. 0 .. m \subseteq A
  <2> HIDE DEF A
  <2>1. QED  BY <1>4, <1>5, UpInduction
<1>7. m \in 0 .. m  OBVIOUS
<1>8. f[m] \in Memory  BY <1>6, <1>7
<1>9. QED  BY <1>2, <1>3, <1>8

(* What is kept for the resampler. *)
LEMMA KeptShape ==
    ASSUME NEW a \in Machine, NEW c, L_1848(a, c) \in Numbers(Taps + 1), NEW src, NEW place,
           NEW pitch, NEW top, Resamples(a, c, src, place, pitch, top)
    PROVE L_1A3C(a, c) \in {s \in Numbers(Taps + 1) : s[Taps + 1] \in 0 .. Phases - 1}
<1>1. PICK n \in Nat, b \in Nat, d \in Nat \ {0} : n = Taps /\ b = Buffer /\ d = Phases
  BY PhasesAre
<1>2. PICK now \in Memory : now = Resampled(a, c)  BY ResampledTyped
<1>3. b \in 0 .. Buffer  BY <1>1
<1>4. PICK x \in Nat : x = At(a, c, b) /\ x + n <= WetR + Buffer
  <2>1. OutputAt(a, c, src, place, pitch, top, b)  BY <1>3, OutputAtIs
  <2>2. PICK x \in Nat, t \in Nat, e \in Nat :
            x = At(a, c, b) /\ t = top /\ e = WetR + Buffer /\ x + n <= t /\ t <= e
    <3>1. PICK e \in Nat : e = WetR + Buffer
      <4>1. WetR \in Nat /\ Buffer \in Nat  BY Sizes
      <4>2. WetR + Buffer \in Nat  BY <4>1
      <4>3. QED  BY <4>2
    <3>2. QED  BY <1>1, <2>1, <3>1 DEF OutputAt, Resamples
  <2>3. x + n <= e  BY <2>2
  <2>4. QED  BY <2>2, <2>3
<1>5. PICK w \in Numbers(n) : w = Window(now, x, n)  BY <1>4, WindowIs
<1>6. PICK r \in 0 .. d - 1 : r = Phase(a, c, b)
  <2>1. PICK q \in Int : q = L_1848(a, c)[Taps + 1]  BY <1>1, DivIs DEF Resamples
  <2>2. PICK z \in Nat : z = c.pitch  BY DEF Resamples
  <2>3. q + b * z \in Int  OBVIOUS
  <2>4. (q + b * z) % d \in 0 .. d - 1  BY <2>3, DivIs
  <2>5. QED  BY <1>1, <2>1, <2>2, <2>4 DEF Phase
<1>7. r \in Int  BY <1>6
<1>8. w \o <<r>> \in Numbers(n + 1) /\ (w \o <<r>>)[n + 1] = r  BY <1>7, AppendedIs
<1>9. L_1A3C(a, c) = w \o <<r>>  BY <1>1, <1>2, <1>4, <1>5, <1>6 DEF L_1A3C
<1>10. QED  BY <1>1, <1>6, <1>8, <1>9

(* The fraction kept may be another than that of the voice's place, and    *)
(* the resampler then takes at most one sample more.                       *)
LEMMA ReachIs ==
    ASSUME NEW src, NEW top, NEW place \in Nat, NEW pitch \in Nat, Spans(src, top, place, pitch),
           NEW phase \in 0 .. Phases - 1
    PROVE phase % Phases = phase
          /\ src + ((phase + Buffer * pitch) \div Phases) <= top + 1
<1>1. PICK d \in Nat \ {0}, b \in Nat : d = Phases /\ b = Buffer  BY PhasesAre
<1>2. PICK y \in Nat : y = b * pitch  OBVIOUS
<1>3. PICK r \in Nat, f \in Nat : r = place % d /\ f = phase /\ f < d
  <2>1. place \in Int  OBVIOUS
  <2>2. place % d \in 0 .. d - 1  BY <2>1, DivIs
  <2>3. QED  BY <1>1, <2>2
<1>4. f % d = f /\ f \div d = 0  BY <1>3, DivOf
<1>5. PICK p \in Nat, q \in Nat, e \in Nat :
          p = (f + y) \div d /\ q = y \div d /\ e = (r + y) \div d
  BY DivNat
<1>6. p <= q + 1  BY <1>4, <1>5, DivSum
<1>7. q <= e  BY <1>5, DivMono
<1>8. src \in Nat /\ top \in Nat /\ src + e <= top  BY <1>1, <1>2, <1>3, <1>5 DEF Spans
<1>9. src + p <= top + 1  BY <1>6, <1>7, <1>8
<1>10. QED  BY <1>1, <1>2, <1>3, <1>4, <1>5, <1>9

(* What is read lies within the buffers. *)
LEMMA ReadingIs ==
    ASSUME NEW a \in Machine, NEW c, NEW src, NEW top, NEW place \in Nat, NEW pitch \in Nat,
           Spans(src, top, place, pitch), top + 1 <= DryL, c.src = src, c.pitch = pitch,
           L_1848(a, c)[Taps + 1] \in 0 .. Phases - 1
    PROVE \E phase : Resamples(a, c, src, phase, pitch, top + 1)
<1>1. PICK phase \in 0 .. Phases - 1 : phase = L_1848(a, c)[Taps + 1]  OBVIOUS
<1>2. phase % Phases = phase /\ src + ((phase + Buffer * pitch) \div Phases) <= top + 1
  BY ReachIs
<1>3. PICK n \in Nat, t \in Nat, b \in Nat, l \in Nat, dry \in Nat, end \in Nat :
          n = Taps /\ t = Temp /\ b = Buffer /\ l = Lanes /\ dry = DryL /\ end = WetR + Buffer
          /\ n < l /\ l <= b /\ t = b + b /\ dry <= end /\ Main = 0 /\ Second = b
  <2>1. {Taps, Temp, Buffer, Lanes, DryL, DryR, WetL, WetR} \subseteq Nat  BY Sizes
  <2>2. /\ Taps < Lanes /\ Lanes + Lanes <= Buffer /\ Temp = Buffer + Buffer
        /\ DryR = DryL + Buffer /\ WetL = DryR + Buffer /\ WetR = WetL + Buffer
        /\ Main = 0 /\ Second = Buffer
    BY Sizes
  <2>3. Lanes <= Buffer /\ DryL <= WetR + Buffer /\ WetR + Buffer \in Nat  BY <2>1, <2>2
  <2>4. QED  BY <2>1, <2>2, <2>3
<1>4. L_18E8(c) \in Nat /\ L_18E8(c) + b <= t  BY <1>3 DEF L_18E8
<1>5. src \in Nat /\ top \in Nat /\ t < src  BY <1>3 DEF Spans
<1>6. top + 1 \in Nat /\ n <= src /\ top + 1 <= end /\ L_18E8(c) + b <= (src - n) + l
  BY <1>3, <1>4, <1>5
<1>7. phase \in Nat
  <2>1. PICK d \in Nat : d = Phases  BY PhasesAre
  <2>2. QED  BY <2>1
<1>8. Resamples(a, c, src, phase, pitch, top + 1)
  BY <1>1, <1>2, <1>3, <1>4, <1>5, <1>6, <1>7 DEF Resamples
<1>9. QED  BY <1>8

(* There are cells before it. *)
LEMMA RoomLeft ==
    ASSUME NEW v \in Voices, NEW need, Room(v, need), NEW top, top = Temp + Frame * (need + 1)
    PROVE top + 1 <= DryL
<1>1. PICK f \in Nat, t \in Nat, dry \in Nat, m \in Nat :
          f = Frame /\ t = Temp /\ dry = DryL /\ m = need /\ f > 1
  BY LanesAre, Sizes DEF Room
<1>2. PICK y \in Nat : y = f * (m + 1) /\ f * (m + 2) = y + f  OBVIOUS
<1>3. t + (y + f) <= dry  BY <1>1, <1>2 DEF Room
<1>4. t + y + 1 <= dry  BY <1>1, <1>3
<1>5. QED  BY <1>1, <1>2, <1>4

(* What a voice finds for the resampler. *)
LEMMA FoundWindow ==
    ASSUME NEW a, Shaped(a), NEW v \in Voices, NEW c, c.state = <<"resample", v>>
    PROVE L_1848(a, c) \in {s \in Numbers(Taps + 1) : s[Taps + 1] \in 0 .. Phases - 1}
<1>1. PICK n \in Nat, d \in Nat \ {0} : n = Taps + 1 /\ d = Phases
  <2>1. Taps \in Nat /\ Phases \in Nat \ {0}  BY PhasesAre
  <2>2. Taps + 1 \in Nat  BY <2>1
  <2>3. QED  BY <2>1, <2>2
<1>2. n \in 1 .. n
  <2>1. Taps \in Nat  BY PhasesAre
  <2>2. n > 0  BY <1>1, <2>1
  <2>3. QED  BY <2>2
<1>3. Zeros(n) \in Numbers(n) /\ Zeros(n)[n] = 0  BY <1>2, ZerosAre
<1>4. L_1860 \in {s \in Numbers(n) : s[n] \in 0 .. d - 1}  BY <1>1, <1>3 DEF L_1860
<1>5. PICK b \in Blocks : b = <<"resample", v>>  BY BlocksAre
<1>6. a.dram[b] \in Shape(b)  BY DEF Shaped
<1>7. a.dram[<<"resample", v>>] \in {s \in Numbers(n) : s[n] \in 0 .. d - 1}
  BY <1>1, <1>5, <1>6, ShapesAre
<1>8. QED  BY <1>1, <1>4, <1>7 DEF L_1848

(* RESAMPLE, whatever it finds. *)
LEMMA ResamplerStill ==
    ASSUME NEW a, Shaped(a), NEW v \in Voices, NEW c, c.op = "RESAMPLE",
           c.state = <<"resample", v>>, NEW src, NEW place, NEW pitch, NEW top,
           Resamples(a, c, src, place, pitch, top)
    PROVE \E d : Run(<<c>>, a, d) /\ Still(a, d, v)
<1>1. a \in Machine  BY DEF Shaped
<1>2. L_1848(a, c) \in Numbers(Taps + 1)  BY FoundWindow
<1>3. PICK now \in Memory : now = Resampled(a, c)  BY <1>1, <1>2, ResampledTyped
<1>4. PICK k : k = L_1A3C(a, c)  OBVIOUS
<1>5. k \in {s \in Numbers(Taps + 1) : s[Taps + 1] \in 0 .. Phases - 1}
  BY <1>1, <1>2, <1>4, KeptShape
<1>6. k \in Numbers(Taps + 1) /\ k \in Shape(<<"resample", v>>)  BY <1>5, ShapesAre
<1>7. PICK l \in Numbers(Lanes) : l = k \o SubSeq(a.left, Taps + 2, Lanes)
  <2>1. a.left \in Numbers(Lanes)  BY <1>1, MachineIs
  <2>2. QED  BY <1>6, <2>1, LeftTyped
<1>8. PICK r \in Numbers(Lanes) : r = [j \in 1 .. Lanes |-> Phase(a, c, Buffer + j - 1)]
  BY RightTyped
<1>9. PICK b \in Blocks : b = <<"resample", v>>  BY BlocksAre
<1>10. PICK d : d = Scratch(a, now, b, k, l, r)  OBVIOUS
<1>11. d \in Machine /\ Scratched(a, d, now, b, k)
  <2>1. PICK n \in Nat : n = Taps + 1 /\ k \in Numbers(n)
    <3>1. Taps \in Nat  BY PhasesAre
    <3>2. Taps + 1 \in Nat  BY <3>1
    <3>3. QED  BY <1>6, <3>2
  <2>2. QED  BY <1>1, <1>10, <2>1, ScratchIs
<1>12. d = L_17EC(a, c)
  BY <1>3, <1>4, <1>7, <1>8, <1>9, <1>10 DEF L_17EC, Scratch, Stored
<1>13. Handled(c, a, d)  BY <1>12 DEF Handled
<1>14. Run(<<c>>, a, d)  BY <1>1, <1>11, <1>13, RunOne
<1>15. d.dram = Stored(a.dram, <<"resample", v>>, k) /\ d.book = a.book
  BY <1>9, <1>11 DEF Scratched, Alike
<1>16. Still(a, d, v)  BY <1>6, <1>11, <1>15, StillStored
<1>17. QED  BY <1>14, <1>16

(* With or without the move. *)
LEMMA ResampleStill ==
    ASSUME NEW a, Shaped(a), NEW v \in Voices, NEW s, Ahead(s.place, s.dec),
           NEW pitch \in Pitches[v], tasks \in Nat
    PROVE \E d : Run(Resample(v, s, pitch), a, d) /\ Still(a, d, v)
<1>1. PICK o \in {0, 1} : o = tasks % 2  OBVIOUS
<1>2. PICK place \in Nat, dec \in Nat : place = s.place /\ dec = s.dec  BY DEF Ahead
<1>3. PICK need : need = Needed(s, pitch)  OBVIOUS
<1>4. pitch \in Nat  BY HandlerAssumption
<1>5. Ahead(place, dec) /\ Ahead(place + Buffer * pitch, dec + need) /\ need \in Nat
      /\ need <= Most(pitch)
  BY <1>2, <1>3, <1>4, NeededIs
<1>6. Room(v, need)  BY <1>5, RoomIs
<1>7. PICK src, top : src = Source(place, dec) /\ top = Temp + Frame * (need + 1)  OBVIOUS
<1>8. Spans(src, top, place, pitch) /\ top + 1 <= DryL
  <2>1. Spans(Source(place, dec), Temp + Frame * (need + 1), place, pitch)
    BY <1>5, <1>6, SpansAre
  <2>2. QED  BY <1>6, <1>7, <2>1, RoomLeft
<1>9. PICK c : c = Resampler(v, s, pitch, o)  OBVIOUS
<1>10. /\ c.op = "RESAMPLE" /\ c.state = <<"resample", v>> /\ c.pitch = pitch /\ c.src = src
  BY <1>2, <1>7, <1>9 DEF Resampler, Source
<1>11. PICK d : Run(<<c>>, a, d) /\ Still(a, d, v)
  <2>1. L_1848(a, c)[Taps + 1] \in 0 .. Phases - 1  BY <1>10, FoundWindow
  <2>2. PICK phase : Resamples(a, c, src, phase, pitch, top + 1)
    BY <1>4, <1>8, <1>10, <2>1, ReadingIs DEF Shaped
  <2>3. QED  BY <1>10, <2>2, ResamplerStill
<1>12. d \in Machine /\ Shaped(d)  BY <1>11 DEF Still, Shaped
<1>13. CASE o = 0
  <2>1. Resample(v, s, pitch) = <<c>> \o <<>>
    BY <1>1, <1>9, <1>13 DEF Resample, Resampler
  <2>2. Run(<<c>> \o <<>>, a, d)
    <3>1. Run(<<>>, d, d)  BY <1>12, RunNil
    <3>2. QED  BY <1>11, <3>1, RunConcat
  <2>3. QED  BY <1>11, <2>1, <2>2
<1>14. CASE o = 1
  <2>1. PICK m : m = [op |-> "DMEMMOVE", src |-> Second, dst |-> Main, n |-> Buffer]  OBVIOUS
  <2>2. m.op = "DMEMMOVE" /\ m.src = Second /\ m.dst = Main /\ m.n = Buffer  BY <2>1
  <2>3. PICK n \in Nat \ {0} : n = Vectors /\ Buffer = Lanes * n  BY Sizes
  <2>4. PICK b \in Nat, wet \in Nat :
            b = Buffer /\ Second = b /\ Main = 0 /\ wet = WetR /\ b + b <= wet + b
    <3>1. {Buffer, WetR} \subseteq Nat /\ Buffer + Buffer <= WetR + Buffer  BY BuffersAre
    <3>2. Main = 0 /\ Second = Buffer  BY Sizes
    <3>3. QED  BY <3>1, <3>2
  <2>5. Moves(d, m, n)
    <3>1. d.dmem \in Memory  BY <1>12, MachineIs
    <3>2. m.n = Lanes * n /\ m.src \in Nat /\ m.dst \in Nat /\ m.dst <= m.src  BY <2>2, <2>3, <2>4
    <3>3. m.src + Lanes * n <= WetR + Buffer  BY <2>2, <2>3, <2>4
    <3>4. QED  BY <3>1, <3>2, <3>3 DEF Moves
  <2>6. PICK mem : Run(<<m>>, d, [d EXCEPT !.dmem = mem])
                   /\ HasMoved(d.dmem, mem, m.src, m.dst, Lanes * n)
    BY <1>12, <2>2, <2>5, MoveIs
  <2>7. PICK e : e = [d EXCEPT !.dmem = mem]  OBVIOUS
  <2>8. e \in Machine /\ e.dram = d.dram /\ e.book = d.book
    <3>1. mem \in Memory  BY <2>6 DEF HasMoved
    <3>2. QED  BY <1>12, <2>7, <3>1, WithMemory
  <2>9. Still(a, e, v)
    <3>1. Still(d, e, v)  BY <1>12, <2>8, StillIs
    <3>2. QED  BY <1>11, <3>1, StillTwice
  <2>10. Resample(v, s, pitch) = <<c>> \o <<m>>
    BY <1>1, <1>9, <1>14, <2>1 DEF Resample, Resampler
  <2>11. Run(<<c>> \o <<m>>, a, e)  BY <1>11, <2>6, <2>7, RunConcat
  <2>12. QED  BY <2>9, <2>10, <2>11
<1>15. QED  BY <1>13, <1>14

(* An ENVMIXER whose block, if it fetches one, has the shape of one. *)
EnvelopsIn(a, c) ==
    /\ a \in Machine /\ c.init \in BOOLEAN
    /\ IF c.init THEN c.right \in Int ELSE a.dram[c.state] \in Numbers(Frame + 6)

(* Volumes and words, of whatever ramp. *)
Volumes(st) == st.mem \in Memory /\ st.left \in Numbers(Lanes) /\ st.right \in Numbers(Lanes)

(* What ENVMIXER finds. *)
LEMMA FetchedVolumes ==
    ASSUME NEW a, NEW c, EnvelopsIn(a, c)
    PROVE /\ L_1A9C(a, c).left \in Numbers(Lanes) /\ L_1A9C(a, c).right \in Numbers(Lanes)
          /\ L_1A9C(a, c).v24 \in Numbers(6)
<1>1. CASE c.init
  <2>1. a.left \in Numbers(Lanes) /\ a.right \in Numbers(Lanes) /\ a.v24 \in Numbers(6)
    BY MachineIs DEF EnvelopsIn
  <2>2. QED  BY <1>1, <2>1 DEF L_1A9C
<1>2. CASE ~c.init
  <2>1. PICK n \in Nat, f \in Nat : n = Lanes /\ f = Frame /\ f = n + n  BY LanesAre
  <2>2. PICK s \in Numbers(f + 6) : s = a.dram[c.state]  BY <1>2, <2>1 DEF EnvelopsIn
  <2>3. /\ f + 6 \in Nat /\ 0 \in Nat /\ 0 + n <= f + 6 /\ n + n <= f + 6 /\ f + 6 <= f + 6
        /\ 0 + 1 = 1 /\ 0 + n = n
    BY <2>1
  <2>4. SubSeq(s, 0 + 1, 0 + n) \in Numbers(n)  BY <2>3, PartIs
  <2>5. SubSeq(s, n + 1, n + n) \in Numbers(n)  BY <2>3, PartIs
  <2>6. SubSeq(s, f + 1, f + 6) \in Numbers(6)  BY <2>3, PartIs
  <2>7. QED  BY <1>2, <2>1, <2>2, <2>3, <2>4, <2>5, <2>6 DEF L_1A9C
<1>3. QED  BY <1>1, <1>2 DEF EnvelopsIn

(* The volumes of a first vector. *)
LEMMA FirstTyped ==
    ASSUME NEW w \in Numbers(6), NEW x \in Int
    PROVE FirstLeft(w, x) \in Numbers(Lanes) /\ FirstRight(w, x) \in Numbers(Lanes)
<1>1. PICK l \in Nat \ {0} : l = Lanes  BY LanesAre
<1>2. w[1] \in Int /\ w[2] \in Int /\ w[3] \in Int /\ w[4] \in Int  BY DEF Numbers
<1>3. ASSUME NEW t \in Int, NEW r \in Int, NEW j \in 1 .. l
      PROVE Toward(t, r, x + (r * j) \div l) \in Int
  <2>1. r * j \in Int  OBVIOUS
  <2>2. (r * j) \div l \in Int  BY <2>1, DivIs
  <2>3. x + (r * j) \div l \in Int  BY <2>2
  <2>4. QED  BY <2>3, TowardAgain
<1>4. ASSUME NEW j \in 1 .. l
      PROVE FirstLeft(w, x)[j] \in Int /\ FirstRight(w, x)[j] \in Int
  <2>1. /\ FirstLeft(w, x)[j] = Toward(w[1], w[2], x + (w[2] * j) \div l)
        /\ FirstRight(w, x)[j] = Toward(w[3], w[4], x + (w[4] * j) \div l)
    BY <1>1 DEF FirstLeft, FirstRight
  <2>2. QED  BY <1>2, <1>3, <2>1
<1>5. /\ FirstLeft(w, x) = [j \in 1 .. l |-> FirstLeft(w, x)[j]]
      /\ FirstRight(w, x) = [j \in 1 .. l |-> FirstRight(w, x)[j]]
  BY <1>1 DEF FirstLeft, FirstRight
<1>6. QED  BY <1>1, <1>4, <1>5 DEF Numbers

(* And of the ones behind it. *)
LEMMA NextTyped ==
    ASSUME NEW w \in Numbers(6), NEW v \in Numbers(Lanes)
    PROVE L_1BA8(w, v) \in Numbers(Lanes) /\ L_1BB4(w, v) \in Numbers(Lanes)
<1>1. w[1] \in Int /\ w[2] \in Int /\ w[3] \in Int /\ w[4] \in Int  BY DEF Numbers
<1>2. ASSUME NEW t \in Int, NEW r \in Int, NEW j \in 1 .. Lanes
      PROVE Toward(t, r, v[j] + r) \in Int
  <2>1. v[j] \in Int  BY DEF Numbers
  <2>2. v[j] + r \in Int  BY <2>1
  <2>3. QED  BY <2>2, TowardAgain
<1>3. QED  BY <1>1, <1>2 DEF L_1BA8, L_1BB4, Numbers

(* A vector mixed, right or wrong. *)
LEMMA VectorTyped ==
    ASSUME NEW m \in Memory, NEW p \in Nat, p + Lanes <= Buffer, NEW k, p = Lanes * (k - 1),
           NEW w \in Numbers(6), NEW v \in Numbers(Lanes), NEW u \in Numbers(Lanes)
    PROVE L_1BE4(m, k, w, v, u) \in Memory
<1>1. w[5] \in Int /\ w[6] \in Int  BY DEF Numbers
<1>2. PICK dry \in Int, wet \in Int : dry = w[5] /\ wet = w[6]  BY <1>1
<1>3. PICK a : a = Added(m, m, p, DryL, v, dry)  OBVIOUS
<1>4. PICK b : b = Added(a, m, p, WetL, v, wet)  OBVIOUS
<1>5. PICK c : c = Added(b, m, p, DryR, u, dry)  OBVIOUS
<1>6. PICK d : d = Added(c, m, p, WetR, u, wet)  OBVIOUS
<1>7. L_1BE4(m, k, w, v, u) = d  BY <1>2, <1>3, <1>4, <1>5, <1>6 DEF L_1BE4, Added
<1>8. Grown(m, a, m, p, DryL, v, dry)  BY <1>3, BusesDiffer, AddedIs
<1>9. a \in Memory  BY <1>8 DEF Grown
<1>10. Grown(a, b, m, p, WetL, v, wet)  BY <1>4, <1>9, BusesDiffer, AddedIs
<1>11. b \in Memory  BY <1>10 DEF Grown
<1>12. Grown(b, c, m, p, DryR, u, dry)  BY <1>5, <1>11, BusesDiffer, AddedIs
<1>13. c \in Memory  BY <1>12 DEF Grown
<1>14. Grown(c, d, m, p, WetR, u, wet)  BY <1>6, <1>13, BusesDiffer, AddedIs
<1>15. QED  BY <1>7, <1>14 DEF Grown

(* One vector more. *)
LEMMA VolumesOn ==
    ASSUME NEW a, NEW c, EnvelopsIn(a, c), NEW st, Volumes(st), NEW k \in 1 .. Vectors
    PROVE Volumes(MixVector(a, c, st, k))
<1>1. PICK p \in Nat : p = Lanes * (k - 1) /\ p + Lanes <= Buffer  BY VectorPlace
<1>2. PICK w \in Numbers(6) : w = L_1A9C(a, c).v24  BY FetchedVolumes
<1>3. PICK l : l = IF c.init /\ k = 1 THEN FirstLeft(w, a.start) ELSE L_1BA8(w, st.left)
  OBVIOUS
<1>4. PICK u : u = IF c.init /\ k = 1 THEN FirstRight(w, c.right) ELSE L_1BB4(w, st.right)
  OBVIOUS
<1>5. l \in Numbers(Lanes) /\ u \in Numbers(Lanes)
  <2>1. L_1BA8(w, st.left) \in Numbers(Lanes) /\ L_1BB4(w, st.right) \in Numbers(Lanes)
    BY NextTyped DEF Volumes
  <2>2. c.init => FirstLeft(w, a.start) \in Numbers(Lanes) /\ FirstRight(w, c.right) \in Numbers(Lanes)
    <3>1. a.start \in Int  BY MachineIs DEF EnvelopsIn
    <3>2. c.init => c.right \in Int  BY DEF EnvelopsIn
    <3>3. QED  BY <3>1, <3>2, FirstTyped
  <2>3. QED  BY <1>3, <1>4, <2>1, <2>2
<1>6. PICK t : t = MixVector(a, c, st, k)  OBVIOUS
<1>7. t.mem = L_1BE4(st.mem, k, w, l, u) /\ t.left = l /\ t.right = u
  BY <1>2, <1>3, <1>4, <1>6 DEF MixVector
<1>8. st.mem \in Memory  BY DEF Volumes
<1>9. t.mem \in Memory  BY <1>1, <1>5, <1>7, <1>8, VectorTyped
<1>10. QED  BY <1>5, <1>6, <1>7, <1>9 DEF Volumes

(* Mixing, right or wrong. *)
LEMMA MixedTyped ==
    ASSUME NEW a, NEW c, EnvelopsIn(a, c)
    PROVE Volumes(Mixed(a, c))
<1>1. PICK f : /\ f[0] = MixStart(a, c)
               /\ \A k \in 1 .. Vectors : f[k] = MixVector(a, c, f[k - 1], k)
               /\ Mixed(a, c) = f[Vectors]
  BY MixedIs
<1>2. PICK m \in Nat : m = Vectors  BY Sizes
<1> DEFINE A == {k \in 0 .. m : Volumes(f[k])}
<1>3. 0 \in A
  <2>1. a.dmem \in Memory  BY MachineIs DEF EnvelopsIn
  <2>2. Volumes(MixStart(a, c))  BY <2>1, FetchedVolumes DEF MixStart, Volumes
  <2>3. QED  BY <1>1, <2>2
<1>4. ASSUME NEW i \in A, i \in 0 .. m - 1 PROVE i + 1 \in A
  <2>1. PICK k \in 1 .. m : k = i + 1 /\ k - 1 = i
    <3>1. i + 1 \in 1 .. m /\ (i + 1) - 1 = i  BY <1>4
    <3>2. QED  BY <3>1
  <2>2. Volumes(f[k - 1])  BY <2>1
  <2>3. PICK st : st = f[k - 1]  OBVIOUS
  <2>4. Volumes(MixVector(a, c, st, k))  BY <1>2, <2>2, <2>3, VolumesOn
  <2>5. f[k] = MixVector(a, c, st, k)  BY <1>1, <1>2, <2>3
  <2>6. QED  BY <2>1, <2>4, <2>5
<1>5. 0 .. m \subseteq A
  <2> HIDE DEF A
  <2>1. QED  BY <1>3, <1>4, UpInduction
<1>6. m \in 0 .. m  OBVIOUS
<1>7. Volumes(f[m])  BY <1>5, <1>6
<1>8. QED  BY <1>1, <1>2, <1>7

(* ENVMIXER, whatever it finds. *)
LEMMA EnvmixerStill ==
    ASSUME NEW a, Shaped(a), NEW v \in Voices, NEW c, c.op = "ENVMIXER", c.state = <<"env", v>>,
           c.init \in BOOLEAN, c.right \in Int
    PROVE \E d : Run(<<c>>, a, d) /\ Still(a, d, v)
<1>1. a \in Machine  BY DEF Shaped
<1>2. PICK b \in Blocks : b = <<"env", v>>  BY BlocksAre
<1>3. EnvelopsIn(a, c)
  <2>1. a.dram[b] \in Shape(b)  BY DEF Shaped
  <2>2. a.dram[c.state] \in Numbers(Frame + 6)  BY <1>2, <2>1, ShapesAre
  <2>3. QED  BY <1>1, <2>2 DEF EnvelopsIn
<1>4. PICK st : st = Mixed(a, c)  OBVIOUS
<1>5. Volumes(st)  BY <1>3, <1>4, MixedTyped
<1>6. PICK mem \in Memory, l \in Numbers(Lanes), u \in Numbers(Lanes), w \in Numbers(6) :
          mem = st.mem /\ l = st.left /\ u = st.right /\ w = L_1A9C(a, c).v24
  BY <1>3, <1>5, FetchedVolumes DEF Volumes
<1>7. PICK s : s = l \o u \o w  OBVIOUS
<1>8. s \in Numbers(Frame + 6) /\ s \in Shape(<<"env", v>>)
  <2>1. PICK n \in Nat : n = Lanes /\ Frame = n + n  BY LanesAre
  <2>2. Parts(s, n, 6, l, u, w)  BY <1>7, <2>1, ThreeParts
  <2>3. s \in Numbers(Frame + 6)  BY <2>1, <2>2 DEF Parts
  <2>4. QED  BY <2>3, ShapesAre
<1>9. PICK d : d = MixedMachine(a, mem, l, u, w, b, s)  OBVIOUS
<1>10. d \in Machine /\ d.book = a.book /\ d.dram = Stored(a.dram, b, s)
  <2>1. PICK n \in Nat : n = Frame + 6
    <3>1. Frame \in Nat  BY LanesAre
    <3>2. Frame + 6 \in Nat  BY <3>1
    <3>3. QED  BY <3>2
  <2>2. QED  BY <1>1, <1>8, <1>9, <2>1, MixedFields
<1>11. d = L_1A64(a, c)
  <2>1. L_1C5C(a, c) = Stored(a.dram, b, s)  BY <1>2, <1>4, <1>6, <1>7 DEF L_1C5C, Stored
  <2>2. QED  BY <1>4, <1>6, <1>9, <2>1 DEF L_1A64, MixedMachine
<1>12. Handled(c, a, d)  BY <1>11 DEF Handled
<1>13. Run(<<c>>, a, d)  BY <1>1, <1>10, <1>12, RunOne
<1>14. Still(a, d, v)  BY <1>2, <1>8, <1>10, StillStored
<1>15. QED  BY <1>13, <1>14

(* With or without a new ramp. *)
LEMMA EnvelopeStill ==
    ASSUME NEW a, Shaped(a), NEW v \in Voices, NEW s, s.ramp \in Ramps, s.since \in Nat
    PROVE \E d : Run(Envelope(v, s), a, d) /\ Still(a, d, v)
<1>1. PICK r \in Ramps, n \in Nat : r = s.ramp /\ n = s.since  OBVIOUS
<1>2. PICK c : c = [op |-> "ENVMIXER", init |-> s.since = 0, state |-> <<"env", v>>,
                    right |-> IF s.since = 0 THEN s.ramp.startR ELSE 0]
  OBVIOUS
<1>3. c.op = "ENVMIXER" /\ c.state = <<"env", v>> /\ c.init \in BOOLEAN /\ c.right \in Int
  <2>1. r.startR \in Int  BY DEF Ramps
  <2>2. QED  BY <1>1, <1>2, <2>1
<1>4. CASE n = 0
  <2>1. PICK b : Run(<<SetLeft(r), SetRight(r), SetRest(r)>>, a, b) /\ Same(a, b)
    BY SetvolsRun DEF Shaped
  <2>2. Still(a, b, v)  BY <2>1, StillIs DEF Same
  <2>3. Shaped(b)  BY <2>2 DEF Still
  <2>4. PICK d : Run(<<c>>, b, d) /\ Still(b, d, v)  BY <1>3, <2>3, EnvmixerStill
  <2>5. Run(<<SetLeft(r), SetRight(r), SetRest(r)>> \o <<c>>, a, d)  BY <2>1, <2>4, RunConcat
  <2>6. Envelope(v, s) = <<SetLeft(r), SetRight(r), SetRest(r)>> \o <<c>>
    BY <1>1, <1>2, <1>4 DEF Envelope, SetLeft, SetRight, SetRest
  <2>7. Still(a, d, v)  BY <2>2, <2>4, StillTwice
  <2>8. QED  BY <2>5, <2>6, <2>7
<1>5. CASE n # 0
  <2>1. n > 0  BY <1>5
  <2>2. PICK d : Run(<<c>>, a, d) /\ Still(a, d, v)  BY <1>3, EnvmixerStill
  <2>3. Run(<<>> \o <<c>>, a, d)
    <3>1. Run(<<>>, a, a)  BY RunNil DEF Shaped
    <3>2. QED  BY <2>2, <3>1, RunConcat
  <2>4. Envelope(v, s) = <<>> \o <<c>>  BY <1>1, <1>2, <2>1 DEF Envelope
  <2>5. QED  BY <2>2, <2>3, <2>4
<1>6. QED  BY <1>4, <1>5

-----------------------------------------------------------------------------
(* The commands of one voice again, and those of none. *)

(* A list comes to one machine. *)
LEMMA OneEnd ==
    ASSUME NEW t, NEW a, NEW b, NEW d, Run(t, a, b), Run(t, a, d)
    PROVE b = d
<1>1. PICK q : Steps(t, a, b, q)  BY DEF Run
<1>2. PICK r : Steps(t, a, d, r)  BY DEF Run
<1>3. PICK n \in Nat : n = Len(t)
  <2>1. PICK S : t \in Seq(S)  BY DEF Run, IsList
  <2>2. QED  BY <2>1
<1> DEFINE A == {k \in 0 .. n : q[k] = r[k]}
<1>4. 0 \in A  BY <1>1, <1>2 DEF Steps
<1>5. ASSUME NEW i \in A, i \in 0 .. n - 1 PROVE i + 1 \in A
  <2>1. PICK k \in 1 .. n : k = i + 1 /\ k - 1 = i
    <3>1. i + 1 \in 1 .. n /\ (i + 1) - 1 = i  BY <1>5
    <3>2. QED  BY <3>1
  <2>2. Handled(t[k], q[k - 1], q[k]) /\ Handled(t[k], r[k - 1], r[k])
    BY <1>1, <1>2, <1>3 DEF Steps
  <2>3. q[k - 1] = r[k - 1]  BY <2>1
  <2>4. q[k] = r[k]  BY <2>2, <2>3, OneResult
  <2>5. QED  BY <2>1, <2>4
<1>6. 0 .. n \subseteq A
  <2> HIDE DEF A
  <2>1. QED  BY <1>4, <1>5, UpInduction
<1>7. n \in 0 .. n  OBVIOUS
<1>8. q[n] = r[n]  BY <1>6, <1>7
<1>9. QED  BY <1>1, <1>2, <1>3, <1>8 DEF Steps

(* The commands of a voice, whatever they find, touch no other voice's     *)
(* blocks.                                                                 *)
LEMMA PullStill ==
    ASSUME NEW a, Shaped(a), NEW v \in Voices, NEW s, Placed(s), NEW pitch \in Pitches[v],
           tasks \in Nat
    PROVE \E d : Run(Commands(v, s, pitch), a, d) /\ Shaped(d) /\ OnlyOf(a, d, v)
<1>1. PICK load : load = <<[op |-> "LOADADPCM", addr |-> <<"book", v>>]>>  OBVIOUS
<1>2. PICK book \in Numbers(Frame + Frame) : book = a.dram[<<"book", v>>]
  <2>1. PICK b \in Blocks : b = <<"book", v>>  BY BlocksAre
  <2>2. a.dram[b] \in Shape(b)  BY DEF Shaped
  <2>3. QED  BY <2>1, <2>2, ShapesAre
<1>3. PICK b : Run(load, a, b) /\ b \in Machine /\ b.book = book /\ b.dram = a.dram
  BY <1>1, <1>2, LoadbookIs DEF Shaped
<1>4. Shaped(b) /\ OnlyOf(a, b, v)  BY <1>3 DEF Shaped, OnlyOf
<1>5. PICK need : need = Needed(s, pitch)  OBVIOUS
<1>6. pitch \in Nat /\ Ahead(s.place, s.dec)  BY HandlerAssumption DEF Placed
<1>7. Room(v, need)
  <2>1. Needed(s, pitch) \in Nat /\ Needed(s, pitch) <= Most(pitch)  BY <1>6, NeededIs
  <2>2. QED  BY <1>5, <2>1, RoomIs
<1>8. PICK d : Run(Decode(v, s, need), b, d) /\ Still(b, d, v)
  <2>1. s.dec \in Nat  BY <1>6 DEF Ahead
  <2>2. b.book \in Numbers(Frame + Frame)  BY <1>3
  <2>3. QED  BY <1>4, <1>7, <2>1, <2>2, DecodeStill
<1>9. PICK e : Run(Resample(v, s, pitch), d, e) /\ Still(d, e, v)
  BY <1>6, <1>8, ResampleStill DEF Still
<1>10. PICK z : Run(Envelope(v, s), e, z) /\ Still(e, z, v)
  BY <1>9, EnvelopeStill DEF Still, Placed
<1>11. OnlyOf(a, z, v)
  <2>1. Still(d, z, v)  BY <1>9, <1>10, StillTwice
  <2>2. Still(b, z, v)  BY <1>8, <2>1, StillTwice
  <2>3. OnlyOf(b, z, v)  BY <2>2 DEF Still
  <2>4. QED  BY <1>4, <2>3 DEF OnlyOf
<1>12. Run(Commands(v, s, pitch), a, z)
  <2>1. Run(load \o Decode(v, s, need), a, d)  BY <1>3, <1>8, RunConcat
  <2>2. Run(load \o Decode(v, s, need) \o Resample(v, s, pitch), a, e)
    BY <1>9, <2>1, RunConcat
  <2>3. Run(load \o Decode(v, s, need) \o Resample(v, s, pitch) \o Envelope(v, s), a, z)
    BY <1>10, <2>2, RunConcat
  <2>4. QED  BY <1>1, <1>5, <2>3 DEF Commands
<1>13. Shaped(z)  BY <1>10 DEF Still
<1>14. QED  BY <1>11, <1>12, <1>13

(* And run from where the voice is, they do what PullIs says. *)
LEMMA PullComes ==
    ASSUME NEW a, Shaped(a), NEW v \in Voices, NEW s, Placed(s), NEW pitch \in Pitches[v],
           tasks \in Nat
    PROVE \E d : /\ Run(Commands(v, s, pitch), a, d) /\ Shaped(d) /\ OnlyOf(a, d, v)
                 /\ Fixed(a) /\ Keeps(a, v, s) => Pulled(a, d, v, s, pitch)
<1>1. PICK d : Run(Commands(v, s, pitch), a, d) /\ Shaped(d) /\ OnlyOf(a, d, v)  BY PullStill
<1>2. ASSUME Fixed(a), Keeps(a, v, s) PROVE Pulled(a, d, v, s, pitch)
  <2>1. a \in Machine  BY DEF Shaped
  <2>2. PICK e : Run(Commands(v, s, pitch), a, e) /\ Pulled(a, e, v, s, pitch)
    BY <1>2, <2>1, PullIs
  <2>3. d = e  BY <1>1, <2>2, OneEnd
  <2>4. QED  BY <2>2, <2>3
<1>3. QED  BY <1>1, <1>2

(* Entry 14: one word of the ramp in r24 changes. *)
LEMMA HalfRate ==
    ASSUME NEW a, Shaped(a), NEW c, c.op = "0x12B0", c.low \in 0 .. Half - 1
    PROVE \E d : Run(<<c>>, a, d) /\ Shaped(d) /\ d.dmem = a.dmem /\ d.dram = a.dram
<1>1. a \in Machine /\ a.v24 \in Numbers(6)  BY MachineIs DEF Shaped
<1>2. PICK h \in Nat \ {0} : h = Half  BY HandlerAssumption
<1>3. PICK x \in Int : x = a.v24[4] - (a.v24[4] % h) + c.low
  <2>1. a.v24[4] \in Int  BY <1>1 DEF Numbers
  <2>2. a.v24[4] % h \in 0 .. h - 1  BY <2>1, DivIs
  <2>3. c.low \in Int  BY <1>2
  <2>4. QED  BY <2>1, <2>2, <2>3
<1>4. PICK w : w = [a.v24 EXCEPT ![4] = x]  OBVIOUS
<1>5. w \in Numbers(6)  BY <1>1, <1>4 DEF Numbers
<1>6. PICK d : d = [a EXCEPT !.v24 = w]  OBVIOUS
<1>7. d \in Machine /\ d.dmem = a.dmem /\ d.dram = a.dram  BY <1>1, <1>5, <1>6 DEF Machine
<1>8. d = L_12B0(a, c)  BY <1>2, <1>3, <1>4, <1>6 DEF L_12B0
<1>9. Run(<<c>>, a, d)  BY <1>1, <1>7, <1>8, RunOne DEF Handled
<1>10. QED  BY <1>7, <1>9 DEF Shaped

(* 0x1BB4: anything, but the blocks keep their shapes. *)
LEMMA SomethingElse ==
    ASSUME NEW a, Shaped(a), NEW c, c.op = "0x1BB4", Residue(c.finds)
    PROVE \E d : Run(<<c>>, a, d) /\ Shaped(d)
<1>1. PICK r : r = c.finds  OBVIOUS
<1>2. /\ r.dmem \in [Cells -> Int] /\ r.v24 \in Numbers(6)
      /\ r.left \in Numbers(Lanes) /\ r.right \in Numbers(Lanes)
      /\ r.block \in Blocks /\ r.saved \in Shape(r.block)
  BY <1>1 DEF Residue
<1>3. PICK b \in Blocks : b = r.block  BY <1>2
<1>4. PICK s \in Shape(b) : s = r.saved  BY <1>2, <1>3
<1>5. a \in Machine /\ a.dram \in [Blocks -> Seq(Int)]  BY MachineIs DEF Shaped
<1>6. PICK n \in Nat : s \in Numbers(n)  BY <1>4, ShapeIsSeq
<1>7. PICK d : d = MixedMachine(a, r.dmem, r.left, r.right, r.v24, b, s)  OBVIOUS
<1>8. d \in Machine /\ d.dram = Stored(a.dram, b, s)
  <2>1. r.dmem \in Memory  BY <1>2 DEF Memory
  <2>2. QED  BY <1>2, <1>5, <1>6, <1>7, <2>1, MixedFields
<1>9. ASSUME NEW o \in Blocks PROVE d.dram[o] \in Shape(o)
  <2>1. PICK f \in [Blocks -> Seq(Int)] : f = a.dram  BY <1>5
  <2>2. Stored(f, b, s)[b] = s /\ (o # b => Stored(f, b, s)[o] = f[o])  BY <1>6, StoredIs
  <2>3. CASE o = b  BY <1>4, <1>8, <2>1, <2>2, <2>3
  <2>4. CASE o # b
    <3>1. a.dram[o] \in Shape(o)  BY DEF Shaped
    <3>2. QED  BY <1>8, <2>1, <2>2, <2>4, <3>1
  <2>5. QED  BY <2>3, <2>4
<1>10. d = L_1BB4Alone(a, c)  BY <1>1, <1>3, <1>4, <1>7 DEF L_1BB4Alone, MixedMachine, Stored
<1>11. Run(<<c>>, a, d)  BY <1>5, <1>8, <1>10, RunOne DEF Handled
<1>12. QED  BY <1>8, <1>9, <1>11 DEF Shaped

-----------------------------------------------------------------------------
(* The invariant. *)

(* Where the synthesizer may have a voice. *)
VoicePlaces == [fresh : BOOLEAN, place : Nat, dec : Nat, ramp : Ramps, since : Nat]

(* What a list leaves behind: every block its shape; the blocks of a voice *)
(* that lost no commands (it is not in l) where the synthesizer has it (f), *)
(* unless a command went astray; and, if none did harm (h), the mix (w), in *)
(* the buses as long as the list is being written and of the voices that it *)
(* has come to (they are not in t), then in the output's block.            *)
Leaves(z, writing, n, t, f, w, l, h) ==
    /\ Shaped(z) /\ (h # "astray" => Fixed(z)) /\ \A v \in Voices \ l : Keeps(z, v, f[v])
    /\ writing /\ h = "none" /\ l \subseteq t => Mix(z.dmem, w)
    /\ ~writing /\ n > 0 /\ h = "none" /\ l = {} => z.dram[<<"out">>] = w

(* What has been listed so far leaves z behind. *)
Left(z) == Leaves(z, building, tasks, todo, voice, wanted, lost, harm)

(* The synthesizer's own state. *)
Typed ==
    /\ building \in BOOLEAN /\ tasks \in 0 .. MaxTasks /\ todo \subseteq Voices
    /\ voice \in [Voices -> VoicePlaces]
    /\ \A v \in Voices : Placed(voice[v]) /\ (~voice[v].fresh => voice[v].since > 0)
    /\ lost \subseteq Voices /\ harm \in {"none", "cut", "astray"}
    /\ harm = "astray" => lost = Voices

(* What will not be dispatched: nothing, or what follows a command that    *)
(* ends the list.                                                          *)
Undispatched(t, h) == IsList(t) /\ (t = <<>> \/ (Head(t).op = "0x1000" /\ h # "none"))

(* The list is what will be dispatched (pre), which comes to a machine     *)
(* that is as it ought to be, and what will not be (post).                 *)
Parted(pre, post, z) ==
    /\ list = pre \o post /\ Undispatched(post, harm) /\ Run(pre, asp, z) /\ Left(z)
    /\ building /\ harm = "cut" => post # <<>>

(* The inductive invariant. *)
IInv == Typed /\ \E pre, post, z : Parted(pre, post, z)

(* The ramps a voice may get. *)
LEMMA RampsAre ==
    ASSUME NEW v \in Voices
    PROVE Ramp[v] \in Ramps /\ Fade[v] \in Ramps /\ Flat \in Ramps
BY HandlerAssumption DEF Flat, Ramps

(* A voice not yet started. *)
LEMMA SilentIs == Silent \in VoicePlaces /\ Placed(Silent) /\ Silent.fresh /\ Silent.since = 0
<1>1. Flat \in Ramps  BY DEF Flat, Ramps
<1>2. Silent \in VoicePlaces /\ Silent.fresh /\ Silent.since = 0 /\ Silent.place = 0
      /\ Silent.dec = 0 /\ Silent.ramp \in Ramps
  BY <1>1 DEF Silent, VoicePlaces
<1>3. Ahead(0, 0)
  <2>1. PICK p \in Nat \ {0}, f \in Nat \ {0} : p = Phases /\ f = Frame  BY PhasesAre
  <2>2. 0 \div p = 0 /\ f * 0 = 0  BY <2>1
  <2>3. 0 \div Phases <= Frame * 0 /\ Frame * 0 < (0 \div Phases) + Frame
    <3>1. 0 \div p <= f * 0 /\ f * 0 < (0 \div p) + f  BY <2>2
    <3>2. QED  BY <2>1, <3>1
  <2>4. QED  BY <2>3 DEF Ahead
<1>4. QED  BY <1>2, <1>3 DEF Placed

(* However a voice goes on, its blocks are those it goes on from, and if   *)
(* it is started anew it needs none.                                       *)
LEMMA Continues ==
    ASSUME Typed, NEW v \in Voices, NEW s \in Continuations(v)
    PROVE /\ s \in VoicePlaces /\ Placed(s)
          /\ \A z : s.fresh \/ Keeps(z, v, voice[v]) => Keeps(z, v, s)
<1>1. PICK p \in VoicePlaces : p = voice[v] /\ Placed(p)  BY DEF Typed
<1>2. Ramp[v] \in Ramps /\ Fade[v] \in Ramps  BY RampsAre
<1>3. CASE s = [Silent EXCEPT !.ramp = Ramp[v]]
  <2>1. PICK q \in VoicePlaces : q = Silent /\ q.fresh /\ q.since = 0 /\ Placed(q)  BY SilentIs
  <2>2. PICK t : t = [q EXCEPT !.ramp = Ramp[v]]  OBVIOUS
  <2>3. /\ t \in VoicePlaces /\ t.fresh = q.fresh /\ t.place = q.place /\ t.dec = q.dec
        /\ t.since = q.since /\ t.ramp = Ramp[v]
    BY <1>2, <2>2 DEF VoicePlaces
  <2>4. Placed(t)  BY <1>2, <2>1, <2>3 DEF Placed
  <2>5. \A z : Keeps(z, v, t)
    <3>1. t.fresh = TRUE /\ ~(t.since > 0)  BY <2>1, <2>3 DEF VoicePlaces
    <3>2. QED  BY <3>1 DEF Keeps
  <2>6. QED  BY <1>3, <2>1, <2>2, <2>3, <2>4, <2>5
<1>4. CASE ~p.fresh /\ s = p  BY <1>1, <1>4
<1>5. CASE ~p.fresh /\ s = [p EXCEPT !.ramp = Fade[v], !.since = 0]
  <2>1. PICK t : t = [p EXCEPT !.ramp = Fade[v], !.since = 0]  OBVIOUS
  <2>2. /\ t \in VoicePlaces /\ t.fresh = p.fresh /\ t.place = p.place /\ t.dec = p.dec
        /\ t.since = 0 /\ t.ramp = Fade[v]
    BY <1>2, <2>1 DEF VoicePlaces
  <2>3. Placed(t)  BY <1>1, <1>2, <2>2 DEF Placed
  <2>4. ASSUME NEW z, t.fresh \/ Keeps(z, v, voice[v]) PROVE Keeps(z, v, t)
    <3>1. ~(t.since > 0) /\ ~t.fresh  BY <1>5, <2>2
    <3>2. Keeps(z, v, p)  BY <1>1, <2>4, <3>1
    <3>3. QED  BY <2>2, <3>1, <3>2 DEF Keeps
  <2>5. QED  BY <1>5, <2>1, <2>2, <2>3, <2>4
<1>6. QED  BY <1>1, <1>3, <1>4, <1>5 DEF Continuations

(* The blocks of the other voices are not written. *)
LEMMA OthersKeep ==
    ASSUME NEW z, NEW d, NEW v \in Voices, OnlyOf(z, d, v)
    PROVE /\ Fixed(z) => Fixed(d)
          /\ \A u \in Voices : \A s : u # v /\ Keeps(z, u, s) => Keeps(d, u, s)
<1>1. ASSUME NEW u \in Voices
      PROVE /\ d.dram[<<"rom", u>>] = z.dram[<<"rom", u>>]
            /\ d.dram[<<"book", u>>] = z.dram[<<"book", u>>]
            /\ d.dram[<<"loop", u>>] = z.dram[<<"loop", u>>]
  BY BlocksAre DEF OnlyOf
<1>2. ASSUME NEW u \in Voices, u # v
      PROVE /\ d.dram[<<"adpcm", u>>] = z.dram[<<"adpcm", u>>]
            /\ d.dram[<<"resample", u>>] = z.dram[<<"resample", u>>]
            /\ d.dram[<<"env", u>>] = z.dram[<<"env", u>>]
  BY <1>2, BlocksAre DEF OnlyOf
<1>3. Fixed(z) => Fixed(d)  BY <1>1 DEF Fixed
<1>4. ASSUME NEW u \in Voices, NEW s, u # v, Keeps(z, u, s) PROVE Keeps(d, u, s)
  BY <1>2, <1>4 DEF Keeps
<1>5. QED  BY <1>3, <1>4

(* Who has lost commands once v has been pulled. *)
LostBy(v, s) ==
    IF harm # "none" THEN lost \union {v} ELSE IF s.fresh THEN lost \ {v} ELSE lost

(* The commands of a voice, after what was written before them. *)
LEMMA PullLeaves ==
    ASSUME Typed, building, harm # "cut", NEW z, Left(z), NEW v \in todo,
           NEW s \in Continuations(v), NEW pitch \in Pitches[v],
           NEW f, f = [voice EXCEPT ![v] = After(s, pitch)]
    PROVE \E d : /\ Run(Commands(v, s, pitch), z, d)
                 /\ Leaves(d, TRUE, tasks, todo \ {v}, f, Wanted(wanted, v, s, pitch),
                           LostBy(v, s), harm)
<1>1. v \in Voices /\ tasks \in Nat /\ voice \in [Voices -> VoicePlaces] /\ lost \subseteq Voices
  BY DEF Typed
<1>2. s \in VoicePlaces /\ Placed(s) /\ (s.fresh \/ Keeps(z, v, voice[v]) => Keeps(z, v, s))
  BY <1>1, Continues
<1>3. /\ Shaped(z) /\ (harm # "astray" => Fixed(z))
      /\ \A u \in Voices \ lost : Keeps(z, u, voice[u])
      /\ harm = "none" /\ lost \subseteq todo => Mix(z.dmem, wanted)
  BY DEF Left, Leaves
<1>4. PICK d : /\ Run(Commands(v, s, pitch), z, d) /\ Shaped(d) /\ OnlyOf(z, d, v)
               /\ Fixed(z) /\ Keeps(z, v, s) => Pulled(z, d, v, s, pitch)
  BY <1>1, <1>2, <1>3, PullComes
<1>5. PICK l : l = LostBy(v, s)  OBVIOUS
<1>6. l \subseteq Voices /\ lost \ {v} \subseteq l /\ (v \notin l => harm = "none" /\ (s.fresh \/ v \notin lost))
  BY <1>1, <1>5 DEF LostBy
<1>7. v \notin l => Pulled(z, d, v, s, pitch)
  <2>1. SUFFICES ASSUME v \notin l PROVE Pulled(z, d, v, s, pitch)  OBVIOUS
  <2>2. harm = "none" /\ (s.fresh \/ Keeps(z, v, voice[v]))  BY <1>1, <1>3, <1>6, <2>1
  <2>3. QED  BY <1>2, <1>3, <1>4, <2>2
<1>8. harm # "astray" => Fixed(d)  BY <1>1, <1>3, <1>4, OthersKeep
<1>9. ASSUME NEW u \in Voices \ l PROVE Keeps(d, u, f[u])
  <2>1. CASE u = v
    <3>1. f[u] = After(s, pitch)  BY <1>1, <2>1
    <3>2. QED  BY <1>7, <1>9, <2>1, <3>1 DEF Pulled
  <2>2. CASE u # v
    <3>1. f[u] = voice[u]  BY <1>1, <2>2
    <3>2. Keeps(z, u, voice[u])  BY <1>3, <1>6, <1>9, <2>2
    <3>3. Keeps(d, u, voice[u])  BY <1>1, <1>4, <1>9, <2>2, <3>2, OthersKeep
    <3>4. QED  BY <3>1, <3>3
  <2>3. QED  BY <2>1, <2>2
<1>10. ASSUME harm = "none", l \subseteq todo \ {v}
       PROVE Mix(d.dmem, Wanted(wanted, v, s, pitch))
  <2>1. v \notin l /\ lost \subseteq todo  BY <1>6, <1>10
  <2>2. Mix(z.dmem, wanted)  BY <1>3, <1>10, <2>1
  <2>3. Sounds(z.dmem, d.dmem, v, s, pitch)  BY <1>7, <2>1 DEF Pulled
  <2>4. d.dmem \in Memory  BY <1>4, MachineIs DEF Shaped
  <2>5. QED  BY <1>1, <1>2, <2>2, <2>3, <2>4, WantedOn
<1>11. Leaves(d, TRUE, tasks, todo \ {v}, f, Wanted(wanted, v, s, pitch), l, harm)
  BY <1>4, <1>8, <1>9, <1>10 DEF Leaves
<1>12. QED  BY <1>4, <1>5, <1>11

(* Whatever is in the buses, they come to some output. *)
LEMMA SomeMix ==
    ASSUME NEW mem \in Memory
    PROVE \E w : Mix(mem, w)
<1>1. PICK g \in Int, b \in Nat : g = Gain /\ b = Buffer  BY HandlerAssumption, BuffersAre
<1>2. PICK w : w = [i \in 1 .. 2 * b |->
                       IF i % 2 = 1 THEN mem[DryL + i \div 2] + g * mem[WetL + i \div 2]
                       ELSE mem[DryR + (i \div 2 - 1)] + g * mem[WetR + (i \div 2 - 1)]]
  OBVIOUS
<1>3. ASSUME NEW x \in 0 .. b - 1
      PROVE /\ 2 * x + 1 \in 1 .. 2 * b /\ 2 * x + 2 \in 1 .. 2 * b
            /\ w[2 * x + 1] = mem[DryL + x] + g * mem[WetL + x] /\ w[2 * x + 1] \in Int
            /\ w[2 * x + 2] = mem[DryR + x] + g * mem[WetR + x] /\ w[2 * x + 2] \in Int
  <2>1. x \in Nat /\ 2 * x + 1 \in 1 .. 2 * b /\ 2 * x + 2 \in 1 .. 2 * b  OBVIOUS
  <2>2. /\ (2 * x + 1) % 2 = 1 /\ (2 * x + 2) % 2 = 0
        /\ (2 * x + 1) \div 2 = x /\ (2 * x + 2) \div 2 = x + 1
    BY <2>1, OddEven
  <2>3. (x + 1) - 1 = x  BY <2>1
  <2>4. ASSUME NEW bus \in Buses PROVE mem[bus + x] \in Int
    <3>1. bus + x \in Cells  BY <1>1, InBus
    <3>2. QED  BY <3>1 DEF Memory
  <2>5. mem[DryL + x] \in Int /\ mem[WetL + x] \in Int /\ mem[DryR + x] \in Int /\ mem[WetR + x] \in Int
    BY <2>4, BusesDiffer
  <2>6. /\ w[2 * x + 1] = mem[DryL + x] + g * mem[WetL + x]
        /\ w[2 * x + 2] = mem[DryR + x] + g * mem[WetR + x]
    BY <1>2, <2>1, <2>2, <2>3
  <2>7. PICK p \in Int, q \in Int, r \in Int, t \in Int :
            p = mem[DryL + x] /\ q = mem[WetL + x] /\ r = mem[DryR + x] /\ t = mem[WetR + x]
    BY <2>5
  <2>8. p + g * q \in Int /\ r + g * t \in Int  OBVIOUS
  <2>9. QED  BY <2>1, <2>6, <2>7, <2>8
<1>4. ASSUME NEW i \in 1 .. 2 * b PROVE w[i] \in Int
  <2>1. PICK x \in 0 .. Buffer - 1 : i = 2 * x + 1 \/ i = 2 * x + 2  BY <1>1, Halves
  <2>2. QED  BY <1>1, <1>3, <2>1
<1>5. w \in Numbers(2 * b)
  <2>1. w = [i \in 1 .. 2 * b |-> w[i]]  BY <1>2
  <2>2. QED  BY <1>4, <2>1 DEF Numbers
<1>6. QED  BY <1>1, <1>3, <1>5 DEF Mix

(* The blocks as they are before anything has run. *)
Blank == [b \in Blocks |-> CASE b[1] = "rom"      -> Rom[b[2]]
                             [] b[1] = "book"     -> Book(b[2])
                             [] b[1] = "loop"     -> Before(b[2], LoopStart[b[2]])
                             [] b[1] = "adpcm"    -> Zeros(Frame)
                             [] b[1] = "resample" -> Zeros(Taps + 1)
                             [] b[1] = "env"      -> Zeros(Frame + 6)
                             [] OTHER             -> <<>>]

(* The blocks of a voice. *)
LEMMA BlankOf ==
    ASSUME NEW v \in Voices
    PROVE /\ Blank[<<"rom", v>>] = Rom[v] /\ Blank[<<"book", v>>] = Book(v)
          /\ Blank[<<"loop", v>>] = Before(v, LoopStart[v])
          /\ Blank[<<"adpcm", v>>] = Zeros(Frame) /\ Blank[<<"resample", v>>] = Zeros(Taps + 1)
          /\ Blank[<<"env", v>>] = Zeros(Frame + 6)
<1>1. PICK b \in Blocks : b = <<"rom", v>> /\ b[1] = "rom" /\ b[2] = v  BY BlocksAre
<1>2. PICK c \in Blocks : c = <<"book", v>> /\ c[1] = "book" /\ c[2] = v  BY BlocksAre
<1>3. PICK d \in Blocks : d = <<"loop", v>> /\ d[1] = "loop" /\ d[2] = v  BY BlocksAre
<1>4. PICK e \in Blocks : e = <<"adpcm", v>> /\ e[1] = "adpcm"  BY BlocksAre
<1>5. PICK f \in Blocks : f = <<"resample", v>> /\ f[1] = "resample"  BY BlocksAre
<1>6. PICK g \in Blocks : g = <<"env", v>> /\ g[1] = "env"  BY BlocksAre
<1>7. Blank[b] = Rom[v]  BY <1>1 DEF Blank
<1>8. Blank[c] = Book(v)  BY <1>2 DEF Blank
<1>9. Blank[d] = Before(v, LoopStart[v])  BY <1>3 DEF Blank
<1>10. Blank[e] = Zeros(Frame)  BY <1>4 DEF Blank
<1>11. Blank[f] = Zeros(Taps + 1)  BY <1>5 DEF Blank
<1>12. Blank[g] = Zeros(Frame + 6)  BY <1>6 DEF Blank
<1>13. QED  BY <1>1, <1>2, <1>3, <1>4, <1>5, <1>6, <1>7, <1>8, <1>9, <1>10, <1>11, <1>12

(* They are sequences of numbers, and the fixed ones are as they ought to  *)
(* be.                                                                     *)
LEMMA BlankIs == Blank \in [Blocks -> Seq(Int)] /\ \A b \in Blocks : Blank[b] \in Shape(b)
<1>1. PICK f \in Nat, t \in Nat : f = Frame /\ t = Taps  BY PhasesAre
<1>2. f + 6 \in Nat /\ f + f \in Nat /\ t + 1 \in Nat /\ t + 1 \in 1 .. t + 1  OBVIOUS
<1>3. ASSUME NEW v \in Voices
      PROVE /\ Blank[<<"rom", v>>] \in Shape(<<"rom", v>>)
            /\ Blank[<<"book", v>>] \in Shape(<<"book", v>>)
            /\ Blank[<<"loop", v>>] \in Shape(<<"loop", v>>)
            /\ Blank[<<"adpcm", v>>] \in Shape(<<"adpcm", v>>)
            /\ Blank[<<"resample", v>>] \in Shape(<<"resample", v>>)
            /\ Blank[<<"env", v>>] \in Shape(<<"env", v>>)
  <2>1. Rom[v] \in Numbers(Len(Rom[v]))
    <3>1. Rom[v] \in Seq(Nat)  BY HandlerAssumption
    <3>2. Rom[v] \in Seq(Int)  BY <3>1
    <3>3. QED  BY <3>2, SeqIs
  <2>2. Book(v) \in Numbers(Frame + Frame)  BY BookTyped
  <2>3. LoopStart[v] \in Int  BY RomIs
  <2>4. Before(v, LoopStart[v]) \in Numbers(Frame)  BY <2>3, BeforeTyped
  <2>5. Zeros(f) \in Numbers(f) /\ Zeros(f + 6) \in Numbers(f + 6)  BY <1>2, ZerosAre
  <2>6. Zeros(t + 1) \in Numbers(t + 1) /\ Zeros(t + 1)[t + 1] = 0  BY <1>2, ZerosAre
  <2>7. 0 \in 0 .. Phases - 1
    <3>1. PICK d \in Nat \ {0} : d = Phases  BY PhasesAre
    <3>2. QED  BY <3>1
  <2>8. Zeros(Taps + 1) \in {s \in Numbers(Taps + 1) : s[Taps + 1] \in 0 .. Phases - 1}
    BY <1>1, <2>6, <2>7
  <2>9. QED  BY <1>1, <2>1, <2>2, <2>4, <2>5, <2>8, BlankOf, ShapesAre
<1>4. ASSUME NEW b \in Blocks PROVE Blank[b] \in Shape(b)
  <2>1. CASE b = <<"out">>
    <3>1. PICK o \in Blocks : o = <<"out">> /\ o[1] = "out"  BY BlocksAre
    <3>2. Blank[o] = <<>> /\ Shape(o) = Seq(Int)  BY <3>1 DEF Blank, Shape
    <3>3. <<>> \in Seq(Int)  OBVIOUS
    <3>4. QED  BY <2>1, <3>1, <3>2, <3>3
  <2>2. ASSUME NEW v \in Voices, b \in {<<"rom", v>>, <<"book", v>>, <<"loop", v>>, <<"adpcm", v>>,
                                        <<"resample", v>>, <<"env", v>>}
        PROVE Blank[b] \in Shape(b)
    BY <1>3, <2>2
  <2>3. QED  BY <2>1, <2>2 DEF Blocks
<1>5. ASSUME NEW b \in Blocks PROVE Blank[b] \in Seq(Int)
  <2>1. Blank[b] \in Shape(b)  BY <1>4
  <2>2. PICK n \in Nat : Blank[b] \in Numbers(n)  BY <2>1, ShapeIsSeq
  <2>3. QED  BY <2>2, NumbersAre
<1>6. DOMAIN Blank = Blocks /\ Blank = [b \in Blocks |-> Blank[b]]  BY DEF Blank
<1>7. QED  BY <1>4, <1>5, <1>6

(* The initial state is a machine. *)
LEMMA InitMachine ==
    ASSUME Init
    PROVE asp \in Machine /\ asp.dram = Blank
<1>1. PICK r \in [Blocks -> Seq(Int)] : r = Blank  BY BlankIs
<1>2. PICK l \in Nat : l = Lanes  BY LanesAre
<1>3. PICK s \in Numbers(l), w \in Numbers(6) : s = Zeros(Lanes) /\ w = Zeros(6)
  <2>1. 6 \in Nat  OBVIOUS
  <2>2. Zeros(l) \in Numbers(l) /\ Zeros(6) \in Numbers(6)  BY <2>1, ZerosAre
  <2>3. QED  BY <1>2, <2>2
<1>4. PICK m : m = [c \in Cells |-> 0]  OBVIOUS
<1>5. m \in Memory  BY <1>4 DEF Memory
<1>6. asp = [dmem |-> m, book |-> <<>>, loop |-> <<"out">>, left |-> s, right |-> s,
             v24 |-> w, start |-> 0, dram |-> r]
  BY <1>1, <1>3, <1>4 DEF Init, Blank
<1>7. <<"out">> \in Blocks  BY BlocksAre
<1>8. QED  BY <1>1, <1>2, <1>5, <1>6, <1>7 DEF Machine, Memory

(* An empty list, *)
LEMMA NoList == IsList(<<>>)
<1>1. <<>> \in Seq({})  OBVIOUS
<1>2. QED  BY <1>1 DEF IsList

(* a list of one command, *)
LEMMA OneList ==
    ASSUME NEW c
    PROVE IsList(<<c>>)
<1>1. <<c>> \in Seq({c})  OBVIOUS
<1>2. QED  BY <1>1 DEF IsList

(* and one list behind the other. *)
LEMMA ListsJoin ==
    ASSUME NEW p, IsList(p), NEW t, IsList(t)
    PROVE /\ IsList(p \o t) /\ p \o <<>> = p /\ <<>> \o p = p
          /\ p \o t = <<>> => p = <<>> /\ t = <<>>
          /\ p # <<>> => Head(p \o t) = Head(p) /\ Tail(p \o t) = Tail(p) \o t /\ p \o t # <<>>
<1>1. PICK R : p \in Seq(R)  BY DEF IsList
<1>2. PICK T : t \in Seq(T)  BY DEF IsList
<1>3. PICK S : S = R \union T  OBVIOUS
<1>4. p \in Seq(S) /\ t \in Seq(S)  BY <1>1, <1>2, <1>3
<1>5. p \o t \in Seq(S) /\ p \o <<>> = p /\ <<>> \o p = p  BY <1>4
<1>6. p \o t = <<>> => p = <<>> /\ t = <<>>
  <2>1. SUFFICES ASSUME p \o t = <<>> PROVE p = <<>> /\ t = <<>>  OBVIOUS
  <2>2. Len(p \o t) = Len(p) + Len(t) /\ Len(<<>>) = 0  BY <1>4
  <2>3. Len(p) = 0 /\ Len(t) = 0  BY <1>4, <2>1, <2>2
  <2>4. QED  BY <1>4, <2>3
<1>7. p # <<>> => Head(p \o t) = Head(p) /\ Tail(p \o t) = Tail(p) \o t /\ p \o t # <<>>
  BY <1>4, <1>6
<1>8. QED  BY <1>5, <1>6, <1>7 DEF IsList

(* Of three lists, any two may be joined first. *)
LEMMA ListsRejoin ==
    ASSUME NEW p, IsList(p), NEW t, IsList(t), NEW x, IsList(x)
    PROVE (p \o t) \o x = p \o (t \o x)
<1>1. PICK R : p \in Seq(R)  BY DEF IsList
<1>2. PICK T : t \in Seq(T)  BY DEF IsList
<1>3. PICK X : x \in Seq(X)  BY DEF IsList
<1>4. PICK S : S = R \union T \union X  OBVIOUS
<1>5. p \in Seq(S) /\ t \in Seq(S) /\ x \in Seq(S)  BY <1>1, <1>2, <1>3, <1>4
<1>6. QED  BY <1>5

(* Before anything is listed there is nothing to run. *)
LEMMA InitIInv ==
    ASSUME Init
    PROVE IInv
<1>1. Typed
  <2>1. MaxTasks \in Nat  BY HandlerAssumption
  <2>2. 0 \in 0 .. MaxTasks  BY <2>1
  <2>3. /\ building = FALSE /\ tasks = 0 /\ todo = {} /\ voice = [v \in Voices |-> Silent]
        /\ lost = {} /\ harm = "none"
    BY DEF Init
  <2>4. QED  BY <2>2, <2>3, SilentIs DEF Typed
<1>2. asp \in Machine /\ asp.dram = Blank  BY InitMachine
<1>3. list = <<>> /\ building = FALSE /\ tasks = 0 /\ harm = "none"  BY DEF Init
<1>4. Run(<<>>, asp, asp)  BY <1>2, RunNil
<1>5. Left(asp)
  <2>1. Fixed(asp)  BY <1>2, BlankOf DEF Fixed
  <2>2. ASSUME NEW v \in Voices PROVE Keeps(asp, v, voice[v])
    <3>1. voice[v] = Silent  BY DEF Init
    <3>2. Silent.fresh /\ ~(Silent.since > 0)  BY SilentIs
    <3>3. QED  BY <3>1, <3>2 DEF Keeps
  <2>3. ~(tasks > 0)  BY <1>3
  <2>4. Shaped(asp)  BY <1>2, BlankIs DEF Shaped
  <2>5. QED  BY <1>3, <2>1, <2>2, <2>3, <2>4 DEF Left, Leaves
<1>6. list = <<>> \o <<>> /\ IsList(<<>>)  BY <1>3, NoList, ListsJoin
<1>7. Parted(<<>>, <<>>, asp)  BY <1>3, <1>4, <1>5, <1>6 DEF Parted, Undispatched
<1>8. QED  BY <1>1, <1>7 DEF IInv

(* When nothing is left to be dispatched, the machine is where it ought to *)
(* be.                                                                     *)
LEMMA Arrived ==
    ASSUME NEW pre, NEW post, NEW z, Parted(pre, post, z), list = <<>>
    PROVE Left(asp) /\ asp \in Machine
<1>1. IsList(pre) /\ IsList(post) /\ Run(pre, asp, z) /\ Left(z) /\ pre \o post = <<>>
  BY DEF Parted, Undispatched, Run
<1>2. pre = <<>>  BY <1>1, ListsJoin
<1>3. z = asp /\ asp \in Machine  BY <1>1, <1>2, RunNone, RunTyped
<1>4. QED  BY <1>1, <1>3

(* The first command clears the buses, on which nothing is wanted yet. *)
LEMMA StartIInv ==
    ASSUME IInv, StartList
    PROVE IInv'
<1>1. PICK c : c = <<[op |-> "CLEARBUFF", dst |-> DryL, n |-> 4 * Buffer]>>  OBVIOUS
<1>2. Typed /\ MaxTasks \in Nat  BY HandlerAssumption DEF IInv
<1>3. PICK h : h = IF harm = "cut" THEN "none" ELSE harm  OBVIOUS
<1>4. list = <<>> /\ ~building /\ asp' = asp /\ list' = c /\ building' = TRUE /\ voice' = voice
      /\ wanted' = Zeros(2 * Buffer) /\ tasks' = tasks + 1 /\ tasks < MaxTasks /\ todo' = Voices
      /\ lost' = lost /\ harm' = h
  BY <1>1, <1>3 DEF StartList
<1>5. h # "cut" /\ h \in {"none", "cut", "astray"} /\ (h = "astray" => harm = "astray")
      /\ (harm = "astray" => h = "astray")
  BY <1>2, <1>3 DEF Typed
<1>6. Left(asp) /\ asp \in Machine  BY <1>4, Arrived DEF IInv
<1>7. PICK d : Run(c, asp, d) /\ d \in Machine /\ d.dram = asp.dram /\ Mix(d.dmem, Zeros(2 * Buffer))
  BY <1>1, <1>6, StartRun
<1>8. Leaves(d, TRUE, tasks + 1, Voices, voice, Zeros(2 * Buffer), lost, h)
  <2>1. /\ Shaped(asp) /\ (harm # "astray" => Fixed(asp))
        /\ \A v \in Voices \ lost : Keeps(asp, v, voice[v])
    BY <1>6 DEF Left, Leaves
  <2>2. Shaped(d)  BY <1>7, <2>1 DEF Shaped
  <2>3. h # "astray" => Fixed(d)  BY <1>5, <1>7, <2>1 DEF Fixed
  <2>4. \A v \in Voices \ lost : Keeps(d, v, voice[v])  BY <1>7, <2>1 DEF Keeps
  <2>5. QED  BY <1>7, <2>2, <2>3, <2>4 DEF Leaves
<1>9. Left(d)'  BY <1>4, <1>8 DEF Left
<1>10. IsList(c) /\ c \o <<>> = c  BY <1>7, NoList, ListsJoin DEF Run
<1>11. Parted(c, <<>>, d)'  BY <1>4, <1>5, <1>7, <1>9, <1>10, NoList DEF Parted, Undispatched
<1>12. Typed'
  <2>1. tasks + 1 \in 0 .. MaxTasks  BY <1>2, <1>4 DEF Typed
  <2>2. QED  BY <1>2, <1>4, <1>5, <2>1 DEF Typed
<1>13. QED  BY <1>11, <1>12 DEF IInv

(* A voice after a list is one the synthesizer may go on from. *)
LEMMA PulledTyped ==
    ASSUME Typed, NEW v \in Voices, NEW s \in Continuations(v), NEW pitch \in Pitches[v],
           voice' = [voice EXCEPT ![v] = After(s, pitch)]
    PROVE /\ voice' \in [Voices -> VoicePlaces]
          /\ \A u \in Voices : Placed(voice'[u]) /\ (~voice'[u].fresh => voice'[u].since > 0)
<1>1. s \in VoicePlaces /\ Placed(s)  BY Continues
<1>2. Placed(After(s, pitch))  BY <1>1, PlacedOn
<1>3. PICK n \in Nat \ {0} : n = Buffer  BY PhasesAre
<1>4. PICK t : t = After(s, pitch)  OBVIOUS
<1>5. s.ramp \in Ramps /\ s.since \in Nat  BY <1>1 DEF VoicePlaces
<1>6. t.fresh = FALSE /\ t.since = s.since + n /\ t.ramp = s.ramp /\ t.place \in Nat /\ t.dec \in Nat
  BY <1>2, <1>3, <1>4 DEF After, Placed, Ahead
<1>7. t \in VoicePlaces
  <2>1. t = [fresh |-> t.fresh, place |-> t.place, dec |-> t.dec, ramp |-> t.ramp, since |-> t.since]
    BY <1>4 DEF After
  <2>2. t.since \in Nat  BY <1>5, <1>6
  <2>3. QED  BY <1>5, <1>6, <2>1, <2>2 DEF VoicePlaces
<1>8. t.since > 0  BY <1>3, <1>5, <1>6
<1>9. ASSUME NEW u \in Voices
      PROVE Placed(voice'[u]) /\ (~voice'[u].fresh => voice'[u].since > 0)
  <2>1. CASE u = v
    <3>1. voice'[u] = t  BY <1>4, <2>1 DEF Typed
    <3>2. QED  BY <1>2, <1>4, <1>8, <3>1
  <2>2. CASE u # v
    <3>1. voice'[u] = voice[u]  BY <2>2 DEF Typed
    <3>2. QED  BY <3>1 DEF Typed
  <2>3. QED  BY <2>1, <2>2
<1>10. voice' \in [Voices -> VoicePlaces]  BY <1>4, <1>7 DEF Typed
<1>11. QED  BY <1>9, <1>10

(* Pull appends the commands of one voice: the machine that the list came  *)
(* to so far goes on by them.                                              *)
LEMMA PullIInv ==
    ASSUME IInv, NEW v \in Voices, Pull(v)
    PROVE IInv'
<1>1. PICK pitch \in Pitches[v], s \in Continuations(v) :
          /\ list' = list \o Commands(v, s, pitch)
          /\ voice' = [voice EXCEPT ![v] = After(s, pitch)]
          /\ wanted' = Wanted(wanted, v, s, pitch)
          /\ lost' = LostBy(v, s)
  BY DEF Pull, Commands, After, Wanted, LostBy
<1>2. Typed  BY DEF IInv
<1>3. building = TRUE /\ building' = TRUE /\ asp' = asp /\ tasks' = tasks /\ todo' = todo \ {v}
      /\ harm' = harm /\ v \in todo
  BY <1>2 DEF Pull, Typed
<1>4. PICK pre, post, z : Parted(pre, post, z)  BY DEF IInv
<1>5. list = pre \o post /\ IsList(pre) /\ IsList(post) /\ Run(pre, asp, z) /\ Left(z)
      /\ (post = <<>> \/ (Head(post).op = "0x1000" /\ harm # "none"))
      /\ (harm = "cut" => post # <<>>)
  BY <1>3, <1>4 DEF Parted, Undispatched, Run
<1>6. PICK x : x = Commands(v, s, pitch)  OBVIOUS
<1>7. IsList(x)
  <2>1. Shaped(z)  BY <1>5 DEF Left, Leaves
  <2>2. Placed(s) /\ tasks \in Nat  BY <1>2, Continues DEF Typed
  <2>3. QED  BY <1>6, <2>1, <2>2, PullComes DEF Run
<1>8. Typed'
  <2>1. lost' \subseteq Voices /\ (harm = "astray" => lost' = Voices)
    BY <1>1, <1>2 DEF Typed, LostBy
  <2>2. QED  BY <1>1, <1>2, <1>3, <2>1, PulledTyped DEF Typed
<1>9. CASE post = <<>>
  <2>1. harm # "cut"  BY <1>5, <1>9
  <2>2. PICK f : f = [voice EXCEPT ![v] = After(s, pitch)]  OBVIOUS
  <2>3. PICK d : /\ Run(x, z, d)
                 /\ Leaves(d, TRUE, tasks, todo \ {v}, f, Wanted(wanted, v, s, pitch),
                           LostBy(v, s), harm)
    BY <1>2, <1>3, <1>5, <1>6, <2>1, <2>2, PullLeaves
  <2>4. Left(d)'  BY <1>1, <1>3, <2>2, <2>3 DEF Left
  <2>5. PICK p : p = pre \o x  OBVIOUS
  <2>6. Run(p, asp, d)  BY <1>5, <2>3, <2>5, RunConcat
  <2>7. pre \o <<>> = pre  BY <1>5, ListsJoin
  <2>8. p \o <<>> = p  BY <2>6, ListsJoin, NoList DEF Run
  <2>9. list' = p \o <<>>  BY <1>1, <1>5, <1>6, <1>9, <2>5, <2>7, <2>8
  <2>10. Parted(p, <<>>, d)'  BY <1>3, <2>1, <2>4, <2>6, <2>9, NoList DEF Parted, Undispatched
  <2>11. QED  BY <1>8, <2>10 DEF IInv
<1>10. CASE post # <<>>
  <2>1. PICK q : q = post \o x  OBVIOUS
  <2>2. IsList(q) /\ q # <<>> /\ Head(q) = Head(post)  BY <1>5, <1>7, <1>10, <2>1, ListsJoin
  <2>3. list' = pre \o q
    <3>1. (pre \o post) \o x = pre \o (post \o x)  BY <1>5, <1>7, ListsRejoin
    <3>2. QED  BY <1>1, <1>5, <1>6, <2>1, <3>1
  <2>4. harm # "none" /\ lost' = lost \union {v}  BY <1>1, <1>5, <1>10 DEF LostBy
  <2>5. Left(z)'
    <3>1. /\ Shaped(z) /\ (harm # "astray" => Fixed(z))
          /\ \A u \in Voices \ lost : Keeps(z, u, voice[u])
      BY <1>5 DEF Left, Leaves
    <3>2. ASSUME NEW u \in Voices \ lost' PROVE Keeps(z, u, voice'[u])
      <4>1. u # v /\ u \in Voices \ lost  BY <2>4, <3>2
      <4>2. voice'[u] = voice[u]  BY <1>1, <1>2, <4>1 DEF Typed
      <4>3. QED  BY <3>1, <4>1, <4>2
    <3>3. QED  BY <1>3, <2>4, <3>1, <3>2 DEF Left, Leaves
  <2>6. Parted(pre, q, z)'
    <3>1. Head(q).op = "0x1000" /\ harm' # "none"  BY <1>3, <1>5, <1>10, <2>2
    <3>2. Undispatched(q, harm)'  BY <2>2, <3>1 DEF Undispatched
    <3>3. Run(pre, asp, z)'  BY <1>3, <1>5
    <3>4. QED  BY <2>2, <2>3, <2>5, <3>2, <3>3 DEF Parted
  <2>7. QED  BY <1>8, <2>6 DEF IInv
<1>11. QED  BY <1>9, <1>10

(* A command of no voice either leads to the dispatch of what follows it,  *)
(* or ends the list.                                                       *)
LEMMA AsideIInv ==
    ASSUME IInv, Aside
    PROVE IInv'
<1>1. Typed  BY DEF IInv
<1>2. PICK c \in Asides :
          /\ list' = Append(list, c)
          /\ harm' = IF harm # "none" \/ c.op = "0x12B0" THEN harm
                     ELSE IF c.op = "0x1000" THEN "cut" ELSE "astray"
  BY DEF Aside
<1>3. building = TRUE /\ building' = TRUE /\ asp' = asp /\ tasks' = tasks /\ todo' = todo
      /\ voice' = voice /\ wanted' = wanted
      /\ lost' = IF harm' = "astray" THEN Voices ELSE lost
  BY <1>1 DEF Aside, Typed
<1>4. PICK pre, post, z : Parted(pre, post, z)  BY DEF IInv
<1>5. list = pre \o post /\ IsList(pre) /\ IsList(post) /\ Run(pre, asp, z) /\ Left(z)
      /\ (post = <<>> \/ (Head(post).op = "0x1000" /\ harm # "none"))
      /\ (harm = "cut" => post # <<>>)
  BY <1>3, <1>4 DEF Parted, Undispatched, Run
<1>6. PICK x : x = <<c>>  OBVIOUS
<1>7. IsList(x) /\ x # <<>> /\ Head(x) = c  BY <1>6, OneList
<1>8. list' = pre \o (post \o x)  BY <1>2, <1>5, <1>6, <1>7, ListsRejoin, ListsJoin DEF IsList
<1>9. harm' \in {"none", "cut", "astray"} /\ (harm # "none" => harm' = harm)
      /\ (harm = "astray" => lost' = lost)
  BY <1>1, <1>2, <1>3 DEF Typed
<1>10. Typed'  BY <1>1, <1>3, <1>9 DEF Typed
<1>11. Shaped(z)  BY <1>5 DEF Left, Leaves
<1>12. CASE post # <<>>
  <2>1. PICK q : q = post \o x  OBVIOUS
  <2>2. IsList(q) /\ q # <<>> /\ Head(q) = Head(post)  BY <1>5, <1>7, <1>12, <2>1, ListsJoin
  <2>3. harm' = harm /\ harm # "none"  BY <1>5, <1>9, <1>12
  <2>4. lost' = lost  BY <1>3, <1>9, <2>3
  <2>5. Left(z)'  BY <1>3, <1>5, <2>3, <2>4 DEF Left
  <2>6. Undispatched(q, harm)'  BY <1>5, <1>12, <2>2, <2>3 DEF Undispatched
  <2>7. Run(pre, asp, z)'  BY <1>3, <1>5
  <2>8. list' = pre \o q  BY <1>8, <2>1
  <2>9. Parted(pre, q, z)'  BY <2>2, <2>5, <2>6, <2>7, <2>8 DEF Parted
  <2>10. QED  BY <1>10, <2>9 DEF IInv
<1>13. CASE post = <<>> /\ c.op = "0x1000"
  <2>1. <<>> \o x = x  BY <1>7, NoList, ListsJoin
  <2>2. harm # "cut" /\ harm' # "none" /\ (harm' # "astray" => harm = "none")
    BY <1>1, <1>2, <1>5, <1>13 DEF Typed
  <2>3. lost \subseteq lost'  BY <1>1, <1>3 DEF Typed
  <2>4. Left(z)'  BY <1>3, <1>5, <2>2, <2>3 DEF Left, Leaves
  <2>5. Undispatched(x, harm)'  BY <1>7, <1>13, <2>2 DEF Undispatched
  <2>6. Run(pre, asp, z)'  BY <1>3, <1>5
  <2>7. list' = pre \o x  BY <1>8, <1>13, <2>1
  <2>8. Parted(pre, x, z)'  BY <1>7, <2>4, <2>5, <2>6, <2>7 DEF Parted
  <2>9. QED  BY <1>10, <2>8 DEF IInv
<1>14. CASE post = <<>> /\ c.op # "0x1000"
  <2>1. harm # "cut" /\ harm' # "cut"  BY <1>2, <1>5, <1>14
  <2>2. \E d : Run(x, z, d) /\ Left(d)'
    <3>1. CASE c.op = "0x12B0" /\ c.low \in 0 .. Half - 1
      BY <1>2, <1>3, <1>5, <1>6, <1>9, <1>11, <3>1, HalfRate DEF Left, Leaves, Fixed, Keeps
    <3>2. CASE c.op = "0x1BB4" /\ Residue(c.finds)
      BY <1>1, <1>2, <1>3, <1>6, <1>11, <2>1, <3>2, SomethingElse DEF Typed, Left, Leaves
    <3>3. QED  BY <1>14, <3>1, <3>2, AsideAssumption
  <2>3. PICK d : Run(x, z, d) /\ Left(d)'  BY <2>2
  <2>4. PICK p : p = pre \o x  OBVIOUS
  <2>5. Run(p, asp, d)  BY <1>5, <2>3, <2>4, RunConcat
  <2>6. <<>> \o x = x  BY <1>7, NoList, ListsJoin
  <2>7. p \o <<>> = p  BY <2>5, ListsJoin, NoList DEF Run
  <2>8. list' = p \o <<>>  BY <1>8, <1>14, <2>4, <2>6, <2>7
  <2>9. Run(p, asp, d)'  BY <1>3, <2>5
  <2>10. Parted(p, <<>>, d)'  BY <2>1, <2>3, <2>8, <2>9, NoList DEF Parted, Undispatched
  <2>11. QED  BY <1>10, <2>10 DEF IInv
<1>15. QED  BY <1>12, <1>13, <1>14

(* The commands of the output store it, whatever it is. *)
LEMMA Finished ==
    ASSUME NEW z, Left(z), Typed, building = TRUE, todo = {}
    PROVE \E d : Run(Finish, z, d) /\ Leaves(d, FALSE, tasks, {}, voice, wanted, lost, harm)
<1>1. /\ Shaped(z) /\ (harm # "astray" => Fixed(z))
      /\ \A v \in Voices \ lost : Keeps(z, v, voice[v])
      /\ harm = "none" /\ lost = {} => Mix(z.dmem, wanted)
  BY DEF Left, Leaves
<1>2. z \in Machine /\ z.dmem \in Memory  BY <1>1, MachineIs DEF Shaped
<1>3. PICK w : Mix(z.dmem, w) /\ (harm = "none" /\ lost = {} => w = wanted)  BY <1>1, <1>2, SomeMix
<1>4. PICK d : Run(Finish, z, d) /\ Finishes(z, d, w)  BY <1>2, <1>3, FinishRun
<1>5. d.dram[<<"out">>] = w /\ d \in Machine /\ \A b \in Blocks : b # <<"out">> => d.dram[b] = z.dram[b]
  BY <1>4 DEF Finishes
<1>6. ASSUME NEW v \in Voices
      PROVE /\ d.dram[<<"rom", v>>] = z.dram[<<"rom", v>>]
            /\ d.dram[<<"book", v>>] = z.dram[<<"book", v>>]
            /\ d.dram[<<"loop", v>>] = z.dram[<<"loop", v>>]
            /\ d.dram[<<"adpcm", v>>] = z.dram[<<"adpcm", v>>]
            /\ d.dram[<<"resample", v>>] = z.dram[<<"resample", v>>]
            /\ d.dram[<<"env", v>>] = z.dram[<<"env", v>>]
  BY <1>5, BlocksAre
<1>7. Fixed(z) => Fixed(d)  BY <1>6 DEF Fixed
<1>8. ASSUME NEW v \in Voices \ lost PROVE Keeps(d, v, voice[v])  BY <1>1, <1>6, <1>8 DEF Keeps
<1>9. Shaped(d)
  <2>1. ASSUME NEW b \in Blocks PROVE d.dram[b] \in Shape(b)
    <3>1. CASE b # <<"out">>  BY <1>1, <1>5, <3>1 DEF Shaped
    <3>2. CASE b = <<"out">>  BY <1>5, <3>2, BlocksAre, MachineIs DEF Shape
    <3>3. QED  BY <3>1, <3>2
  <2>2. QED  BY <1>5, <2>1 DEF Shaped
<1>10. Leaves(d, FALSE, tasks, {}, voice, wanted, lost, harm)
  BY <1>1, <1>3, <1>5, <1>7, <1>8, <1>9 DEF Leaves
<1>11. QED  BY <1>4, <1>10

(* FinishList appends the commands that bring the mix to its block. *)
LEMMA FinishIInv ==
    ASSUME IInv, FinishList
    PROVE IInv'
<1>1. Typed  BY DEF IInv
<1>2. /\ building = TRUE /\ building' = FALSE /\ todo = {} /\ list' = list \o Finish
      /\ asp' = asp /\ tasks' = tasks /\ todo' = todo /\ voice' = voice /\ wanted' = wanted
      /\ lost' = lost /\ harm' = harm
  BY <1>1 DEF FinishList, Typed, Finish
<1>3. Typed'  BY <1>1, <1>2 DEF Typed
<1>4. PICK pre, post, z : Parted(pre, post, z)  BY DEF IInv
<1>5. list = pre \o post /\ IsList(pre) /\ IsList(post) /\ Run(pre, asp, z) /\ Left(z)
      /\ (post = <<>> \/ (Head(post).op = "0x1000" /\ harm # "none"))
  BY <1>4 DEF Parted, Undispatched, Run
<1>6. PICK d : Run(Finish, z, d) /\ Leaves(d, FALSE, tasks, {}, voice, wanted, lost, harm)
  BY <1>1, <1>2, <1>5, Finished
<1>7. PICK x : x = Finish /\ IsList(x)  BY <1>6 DEF Run
<1>8. CASE post = <<>>
  <2>1. PICK p : p = pre \o x  OBVIOUS
  <2>2. Run(p, asp, d)  BY <1>5, <1>6, <1>7, <2>1, RunConcat
  <2>3. pre \o <<>> = pre  BY <1>5, NoList, ListsJoin
  <2>4. p \o <<>> = p  BY <2>2, ListsJoin, NoList DEF Run
  <2>5. list' = p \o <<>>  BY <1>2, <1>5, <1>7, <1>8, <2>1, <2>3, <2>4
  <2>6. Left(d)'  BY <1>2, <1>6 DEF Left
  <2>7. Run(p, asp, d)'  BY <1>2, <2>2
  <2>8. Parted(p, <<>>, d)'  BY <1>2, <2>5, <2>6, <2>7, NoList DEF Parted, Undispatched
  <2>9. QED  BY <1>3, <2>8 DEF IInv
<1>9. CASE post # <<>>
  <2>1. PICK q : q = post \o x  OBVIOUS
  <2>2. IsList(q) /\ q # <<>> /\ Head(q) = Head(post)  BY <1>5, <1>7, <1>9, <2>1, ListsJoin
  <2>3. list' = pre \o q  BY <1>2, <1>5, <1>7, <2>1, ListsRejoin
  <2>4. harm # "none"  BY <1>5, <1>9
  <2>5. Left(z)'  BY <1>2, <1>5, <2>4 DEF Left, Leaves
  <2>6. Undispatched(q, harm)'  BY <1>2, <1>5, <1>9, <2>2 DEF Undispatched
  <2>7. Run(pre, asp, z)'  BY <1>2, <1>5
  <2>8. Parted(pre, q, z)'  BY <1>2, <2>3, <2>5, <2>6, <2>7 DEF Parted
  <2>9. QED  BY <1>3, <2>8 DEF IInv
<1>10. QED  BY <1>8, <1>9

(* A handler takes the first command of what will be dispatched, and the   *)
(* rest of it comes to the same machine; or the first of all is one that   *)
(* ends the list.                                                          *)
LEMMA HandlerIInv ==
    ASSUME IInv, Handler
    PROVE IInv'
<1>1. PICK pre, post, z : Parted(pre, post, z)  BY DEF IInv
<1>2. list = pre \o post /\ IsList(pre) /\ IsList(post) /\ Run(pre, asp, z) /\ Left(z)
      /\ (post = <<>> \/ (Head(post).op = "0x1000" /\ harm # "none"))
  BY <1>1 DEF Parted, Undispatched, Run
<1>3. /\ list # <<>> /\ ~building
      /\ building' = building /\ tasks' = tasks /\ todo' = todo /\ voice' = voice /\ wanted' = wanted
      /\ lost' = lost /\ harm' = harm
      /\ list' = IF Head(list).op = "0x1000" THEN <<>> ELSE Tail(list)
  BY DEF Handler
<1>4. Handled(Head(list), asp, asp') \/ (Head(list).op = "0x1000" /\ asp' = asp)
  BY DEF Handler, Handled
<1>5. Typed'  BY <1>3 DEF IInv, Typed
<1>6. Left(z)'  BY <1>2, <1>3 DEF Left
<1>7. CASE pre # <<>>
  <2>1. Head(list) = Head(pre) /\ Tail(list) = Tail(pre) \o post  BY <1>2, <1>7, ListsJoin
  <2>2. PICK m : Handled(Head(pre), asp, m) /\ Run(Tail(pre), m, z)  BY <1>2, <1>7, RunHead
  <2>3. Head(pre).op # "0x1000"  BY <2>2 DEF Handled
  <2>4. Handled(Head(pre), asp, asp')  BY <1>4, <2>1, <2>3
  <2>5. m = asp'  BY <2>2, <2>4, OneResult
  <2>6. PICK p : p = Tail(pre)  OBVIOUS
  <2>7. Run(p, asp, z)'  BY <2>2, <2>5, <2>6
  <2>8. list' = p \o post  BY <1>3, <2>1, <2>3, <2>6
  <2>9. Undispatched(post, harm)'  BY <1>2, <1>3 DEF Undispatched
  <2>10. Parted(p, post, z)'  BY <1>3, <1>6, <2>7, <2>8, <2>9 DEF Parted
  <2>11. QED  BY <1>5, <2>10 DEF IInv
<1>8. CASE pre = <<>>
  <2>1. list = post /\ post # <<>>  BY <1>2, <1>3, <1>8, ListsJoin
  <2>2. Head(list).op = "0x1000"  BY <1>2, <2>1
  <2>3. list' = <<>> /\ ~Handled(Head(list), asp, asp')  BY <1>3, <2>2 DEF Handled
  <2>4. asp' = asp /\ z = asp /\ asp \in Machine  BY <1>2, <1>4, <1>8, <2>3, RunNone, RunTyped
  <2>5. Run(<<>>, asp, asp)  BY <2>4, RunNil
  <2>6. Run(<<>>, asp, z)'  BY <2>4, <2>5
  <2>7. list' = <<>> \o <<>>  BY <2>3, NoList, ListsJoin
  <2>8. Parted(<<>>, <<>>, z)'  BY <1>3, <1>6, <2>6, <2>7, NoList DEF Parted, Undispatched
  <2>9. QED  BY <1>5, <2>8 DEF IInv
<1>9. QED  BY <1>7, <1>8

(* The inductive invariant holds in every reachable state: wherever the    *)
(* dispatch is, the rest of the list comes to the machine it ought to come *)
(* to.                                                                     *)
THEOREM ListsKeepTheirPlace == Spec => []IInv
<1>1. Init => IInv  BY InitIInv
<1>2. IInv /\ [Next]_vars => IInv'
  <2>1. SUFFICES ASSUME IInv, [Next]_vars PROVE IInv'  OBVIOUS
  <2>2. CASE StartList  BY <2>1, <2>2, StartIInv
  <2>3. ASSUME NEW v \in Voices, Pull(v) PROVE IInv'  BY <2>1, <2>3, PullIInv
  <2>4. CASE Aside  BY <2>1, <2>4, AsideIInv
  <2>5. CASE FinishList  BY <2>1, <2>5, FinishIInv
  <2>6. CASE Handler  BY <2>1, <2>6, HandlerIInv
  <2>7. CASE UNCHANGED vars
    <3>1. UNCHANGED <<asp, list, building, tasks, todo, voice, wanted, lost, harm>>
      BY <2>7 DEF vars
    <3>2. Typed'  BY <2>1, <3>1 DEF IInv, Typed
    <3>3. PICK pre, post, z : Parted(pre, post, z)  BY <2>1 DEF IInv
    <3>4. Parted(pre, post, z)'  BY <3>1, <3>3 DEF Parted, Undispatched, Left
    <3>5. QED  BY <3>2, <3>4 DEF IInv
  <2>8. QED  BY <2>1, <2>2, <2>3, <2>4, <2>5, <2>6, <2>7 DEF Next
<1>3. QED  BY <1>1, <1>2, PTL DEF Spec

-----------------------------------------------------------------------------
(* What follows from it. *)

(* A list that is done has come to the machine it ought to come to. *)
LEMMA DoneIs ==
    ASSUME IInv, Done
    PROVE Leaves(asp, FALSE, tasks, todo, voice, wanted, lost, harm) /\ Typed
<1>1. Typed /\ building = FALSE  BY DEF IInv, Done, Typed
<1>2. Left(asp)  BY Arrived DEF IInv, Done
<1>3. QED  BY <1>1, <1>2 DEF Left

(* The synthesizer and the microcode agree on the voices that play. *)
LEMMA PlayingKeep ==
    ASSUME IInv, Done, NEW v \in Playing
    PROVE /\ v \in Voices /\ ~voice[v].fresh /\ voice[v].since > 0
          /\ Fixed(asp) /\ Keeps(asp, v, voice[v])
<1>1. v \in Voices \ lost /\ ~voice[v].fresh  BY DEF Playing
<1>2. Leaves(asp, FALSE, tasks, todo, voice, wanted, lost, harm) /\ Typed  BY DoneIs
<1>3. voice[v].since > 0 /\ harm # "astray"  BY <1>1, <1>2 DEF Typed
<1>4. QED  BY <1>1, <1>2, <1>3 DEF Leaves

(* TypeOK at every step: the buffers, the scratch and the blocks keep the  *)
(* shapes the next command expects, whatever the synthesizer pulls and     *)
(* whatever command of no voice was in its lists.                          *)
THEOREM ShapesKept == Spec => []TypeOK
<1>1. IInv => TypeOK
  <2>1. SUFFICES ASSUME IInv PROVE TypeOK  OBVIOUS
  <2>2. asp \in Machine  BY <2>1, RunTyped DEF IInv, Parted
  <2>3. Typed  BY <2>1 DEF IInv
  <2>4. ASSUME NEW v \in Voices
        PROVE /\ voice[v].fresh \in BOOLEAN
              /\ {voice[v].place, voice[v].dec, voice[v].since} \subseteq Nat
    BY <2>3 DEF Typed, VoicePlaces
  <2>5. Done => \A b \in Blocks : asp.dram[b] \in Shape(b)  BY <2>1, DoneIs DEF Leaves, Shaped
  <2>6. QED  BY <2>2, <2>3, <2>4, <2>5 DEF Typed, TypeOK
<1>2. QED  BY <1>1, ListsKeepTheirPlace, PTL

(* OutputIsTheMix: what a list leaves in the output block is the sum of    *)
(* its voices, each as if it were alone and had never been cut into lists, *)
(* unless a command of no voice ended the list or went astray.             *)
THEOREM EveryListSounds == Spec => []OutputIsTheMix
<1>1. IInv => OutputIsTheMix  BY DoneIs DEF OutputIsTheMix, Leaves
<1>2. QED  BY <1>1, ListsKeepTheirPlace, PTL

(* DecoderKeepsPlace: between lists, what is kept of a voice for ADPCM are *)
(* its last samples, and its loop's own are untouched.                     *)
THEOREM DecoderStays == Spec => []DecoderKeepsPlace
<1>1. ASSUME IInv PROVE DecoderKeepsPlace
  <2>1. SUFFICES ASSUME Done, NEW v \in Playing
                 PROVE /\ asp.dram[<<"adpcm", v>>] = Before(v, voice[v].dec)
                       /\ asp.dram[<<"loop", v>>] = Before(v, LoopStart[v])
    BY DEF DecoderKeepsPlace
  <2>2. QED  BY <1>1, <2>1, PlayingKeep DEF Fixed, Keeps
<1>2. QED  BY <1>1, ListsKeepTheirPlace, PTL

(* ResamplerKeepsPlace: between lists, what is kept of a voice for         *)
(* RESAMPLE is the window at the next sample out, and its fraction.        *)
THEOREM ResamplerStays == Spec => []ResamplerKeepsPlace
<1>1. ASSUME IInv PROVE ResamplerKeepsPlace
  <2>1. SUFFICES ASSUME Done, NEW v \in Playing
                 PROVE asp.dram[<<"resample", v>>] =
                           SourceWindow(v, voice[v].place) \o <<voice[v].place % Phases>>
    BY DEF ResamplerKeepsPlace
  <2>2. QED  BY <1>1, <2>1, PlayingKeep DEF Keeps, Kept
<1>2. QED  BY <1>1, ListsKeepTheirPlace, PTL

(* VolumesKeepPlace: between lists, the volumes of a voice are on the ramp *)
(* it was given last, for every number of voices and lists.                *)
THEOREM VolumesStay == Spec => []VolumesKeepPlace
<1>1. ASSUME IInv PROVE VolumesKeepPlace
  <2>1. SUFFICES ASSUME Done, NEW v \in Playing
                 PROVE asp.dram[<<"env", v>>] = RampBlock(voice[v].ramp, voice[v].since)
    BY DEF VolumesKeepPlace
  <2>2. QED  BY <1>1, <2>1, PlayingKeep DEF Keeps
<1>2. QED  BY <1>1, ListsKeepTheirPlace, PTL
=============================================================================
