------------------------- MODULE DebugControlsProofs -------------------------
(***************************************************************************)
(* Proofs about the controls, for any buttons and stick positions, any     *)
(* ring and any number of commands.                                        *)
(*                                                                         *)
(* A dump is replayed by a fold, so the first part is about folds: that    *)
(* the recursion they are defined by has a solution, what its value is on  *)
(* an empty and on a longer sequence.  The library's induction theorems    *)
(* take a predicate; here induction is over a set of numbers, which is all *)
(* that is needed.                                                         *)
(*                                                                         *)
(* The second part is the invariant.  What the history explains is not the *)
(* override but the override before the command in progress: From ties     *)
(* the two by how many of the command's stores are done.                   *)
(***************************************************************************)
EXTENDS DebugControls, SequenceTheorems, WellFoundedInduction, TLAPS

(* A set that holds 0 and the successor of each of its elements is Nat. *)
LEMMA SetInduction ==
    ASSUME NEW A, A \subseteq Nat, 0 \in A, \A i \in A : i + 1 \in A
    PROVE A = Nat
<1> DEFINE R == OpToRel(<, Nat)
<1>1. IsWellFoundedOn(R, Nat)  BY NatLessThanWellFounded
<1>2. \A i, j \in Nat : i < j => <<i, j>> \in R  BY DEF OpToRel
<1> HIDE DEF R
<1>3. SUFFICES ASSUME Nat \ A # {} PROVE FALSE  OBVIOUS
<1>4. PICK k \in Nat \ A : \A i \in Nat \ A : <<i, k>> \notin R
  BY <1>1, <1>3, WFMin
<1>5. k \in Nat \ {0}  BY <1>4
<1>6. k - 1 \in Nat /\ k - 1 < k /\ k - 1 + 1 = k  BY <1>5
<1>7. k - 1 \in Nat \ A  BY <1>4, <1>6
<1>8. QED  BY <1>2, <1>4, <1>5, <1>6, <1>7

(* The greatest element is the one that bounds the others. *)
LEMMA MaxIs ==
    ASSUME NEW s, s \subseteq Int, NEW m \in s, \A i \in s : i <= m
    PROVE Max(s) = m
<1>1. \A k \in s : (\A i \in s : k >= i) => k = m
  <2>1. SUFFICES ASSUME NEW k \in s, \A i \in s : k >= i PROVE k = m  OBVIOUS
  <2>2. k >= m /\ k <= m  BY <2>1
  <2>3. QED  BY <2>2
<1>2. \A i \in s : m >= i  OBVIOUS
<1>3. QED  BY <1>1, <1>2 DEF Max

(* A set of the first n numbers that is not empty has a greatest element. *)
LEMMA MaxIn ==
    ASSUME NEW n \in Nat, NEW s \in SUBSET (1 .. n), s # {}
    PROVE Max(s) \in 1 .. n
<1> DEFINE A == {m \in Nat : \A t \in SUBSET (1 .. m) :
                    t # {} => \E i \in t : \A k \in t : k <= i}
<1>1. 0 \in A
  <2>1. \A t \in SUBSET (1 .. 0) : t = {}  OBVIOUS
  <2>2. QED  BY <2>1
<1>2. ASSUME NEW m \in A PROVE m + 1 \in A
  <2>1. SUFFICES ASSUME NEW t \in SUBSET (1 .. m + 1), t # {}
                 PROVE \E i \in t : \A k \in t : k <= i
    OBVIOUS
  <2>2. CASE m + 1 \in t  BY <2>2
  <2>3. CASE m + 1 \notin t
    <3>1. t \in SUBSET (1 .. m)  BY <2>3
    <3>2. QED  BY <1>2, <2>1, <3>1
  <2>4. QED  BY <2>2, <2>3
<1>3. A = Nat
  <2>1. A \subseteq Nat  OBVIOUS
  <2>2. QED  BY <1>1, <1>2, <2>1, SetInduction
<1>4. PICK i \in s : \A k \in s : k <= i  BY <1>3
<1>5. s \subseteq Int  OBVIOUS
<1>6. Max(s) = i  BY <1>4, <1>5, MaxIs
<1>7. QED  BY <1>6

(* The greatest of the first i numbers, and what is left of them. *)
LEMMA Segment ==
    ASSUME NEW n \in Nat, NEW i \in 1 .. n
    PROVE /\ 1 .. i \in SUBSET (1 .. n) /\ 1 .. i # {}
          /\ Max(1 .. i) = i /\ (1 .. i) \ {i} = 1 .. i - 1
<1>1. 1 .. i \subseteq Int /\ i \in 1 .. i /\ \A k \in 1 .. i : k <= i  OBVIOUS
<1>2. Max(1 .. i) = i  BY <1>1, MaxIs
<1>3. 1 .. i \in SUBSET (1 .. n) /\ 1 .. i # {} /\ (1 .. i) \ {i} = 1 .. i - 1  OBVIOUS
<1>4. QED  BY <1>2, <1>3

(* h folds g from b over the numbers 1 to n, the greatest last. *)
Solves(h, b, g, n) ==
    h = [s \in SUBSET (1 .. n) |->
            IF s = {} THEN b ELSE g[<<Max(s), h[s \ {Max(s)}]>>]]

Solvable(X, b, g, n) == \E h \in [SUBSET (1 .. n) -> X] : Solves(h, b, g, n)

(* Every fold has a value. *)
LEMMA FoldExists ==
    ASSUME NEW X, NEW b \in X, NEW n \in Nat, NEW g \in [(1 .. n) \X X -> X]
    PROVE Solvable(X, b, g, n)
<1> DEFINE A == {m \in Nat : m <= n => Solvable(X, b, g, m)}
<1>1. 0 \in A
  <2> DEFINE h == [s \in SUBSET (1 .. 0) |-> b]
  <2>1. h \in [SUBSET (1 .. 0) -> X]  OBVIOUS
  <2>2. \A s \in SUBSET (1 .. 0) : s = {}  OBVIOUS
  <2>3. Solves(h, b, g, 0)  BY <2>2 DEF Solves
  <2>4. Solvable(X, b, g, 0)  BY <2>1, <2>3 DEF Solvable
  <2>5. QED  BY <2>4
<1>2. ASSUME NEW m \in A PROVE m + 1 \in A
  <2>1. SUFFICES ASSUME m + 1 <= n PROVE Solvable(X, b, g, m + 1)
    OBVIOUS
  <2>2. m \in Nat /\ m <= n  BY <1>2, <2>1
  <2>3. Solvable(X, b, g, m)  BY <1>2, <2>2
  <2>4. PICK h \in [SUBSET (1 .. m) -> X] : Solves(h, b, g, m)  BY <2>3 DEF Solvable
  <2> DEFINE k == [s \in SUBSET (1 .. m + 1) |->
                      IF m + 1 \in s THEN g[<<m + 1, h[s \ {m + 1}]>>] ELSE h[s]]
  <2>5. \A s \in SUBSET (1 .. m + 1) : s \ {m + 1} \in SUBSET (1 .. m)  BY <2>2
  <2>6. \A s \in SUBSET (1 .. m + 1) : m + 1 \notin s => s \in SUBSET (1 .. m)  BY <2>2
  <2>7. ASSUME NEW s \in SUBSET (1 .. m + 1) PROVE k[s] \in X
    <3>1. CASE m + 1 \in s
      <4>1. h[s \ {m + 1}] \in X  BY <2>5
      <4>2. <<m + 1, h[s \ {m + 1}]>> \in (1 .. n) \X X  BY <4>1, <2>1, <2>2
      <4>3. QED  BY <3>1, <4>2
    <3>2. CASE m + 1 \notin s  BY <3>2, <2>6
    <3>3. QED  BY <3>1, <3>2
  <2>8. k \in [SUBSET (1 .. m + 1) -> X]  BY <2>7
  <2>9. ASSUME NEW s \in SUBSET (1 .. m + 1)
        PROVE k[s] = IF s = {} THEN b ELSE g[<<Max(s), k[s \ {Max(s)}]>>]
    <3>1. CASE m + 1 \in s
      <4>1. s \subseteq Int /\ \A i \in s : i <= m + 1  BY <2>2
      <4>2. Max(s) = m + 1  BY <3>1, <4>1, MaxIs
      <4>3. s \ {m + 1} \in SUBSET (1 .. m + 1) /\ m + 1 \notin s \ {m + 1}  OBVIOUS
      <4>4. k[s \ {m + 1}] = h[s \ {m + 1}]  BY <4>3
      <4>5. QED  BY <3>1, <4>2, <4>4
    <3>2. CASE m + 1 \notin s
      <4>1. s \in SUBSET (1 .. m)  BY <3>2, <2>6
      <4>2. h[s] = IF s = {} THEN b ELSE g[<<Max(s), h[s \ {Max(s)}]>>]
        BY <4>1, <2>4 DEF Solves
      <4>3. s \ {Max(s)} \in SUBSET (1 .. m + 1) /\ m + 1 \notin s \ {Max(s)}  BY <3>2
      <4>4. k[s] = h[s] /\ k[s \ {Max(s)}] = h[s \ {Max(s)}]  BY <4>3, <3>2
      <4>5. QED  BY <4>2, <4>4
    <3>3. QED  BY <3>1, <3>2
  <2>10. Solves(k, b, g, m + 1)
    <3> HIDE DEF k
    <3>1. k = [s \in SUBSET (1 .. m + 1) |-> k[s]]  BY <2>8
    <3>2. QED  BY <2>9, <3>1 DEF Solves
  <2>11. QED  BY <2>8, <2>10 DEF Solvable
<1>3. A = Nat
  <2>1. A \subseteq Nat  OBVIOUS
  <2>2. QED  BY <1>1, <1>2, <2>1, SetInduction
<1>4. n \in A  BY <1>3
<1>5. QED  BY <1>4

-----------------------------------------------------------------------------
(* The stores of a command. *)

Writes == ({"active"} \X BOOLEAN) \cup ({"buttons"} \X SUBSET Buttons)
          \cup ({"x", "y"} \X StickPositions)

(* An override that holds nothing while it is not armed. *)
Settled == {o \in Overrides : ~o.active => o.buttons = {} /\ o.x = 0 /\ o.y = 0}

(* The override o after the first j stores of command c. *)
Partial(c, o, j) ==
    [active  |-> IF j = 0 THEN o.active ELSE c.kind # "clear",
     buttons |-> IF j < 2 THEN o.buttons
                 ELSE IF c.kind = "clear" THEN {}
                 ELSE IF c.kind # "button" THEN o.buttons
                 ELSE IF c.down THEN o.buttons \cup {c.name} ELSE o.buttons \ {c.name},
     x |-> IF c.kind = "stick" /\ j >= 2 THEN c.x
           ELSE IF c.kind = "clear" /\ j >= 3 THEN 0 ELSE o.x,
     y |-> IF c.kind = "stick" /\ j >= 3 THEN c.y
           ELSE IF c.kind = "clear" /\ j >= 4 THEN 0 ELSE o.y]

Written(o, w) == [o EXCEPT ![w[1]] = w[2]]

(* A store leaves an override an override. *)
LEMMA WrittenType ==
    ASSUME NEW o \in Overrides, NEW w \in Writes PROVE Written(o, w) \in Overrides
<1>1. CASE w \in {"active"} \X BOOLEAN  BY <1>1 DEF Overrides, Written
<1>2. CASE w \in {"buttons"} \X SUBSET Buttons  BY <1>2 DEF Overrides, Written
<1>3. CASE w \in {"x", "y"} \X StickPositions  BY <1>3 DEF Overrides, Written
<1>4. QED  BY <1>1, <1>2, <1>3 DEF Writes

(* The kinds of command, each with its fields. *)
LEMMA CommandKinds ==
    ASSUME NEW c \in Commands
    PROVE \/ c.kind = "button" /\ c.name \in Buttons /\ c.down \in BOOLEAN
          \/ c.kind = "stick" /\ c.x \in StickPositions /\ c.y \in StickPositions
          \/ c.kind = "clear"
          \/ c.kind = "claim"
BY DEF Commands

(* The stores, kind by kind. *)
ButtonStores(c, o) ==
    << <<"active", TRUE>>,
       <<"buttons", IF c.down THEN o.buttons \cup {c.name} ELSE o.buttons \ {c.name}>> >>
StickStores(c) == << <<"active", TRUE>>, <<"x", c.x>>, <<"y", c.y>> >>
ClearStores == << <<"active", FALSE>>, <<"buttons", {}>>, <<"x", 0>>, <<"y", 0>> >>
ClaimStores == << <<"active", TRUE>> >>

LEMMA StoresAre ==
    ASSUME NEW c \in Commands, NEW o
    PROVE /\ c.kind = "button" => StoresOf(c, o) = ButtonStores(c, o)
          /\ c.kind = "stick" => StoresOf(c, o) = StickStores(c)
          /\ c.kind = "clear" => StoresOf(c, o) = ClearStores
          /\ c.kind = "claim" => StoresOf(c, o) = ClaimStores
<1>1. CASE c.kind = "button"  BY <1>1 DEF StoresOf, ButtonStores
<1>2. CASE c.kind = "stick"  BY <1>2 DEF StoresOf, StickStores
<1>3. CASE c.kind = "clear"  BY <1>3 DEF StoresOf, ClearStores
<1>4. CASE c.kind = "claim"  BY <1>4 DEF StoresOf, ClaimStores
<1>5. QED  BY <1>1, <1>2, <1>3, <1>4, CommandKinds

(* Tuples of up to four elements are sequences. *)
LEMMA TupleSeq ==
    ASSUME NEW S, NEW a \in S, NEW b \in S, NEW c \in S, NEW d \in S
    PROVE /\ <<a>> \in Seq(S) /\ Len(<<a>>) = 1 /\ <<a>>[1] = a
          /\ <<a, b>> \in Seq(S) /\ Len(<<a, b>>) = 2
          /\ <<a, b, c>> \in Seq(S) /\ Len(<<a, b, c>>) = 3
          /\ <<a, b, c, d>> \in Seq(S) /\ Len(<<a, b, c, d>>) = 4
OBVIOUS

(* A command makes one to four stores of the override's fields. *)
LEMMA StoresType ==
    ASSUME NEW c \in Commands, NEW o \in Overrides
    PROVE /\ StoresOf(c, o) \in Seq(Writes)
          /\ Len(StoresOf(c, o)) \in 1 .. 4
<1> USE ControlsAssumption
<1>0. \A b \in BOOLEAN, k \in SUBSET Buttons, p \in StickPositions :
          {<<"active", b>>, <<"buttons", k>>, <<"x", p>>, <<"y", p>>} \subseteq Writes
  BY DEF Writes
<1>1. CASE c.kind = "button" /\ c.name \in Buttons /\ c.down \in BOOLEAN
  <2>1. (IF c.down THEN o.buttons \cup {c.name} ELSE o.buttons \ {c.name}) \in SUBSET Buttons
    BY <1>1 DEF Overrides
  <2>2. StoresOf(c, o) = ButtonStores(c, o)  BY <1>1, StoresAre
  <2>3. <<"active", TRUE>> \in Writes  BY <1>0
  <2>4. <<"buttons", IF c.down THEN o.buttons \cup {c.name} ELSE o.buttons \ {c.name}>> \in Writes
    BY <1>0, <2>1
  <2>5. ButtonStores(c, o) \in Seq(Writes) /\ Len(ButtonStores(c, o)) = 2
    BY <2>3, <2>4, TupleSeq DEF ButtonStores
  <2>6. QED  BY <2>2, <2>5
<1>2. CASE c.kind = "stick" /\ c.x \in StickPositions /\ c.y \in StickPositions
  <2>1. StoresOf(c, o) = StickStores(c)  BY <1>2, StoresAre
  <2>2. {<<"active", TRUE>>, <<"x", c.x>>, <<"y", c.y>>} \subseteq Writes  BY <1>0, <1>2
  <2>3. StickStores(c) \in Seq(Writes) /\ Len(StickStores(c)) = 3
    BY <2>2, TupleSeq DEF StickStores
  <2>4. QED  BY <2>1, <2>3
<1>3. CASE c.kind = "clear"
  <2>1. StoresOf(c, o) = ClearStores  BY <1>3, StoresAre
  <2>2. {<<"active", FALSE>>, <<"buttons", {}>>, <<"x", 0>>, <<"y", 0>>} \subseteq Writes
    BY <1>0
  <2>3. ClearStores \in Seq(Writes) /\ Len(ClearStores) = 4
    BY <2>2, TupleSeq DEF ClearStores
  <2>4. QED  BY <2>1, <2>3
<1>4. CASE c.kind = "claim"
  <2>1. StoresOf(c, o) = ClaimStores  BY <1>4, StoresAre
  <2>2. <<"active", TRUE>> \in Writes  BY <1>0
  <2>3. ClaimStores \in Seq(Writes) /\ Len(ClaimStores) = 1
    BY <2>2, TupleSeq DEF ClaimStores
  <2>4. QED  BY <2>1, <2>3
<1>5. QED  BY <1>1, <1>2, <1>3, <1>4, CommandKinds

LEMMA PartialType ==
    ASSUME NEW c \in Commands, NEW o \in Overrides, NEW j \in Nat
    PROVE Partial(c, o, j) \in Overrides
<1> USE ControlsAssumption DEF Overrides, Partial
<1>1. CASE c.kind = "button" /\ c.name \in Buttons /\ c.down \in BOOLEAN  BY <1>1
<1>2. CASE c.kind = "stick" /\ c.x \in StickPositions /\ c.y \in StickPositions  BY <1>2
<1>3. CASE c.kind = "clear"  BY <1>3
<1>4. CASE c.kind = "claim"  BY <1>4
<1>5. QED  BY <1>1, <1>2, <1>3, <1>4, CommandKinds

(* What a tuple has in each place. *)
LEMMA Picked ==
    ASSUME NEW a, NEW b, NEW c, NEW d
    PROVE /\ <<a>>[1] = a
          /\ <<a, b>>[1] = a /\ <<a, b>>[2] = b
          /\ <<a, b, c>>[1] = a /\ <<a, b, c>>[2] = b /\ <<a, b, c>>[3] = c
          /\ <<a, b, c, d>>[1] = a /\ <<a, b, c, d>>[2] = b
          /\ <<a, b, c, d>>[3] = c /\ <<a, b, c, d>>[4] = d
OBVIOUS

LEMMA PartialNone ==
    ASSUME NEW c, NEW o \in Overrides PROVE Partial(c, o, 0) = o
<1> DEFINE q == Partial(c, o, 0)
<1>1. q = [active |-> o.active, buttons |-> o.buttons, x |-> o.x, y |-> o.y]
  BY DEF Partial
<1>2. QED  BY <1>1 DEF Overrides

(* A store to one field, seen field by field. *)
LEMMA WrittenIs ==
    ASSUME NEW p \in Overrides, NEW q \in Overrides, NEW v
    PROVE /\ q.active = v /\ q.buttons = p.buttons /\ q.x = p.x /\ q.y = p.y
                => Written(p, <<"active", v>>) = q
          /\ q.active = p.active /\ q.buttons = v /\ q.x = p.x /\ q.y = p.y
                => Written(p, <<"buttons", v>>) = q
          /\ q.active = p.active /\ q.buttons = p.buttons /\ q.x = v /\ q.y = p.y
                => Written(p, <<"x", v>>) = q
          /\ q.active = p.active /\ q.buttons = p.buttons /\ q.x = p.x /\ q.y = v
                => Written(p, <<"y", v>>) = q
BY DEF Overrides, Written

(* Partial counts the stores. *)
LEMMA PartialStep ==
    ASSUME NEW c \in Commands, NEW o \in Overrides,
           NEW j \in 0 .. Len(StoresOf(c, o)) - 1
    PROVE Written(Partial(c, o, j), StoresOf(c, o)[j + 1]) = Partial(c, o, j + 1)
<1> DEFINE p == Partial(c, o, j)
<1> DEFINE q == Partial(c, o, j + 1)
<1>0. p \in Overrides /\ q \in Overrides  BY StoresType, PartialType
<1>1. CASE c.kind = "button" /\ c.name \in Buttons /\ c.down \in BOOLEAN
  <2> DEFINE v == IF c.down THEN o.buttons \cup {c.name} ELSE o.buttons \ {c.name}
  <2>1. StoresOf(c, o) = ButtonStores(c, o)  BY <1>1, StoresAre
  <2>2. Len(ButtonStores(c, o)) = 2  BY DEF ButtonStores
  <2>3. j \in {0, 1}  BY <2>1, <2>2
  <2>4. CASE j = 0
    <3>0. j + 1 # 0 /\ j + 1 = 1  BY <2>4
    <3>8. q.active = TRUE  BY <1>1, <3>0, Zenon DEF Partial
    <3>1. q.buttons = p.buttons /\ q.x = p.x /\ q.y = p.y  BY <1>1, <2>4 DEF Partial
    <3>2. ButtonStores(c, o)[1] = <<"active", TRUE>>  BY Picked, Zenon DEF ButtonStores
    <3> HIDE DEF p, q
    <3>3. Written(p, <<"active", TRUE>>) = q  BY <1>0, <3>8, <3>1, WrittenIs
    <3>4. StoresOf(c, o)[j + 1] = <<"active", TRUE>>  BY <2>1, <3>0, <3>2, Zenon
    <3>5. Written(p, StoresOf(c, o)[j + 1]) = q  BY <3>3, <3>4
    <3>6. QED  BY <3>5 DEF p, q
  <2>5. CASE j = 1
    <3>1. q.active = p.active /\ q.buttons = v /\ q.x = p.x /\ q.y = p.y
      BY <1>1, <2>5 DEF Partial
    <3>2. ButtonStores(c, o)[2] = <<"buttons", v>>  BY Picked, Zenon DEF ButtonStores
    <3> HIDE DEF p, q
    <3>3. Written(p, <<"buttons", v>>) = q  BY <1>0, <3>1, WrittenIs
    <3>4. StoresOf(c, o)[j + 1] = <<"buttons", v>>  BY <2>1, <2>5, <3>2
    <3>5. Written(p, StoresOf(c, o)[j + 1]) = q  BY <3>3, <3>4
    <3>6. QED  BY <3>5 DEF p, q
  <2>6. QED  BY <2>3, <2>4, <2>5
<1>2. CASE c.kind = "stick" /\ c.x \in StickPositions /\ c.y \in StickPositions
  <2>1. StoresOf(c, o) = StickStores(c)  BY <1>2, StoresAre
  <2>2. Len(StickStores(c)) = 3  BY DEF StickStores
  <2>3. j \in {0, 1, 2}  BY <2>1, <2>2
  <2>4. CASE j = 0
    <3>0. j + 1 # 0 /\ j + 1 = 1  BY <2>4
    <3>8. q.active = TRUE  BY <1>2, <3>0, Zenon DEF Partial
    <3>1. q.buttons = p.buttons /\ q.x = p.x /\ q.y = p.y  BY <1>2, <2>4 DEF Partial
    <3>2. StickStores(c)[1] = <<"active", TRUE>>  BY Picked, Zenon DEF StickStores
    <3> HIDE DEF p, q
    <3>3. Written(p, <<"active", TRUE>>) = q  BY <1>0, <3>8, <3>1, WrittenIs
    <3>4. StoresOf(c, o)[j + 1] = <<"active", TRUE>>  BY <2>1, <3>0, <3>2, Zenon
    <3>5. Written(p, StoresOf(c, o)[j + 1]) = q  BY <3>3, <3>4
    <3>6. QED  BY <3>5 DEF p, q
  <2>5. CASE j = 1
    <3>1. q.active = p.active /\ q.buttons = p.buttons /\ q.x = c.x /\ q.y = p.y
      BY <1>2, <2>5 DEF Partial
    <3>2. StickStores(c)[2] = <<"x", c.x>>  BY Picked, Zenon DEF StickStores
    <3> HIDE DEF p, q
    <3>3. Written(p, <<"x", c.x>>) = q  BY <1>0, <3>1, WrittenIs
    <3>4. StoresOf(c, o)[j + 1] = <<"x", c.x>>  BY <2>1, <2>5, <3>2
    <3>5. Written(p, StoresOf(c, o)[j + 1]) = q  BY <3>3, <3>4
    <3>6. QED  BY <3>5 DEF p, q
  <2>6. CASE j = 2
    <3>1. q.active = p.active /\ q.buttons = p.buttons /\ q.x = p.x /\ q.y = c.y
      BY <1>2, <2>6 DEF Partial
    <3>2. StickStores(c)[3] = <<"y", c.y>>  BY Picked, Zenon DEF StickStores
    <3> HIDE DEF p, q
    <3>3. Written(p, <<"y", c.y>>) = q  BY <1>0, <3>1, WrittenIs
    <3>4. StoresOf(c, o)[j + 1] = <<"y", c.y>>  BY <2>1, <2>6, <3>2
    <3>5. Written(p, StoresOf(c, o)[j + 1]) = q  BY <3>3, <3>4
    <3>6. QED  BY <3>5 DEF p, q
  <2>7. QED  BY <2>3, <2>4, <2>5, <2>6
<1>3. CASE c.kind = "clear"
  <2>1. StoresOf(c, o) = ClearStores  BY <1>3, StoresAre
  <2>2. Len(ClearStores) = 4  BY DEF ClearStores
  <2>3. j \in {0, 1, 2, 3}  BY <2>1, <2>2
  <2>4. CASE j = 0
    <3>0. j + 1 # 0 /\ j + 1 = 1  BY <2>4
    <3>8. q.active = FALSE  BY <1>3, <3>0, Zenon DEF Partial
    <3>1. q.buttons = p.buttons /\ q.x = p.x /\ q.y = p.y  BY <1>3, <2>4 DEF Partial
    <3>2. ClearStores[1] = <<"active", FALSE>>  BY Picked, Zenon DEF ClearStores
    <3> HIDE DEF p, q
    <3>3. Written(p, <<"active", FALSE>>) = q  BY <1>0, <3>8, <3>1, WrittenIs
    <3>4. StoresOf(c, o)[j + 1] = <<"active", FALSE>>  BY <2>1, <3>0, <3>2, Zenon
    <3>5. Written(p, StoresOf(c, o)[j + 1]) = q  BY <3>3, <3>4
    <3>6. QED  BY <3>5 DEF p, q
  <2>5. CASE j = 1
    <3>1. q.active = p.active /\ q.buttons = {} /\ q.x = p.x /\ q.y = p.y
      BY <1>3, <2>5 DEF Partial
    <3>2. ClearStores[2] = <<"buttons", {}>>  BY Picked, Zenon DEF ClearStores
    <3> HIDE DEF p, q
    <3>3. Written(p, <<"buttons", {}>>) = q  BY <1>0, <3>1, WrittenIs
    <3>4. StoresOf(c, o)[j + 1] = <<"buttons", {}>>  BY <2>1, <2>5, <3>2
    <3>5. Written(p, StoresOf(c, o)[j + 1]) = q  BY <3>3, <3>4
    <3>6. QED  BY <3>5 DEF p, q
  <2>6. CASE j = 2
    <3>1. q.active = p.active /\ q.buttons = p.buttons /\ q.x = 0 /\ q.y = p.y
      BY <1>3, <2>6 DEF Partial
    <3>2. ClearStores[3] = <<"x", 0>>  BY Picked, Zenon DEF ClearStores
    <3> HIDE DEF p, q
    <3>3. Written(p, <<"x", 0>>) = q  BY <1>0, <3>1, WrittenIs
    <3>4. StoresOf(c, o)[j + 1] = <<"x", 0>>  BY <2>1, <2>6, <3>2
    <3>5. Written(p, StoresOf(c, o)[j + 1]) = q  BY <3>3, <3>4
    <3>6. QED  BY <3>5 DEF p, q
  <2>7. CASE j = 3
    <3>1. q.active = p.active /\ q.buttons = p.buttons /\ q.x = p.x /\ q.y = 0
      BY <1>3, <2>7 DEF Partial
    <3>2. ClearStores[4] = <<"y", 0>>  BY Picked, Zenon DEF ClearStores
    <3> HIDE DEF p, q
    <3>3. Written(p, <<"y", 0>>) = q  BY <1>0, <3>1, WrittenIs
    <3>4. StoresOf(c, o)[j + 1] = <<"y", 0>>  BY <2>1, <2>7, <3>2
    <3>5. Written(p, StoresOf(c, o)[j + 1]) = q  BY <3>3, <3>4
    <3>6. QED  BY <3>5 DEF p, q
  <2>8. QED  BY <2>3, <2>4, <2>5, <2>6, <2>7
<1>4. CASE c.kind = "claim"
  <2>1. StoresOf(c, o) = ClaimStores  BY <1>4, StoresAre
  <2>2. Len(ClaimStores) = 1  BY DEF ClaimStores
  <2>3. j \in {0}  BY <2>1, <2>2
  <2>4. CASE j = 0
    <3>0. j + 1 # 0 /\ j + 1 = 1  BY <2>4
    <3>8. q.active = TRUE  BY <1>4, <3>0, Zenon DEF Partial
    <3>1. q.buttons = p.buttons /\ q.x = p.x /\ q.y = p.y  BY <1>4, <2>4 DEF Partial
    <3>2. ClaimStores[1] = <<"active", TRUE>>  BY Picked, Zenon DEF ClaimStores
    <3> HIDE DEF p, q
    <3>3. Written(p, <<"active", TRUE>>) = q  BY <1>0, <3>8, <3>1, WrittenIs
    <3>4. StoresOf(c, o)[j + 1] = <<"active", TRUE>>  BY <2>1, <3>0, <3>2, Zenon
    <3>5. Written(p, StoresOf(c, o)[j + 1]) = q  BY <3>3, <3>4
    <3>6. QED  BY <3>5 DEF p, q
  <2>5. QED  BY <2>3, <2>4
<1>5. QED  BY <1>1, <1>2, <1>3, <1>4, CommandKinds

(* A command's fold makes all of its stores. *)
LEMMA RunIs ==
    ASSUME NEW c \in Commands, NEW o \in Overrides
    PROVE Run(o, c) = Partial(c, o, Len(StoresOf(c, o)))
<1> DEFINE W == StoresOf(c, o)
           n == Len(W)
<1>1. W \in Seq(Writes) /\ n \in Nat /\ DOMAIN W = 1 .. n  BY StoresType
<1>2. \A p \in (1 .. n) \X Overrides : p[1] \in 1 .. n /\ p[2] \in Overrides  OBVIOUS
<1>3. \A i \in 1 .. n : W[i] \in Writes  BY <1>1
<1> DEFINE g == [p \in (1 .. n) \X Overrides |-> Written(p[2], W[p[1]])]
           Eq(k) == k = [s \in SUBSET (DOMAIN W) |->
                           IF s = {} THEN o ELSE Written(k[s \ {Max(s)}], W[Max(s)])]
<1>4. Run(o, c) = (CHOOSE k : Eq(k))[DOMAIN W]
  BY DEF Run, FoldLeft, MapThenFoldSet, Written
<1> HIDE DEF W
<1>5. g \in [(1 .. n) \X Overrides -> Overrides]  BY <1>2, <1>3, WrittenType
<1>6. \E k : Eq(k)
  <2>1. Solvable(Overrides, o, g, n)
    <3> HIDE DEF g
    <3>1. QED  BY <1>1, <1>5, FoldExists
  <2>2. PICK h \in [SUBSET (1 .. n) -> Overrides] : Solves(h, o, g, n)
    BY <2>1 DEF Solvable
  <2>3. ASSUME NEW s \in SUBSET (DOMAIN W)
        PROVE h[s] = IF s = {} THEN o ELSE Written(h[s \ {Max(s)}], W[Max(s)])
    <3>1. s \in SUBSET (1 .. n)  BY <1>1
    <3>2. h[s] = IF s = {} THEN o ELSE g[<<Max(s), h[s \ {Max(s)}]>>]
      BY <2>2, <3>1 DEF Solves
    <3>3. CASE s = {}  BY <3>2, <3>3
    <3>4. CASE s # {}
      <4>1. Max(s) \in 1 .. n  BY <1>1, <3>1, <3>4, MaxIn
      <4>2. h[s \ {Max(s)}] \in Overrides  BY <3>1
      <4>3. <<Max(s), h[s \ {Max(s)}]>> \in (1 .. n) \X Overrides  BY <4>1, <4>2
      <4>4. g[<<Max(s), h[s \ {Max(s)}]>>] = Written(h[s \ {Max(s)}], W[Max(s)])
        BY <4>3
      <4>5. QED  BY <3>2, <3>4, <4>4
    <3>5. QED  BY <3>3, <3>4
  <2>4. h = [s \in SUBSET (DOMAIN W) |-> h[s]]  BY <1>1
  <2>5. Eq(h)  BY <2>3, <2>4
  <2>6. QED  BY <2>5
<1>7. PICK k : Eq(k) /\ Run(o, c) = k[1 .. n]
  <2> HIDE DEF Eq
  <2>1. QED  BY <1>1, <1>4, <1>6
<1> DEFINE A == {i \in Nat : i <= n => k[1 .. i] = Partial(c, o, i)}
<1>8. 0 \in A
  <2>1. {} \in SUBSET (DOMAIN W) /\ 1 .. 0 = {}  OBVIOUS
  <2>2. k[{}] = o  BY <1>7, <2>1
  <2>3. Partial(c, o, 0) = o  BY PartialNone
  <2>4. QED  BY <2>1, <2>2, <2>3
<1>9. ASSUME NEW i \in A PROVE i + 1 \in A
  <2>1. SUFFICES ASSUME i + 1 <= n PROVE k[1 .. i + 1] = Partial(c, o, i + 1)  OBVIOUS
  <2>2. i \in Nat /\ i <= n /\ i + 1 \in 1 .. n /\ i + 1 - 1 = i /\ i \in 0 .. n - 1
    BY <1>1, <2>1
  <2>3. k[1 .. i] = Partial(c, o, i)  BY <2>2
  <2>4. /\ 1 .. i + 1 \in SUBSET (DOMAIN W) /\ 1 .. i + 1 # {}
        /\ Max(1 .. i + 1) = i + 1 /\ (1 .. i + 1) \ {i + 1} = 1 .. i
    BY <1>1, <2>2, Segment
  <2>5. k[1 .. i + 1] = Written(k[1 .. i], W[i + 1])  BY <1>7, <2>4
  <2>6. Written(Partial(c, o, i), W[i + 1]) = Partial(c, o, i + 1)
    BY <2>2, PartialStep DEF W
  <2>7. QED  BY <2>3, <2>5, <2>6
<1>10. A = Nat
  <2>1. A \subseteq Nat  OBVIOUS
  <2>2. QED  BY <1>8, <1>9, <2>1, SetInduction
<1>11. k[1 .. n] = Partial(c, o, n)  BY <1>1, <1>10
<1>12. QED  BY <1>7, <1>11 DEF W

(* How many stores each kind of command makes. *)
LEMMA StoresLen ==
    ASSUME NEW c \in Commands, NEW o
    PROVE /\ c.kind = "button" => Len(StoresOf(c, o)) = 2
          /\ c.kind = "stick" => Len(StoresOf(c, o)) = 3
          /\ c.kind = "clear" => Len(StoresOf(c, o)) = 4
          /\ c.kind = "claim" => Len(StoresOf(c, o)) = 1
<1>1. Len(ButtonStores(c, o)) = 2  BY DEF ButtonStores
<1>2. Len(StickStores(c)) = 3  BY DEF StickStores
<1>3. Len(ClearStores) = 4  BY DEF ClearStores
<1>4. Len(ClaimStores) = 1  BY DEF ClaimStores
<1>5. QED  BY <1>1, <1>2, <1>3, <1>4, StoresAre

LEMMA FreshIsSettled == Fresh \in Settled
BY ControlsAssumption DEF Fresh, Settled, Overrides

(* A whole command arms the override or, if it is a clear, empties it. *)
LEMMA RunSettled ==
    ASSUME NEW c \in Commands, NEW o \in Overrides
    PROVE /\ Run(o, c) \in Settled
          /\ c.kind = "clear" => Run(o, c) = Fresh
<1>1. Run(o, c) \in Overrides  BY RunIs, StoresType, PartialType
<1>2. CASE c.kind = "clear"
  <2>1. Run(o, c) = Partial(c, o, 4)  BY <1>2, RunIs, StoresLen
  <2> DEFINE q == Partial(c, o, 4)
  <2>2. q.active = FALSE  BY <1>2, 4 # 0, Zenon DEF Partial
  <2>3. q.buttons = {} /\ q.x = 0 /\ q.y = 0  BY <1>2 DEF Partial
  <2> HIDE DEF q
  <2>4. q = Fresh  BY <1>1, <2>1, <2>2, <2>3 DEF Overrides, Fresh, q
  <2>5. QED  BY <2>1, <2>4, FreshIsSettled DEF q
<1>3. CASE c.kind # "clear"
  <2> DEFINE n == Len(StoresOf(c, o))
             q == Partial(c, o, n)
  <2>1. n # 0
    <3>1. n \in 1 .. 4  BY StoresType
    <3> HIDE DEF n
    <3>2. QED  BY <3>1
  <2>2. q.active = TRUE  BY <1>3, <2>1, Zenon DEF Partial
  <2>3. Run(o, c) = q  BY RunIs
  <2>4. Run(o, c).active = TRUE  BY <2>2, <2>3, Zenon
  <2>5. QED  BY <1>1, <1>3, <2>4 DEF Settled
<1>4. QED  BY <1>2, <1>3
-----------------------------------------------------------------------------
(* Replaying a history. *)

(* f lists the overrides a client passes through that sends ev. *)
Replays(f, ev) ==
    /\ f \in [0 .. Len(ev) -> Settled]
    /\ f[0] = Fresh
    /\ \A i \in 1 .. Len(ev) : f[i] = Run(f[i - 1], ev[i])

LEMMA ReplaySteps ==
    ASSUME NEW ev \in Seq(Commands)
    PROVE \E f : Replays(f, ev) /\ Replay(ev) = f[Len(ev)]
<1> DEFINE n == Len(ev)
<1>1. n \in Nat /\ DOMAIN ev = 1 .. n /\ \A i \in 1 .. n : ev[i] \in Commands  OBVIOUS
<1>2. \A p \in (1 .. n) \X Settled : p[1] \in 1 .. n /\ p[2] \in Settled  OBVIOUS
<1>3. Settled \subseteq Overrides  BY DEF Settled
<1> DEFINE g == [p \in (1 .. n) \X Settled |-> Run(p[2], ev[p[1]])]
           Eq(k) == k = [s \in SUBSET (DOMAIN ev) |->
                           IF s = {} THEN Fresh ELSE Run(k[s \ {Max(s)}], ev[Max(s)])]
<1>4. Replay(ev) = (CHOOSE k : Eq(k))[DOMAIN ev]
  BY DEF Replay, FoldLeft, MapThenFoldSet
<1>5. g \in [(1 .. n) \X Settled -> Settled]  BY <1>1, <1>2, <1>3, RunSettled
<1>6. \E k : Eq(k)
  <2>1. Solvable(Settled, Fresh, g, n)
    <3> HIDE DEF g
    <3>1. QED  BY <1>1, <1>5, FoldExists, FreshIsSettled
  <2>2. PICK h \in [SUBSET (1 .. n) -> Settled] : Solves(h, Fresh, g, n)
    BY <2>1 DEF Solvable
  <2>3. ASSUME NEW s \in SUBSET (DOMAIN ev)
        PROVE h[s] = IF s = {} THEN Fresh ELSE Run(h[s \ {Max(s)}], ev[Max(s)])
    <3>1. s \in SUBSET (1 .. n)  BY <1>1
    <3>2. h[s] = IF s = {} THEN Fresh ELSE g[<<Max(s), h[s \ {Max(s)}]>>]
      BY <2>2, <3>1 DEF Solves
    <3>3. CASE s = {}  BY <3>2, <3>3
    <3>4. CASE s # {}
      <4>1. Max(s) \in 1 .. n  BY <1>1, <3>1, <3>4, MaxIn
      <4>2. h[s \ {Max(s)}] \in Settled  BY <3>1
      <4>3. <<Max(s), h[s \ {Max(s)}]>> \in (1 .. n) \X Settled  BY <4>1, <4>2
      <4>4. g[<<Max(s), h[s \ {Max(s)}]>>] = Run(h[s \ {Max(s)}], ev[Max(s)])
        BY <4>3
      <4>5. QED  BY <3>2, <3>4, <4>4
    <3>5. QED  BY <3>3, <3>4
  <2>4. h = [s \in SUBSET (DOMAIN ev) |-> h[s]]  BY <1>1
  <2>5. Eq(h)  BY <2>3, <2>4
  <2>6. QED  BY <2>5
<1>7. PICK k : Eq(k) /\ Replay(ev) = k[1 .. n]
  <2> HIDE DEF Eq
  <2>1. QED  BY <1>1, <1>4, <1>6
<1>8. k[1 .. 0] = Fresh
  <2>1. {} \in SUBSET (DOMAIN ev) /\ 1 .. 0 = {}  OBVIOUS
  <2>2. QED  BY <1>7, <2>1
<1>9. ASSUME NEW i \in 1 .. n PROVE k[1 .. i] = Run(k[1 .. i - 1], ev[i])
  <2>1. /\ 1 .. i \in SUBSET (DOMAIN ev) /\ 1 .. i # {}
        /\ Max(1 .. i) = i /\ (1 .. i) \ {i} = 1 .. i - 1
    BY <1>1, Segment
  <2>2. QED  BY <1>7, <2>1
<1> DEFINE A == {i \in Nat : i <= n => k[1 .. i] \in Settled}
<1>10. A = Nat
  <2>1. A \subseteq Nat  OBVIOUS
  <2>2. 0 \in A  BY <1>8, FreshIsSettled
  <2>3. ASSUME NEW i \in A PROVE i + 1 \in A
    <3>1. SUFFICES ASSUME i + 1 <= n PROVE k[1 .. i + 1] \in Settled  OBVIOUS
    <3>2. i <= n /\ i + 1 \in 1 .. n /\ i + 1 - 1 = i  BY <1>1, <3>1
    <3>3. k[1 .. i] \in Overrides /\ ev[i + 1] \in Commands  BY <1>1, <1>3, <3>2
    <3>4. k[1 .. i + 1] = Run(k[1 .. i], ev[i + 1])  BY <1>9, <3>2
    <3>5. QED  BY <3>3, <3>4, RunSettled
  <2>4. QED  BY <2>1, <2>2, <2>3, SetInduction
<1> DEFINE f == [i \in 0 .. n |-> k[1 .. i]]
<1>11. f \in [0 .. n -> Settled]  BY <1>1, <1>10
<1>12. f[0] = Fresh /\ f[n] = k[1 .. n]  BY <1>1, <1>8
<1>13. \A i \in 1 .. n : f[i] = Run(f[i - 1], ev[i])
  <2>1. \A i \in 1 .. n : i \in 0 .. n /\ i - 1 \in 0 .. n  BY <1>1
  <2>2. QED  BY <1>9, <2>1
<1>14. Replays(f, ev) /\ Replay(ev) = f[n]
  <2> HIDE DEF f
  <2>1. QED  BY <1>7, <1>11, <1>12, <1>13 DEF Replays
<1>15. QED  BY <1>14

LEMMA ReplayType ==
    /\ \A ev \in Seq(Commands) : Replay(ev) \in Settled
    /\ Replay(<<>>) = Fresh
<1>1. ASSUME NEW ev \in Seq(Commands) PROVE Replay(ev) \in Settled
  <2>1. Len(ev) \in 0 .. Len(ev)  OBVIOUS
  <2>2. QED  BY <2>1, ReplaySteps DEF Replays
<1>2. <<>> \in Seq(Commands) /\ Len(<<>>) = 0  OBVIOUS
<1>3. Replay(<<>>) = Fresh  BY <1>2, ReplaySteps DEF Replays
<1>4. QED  BY <1>1, <1>3

(* One command more. *)
LEMMA ReplayAppend ==
    ASSUME NEW ev \in Seq(Commands), NEW c \in Commands
    PROVE Replay(Append(ev, c)) = Run(Replay(ev), c)
<1> DEFINE n == Len(ev)
           ev1 == Append(ev, c)
<1>1. /\ n \in Nat /\ ev1 \in Seq(Commands) /\ Len(ev1) = n + 1 /\ ev1[n + 1] = c
      /\ \A i \in 1 .. n : ev1[i] = ev[i]
  OBVIOUS
<1>2. PICK f : Replays(f, ev) /\ Replay(ev) = f[n]  BY ReplaySteps
<1>3. PICK f1 : Replays(f1, ev1) /\ Replay(ev1) = f1[n + 1]  BY <1>1, ReplaySteps
<1> HIDE DEF ev1
<1> DEFINE A == {i \in Nat : i <= n => f1[i] = f[i]}
<1>5. A = Nat
  <2>1. A \subseteq Nat  OBVIOUS
  <2>2. 0 \in A  BY <1>2, <1>3 DEF Replays
  <2>3. ASSUME NEW i \in A PROVE i + 1 \in A
    <3>1. SUFFICES ASSUME i + 1 <= n PROVE f1[i + 1] = f[i + 1]  OBVIOUS
    <3>2. i <= n /\ i + 1 \in 1 .. n /\ i + 1 \in 1 .. n + 1 /\ i + 1 - 1 = i
      BY <1>1, <3>1
    <3>3. f1[i + 1] = Run(f1[i], ev1[i + 1])  BY <1>1, <1>3, <3>2 DEF Replays
    <3>4. f[i + 1] = Run(f[i], ev[i + 1])  BY <1>2, <3>2 DEF Replays
    <3>5. QED  BY <1>1, <3>2, <3>3, <3>4
  <2>4. QED  BY <2>1, <2>2, <2>3, SetInduction
<1>6. f1[n] = f[n]  BY <1>1, <1>5
<1>7. n + 1 \in 1 .. n + 1 /\ n + 1 - 1 = n  BY <1>1
<1>8. f1[n + 1] = Run(f1[n], c)  BY <1>1, <1>3, <1>7 DEF Replays
<1>9. QED  BY <1>2, <1>3, <1>6, <1>8 DEF ev1
-----------------------------------------------------------------------------
(* The inductive invariant. *)

(* Shapes that TypeOK leaves out. *)
Shape ==
    /\ sent \in Seq(Commands)
    /\ s_input_history \in [0 .. INPUT_HISTORY_CAP - 1 -> Commands \cup {<<>>}]
    /\ todo \in Seq(Writes)
    /\ command # <<>> => s_input_history_seq < MaxCommands
    /\ DOMAIN delivered = {"input", "overridden"}

(* The ring holds the latest events, each in its slot. *)
Ring ==
    \A i \in 1 .. Len(sent) :
        i > Len(sent) - INPUT_HISTORY_CAP =>
            s_input_history[(i - 1) % INPUT_HISTORY_CAP] = sent[i]

(* Command c, begun at override o, has made the first j of its stores. *)
Progress(c, o, j) ==
    /\ Len(todo) = Len(StoresOf(c, o)) - j
    /\ \A k \in 1 .. Len(todo) : todo[k] = StoresOf(c, o)[j + k]
    /\ override = Partial(c, o, j)

(* The override is o but for the command in progress. *)
From(o) ==
    IF command = <<>> THEN override = o
    ELSE \E j \in Nat : Progress(command[1], o, j)

(* The history from its i-th event on is enough to rebuild the override. *)
Explains(i) == i = 1 \/ \E j \in i .. Len(sent) : sent[j].kind = "clear"

History ==
    \A i \in 1 .. Len(sent) + 1 :
        Explains(i) => From(Replay(SubSeq(sent, i, Len(sent))))

(* What a poll has read, and what it can still read, was in effect. *)
Seen ==
    /\ poll.pc # "idle" => Effective(override) \in inEffect
    /\ poll.pc \in {"buttons", "x", "y"} =>
          /\ \E e \in inEffect : e.buttons = override.buttons
          /\ \E e \in inEffect : e.x = override.x
          /\ \E e \in inEffect : e.y = override.y
    /\ poll.pc \in {"x", "y", "deliver"} => \E e \in inEffect : e.buttons = poll.buttons
    /\ poll.pc \in {"y", "deliver"} => \E e \in inEffect : e.x = poll.x
    /\ poll.pc = "deliver" => \E e \in inEffect : e.y = poll.y

IInv == TypeOK /\ Shape /\ Ring /\ History /\ Seen
-----------------------------------------------------------------------------
(* What the shapes say of a step's inputs. *)
LEMMA EffectiveType == ASSUME NEW o \in Overrides PROVE Effective(o) \in Inputs
<1>1. CASE o.active  BY <1>1 DEF Overrides, Effective, Inputs
<1>2. CASE ~o.active
  <2>1. Effective(o) = Neutral  BY <1>2 DEF Effective
  <2>2. Neutral \in Inputs  BY ControlsAssumption DEF Neutral, Inputs
  <2>3. QED  BY <2>1, <2>2
<1>3. QED  BY <1>1, <1>2

LEMMA CommandIs ==
    ASSUME TypeOK
    PROVE command = <<>> \/ (command[1] \in Commands /\ command = <<command[1]>>)
BY DEF TypeOK

LEMMA HeadOfTodo ==
    ASSUME Shape, todo # <<>>
    PROVE /\ Head(todo) \in Writes /\ Tail(todo) \in Seq(Writes)
          /\ Head(todo) = todo[1] /\ Len(todo) \in Nat \ {0}
          /\ Len(Tail(todo)) = Len(todo) - 1
          /\ \A k \in 1 .. Len(todo) - 1 : Tail(todo)[k] = todo[k + 1]
<1>1. todo \in Seq(Writes)  BY DEF Shape
<1>2. QED  BY <1>1

(* The ring has a slot for every event. *)
LEMMA Slot ==
    ASSUME NEW i \in Nat
    PROVE i % INPUT_HISTORY_CAP \in 0 .. INPUT_HISTORY_CAP - 1
BY ControlsAssumption

LEMMA TypeInit == Init => TypeOK /\ Shape
<1> SUFFICES ASSUME Init PROVE TypeOK /\ Shape  OBVIOUS
<1> USE ControlsAssumption DEF Init
<1>1. override \in Overrides  BY FreshIsSettled DEF Settled
<1>2. /\ sent = <<>> /\ sent \in Seq(Commands) /\ Len(sent) = 0
      /\ todo = <<>> /\ todo \in Seq(Writes)
  OBVIOUS
<1>3. poll \in [pc : {"idle", "buttons", "x", "y", "deliver"}, buttons : SUBSET Buttons,
                x : StickPositions, y : StickPositions]
  BY DEF PollAt
<1>4. delivered.overridden \in Inputs /\ DOMAIN delivered = {"input", "overridden"}
  BY DEF Neutral, Inputs
<1>5. s_input_history \in [0 .. INPUT_HISTORY_CAP - 1 -> Commands \cup {<<>>}]
  OBVIOUS
<1>6. \A i \in 0 .. INPUT_HISTORY_CAP - 1 :
          IF i < s_input_history_seq THEN s_input_history[i] \in Commands
          ELSE s_input_history[i] = <<>>
  OBVIOUS
<1>7. QED  BY <1>1, <1>2, <1>3, <1>4, <1>5, <1>6 DEF TypeOK, Shape

LEMMA TypeStep == ASSUME TypeOK, Shape, [Next]_vars PROVE TypeOK' /\ Shape'
<1> USE ControlsAssumption
<1>1. CASE Receive
  <2>1. PICK c \in Commands : command' = <<c>> /\ todo' = StoresOf(c, override)
    BY <1>1 DEF Receive
  <2>2. override \in Overrides  BY DEF TypeOK
  <2>3. todo' \in Seq(Writes)  BY <2>1, <2>2, StoresType
  <2>4. command' # <<>>  BY <2>1
  <2>5. QED  BY <1>1, <2>1, <2>3, <2>4 DEF Receive, TypeOK, Shape
<1>2. CASE Store
  <2>1. Head(todo) \in Writes /\ Tail(todo) \in Seq(Writes)
    BY <1>2, HeadOfTodo DEF Store
  <2>2. override' \in Overrides
    <3>1. override' = Written(override, Head(todo))  BY <1>2 DEF Store, Written
    <3>2. QED  BY <2>1, <3>1, WrittenType DEF TypeOK
  <2>3. inEffect' \subseteq Inputs
    BY <1>2, <2>2, EffectiveType DEF Store, TypeOK
  <2>4. command # <<>>  BY <1>2 DEF Store, TypeOK
  <2>5. QED  BY <1>2, <2>1, <2>2, <2>3, <2>4 DEF Store, TypeOK, Shape
<1>3. CASE Record
  <2> DEFINE n == s_input_history_seq
             s == n % INPUT_HISTORY_CAP
  <2>1. /\ n \in Nat /\ n = Len(sent) /\ sent \in Seq(Commands)
        /\ command # <<>> /\ n < MaxCommands /\ todo = <<>>
    BY <1>3 DEF Record, TypeOK, Shape
  <2>2. command[1] \in Commands  BY <2>1, CommandIs
  <2>3. sent' \in Seq(Commands) /\ Len(sent') = n + 1
    BY <1>3, <2>1, <2>2 DEF Record
  <2>4. n' = n + 1 /\ n' \in 0 .. MaxCommands  BY <1>3, <2>1 DEF Record
  <2>5. s \in 0 .. INPUT_HISTORY_CAP - 1 /\ s <= n /\ (n < INPUT_HISTORY_CAP => s = n)
    BY <2>1
  <2> HIDE DEF s
  <2>6. s_input_history' = [s_input_history EXCEPT ![s] = command[1]]
    BY <1>3 DEF Record, s
  <2>7. s_input_history' \in [0 .. INPUT_HISTORY_CAP - 1 -> Commands \cup {<<>>}]
    BY <2>2, <2>5, <2>6 DEF Shape
  <2>8. ASSUME NEW i \in 0 .. INPUT_HISTORY_CAP - 1
        PROVE IF i < n + 1 THEN s_input_history'[i] \in Commands
              ELSE s_input_history'[i] = <<>>
    <3>1. CASE i = s
      <4>1. s_input_history'[i] = command[1]  BY <2>5, <2>6, <3>1 DEF Shape
      <4>2. i < n + 1  BY <2>1, <2>5, <3>1
      <4>3. QED  BY <2>2, <4>1, <4>2
    <3>2. CASE i # s
      <4>1. s_input_history'[i] = s_input_history[i]  BY <2>6, <3>2 DEF Shape
      <4>2. i < n + 1 <=> i < n  BY <2>1, <2>5, <3>2
      <4>3. QED  BY <4>1, <4>2 DEF TypeOK
    <3>3. QED  BY <3>1, <3>2
  <2>9. command' = <<>> /\ todo' = <<>> /\ UNCHANGED <<override, todo, poll, inEffect, delivered>>
    BY <1>3, <2>1 DEF Record
  <2>10. QED  BY <2>3, <2>4, <2>7, <2>8, <2>9 DEF TypeOK, Shape
<1>4. CASE PollActive
  <2>1. poll' \in [pc : {"idle", "buttons", "x", "y", "deliver"}, buttons : SUBSET Buttons,
                   x : StickPositions, y : StickPositions]
    BY <1>4 DEF PollActive, PollAt
  <2>2. inEffect' \subseteq Inputs  BY <1>4, EffectiveType DEF PollActive, TypeOK
  <2>3. QED  BY <1>4, <2>1, <2>2 DEF PollActive, TypeOK, Shape
<1>5. CASE PollOverride
  <2>1. poll' \in [pc : {"idle", "buttons", "x", "y", "deliver"}, buttons : SUBSET Buttons,
                   x : StickPositions, y : StickPositions]
    <3>1. CASE PollField("buttons", "x")  BY <3>1 DEF PollField, TypeOK, Overrides
    <3>2. CASE PollField("x", "y")  BY <3>2 DEF PollField, TypeOK, Overrides
    <3>3. CASE PollField("y", "deliver")  BY <3>3 DEF PollField, TypeOK, Overrides
    <3>4. QED  BY <1>5, <3>1, <3>2, <3>3 DEF PollOverride
  <2>2. QED  BY <1>5, <2>1 DEF PollOverride, PollField, TypeOK, Shape
<1>6. CASE PollDeliver
  <2> DEFINE o == [buttons |-> poll.buttons, x |-> poll.x, y |-> poll.y]
  <2>1. o \in Inputs  BY DEF TypeOK, Inputs
  <2> HIDE DEF o
  <2>2. PICK d \in Devices : delivered' = [input |-> Merge(d, o), overridden |-> o]
    BY <1>6 DEF PollDeliver, o
  <2>3. delivered'.overridden \in Inputs /\ DOMAIN delivered' = {"input", "overridden"}
    BY <2>1, <2>2
  <2>4. poll' \in [pc : {"idle", "buttons", "x", "y", "deliver"}, buttons : SUBSET Buttons,
                   x : StickPositions, y : StickPositions]
    BY <1>6 DEF PollDeliver, TypeOK
  <2>5. inEffect' \subseteq Inputs  BY <1>6 DEF PollDeliver
  <2>6. QED  BY <1>6, <2>3, <2>4, <2>5 DEF PollDeliver, TypeOK, Shape
<1>7. CASE UNCHANGED vars  BY <1>7 DEF vars, TypeOK, Shape
<1>8. QED  BY <1>1, <1>2, <1>3, <1>4, <1>5, <1>6, <1>7 DEF Next, Server, Game
-----------------------------------------------------------------------------
(* The ring. *)

LEMMA Spaced ==
    ASSUME NEW K \in Nat \ {0}, NEW a \in Nat, NEW b \in Nat, a < b
    PROVE K * a + K <= K * b
<1>1. PICK d \in Nat : b = a + 1 + d  BY b - a - 1 \in Nat
<1>2. K * b = K * a + K + K * d  BY <1>1
<1>3. K * d >= 0 /\ K * a \in Nat  OBVIOUS
<1>4. QED  BY <1>2, <1>3

(* Two events less than a ring apart have slots of their own. *)
LEMMA SlotsApart ==
    ASSUME NEW a \in Nat, NEW b \in Nat, a < b, b < a + INPUT_HISTORY_CAP
    PROVE a % INPUT_HISTORY_CAP # b % INPUT_HISTORY_CAP
<1> DEFINE K == INPUT_HISTORY_CAP
<1>1. K \in Nat \ {0}  BY ControlsAssumption
<1> HIDE DEF K
<1>2. PICK s \in Nat, r \in 0 .. K - 1 : a = K * s + r /\ a % K = r
  <2>1. a \div K \in Nat /\ a % K \in 0 .. K - 1  BY <1>1
  <2>2. a = K * (a \div K) + (a % K)  BY <1>1
  <2>3. QED  BY <2>1, <2>2
<1>3. PICK t \in Nat, q \in 0 .. K - 1 : b = K * t + q /\ b % K = q
  <2>1. b \div K \in Nat /\ b % K \in 0 .. K - 1  BY <1>1
  <2>2. b = K * (b \div K) + (b % K)  BY <1>1
  <2>3. QED  BY <2>1, <2>2
<1>4. SUFFICES ASSUME r = q PROVE FALSE  BY <1>2, <1>3 DEF K
<1> DEFINE sk == K * s
           tk == K * t
<1>5. sk \in Int /\ tk \in Int  BY <1>1
<1>6. s < t => sk + K <= tk  BY <1>1, Spaced
<1>7. t < s => tk + K <= sk  BY <1>1, Spaced
<1>8. s = t => sk = tk  OBVIOUS
<1>9. a = sk + r /\ b = tk + r  BY <1>2, <1>3, <1>4
<1> HIDE DEF sk, tk
<1>10. a < b /\ b < a + K  BY DEF K
<1>11. s < t \/ t < s \/ s = t  OBVIOUS
<1>12. QED  BY <1>1, <1>5, <1>6, <1>7, <1>8, <1>9, <1>10, <1>11

LEMMA RingStep == ASSUME TypeOK, Shape, Ring, [Next]_vars PROVE Ring'
<1> USE ControlsAssumption
<1>1. CASE Record
  <2> DEFINE n == s_input_history_seq
             s == n % INPUT_HISTORY_CAP
  <2>1. /\ n \in Nat /\ n = Len(sent) /\ sent \in Seq(Commands) /\ command # <<>>
    BY <1>1 DEF Record, TypeOK, Shape
  <2>2. command[1] \in Commands  BY <2>1, CommandIs
  <2>3. /\ Len(sent') = n + 1 /\ sent'[n + 1] = command[1]
        /\ \A i \in 1 .. n : sent'[i] = sent[i]
    BY <1>1, <2>1, <2>2 DEF Record
  <2>4. s \in 0 .. INPUT_HISTORY_CAP - 1  BY <2>1
  <2>5. s_input_history' = [s_input_history EXCEPT ![s] = command[1]]
    BY <1>1 DEF Record
  <2> DEFINE Placed(i) == s_input_history'[(i - 1) % INPUT_HISTORY_CAP] = sent'[i]
  <2>6. ASSUME NEW i \in 1 .. n + 1, i > n + 1 - INPUT_HISTORY_CAP
        PROVE Placed(i)
    <3>1. CASE i = n + 1
      <4>1. (i - 1) % INPUT_HISTORY_CAP = s  BY <2>1, <3>1
      <4> HIDE DEF s
      <4>2. s_input_history'[s] = command[1]  BY <2>4, <2>5 DEF Shape
      <4>3. QED  BY <2>3, <3>1, <4>1, <4>2
    <3>2. CASE i # n + 1
      <4>1. i \in 1 .. n /\ i > n - INPUT_HISTORY_CAP  BY <2>1, <2>6, <3>2
      <4>2. i - 1 \in Nat /\ i - 1 < n /\ n < i - 1 + INPUT_HISTORY_CAP  BY <2>1, <2>6, <3>2
      <4>3. (i - 1) % INPUT_HISTORY_CAP # s  BY <2>1, <4>2, SlotsApart
      <4>4. (i - 1) % INPUT_HISTORY_CAP \in 0 .. INPUT_HISTORY_CAP - 1  BY <4>2
      <4> HIDE DEF s
      <4>5. s_input_history'[(i - 1) % INPUT_HISTORY_CAP]
              = s_input_history[(i - 1) % INPUT_HISTORY_CAP]
        BY <2>5, <4>3, <4>4 DEF Shape
      <4>6. s_input_history[(i - 1) % INPUT_HISTORY_CAP] = sent[i]
        BY <2>1, <4>1 DEF Ring
      <4>7. QED  BY <2>3, <4>1, <4>5, <4>6
    <3>3. QED  BY <3>1, <3>2
  <2>7. \A i \in 1 .. Len(sent') : i > Len(sent') - INPUT_HISTORY_CAP => Placed(i)
    <3> HIDE DEF n, Placed
    <3>1. QED  BY <2>1, <2>3, <2>6
  <2>8. QED  BY <2>7 DEF Ring
<1>2. CASE UNCHANGED <<s_input_history, sent>>  BY <1>2 DEF Ring
<1>3. QED
  BY <1>1, <1>2 DEF Next, Server, Game, Receive, Store, PollActive, PollOverride,
     PollField, PollDeliver, vars

(* A dump is the latest part of the history. *)
LEMMA DumpIs ==
    ASSUME TypeOK, Shape, Ring
    PROVE \E m \in 0 .. Len(sent) :
              /\ Dump = SubSeq(sent, m + 1, Len(sent))
              /\ Len(Dump) = Len(sent) - m
              /\ s_input_history_seq <= INPUT_HISTORY_CAP => m = 0
              /\ DOMAIN Dump = 1 .. Len(sent) - m
              /\ \A i \in 1 .. Len(sent) - m : Dump[i] = sent[m + i]
<1> USE ControlsAssumption
<1> DEFINE n == Len(sent)
           count == IF n < INPUT_HISTORY_CAP THEN n ELSE INPUT_HISTORY_CAP
           m == n - count
           D == [i \in 1 .. count |-> s_input_history[(m + i - 1) % INPUT_HISTORY_CAP]]
<1>1. n \in Nat /\ n = s_input_history_seq /\ sent \in Seq(Commands)
  BY DEF TypeOK, Shape
<1>2. /\ m \in 0 .. n /\ count \in Nat /\ count <= INPUT_HISTORY_CAP
      /\ n <= INPUT_HISTORY_CAP => m = 0
  BY <1>1
<1>3. Dump = D  BY <1>1 DEF Dump
<1>4. m + count = n  BY <1>1, <1>2
<1> HIDE DEF m, count
<1>5. ASSUME NEW i \in 1 .. count PROVE D[i] = sent[m + i]
  <2> DEFINE k == m + i
  <2>1. k \in 1 .. n /\ k > n - INPUT_HISTORY_CAP  BY <1>1, <1>2, <1>4
  <2> HIDE DEF k
  <2>2. s_input_history[(k - 1) % INPUT_HISTORY_CAP] = sent[k]  BY <2>1 DEF Ring
  <2>3. D[i] = s_input_history[(m + i - 1) % INPUT_HISTORY_CAP]  OBVIOUS
  <2>4. m + i - 1 = k - 1  BY <1>1, <1>2 DEF k
  <2>5. sent[k] = sent[m + i]  BY DEF k
  <2> HIDE DEF D
  <2>6. QED  BY <2>2, <2>3, <2>4, <2>5, Zenon
<1> DEFINE S == SubSeq(sent, m + 1, n)
<1>6. S = [i \in 1 .. count |-> sent[m + i]]
  <2>1. S = [i \in 1 .. n - (m + 1) + 1 |-> sent[m + 1 + i - 1]]
    BY <1>1, <1>2
  <2>2. n - (m + 1) + 1 = count  BY <1>1, <1>2, <1>4
  <2>3. \A i \in 1 .. count : m + 1 + i - 1 = m + i  BY <1>2
  <2>4. QED  BY <2>1, <2>2, <2>3
<1>7. D = S
  <2>1. D = [i \in 1 .. count |-> D[i]]  OBVIOUS
  <2> HIDE DEF D, S
  <2>2. D = [i \in 1 .. count |-> sent[m + i]]  BY <1>5, <2>1
  <2>3. QED  BY <1>6, <2>2
<1>8. Len(S) = count  BY <1>2, <1>6
<1>9. count = n - m  BY <1>1, <1>2, <1>4
<1>10. QED  BY <1>1, <1>2, <1>3, <1>5, <1>7, <1>8, <1>9
-----------------------------------------------------------------------------
(* The poll. *)

(* A store is the next one of the command in progress, and a store that    *)
(* leaves the override disarmed only empties it.                           *)
LEMMA StoreProgress ==
    ASSUME TypeOK, Shape, Store, NEW o \in Overrides, From(o)
    PROVE /\ From(o)'
          /\ ~override'.active =>
                /\ override'.buttons \in {override.buttons, {}}
                /\ override'.x \in {override.x, 0}
                /\ override'.y \in {override.y, 0}
<1>1. PICK c \in Commands : command # <<>> /\ c = command[1]
  BY CommandIs DEF Store, TypeOK
<1> DEFINE W == StoresOf(c, o)
<1>2. PICK j \in Nat : Progress(c, o, j)  BY <1>1 DEF From
<1>3. /\ Head(todo) = todo[1] /\ Len(todo) \in Nat \ {0}
      /\ Len(Tail(todo)) = Len(todo) - 1
      /\ \A k \in 1 .. Len(todo) - 1 : Tail(todo)[k] = todo[k + 1]
  BY HeadOfTodo DEF Store
<1>4. Len(W) \in 1 .. 4  BY <1>1, StoresType
<1> HIDE DEF W
<1>5. /\ Len(todo) = Len(W) - j /\ \A k \in 1 .. Len(todo) : todo[k] = W[j + k]
      /\ override = Partial(c, o, j)
  BY <1>2 DEF Progress, W
<1>6. j \in 0 .. Len(W) - 1  BY <1>3, <1>4, <1>5
<1>7. Head(todo) = W[j + 1]  BY <1>3, <1>5
<1>8. override' = Written(override, Head(todo))  BY DEF Store, Written
<1>9. override' = Partial(c, o, j + 1)
  BY <1>1, <1>5, <1>6, <1>7, <1>8, PartialStep DEF W
<1>10. todo' = Tail(todo) /\ command' = command  BY DEF Store
<1>11. Len(todo') = Len(W) - (j + 1)  BY <1>3, <1>4, <1>5, <1>10
<1>12. ASSUME NEW k \in 1 .. Len(todo') PROVE todo'[k] = W[j + 1 + k]
  <2>1. k \in 1 .. Len(todo) - 1 /\ k + 1 \in 1 .. Len(todo)  BY <1>3, <1>10
  <2>2. todo'[k] = todo[k + 1]  BY <1>3, <1>10, <2>1
  <2>3. todo[k + 1] = W[j + (k + 1)]  BY <1>5, <2>1
  <2>4. j + (k + 1) = j + 1 + k  BY <2>1
  <2>5. QED  BY <2>2, <2>3, <2>4
<1>13. Progress(c, o, j + 1)'
  BY <1>9, <1>10, <1>11, <1>12 DEF Progress, W
<1>14. From(o)'
  <2>1. command'[1] = c /\ command' # <<>>  BY <1>1, <1>10
  <2>2. j + 1 \in Nat  OBVIOUS
  <2>3. \E i \in Nat : Progress(c, o, i)'  BY <1>13, <2>2
  <2>4. QED  BY <1>10, <2>1, <2>3 DEF From
<1>15. ASSUME ~override'.active
       PROVE /\ override'.buttons \in {override.buttons, {}}
             /\ override'.x \in {override.x, 0}
             /\ override'.y \in {override.y, 0}
  <2>1. c.kind = "clear"
    <3>1. CASE c.kind # "clear"
      <4>1. j + 1 # 0  BY <1>6
      <4>2. Partial(c, o, j + 1).active = TRUE  BY <3>1, <4>1, Zenon DEF Partial
      <4>3. override'.active = TRUE  BY <1>9, <4>2, Zenon
      <4>4. QED  BY <1>15, <4>3
    <3>2. QED  BY <3>1
  <2> DEFINE p == Partial(c, o, j)
             q == Partial(c, o, j + 1)
  <2>2. q.buttons \in {p.buttons, {}} /\ q.x \in {p.x, 0} /\ q.y \in {p.y, 0}
    BY <1>6, <2>1 DEF Partial
  <2> HIDE DEF p, q
  <2>3. override = p /\ override' = q  BY <1>5, <1>9 DEF p, q
  <2>4. QED  BY <2>2, <2>3
<1>16. QED  BY <1>14, <1>15

(* History gives the override an origin. *)
LEMMA Origin ==
    ASSUME TypeOK, Shape, History
    PROVE From(Replay(sent)) /\ Replay(sent) \in Settled
<1>1. sent \in Seq(Commands) /\ Len(sent) \in Nat  BY DEF Shape
<1>2. SubSeq(sent, 1, Len(sent)) = sent  BY <1>1
<1>3. 1 \in 1 .. Len(sent) + 1 /\ Explains(1)  BY <1>1 DEF Explains
<1>4. From(Replay(sent))  BY <1>2, <1>3 DEF History
<1>5. Replay(sent) \in Settled  BY <1>1, ReplayType
<1>6. QED  BY <1>4, <1>5

(* What the poll sees of an override. *)
LEMMA EffectiveIs ==
    ASSUME NEW o \in Overrides
    PROVE /\ o.active => /\ Effective(o).buttons = o.buttons
                         /\ Effective(o).x = o.x /\ Effective(o).y = o.y
          /\ ~o.active => /\ Effective(o).buttons = {}
                          /\ Effective(o).x = 0 /\ Effective(o).y = 0
BY DEF Effective, Neutral

LEMMA SeenStep == ASSUME IInv, TypeOK', [Next]_vars PROVE Seen'
<1>t. TypeOK /\ Shape /\ Seen /\ History  BY DEF IInv
<1>o. override \in Overrides /\ override' \in Overrides  BY <1>t DEF TypeOK
<1>1. CASE Store
  <2> DEFINE e0 == Effective(override')
  <2>1. poll' = poll  BY <1>1 DEF Store
  <2>2. CASE poll.pc = "idle"  BY <2>1, <2>2 DEF Seen
  <2>3. CASE poll.pc # "idle"
    <3>1. inEffect' = inEffect \cup {e0}  BY <1>1, <2>3 DEF Store
    <3>2. ASSUME poll.pc \in {"buttons", "x", "y"}
          PROVE /\ \E e \in inEffect' : e.buttons = override'.buttons
                /\ \E e \in inEffect' : e.x = override'.x
                /\ \E e \in inEffect' : e.y = override'.y
      <4>0. e0 \in inEffect' /\ inEffect \subseteq inEffect'  BY <3>1
      <4>1. CASE override'.active
        <5>1. e0.buttons = override'.buttons /\ e0.x = override'.x /\ e0.y = override'.y
          BY <1>o, <4>1, EffectiveIs
        <5>2. QED  BY <4>0, <5>1
      <4>2. CASE ~override'.active
        <5>1. e0.buttons = {} /\ e0.x = 0 /\ e0.y = 0  BY <1>o, <4>2, EffectiveIs
        <5>2. From(Replay(sent)) /\ Replay(sent) \in Overrides
          BY <1>t, Origin DEF Settled
        <5>3. /\ override'.buttons \in {override.buttons, {}}
              /\ override'.x \in {override.x, 0} /\ override'.y \in {override.y, 0}
          BY <1>t, <1>1, <4>2, <5>2, StoreProgress
        <5>4. /\ \E e \in inEffect : e.buttons = override.buttons
              /\ \E e \in inEffect : e.x = override.x
              /\ \E e \in inEffect : e.y = override.y
          BY <1>t, <3>2 DEF Seen
        <5> HIDE DEF e0
        <5>5. QED  BY <4>0, <5>1, <5>3, <5>4
      <4>3. QED  BY <4>1, <4>2
    <3>3. QED  BY <1>t, <2>1, <3>1, <3>2 DEF Seen
  <2>4. QED  BY <2>2, <2>3
<1>2. CASE PollActive
  <2> DEFINE e0 == Effective(override)
  <2>1. /\ inEffect' = {e0} /\ override' = override
        /\ poll' = PollAt(IF override.active THEN "buttons" ELSE "deliver")
    BY <1>2 DEF PollActive
  <2>2. CASE override.active
    <3>1. poll'.pc = "buttons"  BY <2>1, <2>2 DEF PollAt
    <3>2. e0.buttons = override.buttons /\ e0.x = override.x /\ e0.y = override.y
      BY <1>o, <2>2, EffectiveIs
    <3>3. QED  BY <2>1, <3>1, <3>2 DEF Seen
  <2>3. CASE ~override.active
    <3>1. /\ poll'.pc = "deliver" /\ poll'.buttons = {}
          /\ poll'.x = 0 /\ poll'.y = 0
      BY <2>1, <2>3 DEF PollAt
    <3>2. e0.buttons = {} /\ e0.x = 0 /\ e0.y = 0  BY <1>o, <2>3, EffectiveIs
    <3>3. QED  BY <2>1, <3>1, <3>2 DEF Seen
  <2>4. QED  BY <2>2, <2>3
<1>3. CASE PollField("buttons", "x")
  <2>1. /\ poll.pc = "buttons" /\ poll'.pc = "x" /\ poll'.buttons = override.buttons
        /\ poll'.x = poll.x /\ poll'.y = poll.y
        /\ UNCHANGED <<override, inEffect>>
    BY <1>3, <1>t DEF PollField, TypeOK
  <2>2. QED  BY <1>t, <2>1 DEF Seen
<1>4. CASE PollField("x", "y")
  <2>1. /\ poll.pc = "x" /\ poll'.pc = "y" /\ poll'.x = override.x
        /\ poll'.buttons = poll.buttons /\ poll'.y = poll.y
        /\ UNCHANGED <<override, inEffect>>
    BY <1>4, <1>t DEF PollField, TypeOK
  <2>2. QED  BY <1>t, <2>1 DEF Seen
<1>5. CASE PollField("y", "deliver")
  <2>1. /\ poll.pc = "y" /\ poll'.pc = "deliver" /\ poll'.y = override.y
        /\ poll'.buttons = poll.buttons /\ poll'.x = poll.x
        /\ UNCHANGED <<override, inEffect>>
    BY <1>5, <1>t DEF PollField, TypeOK
  <2>2. QED  BY <1>t, <2>1 DEF Seen
<1>6. CASE PollDeliver
  <2>1. poll'.pc = "idle"  BY <1>6, <1>t DEF PollDeliver, TypeOK
  <2>2. QED  BY <2>1 DEF Seen
<1>7. CASE UNCHANGED <<override, poll, inEffect>>  BY <1>t, <1>7 DEF Seen
<1>8. QED
  BY <1>1, <1>2, <1>3, <1>4, <1>5, <1>6, <1>7
  DEF Next, Server, Game, Receive, Record, PollOverride, vars
-----------------------------------------------------------------------------
(* The history. *)

(* The part of a history from its i-th event on. *)
LEMMA SuffixType ==
    ASSUME NEW S, NEW s \in Seq(S), NEW i \in 1 .. Len(s) + 1
    PROVE SubSeq(s, i, Len(s)) \in Seq(S)
<1>1. \A k \in i .. Len(s) : s[k] \in S  OBVIOUS
<1>2. i \in Int /\ Len(s) \in Int  OBVIOUS
<1>3. QED  BY <1>1, <1>2, SubSeqProperties

LEMMA Suffix ==
    ASSUME NEW S, NEW s \in Seq(S), NEW c \in S, NEW i \in 1 .. Len(s) + 1
    PROVE SubSeq(Append(s, c), i, Len(s) + 1) = Append(SubSeq(s, i, Len(s)), c)
<1> DEFINE n == Len(s)
           m == n + 1 - i
           a == Append(s, c)
           t == SubSeq(s, i, n)
           u == SubSeq(a, i, n + 1)
<1>1. n \in Nat /\ m \in Nat /\ i \in Nat /\ 1 <= i  OBVIOUS
<1>2. /\ a \in Seq(S) /\ Len(a) = n + 1 /\ a[n + 1] = c
      /\ \A k \in 1 .. n : a[k] = s[k]
  OBVIOUS
<1> HIDE DEF a
<1>3. t = [k \in 1 .. m |-> s[i + k - 1]]
  <2>1. t = [k \in 1 .. n - i + 1 |-> s[i + k - 1]]  OBVIOUS
  <2>2. n - i + 1 = m  BY <1>1
  <2>3. QED  BY <2>1, <2>2
<1>4. u = [k \in 1 .. m + 1 |-> a[i + k - 1]]
  <2> DEFINE l == n + 1
  <2>1. l \in Nat /\ i <= l /\ l - i + 1 = m + 1  BY <1>1
  <2> HIDE DEF l
  <2>2. SubSeq(a, i, l) = [k \in 1 .. l - i + 1 |-> a[i + k - 1]]  BY <1>2, <2>1
  <2>3. QED  BY <2>1, <2>2 DEF l
<1>5. \A k \in 1 .. m : i + k - 1 \in 1 .. n  BY <1>1
<1>6. i + (m + 1) - 1 = n + 1  BY <1>1
<1> HIDE DEF m, t, u
<1>7. t \in Seq(S) /\ Len(t) = m  BY <1>1, <1>3, <1>5
<1>8. Append(t, c) \in Seq(S) /\ Len(Append(t, c)) = m + 1  BY <1>7
<1>9. u \in Seq(S) /\ Len(u) = m + 1
  <2>1. \A k \in 1 .. m + 1 : a[i + k - 1] \in S
    <3>1. \A k \in 1 .. m + 1 : k \in 1 .. m \/ k = m + 1  BY <1>1
    <3>2. \A k \in 1 .. n : a[k] \in S  BY <1>2
    <3>3. QED  BY <1>2, <1>5, <1>6, <3>1, <3>2
  <2>2. QED  BY <1>1, <1>4, <2>1
<1>10. ASSUME NEW k \in 1 .. m + 1 PROVE u[k] = Append(t, c)[k]
  <2>1. u[k] = a[i + k - 1]  BY <1>4
  <2>2. CASE k = m + 1
    <3>1. Append(t, c)[m + 1] = c  BY <1>7
    <3>2. QED  BY <1>2, <1>6, <2>1, <2>2, <3>1
  <2>3. CASE k # m + 1
    <3>1. k \in 1 .. m  BY <1>1, <2>3
    <3>2. Append(t, c)[k] = t[k]  BY <1>7, <3>1
    <3>3. t[k] = s[i + k - 1]  BY <1>3, <3>1
    <3>4. a[i + k - 1] = s[i + k - 1]  BY <1>2, <1>5, <3>1
    <3>5. QED  BY <2>1, <3>2, <3>3, <3>4
  <2>4. QED  BY <2>2, <2>3
<1>11. u = Append(t, c)  BY <1>8, <1>9, <1>10, SeqEqual
<1>12. QED  BY <1>11 DEF a, t, u

(* A whole command is in the override once its stores are made. *)
LEMMA AllStored ==
    ASSUME TypeOK, Shape, Record, NEW o \in Overrides, From(o)
    PROVE override = Run(o, command[1])
<1>1. PICK c \in Commands : command # <<>> /\ c = command[1]
  BY CommandIs DEF Record
<1>2. PICK j \in Nat : Progress(c, o, j)  BY <1>1 DEF From
<1>3. todo = <<>> /\ Len(todo) = 0  BY DEF Record
<1>4. Len(StoresOf(c, o)) \in 1 .. 4  BY <1>1, StoresType
<1>5. j = Len(StoresOf(c, o))  BY <1>2, <1>3, <1>4 DEF Progress
<1>6. override = Partial(c, o, Len(StoresOf(c, o)))  BY <1>2, <1>5 DEF Progress
<1>7. QED  BY <1>1, <1>6, RunIs

LEMMA HistoryStep == ASSUME TypeOK, Shape, History, [Next]_vars PROVE History'
<1> DEFINE n == Len(sent)
           R(i) == Replay(SubSeq(sent, i, n))
<1>0. sent \in Seq(Commands) /\ n \in Nat  BY DEF Shape
<1>s. ASSUME NEW i \in 1 .. n + 1 PROVE R(i) \in Settled /\ R(i) \in Overrides
  <2>1. SubSeq(sent, i, n) \in Seq(Commands)  BY <1>0, SuffixType
  <2>2. R(i) \in Settled  BY <2>1, ReplayType
  <2>3. QED  BY <2>2 DEF Settled
<1>h. \A i \in 1 .. n + 1 : Explains(i) => From(R(i))  BY DEF History
<1> HIDE DEF R
<1>e. ASSUME UNCHANGED sent,
             \A i \in 1 .. n + 1 : From(R(i)) => From(R(i))'
      PROVE  History'
  <2>1. \A i \in 1 .. n + 1 : Explains(i)' => Explains(i)  BY <1>e DEF Explains
  <2>2. n' = n  BY <1>e
  <2>3. QED  BY <1>h, <1>e, <2>1, <2>2 DEF History, R
<1>1. CASE Receive
  <2>1. PICK c \in Commands : command' = <<c>> /\ todo' = StoresOf(c, override)
    BY <1>1 DEF Receive
  <2>2. command = <<>> /\ UNCHANGED <<override, sent>>  BY <1>1 DEF Receive
  <2>3. ASSUME NEW o \in Overrides, From(o) PROVE From(o)'
    <3>1. override = o  BY <2>2, <2>3 DEF From
    <3>2. Partial(c, o, 0) = o  BY PartialNone
    <3>3. Len(StoresOf(c, o)) \in 1 .. 4  BY StoresType
    <3>4. todo' = StoresOf(c, o)  BY <2>1, <3>1
    <3>5. Len(todo') = Len(StoresOf(c, o)) - 0  BY <3>3, <3>4
    <3>6. \A k \in 1 .. Len(todo') : todo'[k] = StoresOf(c, o)[0 + k]
      <4>1. \A k \in 1 .. Len(todo') : 0 + k = k  BY <3>3, <3>4
      <4>2. QED  BY <3>4, <4>1
    <3>7. Progress(c, o, 0)'  BY <2>2, <3>1, <3>2, <3>5, <3>6 DEF Progress
    <3>8. command' # <<>> /\ command'[1] = c  BY <2>1
    <3>9. \E j \in Nat : Progress(c, o, j)'  BY <3>7
    <3>10. QED  BY <3>8, <3>9 DEF From
  <2>4. ASSUME NEW i \in 1 .. n + 1, From(R(i)) PROVE From(R(i))'
    <3>1. R(i)' = R(i)  BY <2>2 DEF R
    <3>2. PICK o \in Overrides : o = R(i)  BY <1>s
    <3>3. From(o)'  BY <2>3, <2>4, <3>2
    <3>4. QED  BY <3>1, <3>2, <3>3
  <2>5. QED  BY <1>e, <2>2, <2>4
<1>2. CASE Store
  <2>1. UNCHANGED sent  BY <1>2 DEF Store
  <2>2. ASSUME NEW i \in 1 .. n + 1, From(R(i)) PROVE From(R(i))'
    <3>1. R(i)' = R(i)  BY <2>1 DEF R
    <3>2. PICK o \in Overrides : o = R(i)  BY <1>s
    <3>3. From(o)'  BY <1>2, <2>2, <3>2, StoreProgress
    <3>4. QED  BY <3>1, <3>2, <3>3
  <2>3. QED  BY <1>e, <2>1, <2>2
<1>3. CASE Record
  <2>1. PICK c \in Commands : command # <<>> /\ c = command[1]
    BY <1>3, CommandIs DEF Record
  <2>2. /\ sent' = Append(sent, c) /\ command' = <<>> /\ override' = override
    BY <1>3, <2>1 DEF Record
  <2>3. /\ Len(sent') = n + 1 /\ sent'[n + 1] = c
        /\ \A j \in 1 .. n : sent'[j] = sent[j]
    BY <1>0, <2>2
  <2>4. ASSUME NEW i \in 1 .. n + 2, Explains(i)'
        PROVE From(Replay(SubSeq(sent, i, Len(sent))))'
    <3>1. i \in 1 .. n + 1
      <4>1. CASE i = n + 2  BY <1>0, <2>3, <2>4, <4>1 DEF Explains
      <4>2. QED  BY <1>0, <4>1
    <3>2. SubSeq(sent', i, n + 1) = Append(SubSeq(sent, i, n), c)
      BY <1>0, <2>2, <3>1, Suffix
    <3>3. SubSeq(sent, i, n) \in Seq(Commands)  BY <1>0, <3>1, SuffixType
    <3>4. Replay(SubSeq(sent', i, Len(sent'))) = Run(R(i), c)
      BY <2>3, <3>2, <3>3, ReplayAppend DEF R
    <3>5. R(i) \in Overrides  BY <1>s, <3>1
    <3>6. CASE Explains(i)
      <4>1. From(R(i))  BY <1>h, <3>1, <3>6
      <4>2. override = Run(R(i), c)  BY <1>3, <2>1, <3>5, <4>1, AllStored
      <4>3. QED  BY <2>2, <3>4, <4>2 DEF From
    <3>7. CASE ~Explains(i)
      <4>1. i # 1 /\ \A j \in i .. n : sent[j].kind # "clear"  BY <3>7 DEF Explains
      <4>2. PICK j \in i .. n + 1 : sent'[j].kind = "clear"
        BY <2>3, <2>4, <4>1 DEF Explains
      <4>3. c.kind = "clear"
        <5>1. CASE j = n + 1  BY <2>3, <4>2, <5>1
        <5>2. CASE j # n + 1
          <6>1. j \in i .. n /\ j \in 1 .. n  BY <1>0, <3>1, <5>2
          <6>2. QED  BY <2>3, <4>1, <4>2, <6>1
        <5>3. QED  BY <5>1, <5>2
      <4>4. Run(R(i), c) = Fresh  BY <3>5, <4>3, RunSettled
      <4>5. From(Replay(sent)) /\ Replay(sent) \in Overrides  BY Origin DEF Settled
      <4>6. override = Run(Replay(sent), c)  BY <1>3, <2>1, <4>5, AllStored
      <4>7. override = Fresh  BY <4>3, <4>5, <4>6, RunSettled
      <4>8. QED  BY <2>2, <3>4, <4>4, <4>7 DEF From
    <3>8. QED  BY <3>6, <3>7
  <2>5. Len(sent') + 1 = n + 2  BY <1>0, <2>3
  <2>6. QED  BY <2>3, <2>4, <2>5 DEF History
<1>4. CASE UNCHANGED <<override, todo, command, sent>>
  <2>1. ASSUME NEW i \in 1 .. n + 1, From(R(i)) PROVE From(R(i))'
    <3>1. R(i)' = R(i)  BY <1>4 DEF R
    <3>2. \A o : From(o) => From(o)'  BY <1>4 DEF From, Progress
    <3>3. QED  BY <2>1, <3>1, <3>2
  <2>2. QED  BY <1>4, <1>e, <2>1
<1>5. QED
  BY <1>1, <1>2, <1>3, <1>4
  DEF Next, Server, Game, PollActive, PollOverride, PollField, PollDeliver, vars
-----------------------------------------------------------------------------
LEMMA InitIInv == Init => IInv
<1> SUFFICES ASSUME Init PROVE IInv  OBVIOUS
<1>1. TypeOK /\ Shape  BY TypeInit
<1>2. sent = <<>> /\ Len(sent) = 0 /\ command = <<>> /\ override = Fresh  BY DEF Init
<1>3. Ring  BY <1>2 DEF Ring
<1>4. History
  <2>1. ASSUME NEW i \in 1 .. 1 PROVE From(Replay(SubSeq(sent, i, 0)))
    <3>1. SubSeq(sent, i, 0) = <<>>  BY <2>1, SubSeqEmpty
    <3>2. QED  BY <1>2, <3>1, ReplayType DEF From
  <2>2. QED  BY <1>2, <2>1 DEF History
<1>5. Seen  BY DEF Init, Seen, PollAt
<1>6. QED  BY <1>1, <1>3, <1>4, <1>5 DEF IInv

(* The invariant is inductive. *)
THEOREM Invariance == Spec => []IInv
<1>1. IInv /\ [Next]_vars => IInv'
  <2> SUFFICES ASSUME IInv, [Next]_vars PROVE IInv'  OBVIOUS
  <2>1. TypeOK' /\ Shape'  BY TypeStep DEF IInv
  <2>2. Ring'  BY RingStep DEF IInv
  <2>3. History'  BY HistoryStep DEF IInv
  <2>4. Seen'  BY <2>1, SeenStep
  <2>5. QED  BY <2>1, <2>2, <2>3, <2>4 DEF IInv
<1>2. QED  BY InitIInv, <1>1, PTL DEF Spec

(* Every variable keeps its type: the override and the ring only ever hold *)
(* what the input commands can put there.                                  *)
THEOREM TypeCorrect == Spec => []TypeOK
<1>1. IInv => TypeOK  BY DEF IInv
<1>2. QED  BY Invariance, <1>1, PTL

(* Between commands a disarmed override is empty, whatever was sent: no    *)
(* button or stick position survives clear_input to come back when the     *)
(* override is armed again.                                                *)
THEOREM DisarmedStaysNeutral == Spec => []DisarmedIsNeutral
<1>1. IInv => DisarmedIsNeutral
  <2> SUFFICES ASSUME IInv, command = <<>>, ~override.active
               PROVE override.buttons = {} /\ override.x = 0 /\ override.y = 0
    BY DEF DisarmedIsNeutral
  <2>1. From(Replay(sent)) /\ Replay(sent) \in Settled  BY Origin DEF IInv
  <2>2. override \in Settled  BY <2>1 DEF From
  <2>3. QED  BY <2>2 DEF Settled
<1>2. QED  BY Invariance, <1>1, PTL

(* Each part of the input get_n64_input assembles was in effect at some    *)
(* moment of the poll, wherever the server thread's stores fall among its  *)
(* four loads.                                                             *)
THEOREM PollsAreCurrent == Spec => []PollIsCurrent
<1>1. IInv => PollIsCurrent  BY DEF IInv, Seen, PollIsCurrent
<1>2. QED  BY Invariance, <1>1, PTL

(* What the override holds throughout a poll reaches the game, whatever    *)
(* the pad and the keyboard read.                                          *)
THEOREM HeldInputReachesGame == Spec => HeldReachesGame
<1> DEFINE Held == poll.pc = "deliver" /\ poll'.pc = "idle" =>
        /\ \A b \in Buttons :
              (\A e \in inEffect : b \in e.buttons) => b \in delivered'.input.buttons
        /\ (\A e \in inEffect : e.x # 0) =>
              \E e \in inEffect : delivered'.input.x = e.x
        /\ (\A e \in inEffect : e.y # 0) =>
              \E e \in inEffect : delivered'.input.y = e.y
<1>1. IInv /\ [Next]_vars => [Held]_vars
  <2> SUFFICES ASSUME IInv, Next, poll.pc = "deliver", poll'.pc = "idle"
               PROVE  /\ \A b \in Buttons :
                            (\A e \in inEffect : b \in e.buttons) =>
                                b \in delivered'.input.buttons
                      /\ (\A e \in inEffect : e.x # 0) =>
                            \E e \in inEffect : delivered'.input.x = e.x
                      /\ (\A e \in inEffect : e.y # 0) =>
                            \E e \in inEffect : delivered'.input.y = e.y
    OBVIOUS
  <2>1. PollDeliver
    <3>1. ~Receive /\ ~Store /\ ~Record  BY DEF Receive, Store, Record
    <3>2. ~PollActive /\ ~PollOverride  BY DEF PollActive, PollOverride, PollField
    <3>3. QED  BY <3>1, <3>2 DEF Next, Server, Game
  <2> DEFINE o == [buttons |-> poll.buttons, x |-> poll.x, y |-> poll.y]
  <2>2. PICK d \in Devices : delivered' = [input |-> Merge(d, o), overridden |-> o]
    BY <2>1 DEF PollDeliver
  <2>3. /\ delivered'.input.buttons = d.buttons \cup poll.buttons
        /\ poll.x # 0 => delivered'.input.x = poll.x
        /\ poll.y # 0 => delivered'.input.y = poll.y
    BY <2>2 DEF Merge
  <2>4. /\ \E e \in inEffect : e.buttons = poll.buttons
        /\ \E e \in inEffect : e.x = poll.x
        /\ \E e \in inEffect : e.y = poll.y
    BY DEF IInv, Seen
  <2>5. QED  BY <2>3, <2>4
<1>2. Spec => [][Held]_vars  BY Invariance, <1>1, PTL DEF Spec
<1>3. QED  BY <1>2 DEF HeldReachesGame

(* A dump lists the latest input events in the order they happened,        *)
(* however often s_input_history has wrapped.                              *)
THEOREM DumpsAreLatest == Spec => []DumpIsLatest
<1>1. IInv => DumpIsLatest
  <2> SUFFICES ASSUME IInv PROVE DumpIsLatest  OBVIOUS
  <2>1. sent \in Seq(Commands) /\ Len(sent) \in Nat  BY DEF IInv, Shape
  <2>2. PICK m \in 0 .. Len(sent) :
            Dump = SubSeq(sent, m + 1, Len(sent)) /\ Len(Dump) = Len(sent) - m
    BY DumpIs DEF IInv
  <2>3. Len(sent) - Len(Dump) + 1 = m + 1
    <3>1. \A n \in Nat : n - (n - m) + 1 = m + 1  OBVIOUS
    <3>2. QED  BY <2>1, <2>2, <3>1
  <2>4. QED  BY <2>2, <2>3 DEF DumpIsLatest
<1>2. QED  BY Invariance, <1>1, PTL

(* Re-driving a dump taken between commands rebuilds the override, when    *)
(* the ring has not wrapped or still holds a clear_input.                  *)
THEOREM DumpsReplay == Spec => []DumpReplays
<1>1. IInv => DumpReplays
  <2> SUFFICES ASSUME IInv, command = <<>>,
                      \/ s_input_history_seq <= INPUT_HISTORY_CAP
                      \/ \E i \in DOMAIN Dump : Dump[i].kind = "clear"
               PROVE  Replay(Dump) = override
    BY DEF DumpReplays
  <2>1. Len(sent) \in Nat  BY DEF IInv, Shape
  <2>2. PICK m \in 0 .. Len(sent) :
              /\ Dump = SubSeq(sent, m + 1, Len(sent))
              /\ s_input_history_seq <= INPUT_HISTORY_CAP => m = 0
              /\ DOMAIN Dump = 1 .. Len(sent) - m
              /\ \A i \in 1 .. Len(sent) - m : Dump[i] = sent[m + i]
    BY DumpIs DEF IInv
  <2>3. Explains(m + 1)
    <3>1. CASE s_input_history_seq <= INPUT_HISTORY_CAP  BY <2>2, <3>1 DEF Explains
    <3>2. CASE \E i \in DOMAIN Dump : Dump[i].kind = "clear"
      <4>1. PICK i \in 1 .. Len(sent) - m : sent[m + i].kind = "clear"  BY <2>2, <3>2
      <4>2. m + i \in m + 1 .. Len(sent)  BY <2>1
      <4>3. QED  BY <4>1, <4>2 DEF Explains
    <3>3. QED  BY <3>1, <3>2
  <2>4. m + 1 \in 1 .. Len(sent) + 1  BY <2>1
  <2>5. From(Replay(Dump))  BY <2>2, <2>3, <2>4 DEF IInv, History
  <2>6. QED  BY <2>5 DEF From
<1>2. QED  BY Invariance, <1>1, PTL
=============================================================================
