-------------------------- MODULE HookedCallsProofs --------------------------
(***************************************************************************)
(* Proofs about the hooks that bracket a function, for any threads,        *)
(* functions, sizes of the shadow stacks and depth of calls, and any       *)
(* variants in any buffers.                                                *)
(*                                                                         *)
(* The index of a shadow stack counts the calls in progress; what an exit  *)
(* hook reads is right because the call with k calls of its function       *)
(* around it has its argument in slot k, when there is a slot k (Stored).  *)
(* The override of Memmap_GetFragmentVaddr finds the walked variant from   *)
(* an address alone, which needs that the walker stands in the variant of  *)
(* its innermost walk (Walking) and that no two variants share a buffer    *)
(* (Apart).                                                                *)
(***************************************************************************)
EXTENDS HookedCalls, FiniteSetTheorems, SequenceTheorems, WellFoundedInduction, TLAPS

Walk == "process_geo_layout"

Calls == [fn : Loaders, arg : Args] \cup [fn : {Memmap}, arg : Inputs]
         \cup [fn : {Walk}, arg : Variants]

(* What fits in a slot of f's shadow stack. *)
Slotted(f) == {Nothing} \cup (IF f = Memmap THEN Inputs ELSE Args)

(* Shapes that TypeOK leaves out. *)
Shape ==
    /\ calls \in [Threads -> Seq(Calls)]
    /\ sp \in [Threads -> [Fns -> Int]]
    /\ DOMAIN stack = Threads
    /\ \A t \in Threads : DOMAIN stack[t] = Fns
    /\ \A t \in Threads, f \in Fns : stack[t][f] \in [0 .. Cap[f] - 1 -> Slotted(f)]

(* The calls of f on t around the one at place i. *)
Around(t, f, i) == {j \in CallsOf(t, f) : j < i}

(* Each call that fits has its argument in its slot. *)
Stored ==
    \A t \in Threads, f \in Fns : \A i \in CallsOf(t, f) :
        Cardinality(Around(t, f, i)) < Cap[f] =>
            stack[t][f][Cardinality(Around(t, f, i))] = calls[t][i].arg

(* Memmap_GetFragmentVaddr calls nothing, and nothing runs beside it. *)
Alone ==
    /\ \A t \in Threads : \A i \in CallsOf(t, Memmap) : i = Len(calls[t])
    /\ \A t, u \in Threads :
          CallsOf(t, Memmap) # {} /\ CallsOf(u, Memmap) # {} => t = u

(* No two variants share a buffer. *)
Apart == \A v, w \in Variants : base[v] # 0 /\ base[v] = base[w] => v = w

(* A walked variant is loaded, and the walker stands in the innermost. *)
Walking ==
    /\ \A i \in Walks : base[calls[Walker][i].arg] # 0
    /\ Walks # {} => Holds(Walked(Walks), geo)

IInv == TypeOK /\ Shape /\ Stored /\ Alone /\ Apart /\ Walking /\ ExitSeesOwnCall
-----------------------------------------------------------------------------
(* Sets of places. *)

LEMMA MinOf ==
    ASSUME NEW s, s \subseteq Nat, s # {}
    PROVE Min(s) \in s /\ \A j \in s : Min(s) <= j
<1> DEFINE R == OpToRel(<, Nat)
<1>1. IsWellFoundedOn(R, Nat)  BY NatLessThanWellFounded
<1>2. \A i, j \in Nat : i < j => <<i, j>> \in R  BY DEF OpToRel
<1> HIDE DEF R
<1>3. PICK i \in s : \A j \in s : <<j, i>> \notin R  BY <1>1, WFMin
<1>4. \A j \in s : i <= j
  <2>1. ASSUME NEW j \in s PROVE i <= j
    <3>1. ~(j < i)  BY <1>2, <1>3
    <3>2. i \in Nat /\ j \in Nat  OBVIOUS
    <3>3. QED  BY <3>1, <3>2
  <2>2. QED  BY <2>1
<1>5. QED  BY <1>4 DEF Min

LEMMA MaxOf ==
    ASSUME NEW n \in Nat, NEW s, s \subseteq 1 .. n, s # {}
    PROVE Max(s) \in s /\ \A j \in s : j <= Max(s)
<1> DEFINE u == {m \in Nat : s \subseteq 1 .. m}
<1>1. u \subseteq Nat /\ u # {}  OBVIOUS
<1> HIDE DEF u
<1>2. PICK m \in u : \A k \in u : m <= k  BY <1>1, MinOf
<1> USE DEF u
<1>3. m \in Nat /\ m # 0 /\ m - 1 \in Nat /\ m - 1 < m
  <2>1. PICK j \in s : TRUE  OBVIOUS
  <2>2. j \in 1 .. m  BY <2>1
  <2>3. QED  BY <2>2
<1>4. m - 1 \notin u  BY <1>2, <1>3
<1>5. m \in s
  <2>1. PICK j \in s : j \notin 1 .. m - 1  BY <1>3, <1>4
  <2>2. j \in 1 .. m  BY <2>1
  <2>3. j = m  BY <1>3, <2>1, <2>2
  <2>4. QED  BY <2>1, <2>3
<1>6. \A j \in s : m >= j  BY <1>3
<1>7. s \subseteq Int  OBVIOUS
<1>8. QED  BY <1>5, <1>6, <1>7 DEF Max

LEMMA PlacesType ==
    ASSUME Shape, NEW t \in Threads, NEW f
    PROVE /\ Len(calls[t]) \in Nat /\ DOMAIN calls[t] = 1 .. Len(calls[t])
          /\ CallsOf(t, f) \subseteq 1 .. Len(calls[t])
          /\ IsFiniteSet(CallsOf(t, f)) /\ Depth(t, f) \in Nat
          /\ \A i : IsFiniteSet(Around(t, f, i)) /\ Cardinality(Around(t, f, i)) \in Nat
<1>1. calls[t] \in Seq(Calls)  BY DEF Shape
<1>2. Len(calls[t]) \in Nat /\ DOMAIN calls[t] = 1 .. Len(calls[t])  BY <1>1
<1>3. CallsOf(t, f) \subseteq 1 .. Len(calls[t])  BY <1>2 DEF CallsOf
<1>4. IsFiniteSet(1 .. Len(calls[t]))  BY <1>2, FS_Interval
<1>5. IsFiniteSet(CallsOf(t, f))  BY <1>3, <1>4, FS_Subset
<1>6. Depth(t, f) \in Nat  BY <1>5, FS_CardinalityType DEF Depth
<1>7. ASSUME NEW i
      PROVE IsFiniteSet(Around(t, f, i)) /\ Cardinality(Around(t, f, i)) \in Nat
  <2>1. Around(t, f, i) \in SUBSET CallsOf(t, f)  BY DEF Around
  <2>2. QED  BY <1>5, <2>1, FS_Subset, FS_CardinalityType
<1>8. QED  BY <1>2, <1>3, <1>5, <1>6, <1>7

(* The innermost call of a thread, seen from the places. *)
LEMMA Innermost ==
    ASSUME Shape, NEW t \in Threads, calls[t] # <<>>
    PROVE LET n == Len(calls[t]) IN
          /\ n \in Nat \ {0} /\ n \in 1 .. n
          /\ Last(calls[t]) = calls[t][n] /\ Last(calls[t]) \in Calls
          /\ \A f : Last(calls[t]).fn = f <=> n \in CallsOf(t, f)
          /\ \A f : n \in CallsOf(t, f) =>
                /\ Around(t, f, n) = CallsOf(t, f) \ {n}
                /\ Cardinality(Around(t, f, n)) = Depth(t, f) - 1
<1> DEFINE n == Len(calls[t])
<1>1. calls[t] \in Seq(Calls) /\ n \in Nat \ {0} /\ n \in 1 .. n  BY DEF Shape
<1>2. Last(calls[t]) = calls[t][n] /\ calls[t][n] \in Calls  BY <1>1 DEF Last
<1>3. DOMAIN calls[t] = 1 .. n  BY <1>1
<1>4. \A f : Last(calls[t]).fn = f <=> n \in CallsOf(t, f)
  BY <1>1, <1>2, <1>3 DEF CallsOf
<1>5. ASSUME NEW f, n \in CallsOf(t, f)
      PROVE /\ Around(t, f, n) = CallsOf(t, f) \ {n}
            /\ Cardinality(Around(t, f, n)) = Depth(t, f) - 1
  <2>1. \A j \in CallsOf(t, f) : j \in 1 .. n  BY PlacesType
  <2>2. Around(t, f, n) = CallsOf(t, f) \ {n}  BY <1>1, <2>1 DEF Around
  <2>3. IsFiniteSet(CallsOf(t, f))  BY PlacesType
  <2>4. QED  BY <1>5, <2>2, <2>3, FS_RemoveElement DEF Depth
<1>6. QED  BY <1>1, <1>2, <1>4, <1>5
-----------------------------------------------------------------------------
(* A call begins, a call ends. *)

Calling(t, e) == calls' = [calls EXCEPT ![t] = Append(@, e)]
Returning(t) == calls[t] # <<>> /\ calls' = [calls EXCEPT ![t] = Front(@)]

LEMMA Pushed ==
    ASSUME Shape, NEW t \in Threads, NEW e \in Calls,
           Calling(t, e)
    PROVE LET n == Len(calls[t]) + 1 IN
          /\ calls' \in [Threads -> Seq(Calls)]
          /\ Len(calls'[t]) = n /\ calls'[t][n] = e
          /\ \A u \in Threads : u # t => calls'[u] = calls[u]
          /\ \A u \in Threads : \A i \in 1 .. Len(calls[u]) : calls'[u][i] = calls[u][i]
          /\ \A u \in Threads : \A f :
                CallsOf(u, f)' = IF u = t /\ e.fn = f THEN CallsOf(u, f) \cup {n}
                                 ELSE CallsOf(u, f)
          /\ \A f : n \notin CallsOf(t, f)
<1> DEFINE n == Len(calls[t]) + 1
<1>1. calls \in [Threads -> Seq(Calls)] /\ calls[t] \in Seq(Calls)  BY DEF Shape
<1>2. /\ Append(calls[t], e) \in Seq(Calls) /\ Len(Append(calls[t], e)) = n
      /\ Append(calls[t], e)[n] = e
      /\ \A i \in 1 .. Len(calls[t]) : Append(calls[t], e)[i] = calls[t][i]
      /\ DOMAIN Append(calls[t], e) = 1 .. n
  BY <1>1
<1>3. calls'[t] = Append(calls[t], e)  BY <1>1 DEF Calling
<1>4. \A u \in Threads : u # t => calls'[u] = calls[u]  BY <1>1 DEF Calling
<1>5. calls' \in [Threads -> Seq(Calls)]  BY <1>1, <1>2 DEF Calling
<1>6. n - 1 = Len(calls[t]) /\ DOMAIN calls[t] = 1 .. n - 1 /\ n \in Nat \ {0}  BY <1>1
<1>7. ASSUME NEW f
      PROVE CallsOf(t, f)' = IF e.fn = f THEN CallsOf(t, f) \cup {n} ELSE CallsOf(t, f)
  <2>1. CallsOf(t, f)' = {i \in 1 .. n : calls'[t][i].fn = f}
    BY <1>2, <1>3 DEF CallsOf
  <2>2. CallsOf(t, f) = {i \in 1 .. n - 1 : calls[t][i].fn = f}
    BY <1>6 DEF CallsOf
  <2>3. \A i : i \in 1 .. n <=> i \in 1 .. n - 1 \/ i = n  BY <1>6
  <2>4. \A i \in 1 .. n - 1 : calls'[t][i] = calls[t][i]  BY <1>2, <1>3, <1>6
  <2>5. calls'[t][n] = e  BY <1>2, <1>3
  <2> HIDE DEF n
  <2>6. QED  BY <2>1, <2>2, <2>3, <2>4, <2>5
<1>8. \A u \in Threads : \A f : u # t => CallsOf(u, f)' = CallsOf(u, f)
  BY <1>4 DEF CallsOf
<1>9. \A f : n \notin CallsOf(t, f)  BY <1>6 DEF CallsOf
<1>10. QED  BY <1>2, <1>3, <1>4, <1>5, <1>7, <1>8, <1>9

LEMMA Returned ==
    ASSUME Shape, NEW t \in Threads, Returning(t)
    PROVE LET n == Len(calls[t]) IN
          /\ calls' \in [Threads -> Seq(Calls)]
          /\ Len(calls'[t]) = n - 1
          /\ \A u \in Threads : u # t => calls'[u] = calls[u]
          /\ \A i \in 1 .. n - 1 : calls'[t][i] = calls[t][i]
          /\ \A u \in Threads : \A f :
                CallsOf(u, f)' = IF u = t THEN CallsOf(u, f) \ {n} ELSE CallsOf(u, f)
<1> DEFINE n == Len(calls[t])
<1>1. calls \in [Threads -> Seq(Calls)] /\ calls[t] \in Seq(Calls) /\ n \in Nat \ {0}
  BY DEF Shape, Returning
<1>2. n - 1 \in Nat /\ \A i \in 1 .. n - 1 : i \in 1 .. n  BY <1>1
<1>3. /\ Front(calls[t]) \in Seq(Calls) /\ Len(Front(calls[t])) = n - 1
      /\ \A i \in 1 .. n - 1 : Front(calls[t])[i] = calls[t][i]
  <2>1. \A i \in 1 .. n - 1 : calls[t][i] \in Calls  BY <1>1, <1>2
  <2>2. 1 \in Int /\ n - 1 \in Int  BY <1>1
  <2>3. SubSeq(calls[t], 1, n - 1) \in Seq(Calls)
    BY <2>1, <2>2, SubSeqProperties
  <2>4. SubSeq(calls[t], 1, n - 1) = [i \in 1 .. n - 1 |-> calls[t][i]]  BY <1>1
  <2>5. QED  BY <1>2, <2>3, <2>4 DEF Front
<1>4. calls'[t] = Front(calls[t])  BY <1>1 DEF Returning
<1>5. \A u \in Threads : u # t => calls'[u] = calls[u]  BY <1>1 DEF Returning
<1>6. calls' \in [Threads -> Seq(Calls)]  BY <1>1, <1>3 DEF Returning
<1>7. ASSUME NEW f PROVE CallsOf(t, f)' = CallsOf(t, f) \ {n}
  <2>1. CallsOf(t, f)' = {i \in 1 .. n - 1 : calls'[t][i].fn = f}
    BY <1>3, <1>4 DEF CallsOf
  <2>2. CallsOf(t, f) = {i \in 1 .. n : calls[t][i].fn = f}  BY <1>1 DEF CallsOf
  <2>3. \A i : i \in 1 .. n - 1 <=> i \in 1 .. n /\ i # n  BY <1>1
  <2>4. \A i \in 1 .. n - 1 : calls'[t][i] = calls[t][i]  BY <1>3, <1>4
  <2> HIDE DEF n
  <2>5. QED  BY <2>1, <2>2, <2>3, <2>4
<1>8. \A u \in Threads : \A f : u # t => CallsOf(u, f)' = CallsOf(u, f)
  BY <1>5 DEF CallsOf
<1>9. QED  BY <1>3, <1>4, <1>5, <1>6, <1>7, <1>8

(* How the counts move. *)
LEMMA PushedCounts ==
    ASSUME Shape, NEW t \in Threads, NEW e \in Calls,
           NEW n, n = Len(calls[t]) + 1,
           Calling(t, e)
    PROVE /\ \A u \in Threads : \A g :
                Depth(u, g)' = IF u = t /\ e.fn = g THEN Depth(u, g) + 1 ELSE Depth(u, g)
          /\ \A u \in Threads : \A g : \A i \in CallsOf(u, g) :
                Around(u, g, i)' = Around(u, g, i)
          /\ Around(t, e.fn, n)' = CallsOf(t, e.fn)
<1>1. /\ \A u \in Threads : \A f :
            CallsOf(u, f)' = IF u = t /\ e.fn = f THEN CallsOf(u, f) \cup {n}
                             ELSE CallsOf(u, f)
      /\ \A f : n \notin CallsOf(t, f)
  BY Pushed
<1>2. /\ n \in Nat
      /\ \A u \in Threads : \A g :
            IsFiniteSet(CallsOf(u, g)) /\ CallsOf(u, g) \subseteq 1 .. Len(calls[u])
  BY PlacesType
<1>3. \A i \in 1 .. Len(calls[t]) : i < n  BY <1>2, PlacesType
<1>4. ASSUME NEW u \in Threads, NEW g
      PROVE Depth(u, g)' = IF u = t /\ e.fn = g THEN Depth(u, g) + 1 ELSE Depth(u, g)
  <2>1. CASE u = t /\ e.fn = g
    <3>1. Cardinality(CallsOf(u, g) \cup {n}) = Depth(u, g) + 1
      BY <1>1, <1>2, <2>1, FS_AddElement DEF Depth
    <3>2. QED  BY <1>1, <2>1, <3>1 DEF Depth
  <2>2. CASE ~(u = t /\ e.fn = g)  BY <1>1, <2>2 DEF Depth
  <2>3. QED  BY <2>1, <2>2
<1>5. ASSUME NEW u \in Threads, NEW g, NEW i \in CallsOf(u, g)
      PROVE Around(u, g, i)' = Around(u, g, i)
  <2>1. CASE u = t /\ e.fn = g
    <3>1. i < n /\ i \in Nat  BY <1>2, <1>3, <2>1
    <3>2. ~(n < i)  BY <1>2, <3>1
    <3>3. QED  BY <1>1, <2>1, <3>2 DEF Around
  <2>2. CASE ~(u = t /\ e.fn = g)  BY <1>1, <2>2 DEF Around
  <2>3. QED  BY <2>1, <2>2
<1>6. Around(t, e.fn, n)' = CallsOf(t, e.fn)
  <2>1. Around(t, e.fn, n)' = {j \in CallsOf(t, e.fn) \cup {n} : j < n}
    BY <1>1 DEF Around
  <2>2. \A j \in CallsOf(t, e.fn) : j < n  BY <1>2, <1>3
  <2>3. ~(n < n)  BY <1>2
  <2>4. QED  BY <2>1, <2>2, <2>3
<1>7. QED  BY <1>4, <1>5, <1>6

LEMMA ReturnedCounts ==
    ASSUME Shape, NEW t \in Threads, NEW f, Last(calls[t]).fn = f, Returning(t)
    PROVE /\ \A u \in Threads : \A g :
                Depth(u, g)' = IF u = t /\ g = f THEN Depth(u, g) - 1 ELSE Depth(u, g)
          /\ \A u \in Threads : \A g : \A i \in CallsOf(u, g)' :
                /\ i \in CallsOf(u, g)
                /\ Around(u, g, i)' = Around(u, g, i)
                /\ calls'[u][i] = calls[u][i]
<1>1. PICK n : n = Len(calls[t])  OBVIOUS
<1>2. /\ \A u \in Threads : u # t => calls'[u] = calls[u]
      /\ \A i \in 1 .. n - 1 : calls'[t][i] = calls[t][i]
      /\ \A u \in Threads : \A g :
            CallsOf(u, g)' = IF u = t THEN CallsOf(u, g) \ {n} ELSE CallsOf(u, g)
  BY <1>1, Returned
<1>3. /\ n \in Nat \ {0}
      /\ \A g : n \in CallsOf(t, g) <=> f = g
      /\ \A g : n \in CallsOf(t, g) => Around(t, g, n) = CallsOf(t, g) \ {n}
  BY <1>1, Innermost DEF Returning
<1>4. \A u \in Threads : \A g :
          IsFiniteSet(CallsOf(u, g)) /\ CallsOf(u, g) \subseteq 1 .. Len(calls[u])
  BY PlacesType
<1>5. ASSUME NEW u \in Threads, NEW g
      PROVE Depth(u, g)' = IF u = t /\ g = f THEN Depth(u, g) - 1 ELSE Depth(u, g)
  <2>1. CASE u = t /\ g = f
    <3>1. Cardinality(CallsOf(t, f) \ {n}) = Cardinality(CallsOf(t, f)) - 1
      BY <1>3, <1>4, FS_RemoveElement
    <3>2. QED  BY <1>2, <2>1, <3>1 DEF Depth
  <2>2. CASE u = t /\ g # f
    <3>1. CallsOf(t, g)' = CallsOf(t, g)  BY <1>2, <1>3, <2>2
    <3>2. QED  BY <2>2, <3>1 DEF Depth
  <2>3. CASE u # t  BY <1>2, <2>3 DEF Depth
  <2>4. QED  BY <2>1, <2>2, <2>3
<1>6. ASSUME NEW u \in Threads, NEW g, NEW i, i \in CallsOf(u, g)'
      PROVE /\ i \in CallsOf(u, g)
            /\ Around(u, g, i)' = Around(u, g, i)
            /\ calls'[u][i] = calls[u][i]
  <2>1. i \in CallsOf(u, g)  BY <1>2, <1>6
  <2>2. CASE u = t
    <3>1. i \in 1 .. n /\ i # n  BY <1>1, <1>2, <1>4, <1>6, <2>1, <2>2
    <3>2. i \in 1 .. n - 1 /\ ~(n < i)  BY <1>3, <3>1
    <3>3. Around(t, g, i)' = {j \in CallsOf(t, g) \ {n} : j < i}  BY <1>2 DEF Around
    <3>4. QED  BY <1>2, <2>1, <2>2, <3>2, <3>3 DEF Around
  <2>3. CASE u # t  BY <1>2, <2>1, <2>3 DEF Around
  <2>4. QED  BY <2>2, <2>3
<1>7. QED  BY <1>5, <1>6
-----------------------------------------------------------------------------
(* The shadow stacks follow the calls. *)

Counted == \A t \in Threads, f \in Fns : sp[t][f] = Depth(t, f)

(* A call has fewer calls around it than there are. *)
LEMMA FewerAround ==
    ASSUME Shape, NEW t \in Threads, NEW f, NEW i \in CallsOf(t, f)
    PROVE Cardinality(Around(t, f, i)) < Depth(t, f)
<1>1. /\ IsFiniteSet(CallsOf(t, f)) /\ Depth(t, f) \in Nat
      /\ Cardinality(Around(t, f, i)) \in Nat
      /\ CallsOf(t, f) \subseteq 1 .. Len(calls[t])
  BY PlacesType
<1>2. Around(t, f, i) \in SUBSET CallsOf(t, f)  BY DEF Around
<1>3. i \notin Around(t, f, i)
  <2>1. ~(i < i)  BY <1>1
  <2>2. QED  BY <2>1 DEF Around
<1>4. /\ Cardinality(Around(t, f, i)) <= Depth(t, f)
      /\ Cardinality(Around(t, f, i)) # Depth(t, f)
  BY <1>1, <1>2, <1>3, FS_Subset DEF Depth
<1>5. QED  BY <1>1, <1>4

LEMMA EnterHook ==
    ASSUME Shape, Counted, Stored, NEW t \in Threads, NEW f \in Fns, NEW a \in Slotted(f),
           [fn |-> f, arg |-> a] \in Calls, Enter(t, f, a)
    PROVE Shape' /\ Counted' /\ Stored'
<1>1. PICK e \in Calls : e = [fn |-> f, arg |-> a]  OBVIOUS
<1>2. e.fn = f /\ e.arg = a  BY <1>1
<1>3. PICK n : n = Len(calls[t]) + 1  OBVIOUS
<1>4. Calling(t, e)  BY <1>1 DEF Enter, Calling
<1>5. PICK k : k = sp[t][f]  OBVIOUS
<1>6. k = Depth(t, f) /\ k \in Nat  BY <1>5, PlacesType DEF Counted
<1>7. Cap[f] \in Nat \ {0}  BY CallsAssumption
<1>8. sp' = [sp EXCEPT ![t][f] = k + 1]  BY <1>5 DEF Enter, Shape
<1>9. /\ DOMAIN stack' = Threads
      /\ \A u \in Threads : DOMAIN stack'[u] = Fns
      /\ \A u \in Threads, g \in Fns : stack'[u][g] \in [0 .. Cap[g] - 1 -> Slotted(g)]
      /\ \A u \in Threads, g \in Fns : \A i \in 0 .. Cap[g] - 1 :
            stack'[u][g][i] = IF u = t /\ g = f /\ i = k THEN a ELSE stack[u][g][i]
  <2>1. CASE k < Cap[f]
    <3>1. stack' = [stack EXCEPT ![t][f][k] = a]  BY <1>5, <2>1 DEF Enter
    <3>2. k \in 0 .. Cap[f] - 1  BY <1>6, <1>7, <2>1
    <3>3. DOMAIN stack' = Threads /\ \A u \in Threads : DOMAIN stack'[u] = Fns
      BY <3>1 DEF Shape
    <3>4. ASSUME NEW u \in Threads, NEW g \in Fns, u # t \/ g # f
          PROVE stack'[u][g] = stack[u][g]
      BY <3>1, <3>4 DEF Shape
    <3>5. stack'[t][f] = [stack[t][f] EXCEPT ![k] = a]  BY <3>1 DEF Shape
    <3>6. stack[t][f] \in [0 .. Cap[f] - 1 -> Slotted(f)]  BY DEF Shape
    <3>7. stack'[t][f] \in [0 .. Cap[f] - 1 -> Slotted(f)]  BY <3>2, <3>5, <3>6
    <3>8. \A i \in 0 .. Cap[f] - 1 :
              stack'[t][f][i] = IF i = k THEN a ELSE stack[t][f][i]
      BY <3>5, <3>6
    <3>9. QED  BY <3>3, <3>4, <3>7, <3>8 DEF Shape
  <2>2. CASE ~(k < Cap[f])
    <3>1. stack' = stack  BY <1>5, <2>2 DEF Enter
    <3>2. k \notin 0 .. Cap[f] - 1  BY <1>6, <1>7, <2>2
    <3>3. QED  BY <3>1, <3>2 DEF Shape
  <2>3. QED  BY <2>1, <2>2
<1>10. /\ \A u \in Threads : \A g :
            Depth(u, g)' = IF u = t /\ f = g THEN Depth(u, g) + 1 ELSE Depth(u, g)
       /\ \A u \in Threads : \A g : \A i \in CallsOf(u, g) : Around(u, g, i)' = Around(u, g, i)
       /\ Around(t, f, n)' = CallsOf(t, f)
  BY <1>2, <1>3, <1>4, PushedCounts
<1>11. /\ calls' \in [Threads -> Seq(Calls)] /\ calls'[t][n] = e
       /\ \A u \in Threads : \A i \in 1 .. Len(calls[u]) : calls'[u][i] = calls[u][i]
       /\ \A u \in Threads : \A g :
            CallsOf(u, g)' = IF u = t /\ f = g THEN CallsOf(u, g) \cup {n}
                             ELSE CallsOf(u, g)
  BY <1>2, <1>3, <1>4, Pushed
<1>12. Shape'
  <2>1. sp' \in [Threads -> [Fns -> Int]]  BY <1>6, <1>8 DEF Shape
  <2>2. QED  BY <1>9, <1>11, <2>1 DEF Shape
<1>13. Counted'
  <2>1. ASSUME NEW u \in Threads, NEW g \in Fns PROVE sp'[u][g] = Depth(u, g)'
    <3>1. sp'[u][g] = IF u = t /\ g = f THEN k + 1 ELSE sp[u][g]  BY <1>8 DEF Shape
    <3>2. QED  BY <1>6, <1>10, <3>1 DEF Counted
  <2>2. QED  BY <2>1 DEF Counted
<1>14. ASSUME NEW u \in Threads, NEW g \in Fns, NEW i, i \in CallsOf(u, g)',
              Cardinality(Around(u, g, i)') < Cap[g]
       PROVE stack'[u][g][Cardinality(Around(u, g, i)')] = calls'[u][i].arg
  <2>1. Cap[g] \in Nat \ {0}  BY CallsAssumption
  <2>2. CASE i \in CallsOf(u, g)
    <3> DEFINE r == Cardinality(Around(u, g, i))
    <3>1. r \in Nat /\ CallsOf(u, g) \subseteq 1 .. Len(calls[u])  BY PlacesType
    <3>2. Cardinality(Around(u, g, i)') = r  BY <1>10, <2>2
    <3>3. r < Depth(u, g)  BY <2>2, FewerAround
    <3> HIDE DEF r
    <3>4. r \in 0 .. Cap[g] - 1  BY <1>14, <2>1, <3>1, <3>2
    <3>5. u = t /\ g = f => r # k  BY <1>6, <3>1, <3>3
    <3>6. stack'[u][g][r] = stack[u][g][r]  BY <1>9, <3>4, <3>5
    <3>7. stack[u][g][r] = calls[u][i].arg  BY <1>14, <2>2, <3>2 DEF Stored, r
    <3>8. calls'[u][i] = calls[u][i]  BY <1>11, <2>2, <3>1
    <3>9. QED  BY <3>2, <3>6, <3>7, <3>8
  <2>3. CASE i \notin CallsOf(u, g)
    <3>1. u = t /\ g = f /\ i = n  BY <1>11, <1>14, <2>3
    <3>2. Cardinality(Around(u, g, i)') = k  BY <1>6, <1>10, <3>1 DEF Depth
    <3>3. k \in 0 .. Cap[g] - 1  BY <1>6, <1>14, <2>1, <3>2
    <3>4. stack'[u][g][k] = a  BY <1>9, <3>1, <3>3
    <3>5. QED  BY <1>2, <1>11, <3>1, <3>2, <3>4
  <2>4. QED  BY <2>2, <2>3
<1>15. Stored'  BY <1>14 DEF Stored
<1>16. QED  BY <1>12, <1>13, <1>15

LEMMA LeaveHook ==
    ASSUME Shape, Counted, Stored, NEW t \in Threads, NEW f \in Fns, Leave(t, f)
    PROVE Shape' /\ Counted' /\ Stored'
<1>1. /\ Returning(t) /\ Last(calls[t]).fn = f /\ stack' = stack
      /\ sp' = [sp EXCEPT ![t][f] = @ - 1]
  BY DEF Leave, Returning
<1>2. /\ \A u \in Threads : \A g :
            Depth(u, g)' = IF u = t /\ g = f THEN Depth(u, g) - 1 ELSE Depth(u, g)
      /\ \A u \in Threads : \A g : \A i \in CallsOf(u, g)' :
            /\ i \in CallsOf(u, g)
            /\ Around(u, g, i)' = Around(u, g, i)
            /\ calls'[u][i] = calls[u][i]
  BY <1>1, ReturnedCounts
<1>3. Shape'
  <2>1. calls' \in [Threads -> Seq(Calls)]  BY <1>1, Returned
  <2>2. sp' \in [Threads -> [Fns -> Int]]  BY <1>1 DEF Shape
  <2>3. QED  BY <1>1, <2>1, <2>2 DEF Shape
<1>4. Counted'
  <2>1. ASSUME NEW u \in Threads, NEW g \in Fns PROVE sp'[u][g] = Depth(u, g)'
    <3>1. sp'[u][g] = IF u = t /\ g = f THEN sp[u][g] - 1 ELSE sp[u][g]
      BY <1>1 DEF Shape
    <3>2. QED  BY <1>2, <3>1 DEF Counted
  <2>2. QED  BY <2>1 DEF Counted
<1>5. Stored'
  <2>1. ASSUME NEW u \in Threads, NEW g \in Fns, NEW i, i \in CallsOf(u, g)',
               Cardinality(Around(u, g, i)') < Cap[g]
        PROVE stack'[u][g][Cardinality(Around(u, g, i)')] = calls'[u][i].arg
    <3>1. /\ i \in CallsOf(u, g) /\ Around(u, g, i)' = Around(u, g, i)
          /\ calls'[u][i] = calls[u][i]
      BY <1>2, <2>1
    <3>2. QED  BY <1>1, <2>1, <3>1 DEF Stored
  <2>2. QED  BY <2>1 DEF Stored
<1>6. QED  BY <1>3, <1>4, <1>5

LEMMA WalkBegins ==
    ASSUME Shape, Counted, Stored, NEW v \in Variants, StartWalk(v)
    PROVE Shape' /\ Counted' /\ Stored'
<1>1. PICK e \in Calls : e = [fn |-> Walk, arg |-> v]  BY DEF Calls
<1>2. PICK t \in Threads : t = Walker  BY CallsAssumption
<1>3. PICK n : n = Len(calls[t]) + 1  OBVIOUS
<1>4. Calling(t, e) /\ UNCHANGED shadow  BY <1>1, <1>2 DEF StartWalk, Walk, Calling
<1>5. e.fn = Walk /\ Walk \notin Fns  BY <1>1, CallsAssumption DEF Walk
<1>6. \A u \in Threads, g \in Fns :
          /\ Depth(u, g)' = Depth(u, g)
          /\ CallsOf(u, g)' = CallsOf(u, g)
          /\ \A i \in CallsOf(u, g) : Around(u, g, i)' = Around(u, g, i)
  BY <1>3, <1>4, <1>5, PushedCounts, Pushed
<1>7. /\ calls' \in [Threads -> Seq(Calls)]
      /\ \A u \in Threads : \A i \in 1 .. Len(calls[u]) : calls'[u][i] = calls[u][i]
  BY <1>4, Pushed
<1>8. Shape'  BY <1>4, <1>7 DEF Shape, shadow
<1>9. Counted'  BY <1>4, <1>6 DEF Counted, shadow
<1>10. ASSUME NEW u \in Threads, NEW g \in Fns, NEW i, i \in CallsOf(u, g)',
              Cardinality(Around(u, g, i)') < Cap[g]
       PROVE stack'[u][g][Cardinality(Around(u, g, i)')] = calls'[u][i].arg
  <2>1. i \in CallsOf(u, g) /\ Around(u, g, i)' = Around(u, g, i)  BY <1>6, <1>10
  <2>2. CallsOf(u, g) \subseteq 1 .. Len(calls[u])  BY PlacesType
  <2>3. calls'[u][i] = calls[u][i]  BY <1>7, <2>1, <2>2
  <2>4. stack' = stack  BY <1>4 DEF shadow
  <2>5. QED  BY <1>10, <2>1, <2>3, <2>4 DEF Stored
<1>11. Stored'  BY <1>10 DEF Stored
<1>12. QED  BY <1>8, <1>9, <1>11

LEMMA WalkEnds ==
    ASSUME Shape, Counted, Stored, EndWalk
    PROVE Shape' /\ Counted' /\ Stored'
<1>1. PICK t \in Threads : t = Walker  BY CallsAssumption
<1>2. Returning(t) /\ Last(calls[t]).fn = Walk /\ UNCHANGED shadow
  BY <1>1 DEF EndWalk, Walk, Returning
<1>3. Walk \notin Fns  BY CallsAssumption DEF Walk
<1>4. /\ \A u \in Threads : \A g :
            Depth(u, g)' = IF u = t /\ g = Walk THEN Depth(u, g) - 1 ELSE Depth(u, g)
      /\ \A u \in Threads : \A g : \A i \in CallsOf(u, g)' :
            /\ i \in CallsOf(u, g)
            /\ Around(u, g, i)' = Around(u, g, i)
            /\ calls'[u][i] = calls[u][i]
  BY <1>2, ReturnedCounts
<1>5. Shape'
  <2>1. calls' \in [Threads -> Seq(Calls)]  BY <1>2, Returned
  <2>2. QED  BY <1>2, <2>1 DEF Shape, shadow
<1>6. Counted'
  <2>1. \A u \in Threads, g \in Fns : Depth(u, g)' = Depth(u, g)  BY <1>3, <1>4
  <2>2. QED  BY <1>2, <2>1 DEF Counted, shadow
<1>7. Stored'
  <2>1. ASSUME NEW u \in Threads, NEW g \in Fns, NEW i, i \in CallsOf(u, g)',
               Cardinality(Around(u, g, i)') < Cap[g]
        PROVE stack'[u][g][Cardinality(Around(u, g, i)')] = calls'[u][i].arg
    <3>1. /\ i \in CallsOf(u, g) /\ Around(u, g, i)' = Around(u, g, i)
          /\ calls'[u][i] = calls[u][i] /\ stack' = stack
      BY <1>2, <1>4, <2>1 DEF shadow
    <3>2. QED  BY <2>1, <3>1 DEF Stored
  <2>2. QED  BY <2>1 DEF Stored
<1>8. QED  BY <1>5, <1>6, <1>7
-----------------------------------------------------------------------------
(* The calls as a step leaves them. *)

LEMMA InMemmapIs ==
    ASSUME Shape, Alone, NEW t \in Threads
    PROVE InMemmap(t) <=> CallsOf(t, Memmap) # {}
<1>1. CASE calls[t] = <<>>
  <2>1. CallsOf(t, Memmap) = {}  BY <1>1 DEF CallsOf
  <2>2. QED  BY <1>1, <2>1 DEF InMemmap
<1>2. CASE calls[t] # <<>>
  <2>1. Last(calls[t]).fn = Memmap <=> Len(calls[t]) \in CallsOf(t, Memmap)
    BY <1>2, Innermost
  <2>2. CallsOf(t, Memmap) # {} => Len(calls[t]) \in CallsOf(t, Memmap)  BY DEF Alone
  <2>3. QED  BY <1>2, <2>1, <2>2 DEF InMemmap
<1>3. QED  BY <1>1, <1>2

(* Every step begins a call, ends one or leaves the calls alone. *)
LEMMA StepKinds ==
    ASSUME [Next]_vars
    PROVE \/ \E t \in Threads, e \in Calls : NoneInMemmap /\ Calling(t, e)
          \/ \E t \in Threads :
                Returning(t) /\ (NoneInMemmap \/ Last(calls[t]).fn = Memmap)
          \/ UNCHANGED calls
<1>1. ASSUME NEW v \in Variants, NEW s \in Slots, LoadVariant(v, s) PROVE UNCHANGED calls
  BY <1>1 DEF LoadVariant
<1>2. ASSUME NEW v \in Variants, UnloadVariant(v) PROVE UNCHANGED calls
  BY <1>2 DEF UnloadVariant
<1>3. ASSUME NEW v \in Variants, StartWalk(v)
      PROVE \E t \in Threads, e \in Calls : NoneInMemmap /\ Calling(t, e)
  <2>1. [fn |-> Walk, arg |-> v] \in Calls  BY DEF Calls
  <2>2. Walker \in Threads  BY CallsAssumption
  <2>3. Calling(Walker, [fn |-> Walk, arg |-> v]) /\ NoneInMemmap
    BY <1>3 DEF StartWalk, Calling, Walk
  <2>4. QED  BY <2>1, <2>2, <2>3
<1>4. ASSUME EndWalk PROVE \E t \in Threads : Returning(t) /\ NoneInMemmap
  BY <1>4, CallsAssumption DEF EndWalk, Returning
<1>5. ASSUME NEW t \in Threads, NEW f \in Fns, NEW a, [fn |-> f, arg |-> a] \in Calls,
             Enter(t, f, a)
      PROVE \E e \in Calls : NoneInMemmap /\ Calling(t, e)
  <2>1. Calling(t, [fn |-> f, arg |-> a]) /\ NoneInMemmap  BY <1>5 DEF Enter, Calling
  <2>2. QED  BY <1>5, <2>1
<1>6. ASSUME NEW t \in Threads, NEW f \in Loaders, LoaderExit(t, f)
      PROVE Returning(t) /\ NoneInMemmap
  BY <1>6 DEF LoaderExit, Leave, Returning
<1>7. ASSUME NEW t \in Threads, MemmapExit(t)
      PROVE Returning(t) /\ Last(calls[t]).fn = Memmap
  BY <1>7 DEF MemmapExit, Leave, Returning
<1>8. ASSUME UNCHANGED vars PROVE UNCHANGED calls  BY <1>8 DEF vars
<1>9. \A f \in Loaders, a \in Args : f \in Fns /\ [fn |-> f, arg |-> a] \in Calls
  BY DEF Fns, Calls
<1>10. \A a \in Inputs : Memmap \in Fns /\ [fn |-> Memmap, arg |-> a] \in Calls
  BY DEF Fns, Calls
<1>11. Lookers \subseteq Threads  BY CallsAssumption
<1>12. QED
  BY <1>1, <1>2, <1>3, <1>4, <1>5, <1>6, <1>7, <1>8, <1>9, <1>10, <1>11 DEF Next

LEMMA AloneStep == ASSUME Shape, Alone, [Next]_vars PROVE Alone'
<1>0. \A t \in Threads : InMemmap(t) <=> CallsOf(t, Memmap) # {}  BY InMemmapIs
<1>1. ASSUME NEW t \in Threads, NEW e \in Calls, NoneInMemmap, Calling(t, e) PROVE Alone'
  <2>1. PICK n : n = Len(calls[t]) + 1  OBVIOUS
  <2>2. \A u \in Threads : CallsOf(u, Memmap) = {}  BY <1>0, <1>1 DEF NoneInMemmap
  <2>3. /\ Len(calls'[t]) = n
        /\ \A u \in Threads : CallsOf(u, Memmap)' \subseteq {n}
        /\ \A u \in Threads : u # t => CallsOf(u, Memmap)' = {}
    BY <1>1, <2>1, <2>2, Pushed
  <2>4. QED  BY <2>3 DEF Alone
<1>2. ASSUME NEW t \in Threads, Returning(t),
             NoneInMemmap \/ Last(calls[t]).fn = Memmap
      PROVE  Alone'
  <2>1. PICK n : n = Len(calls[t])  OBVIOUS
  <2>2. \A u \in Threads :
            CallsOf(u, Memmap)' = IF u = t THEN CallsOf(u, Memmap) \ {n}
                                  ELSE CallsOf(u, Memmap)
    BY <1>2, <2>1, Returned
  <2>3. CallsOf(t, Memmap) \subseteq {n}  BY <2>1 DEF Alone
  <2>4. ASSUME NEW u \in Threads, u # t PROVE CallsOf(u, Memmap) = {}
    <3>1. CASE NoneInMemmap  BY <1>0, <3>1 DEF NoneInMemmap
    <3>2. CASE Last(calls[t]).fn = Memmap
      <4>1. CallsOf(t, Memmap) # {}  BY <1>0, <1>2, <3>2 DEF InMemmap, Returning
      <4>2. QED  BY <2>4, <4>1 DEF Alone
    <3>3. QED  BY <1>2, <3>1, <3>2
  <2>5. \A u \in Threads : CallsOf(u, Memmap)' = {}  BY <2>2, <2>3, <2>4
  <2>6. QED  BY <2>5 DEF Alone
<1>3. ASSUME UNCHANGED calls PROVE Alone'  BY <1>3 DEF Alone, CallsOf
<1>4. QED  BY <1>1, <1>2, <1>3, StepKinds
-----------------------------------------------------------------------------
(* Where the variants are. *)

Placed ==
    /\ base \in [Variants -> {0} \cup {s * SlotSize : s \in Slots}]
    /\ native \in {0} \cup {s * SlotSize : s \in Slots}
    /\ geo \in 0 .. OtherAddress

LEMMA Spaced ==
    ASSUME NEW K \in Nat \ {0}, NEW a \in Nat, NEW b \in Nat, a < b
    PROVE a * K + K <= b * K
<1>1. PICK d \in Nat : b = a + 1 + d  BY b - a - 1 \in Nat
<1>2. b * K = a * K + K + d * K  BY <1>1
<1>3. d * K >= 0 /\ a * K \in Nat  OBVIOUS
<1>4. QED  BY <1>2, <1>3

(* The addresses of a buffer. *)
LEMMA BufferIs ==
    ASSUME NEW s \in Slots
    PROVE /\ s * SlotSize \in Nat \ {0}
          /\ \A o \in 0 .. SlotSize - 1 : s * SlotSize + o \in 0 .. OtherAddress
<1> DEFINE N == Cardinality(Slots)
<1>1. /\ SlotSize \in Nat \ {0} /\ N \in Nat /\ s \in 1 .. N /\ Slots = 1 .. N
  BY CallsAssumption, FS_CardinalityType
<1>2. OtherAddress = (N + 2) * SlotSize  BY DEF OtherAddress
<1> HIDE DEF N
<1>3. s * SlotSize + SlotSize <= (N + 2) * SlotSize  BY <1>1, Spaced
<1>4. 0 * SlotSize + SlotSize <= s * SlotSize  BY <1>1, Spaced
<1>5. PICK p \in Int, q \in Int : p = s * SlotSize /\ q = (N + 2) * SlotSize  BY <1>1
<1>6. p >= SlotSize /\ p + SlotSize <= q  BY <1>1, <1>3, <1>4, <1>5
<1>7. \A o \in 0 .. SlotSize - 1 : p + o \in 0 .. q  BY <1>1, <1>6
<1>8. p \in Nat \ {0}  BY <1>1, <1>6
<1>9. QED  BY <1>2, <1>5, <1>7, <1>8

LEMMA VariantIs ==
    ASSUME Placed, NEW v \in Variants
    PROVE /\ base[v] \in Nat /\ Size[v] \in 1 .. SlotSize
          /\ \A o \in 0 .. Size[v] - 1 : base[v] + o \in 0 .. OtherAddress
<1>1. Size[v] \in 1 .. SlotSize /\ SlotSize \in Nat \ {0}  BY CallsAssumption
<1>2. \A o \in 0 .. Size[v] - 1 : o \in 0 .. SlotSize - 1  BY <1>1
<1>3. CASE base[v] = 0
  <2>1. Cardinality(Slots) \in Nat  BY CallsAssumption, FS_CardinalityType
  <2>2. 0 * SlotSize + SlotSize <= (Cardinality(Slots) + 2) * SlotSize
    BY <1>1, <2>1, Spaced
  <2>3. SlotSize <= OtherAddress /\ OtherAddress \in Int
    BY <1>1, <2>1, <2>2 DEF OtherAddress
  <2>4. QED  BY <1>1, <1>2, <1>3, <2>3
<1>4. CASE base[v] # 0
  <2>1. PICK s \in Slots : base[v] = s * SlotSize  BY <1>4 DEF Placed
  <2>2. QED  BY <1>1, <1>2, <2>1, BufferIs
<1>5. QED  BY <1>3, <1>4

(* An address is inside one variant at most. *)
LEMMA HoldsOne ==
    ASSUME Placed, Apart, NEW v \in Variants, NEW w \in Variants, NEW a \in Int,
           Holds(v, a), Holds(w, a)
    PROVE v = w
<1>1. PICK s \in Slots : base[v] = s * SlotSize  BY DEF Placed, Holds
<1>2. PICK r \in Slots : base[w] = r * SlotSize  BY DEF Placed, Holds
<1>3. /\ SlotSize \in Nat \ {0} /\ s \in Nat /\ r \in Nat
      /\ Size[v] \in 1 .. SlotSize /\ Size[w] \in 1 .. SlotSize
  <2>1. Cardinality(Slots) \in Nat  BY CallsAssumption, FS_CardinalityType
  <2>2. QED  BY <2>1, CallsAssumption
<1>4. PICK p \in Int, q \in Int : p = s * SlotSize /\ q = r * SlotSize  BY <1>3
<1>5. p <= a /\ a < p + SlotSize /\ q <= a /\ a < q + SlotSize
  BY <1>1, <1>2, <1>3, <1>4 DEF Holds
<1>6. s < r => p + SlotSize <= q  BY <1>3, <1>4, Spaced
<1>7. r < s => q + SlotSize <= p  BY <1>3, <1>4, Spaced
<1>8. ~(s < r) /\ ~(r < s)  BY <1>3, <1>4, <1>5, <1>6, <1>7
<1>9. s = r  BY <1>3, <1>8
<1>10. base[v] # 0  BY DEF Holds
<1>11. QED  BY <1>1, <1>2, <1>9, <1>10 DEF Apart

(* Walks are walks of variants. *)
LEMMA WalkedType ==
    ASSUME Shape
    PROVE /\ \A i \in Walks : calls[Walker][i].arg \in Variants
          /\ \A s \in SUBSET Walks : s # {} =>
                /\ Max(s) \in s /\ Walked(s) \in Variants
                /\ \A j \in s : j <= Max(s)
<1>1. Walker \in Threads /\ Walk \notin Fns  BY CallsAssumption DEF Walk
<1>2. Walks = CallsOf(Walker, Walk)  BY DEF Walks, Walk
<1>3. Walks \subseteq 1 .. Len(calls[Walker]) /\ Len(calls[Walker]) \in Nat
  BY <1>1, <1>2, PlacesType
<1>4. ASSUME NEW i \in Walks PROVE calls[Walker][i].arg \in Variants
  <2>1. calls[Walker][i].fn = Walk  BY <1>2 DEF CallsOf
  <2>2. calls[Walker][i] \in Calls  BY <1>1, <1>3 DEF Shape
  <2>3. QED  BY <1>1, <2>1, <2>2 DEF Calls, Fns
<1>5. ASSUME NEW s \in SUBSET Walks, s # {}
      PROVE Max(s) \in s /\ \A j \in s : j <= Max(s)
  BY <1>3, <1>5, MaxOf
<1>6. QED  BY <1>4, <1>5 DEF Walked

(* The steps that leave the variants and the walker's address alone. *)
Hooks ==
    \/ \E t \in Threads, f \in Fns : \E a :
          [fn |-> f, arg |-> a] \in Calls /\ a \in Slotted(f) /\ Enter(t, f, a)
    \/ \E t \in Threads, f \in Loaders : LoaderExit(t, f)
    \/ \E t \in Lookers : MemmapExit(t)

LEMMA NextIs ==
    ASSUME [Next]_vars
    PROVE \/ \E v \in Variants, s \in Slots : LoadVariant(v, s)
          \/ \E v \in Variants : UnloadVariant(v)
          \/ \E v \in Variants : StartWalk(v)
          \/ EndWalk
          \/ Hooks
          \/ UNCHANGED vars
<1>1. \A f \in Loaders, a \in Args :
          f \in Fns /\ [fn |-> f, arg |-> a] \in Calls /\ a \in Slotted(f)
  BY CallsAssumption DEF Fns, Calls, Slotted
<1>2. \A a \in Inputs :
          Memmap \in Fns /\ [fn |-> Memmap, arg |-> a] \in Calls /\ a \in Slotted(Memmap)
  BY DEF Fns, Calls, Slotted
<1>3. Lookers \subseteq Threads  BY CallsAssumption
<1>4. ASSUME NEW t \in Threads, NEW f \in Loaders, NEW a \in Args, Enter(t, f, a)
      PROVE Hooks
  BY <1>1, <1>4 DEF Hooks
<1>5. ASSUME NEW t \in Lookers, NEW a \in Inputs, Enter(t, Memmap, a) PROVE Hooks
  BY <1>2, <1>3, <1>5 DEF Hooks
<1>6. QED  BY <1>4, <1>5 DEF Next, Hooks

LEMMA HooksKeep ==
    ASSUME Shape, Hooks
    PROVE /\ UNCHANGED <<base, native, geo>>
          /\ Walks' = Walks
          /\ \A i \in Walks : calls'[Walker][i] = calls[Walker][i]
<1>1. UNCHANGED <<base, native, geo>>
  BY DEF Hooks, Enter, LoaderExit, MemmapExit, Leave, memory
<1>2. Walker \in Threads /\ Walk \notin Fns  BY CallsAssumption DEF Walk
<1>3. Walks = CallsOf(Walker, Walk) /\ Walks' = CallsOf(Walker, Walk)'
  BY DEF Walks, Walk
<1>4. Walks \subseteq 1 .. Len(calls[Walker])  BY <1>2, <1>3, PlacesType
<1>5. ASSUME NEW t \in Threads, NEW e \in Calls, e.fn \in Fns, Calling(t, e)
      PROVE /\ Walks' = Walks
            /\ \A i \in Walks : calls'[Walker][i] = calls[Walker][i]
  <2>1. e.fn # Walk  BY <1>2, <1>5
  <2>2. CallsOf(Walker, Walk)' = CallsOf(Walker, Walk)  BY <1>2, <1>5, <2>1, Pushed
  <2>3. \A i \in 1 .. Len(calls[Walker]) : calls'[Walker][i] = calls[Walker][i]
    BY <1>2, <1>5, Pushed
  <2>4. QED  BY <1>3, <1>4, <2>2, <2>3
<1>6. ASSUME NEW t \in Threads, NEW f \in Fns, Leave(t, f)
      PROVE /\ Walks' = Walks
            /\ \A i \in Walks : calls'[Walker][i] = calls[Walker][i]
  <2>1. Returning(t) /\ Last(calls[t]).fn = f /\ f # Walk
    BY <1>2, <1>6 DEF Leave, Returning
  <2>2. PICK n : n = Len(calls[t])  OBVIOUS
  <2>3. n \notin CallsOf(t, Walk)  BY <2>1, <2>2, Innermost DEF Returning
  <2>4. CallsOf(Walker, Walk)' = CallsOf(Walker, Walk)
    <3>1. \A u \in Threads : \A g :
              CallsOf(u, g)' = IF u = t THEN CallsOf(u, g) \ {n} ELSE CallsOf(u, g)
      BY <2>1, <2>2, Returned
    <3>2. CASE Walker = t  BY <1>2, <2>3, <3>1, <3>2
    <3>3. CASE Walker # t  BY <1>2, <3>1, <3>3
    <3>4. QED  BY <3>2, <3>3
  <2>5. \A i \in CallsOf(Walker, Walk)' : calls'[Walker][i] = calls[Walker][i]
    BY <1>2, <2>1, ReturnedCounts
  <2>6. QED  BY <1>3, <2>4, <2>5
<1>7. CASE \E t \in Threads, f \in Fns : \E a :
              [fn |-> f, arg |-> a] \in Calls /\ a \in Slotted(f) /\ Enter(t, f, a)
  <2>0. PICK t \in Threads, f \in Fns :
            \E a : [fn |-> f, arg |-> a] \in Calls /\ Enter(t, f, a)
    BY <1>7
  <2>1. PICK a : [fn |-> f, arg |-> a] \in Calls /\ Enter(t, f, a)  BY <2>0
  <2>2. PICK e \in Calls : e = [fn |-> f, arg |-> a]  BY <2>1
  <2>3. Calling(t, e)  BY <2>1, <2>2 DEF Enter, Calling
  <2>4. e.fn = f  BY <2>2
  <2>5. QED  BY <1>1, <1>5, <2>3, <2>4
<1>8. CASE \E t \in Threads, f \in Loaders : LoaderExit(t, f)
  BY <1>1, <1>6, <1>8 DEF LoaderExit, Fns
<1>9. CASE \E t \in Lookers : MemmapExit(t)
  <2>1. Lookers \subseteq Threads /\ Memmap \in Fns  BY CallsAssumption DEF Fns
  <2>2. QED  BY <1>1, <1>6, <1>9, <2>1 DEF MemmapExit
<1>10. QED  BY <1>7, <1>8, <1>9 DEF Hooks

LEMMA PlacedStep ==
    ASSUME Shape, Placed, Apart, [Next]_vars PROVE Placed' /\ Apart'
<1>1. ASSUME NEW v \in Variants, NEW s \in Slots, LoadVariant(v, s)
      PROVE Placed' /\ Apart'
  <2>1. PICK p : p = s * SlotSize  OBVIOUS
  <2>2. base' = [base EXCEPT ![v] = p] /\ native' = p /\ geo' = geo
    BY <1>1, <2>1 DEF LoadVariant
  <2>3. \A w \in Variants : base[w] # p  BY <1>1, <2>1 DEF LoadVariant
  <2>4. Placed'  BY <2>1, <2>2 DEF Placed
  <2>5. Apart'  BY <2>2, <2>3 DEF Placed, Apart
  <2>6. QED  BY <2>4, <2>5
<1>2. ASSUME NEW v \in Variants, UnloadVariant(v) PROVE Placed' /\ Apart'
  <2>1. base' = [base EXCEPT ![v] = 0] /\ UNCHANGED <<native, geo>>
    BY <1>2 DEF UnloadVariant
  <2>2. Placed'  BY <2>1 DEF Placed
  <2>3. Apart'  BY <2>1 DEF Placed, Apart
  <2>4. QED  BY <2>2, <2>3
<1>3. ASSUME NEW v \in Variants, StartWalk(v) PROVE Placed' /\ Apart'
  <2>1. geo' \in 0 .. OtherAddress  BY <1>3, VariantIs DEF StartWalk
  <2>2. UNCHANGED <<base, native>>  BY <1>3 DEF StartWalk, memory
  <2>3. QED  BY <2>1, <2>2 DEF Placed, Apart
<1>4. ASSUME EndWalk PROVE Placed' /\ Apart'
  <2> DEFINE outer == Walks \ {Len(calls[Walker])}
  <2>1. geo' = IF outer # {} THEN base[Walked(outer)] ELSE 0  BY <1>4 DEF EndWalk
  <2>2. UNCHANGED <<base, native>>  BY <1>4 DEF EndWalk, memory
  <2>3. geo' \in 0 .. OtherAddress
    <3>1. CASE outer # {}
      <4>1. Walked(outer) \in Variants  BY <3>1, WalkedType
      <4> HIDE DEF outer
      <4>2. PICK v \in Variants : v = Walked(outer)  BY <4>1
      <4>3. 0 \in 0 .. Size[v] - 1 /\ base[v] \in Nat  BY VariantIs
      <4>4. base[v] + 0 \in 0 .. OtherAddress  BY <4>3, VariantIs
      <4>5. QED  BY <2>1, <3>1, <4>2, <4>3, <4>4
    <3>2. CASE outer = {}
      <4>1. geo' = 0  BY <2>1, <3>2
      <4>2. OtherAddress \in Int
        BY CallsAssumption, FS_CardinalityType DEF OtherAddress
      <4>3. geo \in Int /\ 0 <= geo /\ geo <= OtherAddress  BY <4>2 DEF Placed
      <4>4. 0 \in 0 .. OtherAddress  BY <4>2, <4>3
      <4>5. QED  BY <4>1, <4>4
    <3>3. QED  BY <3>1, <3>2
  <2>4. QED  BY <2>2, <2>3 DEF Placed, Apart
<1>5. CASE Hooks  BY <1>5, HooksKeep DEF Placed, Apart
<1>6. CASE UNCHANGED vars  BY <1>6 DEF vars, memory, Placed, Apart
<1>7. QED  BY <1>1, <1>2, <1>3, <1>4, <1>5, <1>6, NextIs

(* The walker stays where it is when the walked variants stay. *)
LEMMA Stands ==
    ASSUME Shape, Walking, UNCHANGED <<calls, geo>>,
           \A i \in Walks : base'[calls[Walker][i].arg] = base[calls[Walker][i].arg]
    PROVE Walking'
<1>1. Walks' = Walks /\ Walked(Walks)' = Walked(Walks)
  BY DEF Walks, Walked, CallsOf
<1>2. Walks # {} => base'[Walked(Walks)] = base[Walked(Walks)]
  BY WalkedType DEF Walked
<1>3. ASSUME Walks # {} PROVE Holds(Walked(Walks), geo)'
  <2>1. PICK v : v = Walked(Walks)  OBVIOUS
  <2>2. Holds(v, geo) /\ base'[v] = base[v]  BY <1>2, <1>3, <2>1 DEF Walking
  <2>3. Holds(v, geo)'  BY <2>2 DEF Holds
  <2>4. Walked(Walks)' = v  BY <1>1, <2>1
  <2>5. QED  BY <2>3, <2>4 DEF Holds
<1>4. QED  BY <1>1, <1>3 DEF Walking

LEMMA WalkingStep ==
    ASSUME Shape, Placed, Apart, Walking, [Next]_vars PROVE Walking'
<1>w. Walker \in Threads  BY CallsAssumption
<1>1. ASSUME NEW v \in Variants, NEW s \in Slots, LoadVariant(v, s) PROVE Walking'
  <2>1. /\ base' = [base EXCEPT ![v] = s * SlotSize] /\ base[v] = 0
        /\ UNCHANGED <<calls, geo>>
    BY <1>1 DEF LoadVariant
  <2>2. ASSUME NEW i \in Walks PROVE base'[calls[Walker][i].arg] = base[calls[Walker][i].arg]
    <3>1. calls[Walker][i].arg \in Variants  BY WalkedType
    <3>2. base[calls[Walker][i].arg] # 0  BY DEF Walking
    <3>3. QED  BY <2>1, <3>1, <3>2 DEF Placed
  <2>3. QED  BY <2>1, <2>2, Stands
<1>2. ASSUME NEW v \in Variants, UnloadVariant(v) PROVE Walking'
  <2>1. /\ base' = [base EXCEPT ![v] = 0] /\ UNCHANGED <<calls, geo>>
        /\ \A i \in Walks : calls[Walker][i].arg # v
    BY <1>2 DEF UnloadVariant
  <2>2. ASSUME NEW i \in Walks PROVE base'[calls[Walker][i].arg] = base[calls[Walker][i].arg]
    <3>1. calls[Walker][i].arg \in Variants  BY WalkedType
    <3>2. QED  BY <2>1, <3>1 DEF Placed
  <2>3. QED  BY <2>1, <2>2, Stands
<1>3. ASSUME NEW v \in Variants, StartWalk(v) PROVE Walking'
  <2>1. PICK n : n = Len(calls[Walker]) + 1  OBVIOUS
  <2>2. PICK e \in Calls : e = [fn |-> Walk, arg |-> v]  BY DEF Calls
  <2>3. Calling(Walker, e) /\ base' = base /\ base[v] # 0
    BY <1>3, <2>2 DEF StartWalk, Calling, Walk, memory
  <2>4. PICK o \in 0 .. Size[v] - 1 : geo' = base[v] + o  BY <1>3 DEF StartWalk
  <2>5. /\ Walks' = Walks \cup {n} /\ calls'[Walker][n] = e
        /\ \A i \in 1 .. Len(calls[Walker]) : calls'[Walker][i] = calls[Walker][i]
    <3>1. e.fn = Walk  BY <2>2
    <3>2. QED  BY <1>w, <2>1, <2>3, <3>1, Pushed DEF Walks, Walk
  <2>6. Walks \subseteq 1 .. Len(calls[Walker]) /\ n \in Nat
    BY <1>w, <2>1, PlacesType DEF Walks
  <2>7. Max(Walks') = n
    <3>1. PICK w : w = Walks'  OBVIOUS
    <3>2. Len(calls[Walker]) \in Nat  BY <1>w, PlacesType
    <3>3. \A j \in w : j \in 1 .. n  BY <2>1, <2>5, <2>6, <3>1, <3>2
    <3>4. n \in w  BY <2>5, <3>1
    <3>5. Max(w) \in w /\ \A j \in w : j <= Max(w)
      <4>1. w \subseteq 1 .. n /\ w # {}  BY <3>3, <3>4
      <4>2. QED  BY <2>6, <4>1, MaxOf
    <3>6. PICK m : m = Max(w)  OBVIOUS
    <3>7. m \in 1 .. n /\ n <= m  BY <3>3, <3>4, <3>5, <3>6
    <3>8. m = n  BY <2>6, <3>7
    <3>9. QED  BY <3>1, <3>6, <3>8
  <2>8. Walked(Walks)' = v  BY <2>2, <2>5, <2>7 DEF Walked
  <2>9. Holds(v, geo)'
    <3>1. base[v] \in Nat /\ Size[v] \in Nat  BY VariantIs
    <3>2. QED  BY <2>3, <2>4, <3>1 DEF Holds
  <2>10. \A i \in Walks' : base'[calls'[Walker][i].arg] # 0
    <3>1. calls'[Walker][n].arg = v  BY <2>2, <2>5
    <3>2. \A i \in Walks : calls'[Walker][i] = calls[Walker][i]  BY <2>5, <2>6
    <3>3. QED  BY <2>3, <2>5, <3>1, <3>2 DEF Walking
  <2>11. QED  BY <2>8, <2>9, <2>10 DEF Walking
<1>4. ASSUME EndWalk PROVE Walking'
  <2>1. PICK n : n = Len(calls[Walker])  OBVIOUS
  <2>2. PICK outer : outer = Walks \ {n}  OBVIOUS
  <2>3. /\ Returning(Walker) /\ base' = base
        /\ geo' = IF outer # {} THEN base[Walked(outer)] ELSE 0
    BY <1>4, <2>1, <2>2 DEF EndWalk, Returning, memory
  <2>4. Walks' = outer /\ \A i \in outer : calls'[Walker][i] = calls[Walker][i]
    <3>1. Walks' = outer  BY <1>w, <2>1, <2>2, <2>3, Returned DEF Walks
    <3>2. Last(calls[Walker]).fn = Walk  BY <1>4 DEF EndWalk, Walk
    <3>3. \A i \in CallsOf(Walker, Walk)' : calls'[Walker][i] = calls[Walker][i]
      BY <1>w, <2>3, <3>2, ReturnedCounts
    <3>4. QED  BY <3>1, <3>3 DEF Walks, Walk
  <2>5. \A i \in Walks' : base'[calls'[Walker][i].arg] # 0
    BY <2>2, <2>3, <2>4 DEF Walking
  <2>6. CASE outer # {}
    <3>1. Max(outer) \in outer /\ Walked(outer) \in Variants
      BY <2>2, <2>6, WalkedType
    <3>2. Walked(Walks)' = Walked(outer)  BY <2>4, <3>1 DEF Walked
    <3>3. PICK v \in Variants : v = Walked(outer)  BY <3>1
    <3>4. base[v] # 0  BY <2>2, <3>1, <3>3 DEF Walking, Walked
    <3>5. base[v] \in Nat /\ Size[v] \in Nat \ {0}  BY VariantIs
    <3>6. geo' = base[v]  BY <2>3, <2>6, <3>3
    <3>7. Holds(v, geo)'  BY <2>3, <3>4, <3>5, <3>6 DEF Holds
    <3>8. QED  BY <2>5, <3>2, <3>3, <3>7 DEF Walking
  <2>7. CASE outer = {}  BY <2>4, <2>5, <2>7 DEF Walking
  <2>8. QED  BY <2>6, <2>7
<1>5. CASE Hooks
  <2>1. /\ UNCHANGED <<base, geo>> /\ Walks' = Walks
        /\ \A i \in Walks : calls'[Walker][i] = calls[Walker][i]
    BY <1>5, HooksKeep
  <2>2. Walks # {} => Walked(Walks)' = Walked(Walks)
    BY <2>1, WalkedType DEF Walked
  <2>3. \A v : Holds(v, geo) => Holds(v, geo)'  BY <2>1 DEF Holds
  <2>4. QED  BY <2>1, <2>2, <2>3 DEF Walking
<1>6. CASE UNCHANGED vars
  BY <1>6 DEF vars, memory, Walking, Walks, Walked, CallsOf, Holds
<1>7. QED  BY <1>1, <1>2, <1>3, <1>4, <1>5, <1>6, NextIs
-----------------------------------------------------------------------------
(* What an exit hook reads. *)

LEMMA PoppedIs ==
    ASSUME Shape, Counted, Stored, NEW t \in Threads, NEW f \in Fns,
           calls[t] # <<>>, Last(calls[t]).fn = f
    PROVE Popped(t, f) = IF Depth(t, f) <= Cap[f] THEN Last(calls[t]).arg
                         ELSE IF f \in FallBack THEN Outermost(t, f)
                         ELSE Nothing
<1>1. PICK n : n = Len(calls[t])  OBVIOUS
<1>2. /\ n \in CallsOf(t, f) /\ Last(calls[t]) = calls[t][n]
      /\ Cardinality(Around(t, f, n)) = Depth(t, f) - 1
  BY <1>1, Innermost
<1>3. Depth(t, f) \in Nat /\ Cardinality(Around(t, f, n)) \in Nat  BY PlacesType
<1>4. PICK d \in Nat \ {0} : d = Depth(t, f)
  <2>1. Depth(t, f) # 0  BY <1>2, <1>3
  <2>2. QED  BY <1>3, <2>1
<1>5. PICK c \in Nat \ {0} : c = Cap[f]  BY CallsAssumption
<1>6. Popped(t, f) = IF d - 1 \in 0 .. c - 1 THEN stack[t][f][d - 1]
                     ELSE IF f \in FallBack THEN stack[t][f][0]
                     ELSE Nothing
  BY <1>4, <1>5 DEF Popped, Counted
<1>7. CASE d <= c
  <2>1. d - 1 \in 0 .. c - 1 /\ d - 1 < c  BY <1>7
  <2>2. stack[t][f][d - 1] = calls[t][n].arg  BY <1>2, <1>4, <1>5, <2>1 DEF Stored
  <2>3. QED  BY <1>2, <1>4, <1>5, <1>6, <1>7, <2>1, <2>2
<1>8. CASE ~(d <= c)
  <2>1. d - 1 \notin 0 .. c - 1  BY <1>8
  <2>2. PICK m : m = Min(CallsOf(t, f))  OBVIOUS
  <2>3. m \in CallsOf(t, f) /\ \A j \in CallsOf(t, f) : m <= j
    <3>1. Len(calls[t]) \in Nat /\ CallsOf(t, f) \subseteq 1 .. Len(calls[t])
      BY PlacesType
    <3>2. CallsOf(t, f) \subseteq Nat /\ CallsOf(t, f) # {}  BY <1>2, <3>1
    <3>3. QED  BY <2>2, <3>2, MinOf
  <2>4. Around(t, f, m) = {}
    <3>1. CallsOf(t, f) \subseteq 1 .. Len(calls[t])  BY PlacesType
    <3>2. \A j \in CallsOf(t, f) : ~(j < m)  BY <2>3, <3>1
    <3>3. QED  BY <3>2 DEF Around
  <2>5. Cardinality(Around(t, f, m)) = 0  BY <2>4, FS_EmptySet
  <2>6. stack[t][f][0] = calls[t][m].arg
    <3>1. 0 < Cap[f]  BY <1>5
    <3>2. QED  BY <2>3, <2>5, <3>1 DEF Stored
  <2>7. Outermost(t, f) = calls[t][m].arg  BY <2>2 DEF Outermost
  <2>8. QED  BY <1>4, <1>5, <1>6, <1>8, <2>1, <2>6, <2>7
<1>9. QED  BY <1>7, <1>8

LEMMA ExitStep ==
    ASSUME Shape, Counted, Stored, ExitSeesOwnCall, [Next]_vars
    PROVE ExitSeesOwnCall'
<1>1. ASSUME last' = Nothing PROVE ExitSeesOwnCall'  BY <1>1 DEF ExitSeesOwnCall
<1>2. ASSUME NEW t \in Threads, NEW f \in Fns, calls[t] # <<>>, Last(calls[t]).fn = f,
             last'.fn = f, last'.depth = Depth(t, f), last'.own = Last(calls[t]).arg,
             last'.outermost = Outermost(t, f), last'.saw = Popped(t, f)
      PROVE ExitSeesOwnCall'
  BY <1>2, PoppedIs DEF ExitSeesOwnCall
<1>3. ASSUME NEW t \in Threads, NEW f \in Loaders, LoaderExit(t, f)
      PROVE ExitSeesOwnCall'
  <2>1. f \in Fns /\ calls[t] # <<>> /\ Last(calls[t]).fn = f
    BY <1>3 DEF LoaderExit, Leave, Fns
  <2>2. last' = [fn |-> f, depth |-> Depth(t, f), own |-> Last(calls[t]).arg,
                 outermost |-> Outermost(t, f), saw |-> Popped(t, f)]
    BY <1>3 DEF LoaderExit
  <2>3. QED  BY <1>2, <2>1, <2>2
<1>4. ASSUME NEW t \in Lookers, MemmapExit(t) PROVE ExitSeesOwnCall'
  <2>1. t \in Threads /\ Memmap \in Fns  BY CallsAssumption DEF Fns
  <2>2. calls[t] # <<>> /\ Last(calls[t]).fn = Memmap  BY <1>4 DEF MemmapExit, Leave
  <2>3. /\ last'.fn = Memmap /\ last'.depth = Depth(t, Memmap)
        /\ last'.own = Last(calls[t]).arg /\ last'.outermost = Outermost(t, Memmap)
        /\ last'.saw = Popped(t, Memmap)
    BY <1>4 DEF MemmapExit
  <2>4. QED  BY <1>2, <2>1, <2>2, <2>3
<1>5. ASSUME Hooks PROVE ExitSeesOwnCall'
  BY <1>1, <1>3, <1>4, <1>5 DEF Hooks, Enter
<1>6. ASSUME NEW v \in Variants, NEW s \in Slots, LoadVariant(v, s) PROVE last' = Nothing
  BY <1>6 DEF LoadVariant
<1>7. ASSUME NEW v \in Variants, UnloadVariant(v) \/ StartWalk(v) PROVE last' = Nothing
  BY <1>7 DEF UnloadVariant, StartWalk
<1>8. EndWalk => last' = Nothing  BY DEF EndWalk
<1>9. UNCHANGED vars => ExitSeesOwnCall'  BY DEF vars, ExitSeesOwnCall
<1>10. QED  BY <1>1, <1>5, <1>6, <1>7, <1>8, <1>9, NextIs
-----------------------------------------------------------------------------
(* The invariant. *)

LEMMA TypeIs == ASSUME Shape PROVE TypeOK <=> Counted /\ Placed
<1>1. ASSUME NEW t \in Threads, NEW f \in Fns, NEW i \in DOMAIN stack[t][f]
      PROVE stack[t][f][i] \in {Nothing} \cup (IF f = Memmap THEN Inputs ELSE Args)
  <2>1. stack[t][f] \in [0 .. Cap[f] - 1 -> Slotted(f)]  BY DEF Shape
  <2>2. stack[t][f][i] \in Slotted(f)  BY <2>1
  <2>3. QED  BY <2>2 DEF Slotted
<1>2. QED  BY <1>1 DEF TypeOK, Counted, Placed

LEMMA FollowsStep ==
    ASSUME Shape, Counted, Stored, [Next]_vars PROVE Shape' /\ Counted' /\ Stored'
<1>1. ASSUME UNCHANGED <<calls, stack, sp>> PROVE Shape' /\ Counted' /\ Stored'
  <2>1. \A t, f : CallsOf(t, f)' = CallsOf(t, f)  BY <1>1 DEF CallsOf
  <2>2. \A t, f, i : Around(t, f, i)' = Around(t, f, i)  BY <2>1 DEF Around
  <2>3. \A t, f : Depth(t, f)' = Depth(t, f)  BY <2>1 DEF Depth
  <2>4. Shape'  BY <1>1 DEF Shape
  <2>5. Counted'  BY <1>1, <2>3 DEF Counted
  <2>6. Stored'  BY <1>1, <2>1, <2>2 DEF Stored
  <2>7. QED  BY <2>4, <2>5, <2>6
<1>2. ASSUME NEW v \in Variants, NEW s \in Slots, LoadVariant(v, s)
      PROVE Shape' /\ Counted' /\ Stored'
  BY <1>1, <1>2 DEF LoadVariant, shadow
<1>3. ASSUME NEW v \in Variants, UnloadVariant(v) PROVE Shape' /\ Counted' /\ Stored'
  BY <1>1, <1>3 DEF UnloadVariant, shadow
<1>4. CASE Hooks
  <2>1. ASSUME NEW t \in Threads, NEW f \in Loaders, LoaderExit(t, f)
        PROVE Leave(t, f) /\ f \in Fns
    BY <2>1 DEF LoaderExit, Fns
  <2>2. ASSUME NEW t \in Lookers, MemmapExit(t)
        PROVE t \in Threads /\ Leave(t, Memmap) /\ Memmap \in Fns
    BY <2>2, CallsAssumption DEF MemmapExit, Fns
  <2>3. QED  BY <1>4, <2>1, <2>2, EnterHook, LeaveHook DEF Hooks
<1>5. CASE UNCHANGED vars  BY <1>1, <1>5 DEF vars, shadow
<1>6. QED  BY <1>2, <1>3, <1>4, <1>5, NextIs, WalkBegins, WalkEnds

LEMMA InitIInv == ASSUME Init PROVE IInv
<1>1. \A t \in Threads : calls[t] = <<>>  BY DEF Init
<1>2. ASSUME NEW t \in Threads, NEW f PROVE CallsOf(t, f) = {}
  BY <1>1 DEF CallsOf
<1>3. ASSUME NEW t \in Threads, NEW f PROVE Depth(t, f) = 0
  BY <1>2, FS_EmptySet DEF Depth
<1>4. Shape
  <2>1. calls \in [Threads -> Seq(Calls)]  BY DEF Init
  <2>2. sp \in [Threads -> [Fns -> Int]]  BY DEF Init
  <2>3. /\ DOMAIN stack = Threads
        /\ \A t \in Threads : DOMAIN stack[t] = Fns
        /\ \A t \in Threads, f \in Fns :
              stack[t][f] = [i \in 0 .. Cap[f] - 1 |-> Nothing]
    BY DEF Init
  <2>4. \A t \in Threads, f \in Fns : stack[t][f] \in [0 .. Cap[f] - 1 -> Slotted(f)]
    <3>1. ASSUME NEW t \in Threads, NEW f \in Fns
          PROVE stack[t][f] \in [0 .. Cap[f] - 1 -> Slotted(f)]
      <4>1. Nothing \in Slotted(f)  BY DEF Slotted
      <4>2. stack[t][f] = [i \in 0 .. Cap[f] - 1 |-> Nothing]  BY <2>3
      <4>3. QED  BY <4>1, <4>2
    <3>2. QED  BY <3>1
  <2>5. QED  BY <2>1, <2>2, <2>3, <2>4 DEF Shape
<1>5. Counted  BY <1>3 DEF Init, Counted
<1>6. Placed
  <2>1. OtherAddress \in Nat
    BY CallsAssumption, FS_CardinalityType DEF OtherAddress
  <2>2. 0 \in 0 .. OtherAddress  BY <2>1
  <2>3. QED  BY <2>2 DEF Init, Placed
<1>7. TypeOK  BY <1>4, <1>5, <1>6, TypeIs
<1>8. Stored /\ Alone  BY <1>2 DEF Stored, Alone
<1>9. Apart  BY DEF Init, Apart
<1>10. Walks = {}  BY <1>2, CallsAssumption DEF Walks
<1>11. Walking  BY <1>10 DEF Walking
<1>12. ExitSeesOwnCall  BY DEF Init, ExitSeesOwnCall
<1>13. QED  BY <1>4, <1>7, <1>8, <1>9, <1>11, <1>12 DEF IInv

LEMMA StepIInv == ASSUME IInv, [Next]_vars PROVE IInv'
<1>1. Counted /\ Placed  BY TypeIs DEF IInv
<1>2. Shape' /\ Counted' /\ Stored'  BY <1>1, FollowsStep DEF IInv
<1>3. Alone'  BY AloneStep DEF IInv
<1>4. Placed' /\ Apart'  BY <1>1, PlacedStep DEF IInv
<1>5. Walking'  BY <1>1, WalkingStep DEF IInv
<1>6. ExitSeesOwnCall'  BY <1>1, ExitStep DEF IInv
<1>7. TypeOK'  BY <1>2, <1>4 DEF TypeOK, Counted, Placed, Shape, Slotted
<1>8. QED  BY <1>2, <1>3, <1>4, <1>5, <1>6, <1>7 DEF IInv

(* The inductive invariant holds of every behaviour. *)
THEOREM Invariance == Spec => []IInv
<1>1. Init => IInv  BY InitIInv
<1>2. IInv /\ [Next]_vars => IInv'  BY StepIInv
<1>3. QED  BY <1>1, <1>2, PTL DEF Spec

(* The index of every shadow stack is the number of calls of its function  *)
(* in progress on its thread, those that did not fit included, and the     *)
(* stacks, the buffers and the walker's address keep their types.          *)
THEOREM TypeCorrect == Spec => []TypeOK
<1>1. IInv => TypeOK  BY DEF IInv
<1>2. QED  BY <1>1, Invariance, PTL

(* Whatever other threads call meanwhile and however deep the calls nest,  *)
(* an exit hook reports the arguments of the very call that returns; a     *)
(* call that did not fit reports nothing, or the outermost one where the   *)
(* code falls back on slot 0.                                              *)
THEOREM ExitsSeeOwnCall == Spec => []ExitSeesOwnCall
<1>1. IInv => ExitSeesOwnCall  BY DEF IInv
<1>2. QED  BY <1>1, Invariance, PTL
-----------------------------------------------------------------------------
(* What a lookup is answered. *)

(* A thread leaves Memmap_GetFragmentVaddr by its own exit hook. *)
LEMMA WhoLeaves ==
    ASSUME Shape, Alone, [Next]_vars, NEW t \in Threads, InMemmap(t), ~InMemmap(t)'
    PROVE t \in Lookers /\ MemmapExit(t)
<1>1. ~NoneInMemmap  BY DEF NoneInMemmap
<1>2. \A v \in Variants, s \in Slots : ~LoadVariant(v, s)  BY <1>1 DEF LoadVariant
<1>3. \A v \in Variants : ~UnloadVariant(v) /\ ~StartWalk(v)
  BY <1>1 DEF UnloadVariant, StartWalk
<1>4. ~EndWalk  BY <1>1 DEF EndWalk
<1>5. \A u, f, a : ~Enter(u, f, a) /\ ~LoaderExit(u, f)  BY <1>1 DEF Enter, LoaderExit
<1>6. ~UNCHANGED vars  BY DEF vars, InMemmap
<1>7. PICK u \in Lookers : MemmapExit(u)
  BY <1>2, <1>3, <1>4, <1>5, <1>6, NextIs DEF Hooks
<1>8. u \in Threads /\ InMemmap(u)  BY <1>7, CallsAssumption DEF MemmapExit, Leave, InMemmap
<1>9. CallsOf(u, Memmap) # {} /\ CallsOf(t, Memmap) # {}  BY <1>8, InMemmapIs
<1>10. u = t  BY <1>8, <1>9 DEF Alone
<1>11. QED  BY <1>7, <1>10

(* The exit hook resolves what its own entry pushed. *)
LEMMA AnswerIs ==
    ASSUME IInv, NEW t \in Lookers, MemmapExit(t), NEW own, own = Last(calls[t]).arg
    PROVE own \in Inputs /\ last'.answer = Resolved(own, GameResult(own))
<1>1. t \in Threads /\ Memmap \in Fns /\ Walk # Memmap
  BY CallsAssumption DEF Fns, Walk
<1>2. calls[t] # <<>> /\ Last(calls[t]).fn = Memmap  BY DEF MemmapExit, Leave
<1>3. PICK n : n = Len(calls[t])  OBVIOUS
<1>4. n \in CallsOf(t, Memmap) /\ Last(calls[t]) \in Calls
  BY <1>1, <1>2, <1>3, Innermost DEF IInv
<1>5. own \in Inputs
  <2>1. Memmap \notin Loaders  BY CallsAssumption
  <2>2. QED  BY <1>1, <1>2, <1>4, <2>1 DEF Calls
<1>6. CallsOf(t, Memmap) = {n}  BY <1>1, <1>3, <1>4 DEF IInv, Alone
<1>7. Depth(t, Memmap) = 1  BY <1>6, FS_Singleton DEF Depth
<1>8. Depth(t, Memmap) <= Cap[Memmap]
  <2>1. Cap[Memmap] \in Nat \ {0}  BY <1>1, CallsAssumption
  <2>2. QED  BY <1>7, <2>1
<1>9. Popped(t, Memmap) = own
  <2>1. Shape /\ Counted /\ Stored  BY TypeIs DEF IInv
  <2>2. QED  BY <1>1, <1>2, <1>8, <2>1, PoppedIs
<1>10. last'.answer = Resolved(Popped(t, Memmap), GameResult(Last(calls[t]).arg))
  BY DEF MemmapExit
<1>11. QED  BY <1>5, <1>9, <1>10

(* The walker's address singles out the variant of the innermost walk. *)
LEMMA ContextIsWalked ==
    ASSUME IInv, NEW own \in Inputs, own.kind = "pattern", Walks # {},
           own.off < Size[Walked(Walks)]
    PROVE /\ ViaDataContext(own) = base[Walked(Walks)] + own.off
          /\ ViaDataContext(own) # 0
<1>1. Shape /\ Placed /\ Apart /\ Walking  BY TypeIs DEF IInv
<1>2. PICK v \in Variants : v = Walked(Walks)  BY <1>1, WalkedType
<1>3. Holds(v, geo) /\ own.off < Size[v]  BY <1>1, <1>2 DEF Walking
<1>4. geo \in Int
  <2>1. OtherAddress \in Int  BY CallsAssumption, FS_CardinalityType DEF OtherAddress
  <2>2. QED  BY <1>1, <2>1 DEF Placed
<1>5. PICK here : here = {w \in Variants : Holds(w, geo) /\ own.off < Size[w]}  OBVIOUS
<1>6. here = {v}  BY <1>1, <1>3, <1>4, <1>5, HoldsOne
<1>7. (CHOOSE w \in here : TRUE) = v  BY <1>6
<1>8. ViaDataContext(own) = base[v] + own.off
  BY <1>5, <1>6, <1>7 DEF ViaDataContext
<1>9. own.off \in Nat
  <2>1. own \in [kind : {"pattern"}, off : 0 .. MaxOffset]  BY DEF Inputs
  <2>2. own.off \in 0 .. MaxOffset /\ MaxOffset \in Nat  BY <2>1, CallsAssumption
  <2>3. QED  BY <2>2
<1>10. base[v] \in Nat /\ base[v] # 0  BY <1>1, <1>3, VariantIs DEF Holds
<1>11. base[v] + own.off # 0  BY <1>9, <1>10
<1>12. QED  BY <1>2, <1>8, <1>11

(* When the game's own answer is inside no resident variant, a literal met *)
(* while a layout is walked resolves into the variant that is walked, also *)
(* after walks nested in it have ended; and the address of any other       *)
(* fragment keeps the game's answer.                                       *)
THEOREM WalkedVariantFound == Spec => WalkedVariantWhenGameFails
<1>1. ASSUME IInv, [Next]_vars, NEW t \in Threads, InMemmap(t), ~InMemmap(t)',
             NEW own, own = Last(calls[t]).arg
      PROVE /\ own.kind = "fragment" => last'.answer = GameResult(own)
            /\ t = Walker /\ WalkedLookup /\ ~InLoadedVariant(GameResult(own))
                  => last'.answer = InWalkedVariant
  <2>1. t \in Lookers /\ MemmapExit(t)  BY <1>1, WhoLeaves DEF IInv
  <2>2. PICK game : game = GameResult(own)  OBVIOUS
  <2>3. own \in Inputs /\ last'.answer = Resolved(own, game)
    BY <1>1, <2>1, <2>2, AnswerIs
  <2>4. own.kind = "fragment" => last'.answer = game  BY <2>3 DEF Resolved
  <2>5. ASSUME t = Walker, WalkedLookup, ~InLoadedVariant(game)
        PROVE last'.answer = InWalkedVariant
    <3>1. Walks # {} /\ own.kind = "pattern" /\ own.off < Size[Walked(Walks)]
      BY <1>1, <2>5 DEF WalkedLookup
    <3>2. /\ ViaDataContext(own) = base[Walked(Walks)] + own.off
          /\ ViaDataContext(own) # 0
      BY <1>1, <2>3, <3>1, ContextIsWalked
    <3>3. Resolved(own, game) = ViaDataContext(own)  BY <2>5, <3>1, <3>2 DEF Resolved
    <3>4. QED  BY <1>1, <2>3, <2>5, <3>2, <3>3 DEF InWalkedVariant
  <2>6. QED  BY <2>2, <2>4, <2>5
<1>2. ASSUME IInv, [Next]_vars
      PROVE \A t \in Threads : InMemmap(t) /\ ~InMemmap(t)' =>
                LET own == Last(calls[t]).arg
                IN  /\ own.kind = "fragment" => last'.answer = GameResult(own)
                    /\ t = Walker /\ WalkedLookup /\ ~InLoadedVariant(GameResult(own))
                       => last'.answer = InWalkedVariant
  BY <1>1, <1>2
<1>3. QED  BY <1>2, Invariance, PTL DEF Spec, WalkedVariantWhenGameFails
=============================================================================
