------------------------ MODULE ExecutionGraphProofs ------------------------
(***************************************************************************)
(* Proofs about ExecutionGraph, for any nodes, dependencies, orders of     *)
(* insertion, retries and number of runs.                                  *)
(*                                                                         *)
(* The induction theorems of the library take a predicate as a parameter.  *)
(* Here induction is over sets of numbers, which no theorem needs to be    *)
(* instantiated with an operator for: it follows from the least element    *)
(* that every set of natural numbers has.                                  *)
(***************************************************************************)
EXTENDS ExecutionGraph, TLAPS, WellFoundedInduction, FiniteSetTheorems

(* Induction and recursion over numbers *)

Less == {p \in Nat \X Nat : p[1] < p[2]}

\* A set of numbers that holds 0 and with a number the next holds them all.
LEMMA Induction ==
    ASSUME NEW T, 0 \in T, \A i \in Nat : i \in T => i + 1 \in T
    PROVE  \A i \in Nat : i \in T
<1> DEFINE Rest == Nat \ T
<1> SUFFICES ASSUME Rest # {} PROVE FALSE
    OBVIOUS
<1>1. IsWellFoundedOn(Less, Nat)
    BY NatLessThanWellFounded DEF OpToRel, Less
<1>2. PICK i \in Rest : \A j \in Rest : <<j, i>> \notin Less
    BY <1>1, WFMin
<1>3. i \in Nat /\ i # 0
    OBVIOUS
<1>4. i - 1 \in Nat /\ (i - 1) + 1 = i /\ <<i - 1, i>> \in Less
    BY <1>3 DEF Less
<1> QED BY <1>2, <1>4

\* The same, up to n.
LEMMA InductionUpTo ==
    ASSUME NEW n \in Nat, NEW T, 0 \in T, \A i \in 1 .. n : i - 1 \in T => i \in T
    PROVE  \A i \in 0 .. n : i \in T
<1> DEFINE U == {i \in Nat : i <= n => i \in T}
<1>1. 0 \in U
    OBVIOUS
<1>2. ASSUME NEW i \in Nat, i \in U PROVE i + 1 \in U
    <2>1. CASE i + 1 <= n
        <3>1. i + 1 \in 1 .. n /\ (i + 1) - 1 = i /\ i <= n
            BY <2>1
        <3> QED BY <1>2, <3>1
    <2>2. CASE ~(i + 1 <= n)
        BY <2>2
    <2> QED BY <2>1, <2>2
<1> HIDE DEF U
<1>3. \A i \in Nat : i \in U
    BY <1>1, <1>2, Induction
<1> QED BY <1>3 DEF U

\* Some function starts with first and goes on as next says, with values in S.
HasSolution(S, first, n, next) ==
    \E f \in [0 .. n -> S] : /\ f[0] = first
                             /\ \A i \in 1 .. n : f[i] = next[<<f[i - 1], i>>]

\* A recursion that starts and stays in S defines a function.
LEMMA Recursion ==
    ASSUME NEW S, NEW first \in S, NEW n \in Nat, NEW next \in [S \X (1 .. n) -> S]
    PROVE  HasSolution(S, first, n, next)
<1> DEFINE Defines(f, k) ==
               f = [i \in 0 .. k |-> IF i = 0 THEN first ELSE next[<<f[i - 1], i>>]]
           T == {k \in 0 .. n : \E f \in [0 .. k -> S] : Defines(f, k)}
<1>1. 0 \in T
    <2>1. PICK f : f = [i \in 0 .. 0 |-> first]
        OBVIOUS
    <2>2. f \in [0 .. 0 -> S] /\ Defines(f, 0)
        BY <2>1
    <2> QED BY <2>2
<1>2. ASSUME NEW k \in 1 .. n, k - 1 \in T PROVE k \in T
    <2>1. PICK f \in [0 .. k - 1 -> S] : Defines(f, k - 1)
        BY <1>2
    <2>2. k - 1 \in 0 .. k - 1 /\ f[k - 1] \in S
        OBVIOUS
    <2>3. next[<<f[k - 1], k>>] \in S
        BY <2>2
    <2>4. PICK g : g = [i \in 0 .. k |-> IF i = k THEN next[<<f[k - 1], k>>] ELSE f[i]]
        OBVIOUS
    <2>5. g \in [0 .. k -> S]
        BY <2>3, <2>4
    <2>6. \A i \in 0 .. k - 1 : g[i] = f[i]
        BY <2>4
    <2>7. ASSUME NEW i \in 0 .. k
          PROVE  g[i] = IF i = 0 THEN first ELSE next[<<g[i - 1], i>>]
        <3>1. CASE i = k
            <4>1. k # 0 /\ k \in 0 .. k
                OBVIOUS
            <4>2. g[k] = next[<<f[k - 1], k>>]
                BY <2>4, <4>1
            <4>3. g[k - 1] = f[k - 1]
                BY <2>2, <2>6
            <4> QED BY <3>1, <4>1, <4>2, <4>3
        <3>2. CASE i # k /\ i = 0
            <4>1. 0 \in 0 .. k - 1
                OBVIOUS
            <4>2. f[0] = first
                BY <2>1, <4>1
            <4> QED BY <2>6, <3>2, <4>1, <4>2
        <3>3. CASE i # k /\ i # 0
            <4>1. i \in 0 .. k - 1 /\ i - 1 \in 0 .. k - 1
                BY <3>3
            <4>2. f[i] = next[<<f[i - 1], i>>]
                BY <2>1, <3>3, <4>1
            <4> QED BY <2>6, <3>3, <4>1, <4>2
        <3> QED BY <3>1, <3>2, <3>3
    <2>8. Defines(g, k)
        BY <2>4, <2>7
    <2> HIDE DEF Defines
    <2>9. k \in 0 .. n
        OBVIOUS
    <2> QED BY <2>5, <2>8, <2>9
<1> HIDE DEF T
<1>3. \A k \in 0 .. n : k \in T
    BY <1>1, <1>2, InductionUpTo
<1>4. n \in T
    BY <1>3
<1>5. PICK f \in [0 .. n -> S] : Defines(f, n)
    BY <1>4 DEF T
<1>6. f[0] = first /\ \A i \in 1 .. n : f[i] = next[<<f[i - 1], i>>]
    <2>1. 0 \in 0 .. n /\ \A i \in 1 .. n : i \in 0 .. n /\ i # 0
        OBVIOUS
    <2> QED BY <1>5, <2>1
<1> QED BY <1>5, <1>6 DEF HasSolution
-----------------------------------------------------------------------------
(* Sequences *)

\* No element is listed twice.
Distinct(s) == \A i, j \in 1 .. Len(s) : s[i] = s[j] => i = j

\* What ToSet says of a sequence.
LEMMA ToSetIs ==
    ASSUME NEW A, NEW s \in Seq(A)
    PROVE  /\ ToSet(s) \subseteq A
           /\ \A e : e \in ToSet(s) <=> \E i \in 1 .. Len(s) : s[i] = e
BY DEF ToSet

\* Appending a new element keeps a sequence distinct.
LEMMA AppendIs ==
    ASSUME NEW A, NEW s \in Seq(A), NEW e \in A
    PROVE  /\ Append(s, e) \in Seq(A)
           /\ Len(Append(s, e)) = Len(s) + 1
           /\ \A i \in 1 .. Len(s) : Append(s, e)[i] = s[i]
           /\ Append(s, e)[Len(s) + 1] = e
           /\ ToSet(Append(s, e)) = ToSet(s) \cup {e}
           /\ Distinct(s) /\ e \notin ToSet(s) => Distinct(Append(s, e))
<1>1. PICK t : t = Append(s, e)
    OBVIOUS
<1>2. /\ t \in Seq(A) /\ Len(t) = Len(s) + 1 /\ Len(s) \in Nat
      /\ \A i \in 1 .. Len(s) : t[i] = s[i]
      /\ t[Len(s) + 1] = e
    BY <1>1
<1>3. ToSet(t) = ToSet(s) \cup {e}
    <2>1. ASSUME NEW x PROVE x \in ToSet(t) <=> x \in ToSet(s) \/ x = e
        <3>1. ASSUME NEW i \in 1 .. Len(t), t[i] = x PROVE x \in ToSet(s) \/ x = e
            <4>1. i \in 1 .. Len(s) \/ i = Len(s) + 1
                BY <1>2
            <4> QED BY <1>2, <3>1, <4>1, ToSetIs
        <3>2. ASSUME NEW i \in 1 .. Len(s), s[i] = x PROVE x \in ToSet(t)
            <4>1. i \in 1 .. Len(t) /\ t[i] = x
                BY <1>2, <3>2
            <4> QED BY <1>2, <4>1, ToSetIs
        <3>3. e \in ToSet(t)
            <4>1. Len(s) + 1 \in 1 .. Len(t)
                BY <1>2
            <4> QED BY <1>2, <4>1, ToSetIs
        <3> QED BY <1>2, <3>1, <3>2, <3>3, ToSetIs
    <2> QED BY <2>1
<1>4. ASSUME Distinct(s), e \notin ToSet(s) PROVE Distinct(t)
    <2> SUFFICES ASSUME NEW i \in 1 .. Len(t), NEW j \in 1 .. Len(t), t[i] = t[j] PROVE i = j
        BY DEF Distinct
    <2>1. \A k \in 1 .. Len(s) : s[k] # e
        BY <1>4, ToSetIs
    <2>2. \A k \in 1 .. Len(t) : k \in 1 .. Len(s) \/ k = Len(s) + 1
        BY <1>2
    <2> QED BY <1>2, <1>4, <2>1, <2>2 DEF Distinct
<1> QED BY <1>1, <1>2, <1>3, <1>4

\* Taking the head off a sequence.
LEMMA TailIs ==
    ASSUME NEW A, NEW s \in Seq(A), s # <<>>
    PROVE  /\ Head(s) \in A /\ Tail(s) \in Seq(A)
           /\ ToSet(s) = ToSet(Tail(s)) \cup {Head(s)}
           /\ Distinct(s) => Distinct(Tail(s)) /\ Head(s) \notin ToSet(Tail(s))
<1>1. PICK t : t = Tail(s)
    OBVIOUS
<1>2. /\ t \in Seq(A) /\ Len(s) \in Nat /\ Len(s) # 0 /\ Len(t) = Len(s) - 1
      /\ Head(s) = s[1] /\ Head(s) \in A
      /\ \A i \in 1 .. Len(t) : t[i] = s[i + 1]
    BY <1>1
<1>3. ASSUME NEW x PROVE x \in ToSet(s) <=> x \in ToSet(t) \/ x = Head(s)
    <2>1. ASSUME NEW i \in 1 .. Len(s), s[i] = x PROVE x \in ToSet(t) \/ x = Head(s)
        <3>1. CASE i = 1
            BY <1>2, <2>1, <3>1
        <3>2. CASE i # 1
            <4>1. i - 1 \in 1 .. Len(t) /\ (i - 1) + 1 = i
                BY <1>2, <3>2
            <4>2. t[i - 1] = x
                BY <1>2, <2>1, <4>1
            <4> QED BY <1>2, <4>1, <4>2, ToSetIs
        <3> QED BY <3>1, <3>2
    <2>2. ASSUME NEW i \in 1 .. Len(t), t[i] = x PROVE x \in ToSet(s)
        <3>1. i + 1 \in 1 .. Len(s) /\ s[i + 1] = x
            BY <1>2, <2>2
        <3> QED BY <3>1, ToSetIs
    <2>3. Head(s) \in ToSet(s)
        <3>1. 1 \in 1 .. Len(s)
            BY <1>2
        <3> QED BY <1>2, <3>1, ToSetIs
    <2> QED BY <1>2, <2>1, <2>2, <2>3, ToSetIs
<1>4. ToSet(s) = ToSet(t) \cup {Head(s)}
    BY <1>3
<1>5. ASSUME Distinct(s) PROVE Distinct(t) /\ Head(s) \notin ToSet(t)
    <2>1. \A i \in 1 .. Len(t) : i + 1 \in 1 .. Len(s) /\ i + 1 # 1
        BY <1>2
    <2>2. 1 \in 1 .. Len(s)
        BY <1>2
    <2>3. Distinct(t)
        <3> SUFFICES ASSUME NEW i \in 1 .. Len(t), NEW j \in 1 .. Len(t), t[i] = t[j] PROVE i = j
            BY DEF Distinct
        <3>1. i + 1 = j + 1
            BY <1>2, <1>5, <2>1 DEF Distinct
        <3> QED BY <1>2, <3>1
    <2>4. \A i \in 1 .. Len(t) : t[i] # Head(s)
        BY <1>2, <1>5, <2>1, <2>2 DEF Distinct
    <2> QED BY <1>2, <2>3, <2>4, ToSetIs
<1> QED BY <1>1, <1>2, <1>4, <1>5
-----------------------------------------------------------------------------
(* The lists of finalize *)

\* Among lists the nodes of ns that are in S, none twice.
LEMMA AmongIs ==
    ASSUME NEW ns \in Seq(Node), NEW S
    PROVE  /\ Among(ns, S) \in Seq(Node)
           /\ ToSet(Among(ns, S)) = ToSet(ns) \cap S
           /\ Distinct(ns) => Distinct(Among(ns, S))
<1> DEFINE n == Len(ns)
           next == [p \in Seq(Node) \X (1 .. n) |->
                       IF ns[p[2]] \in S THEN Append(p[1], ns[p[2]]) ELSE p[1]]
           Defines(f) == f = [i \in 0 .. n |->
                                 IF i = 0 THEN <<>>
                                 ELSE IF ns[i] \in S THEN Append(f[i - 1], ns[i]) ELSE f[i - 1]]
<1>1. n \in Nat /\ \A i \in 1 .. n : ns[i] \in Node
    OBVIOUS
<1>2. next \in [Seq(Node) \X (1 .. n) -> Seq(Node)] /\ <<>> \in Seq(Node)
    <2>1. \A s \in Seq(Node), i \in 1 .. n : Append(s, ns[i]) \in Seq(Node)
        BY <1>1
    <2> QED BY <2>1
<1>3. \A s \in Seq(Node), i \in 1 .. n :
          next[<<s, i>>] = IF ns[i] \in S THEN Append(s, ns[i]) ELSE s
    OBVIOUS
<1> HIDE DEF next, n
<1>4. PICK g \in [0 .. n -> Seq(Node)] : /\ g[0] = <<>>
                                         /\ \A i \in 1 .. n : g[i] = next[<<g[i - 1], i>>]
    <2>1. HasSolution(Seq(Node), <<>>, n, next)
        BY <1>1, <1>2, Recursion
    <2> QED BY <2>1 DEF HasSolution
<1>5. Defines(g)
    <2>1. ASSUME NEW i \in 1 .. n
          PROVE  next[<<g[i - 1], i>>] = IF ns[i] \in S THEN Append(g[i - 1], ns[i]) ELSE g[i - 1]
        <3>1. i - 1 \in 0 .. n
            BY <1>1
        <3>2. g[i - 1] \in Seq(Node)
            BY <3>1
        <3> QED BY <1>3, <3>2
    <2>2. \A i \in 0 .. n : i = 0 \/ i \in 1 .. n
        BY <1>1
    <2> QED BY <1>4, <2>1, <2>2
<1>6. PICK f : f = CHOOSE h : Defines(h)
    OBVIOUS
<1>7. Defines(f)
    BY <1>5, <1>6
<1>8. Among(ns, S) = f[n]
    BY <1>6 DEF Among, n
<1> DEFINE Listed(i) == /\ f[i] \in Seq(Node)
                        /\ ToSet(f[i]) = {ns[j] : j \in 1 .. i} \cap S
                        /\ Distinct(ns) => Distinct(f[i])
           T == {i \in 0 .. n : Listed(i)}
<1>9. 0 \in T
    <2>1. f[0] = <<>> /\ 0 \in 0 .. n
        BY <1>1, <1>7
    <2>2. ToSet(<<>>) = {} /\ Distinct(<<>>) /\ <<>> \in Seq(Node)
        BY DEF ToSet, Distinct
    <2>3. {ns[j] : j \in 1 .. 0} \cap S = {}
        OBVIOUS
    <2>4. Listed(0)
        BY <2>1, <2>2, <2>3
    <2> QED BY <2>1, <2>4
<1>10. ASSUME NEW i \in 1 .. n, i - 1 \in T PROVE i \in T
    <2>1. i \in 0 .. n /\ i - 1 \in 0 .. n /\ i # 0 /\ ns[i] \in Node /\ Listed(i - 1)
        BY <1>1, <1>10
    <2>2. f[i] = IF ns[i] \in S THEN Append(f[i - 1], ns[i]) ELSE f[i - 1]
        BY <1>7, <2>1
    <2>7. PICK u \in Seq(Node) : u = f[i - 1]
        BY <2>1
    <2>3. {ns[j] : j \in 1 .. i} = {ns[j] : j \in 1 .. i - 1} \cup {ns[i]}
        <3>1. \A j : j \in 1 .. i <=> j \in 1 .. i - 1 \/ j = i
            BY <1>1
        <3> QED BY <3>1
    <2>4. ASSUME Distinct(ns) PROVE ns[i] \notin {ns[j] : j \in 1 .. i - 1}
        <3>1. \A j \in 1 .. i - 1 : j \in 1 .. n /\ j # i
            BY <1>1
        <3> QED BY <2>4, <3>1 DEF Distinct, n
    <2>5. CASE ns[i] \in S
        <3>1. f[i] = Append(u, ns[i])
            BY <2>2, <2>5, <2>7
        <3>2. /\ f[i] \in Seq(Node) /\ ToSet(f[i]) = ToSet(u) \cup {ns[i]}
              /\ (Distinct(u) /\ ns[i] \notin ToSet(u)) => Distinct(f[i])
            BY <2>1, <3>1, AppendIs
        <3>3. Listed(i)
            BY <2>1, <2>3, <2>4, <2>5, <2>7, <3>2
        <3> QED BY <2>1, <3>3
    <2>6. CASE ns[i] \notin S
        <3>1. Listed(i)
            BY <2>1, <2>2, <2>3, <2>6
        <3> QED BY <2>1, <3>1
    <2> QED BY <2>5, <2>6
<1> HIDE DEF T
<1>11. \A i \in 0 .. n : i \in T
    BY <1>1, <1>9, <1>10, InductionUpTo
<1>12. Listed(n)
    <2>1. n \in T
        BY <1>1, <1>11
    <2> HIDE DEF Listed
    <2> QED BY <2>1 DEF T
<1>13. ToSet(ns) = {ns[j] : j \in 1 .. n}
    BY DEF ToSet, n
<1> QED BY <1>8, <1>12, <1>13

\* The states of the sort: the queue, the indegrees and the order.
Sorting == [q : Seq(Node), indeg : [Node -> Int], order : Seq(Node)]

\* Visit takes one off the indegree of a child, and queues it at zero.
LEMMA VisitIs ==
    ASSUME NEW s \in Sorting, NEW c \in Node, NEW t, t = Visit(s, c)
    PROVE  /\ t \in Sorting /\ t.order = s.order
           /\ t.indeg[c] = s.indeg[c] - 1
           /\ \A n \in Node \ {c} : t.indeg[n] = s.indeg[n]
           /\ t.q = IF s.indeg[c] = 1 THEN Append(s.q, c) ELSE s.q
<1>1. s.q \in Seq(Node) /\ s.indeg \in [Node -> Int] /\ s.order \in Seq(Node)
    BY DEF Sorting
<1>2. PICK left : left = s.indeg[c] - 1
    OBVIOUS
<1>3. left \in Int /\ (left = 0 <=> s.indeg[c] = 1)
    BY <1>1, <1>2
<1>4. t = [s EXCEPT !.indeg[c] = left, !.q = IF left = 0 THEN Append(s.q, c) ELSE s.q]
    BY <1>2 DEF Visit
<1>5. s = [q |-> s.q, indeg |-> s.indeg, order |-> s.order]
    BY DEF Sorting
<1>6. t = [q |-> IF left = 0 THEN Append(s.q, c) ELSE s.q,
           indeg |-> [s.indeg EXCEPT ![c] = left], order |-> s.order]
    BY <1>4, <1>5
<1>7. Append(s.q, c) \in Seq(Node)
    BY <1>1
<1>8. [s.indeg EXCEPT ![c] = left] \in [Node -> Int]
    BY <1>1, <1>3
<1>9. t \in Sorting
    BY <1>1, <1>6, <1>7, <1>8 DEF Sorting
<1>10. t.order = s.order /\ t.indeg = [s.indeg EXCEPT ![c] = left]
       /\ t.q = IF left = 0 THEN Append(s.q, c) ELSE s.q
    BY <1>6
<1>11. t.indeg[c] = left /\ \A n \in Node \ {c} : t.indeg[n] = s.indeg[n]
    BY <1>1, <1>10
<1> QED BY <1>2, <1>3, <1>9, <1>10, <1>11

\* VisitAll visits one child after the other.
LEMMA VisitAllIs ==
    ASSUME NEW s \in Sorting, NEW children \in Seq(Node)
    PROVE  \E f : /\ f[0] = s
                  /\ \A i \in 0 .. Len(children) : f[i] \in Sorting
                  /\ \A i \in 1 .. Len(children) : f[i] = Visit(f[i - 1], children[i])
                  /\ VisitAll(s, children) = f[Len(children)]
<1> DEFINE n == Len(children)
           next == [p \in Sorting \X (1 .. n) |-> Visit(p[1], children[p[2]])]
           Defines(f) == f = [i \in 0 .. n |-> IF i = 0 THEN s ELSE Visit(f[i - 1], children[i])]
<1>1. n \in Nat /\ \A i \in 1 .. n : children[i] \in Node
    OBVIOUS
<1>2. \A t \in Sorting, i \in 1 .. n : Visit(t, children[i]) \in Sorting
    BY <1>1, VisitIs
<1>3. next \in [Sorting \X (1 .. n) -> Sorting]
    BY <1>2
<1>4. \A t \in Sorting, i \in 1 .. n : next[<<t, i>>] = Visit(t, children[i])
    OBVIOUS
<1> HIDE DEF next, n
<1>5. PICK g \in [0 .. n -> Sorting] : /\ g[0] = s
                                       /\ \A i \in 1 .. n : g[i] = next[<<g[i - 1], i>>]
    <2>1. HasSolution(Sorting, s, n, next)
        BY <1>1, <1>3, Recursion
    <2> QED BY <2>1 DEF HasSolution
<1>6. Defines(g)
    <2>1. ASSUME NEW i \in 1 .. n PROVE next[<<g[i - 1], i>>] = Visit(g[i - 1], children[i])
        <3>1. i - 1 \in 0 .. n
            BY <1>1
        <3>2. g[i - 1] \in Sorting
            BY <3>1
        <3> QED BY <1>4, <3>2
    <2>2. \A i \in 0 .. n : i = 0 \/ i \in 1 .. n
        BY <1>1
    <2> QED BY <1>5, <2>1, <2>2
<1>7. PICK f : f = CHOOSE h : Defines(h)
    OBVIOUS
<1>8. Defines(f)
    BY <1>6, <1>7
<1>9. VisitAll(s, children) = f[n]
    BY <1>7 DEF VisitAll, n
<1>10. f[0] = s /\ \A i \in 1 .. n : f[i] = Visit(f[i - 1], children[i])
    <2>1. 0 \in 0 .. n /\ \A i \in 1 .. n : i \in 0 .. n /\ i # 0
        BY <1>1
    <2> QED BY <1>8, <2>1
<1> HIDE DEF Defines
<1> DEFINE T == {i \in 0 .. n : f[i] \in Sorting}
<1>11. 0 \in T
    BY <1>1, <1>10
<1>12. ASSUME NEW i \in 1 .. n, i - 1 \in T PROVE i \in T
    <2>1. i \in 0 .. n /\ f[i - 1] \in Sorting
        BY <1>1, <1>12
    <2> QED BY <1>2, <1>10, <2>1
<1> HIDE DEF T
<1>13. \A i \in 0 .. n : i \in T
    BY <1>1, <1>11, <1>12, InductionUpTo
<1>14. \A i \in 0 .. n : f[i] \in Sorting
    BY <1>13 DEF T
<1> QED BY <1>9, <1>10, <1>14 DEF n

\* Visiting distinct children takes one off the indegree of each, and queues those that
\* had one left.
LEMMA VisitAllVisits ==
    ASSUME NEW s \in Sorting, NEW children \in Seq(Node), Distinct(children), Distinct(s.q),
           \A c \in ToSet(s.q) : s.indeg[c] # 1, NEW t, t = VisitAll(s, children)
    PROVE  /\ t \in Sorting /\ t.order = s.order
           /\ \A c \in Node : t.indeg[c] = IF c \in ToSet(children) THEN s.indeg[c] - 1 ELSE s.indeg[c]
           /\ Distinct(t.q)
           /\ ToSet(t.q) = ToSet(s.q) \cup {c \in ToSet(children) : s.indeg[c] = 1}
<1>1. PICK n : n = Len(children)
    OBVIOUS
<1>2. n \in Nat /\ \A i \in 1 .. n : children[i] \in Node
    BY <1>1
<1>3. PICK f : /\ f[0] = s
               /\ \A i \in 0 .. n : f[i] \in Sorting
               /\ \A i \in 1 .. n : f[i] = Visit(f[i - 1], children[i])
               /\ t = f[n]
    BY <1>1, VisitAllIs
<1> DEFINE Seen(i) == {children[j] : j \in 1 .. i}
           Visited(u, S) ==
               /\ u.order = s.order
               /\ \A c \in Node : u.indeg[c] = IF c \in S THEN s.indeg[c] - 1 ELSE s.indeg[c]
               /\ Distinct(u.q)
               /\ ToSet(u.q) = ToSet(s.q) \cup {c \in S : s.indeg[c] = 1}
           T == {i \in 0 .. n : Visited(f[i], Seen(i))}
<1>4. 0 \in T
    <2>1. Seen(0) = {} /\ 0 \in 0 .. n
        BY <1>2
    <2>2. Visited(s, {})
        OBVIOUS
    <2> QED BY <1>3, <2>1, <2>2
<1>5. ASSUME NEW i \in 1 .. n, i - 1 \in T PROVE i \in T
    <2>1. i \in 0 .. n /\ i - 1 \in 0 .. n /\ Visited(f[i - 1], Seen(i - 1))
        BY <1>2, <1>5
    <2>11. PICK S : S = Seen(i - 1)
        OBVIOUS
    <2>12. PICK c \in Node : c = children[i]
        BY <1>2
    <2>13. PICK u \in Sorting : u = f[i - 1]
        BY <1>3, <2>1
    <2>14. PICK v \in Sorting : v = f[i]
        BY <1>3, <2>1
    <2>2. c = children[i] /\ S = Seen(i - 1) /\ u = f[i - 1] /\ v = f[i]
        BY <2>11, <2>12, <2>13, <2>14
    <2>3. Seen(i) = S \cup {c}
        <3>1. \A j : j \in 1 .. i <=> j \in 1 .. i - 1 \/ j = i
            BY <1>2
        <3> QED BY <2>2, <3>1
    <2>4. c \notin S
        <3>1. \A j \in 1 .. i - 1 : j \in 1 .. n /\ j # i
            BY <1>2
        <3> QED BY <1>1, <2>2, <3>1 DEF Distinct
    <2> HIDE DEF Seen
    <2>5. /\ v.order = u.order /\ v.indeg[c] = u.indeg[c] - 1
          /\ \A m \in Node \ {c} : v.indeg[m] = u.indeg[m]
          /\ v.q = IF u.indeg[c] = 1 THEN Append(u.q, c) ELSE u.q
        <3>1. v = Visit(u, c)
            BY <1>3, <2>2
        <3> QED BY <3>1, VisitIs
    <2>6. Visited(u, S)
        BY <2>1, <2>2
    <2>7. u.indeg[c] = s.indeg[c] /\ u.q \in Seq(Node)
        BY <2>4, <2>6 DEF Sorting
    <2>8. \A m \in Node : v.indeg[m] = IF m \in S \cup {c} THEN s.indeg[m] - 1 ELSE s.indeg[m]
        BY <2>5, <2>6, <2>7
    <2>9. Distinct(v.q) /\ ToSet(v.q) = ToSet(s.q) \cup {m \in S \cup {c} : s.indeg[m] = 1}
        <3>1. CASE s.indeg[c] = 1
            <4>1. c \notin ToSet(u.q)
                BY <2>4, <2>6, <3>1
            <4>2. v.q = Append(u.q, c)
                BY <2>5, <2>7, <3>1
            <4>3. ToSet(v.q) = ToSet(u.q) \cup {c} /\ Distinct(v.q)
                BY <2>6, <2>7, <4>1, <4>2, AppendIs
            <4> QED BY <2>6, <3>1, <4>3
        <3>2. CASE s.indeg[c] # 1
            <4>1. v.q = u.q
                BY <2>5, <2>7, <3>2
            <4> QED BY <2>6, <3>2, <4>1
        <3> QED BY <3>1, <3>2
    <2>10. Visited(v, S \cup {c})
        BY <2>5, <2>6, <2>8, <2>9
    <2> HIDE DEF Visited
    <2> QED BY <2>1, <2>2, <2>3, <2>10
<1> HIDE DEF T
<1>6. \A i \in 0 .. n : i \in T
    BY <1>2, <1>4, <1>5, InductionUpTo
<1>7. Visited(t, Seen(n)) /\ t \in Sorting
    BY <1>2, <1>3, <1>6 DEF T
<1>8. Seen(n) = ToSet(children)
    BY <1>1 DEF ToSet
<1> QED BY <1>7, <1>8

\* A distinct sequence has as many elements as positions.
LEMMA DistinctHasLen ==
    ASSUME NEW A, NEW s \in Seq(A), Distinct(s)
    PROVE  IsFiniteSet(ToSet(s)) /\ Cardinality(ToSet(s)) = Len(s)
<1> DEFINE n == Len(s)
<1>1. n \in Nat /\ s \in [1 .. n -> A] /\ DOMAIN s = 1 .. n
    OBVIOUS
<1>2. s \in [1 .. n -> ToSet(s)]
    BY <1>1 DEF ToSet
<1>3. s \in Injection(1 .. n, ToSet(s))
    BY <1>2 DEF Injection, IsInjective, Distinct
<1>4. s \in Surjection(1 .. n, ToSet(s))
    BY <1>1, <1>2 DEF Surjection, ToSet
<1>5. s \in Bijection(1 .. n, ToSet(s))
    BY <1>3, <1>4 DEF Bijection
<1>6. ExistsBijection(1 .. n, ToSet(s))
    BY <1>5 DEF ExistsBijection
<1>7. IsFiniteSet(1 .. n)
    BY <1>1, FS_Interval
<1> HIDE DEF n
<1>8. IsFiniteSet(ToSet(s)) /\ Cardinality(ToSet(s)) = n
    BY <1>1, <1>6, <1>7, FS_Bijection, FS_CountingElements
<1> QED BY <1>8 DEF n

\* Flattening sequences keeps their elements' type, and flattens one sequence to itself.
LEMMA FlattenIs ==
    ASSUME NEW A, NEW seqs \in Seq(Seq(A)), Len(seqs) # 0
    PROVE  /\ FlattenSeq(seqs) \in Seq(A)
           /\ Len(seqs) = 1 => FlattenSeq(seqs) = seqs[1]
<1> DEFINE n == Len(seqs)
           next == [p \in Seq(A) \X (1 .. n) |-> p[1] \o seqs[p[2]]]
           Defines(f) == f = [i \in 1 .. n |-> IF i = 1 THEN seqs[i] ELSE f[i - 1] \o seqs[i]]
<1>1. n \in Nat \ {0} /\ \A i \in 1 .. n : seqs[i] \in Seq(A)
    OBVIOUS
<1>2. next \in [Seq(A) \X (1 .. n) -> Seq(A)] /\ <<>> \in Seq(A)
    <2>1. \A s \in Seq(A), i \in 1 .. n : s \o seqs[i] \in Seq(A)
        BY <1>1
    <2> QED BY <2>1
<1>3. \A s \in Seq(A), i \in 1 .. n : next[<<s, i>>] = s \o seqs[i]
    OBVIOUS
<1> HIDE DEF next, n
<1>4. PICK g \in [0 .. n -> Seq(A)] : /\ g[0] = <<>>
                                      /\ \A i \in 1 .. n : g[i] = next[<<g[i - 1], i>>]
    <2>1. HasSolution(Seq(A), <<>>, n, next)
        BY <1>1, <1>2, Recursion
    <2> QED BY <2>1 DEF HasSolution
<1>5. PICK h : h = [i \in 1 .. n |-> g[i]]
    OBVIOUS
<1>6. Defines(h)
    <2>1. ASSUME NEW i \in 1 .. n
          PROVE  g[i] = IF i = 1 THEN seqs[i] ELSE g[i - 1] \o seqs[i]
        <3>1. i - 1 \in 0 .. n
            BY <1>1
        <3>2. g[i - 1] \in Seq(A) /\ seqs[i] \in Seq(A)
            BY <1>1, <3>1
        <3>3. g[i] = g[i - 1] \o seqs[i]
            BY <1>3, <1>4, <3>2
        <3>4. <<>> \o seqs[i] = seqs[i]
            BY <3>2
        <3>5. i = 1 => g[i - 1] = <<>>
            BY <1>4
        <3> QED BY <3>3, <3>4, <3>5
    <2>2. \A i \in 1 .. n : i # 1 => i - 1 \in 1 .. n
        BY <1>1
    <2>3. \A i \in 1 .. n : h[i] = IF i = 1 THEN seqs[i] ELSE h[i - 1] \o seqs[i]
        BY <1>5, <2>1, <2>2
    <2> QED BY <1>5, <2>3
<1>7. PICK f : f = CHOOSE k : Defines(k)
    OBVIOUS
<1>8. Defines(f)
    BY <1>6, <1>7
<1>9. FlattenSeq(seqs) = f[n]
    BY <1>1, <1>7 DEF FlattenSeq, n
<1>10. /\ f[1] = seqs[1]
       /\ \A i \in 1 .. n : i # 1 => f[i] = f[i - 1] \o seqs[i]
    <2>1. 1 \in 1 .. n
        BY <1>1
    <2> QED BY <1>8, <2>1
<1> HIDE DEF Defines
<1> DEFINE T == {i \in 0 .. n : i = 0 \/ f[i] \in Seq(A)}
<1>11. 0 \in T
    BY <1>1
<1>12. ASSUME NEW i \in 1 .. n, i - 1 \in T PROVE i \in T
    <2>1. i \in 0 .. n /\ seqs[i] \in Seq(A)
        BY <1>1
    <2>2. CASE i = 1
        BY <1>10, <2>1, <2>2
    <2>3. CASE i # 1
        <3>1. f[i - 1] \in Seq(A)
            BY <1>1, <1>12, <2>3
        <3>2. f[i] = f[i - 1] \o seqs[i]
            BY <1>10, <2>3
        <3>3. PICK u \in Seq(A), v \in Seq(A) : u = f[i - 1] /\ v = seqs[i]
            BY <2>1, <3>1
        <3>4. f[i] \in Seq(A)
            BY <3>2, <3>3
        <3> QED BY <2>1, <3>4
    <2> QED BY <2>2, <2>3
<1> HIDE DEF T
<1>13. \A i \in 0 .. n : i \in T
    BY <1>1, <1>11, <1>12, InductionUpTo
<1>14. f[n] \in Seq(A)
    BY <1>1, <1>13 DEF T
<1> QED BY <1>9, <1>10, <1>14 DEF n

\* The children lists hold nodes; built once, they hold what depends on the node, once.
LEMMA ChildrenIs ==
    ASSUME NEW ns \in Seq(Node), NEW d, NEW calls \in Nat \ {0}
    PROVE  /\ Children(ns, d, calls) \in Seq(Node)
           /\ calls = 1 /\ Distinct(ns) =>
                 /\ Distinct(Children(ns, d, calls))
                 /\ ToSet(Children(ns, d, calls)) = {c \in ToSet(ns) : d \in deps[c]}
<1>1. PICK S : S = {c \in Node : d \in deps[c]}
    OBVIOUS
<1>2. PICK list : list = Among(ns, S)
    OBVIOUS
<1>3. /\ list \in Seq(Node) /\ ToSet(list) = ToSet(ns) \cap S
      /\ Distinct(ns) => Distinct(list)
    BY <1>2, AmongIs
<1>4. PICK seqs : seqs = [i \in 1 .. calls |-> list]
    OBVIOUS
<1>5. seqs \in Seq(Seq(Node)) /\ Len(seqs) = calls /\ seqs[1] = list
    BY <1>3, <1>4
<1>6. Children(ns, d, calls) = FlattenSeq(seqs)
    BY <1>1, <1>2, <1>4 DEF Children
<1>7. /\ FlattenSeq(seqs) \in Seq(Node)
      /\ Len(seqs) = 1 => FlattenSeq(seqs) = seqs[1]
    BY <1>5, FlattenIs
<1>8. ToSet(ns) \subseteq Node
    BY ToSetIs
<1>9. ToSet(ns) \cap S = {c \in ToSet(ns) : d \in deps[c]}
    BY <1>1, <1>8
<1> QED BY <1>3, <1>5, <1>6, <1>7, <1>9
-----------------------------------------------------------------------------
(* The topological sort *)

\* The state with which _toposort enters its loop.
Start(ns) ==
    [q     |-> Among(ns, {n \in Node : deps[n] = {}}),
     indeg |-> [n \in Node |-> Cardinality(deps[n])],
     order |-> <<>>]

\* One round of the loop.
Round(s, ns, calls) == IF s.q = <<>> THEN s ELSE Pop(s, ns, calls)

\* The loop starts in a state of the sort.
LEMMA StartIs ==
    ASSUME deps \in Graphs, NEW ns \in Seq(Node)
    PROVE  Start(ns) \in Sorting
<1>1. \A n \in Node : Cardinality(deps[n]) \in Int
    BY GraphAssumption, FS_CardinalityType
<1>2. Among(ns, {n \in Node : deps[n] = {}}) \in Seq(Node) /\ <<>> \in Seq(Node)
    BY AmongIs
<1> QED BY <1>1, <1>2 DEF Start, Sorting

\* Pop moves the head of the queue to the order before it visits the children.
LEMMA PopIs ==
    ASSUME NEW s \in Sorting, s.q # <<>>, NEW ns \in Seq(Node), NEW calls \in Nat \ {0}
    PROVE  \E t \in Sorting :
               /\ t.q = Tail(s.q) /\ t.indeg = s.indeg /\ t.order = Append(s.order, Head(s.q))
               /\ Pop(s, ns, calls) = VisitAll(t, Children(ns, Head(s.q), calls))
               /\ Pop(s, ns, calls) \in Sorting
<1>1. /\ s.q \in Seq(Node) /\ s.indeg \in [Node -> Int] /\ s.order \in Seq(Node)
      /\ s = [q |-> s.q, indeg |-> s.indeg, order |-> s.order]
    BY DEF Sorting
<1>2. Tail(s.q) \in Seq(Node) /\ Head(s.q) \in Node
    BY <1>1, TailIs
<1>3. Append(s.order, Head(s.q)) \in Seq(Node)
    BY <1>1, <1>2, AppendIs
<1>4. PICK t : t = [s EXCEPT !.q = Tail(@), !.order = Append(@, Head(s.q))]
    OBVIOUS
<1>5. t = [q |-> Tail(s.q), indeg |-> s.indeg, order |-> Append(s.order, Head(s.q))]
    BY <1>1, <1>4
<1>6. t \in Sorting /\ t.q = Tail(s.q) /\ t.indeg = s.indeg /\ t.order = Append(s.order, Head(s.q))
    BY <1>1, <1>2, <1>3, <1>5 DEF Sorting
<1>7. PICK children : children = Children(ns, Head(s.q), calls)
    OBVIOUS
<1>8. children \in Seq(Node)
    BY <1>7, ChildrenIs
<1>9. Pop(s, ns, calls) = VisitAll(t, children)
    BY <1>4, <1>7 DEF Pop
<1>10. VisitAll(t, children) \in Sorting
    <2>1. PICK f : /\ \A i \in 0 .. Len(children) : f[i] \in Sorting
                   /\ VisitAll(t, children) = f[Len(children)]
        BY <1>6, <1>8, VisitAllIs
    <2>2. Len(children) \in 0 .. Len(children)
        BY <1>8
    <2> QED BY <2>1, <2>2
<1> QED BY <1>6, <1>7, <1>9, <1>10

\* _toposort does one round after the other.
LEMMA ToposortIs ==
    ASSUME deps \in Graphs, NEW ns \in Seq(Node), NEW calls \in Nat \ {0}
    PROVE  \E f : /\ f[0] = Start(ns)
                  /\ \A i \in 0 .. Len(ns) : f[i] \in Sorting
                  /\ \A i \in 1 .. Len(ns) : f[i] = Round(f[i - 1], ns, calls)
                  /\ Toposort(ns, calls) = f[Len(ns)].order
<1> DEFINE n == Len(ns)
           next == [p \in Sorting \X (1 .. n) |-> Round(p[1], ns, calls)]
           Defines(f) == f = [i \in 0 .. n |->
               IF i = 0
               THEN [q     |-> Among(ns, {m \in Node : deps[m] = {}}),
                     indeg |-> [m \in Node |-> Cardinality(deps[m])],
                     order |-> <<>>]
               ELSE IF f[i - 1].q = <<>> THEN f[i - 1] ELSE Pop(f[i - 1], ns, calls)]
<1>1. n \in Nat
    OBVIOUS
<1>2. \A s \in Sorting : Round(s, ns, calls) \in Sorting
    BY PopIs DEF Round
<1>3. next \in [Sorting \X (1 .. n) -> Sorting]
    BY <1>2
<1>4. \A s \in Sorting, i \in 1 .. n : next[<<s, i>>] = Round(s, ns, calls)
    OBVIOUS
<1> HIDE DEF next, n
<1>5. PICK g \in [0 .. n -> Sorting] : /\ g[0] = Start(ns)
                                       /\ \A i \in 1 .. n : g[i] = next[<<g[i - 1], i>>]
    <2>1. HasSolution(Sorting, Start(ns), n, next)
        BY <1>1, <1>3, StartIs, Recursion
    <2> QED BY <2>1 DEF HasSolution
<1>6. Defines(g)
    <2>1. ASSUME NEW i \in 1 .. n
          PROVE  g[i] = IF g[i - 1].q = <<>> THEN g[i - 1] ELSE Pop(g[i - 1], ns, calls)
        <3>1. i - 1 \in 0 .. n
            BY <1>1
        <3>2. g[i - 1] \in Sorting
            BY <3>1
        <3> QED BY <1>4, <1>5, <3>2 DEF Round
    <2>2. \A i \in 0 .. n : i = 0 \/ i \in 1 .. n
        BY <1>1
    <2>3. g[0] = [q     |-> Among(ns, {m \in Node : deps[m] = {}}),
                  indeg |-> [m \in Node |-> Cardinality(deps[m])],
                  order |-> <<>>]
        BY <1>5 DEF Start
    <2> QED BY <2>1, <2>2, <2>3
<1>7. PICK f : f = CHOOSE h : Defines(h)
    OBVIOUS
<1>8. Defines(f)
    BY <1>6, <1>7
<1>9. Toposort(ns, calls) = f[n].order
    BY <1>7 DEF Toposort, n
<1>10. f[0] = Start(ns) /\ \A i \in 1 .. n : f[i] = Round(f[i - 1], ns, calls)
    <2>1. 0 \in 0 .. n /\ \A i \in 1 .. n : i \in 0 .. n /\ i # 0
        BY <1>1
    <2> QED BY <1>8, <2>1 DEF Start, Round
<1> HIDE DEF Defines
<1> DEFINE T == {i \in 0 .. n : f[i] \in Sorting}
<1>11. 0 \in T
    BY <1>1, <1>10, StartIs
<1>12. ASSUME NEW i \in 1 .. n, i - 1 \in T PROVE i \in T
    <2>1. i \in 0 .. n /\ f[i - 1] \in Sorting
        BY <1>1, <1>12
    <2> QED BY <1>2, <1>10, <2>1
<1> HIDE DEF T
<1>13. \A i \in 0 .. n : i \in T
    BY <1>1, <1>11, <1>12, InductionUpTo
<1>14. \A i \in 0 .. n : f[i] \in Sorting
    BY <1>13 DEF T
<1> QED BY <1>9, <1>10, <1>14 DEF n

\* The order is a sequence of nodes, however often the children lists were built.
LEMMA ToposortType ==
    ASSUME deps \in Graphs, NEW ns \in Seq(Node), NEW calls \in Nat \ {0}
    PROVE  Toposort(ns, calls) \in Seq(Node)
<1>1. PICK f : /\ \A i \in 0 .. Len(ns) : f[i] \in Sorting
               /\ Toposort(ns, calls) = f[Len(ns)].order
    BY ToposortIs
<1>2. Len(ns) \in 0 .. Len(ns)
    OBVIOUS
<1> QED BY <1>1, <1>2 DEF Sorting

\* The sort half way: queued or ordered are those nodes whose dependencies are ordered,
\* each once, and the indegrees count the dependencies that are not.
Halfway(s, ns) ==
    LET ordered == ToSet(s.order)
    IN  /\ Distinct(s.q) /\ Distinct(s.order) /\ ToSet(s.q) \cap ordered = {}
        /\ ToSet(s.q) \cup ordered = {n \in ToSet(ns) : deps[n] \subseteq ordered}
        /\ \A n \in ToSet(ns) : s.indeg[n] = Cardinality(deps[n] \ ordered)
        /\ \A j \in 1 .. Len(s.order) : deps[s.order[j]] \subseteq {s.order[i] : i \in 1 .. j - 1}

\* The loop starts half way.
LEMMA StartIsHalfway ==
    ASSUME deps \in Graphs, NEW ns \in Seq(Node), Distinct(ns)
    PROVE  Halfway(Start(ns), ns)
<1>1. PICK s : s = Start(ns)
    OBVIOUS
<1>2. PICK S : S = {n \in Node : deps[n] = {}}
    OBVIOUS
<1>3. /\ s.q = Among(ns, S) /\ s.order = <<>>
      /\ s.indeg = [n \in Node |-> Cardinality(deps[n])]
    BY <1>1, <1>2 DEF Start
<1>4. Distinct(s.q) /\ ToSet(s.q) = ToSet(ns) \cap S /\ ToSet(ns) \subseteq Node
    BY <1>3, AmongIs, ToSetIs
<1>5. ToSet(s.order) = {} /\ Distinct(s.order) /\ Len(s.order) = 0
    BY <1>3 DEF ToSet, Distinct
<1>6. ToSet(s.q) \cup {} = {n \in ToSet(ns) : deps[n] \subseteq {}}
    BY <1>2, <1>4
<1>7. \A n \in ToSet(ns) : s.indeg[n] = Cardinality(deps[n] \ {})
    <2>1. \A n \in ToSet(ns) : n \in Node /\ deps[n] \ {} = deps[n]
        BY <1>4
    <2> QED BY <1>3, <2>1
<1>8. \A j \in 1 .. Len(s.order) : FALSE
    BY <1>5
<1> QED BY <1>1, <1>4, <1>5, <1>6, <1>7, <1>8 DEF Halfway

\* A round takes the sort on.
LEMMA PopKeepsHalfway ==
    ASSUME deps \in Graphs, NEW ns \in Seq(Node), Distinct(ns),
           NEW s \in Sorting, s.q # <<>>, Halfway(s, ns), NEW u, u = Pop(s, ns, 1)
    PROVE  Halfway(u, ns) /\ Len(u.order) = Len(s.order) + 1
<1>1. s.q \in Seq(Node) /\ s.indeg \in [Node -> Int] /\ s.order \in Seq(Node)
    BY DEF Sorting
<1>2. PICK d, O, N : d = Head(s.q) /\ O = ToSet(s.order) /\ N = ToSet(ns)
    OBVIOUS
<1>3. /\ Distinct(s.q) /\ Distinct(s.order) /\ ToSet(s.q) \cap O = {}
      /\ ToSet(s.q) \cup O = {n \in N : deps[n] \subseteq O}
      /\ \A n \in N : s.indeg[n] = Cardinality(deps[n] \ O)
      /\ \A j \in 1 .. Len(s.order) : deps[s.order[j]] \subseteq {s.order[i] : i \in 1 .. j - 1}
    BY <1>2 DEF Halfway
<1>4. PICK t \in Sorting :
          /\ t.q = Tail(s.q) /\ t.indeg = s.indeg /\ t.order = Append(s.order, d)
          /\ u = VisitAll(t, Children(ns, d, 1))
    BY <1>2, PopIs
<1>5. PICK Q : Q = ToSet(Tail(s.q))
    OBVIOUS
<1>6. /\ d \in Node /\ Tail(s.q) \in Seq(Node) /\ Distinct(Tail(s.q))
      /\ ToSet(s.q) = Q \cup {d} /\ d \notin Q
    BY <1>1, <1>2, <1>3, <1>5, TailIs
<1>7. d \in N /\ d \notin O /\ deps[d] \subseteq O /\ N \subseteq Node
    BY <1>2, <1>3, <1>6, ToSetIs
<1>8. PICK children : children = Children(ns, d, 1)
    OBVIOUS
<1>9. /\ children \in Seq(Node) /\ Distinct(children)
      /\ ToSet(children) = {c \in N : d \in deps[c]}
    BY <1>2, <1>8, ChildrenIs
<1>10. \A n \in N : IsFiniteSet(deps[n]) /\ IsFiniteSet(deps[n] \ O) /\ Cardinality(deps[n] \ O) \in Nat
    <2> SUFFICES ASSUME NEW n \in N
                 PROVE  IsFiniteSet(deps[n]) /\ IsFiniteSet(deps[n] \ O) /\ Cardinality(deps[n] \ O) \in Nat
        OBVIOUS
    <2>1. IsFiniteSet(deps[n])
        BY <1>7, GraphAssumption
    <2>2. IsFiniteSet(deps[n] \ O)
        BY <2>1, FS_Subset
    <2> QED BY <2>1, <2>2, FS_CardinalityType
<1>11. \A c \in Q : t.indeg[c] # 1
    <2> SUFFICES ASSUME NEW c \in Q PROVE t.indeg[c] # 1
        OBVIOUS
    <2>1. c \in N /\ deps[c] \subseteq O
        BY <1>3, <1>6
    <2>2. deps[c] \ O = {}
        BY <2>1
    <2>3. s.indeg[c] = 0
        BY <1>3, <2>1, <2>2, FS_EmptySet
    <2> QED BY <1>4, <2>3
<1>12. PICK New : New = {c \in N : d \in deps[c] /\ s.indeg[c] = 1}
    OBVIOUS
<1>13. /\ u \in Sorting /\ u.order = t.order
       /\ \A c \in Node : u.indeg[c] = IF c \in ToSet(children) THEN t.indeg[c] - 1 ELSE t.indeg[c]
       /\ Distinct(u.q)
       /\ ToSet(u.q) = ToSet(t.q) \cup {c \in ToSet(children) : t.indeg[c] = 1}
    BY <1>4, <1>5, <1>6, <1>8, <1>9, <1>11, VisitAllVisits
<1>14. ToSet(u.q) = Q \cup New
    BY <1>4, <1>5, <1>9, <1>12, <1>13
<1>15. /\ u.order = Append(s.order, d) /\ Len(u.order) = Len(s.order) + 1
       /\ ToSet(u.order) = O \cup {d} /\ Distinct(u.order)
       /\ \A i \in 1 .. Len(s.order) : u.order[i] = s.order[i]
       /\ u.order[Len(s.order) + 1] = d
    <2>1. PICK v \in Seq(Node) : v = s.order
        BY <1>1
    <2>2. /\ Len(Append(v, d)) = Len(v) + 1
          /\ \A i \in 1 .. Len(v) : Append(v, d)[i] = v[i]
          /\ Append(v, d)[Len(v) + 1] = d
          /\ ToSet(Append(v, d)) = ToSet(v) \cup {d}
          /\ Distinct(v) /\ d \notin ToSet(v) => Distinct(Append(v, d))
        BY <1>6, AppendIs
    <2>3. Distinct(v) /\ d \notin ToSet(v) /\ ToSet(v) = O
        BY <1>2, <1>3, <1>7, <2>1
    <2>4. u.order = Append(v, d)
        BY <1>4, <1>13, <2>1
    <2> QED BY <2>1, <2>2, <2>3, <2>4
<1>16. \A c \in N : c \in New <=> d \in deps[c] /\ deps[c] \ O = {d}
    <2> SUFFICES ASSUME NEW c \in N, d \in deps[c]
                 PROVE  Cardinality(deps[c] \ O) = 1 <=> deps[c] \ O = {d}
        BY <1>3, <1>12
    <2>1. d \in deps[c] \ O
        BY <1>7
    <2>2. Cardinality(deps[c] \ O) = 1 <=> \E x : deps[c] \ O = {x}
        BY <1>10, FS_Singleton
    <2> QED BY <2>1, <2>2
<1>17. ToSet(u.q) \cap (O \cup {d}) = {}
    <2>1. \A c \in New : c \notin O /\ c # d
        BY <1>3, <1>7, <1>12, <1>16
    <2> QED BY <1>3, <1>6, <1>14, <2>1
<1>18. ToSet(u.q) \cup (O \cup {d}) = {n \in N : deps[n] \subseteq O \cup {d}}
    <2>1. ASSUME NEW n \in N
          PROVE  deps[n] \subseteq O \cup {d} <=> deps[n] \subseteq O \/ n \in New
        BY <1>7, <1>16
    <2>2. New \subseteq N /\ ToSet(s.q) \cup O \subseteq N
        BY <1>3, <1>12
    <2>3. ToSet(u.q) \cup (O \cup {d}) = (ToSet(s.q) \cup O) \cup New
        BY <1>6, <1>14
    <2> QED BY <1>3, <2>1, <2>2, <2>3
<1>19. ASSUME NEW n \in N PROVE u.indeg[n] = Cardinality(deps[n] \ (O \cup {d}))
    <2>1. deps[n] \ (O \cup {d}) = (deps[n] \ O) \ {d}
        OBVIOUS
    <2>2. Cardinality((deps[n] \ O) \ {d})
             = IF d \in deps[n] \ O THEN Cardinality(deps[n] \ O) - 1 ELSE Cardinality(deps[n] \ O)
        BY <1>10, FS_RemoveElement
    <2>3. n \in Node /\ s.indeg[n] = Cardinality(deps[n] \ O)
        BY <1>3, <1>7
    <2>4. n \in ToSet(children) <=> d \in deps[n] \ O
        BY <1>7, <1>9
    <2> QED BY <1>4, <1>13, <2>1, <2>2, <2>3, <2>4
<1>20. ASSUME NEW j \in 1 .. Len(u.order)
       PROVE  deps[u.order[j]] \subseteq {u.order[i] : i \in 1 .. j - 1}
    <2>1. j \in 1 .. Len(s.order) \/ j = Len(s.order) + 1
        BY <1>1, <1>15
    <2>2. CASE j \in 1 .. Len(s.order)
        <3>1. \A i \in 1 .. j - 1 : i \in 1 .. Len(s.order)
            BY <1>1, <2>2
        <3>2. u.order[j] = s.order[j] /\ \A i \in 1 .. j - 1 : u.order[i] = s.order[i]
            BY <1>15, <2>2, <3>1
        <3>3. deps[s.order[j]] \subseteq {s.order[i] : i \in 1 .. j - 1}
            BY <1>3, <2>2
        <3> QED BY <3>2, <3>3
    <2>3. CASE j = Len(s.order) + 1
        <3>1. O = {s.order[i] : i \in 1 .. Len(s.order)}
            BY <1>1, <1>2 DEF ToSet
        <3>2. j - 1 = Len(s.order)
            BY <1>1, <2>3
        <3>3. O \subseteq {u.order[i] : i \in 1 .. j - 1}
            BY <1>15, <3>1, <3>2
        <3> QED BY <1>7, <1>15, <2>3, <3>3
    <2> QED BY <2>1, <2>2, <2>3
<1>21. Halfway(u, ns)
    BY <1>2, <1>3, <1>13, <1>15, <1>17, <1>18, <1>19, <1>20 DEF Halfway
<1> QED BY <1>15, <1>21

\* A topological order of ns: its nodes, each once and after its dependencies.
Topological(order, ns) ==
    /\ Distinct(order) /\ ToSet(order) = ToSet(ns) /\ Len(order) = Len(ns)
    /\ \A j \in 1 .. Len(order) : deps[order[j]] \subseteq {order[i] : i \in 1 .. j - 1}

\* The first _toposort of a graph without a cycle orders it: when the queue is empty
\* before all nodes are ordered, the others depend on one another.
LEMMA ToposortIsTopological ==
    ASSUME deps \in Graphs, NEW ns \in Seq(Node), Distinct(ns), ~Unknown(ns), ~Cyclic(ns)
    PROVE  Topological(Toposort(ns, 1), ns)
<1>1. PICK n \in Nat : n = Len(ns)
    OBVIOUS
<1>2. PICK f : /\ f[0] = Start(ns)
               /\ \A i \in 0 .. n : f[i] \in Sorting
               /\ \A i \in 1 .. n : f[i] = Round(f[i - 1], ns, 1)
               /\ Toposort(ns, 1) = f[n].order
    BY <1>1, ToposortIs
<1> DEFINE Goes(i) == Halfway(f[i], ns) /\ (Len(f[i].order) = i \/ f[i].q = <<>>)
           T == {i \in 0 .. n : Goes(i)}
<1>3. 0 \in T
    <2>1. PICK s : s = Start(ns)
        OBVIOUS
    <2>2. Halfway(s, ns)
        BY <2>1, StartIsHalfway
    <2>3. s.order = <<>> /\ s = f[0]
        BY <1>2, <2>1 DEF Start
    <2>4. Len(s.order) = 0
        BY <2>3
    <2>5. Goes(0)
        BY <2>2, <2>3, <2>4
    <2>6. 0 \in 0 .. n
        OBVIOUS
    <2> HIDE DEF Goes
    <2> QED BY <2>5, <2>6
<1>4. ASSUME NEW i \in 1 .. n, i - 1 \in T PROVE i \in T
    <2>1. PICK s \in Sorting : s = f[i - 1]
        BY <1>2
    <2>2. Halfway(s, ns) /\ (Len(s.order) = i - 1 \/ s.q = <<>>)
        BY <1>4, <2>1
    <2>3. PICK u : u = f[i] /\ u = Round(s, ns, 1)
        BY <1>2, <2>1
    <2>4. Halfway(u, ns) /\ (Len(u.order) = i \/ u.q = <<>>)
        <3>1. CASE s.q = <<>>
            BY <2>2, <2>3, <3>1 DEF Round
        <3>2. CASE s.q # <<>>
            <4>1. u = Pop(s, ns, 1)
                BY <2>3, <3>2 DEF Round
            <4>2. Halfway(u, ns) /\ Len(u.order) = Len(s.order) + 1
                BY <2>2, <3>2, <4>1, PopKeepsHalfway
            <4> QED BY <2>2, <3>2, <4>2
        <3> QED BY <3>1, <3>2
    <2>5. Goes(i)
        BY <2>3, <2>4
    <2>6. i \in 0 .. n
        OBVIOUS
    <2> HIDE DEF Goes
    <2> QED BY <2>5, <2>6
<1> HIDE DEF T
<1>5. \A i \in 0 .. n : i \in T
    BY <1>3, <1>4, InductionUpTo
<1>6. PICK s \in Sorting : s = f[n]
    BY <1>2
<1>7. Halfway(s, ns) /\ (Len(s.order) = n \/ s.q = <<>>)
    BY <1>5, <1>6 DEF T
<1>8. PICK O, N : O = ToSet(s.order) /\ N = ToSet(ns)
    OBVIOUS
<1>9. /\ Distinct(s.order) /\ ToSet(s.q) \cup O = {m \in N : deps[m] \subseteq O}
      /\ \A j \in 1 .. Len(s.order) : deps[s.order[j]] \subseteq {s.order[i] : i \in 1 .. j - 1}
    BY <1>7, <1>8 DEF Halfway
<1>10. O \subseteq N
    BY <1>9
<1>11. s.order \in Seq(Node)
    BY DEF Sorting
<1>12. /\ IsFiniteSet(O) /\ Cardinality(O) = Len(s.order)
       /\ IsFiniteSet(N) /\ Cardinality(N) = n
    BY <1>1, <1>8, <1>9, <1>11, DistinctHasLen
<1>13. O = N
    <2>1. CASE Len(s.order) = n
        BY <1>10, <1>12, <2>1, FS_Subset
    <2>2. CASE s.q = <<>>
        <3>1. ToSet(s.q) = {}
            BY <2>2 DEF ToSet
        <3>2. PICK C : C = N \ O
            OBVIOUS
        <3>3. ASSUME NEW m \in C PROVE deps[m] \cap C # {}
            <4>1. deps[m] \subseteq N
                BY <1>8, <3>2 DEF Unknown
            <4>2. ~(deps[m] \subseteq O)
                BY <1>9, <3>1, <3>2
            <4> QED BY <3>2, <4>1, <4>2
        <3>4. C = {}
            BY <1>8, <3>2, <3>3 DEF Cyclic
        <3> QED BY <1>10, <3>2, <3>4
    <2> QED BY <1>7, <2>1, <2>2
<1>14. Len(s.order) = Len(ns)
    BY <1>1, <1>12, <1>13
<1>15. PICK order : order = s.order
    OBVIOUS
<1>16. ToSet(order) = ToSet(ns)
    BY <1>8, <1>13, <1>15
<1>17. Topological(order, ns)
    <2>1. Distinct(order) /\ Len(order) = Len(ns)
        BY <1>9, <1>14, <1>15
    <2>2. \A j \in 1 .. Len(order) : deps[order[j]] \subseteq {order[i] : i \in 1 .. j - 1}
        BY <1>9, <1>15
    <2> QED BY <1>16, <2>1, <2>2 DEF Topological
<1>18. Toposort(ns, 1) = order
    BY <1>2, <1>6, <1>15
<1> QED BY <1>17, <1>18
-----------------------------------------------------------------------------
(* The inductive invariant *)

\* Types, and that a run finalizes the graph once; a task belongs to a run.
Basics ==
    /\ TypeOK
    /\ deps \in Graphs /\ nodes \in Insertions
    /\ finalized = runs
    /\ \A r \in 1 .. MaxRuns : runs < r => \A n \in Node : job[r][n] = "none"
    /\ runs = 0 => phase = "idle" /\ \A n \in Node : status[n] = "pending"

\* In the first run the status of a node is that of its task.
StatusIsJob ==
    \A n \in Node :
        /\ job[1][n] = "none" => status[n] \in {"pending", "failed"}
        /\ job[1][n] = "none" /\ phase # "raised" => status[n] = "pending"
        /\ job[1][n] = "created" => status[n] = "pending"
        /\ job[1][n] = "executing" => status[n] = "running"
        /\ job[1][n] = "returned" => status[n] = "done"
        /\ job[1][n] = "raised" => status[n] = "failed"

\* A task was created after the dependencies of its node were done.
DepsWereDone ==
    \A n \in Node : job[1][n] # "none" => \A d \in deps[n] : status[d] = "done"

\* Only nodes before the one run looks at have a task; what it waited for is done.
LaunchesInOrder ==
    phase = "launching" =>
        /\ \A n \in Node : job[1][n] # "none" => \E i \in 1 .. pos - 1 : sorted[i] = n
        /\ \A d \in met : status[d] = "done"

\* A run completes when all its tasks returned.
AwaitsAll ==
    /\ phase = "awaiting" => \A i \in 1 .. pos - 1 : job[1][sorted[i]] = "returned"
    /\ phase = "completed" => \A n \in ToSet(nodes) : job[1][n] = "returned"

\* It raises when a node failed, and that node has no task that could go on.
RaisesForFailure ==
    phase = "raised" => \E n \in ToSet(nodes) : /\ status[n] = "failed"
                                               /\ job[1][n] \in {"none", "raised"}

\* What the first run did.
FirstRun ==
    runs = 1 =>
        /\ phase # "idle"
        /\ phase # "rejected" => Topological(sorted, nodes)
        /\ StatusIsJob
        /\ DepsWereDone
        /\ LaunchesInOrder
        /\ AwaitsAll
        /\ RaisesForFailure

IInv == Basics /\ FirstRun

\* The invariant says what the run checks.
LEMMA InvImplies == IInv => TypeOK /\ OrderIsTopological /\ DependenciesDone /\ OutcomeIsTrue
<1> SUFFICES ASSUME IInv PROVE TypeOK /\ OrderIsTopological /\ DependenciesDone /\ OutcomeIsTrue
    OBVIOUS
<1>1. TypeOK
    BY DEF IInv, Basics
<1>2. OrderIsTopological
    <2> SUFFICES ASSUME finalized = 1, Executing
                 PROVE  /\ ToSet(sorted) = ToSet(nodes) /\ Len(sorted) = Len(nodes)
                        /\ \A i, j \in 1 .. Len(sorted) : sorted[i] \in deps[sorted[j]] => i < j
        BY DEF OrderIsTopological
    <2>1. Topological(sorted, nodes)
        BY DEF IInv, Basics, FirstRun, Executing
    <2>2. ASSUME NEW i \in 1 .. Len(sorted), NEW j \in 1 .. Len(sorted), sorted[i] \in deps[sorted[j]]
          PROVE  i < j
        <3>1. PICK k \in 1 .. j - 1 : sorted[i] = sorted[k]
            BY <2>1, <2>2 DEF Topological
        <3>2. k \in 1 .. Len(sorted) /\ k < j
            OBVIOUS
        <3>3. i = k
            BY <2>1, <3>1, <3>2 DEF Topological, Distinct
        <3> QED BY <3>2, <3>3
    <2> QED BY <2>1, <2>2 DEF Topological
<1>3. DependenciesDone
    BY DEF IInv, Basics, FirstRun, DepsWereDone, DependenciesDone
<1>4. OutcomeIsTrue
    <2>1. \A n \in ToSet(nodes) : n \in Node
        BY <1>1, ToSetIs DEF TypeOK
    <2> QED BY <2>1 DEF IInv, FirstRun, StatusIsJob, AwaitsAll, RaisesForFailure, OutcomeIsTrue
<1> QED BY <1>1, <1>2, <1>3, <1>4
-----------------------------------------------------------------------------
(* The first state and the steps *)

\* Nothing has run at first.
LEMMA InvInit == ASSUME Init PROVE IInv
<1>1. nodes \in Seq(Node) /\ deps \in [Node -> SUBSET Node]
    BY GraphAssumption DEF Init
<1>2. status \in [Node -> Status] /\ retries \in [Node -> 0 .. MaxRetries]
    BY DEF Init, Status
<1>3. /\ sorted \in Seq(Node) /\ pos \in 1 .. Len(sorted) + 1 /\ met \subseteq Node
      /\ runs \in 0 .. MaxRuns /\ finalized \in Nat
    BY GraphAssumption DEF Init
<1>4. job \in [1 .. MaxRuns -> [Node -> {"none", "created", "executing", "returned", "raised"}]]
    BY DEF Init, NoJobs
<1>5. TypeOK
    BY <1>1, <1>2, <1>3, <1>4 DEF TypeOK, Init
<1>6. Basics
    BY <1>5 DEF Basics, Init, NoJobs
<1> QED BY <1>6 DEF IInv, FirstRun, Init

\* run may look at the node it takes next.
LEMMA CandidateIs ==
    ASSUME TypeOK, pos <= Len(sorted)
    PROVE  pos \in 1 .. Len(sorted) /\ Candidate \in Node /\ Candidate \in ToSet(sorted)
<1>1. sorted \in Seq(Node) /\ pos \in 1 .. Len(sorted) + 1
    BY DEF TypeOK
<1>2. pos \in 1 .. Len(sorted)
    BY <1>1
<1>3. sorted[pos] \in Node
    BY <1>1, <1>2
<1> QED BY <1>2, <1>3 DEF Candidate, ToSet

\* A task belongs to a run that was called, in the first run to that one.
LEMMA TaskHasRun ==
    ASSUME Basics, NEW r \in 1 .. MaxRuns, NEW n \in Node, job[r][n] # "none"
    PROVE  r \in 1 .. runs /\ runs # 0 /\ (runs = 1 => r = 1)
<1>1. runs \in 0 .. MaxRuns /\ MaxRuns \in Nat
    BY GraphAssumption DEF Basics, TypeOK
<1>2. ~(runs < r)
    BY DEF Basics
<1> QED BY <1>1, <1>2

\* Calls of run keep the basics.
LEMMA RunKeepsBasics == ASSUME Basics, Run PROVE Basics'
<1>1. TypeOK /\ deps \in Graphs /\ nodes \in Seq(Node) /\ finalized = runs
    BY DEF Basics, TypeOK
<1>2. /\ runs \in Nat /\ runs < MaxRuns /\ MaxRuns \in Nat
      /\ runs' = runs + 1 /\ finalized' = finalized + 1
    BY <1>1, GraphAssumption DEF TypeOK, Run
<1>3. runs' \in 0 .. MaxRuns /\ finalized' \in Nat /\ finalized' = runs' /\ runs' # 0
    BY <1>1, <1>2
<1>4. sorted' \in Seq(Node)
    <2>1. Toposort(nodes, finalized + 1) \in Seq(Node)
        BY <1>1, <1>2, ToposortType
    <2>2. sorted' = sorted \/ sorted' = Toposort(nodes, finalized + 1)
        BY DEF Run
    <2> QED BY <1>1, <2>1, <2>2 DEF TypeOK
<1>5. pos' \in 1 .. Len(sorted') + 1
    <2>1. pos' = 1
        BY DEF Run
    <2> QED BY <1>4, <2>1
<1>6. TypeOK'
    BY <1>1, <1>3, <1>4, <1>5 DEF TypeOK, Run
<1>7. \A r \in 1 .. MaxRuns : runs' < r => runs < r
    BY <1>2
<1> QED BY <1>3, <1>6, <1>7 DEF Basics, Run

\* The loop of run keeps the basics.
LEMMA LoopKeepsBasics == ASSUME Basics, Loop PROVE Basics'
<1>1. TypeOK
    BY DEF Basics
<1>2. /\ sorted \in Seq(Node) /\ pos \in 1 .. Len(sorted) + 1 /\ met \subseteq Node
      /\ status \in [Node -> Status] /\ deps \in [Node -> SUBSET Node]
      /\ job \in [1 .. MaxRuns -> [Node -> {"none", "created", "executing", "returned", "raised"}]]
    BY <1>1 DEF TypeOK
<1>3. /\ UNCHANGED <<nodes, deps, retries, finalized, sorted, runs>>
      /\ phase \in {"launching", "awaiting"}
    BY DEF Loop, DependencyDone, DependencyFailed, Launch, LaunchedAll, Await, Complete, dagVars, runVars
<1>4. runs # 0
    BY <1>3 DEF Basics
<1>5. runs \in 1 .. MaxRuns
    BY <1>1, <1>4, GraphAssumption DEF TypeOK
<1>6. /\ TypeOK'
      /\ \A r \in 1 .. MaxRuns : runs < r => \A n \in Node : job'[r][n] = job[r][n]
    <2>1. CASE \E d \in Node : DependencyDone(d)
        <3>1. PICK d \in Node : DependencyDone(d)
            BY <2>1
        <3>2. met' \subseteq Node
            BY <1>2, <3>1 DEF DependencyDone
        <3> QED BY <1>1, <3>1, <3>2 DEF TypeOK, DependencyDone, dagVars
    <2>2. CASE \E d \in Node : DependencyFailed(d)
        <3>1. PICK d \in Node : DependencyFailed(d)
            BY <2>2
        <3>2. status' \in [Node -> Status]
            BY <1>2, <3>1 DEF DependencyFailed, Status
        <3> QED BY <1>1, <3>1, <3>2 DEF TypeOK, DependencyFailed
    <2>3. CASE Launch
        <3>1. pos' \in 1 .. Len(sorted') + 1 /\ Candidate \in Node
            BY <1>1, <1>2, <2>3, CandidateIs DEF Launch, dagVars
        <3>2. PICK c \in Node : c = Candidate
            BY <3>1
        <3>3. job' = [job EXCEPT ![runs][c] = "created"]
            BY <2>3, <3>2 DEF Launch
        <3>4. job' \in [1 .. MaxRuns -> [Node -> {"none", "created", "executing", "returned", "raised"}]]
            BY <1>2, <1>5, <3>3
        <3>5. \A r \in 1 .. MaxRuns : runs < r => job'[r] = job[r]
            BY <1>2, <1>5, <3>3
        <3> QED BY <1>1, <2>3, <3>1, <3>4, <3>5 DEF TypeOK, Launch, dagVars
    <2>4. CASE LaunchedAll
        <3>1. pos' \in 1 .. Len(sorted') + 1
            BY <1>2, <1>3, <2>4 DEF LaunchedAll
        <3> QED BY <1>1, <2>4, <3>1 DEF TypeOK, LaunchedAll, dagVars
    <2>5. CASE Await
        <3>1. pos' \in 1 .. Len(sorted') + 1
            BY <1>2, <1>3, <2>5 DEF Await
        <3>2. phase' \in {"awaiting", "raised"}
            BY <2>5 DEF Await
        <3> QED BY <1>1, <2>5, <3>1, <3>2 DEF TypeOK, Await, dagVars
    <2>6. CASE Complete
        BY <1>1, <2>6 DEF TypeOK, Complete, dagVars
    <2> QED BY <2>1, <2>2, <2>3, <2>4, <2>5, <2>6 DEF Loop
<1> QED BY <1>3, <1>4, <1>6 DEF Basics

\* The tasks keep the basics.
LEMMA TaskKeepsBasics ==
    ASSUME Basics, NEW r \in 1 .. MaxRuns, NEW n \in Node, Task(r, n)
    PROVE  Basics'
<1>1. TypeOK
    BY DEF Basics
<1>2. /\ status \in [Node -> Status] /\ retries \in [Node -> 0 .. MaxRetries]
      /\ job \in [1 .. MaxRuns -> [Node -> {"none", "created", "executing", "returned", "raised"}]]
    BY <1>1 DEF TypeOK
<1>3. UNCHANGED <<nodes, deps, finalized, sorted, phase, runs, pos, met>> /\ job[r][n] # "none"
    BY DEF Task, Submit, Succeed, Retry, Fail, runVars
<1>4. r \in 1 .. runs /\ runs # 0
    BY <1>3, TaskHasRun
<1>5. runs \in Nat
    BY <1>1 DEF TypeOK
<1>6. /\ status' \in [Node -> Status]
      /\ retries' \in [Node -> 0 .. MaxRetries]
      /\ job' \in [1 .. MaxRuns -> [Node -> {"none", "created", "executing", "returned", "raised"}]]
      /\ \A q \in 1 .. MaxRuns : q # r => job'[q] = job[q]
    <2>1. CASE Submit(r, n)
        BY <1>2, <2>1 DEF Submit, Status
    <2>2. CASE Succeed(r, n)
        BY <1>2, <2>2 DEF Succeed, Status
    <2>3. CASE Retry(r, n)
        <3>1. retries' \in [Node -> 0 .. MaxRetries]
            BY <1>2, <2>3, GraphAssumption DEF Retry
        <3> QED BY <1>2, <2>3, <3>1 DEF Retry, Status, runVars
    <2>4. CASE Fail(r, n)
        BY <1>2, <2>4 DEF Fail, Status
    <2> QED BY <2>1, <2>2, <2>3, <2>4 DEF Task
<1>7. TypeOK'
    BY <1>1, <1>3, <1>6 DEF TypeOK
<1>8. \A q \in 1 .. MaxRuns : runs < q => job'[q] = job[q]
    BY <1>4, <1>5, <1>6
<1> QED BY <1>3, <1>4, <1>7, <1>8 DEF Basics

\* The first call of run sorts the nodes, and has launched nothing.
LEMMA RunKeepsFirst == ASSUME Basics, Run PROVE FirstRun'
<1> SUFFICES ASSUME runs' = 1 PROVE FirstRun'
    BY DEF FirstRun
<1>1. TypeOK /\ deps \in Graphs /\ nodes \in Insertions /\ finalized = runs
    BY DEF Basics
<1>2. runs = 0 /\ finalized = 0 /\ 1 \in 1 .. MaxRuns
    BY <1>1, GraphAssumption DEF Run, TypeOK
<1>3. UNCHANGED <<nodes, deps, status, retries, job>> /\ met' = {} /\ phase' \in {"rejected", "launching"}
    BY DEF Run
<1>4. \A n \in Node : status[n] = "pending" /\ job[1][n] = "none"
    BY <1>2 DEF Basics
<1>5. ASSUME phase' # "rejected" PROVE Topological(sorted, nodes)'
    <2>1. ~Unknown(nodes) /\ ~Cyclic(nodes) /\ sorted' = Toposort(nodes, finalized + 1)
        BY <1>5 DEF Run
    <2>2. finalized + 1 = 1
        BY <1>2
    <2>3. nodes \in Seq(Node) /\ Distinct(nodes)
        BY <1>1, GraphAssumption DEF Distinct
    <2>4. Topological(Toposort(nodes, 1), nodes)
        BY <1>1, <2>1, <2>3, ToposortIsTopological
    <2>5. Topological(sorted', nodes)
        BY <2>1, <2>2, <2>4
    <2> QED BY <1>3, <2>5 DEF Topological
<1>6. /\ StatusIsJob' /\ DepsWereDone' /\ LaunchesInOrder' /\ AwaitsAll' /\ RaisesForFailure'
    BY <1>3, <1>4 DEF StatusIsJob, DepsWereDone, LaunchesInOrder, AwaitsAll, RaisesForFailure
<1> QED BY <1>3, <1>5, <1>6 DEF FirstRun

\* The loop launches a node after its dependencies, and ends as the tasks did.
LEMMA LoopKeepsFirst == ASSUME IInv, Loop PROVE FirstRun'
<1>1. /\ UNCHANGED <<nodes, deps, retries, finalized, sorted, runs>>
      /\ phase \in {"launching", "awaiting"}
    BY DEF Loop, DependencyDone, DependencyFailed, Launch, LaunchedAll, Await, Complete, dagVars, runVars
<1> SUFFICES ASSUME runs = 1 PROVE FirstRun'
    BY <1>1 DEF FirstRun
<1>2. TypeOK /\ 1 \in 1 .. MaxRuns
    BY GraphAssumption DEF IInv, Basics, TypeOK
<1>3. /\ sorted \in Seq(Node) /\ nodes \in Seq(Node) /\ pos \in 1 .. Len(sorted) + 1 /\ met \subseteq Node
      /\ status \in [Node -> Status] /\ deps \in [Node -> SUBSET Node]
      /\ job \in [1 .. MaxRuns -> [Node -> {"none", "created", "executing", "returned", "raised"}]]
    BY <1>2 DEF TypeOK
<1>4. Topological(sorted, nodes) /\ StatusIsJob /\ DepsWereDone /\ LaunchesInOrder /\ AwaitsAll
    BY <1>1 DEF IInv, FirstRun
<1>5. Topological(sorted, nodes)'
    BY <1>1, <1>4 DEF Topological
<1>6. ToSet(sorted) = ToSet(nodes)
    BY <1>4 DEF Topological
<1>7. CASE \E d \in Node : DependencyDone(d)
    <2>1. PICK d \in Node : DependencyDone(d)
        BY <1>7
    <2>2. /\ UNCHANGED <<status, phase, pos, job>> /\ phase = "launching"
          /\ met' = met \cup {d} /\ status[d] = "done"
        BY <2>1 DEF DependencyDone, dagVars
    <2>3. StatusIsJob' /\ DepsWereDone' /\ AwaitsAll' /\ RaisesForFailure'
        BY <1>1, <1>4, <2>2 DEF StatusIsJob, DepsWereDone, AwaitsAll, RaisesForFailure
    <2>4. LaunchesInOrder'
        BY <1>1, <1>4, <2>2 DEF LaunchesInOrder
    <2> QED BY <1>5, <2>2, <2>3, <2>4 DEF FirstRun
<1>8. CASE \E d \in Node : DependencyFailed(d)
    <2>1. PICK d \in Node : DependencyFailed(d)
        BY <1>8
    <2>2. PICK c : c = Candidate
        OBVIOUS
    <2>3. /\ phase = "launching" /\ pos <= Len(sorted) /\ phase' = "raised" /\ job' = job
          /\ status' = [status EXCEPT ![c] = "failed"]
        BY <2>1, <2>2 DEF DependencyFailed
    <2>4. c \in Node /\ c = sorted[pos] /\ c \in ToSet(nodes) /\ pos \in 1 .. Len(sorted)
        BY <1>2, <1>6, <2>2, <2>3, CandidateIs DEF Candidate
    <2>5. job[1][c] = "none"
        <3> SUFFICES ASSUME job[1][c] # "none" PROVE FALSE
            OBVIOUS
        <3>1. PICK i \in 1 .. pos - 1 : sorted[i] = c
            BY <1>4, <2>3, <2>4 DEF LaunchesInOrder
        <3>2. i \in 1 .. Len(sorted) /\ i # pos
            BY <2>4
        <3> QED BY <1>4, <2>4, <3>1, <3>2 DEF Topological, Distinct
    <2>6. status[c] = "pending"
        BY <1>4, <2>3, <2>4, <2>5 DEF StatusIsJob
    <2>7. status'[c] = "failed" /\ \A n \in Node : n # c => status'[n] = status[n]
        BY <1>3, <2>3, <2>4
    <2>8. StatusIsJob'
        BY <1>4, <2>3, <2>5, <2>7 DEF StatusIsJob
    <2>9. DepsWereDone'
        BY <1>1, <1>3, <1>4, <2>3, <2>6, <2>7 DEF DepsWereDone
    <2>10. LaunchesInOrder' /\ AwaitsAll'
        BY <2>3 DEF LaunchesInOrder, AwaitsAll
    <2>11. RaisesForFailure'
        BY <1>1, <2>3, <2>4, <2>5, <2>7 DEF RaisesForFailure
    <2> QED BY <1>5, <2>3, <2>8, <2>9, <2>10, <2>11 DEF FirstRun
<1>9. CASE Launch
    <2>1. PICK c : c = Candidate
        OBVIOUS
    <2>2. /\ phase = "launching" /\ pos <= Len(sorted) /\ pos' = pos + 1 /\ met' = {} /\ met = deps[c]
          /\ UNCHANGED <<status, phase>> /\ job' = [job EXCEPT ![1][c] = "created"]
        BY <1>9, <2>1 DEF Launch, AllMet, dagVars
    <2>3. c \in Node /\ c = sorted[pos] /\ pos \in 1 .. Len(sorted)
        BY <1>2, <2>1, <2>2, CandidateIs DEF Candidate
    <2>4. job[1][c] = "none"
        <3> SUFFICES ASSUME job[1][c] # "none" PROVE FALSE
            OBVIOUS
        <3>1. PICK i \in 1 .. pos - 1 : sorted[i] = c
            BY <1>4, <2>2, <2>3 DEF LaunchesInOrder
        <3>2. i \in 1 .. Len(sorted) /\ i # pos
            BY <2>3
        <3> QED BY <1>4, <2>3, <3>1, <3>2 DEF Topological, Distinct
    <2>5. job'[1][c] = "created" /\ \A n \in Node : n # c => job'[1][n] = job[1][n]
        BY <1>2, <1>3, <2>2, <2>3
    <2>6. StatusIsJob'
        BY <1>4, <2>2, <2>4, <2>5 DEF StatusIsJob
    <2>7. DepsWereDone'
        BY <1>1, <1>4, <2>2, <2>5 DEF DepsWereDone, LaunchesInOrder
    <2>8. LaunchesInOrder'
        <3> SUFFICES ASSUME NEW n \in Node, job'[1][n] # "none"
                     PROVE  \E i \in 1 .. pos' - 1 : sorted'[i] = n
            BY <2>2 DEF LaunchesInOrder
        <3>1. pos' - 1 = pos
            BY <2>2, <2>3
        <3>2. CASE n = c
            BY <1>1, <2>3, <3>1, <3>2
        <3>3. CASE n # c
            <4>1. PICK i \in 1 .. pos - 1 : sorted[i] = n
                BY <1>4, <2>2, <2>5, <3>3 DEF LaunchesInOrder
            <4>2. i \in 1 .. pos
                BY <2>3
            <4> QED BY <1>1, <3>1, <4>1, <4>2
        <3> QED BY <3>2, <3>3
    <2>9. AwaitsAll' /\ RaisesForFailure'
        BY <2>2 DEF AwaitsAll, RaisesForFailure
    <2> QED BY <1>5, <2>2, <2>6, <2>7, <2>8, <2>9 DEF FirstRun
<1>10. CASE LaunchedAll
    <2>1. phase = "launching" /\ phase' = "awaiting" /\ pos' = 1 /\ UNCHANGED <<status, job>>
        BY <1>10 DEF LaunchedAll, dagVars
    <2>2. StatusIsJob' /\ DepsWereDone' /\ LaunchesInOrder' /\ RaisesForFailure'
        BY <1>1, <1>4, <2>1 DEF StatusIsJob, DepsWereDone, LaunchesInOrder, RaisesForFailure
    <2>3. AwaitsAll'
        BY <2>1 DEF AwaitsAll
    <2> QED BY <1>5, <2>1, <2>2, <2>3 DEF FirstRun
<1>11. CASE Await
    <2>1. PICK c : c = Candidate
        OBVIOUS
    <2>2. /\ phase = "awaiting" /\ pos <= Len(sorted) /\ UNCHANGED <<status, job>>
          /\ \/ job[1][c] = "returned" /\ pos' = pos + 1 /\ phase' = phase
             \/ job[1][c] = "raised" /\ pos' = pos /\ phase' = "raised"
        BY <1>11, <2>1 DEF Await, dagVars
    <2>3. c \in Node /\ c = sorted[pos] /\ c \in ToSet(nodes) /\ pos \in 1 .. Len(sorted)
        BY <1>2, <1>6, <2>1, <2>2, CandidateIs DEF Candidate
    <2>4. StatusIsJob' /\ DepsWereDone' /\ LaunchesInOrder'
        BY <1>1, <1>4, <2>2 DEF StatusIsJob, DepsWereDone, LaunchesInOrder
    <2>5. AwaitsAll'
        <3> SUFFICES ASSUME phase' = "awaiting", NEW i \in 1 .. pos' - 1
                     PROVE  job'[1][sorted'[i]] = "returned"
            BY <2>2 DEF AwaitsAll
        <3>1. job[1][c] = "returned" /\ pos' = pos + 1
            BY <2>2
        <3>2. i = pos \/ i \in 1 .. pos - 1
            BY <2>3, <3>1
        <3> QED BY <1>1, <1>4, <2>2, <2>3, <3>1, <3>2 DEF AwaitsAll
    <2>6. RaisesForFailure'
        BY <1>1, <1>4, <2>2, <2>3 DEF RaisesForFailure, StatusIsJob
    <2> QED BY <1>5, <2>2, <2>4, <2>5, <2>6 DEF FirstRun
<1>12. CASE Complete
    <2>1. phase = "awaiting" /\ pos > Len(sorted) /\ phase' = "completed" /\ UNCHANGED <<status, job>>
        BY <1>12 DEF Complete, dagVars
    <2>2. StatusIsJob' /\ DepsWereDone' /\ LaunchesInOrder' /\ RaisesForFailure'
        BY <1>1, <1>4, <2>1 DEF StatusIsJob, DepsWereDone, LaunchesInOrder, RaisesForFailure
    <2>3. AwaitsAll'
        <3> SUFFICES ASSUME NEW n \in ToSet(nodes) PROVE job[1][n] = "returned"
            BY <1>1, <2>1 DEF AwaitsAll
        <3>1. n \in ToSet(sorted)
            BY <1>6
        <3>2. PICK i \in 1 .. Len(sorted) : sorted[i] = n
            BY <1>3, <3>1 DEF ToSet
        <3>3. i \in 1 .. pos - 1
            BY <1>3, <2>1
        <3> QED BY <1>4, <2>1, <3>2, <3>3 DEF AwaitsAll
    <2> QED BY <1>5, <2>1, <2>2, <2>3 DEF FirstRun
<1> QED BY <1>7, <1>8, <1>9, <1>10, <1>11, <1>12 DEF Loop

\* A task moves its own node, and never one that another task waited for.
LEMMA TaskKeepsFirst ==
    ASSUME IInv, NEW r \in 1 .. MaxRuns, NEW n \in Node, Task(r, n)
    PROVE  FirstRun'
<1>1. UNCHANGED <<nodes, deps, finalized, sorted, phase, runs, pos, met>> /\ job[r][n] # "none"
    BY DEF Task, Submit, Succeed, Retry, Fail, runVars
<1> SUFFICES ASSUME runs = 1 PROVE FirstRun'
    BY <1>1 DEF FirstRun
<1>2. Basics /\ r = 1
    BY <1>1, TaskHasRun DEF IInv
<1>3. /\ sorted \in Seq(Node) /\ nodes \in Seq(Node)
      /\ status \in [Node -> Status] /\ deps \in [Node -> SUBSET Node]
      /\ job \in [1 .. MaxRuns -> [Node -> {"none", "created", "executing", "returned", "raised"}]]
    BY <1>2 DEF Basics, TypeOK
<1>4. /\ phase # "idle" /\ (phase # "rejected" => Topological(sorted, nodes))
      /\ StatusIsJob /\ DepsWereDone /\ LaunchesInOrder /\ AwaitsAll /\ RaisesForFailure
    BY DEF IInv, FirstRun
<1>5. /\ status[n] \notin {"done", "failed"} /\ job[1][n] \in {"created", "executing"}
      /\ job'[1][n] # "none"
      /\ job'[1][n] = "executing" => status'[n] = "running"
      /\ job'[1][n] = "returned" => status'[n] = "done"
      /\ job'[1][n] = "raised" => status'[n] = "failed"
      /\ job'[1][n] # "created"
      /\ \A m \in Node : m # n => status'[m] = status[m] /\ job'[1][m] = job[1][m]
    <2>1. CASE Submit(r, n)
        BY <1>2, <1>3, <1>4, <2>1 DEF Submit, StatusIsJob
    <2>2. CASE Succeed(r, n)
        BY <1>2, <1>3, <1>4, <2>2 DEF Succeed, StatusIsJob
    <2>3. CASE Retry(r, n)
        BY <1>2, <1>3, <1>4, <2>3 DEF Retry, StatusIsJob, runVars
    <2>4. CASE Fail(r, n)
        BY <1>2, <1>3, <1>4, <2>4 DEF Fail, StatusIsJob
    <2> QED BY <2>1, <2>2, <2>3, <2>4 DEF Task
<1>6. \A m \in Node : status[m] \in {"done", "failed"} => status'[m] = status[m]
    BY <1>5
<1>7. \A m \in Node : job[1][m] \in {"none", "returned", "raised"} => job'[1][m] = job[1][m]
    BY <1>5
<1>8. ToSet(nodes) \subseteq Node /\ \A i \in 1 .. Len(sorted) : sorted[i] \in Node
    BY <1>3, ToSetIs
<1>9. Topological(sorted, nodes)' <=> Topological(sorted, nodes)
    BY <1>1 DEF Topological
<1>10. StatusIsJob'
    BY <1>1, <1>3, <1>4, <1>5 DEF StatusIsJob
<1>11. DepsWereDone'
    <2> SUFFICES ASSUME NEW m \in Node, job'[1][m] # "none", NEW d \in deps[m]
                 PROVE  status'[d] = "done"
        BY <1>1 DEF DepsWereDone
    <2>1. job[1][m] # "none" /\ d \in Node
        BY <1>3, <1>5
    <2> QED BY <1>4, <1>6, <2>1 DEF DepsWereDone
<1>12. LaunchesInOrder'
    <2>1. \A m \in Node : job'[1][m] # "none" => job[1][m] # "none"
        BY <1>5
    <2>2. \A d \in met : d \in Node
        BY <1>2 DEF Basics, TypeOK
    <2> QED BY <1>1, <1>4, <1>6, <2>1, <2>2 DEF LaunchesInOrder
<1>13. AwaitsAll'
    <2>1. \A i \in 1 .. pos - 1 : i \in 1 .. Len(sorted)
        BY <1>2, <1>3 DEF Basics, TypeOK
    <2> QED BY <1>1, <1>4, <1>7, <1>8, <2>1 DEF AwaitsAll
<1>14. RaisesForFailure'
    BY <1>1, <1>4, <1>6, <1>7, <1>8 DEF RaisesForFailure
<1> QED BY <1>1, <1>4, <1>9, <1>10, <1>11, <1>12, <1>13, <1>14 DEF FirstRun

\* The invariant is inductive.
LEMMA StepKeeps == ASSUME IInv, [Next]_vars PROVE IInv'
<1>1. Basics /\ FirstRun
    BY DEF IInv
<1>2. CASE Run
    BY <1>1, <1>2, RunKeepsBasics, RunKeepsFirst DEF IInv
<1>3. CASE Loop
    BY <1>1, <1>3, LoopKeepsBasics, LoopKeepsFirst DEF IInv
<1>4. ASSUME NEW r \in 1 .. MaxRuns, NEW n \in Node, Task(r, n) PROVE IInv'
    BY <1>1, <1>4, TaskKeepsBasics, TaskKeepsFirst DEF IInv
<1>5. CASE UNCHANGED vars
    <2>1. Basics'
        BY <1>1, <1>5 DEF Basics, TypeOK, vars, dagVars, runVars
    <2>2. FirstRun'
        BY <1>1, <1>5 DEF FirstRun, Topological, StatusIsJob, DepsWereDone, LaunchesInOrder,
                          AwaitsAll, RaisesForFailure, vars, dagVars, runVars
    <2> QED BY <2>1, <2>2 DEF IInv
<1> QED BY <1>2, <1>3, <1>4, <1>5 DEF Next

\* The invariant holds in every state.
LEMMA InvAlways == Spec => []IInv
<1>1. Init => IInv
    BY InvInit
<1>2. IInv /\ [Next]_vars => IInv'
    BY StepKeeps
<1> QED BY <1>1, <1>2, PTL DEF Spec
-----------------------------------------------------------------------------
(* The theorems *)

\* The statuses, retries, positions and tasks are what execution_graph.py:20-37 and
\* 126-173 say, whatever graph is run and however often.
THEOREM TypeCorrect == Spec => []TypeOK
<1>1. IInv => TypeOK
    BY InvImplies
<1> QED BY <1>1, InvAlways, PTL

\* The first _toposort (execution_graph.py:104-121) lists every node once and after its
\* dependencies, for every graph without a cycle and every order of insertion.
THEOREM OrderIsRight == Spec => []OrderIsTopological
<1>1. IInv => OrderIsTopological
    BY InvImplies
<1> QED BY <1>1, InvAlways, PTL

\* In a first run no node is submitted before all it depends on is done, and none of
\* those is taken back (execution_graph.py:136-143).
THEOREM DependenciesAreDone == Spec => []DependenciesDone
<1>1. IInv => DependenciesDone
    BY InvImplies
<1> QED BY <1>1, InvAlways, PTL

\* A first run that returns left all nodes done, and one that raised left a failed one
\* (execution_graph.py:139-173).
THEOREM OutcomeTrue == Spec => []OutcomeIsTrue
<1>1. IInv => OutcomeIsTrue
    BY InvImplies
<1> QED BY <1>1, InvAlways, PTL
=============================================================================
