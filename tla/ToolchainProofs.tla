-------------------------- MODULE ToolchainProofs --------------------------
(***************************************************************************)
(* Proofs about Toolchain, for any sources: where both parsers put the     *)
(* statements, what a program that is Compilable means, line by line, and  *)
(* that the interpreter does that.  CompilerProofs goes on with the        *)
(* compiler.                                                               *)
(*                                                                         *)
(* As in ExecutionGraphProofs, induction is over sets of numbers.          *)
(***************************************************************************)
EXTENDS Toolchain, TLAPS, WellFoundedInduction, FiniteSetTheorems

(* Induction and recursion over numbers *)

Less == {p \in Nat \X Nat : p[1] < p[2]}

\* A set of numbers that holds 0 and with a number the next holds them all.
LEMMA Induction ==
    ASSUME NEW T, 0 \in T, \A i \in Nat : i \in T => i + 1 \in T
    PROVE  \A i \in Nat : i \in T
<1> DEFINE Rest == Nat \ T
<1> SUFFICES ASSUME Rest # {} PROVE FALSE
    OBVIOUS
<1>1. IsWellFoundedOn(Less, Nat)
    BY NatLessThanWellFounded DEF OpToRel, Less
<1>2. PICK i \in Rest : \A j \in Rest : <<j, i>> \notin Less
    BY <1>1, WFMin
<1>3. i \in Nat /\ i # 0
    OBVIOUS
<1>4. i - 1 \in Nat /\ (i - 1) + 1 = i /\ <<i - 1, i>> \in Less
    BY <1>3 DEF Less
<1> QED BY <1>2, <1>4

\* The same, up to n.
LEMMA InductionUpTo ==
    ASSUME NEW n \in Nat, NEW T, 0 \in T, \A i \in 1 .. n : i - 1 \in T => i \in T
    PROVE  \A i \in 0 .. n : i \in T
<1> DEFINE U == {i \in Nat : i <= n => i \in T}
<1>1. 0 \in U
    OBVIOUS
<1>2. ASSUME NEW i \in Nat, i \in U PROVE i + 1 \in U
    <2>1. CASE i + 1 <= n
        <3>1. i + 1 \in 1 .. n /\ (i + 1) - 1 = i /\ i <= n
            BY <2>1
        <3> QED BY <1>2, <3>1
    <2>2. CASE ~(i + 1 <= n)
        BY <2>2
    <2> QED BY <2>1, <2>2
<1> HIDE DEF U
<1>3. \A i \in Nat : i \in U
    BY <1>1, <1>2, Induction
<1> QED BY <1>3 DEF U

\* Some function starts with first and goes on as next says, with values in S.
HasSolution(S, first, n, next) ==
    \E f \in [0 .. n -> S] : /\ f[0] = first
                             /\ \A i \in 1 .. n : f[i] = next[<<f[i - 1], i>>]

\* A recursion that starts and stays in S defines a function.
LEMMA Recursion ==
    ASSUME NEW S, NEW first \in S, NEW n \in Nat, NEW next \in [S \X (1 .. n) -> S]
    PROVE  HasSolution(S, first, n, next)
<1> DEFINE Defines(f, k) ==
               f = [i \in 0 .. k |-> IF i = 0 THEN first ELSE next[<<f[i - 1], i>>]]
           T == {k \in 0 .. n : \E f \in [0 .. k -> S] : Defines(f, k)}
<1>1. 0 \in T
    <2>1. PICK f : f = [i \in 0 .. 0 |-> first]
        OBVIOUS
    <2>2. f \in [0 .. 0 -> S] /\ Defines(f, 0)
        BY <2>1
    <2> QED BY <2>2
<1>2. ASSUME NEW k \in 1 .. n, k - 1 \in T PROVE k \in T
    <2>1. PICK f \in [0 .. k - 1 -> S] : Defines(f, k - 1)
        BY <1>2
    <2>2. k - 1 \in 0 .. k - 1 /\ f[k - 1] \in S
        OBVIOUS
    <2>3. next[<<f[k - 1], k>>] \in S
        BY <2>2
    <2>4. PICK g : g = [i \in 0 .. k |-> IF i = k THEN next[<<f[k - 1], k>>] ELSE f[i]]
        OBVIOUS
    <2>5. g \in [0 .. k -> S]
        BY <2>3, <2>4
    <2>6. \A i \in 0 .. k - 1 : g[i] = f[i]
        BY <2>4
    <2>7. ASSUME NEW i \in 0 .. k
          PROVE  g[i] = IF i = 0 THEN first ELSE next[<<g[i - 1], i>>]
        <3>1. CASE i = k
            <4>1. k # 0 /\ k \in 0 .. k
                OBVIOUS
            <4>2. g[k] = next[<<f[k - 1], k>>]
                BY <2>4, <4>1
            <4>3. g[k - 1] = f[k - 1]
                BY <2>2, <2>6
            <4> QED BY <3>1, <4>1, <4>2, <4>3
        <3>2. CASE i # k /\ i = 0
            <4>1. 0 \in 0 .. k - 1
                OBVIOUS
            <4>2. f[0] = first
                BY <2>1, <4>1
            <4> QED BY <2>6, <3>2, <4>1, <4>2
        <3>3. CASE i # k /\ i # 0
            <4>1. i \in 0 .. k - 1 /\ i - 1 \in 0 .. k - 1
                BY <3>3
            <4>2. f[i] = next[<<f[i - 1], i>>]
                BY <2>1, <3>3, <4>1
            <4> QED BY <2>6, <3>3, <4>1, <4>2
        <3> QED BY <3>1, <3>2, <3>3
    <2>8. Defines(g, k)
        BY <2>4, <2>7
    <2> HIDE DEF Defines
    <2>9. k \in 0 .. n
        OBVIOUS
    <2> QED BY <2>5, <2>8, <2>9
<1> HIDE DEF T
<1>3. \A k \in 0 .. n : k \in T
    BY <1>1, <1>2, InductionUpTo
<1>4. n \in T
    BY <1>3
<1>5. PICK f \in [0 .. n -> S] : Defines(f, n)
    BY <1>4 DEF T
<1>6. f[0] = first /\ \A i \in 1 .. n : f[i] = next[<<f[i - 1], i>>]
    <2>1. 0 \in 0 .. n /\ \A i \in 1 .. n : i \in 0 .. n /\ i # 0
        OBVIOUS
    <2> QED BY <1>5, <2>1
<1> QED BY <1>5, <1>6 DEF HasSolution

\* A bounded set of numbers has a greatest one.
LEMMA MaxIs ==
    ASSUME NEW n \in Nat, NEW S \in SUBSET (0 .. n), S # {}
    PROVE  Max(S) \in S /\ \A y \in S : y <= Max(S)
<1>1. PICK R : R = {k \in Nat : n - k \in S}
    OBVIOUS
<1>2. R # {} /\ R \subseteq Nat
    <2>1. PICK x \in S : TRUE
        OBVIOUS
    <2>2. n - x \in Nat /\ n - (n - x) = x
        BY <2>1
    <2> QED BY <1>1, <2>1, <2>2
<1>3. IsWellFoundedOn(Less, Nat)
    BY NatLessThanWellFounded DEF OpToRel, Less
<1>4. PICK k \in R : \A j \in R : <<j, k>> \notin Less
    BY <1>2, <1>3, WFMin
<1>5. k \in Nat /\ n - k \in S
    BY <1>1
<1>6. \A y \in S : y <= n - k
    <2> SUFFICES ASSUME NEW y \in S, y > n - k PROVE FALSE
        BY <1>5
    <2>1. n - y \in Nat /\ n - (n - y) = y /\ n - y < k
        BY <1>5
    <2>2. n - y \in R /\ <<n - y, k>> \in Less
        BY <1>1, <1>5, <2>1 DEF Less
    <2> QED BY <1>4, <2>2
<1>7. \E x \in S : \A y \in S : x >= y
    BY <1>5, <1>6
<1> QED BY <1>7 DEF Max

\* A set of numbers has a least one.
LEMMA MinIs ==
    ASSUME NEW S \in SUBSET Nat, S # {}
    PROVE  Min(S) \in S /\ \A y \in S : Min(S) <= y
<1>1. IsWellFoundedOn(Less, Nat)
    BY NatLessThanWellFounded DEF OpToRel, Less
<1>2. PICK k \in S : \A j \in S : <<j, k>> \notin Less
    BY <1>1, WFMin
<1>3. ASSUME NEW y \in S PROVE k <= y
    <2>1. <<y, k>> \notin Less /\ k \in Nat /\ y \in Nat
        BY <1>2
    <2>2. ~(y < k)
        BY <2>1 DEF Less
    <2> QED BY <2>1, <2>2
<1>4. \E x \in S : \A y \in S : x <= y
    BY <1>2, <1>3
<1> QED BY <1>4 DEF Min
-----------------------------------------------------------------------------
(* Sources *)

\* A line as it is read: what "it" means may have no value.
TextLine ==
    [indent : Nat, kind : Kind, colon : BOOLEAN, var : STRING, op : Operation,
     left : SourceOperand \cup {Undef}, right : SourceOperand]

Place == Nat \X {"nowhere", "program", "body", "else"}
StackEntry == [indent : Int, block : Nat \X {"body", "else"}]

\* The types of what both parsers share; lines that were not read have no place.
SourceTyped ==
    /\ lines \in Seq(TextLine)
    /\ pos \in 0 .. Len(lines)
    /\ place \in [1 .. Len(lines) -> Place]
    /\ \A i \in pos + 1 .. Len(lines) : place[i] = Nowhere
    /\ stack \in Seq(StackEntry)
    /\ failed \in BOOLEAN

\* The tokenizer keeps lines what they are, and changes their kinds only.
LEMMA TokenizeIs ==
    ASSUME NEW W \in SUBSET SourceLine,
           \A w \in W, k \in Kind : [w EXCEPT !.kind = k] \in W,
           NEW text \in Seq(W)
    PROVE  Tokenize(text) \in Seq(W)
<1> DEFINE n == Len(text)
           word(i) == [text[i] EXCEPT !.kind = Keyword(@)]
           step(list, i) == IF text[i].kind \in Noise THEN list ELSE Append(list, word(i))
           next == [p \in Seq(W) \X (1 .. n) |-> step(p[1], p[2])]
           Defines(f) == f = [i \in 0 .. n |->
               IF i = 0 THEN <<>>
               ELSE IF text[i].kind \in Noise THEN f[i - 1]
               ELSE Append(f[i - 1], [text[i] EXCEPT !.kind = Keyword(@)])]
<1>1. n \in Nat
    OBVIOUS
<1>2. ASSUME NEW i \in 1 .. n PROVE word(i) \in W
    <2>1. text[i] \in W /\ text[i] \in SourceLine
        BY <1>2
    <2>2. Keyword(text[i].kind) \in Kind
        <3>1. PICK k \in Kind : k = text[i].kind
            BY <2>1 DEF SourceLine
        <3>2. CASE k \in {"make", "say", "loop", "request"}
            <4>1. /\ Synonyms.make = "set" /\ Synonyms.say = "output"
                  /\ Synonyms.loop = "repeat" /\ Synonyms.request = "teach"
                BY DEF Synonyms
            <4>2. Keyword(k) \in {"set", "output", "repeat", "teach"}
                BY <3>2, <4>1 DEF Keyword, Synonyms
            <4> QED BY <3>1, <4>2 DEF Kind
        <3>3. CASE k \notin {"make", "say", "loop", "request"}
            BY <3>1, <3>3 DEF Keyword, Synonyms
        <3> QED BY <3>2, <3>3
    <2> QED BY <2>1, <2>2
<1>3. ASSUME NEW list \in Seq(W), NEW i \in 1 .. n
      PROVE  step(list, i) \in Seq(W) /\ next[<<list, i>>] = step(list, i)
    <2>1. PICK w \in W : w = word(i)
        BY <1>2
    <2>2. Append(list, w) \in Seq(W)
        OBVIOUS
    <2> QED BY <2>1, <2>2
<1>4. next \in [Seq(W) \X (1 .. n) -> Seq(W)]
    BY <1>3
<1> HIDE DEF next, n
<1>5. PICK g \in [0 .. n -> Seq(W)] :
          g[0] = <<>> /\ \A i \in 1 .. n : g[i] = next[<<g[i - 1], i>>]
    <2>1. <<>> \in Seq(W)
        OBVIOUS
    <2>2. HasSolution(Seq(W), <<>>, n, next)
        BY <1>1, <1>4, <2>1, Recursion
    <2> QED BY <2>2 DEF HasSolution
<1>6. Defines(g)
    <2>1. ASSUME NEW i \in 1 .. n PROVE g[i] = step(g[i - 1], i)
        <3>1. i - 1 \in 0 .. n
            BY <1>1
        <3>2. g[i - 1] \in Seq(W)
            BY <3>1
        <3> QED BY <1>3, <1>5, <3>2
    <2>2. \A i \in 0 .. n : i = 0 \/ i \in 1 .. n
        BY <1>1
    <2> QED BY <1>5, <2>1, <2>2
<1>7. PICK f : f = CHOOSE h : Defines(h)
    OBVIOUS
<1>8. Defines(f)
    BY <1>6, <1>7
<1>9. Tokenize(text) = f[n]
    BY <1>7 DEF Tokenize, n
<1> DEFINE T == {i \in 0 .. n : f[i] \in Seq(W)}
<1>10. 0 \in T
    <2>1. 0 \in 0 .. n /\ <<>> \in Seq(W)
        BY <1>1
    <2> QED BY <1>8, <2>1
<1>11. ASSUME NEW i \in 1 .. n, i - 1 \in T PROVE i \in T
    <2>1. i \in 0 .. n /\ i # 0
        BY <1>1
    <2>2. f[i - 1] \in Seq(W)
        BY <1>11
    <2>3. f[i] = step(f[i - 1], i)
        BY <1>8, <2>1
    <2>4. step(f[i - 1], i) \in Seq(W)
        BY <1>3, <2>2
    <2> QED BY <2>1, <2>3, <2>4
<1> HIDE DEF T
<1>12. \A i \in 0 .. n : i \in T
    BY <1>1, <1>10, <1>11, InductionUpTo
<1>13. f[n] \in Seq(W)
    BY <1>1, <1>12 DEF T
<1> QED BY <1>9, <1>13
-----------------------------------------------------------------------------
(* Open blocks and what a line is under *)

\* A stack lists a set of open blocks over its outermost entry, by indentation.
Lists(entries, open) ==
    /\ \A k \in 2 .. Len(entries) : entries[k] \in open
    /\ \A e \in open : \E k \in 2 .. Len(entries) : entries[k] = e
    /\ \A k, l \in 2 .. Len(entries) : k < l => entries[k].indent < entries[l].indent

Shallower(open, bound) == {e \in open : e.indent < bound}

\* A stack that was cut where its entries get too deep lists the others.
LEMMA CutLists ==
    ASSUME NEW entries \in Seq(StackEntry), NEW open, Lists(entries, open),
           NEW bound \in Int, NEW m \in 1 .. Len(entries),
           \A k \in 2 .. Len(entries) : k <= m <=> entries[k].indent < bound
    PROVE  /\ SubSeq(entries, 1, m) \in Seq(StackEntry)
           /\ Len(SubSeq(entries, 1, m)) = m
           /\ SubSeq(entries, 1, m)[1] = entries[1]
           /\ Lists(SubSeq(entries, 1, m), Shallower(open, bound))
<1>1. PICK cut : cut = SubSeq(entries, 1, m)
    OBVIOUS
<1>2. cut \in Seq(StackEntry) /\ Len(cut) = m /\ \A k \in 1 .. m : cut[k] = entries[k]
    BY <1>1
<1>3. \A k \in 2 .. m : k \in 2 .. Len(entries) /\ cut[k] = entries[k]
    BY <1>2
<1>4. \A k \in 2 .. m : cut[k] \in Shallower(open, bound)
    BY <1>3 DEF Lists, Shallower
<1>5. ASSUME NEW e \in Shallower(open, bound) PROVE \E k \in 2 .. m : cut[k] = e
    <2>1. PICK k \in 2 .. Len(entries) : entries[k] = e
        BY DEF Lists, Shallower
    <2>2. k <= m
        BY <2>1 DEF Shallower
    <2> QED BY <1>3, <2>1, <2>2
<1>6. \A k, l \in 2 .. m : k < l => cut[k].indent < cut[l].indent
    BY <1>3 DEF Lists
<1> QED BY <1>1, <1>2, <1>4, <1>5, <1>6 DEF Lists

\* A block that is further in than the others goes on top.
LEMMA AppendLists ==
    ASSUME NEW entries \in Seq(StackEntry), entries # <<>>, NEW open, Lists(entries, open),
           NEW new \in StackEntry, \A e \in open : e.indent < new.indent
    PROVE  /\ Append(entries, new) \in Seq(StackEntry)
           /\ Append(entries, new) # <<>>
           /\ Append(entries, new)[1] = entries[1]
           /\ Lists(Append(entries, new), open \cup {new})
<1>1. PICK more : more = Append(entries, new)
    OBVIOUS
<1>2. PICK n \in Nat : n = Len(entries)
    OBVIOUS
<1>3. /\ more \in Seq(StackEntry) /\ Len(more) = n + 1 /\ more[n + 1] = new
      /\ \A k \in 1 .. n : more[k] = entries[k]
    BY <1>1, <1>2
<1>4. n >= 1
    BY <1>2
<1>5. \A k \in 2 .. n + 1 : k = n + 1 \/ (k \in 2 .. n /\ k \in 1 .. n)
    OBVIOUS
<1>6. \A k \in 2 .. n : entries[k] \in open
    BY <1>2 DEF Lists
<1>7. \A k \in 2 .. n + 1 : more[k] \in open \cup {new}
    BY <1>3, <1>5, <1>6
<1>8. ASSUME NEW e \in open \cup {new} PROVE \E k \in 2 .. n + 1 : more[k] = e
    <2>1. CASE e = new
        <3>1. n + 1 \in 2 .. n + 1
            BY <1>4
        <3> QED BY <1>3, <2>1, <3>1
    <2>2. CASE e \in open
        <3>1. PICK k \in 2 .. n : entries[k] = e
            BY <1>2, <2>2 DEF Lists
        <3>2. k \in 2 .. n + 1 /\ k \in 1 .. n
            OBVIOUS
        <3> QED BY <1>3, <3>1, <3>2
    <2> QED BY <2>1, <2>2
<1>9. ASSUME NEW k \in 2 .. n + 1, NEW l \in 2 .. n + 1, k < l
      PROVE  more[k].indent < more[l].indent
    <2>1. k \in 2 .. n /\ k \in 1 .. n
        BY <1>5, <1>9
    <2>2. CASE l = n + 1
        BY <1>3, <1>6, <2>1, <2>2
    <2>3. CASE l \in 2 .. n /\ l \in 1 .. n
        BY <1>2, <1>3, <1>9, <2>1, <2>3 DEF Lists
    <2> QED BY <1>5, <2>2, <2>3
<1>10. more # <<>> /\ more[1] = entries[1]
    BY <1>3, <1>4
<1> QED BY <1>1, <1>3, <1>7, <1>8, <1>9, <1>10 DEF Lists

\* The top of the stack is its outermost entry, or the deepest of those it lists.
LEMMA TopOf ==
    ASSUME NEW entries \in Seq(StackEntry), entries # <<>>, NEW open, Lists(entries, open)
    PROVE  /\ Last(entries) \in StackEntry
           /\ open = {} => Last(entries) = entries[1]
           /\ open # {} => /\ Last(entries) \in open
                           /\ \A e \in open : e.indent <= Last(entries).indent
<1>1. PICK n \in Nat : n = Len(entries) /\ n >= 1
    OBVIOUS
<1>2. Last(entries) = entries[n] /\ entries[n] \in StackEntry
    BY <1>1 DEF Last
<1>3. CASE open = {}
    <2>1. n = 1
        BY <1>1, <1>3 DEF Lists
    <2> QED BY <1>2, <1>3, <2>1
<1>4. CASE open # {}
    <2>1. PICK e \in open : TRUE
        BY <1>4
    <2>2. PICK k \in 2 .. n : entries[k] = e
        BY <1>1, <2>1 DEF Lists
    <2>3. n \in 2 .. n
        BY <2>2
    <2>4. entries[n] \in open
        BY <1>1, <2>3 DEF Lists
    <2>5. ASSUME NEW d \in open PROVE d.indent <= entries[n].indent
        <3>1. PICK l \in 2 .. n : entries[l] = d
            BY <1>1 DEF Lists
        <3>2. CASE l = n
            BY <1>2, <3>1, <3>2 DEF StackEntry
        <3>3. CASE l < n
            <4>1. entries[l].indent < entries[n].indent
                BY <1>1, <2>3, <3>3 DEF Lists
            <4>2. entries[l] \in StackEntry
                BY <1>1
            <4> QED BY <1>2, <3>1, <4>1, <4>2 DEF StackEntry
        <3> QED BY <3>2, <3>3
    <2> QED BY <1>2, <1>4, <2>4, <2>5
<1> QED BY <1>3, <1>4

\* The lines up to p that no later one is as far out as, of those in S.
OpenAt(p, S) == {j \in S \cap (1 .. p) : \A k \in j + 1 .. p : lines[j].indent < lines[k].indent}

\* Those of them that line i is under.
Over(i, open) == {j \in open : lines[j].indent < lines[i].indent}

Greatest(S) == {j \in S : \A k \in S : k <= j}

\* Innermost, for a set of lines.
Nearest(i, S) ==
    {j \in S \cap (1 .. i) : /\ Encloses(j, i)
                             /\ \A k \in j + 1 .. i : ~(Encloses(k, i) /\ k \in S)}

\* Lines have an indentation.
LEMMA LineTyped ==
    ASSUME SourceTyped, NEW i \in 1 .. Len(lines)
    PROVE  lines[i] \in TextLine /\ lines[i].indent \in Nat
<1>1. lines \in Seq(TextLine)
    BY DEF SourceTyped
<1>2. lines[i] \in TextLine
    BY <1>1
<1> QED BY <1>2 DEF TextLine

\* The nearest line over the next one is the last of the open lines it is under.
LEMMA NearestIs ==
    ASSUME SourceTyped, NEW S, NEW i \in 1 .. Len(lines)
    PROVE  Nearest(i, S) = Greatest(Over(i, OpenAt(i - 1, S)))
<1>1. i \in Nat /\ \A j \in Int : j \in 1 .. i /\ j < i <=> j \in 1 .. i - 1
    BY DEF SourceTyped
<1>2. \A j \in 1 .. i : j \in Int
    OBVIOUS
<1>3. ASSUME NEW j \in S PROVE j \in 1 .. i /\ Encloses(j, i) <=> j \in Over(i, OpenAt(i - 1, S))
    BY <1>1, <1>2 DEF Over, OpenAt, Encloses
<1>4. ASSUME NEW j \in Nearest(i, S) PROVE j \in Greatest(Over(i, OpenAt(i - 1, S)))
    <2>1. j \in Over(i, OpenAt(i - 1, S)) /\ j \in Int
        BY <1>3 DEF Nearest
    <2>2. ASSUME NEW k \in Over(i, OpenAt(i - 1, S)), k > j PROVE FALSE
        <3>1. k \in S /\ k \in 1 .. i
            BY <1>1 DEF Over, OpenAt
        <3>2. Encloses(k, i)
            BY <1>3, <3>1
        <3>3. k \in j + 1 .. i
            BY <2>1, <2>2, <3>1
        <3> QED BY <3>1, <3>2, <3>3 DEF Nearest
    <2>3. \A k \in Over(i, OpenAt(i - 1, S)) : k \in Int
        BY DEF Over, OpenAt
    <2> QED BY <2>1, <2>2, <2>3 DEF Greatest
<1>5. ASSUME NEW j \in Greatest(Over(i, OpenAt(i - 1, S))) PROVE j \in Nearest(i, S)
    <2>1. j \in S /\ j \in 1 .. i /\ Encloses(j, i)
        <3>1. j \in S /\ j \in Over(i, OpenAt(i - 1, S))
            BY DEF Greatest, Over, OpenAt
        <3> QED BY <1>3, <3>1
    <2>2. ASSUME NEW k \in j + 1 .. i, Encloses(k, i), k \in S PROVE FALSE
        <3>1. k \in 1 .. i
            BY <2>1
        <3>2. k \in Over(i, OpenAt(i - 1, S))
            BY <1>3, <2>2, <3>1
        <3>3. k <= j
            BY <3>2 DEF Greatest
        <3> QED BY <2>1, <3>1, <3>3
    <2> QED BY <2>1, <2>2 DEF Nearest
<1> QED BY <1>4, <1>5

\* A line closes those that it is not under, and may be open itself.
LEMMA OpensNext ==
    ASSUME SourceTyped, NEW S, NEW i \in 1 .. Len(lines)
    PROVE  OpenAt(i, S) = Over(i, OpenAt(i - 1, S)) \cup (S \cap {i})
<1>1. i \in Nat
    BY DEF SourceTyped
<1>2. ASSUME NEW j \in OpenAt(i, S), j # i PROVE j \in Over(i, OpenAt(i - 1, S))
    <2>1. j \in 1 .. i - 1 /\ i \in j + 1 .. i
        BY <1>1, <1>2 DEF OpenAt
    <2>2. \A k \in j + 1 .. i - 1 : k \in j + 1 .. i
        BY <1>1
    <2> QED BY <2>1, <2>2 DEF OpenAt, Over
<1>3. ASSUME NEW j \in Over(i, OpenAt(i - 1, S)) PROVE j \in OpenAt(i, S)
    <2>1. j \in 1 .. i - 1 /\ j \in 1 .. i /\ j \in S
        BY <1>1 DEF OpenAt, Over
    <2>2. \A k \in j + 1 .. i : k = i \/ k \in j + 1 .. i - 1
        BY <1>1, <2>1
    <2> QED BY <2>1, <2>2 DEF OpenAt, Over
<1>4. ASSUME i \in S PROVE i \in OpenAt(i, S)
    <2>1. i \in 1 .. i /\ ~\E k \in i + 1 .. i : TRUE
        BY <1>1
    <2> QED BY <1>4, <2>1 DEF OpenAt
<1>5. \A j \in OpenAt(i, S) : j \in S
    BY DEF OpenAt
<1> QED BY <1>2, <1>3, <1>4, <1>5

\* Open lines are further in the later they come.
LEMMA OpenDeepens ==
    ASSUME SourceTyped, NEW S, NEW p \in 0 .. Len(lines),
           NEW j \in OpenAt(p, S), NEW k \in OpenAt(p, S), j < k
    PROVE  lines[j].indent < lines[k].indent
<1>1. k \in j + 1 .. p
    BY DEF OpenAt
<1> QED BY <1>1 DEF OpenAt

\* Nothing that is not so far in is above the one furthest in.
LEMMA DeepestIsGreatest ==
    ASSUME SourceTyped, NEW S, NEW p \in 0 .. Len(lines), NEW i,
           NEW j \in Over(i, OpenAt(p, S)),
           \A k \in Over(i, OpenAt(p, S)) : lines[k].indent <= lines[j].indent
    PROVE  Greatest(Over(i, OpenAt(p, S))) = {j}
<1>1. j \in OpenAt(p, S) /\ j \in Nat
    BY DEF Over, OpenAt
<1>2. ASSUME NEW k \in Over(i, OpenAt(p, S)) PROVE k <= j
    <2>1. k \in OpenAt(p, S) /\ k \in Nat /\ k \in 1 .. Len(lines) /\ j \in 1 .. Len(lines)
        BY DEF Over, OpenAt, SourceTyped
    <2>2. lines[k].indent \in Nat /\ lines[j].indent \in Nat
        BY <2>1, LineTyped
    <2>3. CASE j < k
        <3>1. lines[j].indent < lines[k].indent
            BY <1>1, <2>1, <2>3, OpenDeepens
        <3> QED BY <2>2, <3>1
    <2> QED BY <1>1, <2>1, <2>3
<1>3. \A k \in Greatest(Over(i, OpenAt(p, S))) : k = j
    <2>1. \A k \in Greatest(Over(i, OpenAt(p, S))) : k \in Nat /\ k <= j /\ j <= k
        BY <1>2 DEF Greatest, Over, OpenAt
    <2> QED BY <1>1, <2>1
<1> QED BY <1>2, <1>3 DEF Greatest
-----------------------------------------------------------------------------
(* The strict parser *)

ReadsIn == {j \in 1 .. Len(lines) : Reads(j)}

Begun(i) == {j \in 1 .. i : lines[j].kind \in {"start", "teach"} /\ place[j] = Program}

ReadEntry(j) == Entry(lines[j].indent, Body(j))
ReadEntries(heads) == {ReadEntry(j) : j \in heads}

\* The stack holds the last trigger, and over it the lines that are read on with.
StrictStack ==
    IF stack = <<>> THEN OpenAt(pos, ReadsIn) = {}
    ELSE /\ Begun(pos) # {}
         /\ stack[1] = Entry(0, Body(Max(Begun(pos))))
         /\ Lists(stack, ReadEntries(OpenAt(pos, ReadsIn)))

StrictInv == SourceTyped /\ StrictNesting /\ StrictStack

\* The block a statement belongs to, by the lines before it.
Belongs(b) ==
    LET heads == Greatest(Over(Here, OpenAt(pos, ReadsIn)))
    IN  /\ heads = {} => b = Body(Max(Begun(pos)))
        /\ \A j \in heads : b = Body(j)

\* What the parser calls are left with, when the line is indented.
LEMMA ReadingIs ==
    ASSUME StrictInv, stack # <<>>, Here \in 1 .. Len(lines)
    PROVE  LET left == Reading(stack)
           IN  /\ left \in Seq(StackEntry) /\ left # <<>> /\ left[1] = stack[1]
               /\ Lists(left, ReadEntries(Over(Here, OpenAt(pos, ReadsIn))))
               /\ Last(left).block \in Nat \X {"body", "else"}
               /\ Belongs(Last(left).block)
<1> DEFINE open == OpenAt(pos, ReadsIn)
           above == Over(Here, open)
           outer == {k \in 2 .. Len(stack) : Line.indent <= stack[k].indent}
           m == IF outer = {} THEN Len(stack) ELSE Min(outer) - 1
<1>1. /\ stack \in Seq(StackEntry) /\ Line.indent \in Nat /\ SourceTyped
      /\ Lists(stack, ReadEntries(open)) /\ stack[1] = Entry(0, Body(Max(Begun(pos))))
    BY LineTyped DEF StrictInv, StrictStack, SourceTyped, Line
<1>2. PICK n \in Nat : n = Len(stack) /\ n >= 1
    BY <1>1
<1>3. ASSUME NEW k \in 2 .. n PROVE stack[k].indent \in Int
    <2>1. stack[k] \in StackEntry
        BY <1>1, <1>2
    <2> QED BY <2>1 DEF StackEntry
<1>4. m \in 1 .. n /\ \A k \in 2 .. n : k <= m <=> stack[k].indent < Line.indent
    <2>1. CASE outer = {}
        <3>1. \A k \in 2 .. n : stack[k].indent < Line.indent
            BY <1>1, <1>2, <1>3, <2>1
        <3> QED BY <1>2, <2>1, <3>1
    <2>2. CASE outer # {}
        <3>1. outer \in SUBSET Nat
            OBVIOUS
        <3>2. PICK x : x = Min(outer)
            OBVIOUS
        <3>3. x \in outer /\ \A y \in outer : x <= y
            BY <2>2, <3>1, <3>2, MinIs
        <3>4. m = x - 1 /\ x \in 2 .. n /\ Line.indent <= stack[x].indent
            BY <1>2, <2>2, <3>2, <3>3
        <3>5. ASSUME NEW k \in 2 .. n, k < x PROVE stack[k].indent < Line.indent
            <4>1. k \notin outer
                BY <3>3, <3>4, <3>5
            <4> QED BY <1>1, <1>2, <1>3, <4>1
        <3>6. ASSUME NEW k \in 2 .. n, k >= x PROVE ~(stack[k].indent < Line.indent)
            <4>1. k = x \/ stack[x].indent < stack[k].indent
                BY <1>1, <1>2, <3>4, <3>6 DEF Lists
            <4> QED BY <1>1, <1>3, <3>4, <4>1, SMTT(20)
        <3> HIDE DEF m, outer
        <3> QED BY <3>4, <3>5, <3>6
    <2> QED BY <2>1, <2>2
<1>5. Reading(stack) = SubSeq(stack, 1, m)
    BY DEF Reading
<1> HIDE DEF m, outer
<1>6. Shallower(ReadEntries(open), Line.indent) = ReadEntries(above)
    BY DEF Shallower, ReadEntries, ReadEntry, Entry, Over, Line
<1>7. PICK left : left = Reading(stack)
    OBVIOUS
<1>8. /\ left \in Seq(StackEntry) /\ Len(left) = m /\ left[1] = stack[1]
      /\ Lists(left, ReadEntries(above))
    BY <1>1, <1>2, <1>4, <1>5, <1>6, <1>7, CutLists
<1>9. left # <<>>
    BY <1>4, <1>8
<1>10. Last(left) \in StackEntry
    BY <1>8, <1>9, TopOf
<1>11. Last(left).block \in Nat \X {"body", "else"}
    BY <1>10 DEF StackEntry
<1>12. Belongs(Last(left).block)
    <2>1. CASE above = {}
        <3>1. ReadEntries(above) = {}
            BY <2>1 DEF ReadEntries
        <3>2. Last(left) = stack[1]
            BY <1>8, <1>9, <3>1, TopOf
        <3>3. Greatest(above) = {}
            BY <2>1 DEF Greatest
        <3> QED BY <1>1, <3>2, <3>3 DEF Belongs, Entry
    <2>2. CASE above # {}
        <3>1. ReadEntries(above) # {}
            BY <2>2 DEF ReadEntries
        <3>2. /\ Last(left) \in ReadEntries(above)
              /\ \A e \in ReadEntries(above) : e.indent <= Last(left).indent
            BY <1>8, <1>9, <3>1, TopOf
        <3>3. PICK j \in above : Last(left) = ReadEntry(j)
            BY <3>2 DEF ReadEntries
        <3>4. ASSUME NEW k \in above PROVE lines[k].indent <= lines[j].indent
            <4>1. ReadEntry(k) \in ReadEntries(above)
                BY DEF ReadEntries
            <4>2. ReadEntry(k).indent <= ReadEntry(j).indent
                BY <3>2, <3>3, <4>1
            <4> QED BY <4>2 DEF ReadEntry, Entry
        <3>5. pos \in 0 .. Len(lines)
            BY <1>1 DEF SourceTyped
        <3>6. Greatest(above) = {j}
            BY <1>1, <3>4, <3>5, DeepestIsGreatest
        <3> QED BY <3>3, <3>6 DEF Belongs, ReadEntry, Entry
    <2> QED BY <2>1, <2>2
<1> QED BY <1>7, <1>8, <1>9, <1>11, <1>12

\* What a line of the strict parser changes, when its block is right.
LEMMA StrictReads ==
    ASSUME StrictInv, Read, NEW b \in Place, AppendTo(b),
           stack' \in Seq(StackEntry), failed' \in BOOLEAN,
           b \notin {Nowhere, Program} =>
               Line.kind \notin {"start", "teach"} /\ Belongs(b)
    PROVE  /\ SourceTyped' /\ StrictNesting'
           /\ OpenAt(pos, ReadsIn)' =
                  Over(Here, OpenAt(pos, ReadsIn)) \cup
                  (IF Line.kind \in {"if", "repeat"} /\ ~Line.colon /\ b # Nowhere
                   THEN {Here} ELSE {})
           /\ Begun(pos)' =
                  Begun(pos) \cup
                  (IF Line.kind \in {"start", "teach"} /\ b = Program THEN {Here} ELSE {})
<1>1. /\ SourceTyped /\ StrictNesting
      /\ pos \in Nat /\ Here \in 1 .. Len(lines) /\ pos' = Here /\ lines' = lines
      /\ \A i \in Int : i \in 1 .. Here <=> i \in 1 .. pos \/ i = Here
    BY DEF StrictInv, SourceTyped, Read, Here
<1>2. /\ place' \in [1 .. Len(lines) -> Place]
      /\ place'[Here] = b
      /\ \A i \in 1 .. Len(lines) : i # Here => place'[i] = place[i]
    BY <1>1 DEF SourceTyped, AppendTo
<1>3. SourceTyped'
    <2>1. \A i \in Here + 1 .. Len(lines) :
              i \in pos + 1 .. Len(lines) /\ i \in 1 .. Len(lines) /\ i # Here
        BY <1>1
    <2>2. \A i \in Here + 1 .. Len(lines) : place'[i] = Nowhere
        BY <1>1, <1>2, <2>1 DEF SourceTyped
    <2>3. Here \in 0 .. Len(lines)
        BY <1>1
    <2> QED BY <1>1, <1>2, <2>2, <2>3 DEF SourceTyped
<1> DEFINE reads == Line.kind \in {"if", "repeat"} /\ ~Line.colon /\ b # Nowhere
<1>4. ASSUME NEW j \in 1 .. Len(lines)
      PROVE  j \in ReadsIn' <=> IF j = Here THEN reads ELSE j \in ReadsIn
    BY <1>1, <1>2 DEF ReadsIn, Reads, Line
<1>5. OpenAt(pos, ReadsIn)' = Over(Here, OpenAt(pos, ReadsIn)) \cup (IF reads THEN {Here} ELSE {})
    <2>1. PICK S : S = ReadsIn'
        OBVIOUS
    <2>2. OpenAt(pos, ReadsIn)' = OpenAt(Here, S)
        BY <1>1, <2>1 DEF OpenAt
    <2>3. OpenAt(Here, S) = Over(Here, OpenAt(Here - 1, S)) \cup (S \cap {Here})
        BY <1>1, OpensNext
    <2>4. Here - 1 = pos
        BY <1>1 DEF Here
    <2>5. S \cap {Here} = IF reads THEN {Here} ELSE {}
        BY <1>1, <1>4, <2>1
    <2>6. \A j \in 1 .. pos : j \in S <=> j \in ReadsIn
        <3>1. \A j \in 1 .. pos : j \in 1 .. Len(lines) /\ j # Here
            BY <1>1 DEF Here
        <3> QED BY <1>4, <2>1, <3>1
    <2>7. OpenAt(pos, S) = OpenAt(pos, ReadsIn)
        BY <2>6 DEF OpenAt
    <2> HIDE DEF reads
    <2> QED BY <2>2, <2>3, <2>4, <2>5, <2>7
<1>6. ASSUME NEW i \in 1 .. pos
      PROVE  /\ Innermost(i, Reads)' = Innermost(i, Reads)
             /\ Begun(i)' = Begun(i)
    <2>1. \A j \in 1 .. i : j \in 1 .. Len(lines) /\ j # Here /\ place'[j] = place[j]
        BY <1>1, <1>2 DEF Here
    <2>2. \A j \in 1 .. i : Reads(j)' <=> Reads(j)
        BY <1>1, <2>1 DEF Reads
    <2>3. \A j \in 1 .. i : \A k \in j + 1 .. i : k \in 1 .. i
        OBVIOUS
    <2>4. \A j \in 1 .. i : Encloses(j, i)' <=> Encloses(j, i)
        BY <1>1 DEF Encloses
    <2>5. Innermost(i, Reads)' = Innermost(i, Reads)
        BY <2>2, <2>3, <2>4 DEF Innermost
    <2>6. Begun(i)' = Begun(i)
        BY <1>1, <2>1 DEF Begun
    <2> QED BY <2>5, <2>6
<1>7. Begun(pos)' = Begun(pos) \cup (IF Line.kind \in {"start", "teach"} /\ b = Program
                                      THEN {Here} ELSE {})
    <2>1. \A j \in 1 .. pos : j \in 1 .. Len(lines) /\ j # Here /\ place'[j] = place[j]
        BY <1>1, <1>2 DEF Here
    <2> QED BY <1>1, <1>2, <2>1, SMTT(20) DEF Begun, Line
<1>8. ASSUME NEW i, i = Here
      PROVE  Innermost(i, Reads)' = Greatest(Over(Here, OpenAt(pos, ReadsIn)))
    <2>1. \A j \in 1 .. i : j \in 1 .. Len(lines)
        BY <1>1, <1>8
    <2>2. \A j \in 1 .. pos : j # Here /\ j \in 1 .. i
        BY <1>1, <1>8 DEF Here
    <2>3. ASSUME NEW j \in 1 .. i, Encloses(j, i) PROVE Reads(j)' <=> j \in ReadsIn
        <3>1. j # Here /\ j \in 1 .. Len(lines)
            BY <1>1, <1>8, <2>1, <2>3 DEF Encloses
        <3> QED BY <1>1, <1>8, <1>2, <3>1 DEF Reads, ReadsIn
    <2>4. \A j \in 1 .. i : Encloses(j, i)' <=> Encloses(j, i)
        BY <1>1, <1>8 DEF Encloses
    <2>5. \A j \in 1 .. i : \A k \in j + 1 .. i : k \in 1 .. i
        BY <1>1, <1>8
    <2>6. Innermost(i, Reads)' = Nearest(i, ReadsIn)
        BY <1>1, <1>8, <2>3, <2>4, <2>5 DEF Innermost, Nearest
    <2>7. Nearest(Here, ReadsIn) = Greatest(Over(Here, OpenAt(Here - 1, ReadsIn)))
        BY <1>1, <1>8, NearestIs
    <2>8. Here - 1 = pos
        BY <1>1, <1>8 DEF Here
    <2> QED BY <1>8, <2>6, <2>7, <2>8
<1>9. StrictNesting'
    <2> SUFFICES ASSUME NEW i \in Statements'
                 PROVE  /\ Innermost(i, Reads)' = {} => place'[i] = Body(Max(Begun(i)'))
                        /\ \A j \in Innermost(i, Reads)' : place'[i] = Body(j)
        BY DEF StrictNesting, Begun, Body
    <2>1. i \in 1 .. Len(lines) /\ place'[i] \notin {Nowhere, Program}
        BY <1>2 DEF Statements, Nowhere, Program
    <2>2. i \in 1 .. pos \/ i = Here
        <3>1. i \notin Here + 1 .. Len(lines)
            BY <1>1, <1>3, <2>1 DEF SourceTyped
        <3> QED BY <1>1, <2>1, <3>1 DEF Here
    <2>3. CASE i \in 1 .. pos
        <3>1. place'[i] = place[i] /\ i \in Statements
            BY <1>1, <1>2, <2>1, <2>3 DEF Here, Statements, SourceTyped
        <3> QED BY <1>1, <1>6, <2>3, <3>1 DEF StrictNesting, Begun
    <2>4. CASE i = Here
        <3>1. b \notin {Nowhere, Program} /\ place'[i] = b
            BY <1>2, <2>1, <2>4
        <3>2. Begun(i)' = Begun(pos)
            BY <1>1, <1>7, <2>4, <3>1 DEF Begun
        <3> QED BY <1>8, <2>4, <3>1, <3>2 DEF Belongs
    <2> QED BY <2>2, <2>3, <2>4
<1> QED BY <1>3, <1>5, <1>7, <1>9

\* A line of the top level is under none that are read on with.
LEMMA TopLevelCloses ==
    ASSUME StrictInv, Here \in 1 .. Len(lines), TopLevel
    PROVE  Over(Here, OpenAt(pos, ReadsIn)) = {}
<1>1. SourceTyped /\ StrictStack
    BY DEF StrictInv
<1>2. CASE stack = <<>>
    BY <1>1, <1>2 DEF StrictStack, Over
<1>3. CASE Line.indent = 0
    <2>1. \A j \in OpenAt(pos, ReadsIn) : lines[j].indent \in Nat
        BY <1>1, LineTyped DEF OpenAt, ReadsIn
    <2> QED BY <1>3, <2>1 DEF Over, Line
<1> QED BY <1>2, <1>3 DEF TopLevel

\* A line that is left where it is has no place.
LEMMA StaysNowhere ==
    ASSUME SourceTyped, Read, UNCHANGED place
    PROVE  AppendTo(Nowhere)
BY DEF SourceTyped, Read, AppendTo, Here

\* The start of a trigger, and what stands outside of any.
LEMMA StrictTopStep ==
    ASSUME StrictInv, StrictTrigger \/ StrictWhen \/ StrictTopLevel
    PROVE  StrictInv'
<1>1. /\ SourceTyped /\ Read /\ TopLevel /\ failed \in BOOLEAN
      /\ Here \in 1 .. Len(lines) /\ pos \in Nat /\ pos' = Here /\ lines' = lines
    BY DEF StrictInv, SourceTyped, StrictTrigger, StrictWhen, StrictTopLevel, Read, Here
<1>2. Over(Here, OpenAt(pos, ReadsIn)) = {}
    BY <1>1, TopLevelCloses
<1>3. CASE StrictTrigger
    <2>1. PICK i : i = Here
        OBVIOUS
    <2>2. stack' = <<Entry(0, Body(i))>> /\ AppendTo(Program) /\ failed' \in BOOLEAN
          /\ Line.kind \in {"start", "teach"}
        BY <2>1, <1>3 DEF StrictTrigger
    <2>3. Entry(0, Body(i)) \in StackEntry
        BY <1>1, <2>1 DEF Entry, Body, StackEntry
    <2>4. /\ stack' \in Seq(StackEntry) /\ stack' # <<>> /\ Len(stack') = 1
          /\ stack'[1] = Entry(0, Body(i))
        BY <2>2, <2>3
    <2>5. Program \in Place
        BY DEF Place, Program
    <2>6. /\ SourceTyped' /\ StrictNesting'
          /\ OpenAt(pos, ReadsIn)' = {}
          /\ Begun(pos)' = Begun(pos) \cup {i}
        BY <1>1, <1>2, <2>1, <2>2, <2>4, <2>5, StrictReads
    <2>7. PICK S : S = Begun(pos)'
        OBVIOUS
    <2>8. S \subseteq 0 .. i /\ i \in S /\ i \in Nat
        BY <1>1, <2>1, <2>6, <2>7 DEF Begun, Here
    <2>9. Max(S) = i
        <3>1. PICK m : m = Max(S)
            OBVIOUS
        <3>2. m \in S /\ \A y \in S : y <= m
            BY <2>8, <3>1, MaxIs
        <3>3. m \in 0 .. i /\ i <= m
            BY <2>8, <3>2
        <3> QED BY <2>8, <3>1, <3>3
    <2>10. Lists(stack', {})
        BY <2>4 DEF Lists
    <2>11. ReadEntries(OpenAt(pos, ReadsIn))' = {}
        BY <2>6 DEF ReadEntries
    <2>12. Begun(pos)' # {} /\ Entry(0, Body(Max(Begun(pos))))' = Entry(0, Body(i))
        BY <2>7, <2>8, <2>9 DEF Entry, Body
    <2>13. Lists(stack, ReadEntries(OpenAt(pos, ReadsIn)))'
        BY <2>10, <2>11 DEF Lists
    <2>14. StrictStack'
        BY <2>4, <2>12, <2>13 DEF StrictStack
    <2> QED BY <2>6, <2>14 DEF StrictInv
<1>4. CASE StrictWhen \/ StrictTopLevel
    <2>0. StrictWhen => UNCHANGED place /\ Line.kind = "when"
        BY DEF StrictWhen
    <2>7. StrictWhen => AppendTo(Nowhere)
        BY <1>1, <2>0, StaysNowhere
    <2>1. PICK b : b = IF Line.kind = "global" THEN Program ELSE Nowhere
        OBVIOUS
    <2>2. stack' = <<>> /\ AppendTo(b) /\ failed' \in BOOLEAN /\ Line.kind \notin {"start", "teach"}
        BY <1>1, <1>4, <2>0, <2>1, <2>7 DEF StrictWhen, StrictTopLevel
    <2>3. stack' \in Seq(StackEntry)
        BY <2>2
    <2>4. b \in Place /\ b \in {Nowhere, Program}
        BY <2>1 DEF Place, Program, Nowhere
    <2>5. ~(Line.kind \in {"if", "repeat"} /\ ~Line.colon /\ b # Nowhere)
        BY <2>1
    <2>6. /\ SourceTyped' /\ StrictNesting'
          /\ OpenAt(pos, ReadsIn)' = {}
        BY <1>1, <1>2, <2>2, <2>3, <2>4, <2>5, StrictReads
    <2> QED BY <2>2, <2>6 DEF StrictInv, StrictStack
<1> QED BY <1>3, <1>4

\* A line of a trigger.
LEMMA StrictGoesOn ==
    ASSUME StrictInv, Read, ~TopLevel, failed' \in BOOLEAN,
           NEW b \in {Nowhere, Last(Reading(stack)).block}, AppendTo(b),
           b # Nowhere => Line.kind \notin {"start", "teach"},
           stack' = IF Line.kind \in {"if", "repeat"} /\ ~Line.colon /\ b # Nowhere
                    THEN Append(Reading(stack), Entry(Line.indent, Body(Here)))
                    ELSE Reading(stack)
    PROVE  StrictInv'
<1> DEFINE above == Over(Here, OpenAt(pos, ReadsIn))
           reads == Line.kind \in {"if", "repeat"} /\ ~Line.colon /\ b # Nowhere
<1>1. /\ SourceTyped /\ StrictStack /\ stack # <<>> /\ Line.indent \in Nat
      /\ Here \in 1 .. Len(lines) /\ pos \in Nat /\ pos' = Here /\ lines' = lines
    <2>1. SourceTyped /\ StrictStack
        BY DEF StrictInv
    <2>2. Here \in 1 .. Len(lines) /\ pos \in Nat
        BY <2>1 DEF SourceTyped, Read, Here
    <2> QED BY <2>1, <2>2, LineTyped DEF Read, Line, TopLevel
<1>2. PICK left \in Seq(StackEntry) : left = Reading(stack)
    BY <1>1, ReadingIs
<1>3. /\ left # <<>> /\ left[1] = stack[1]
      /\ Lists(left, ReadEntries(above))
      /\ Last(left).block \in Nat \X {"body", "else"}
      /\ Belongs(Last(left).block)
    BY <1>1, <1>2, ReadingIs
<1>4. b \in Place /\ b # Program /\ (b # Nowhere => Belongs(b))
    BY <1>2, <1>3 DEF Place, Program, Nowhere
<1>5. PICK new : new = ReadEntry(Here)
    OBVIOUS
<1>6. new \in StackEntry /\ new = Entry(Line.indent, Body(Here)) /\ new.indent = Line.indent
    BY <1>1, <1>5 DEF ReadEntry, Entry, Body, StackEntry, Line
<1>7. \A e \in ReadEntries(above) : e.indent < new.indent
    BY <1>6 DEF ReadEntries, ReadEntry, Entry, Over, Line
<1>8. /\ Append(left, new) \in Seq(StackEntry) /\ Append(left, new) # <<>>
      /\ Append(left, new)[1] = left[1]
      /\ Lists(Append(left, new), ReadEntries(above) \cup {new})
    BY <1>2, <1>3, <1>6, <1>7, AppendLists
<1>9. stack' = IF reads THEN Append(left, new) ELSE left
    BY <1>2, <1>6
<1>10. stack' \in Seq(StackEntry) /\ stack' # <<>> /\ stack'[1] = stack[1]
    BY <1>2, <1>3, <1>8, <1>9
<1>11. /\ SourceTyped' /\ StrictNesting'
       /\ OpenAt(pos, ReadsIn)' = above \cup (IF reads THEN {Here} ELSE {})
       /\ Begun(pos)' = Begun(pos)
    BY <1>1, <1>4, <1>10, StrictReads
<1>12. ReadEntries(OpenAt(pos, ReadsIn))' = ReadEntries(above) \cup (IF reads THEN {new} ELSE {})
    <2>1. PICK heads : heads = above \cup (IF reads THEN {Here} ELSE {})
        OBVIOUS
    <2>2. ReadEntries(OpenAt(pos, ReadsIn))' = ReadEntries(heads)
        BY <1>1, <1>11, <2>1 DEF ReadEntries, ReadEntry, Entry, Body
    <2> HIDE DEF reads, above
    <2>3. ReadEntries(heads) = ReadEntries(above) \cup (IF reads THEN {new} ELSE {})
        BY <1>5, <2>1 DEF ReadEntries
    <2> QED BY <2>2, <2>3
<1>13. Lists(stack', ReadEntries(above) \cup (IF reads THEN {new} ELSE {}))
    <2> HIDE DEF above
    <2>1. CASE reads
        BY <1>8, <1>9, <2>1
    <2>2. CASE ~reads
        <3>1. ReadEntries(above) \cup {} = ReadEntries(above)
            OBVIOUS
        <3> QED BY <1>3, <1>9, <2>2, <3>1
    <2> QED BY <2>1, <2>2
<1>14. Lists(stack, ReadEntries(OpenAt(pos, ReadsIn)))'
    BY <1>12, <1>13 DEF Lists
<1>15. Begun(pos)' # {} /\ stack'[1] = Entry(0, Body(Max(Begun(pos))))'
    BY <1>1, <1>10, <1>11 DEF StrictStack, Entry, Body
<1> QED BY <1>10, <1>11, <1>14, <1>15 DEF StrictInv, StrictStack

\* Every line of the strict parser keeps the invariant.
LEMMA StrictStep ==
    ASSUME StrictInv, StrictLine
    PROVE  StrictInv'
<1>1. SourceTyped /\ failed \in BOOLEAN /\ Read
    BY DEF StrictInv, SourceTyped, StrictLine, StrictTrigger, StrictWhen, StrictTopLevel,
           StrictOpener, StrictStatement, StrictFileStatement, Take, StrictJunk, StrictBroken
<1>2. CASE StrictTrigger \/ StrictWhen \/ StrictTopLevel
    BY <1>2, StrictTopStep
<1> DEFINE b == Last(Reading(stack)).block
<1>3. ~TopLevel => stack # <<>> /\ Here \in 1 .. Len(lines)
    BY <1>1 DEF TopLevel, SourceTyped, Read, Here
<1>4. ~TopLevel => b # Nowhere
    <2>1. ~TopLevel => b \in Nat \X {"body", "else"}
        BY <1>3, ReadingIs
    <2> QED BY <2>1 DEF Nowhere
<1>5. CASE StrictOpener
    BY <1>1, <1>4, <1>5, StrictGoesOn DEF StrictOpener
<1>6. CASE StrictStatement \/ StrictFileStatement
    BY <1>1, <1>4, <1>6, StrictGoesOn
       DEF StrictStatement, StrictFileStatement, Take, Simple, OnFiles
<1>7. CASE StrictJunk \/ StrictBroken
    <2>1. AppendTo(Nowhere)
        BY <1>1, <1>7, StaysNowhere DEF StrictJunk, StrictBroken
    <2> QED BY <1>1, <1>7, <2>1, StrictGoesOn DEF StrictJunk, StrictBroken
<1> QED BY <1>2, <1>5, <1>6, <1>7 DEF StrictLine
-----------------------------------------------------------------------------
(* The fuzzy parser: where lines belong *)

\* The block of line i, from those of the lines before it.
HomeFrom(i, home) ==
    IF Opener(i) = {} THEN TriggerBody(i)
    ELSE LET j == Max(Opener(i))
         IN  IF lines[j].kind # "else" THEN Body(j)
             ELSE Else(Max({k \in 1 .. j - 1 : place[k] = home[j]}))

\* An opener comes before the lines under it.
LEMMA OpenerBefore ==
    ASSUME NEW i \in Nat, Opener(i) # {}
    PROVE  Max(Opener(i)) \in Opener(i) /\ Max(Opener(i)) \in 1 .. i - 1
<1>1. PICK S : S = Opener(i)
    OBVIOUS
<1>2. \A j \in S : j \in 1 .. i - 1 /\ j \in 0 .. i
    BY <1>1 DEF Opener, Innermost, Encloses
<1>3. S \in SUBSET (0 .. i) /\ S # {}
    BY <1>1, <1>2
<1>4. Max(S) \in S
    BY <1>3, MaxIs
<1> QED BY <1>1, <1>2, <1>4

\* Only the blocks of earlier lines are looked at.
LEMMA HomeFromEarlier ==
    ASSUME NEW i \in Nat, NEW f, NEW g, \A j \in 1 .. i - 1 : f[j] = g[j]
    PROVE  HomeFrom(i, f) = HomeFrom(i, g)
<1>1. CASE Opener(i) = {}
    BY <1>1 DEF HomeFrom
<1>2. CASE Opener(i) # {}
    <2>1. PICK j : j = Max(Opener(i))
        OBVIOUS
    <2>2. f[j] = g[j]
        BY <1>2, <2>1, OpenerBefore
    <2> QED BY <1>2, <2>1, <2>2 DEF HomeFrom
<1> QED BY <1>1, <1>2

\* The blocks of lines are well defined.
LEMMA HomeIs ==
    ASSUME SourceTyped
    PROVE  \A i \in 1 .. Len(lines) : Home[i] = HomeFrom(i, Home)
<1> DEFINE n == Len(lines)
           Solves(f, k) == f = [i \in 1 .. k |-> HomeFrom(i, f)]
           T == {k \in 0 .. n : \E f : Solves(f, k)}
           Defines(f) == f = [i \in 1 .. n |->
               IF Opener(i) = {} THEN TriggerBody(i)
               ELSE LET j == Max(Opener(i))
                    IN  IF lines[j].kind # "else" THEN Body(j)
                        ELSE Else(Max({k \in 1 .. j - 1 : place[k] = f[j]}))]
<1>1. n \in Nat
    BY DEF SourceTyped
<1>2. 0 \in T
    <2>1. PICK f : f = [i \in 1 .. 0 |-> 0]
        OBVIOUS
    <2>2. Solves(f, 0)
        BY <2>1
    <2> HIDE DEF Solves
    <2>3. 0 \in 0 .. n
        BY <1>1
    <2> QED BY <2>2, <2>3
<1>3. ASSUME NEW k \in 1 .. n, k - 1 \in T PROVE k \in T
    <2>1. PICK f : Solves(f, k - 1)
        BY <1>3
    <2>2. PICK last : last = HomeFrom(k, f)
        OBVIOUS
    <2>3. PICK g : g = [i \in 1 .. k |-> IF i = k THEN last ELSE f[i]]
        OBVIOUS
    <2>4. \A j \in 1 .. k - 1 : g[j] = f[j] /\ f[j] = HomeFrom(j, f)
        BY <2>1, <2>3
    <2>5. ASSUME NEW i \in 1 .. k PROVE g[i] = HomeFrom(i, g)
        <3>1. i \in Nat /\ \A j \in 1 .. i - 1 : j \in 1 .. k - 1
            OBVIOUS
        <3>2. HomeFrom(i, f) = HomeFrom(i, g)
            BY <2>4, <3>1, HomeFromEarlier, SMTT(20)
        <3>3. CASE i = k
            BY <2>2, <2>3, <3>2, <3>3
        <3>4. CASE i # k
            <4>1. i \in 1 .. k - 1
                BY <3>4
            <4> QED BY <2>4, <3>2, <4>1
        <3> QED BY <3>3, <3>4
    <2>6. g = [i \in 1 .. k |-> g[i]]
        BY <2>3
    <2>7. [i \in 1 .. k |-> g[i]] = [i \in 1 .. k |-> HomeFrom(i, g)]
        BY <2>5
    <2>8. Solves(g, k)
        BY <2>6, <2>7
    <2>9. k \in 0 .. n
        BY <1>1
    <2> HIDE DEF Solves
    <2> QED BY <2>8, <2>9
<1> HIDE DEF T
<1>4. \A k \in 0 .. n : k \in T
    BY <1>1, <1>2, <1>3, InductionUpTo
<1>5. n \in T
    BY <1>1, <1>4
<1>6. PICK f : Solves(f, n)
    BY <1>5 DEF T
<1>7. Defines(f)
    BY <1>6 DEF HomeFrom
<1>8. PICK home : home = CHOOSE h : Defines(h)
    OBVIOUS
<1>9. Defines(home)
    BY <1>7, <1>8
<1>10. Home = home
    BY <1>8 DEF Home
<1>11. \A i \in 1 .. n : home[i] = HomeFrom(i, home)
    BY <1>9 DEF HomeFrom
<1> QED BY <1>10, <1>11

\* The same in every state, so that it can be said of the next one.
LEMMA HomeIsAlways ==
    SourceTyped => \A i \in 1 .. Len(lines) : Home[i] = HomeFrom(i, Home)
BY HomeIs

\* Reading a line changes what "it" means in it, not what it is and how far in.
SameOutline ==
    /\ Len(lines') = Len(lines)
    /\ \A i \in 1 .. Len(lines) : /\ lines'[i].kind = lines[i].kind
                                  /\ lines'[i].indent = lines[i].indent

\* What taking a line as it is meant does to the source.
LEMMA UnderstandIs ==
    ASSUME SourceTyped, mentioned \in STRING, Understand
    PROVE  /\ pos \in Nat /\ Here \in 1 .. Len(lines) /\ pos' = Here
           /\ lines' \in Seq(TextLine) /\ mentioned' \in STRING
           /\ SameOutline
<1>1. pos \in Nat /\ Here \in 1 .. Len(lines) /\ pos' = Here /\ lines \in Seq(TextLine)
    BY DEF SourceTyped, Understand, Here
<1>2. PICK line \in TextLine : line = Line
    BY <1>1, LineTyped DEF Line
<1>3. Meant(line.var) \in STRING
    BY <1>2 DEF Meant, TextLine
<1>4. MeantOperand(line.left) \in SourceOperand \cup {Undef}
    <2>1. Name(mentioned) \in SourceOperand /\ Str(mentioned) \in SourceOperand
        BY DEF Name, Str, SourceOperand
    <2>2. line.left \in SourceOperand \cup {Undef}
        BY <1>2 DEF TextLine
    <2> QED BY <2>1, <2>2 DEF MeantOperand
<1>5. PICK new : new = Understood
    OBVIOUS
<1>6. /\ new \in TextLine /\ new.kind = line.kind /\ new.indent = line.indent
      /\ new.var \in STRING
    BY <1>2, <1>3, <1>4, <1>5 DEF Understood, TextLine
<1>7. lines' = [lines EXCEPT ![Here] = new]
    BY <1>5 DEF Understand
<1>8. lines' \in Seq(TextLine) /\ Len(lines') = Len(lines)
    BY <1>1, <1>6, <1>7
<1>9. \A i \in 1 .. Len(lines) : lines'[i] = IF i = Here THEN new ELSE lines[i]
    BY <1>1, <1>7
<1>10. SameOutline
    BY <1>2, <1>6, <1>8, <1>9 DEF SameOutline, Line
<1>11. mentioned' \in STRING
    BY <1>5, <1>6 DEF Understand
<1> QED BY <1>1, <1>8, <1>10, <1>11

\* Where lines belong, up to the next one, is not changed by reading it.
LEMMA HomeKept ==
    ASSUME SourceTyped, SourceTyped', SameOutline, Here \in 1 .. Len(lines),
           \A i \in 1 .. Len(lines) : i # Here => place'[i] = place[i]
    PROVE  /\ \A i \in 0 .. Here : /\ Section(i)' = Section(i)
                                   /\ TriggerBody(i)' = TriggerBody(i)
           /\ \A j \in 1 .. pos : Heads(j)' <=> Heads(j)
           /\ \A i \in 1 .. Here : Home'[i] = Home[i]
<1>1. /\ pos \in Nat
      /\ \A i \in 1 .. Here : i \in 1 .. Len(lines) /\ i \in 1 .. Len(lines')
      /\ \A i \in 1 .. pos : i \in 1 .. Here /\ i \in 1 .. Len(lines) /\ i # Here
    BY DEF SourceTyped, SameOutline, Here
<1>2. \A i \in 1 .. Here : /\ lines'[i].kind = lines[i].kind
                           /\ lines'[i].indent = lines[i].indent
    BY <1>1 DEF SameOutline
<1>3. ASSUME NEW i \in 0 .. Here
      PROVE  Section(i)' = Section(i) /\ TriggerBody(i)' = TriggerBody(i)
    <2>1. \A j \in 1 .. i : j \in 1 .. Here /\ \A k \in j .. i : k \in 1 .. Here
        BY <1>1 DEF Here
    <2>2. Section(i)' = Section(i)
        BY <1>2, <2>1 DEF Section
    <2>3. PICK over : over = TriggerOver(i)
        OBVIOUS
    <2>4. TriggerOver(i)' = over
        BY <1>2, <2>1, <2>3 DEF TriggerOver
    <2>5. Max(over) # 0 => Max(over) \in 1 .. Here
        <3>1. over \in SUBSET (0 .. i) /\ over # {} /\ i \in Nat
            BY <1>1, <2>3 DEF TriggerOver, Here
        <3>2. PICK m : m = Max(over)
            OBVIOUS
        <3>3. m \in over
            BY <3>1, <3>2, MaxIs
        <3> QED BY <2>1, <2>3, <3>2, <3>3 DEF TriggerOver
    <2>6. PICK m : m = Max(over)
        OBVIOUS
    <2>7. TriggerBody(i) = IF m # 0 /\ lines[m].kind # "global" THEN Body(m) ELSE Body(0)
        BY <2>3, <2>6 DEF TriggerBody
    <2>8. TriggerBody(i)' = IF m # 0 /\ lines'[m].kind # "global" THEN Body(m) ELSE Body(0)
        BY <2>4, <2>6 DEF TriggerBody, Body
    <2>9. TriggerBody(i)' = TriggerBody(i)
        BY <1>2, <2>5, <2>6, <2>7, <2>8
    <2> QED BY <2>2, <2>9
<1>4. ASSUME NEW j \in 1 .. pos PROVE Heads(j)' <=> Heads(j)
    BY <1>1, <1>2 DEF Heads, Nowhere, Openers
<1>5. ASSUME NEW i \in 1 .. Here PROVE Opener(i)' = Opener(i)
    <2>1. \A j \in 1 .. i : j \in 1 .. Here /\ (j < i => j \in 1 .. pos)
        BY <1>1 DEF Here
    <2>2. \A j \in 1 .. i : \A k \in j + 1 .. i : k \in 1 .. i
        OBVIOUS
    <2>3. \A j \in 1 .. i : Encloses(j, i)' <=> Encloses(j, i)
        <3>1. \A j \in 1 .. i : \A k \in j + 1 .. i - 1 : k \in 1 .. Here
            BY <2>1
        <3>2. i \in 1 .. Here
            OBVIOUS
        <3> QED BY <1>2, <2>1, <3>1, <3>2 DEF Encloses
    <2>4. \A j \in 1 .. i : Encloses(j, i) => (Heads(j)' <=> Heads(j))
        BY <1>4, <2>1 DEF Encloses
    <2>5. Innermost(i, Heads)' = Innermost(i, Heads)
        BY <2>2, <2>3, <2>4 DEF Innermost
    <2>6. Section(i)' = Section(i)
        BY <1>3
    <2> QED BY <2>5, <2>6 DEF Opener
<1>6. PICK new : new = Home'
    OBVIOUS
<1>7. \A i \in 1 .. Here : Home[i] = HomeFrom(i, Home)
    BY <1>1, HomeIs
<1>8. \A i \in 1 .. Here : new[i] = HomeFrom(i, Home)'
    <2>1. (SourceTyped => \A i \in 1 .. Len(lines) : Home[i] = HomeFrom(i, Home))'
        BY HomeIsAlways, PTL
    <2> QED BY <1>1, <1>6, <2>1
<1> DEFINE T == {i \in 0 .. Here : \A j \in 1 .. i : new[j] = Home[j]}
<1>9. 0 \in T
    BY <1>1 DEF Here
<1>10. ASSUME NEW i \in 1 .. Here, i - 1 \in T PROVE i \in T
    <2>1. \A j \in 1 .. i - 1 : new[j] = Home[j]
        BY <1>10
    <2>2. new[i] = Home[i]
        <3>1. CASE Opener(i) = {}
            <4>1. new[i] = TriggerBody(i)'
                BY <1>5, <1>8, <3>1 DEF HomeFrom
            <4>2. Home[i] = TriggerBody(i)
                BY <1>7, <3>1 DEF HomeFrom
            <4>3. i \in 0 .. Here
                BY <1>1
            <4> QED BY <1>3, <4>1, <4>2, <4>3
        <3>2. CASE Opener(i) # {}
            <4>1. PICK m : m = Max(Opener(i))
                OBVIOUS
            <4>2. m \in 1 .. i - 1 /\ i \in Nat /\ m \in 1 .. Here
                BY <1>1, <3>2, <4>1, OpenerBefore
            <4>3. Max(Opener(i)') = m
                BY <1>5, <4>1
            <4>4. new[i] = IF lines'[m].kind # "else" THEN Body(m)
                           ELSE Else(Max({k \in 1 .. m - 1 : place'[k] = new[m]}))
                BY <1>5, <1>6, <1>8, <3>2, <4>3 DEF HomeFrom, Body, Else
            <4>5. Home[i] = IF lines[m].kind # "else" THEN Body(m)
                            ELSE Else(Max({k \in 1 .. m - 1 : place[k] = Home[m]}))
                BY <1>7, <3>2, <4>1 DEF HomeFrom
            <4>6. new[m] = Home[m]
                BY <2>1, <4>2
            <4>7. \A k \in 1 .. m - 1 : place'[k] = place[k]
                <5>1. \A k \in 1 .. m - 1 : k \in 1 .. pos
                    BY <1>1, <4>2 DEF Here
                <5> QED BY <1>1, <5>1
            <4>8. {k \in 1 .. m - 1 : place'[k] = new[m]} = {k \in 1 .. m - 1 : place[k] = Home[m]}
                BY <4>6, <4>7
            <4> QED BY <1>2, <4>2, <4>4, <4>5, <4>8
        <3> QED BY <3>1, <3>2
    <2>3. \A j \in 1 .. i : j = i \/ j \in 1 .. i - 1
        OBVIOUS
    <2>4. i \in 0 .. Here
        BY <1>1
    <2> QED BY <2>1, <2>2, <2>3, <2>4
<1>11. \A i \in 0 .. Here : i \in T
    <2> HIDE DEF T
    <2>1. Here \in Nat
        BY <1>1 DEF Here
    <2> QED BY <1>9, <1>10, <2>1, InductionUpTo
<1>12. \A i \in 1 .. Here : Home'[i] = Home[i]
    <2>1. \A i \in 1 .. Here : i \in 0 .. Here /\ i \in 1 .. i
        BY <1>1
    <2> QED BY <1>6, <1>11, <2>1
<1> QED BY <1>3, <1>4, <1>12
-----------------------------------------------------------------------------
(* The fuzzy parser: its stack *)

\* The lines of the trigger over line i that head a block.
HeadsIn(i) == {j \in Section(i) : Heads(j)}

OpenHeads == OpenAt(pos, HeadsIn(pos))

\* The block a line heads.
HeadBlock(j) ==
    IF lines[j].kind # "else" THEN Body(j)
    ELSE Else(Max({k \in 1 .. j - 1 : place[k] = Home[j]}))

HeadEntry(j) == Entry(lines[j].indent + 1, HeadBlock(j))
HeadEntries(heads) == {HeadEntry(j) : j \in heads}

\* In a trigger the stack holds its body and the blocks of the lines that are open.
FuzzyStack ==
    IF trigger = Nowhere THEN Section(pos) = {} /\ TriggerBody(pos) = Body(0)
    ELSE /\ stack # <<>>
         /\ stack[1].block = TriggerBody(pos)
         /\ Lists(stack, HeadEntries(OpenHeads))

FuzzyInv ==
    /\ SourceTyped
    /\ mentioned \in STRING
    /\ FuzzyNesting
    /\ ~failed => FuzzyStack

\* A line that begins nothing belongs to the section, and to the trigger, of the lines
\* before it.
LEMMA SectionGoesOn ==
    ASSUME SourceTyped, NEW i \in 1 .. Len(lines), lines[i].kind \notin Beginnings
    PROVE  Section(i) = Section(i - 1) \cup {i} /\ TriggerBody(i) = TriggerBody(i - 1)
<1>1. i \in Nat /\ \A j \in 1 .. i : j = i \/ j \in 1 .. i - 1
    BY DEF SourceTyped
<1>2. \A j \in 1 .. i - 1 : j \in 1 .. i /\ i \in j .. i
    BY <1>1
<1>3. \A j \in 1 .. i - 1 : \A k \in Int : k \in j .. i <=> k = i \/ k \in j .. i - 1
    BY <1>1
<1>4. \A j \in 1 .. i - 1 : j \in Section(i) <=> j \in Section(i - 1)
    BY <1>2, <1>3 DEF Section
<1>5. i \in Section(i)
    <2>1. i \in 1 .. i /\ \A k \in i .. i : k = i
        BY <1>1
    <2> QED BY <2>1 DEF Section
<1>6. Section(i) \subseteq 1 .. i /\ Section(i - 1) \subseteq 1 .. i - 1
    BY DEF Section
<1>7. Section(i) = Section(i - 1) \cup {i}
    BY <1>1, <1>4, <1>5, <1>6
<1>8. TriggerOver(i) = TriggerOver(i - 1)
    BY <1>1, <1>2 DEF TriggerOver
<1> QED BY <1>7, <1>8 DEF TriggerBody

\* A line that begins something has no lines to belong together with.
LEMMA SectionEnds ==
    ASSUME SourceTyped, NEW i \in 1 .. Len(lines), lines[i].kind \in Beginnings
    PROVE  /\ Section(i) = {}
           /\ TriggerBody(i) = IF lines[i].kind = "global" THEN Body(0) ELSE Body(i)
<1>1. i \in Nat /\ i # 0 /\ \A j \in 1 .. i : i \in j .. i
    BY DEF SourceTyped
<1>2. Section(i) = {}
    BY <1>1 DEF Section
<1>3. PICK over : over = TriggerOver(i)
    OBVIOUS
<1>4. over \in SUBSET (0 .. i) /\ i \in over
    BY <1>1, <1>3 DEF TriggerOver
<1>5. PICK m : m = Max(over)
    OBVIOUS
<1>6. m \in over /\ i <= m
    BY <1>1, <1>4, <1>5, MaxIs
<1>7. m = i
    BY <1>1, <1>4, <1>6
<1> QED BY <1>1, <1>2, <1>3, <1>5, <1>7 DEF TriggerBody

\* The opener over a line is the last of those that are open and that it is under.
LEMMA OpenerIs ==
    ASSUME SourceTyped, NEW i \in 1 .. Len(lines), lines[i].kind \notin Beginnings
    PROVE  Opener(i) = Greatest(Over(i, OpenAt(i - 1, HeadsIn(i - 1))))
<1> DEFINE S == HeadsIn(i - 1)
<1>1. i \in Nat
    BY DEF SourceTyped
<1>2. Section(i) = Section(i - 1) \cup {i}
    BY SectionGoesOn
<1>3. \A j \in 1 .. i : Encloses(j, i) => j # i
    BY DEF Encloses
<1>4. \A j \in Section(i) : j \in 1 .. i /\ \A k \in j + 1 .. i : k \in Section(i)
    BY <1>1 DEF Section
<1>5. \A j \in 1 .. i : Encloses(j, i) => (j \in S <=> j \in Section(i) /\ Heads(j))
    BY <1>2, <1>3 DEF HeadsIn
<1>6. ASSUME NEW j \in Opener(i) PROVE j \in Nearest(i, S)
    <2>1. j \in Section(i) /\ j \in 1 .. i /\ Encloses(j, i) /\ Heads(j)
        BY DEF Opener, Innermost
    <2>2. \A k \in j + 1 .. i : k \in 1 .. i
        BY <2>1
    <2>3. \A k \in j + 1 .. i : ~(Encloses(k, i) /\ k \in S)
        BY <1>5, <2>2 DEF Opener, Innermost
    <2> HIDE DEF S
    <2> QED BY <1>5, <2>1, <2>3 DEF Nearest
<1>7. ASSUME NEW j \in Nearest(i, S) PROVE j \in Opener(i)
    <2>1. j \in 1 .. i /\ Encloses(j, i) /\ j \in S
        BY DEF Nearest
    <2>2. j \in Section(i) /\ Heads(j)
        BY <1>5, <2>1
    <2>3. \A k \in j + 1 .. i : k \in 1 .. i /\ k \in Section(i)
        BY <1>4, <2>2
    <2>4. \A k \in j + 1 .. i : ~(Encloses(k, i) /\ Heads(k))
        BY <1>5, <2>3 DEF Nearest
    <2> QED BY <2>1, <2>2, <2>4 DEF Opener, Innermost
<1>8. Opener(i) = Nearest(i, S)
    BY <1>6, <1>7
<1> QED BY <1>8, NearestIs

\* Where a line belongs, by the lines that are open.
LEMMA HomeOf ==
    ASSUME SourceTyped, NEW i \in 1 .. Len(lines), lines[i].kind \notin Beginnings
    PROVE  LET heads == Greatest(Over(i, OpenAt(i - 1, HeadsIn(i - 1))))
           IN  /\ heads = {} => Home[i] = TriggerBody(i - 1)
               /\ \A j : heads = {j} => Home[i] = HeadBlock(j)
<1>1. PICK heads : heads = Opener(i)
    OBVIOUS
<1>2. heads = Greatest(Over(i, OpenAt(i - 1, HeadsIn(i - 1))))
    BY <1>1, OpenerIs
<1>3. Home[i] = HomeFrom(i, Home)
    BY HomeIs
<1>4. ASSUME heads = {} PROVE Home[i] = TriggerBody(i - 1)
    BY <1>1, <1>3, <1>4, SectionGoesOn DEF HomeFrom
<1>5. ASSUME NEW j, heads = {j} PROVE Home[i] = HeadBlock(j)
    <2>1. i \in Nat
        BY DEF SourceTyped
    <2>2. Max(Opener(i)) = j
        BY <1>1, <1>5, <2>1, OpenerBefore
    <2> QED BY <1>1, <1>3, <1>5, <2>2 DEF HomeFrom, HeadBlock
<1> QED BY <1>2, <1>4, <1>5

\* A line belongs to a body or an else_body.
LEMMA HomeIsBlock ==
    ASSUME SourceTyped, NEW i \in 1 .. Len(lines)
    PROVE  Home[i] # Nowhere /\ Home[i] # Program
<1>1. \A b : Body(b) # Nowhere /\ Body(b) # Program /\ Else(b) # Nowhere /\ Else(b) # Program
    BY DEF Body, Else, Nowhere, Program
<1>2. TriggerBody(i) # Nowhere /\ TriggerBody(i) # Program
    BY <1>1 DEF TriggerBody
<1> QED BY <1>1, <1>2, HomeIs DEF HomeFrom

\* The If that an Else goes on with.
LEMMA PrecedingIfIs ==
    ASSUME SourceTyped, Here \in 1 .. Len(lines), Current = Home[Here]
    PROVE  /\ PrecedingIf # {} <=> AfterIf(Here, Home[Here])
           /\ \A j \in PrecedingIf :
                  j \in Nat /\ j = Max({k \in 1 .. Here - 1 : place[k] = Home[Here]})
<1>1. PICK b : b = Current
    OBVIOUS
<1>2. PICK nodes : nodes = Nodes(b)
    OBVIOUS
<1>3. pos \in Nat /\ Here - 1 = pos /\ b # Nowhere
    BY <1>1, HomeIsBlock DEF SourceTyped, Here
<1>4. nodes = {k \in 1 .. pos : place[k] = b}
    <2>1. \A k \in Nodes(b) : k \in 1 .. Len(lines) /\ k \notin pos + 1 .. Len(lines)
        BY <1>3 DEF Nodes, SourceTyped
    <2>2. \A k \in 1 .. pos : k \in 1 .. Len(lines)
        BY <1>3 DEF Here
    <2>3. \A k \in 1 .. Len(lines) : k \in pos + 1 .. Len(lines) \/ k \in 1 .. pos
        BY <1>3
    <2>4. DOMAIN place = 1 .. Len(lines)
        BY DEF SourceTyped
    <2> QED BY <1>2, <2>1, <2>2, <2>3, <2>4 DEF Nodes
<1>5. PrecedingIf = {j \in nodes : lines[j].kind = "if" /\ \A k \in nodes : k <= j}
    BY <1>1, <1>2 DEF PrecedingIf
<1>6. ASSUME NEW j \in 1 .. pos
      PROVE  (\A k \in nodes : k <= j) <=> (\A k \in j + 1 .. pos : place[k] # b)
    <2>1. \A k \in 1 .. pos : k <= j \/ k \in j + 1 .. pos
        OBVIOUS
    <2>2. \A k \in j + 1 .. pos : k \in 1 .. pos /\ ~(k <= j)
        OBVIOUS
    <2> QED BY <1>4, <2>1, <2>2
<1>7. AfterIf(Here, b) <=> \E j \in nodes : lines[j].kind = "if" /\ \A k \in nodes : k <= j
    BY <1>3, <1>4, <1>6 DEF AfterIf
<1>8. ASSUME NEW j \in PrecedingIf PROVE j \in Nat /\ j = Max(nodes)
    <2>1. j \in nodes /\ nodes \in SUBSET (0 .. pos) /\ nodes # {} /\ \A k \in nodes : k <= j
        BY <1>4, <1>5
    <2>2. PICK m : m = Max(nodes)
        OBVIOUS
    <2>3. m \in nodes /\ j <= m
        BY <1>3, <2>1, <2>2, MaxIs
    <2>4. m \in Nat /\ j \in Nat /\ m <= j
        BY <2>1, <2>3
    <2> QED BY <2>2, <2>3, <2>4
<1> QED BY <1>1, <1>3, <1>4, <1>5, <1>7, <1>8

\* The stack for a line of a trigger, and that its top is where the line belongs.
LEMMA BlocksAre ==
    ASSUME FuzzyInv, ~failed, Here \in 1 .. Len(lines), Line.kind \notin Beginnings
    PROVE  /\ Blocks \in Seq(StackEntry) /\ Blocks # <<>>
           /\ Blocks[1].block = TriggerBody(pos)
           /\ Lists(Blocks, HeadEntries(Over(Here, OpenHeads)))
           /\ Current \in Nat \X {"body", "else"}
           /\ Current = Home[Here]
<1> DEFINE above == Over(Here, OpenHeads)
<1>1. /\ SourceTyped /\ FuzzyStack /\ pos \in Nat /\ Here - 1 = pos /\ pos \in 0 .. Len(lines)
      /\ stack \in Seq(StackEntry) /\ Line.indent \in Nat /\ Line = lines[Here]
    BY LineTyped DEF FuzzyInv, SourceTyped, Here, Line
<1>2. PICK left : left = Blocks
    OBVIOUS
<1>3. /\ left \in Seq(StackEntry) /\ left # <<>>
      /\ left[1].block = TriggerBody(pos) /\ Lists(left, HeadEntries(above))
    <2>1. CASE trigger = Nowhere
        <3>1. PICK e : e = Entry(Line.indent, Body(0))
            OBVIOUS
        <3>2. e \in StackEntry /\ e.block = Body(0)
            BY <1>1, <3>1 DEF Entry, Body, StackEntry
        <3>3. left = <<e>>
            BY <1>2, <2>1, <3>1 DEF Blocks
        <3>4. left \in Seq(StackEntry) /\ left # <<>> /\ Len(left) = 1 /\ left[1] = e
            BY <3>2, <3>3
        <3>5. HeadEntries(above) = {}
            BY <1>1, <2>1 DEF FuzzyStack, HeadEntries, Over, OpenHeads, OpenAt, HeadsIn
        <3>6. Lists(left, {})
            BY <3>4 DEF Lists
        <3> QED BY <1>1, <2>1, <3>2, <3>4, <3>5, <3>6 DEF FuzzyStack
    <2>2. CASE trigger # Nowhere
        <3> DEFINE deep == {k \in 2 .. Len(stack) : Line.indent >= stack[k].indent}
                   m == IF deep = {} THEN 1 ELSE Max(deep)
        <3>1. /\ stack # <<>> /\ stack[1].block = TriggerBody(pos)
              /\ Lists(stack, HeadEntries(OpenHeads))
            BY <1>1, <2>2 DEF FuzzyStack
        <3>2. PICK n \in Nat : n = Len(stack) /\ n >= 1
            BY <1>1, <3>1
        <3>3. ASSUME NEW k \in 2 .. n PROVE stack[k].indent \in Int
            <4>1. stack[k] \in StackEntry
                BY <1>1, <3>2
            <4> QED BY <4>1 DEF StackEntry
        <3>4. m \in 1 .. n /\ \A k \in 2 .. n : k <= m <=> stack[k].indent < Line.indent + 1
            <4>1. CASE deep = {}
                <5>1. ASSUME NEW k \in 2 .. n PROVE ~(stack[k].indent < Line.indent + 1)
                    BY <1>1, <3>2, <3>3, <4>1
                <5> QED BY <3>2, <4>1, <5>1
            <4>2. CASE deep # {}
                <5>1. deep \in SUBSET (0 .. n)
                    BY <3>2
                <5>2. PICK x : x = Max(deep)
                    OBVIOUS
                <5>3. x \in deep /\ \A y \in deep : y <= x
                    BY <3>2, <4>2, <5>1, <5>2, MaxIs
                <5>4. m = x /\ x \in 2 .. n /\ Line.indent >= stack[x].indent
                    BY <3>2, <4>2, <5>2, <5>3
                <5>5. ASSUME NEW k \in 2 .. n, k > x PROVE ~(stack[k].indent < Line.indent + 1)
                    <6>1. k \notin deep
                        BY <5>3, <5>4, <5>5
                    <6> QED BY <1>1, <3>2, <3>3, <6>1
                <5>6. ASSUME NEW k \in 2 .. n, k <= x PROVE stack[k].indent < Line.indent + 1
                    <6>1. k = x \/ stack[k].indent < stack[x].indent
                        BY <3>1, <3>2, <5>4, <5>6 DEF Lists
                    <6> QED BY <1>1, <3>3, <5>4, <6>1, SMTT(20)
                <5> HIDE DEF m, deep
                <5> QED BY <3>2, <5>4, <5>5, <5>6
            <4> QED BY <4>1, <4>2
        <3>5. Blocks = SubSeq(stack, 1, m)
            BY <2>2 DEF Blocks, Popped
        <3> HIDE DEF m, deep
        <3>6. Shallower(HeadEntries(OpenHeads), Line.indent + 1) = HeadEntries(above)
            <4>1. ASSUME NEW j \in OpenHeads
                  PROVE  HeadEntry(j).indent < Line.indent + 1 <=> j \in above
                <5>1. lines[j].indent \in Nat
                    <6>1. j \in 1 .. Len(lines)
                        BY <1>1 DEF OpenHeads, OpenAt
                    <6> QED BY <1>1, <6>1, LineTyped
                <5>2. HeadEntry(j).indent = lines[j].indent + 1
                    BY DEF HeadEntry, Entry
                <5>3. j \in above <=> lines[j].indent < Line.indent
                    BY <1>1 DEF Over
                <5> QED BY <1>1, <5>1, <5>2, <5>3, SMTT(20)
            <4>2. \A j \in above : j \in OpenHeads
                BY DEF Over
            <4> HIDE DEF above
            <4> QED BY <4>1, <4>2 DEF Shallower, HeadEntries
        <3>7. /\ left \in Seq(StackEntry) /\ Len(left) = m /\ left[1] = stack[1]
              /\ Lists(left, HeadEntries(above))
            BY <1>1, <1>2, <3>1, <3>2, <3>4, <3>5, <3>6, CutLists, SMTT(20)
        <3>8. left # <<>>
            BY <3>4, <3>7
        <3> QED BY <3>1, <3>7, <3>8
    <2> QED BY <2>1, <2>2
<1>4. Last(left) \in StackEntry /\ Current = Last(left).block
    BY <1>2, <1>3, TopOf DEF Current
<1>5. Current \in Nat \X {"body", "else"}
    BY <1>4 DEF StackEntry
<1>6. Current = Home[Here]
    <2>1. CASE above = {}
        <3>1. HeadEntries(above) = {}
            BY <2>1 DEF HeadEntries
        <3>2. Last(left) = left[1]
            BY <1>3, <3>1, TopOf
        <3>3. Greatest(above) = {}
            BY <2>1 DEF Greatest
        <3> QED BY <1>1, <1>3, <1>4, <3>2, <3>3, HomeOf DEF OpenHeads
    <2>2. CASE above # {}
        <3>1. HeadEntries(above) # {}
            BY <2>2 DEF HeadEntries
        <3>2. /\ Last(left) \in HeadEntries(above)
              /\ \A e \in HeadEntries(above) : e.indent <= Last(left).indent
            BY <1>3, <3>1, TopOf
        <3>3. PICK j \in above : Last(left) = HeadEntry(j)
            BY <3>2 DEF HeadEntries
        <3>4. ASSUME NEW k \in above PROVE lines[k].indent <= lines[j].indent
            <4>1. HeadEntry(k) \in HeadEntries(above)
                BY DEF HeadEntries
            <4>2. HeadEntry(k).indent <= HeadEntry(j).indent
                BY <3>2, <3>3, <4>1
            <4>3. k \in 1 .. Len(lines) /\ j \in 1 .. Len(lines)
                BY <1>1 DEF Over, OpenHeads, OpenAt
            <4>4. lines[k].indent \in Nat /\ lines[j].indent \in Nat
                BY <1>1, <4>3, LineTyped
            <4> QED BY <4>2, <4>4 DEF HeadEntry, Entry
        <3>5. Greatest(above) = {j}
            BY <1>1, <3>4, DeepestIsGreatest DEF OpenHeads
        <3>6. Current = HeadBlock(j)
            BY <1>4, <3>3 DEF HeadEntry, Entry
        <3> QED BY <1>1, <3>5, <3>6, HomeOf DEF OpenHeads
    <2> QED BY <2>1, <2>2
<1> QED BY <1>2, <1>3, <1>5, <1>6

\* What a line of the fuzzy parser changes.
LEMMA FuzzyReads ==
    ASSUME FuzzyInv, Understand, NEW b \in Place, AppendTo(b),
           stack' \in Seq(StackEntry), failed' \in BOOLEAN
    PROVE  /\ SourceTyped' /\ mentioned' \in STRING
           /\ Section(pos)' = Section(Here) /\ TriggerBody(pos)' = TriggerBody(Here)
           /\ \A j \in 1 .. Here : HeadEntry(j)' = HeadEntry(j)
           /\ Line.kind \notin Beginnings =>
                  OpenHeads' = Over(Here, OpenHeads) \cup
                               (IF Line.kind \in Openers \/ (Line.kind = "else" /\ b = Nowhere)
                                THEN {Here} ELSE {})
           /\ (\/ failed' \/ Line.kind \in Beginnings
               \/ b = IF Unplaced(Here, Home[Here]) THEN Nowhere ELSE Home[Here])
              => FuzzyNesting'
<1>1. /\ SourceTyped /\ mentioned \in STRING /\ FuzzyNesting /\ ~failed
    BY DEF FuzzyInv, Understand
<1>2. /\ pos \in Nat /\ Here \in 1 .. Len(lines) /\ pos' = Here /\ Here - 1 = pos
      /\ lines' \in Seq(TextLine) /\ mentioned' \in STRING /\ SameOutline
    BY <1>1, UnderstandIs DEF Here
<1>3. /\ place' \in [1 .. Len(lines) -> Place]
      /\ place'[Here] = b
      /\ \A i \in 1 .. Len(lines) : i # Here => place'[i] = place[i]
    BY <1>1, <1>2 DEF SourceTyped, AppendTo
<1>4. SourceTyped'
    <2>1. \A i \in Here + 1 .. Len(lines) :
              i \in pos + 1 .. Len(lines) /\ i \in 1 .. Len(lines) /\ i # Here
        BY <1>2 DEF Here
    <2>2. \A i \in Here + 1 .. Len(lines) : place'[i] = Nowhere
        BY <1>1, <1>3, <2>1 DEF SourceTyped
    <2>3. Here \in 0 .. Len(lines) /\ Len(lines') = Len(lines)
        BY <1>2 DEF SameOutline
    <2> QED BY <1>2, <1>3, <2>2, <2>3 DEF SourceTyped, Nowhere
<1>5. /\ \A i \in 0 .. Here : /\ Section(i)' = Section(i)
                              /\ TriggerBody(i)' = TriggerBody(i)
      /\ \A j \in 1 .. pos : Heads(j)' <=> Heads(j)
      /\ \A i \in 1 .. Here : Home'[i] = Home[i]
    BY <1>1, <1>2, <1>3, <1>4, HomeKept
<1>6. /\ \A i \in 1 .. Here : /\ i \in 1 .. Len(lines)
                              /\ lines'[i].kind = lines[i].kind
                              /\ lines'[i].indent = lines[i].indent
      /\ \A i \in 1 .. pos : i # Here /\ i \in 1 .. Here /\ place'[i] = place[i]
    <2>1. \A i \in 1 .. Here : i \in 1 .. Len(lines)
        BY <1>2
    <2>2. \A i \in 1 .. pos : i # Here /\ i \in 1 .. Here
        BY <1>2
    <2>3. \A i \in 1 .. Here : lines'[i].kind = lines[i].kind /\ lines'[i].indent = lines[i].indent
        BY <1>2, <2>1 DEF SameOutline
    <2>4. \A i \in 1 .. pos : place'[i] = place[i]
        BY <1>3, <2>1, <2>2
    <2> QED BY <2>1, <2>2, <2>3, <2>4
<1>7. PICK i : i = Here
    OBVIOUS
<1>8. Section(pos)' = Section(Here) /\ TriggerBody(pos)' = TriggerBody(Here)
    <2>1. i \in 0 .. Here
        BY <1>2, <1>7
    <2>2. Section(pos)' = Section(i)' /\ TriggerBody(pos)' = TriggerBody(i)'
        BY <1>2, <1>7 DEF Section, TriggerBody, TriggerOver, Body
    <2> QED BY <1>5, <1>7, <2>1, <2>2
<1>9. ASSUME NEW j \in 1 .. Here PROVE HeadEntry(j)' = HeadEntry(j)
    <2>1. \A k \in 1 .. j - 1 : place'[k] = place[k]
        <3>1. \A k \in 1 .. j - 1 : k \in 1 .. pos
            BY <1>2
        <3> QED BY <1>6, <3>1
    <2>2. Home'[j] = Home[j]
        BY <1>5
    <2>3. {k \in 1 .. j - 1 : place'[k] = Home'[j]} = {k \in 1 .. j - 1 : place[k] = Home[j]}
        BY <2>1, <2>2
    <2>4. HeadBlock(j)' = HeadBlock(j)
        BY <1>6, <2>3 DEF HeadBlock, Body, Else
    <2> QED BY <1>6, <2>4 DEF HeadEntry, Entry
<1>10. ASSUME Line.kind \notin Beginnings
       PROVE  OpenHeads' = Over(Here, OpenHeads) \cup
                           (IF Line.kind \in Openers \/ (Line.kind = "else" /\ b = Nowhere)
                            THEN {Here} ELSE {})
    <2> DEFINE heads == Line.kind \in Openers \/ (Line.kind = "else" /\ b = Nowhere)
    <2>1. PICK S : S = HeadsIn(pos)'
        OBVIOUS
    <2>2. S = {j \in Section(Here) : Heads(j)'}
        BY <1>8, <2>1 DEF HeadsIn
    <2>3. Section(Here) = Section(pos) \cup {Here}
        BY <1>1, <1>2, <1>10, SectionGoesOn DEF Line
    <2>4. Section(pos) \subseteq 1 .. pos
        BY DEF Section
    <2>5. \A j \in 1 .. pos : j \in S <=> j \in HeadsIn(pos)
        BY <1>5, <1>6, <2>2, <2>3 DEF HeadsIn
    <2>6. Heads(i)' <=> heads
        <3>1. i \in 1 .. Here
            BY <1>2, <1>7
        <3>2. lines'[i].kind = Line.kind /\ place'[i] = b
            BY <1>3, <1>6, <1>7, <3>1 DEF Line
        <3> QED BY <3>2 DEF Heads, Nowhere, Openers
    <2>7. Here \in S <=> heads
        BY <1>7, <2>2, <2>3, <2>6
    <2>8. OpenHeads' = OpenAt(Here, S)
        <3>1. \A j \in 1 .. Here : \A k \in j + 1 .. Here : k \in 1 .. Here
            BY <1>2
        <3> QED BY <1>2, <1>6, <2>1, <3>1 DEF OpenHeads, OpenAt
    <2>9. OpenAt(Here, S) = Over(Here, OpenAt(Here - 1, S)) \cup (S \cap {Here})
        BY <1>1, <1>2, OpensNext
    <2>10. OpenAt(pos, S) = OpenHeads
        BY <2>5 DEF OpenHeads, OpenAt
    <2>11. S \cap {Here} = IF heads THEN {Here} ELSE {}
        BY <2>7
    <2> HIDE DEF heads
    <2>12. OpenHeads' = Over(Here, OpenHeads) \cup (IF heads THEN {Here} ELSE {})
        BY <1>2, <2>8, <2>9, <2>10, <2>11
    <2> QED BY <2>12 DEF heads
<1>11. ASSUME \/ failed' \/ Line.kind \in Beginnings
              \/ b = IF Unplaced(Here, Home[Here]) THEN Nowhere ELSE Home[Here]
       PROVE  FuzzyNesting'
    <2> DEFINE Right(j) ==
                   lines[j].kind \notin Beginnings =>
                       place[j] = IF Unplaced(j, Home[j]) THEN Nowhere ELSE Home[j]
    <2>1. ASSUME NEW j \in 1 .. Here PROVE Unplaced(j, Home[j])' <=> Unplaced(j, Home[j])
        <3>1. \A k \in 1 .. j - 1 : /\ place'[k] = place[k] /\ lines'[k].kind = lines[k].kind
            <4>1. \A k \in 1 .. j - 1 : k \in 1 .. pos
                BY <1>2
            <4> QED BY <1>6, <4>1
        <3>2. \A k \in 1 .. j - 1 : \A l \in k + 1 .. j - 1 : l \in 1 .. j - 1
            OBVIOUS
        <3>3. Home'[j] = Home[j]
            BY <1>5
        <3>4. AfterIf(j, Home[j])' <=> AfterIf(j, Home[j])
            BY <3>1, <3>2, <3>3 DEF AfterIf
        <3>5. IsPython(Home[j])' <=> IsPython(Home[j])
            <4>1. DOMAIN lines = 1 .. Len(lines) /\ DOMAIN lines' = 1 .. Len(lines)
                BY <1>1, <1>2 DEF SourceTyped, SameOutline
            <4>2. \A k \in 1 .. Len(lines) : lines'[k].kind = lines[k].kind
                BY <1>2 DEF SameOutline
            <4>3. PICK h : h = Home[j]
                OBVIOUS
            <4>4. Home'[j] = h
                BY <3>3, <4>3
            <4> QED BY <4>1, <4>2, <4>3, <4>4 DEF IsPython
        <3> QED BY <1>6, <3>4, <3>5 DEF Unplaced
    <2>2. ASSUME NEW j \in 1 .. pos PROVE Right(j)'
        <3>1. Right(j)
            BY <1>1 DEF FuzzyNesting
        <3>2. j \in 1 .. Here
            BY <1>6
        <3>3. /\ lines'[j].kind = lines[j].kind /\ place'[j] = place[j] /\ Home'[j] = Home[j]
              /\ Unplaced(j, Home[j])' <=> Unplaced(j, Home[j])
            BY <1>5, <1>6, <2>1, <3>2
        <3> QED BY <3>1, <3>3 DEF Beginnings, Nowhere
    <2>3. ASSUME ~failed' PROVE Right(i)'
        <3>1. i \in 1 .. Here
            BY <1>2, <1>7
        <3>2. /\ lines'[i].kind = Line.kind /\ place'[i] = b /\ Home'[i] = Home[Here]
              /\ Unplaced(i, Home[i])' <=> Unplaced(Here, Home[Here])
            <4>1. lines'[i].kind = lines[i].kind /\ Home'[i] = Home[i]
                BY <1>5, <1>6, <3>1
            <4>2. Unplaced(i, Home[i])' <=> Unplaced(i, Home[i])
                BY <2>1, <3>1
            <4> QED BY <1>3, <1>7, <4>1, <4>2 DEF Line
        <3> QED BY <1>11, <2>3, <3>2 DEF Beginnings, Nowhere
    <2>4. \A j \in 1 .. (IF failed' THEN pos' - 1 ELSE pos') : Right(j)'
        <3>1. CASE failed'
            BY <1>2, <2>2, <3>1
        <3>2. CASE ~failed'
            <4>1. \A j \in 1 .. Here : j \in 1 .. pos \/ j = i
                BY <1>2, <1>7
            <4> HIDE DEF Right
            <4> QED BY <1>2, <2>2, <2>3, <3>2, <4>1
        <3> QED BY <3>1, <3>2
    <2> QED BY <2>4 DEF FuzzyNesting
<1> QED BY <1>2, <1>4, <1>8, <1>9, <1>10, <1>11

\* A line that is left where it is has no place.
LEMMA LeftNowhere ==
    ASSUME SourceTyped, Understand, UNCHANGED place
    PROVE  AppendTo(Nowhere)
BY DEF SourceTyped, Understand, AppendTo, Here

\* A line of a block goes where it belongs, and is open if it heads one.
LEMMA EnterStep ==
    ASSUME FuzzyInv, Enter, failed' = failed, NEW b \in Place, AppendTo(b),
           b = IF Unplaced(Here, Home[Here]) THEN Nowhere ELSE Home[Here],
           IF Line.kind \in Openers \/ (Line.kind = "else" /\ b = Nowhere)
           THEN HeadEntry(Here) \in StackEntry /\ stack' = Append(Blocks, HeadEntry(Here))
           ELSE stack' = Blocks
    PROVE  FuzzyInv'
<1> DEFINE heads == Line.kind \in Openers \/ (Line.kind = "else" /\ b = Nowhere)
           above == Over(Here, OpenHeads)
<1>1. /\ SourceTyped /\ FuzzyStack /\ ~failed /\ Understand /\ Line.kind \notin Beginnings
      /\ mentioned \in STRING
    BY DEF FuzzyInv, Enter, Understand, Beginnings
<1>2. /\ pos \in Nat /\ Here \in 1 .. Len(lines) /\ pos' = Here /\ Here - 1 = pos
      /\ Line = lines[Here]
    BY <1>1, UnderstandIs DEF Here, Line
<1>3. PICK left : left = Blocks
    OBVIOUS
<1>4. /\ left \in Seq(StackEntry) /\ left # <<>>
      /\ left[1].block = TriggerBody(pos) /\ Lists(left, HeadEntries(above))
    BY <1>1, <1>2, <1>3, BlocksAre
<1>5. PICK new : new = HeadEntry(Here)
    OBVIOUS
<1>6. ASSUME NEW e \in HeadEntries(above) PROVE e.indent < new.indent
    <2>1. PICK j \in above : e = HeadEntry(j)
        BY DEF HeadEntries
    <2>2. lines[j].indent < lines[Here].indent /\ j \in OpenHeads
        BY DEF Over
    <2>3. j \in 1 .. Len(lines)
        BY <1>2, <2>2 DEF OpenHeads, OpenAt
    <2>4. lines[j].indent \in Nat /\ lines[Here].indent \in Nat
        BY <1>1, <1>2, <2>3, LineTyped
    <2> QED BY <1>5, <2>1, <2>2, <2>4 DEF HeadEntry, Entry
<1>7. heads => /\ Append(left, new) \in Seq(StackEntry) /\ Append(left, new) # <<>>
               /\ Append(left, new)[1] = left[1]
               /\ Lists(Append(left, new), HeadEntries(above) \cup {new})
    <2> HIDE DEF above
    <2>1. heads => new \in StackEntry
        BY <1>5
    <2> HIDE DEF heads
    <2> QED BY <1>4, <1>6, <2>1, AppendLists
<1>8. stack' = IF heads THEN Append(left, new) ELSE left
    BY <1>3, <1>5
<1> HIDE DEF heads
<1>9. stack' \in Seq(StackEntry) /\ stack' # <<>> /\ stack'[1] = left[1]
    BY <1>4, <1>7, <1>8
<1>10. failed' \in BOOLEAN
    BY <1>1 DEF SourceTyped
<1>11. /\ SourceTyped' /\ mentioned' \in STRING /\ FuzzyNesting'
       /\ TriggerBody(pos)' = TriggerBody(Here)
       /\ \A j \in 1 .. Here : HeadEntry(j)' = HeadEntry(j)
       /\ OpenHeads' = above \cup (IF heads THEN {Here} ELSE {})
    BY <1>1, <1>9, <1>10, FuzzyReads DEF heads
<1>12. HeadEntries(OpenHeads)' = HeadEntries(above) \cup (IF heads THEN {new} ELSE {})
    <2>1. PICK S : S = above \cup (IF heads THEN {Here} ELSE {})
        OBVIOUS
    <2>2. \A j \in S : j \in 1 .. Here
        BY <1>2, <2>1 DEF Over, OpenHeads, OpenAt
    <2> HIDE DEF above
    <2>3. HeadEntries(OpenHeads)' = {HeadEntry(j) : j \in S}
        BY <1>11, <2>1, <2>2 DEF HeadEntries
    <2>4. {HeadEntry(j) : j \in S} = HeadEntries(above) \cup (IF heads THEN {new} ELSE {})
        BY <1>5, <2>1 DEF HeadEntries
    <2> QED BY <2>3, <2>4
<1>13. Lists(stack', HeadEntries(above) \cup (IF heads THEN {new} ELSE {}))
    <2> HIDE DEF above
    <2>1. CASE heads
        BY <1>7, <1>8, <2>1
    <2>2. CASE ~heads
        <3>1. HeadEntries(above) \cup {} = HeadEntries(above)
            OBVIOUS
        <3> QED BY <1>4, <1>8, <2>2, <3>1
    <2> QED BY <2>1, <2>2
<1>14. Lists(stack, HeadEntries(OpenHeads))'
    BY <1>12, <1>13 DEF Lists
<1>15. stack'[1].block = TriggerBody(pos)'
    BY <1>1, <1>2, <1>4, <1>9, <1>11, SectionGoesOn
<1>16. trigger' # Nowhere
    BY DEF Enter, Body, Nowhere
<1>17. FuzzyStack'
    BY <1>9, <1>14, <1>15, <1>16 DEF FuzzyStack, Nowhere
<1> QED BY <1>11, <1>17 DEF FuzzyInv

\* A line that begins or ends a trigger.
LEMMA BeginningStep ==
    ASSUME FuzzyInv, BeginTrigger \/ DeclareGlobal
    PROVE  FuzzyInv'
<1>1. /\ SourceTyped /\ ~failed /\ Understand /\ mentioned \in STRING
      /\ Line.kind \in Beginnings /\ AppendTo(Program)
      /\ Line.kind = "global" <=> DeclareGlobal
    BY DEF FuzzyInv, BeginTrigger, DeclareGlobal, Understand, Beginnings
<1>2. /\ pos \in Nat /\ Here \in 1 .. Len(lines) /\ pos' = Here /\ Line = lines[Here]
    BY <1>1, UnderstandIs DEF Line
<1>3. PICK e : e = Entry(Line.indent, Body(Here))
    OBVIOUS
<1>4. e \in StackEntry /\ e.block = Body(Here)
    BY <1>1, <1>2, <1>3, LineTyped DEF Entry, Body, StackEntry
<1>5. PICK one : one = <<e>>
    OBVIOUS
<1>6. one \in Seq(StackEntry) /\ one # <<>> /\ Len(one) = 1 /\ one[1] = e
    BY <1>4, <1>5
<1>7. stack' = IF Line.kind = "global" THEN stack ELSE one
    BY <1>1, <1>3, <1>5 DEF BeginTrigger, DeclareGlobal
<1>8. stack' \in Seq(StackEntry) /\ failed' = FALSE /\ Program \in Place
    BY <1>1, <1>6, <1>7 DEF BeginTrigger, DeclareGlobal, SourceTyped, Place, Program
<1>9. /\ SourceTyped' /\ mentioned' \in STRING /\ FuzzyNesting'
      /\ Section(pos)' = Section(Here) /\ TriggerBody(pos)' = TriggerBody(Here)
    BY <1>1, <1>8, FuzzyReads
<1>10. /\ Section(Here) = {}
       /\ TriggerBody(Here) = IF Line.kind = "global" THEN Body(0) ELSE Body(Here)
    BY <1>1, <1>2, SectionEnds
<1>11. FuzzyStack'
    <2>1. CASE DeclareGlobal
        <3>1. trigger' = Nowhere
            BY <2>1 DEF DeclareGlobal
        <3> QED BY <1>1, <1>9, <1>10, <2>1, <3>1 DEF FuzzyStack, Nowhere, Body
    <2>2. CASE ~DeclareGlobal
        <3>1. trigger' = Body(Here) /\ stack' = one
            BY <1>1, <1>7, <2>2 DEF BeginTrigger
        <3>2. trigger' # Nowhere
            BY <3>1 DEF Body, Nowhere
        <3>3. OpenHeads' = {}
            BY <1>9, <1>10 DEF OpenHeads, OpenAt, HeadsIn
        <3>4. HeadEntries(OpenHeads)' = {}
            BY <3>3 DEF HeadEntries
        <3>5. Lists(one, {})
            BY <1>6 DEF Lists
        <3>6. Lists(stack, HeadEntries(OpenHeads))'
            BY <3>1, <3>4, <3>5 DEF Lists
        <3>7. stack'[1].block = TriggerBody(pos)'
            BY <1>1, <1>4, <1>6, <1>9, <1>10, <2>2, <3>1
        <3> QED BY <1>6, <3>1, <3>2, <3>6, <3>7 DEF FuzzyStack, Nowhere
    <2> QED BY <2>1, <2>2
<1> QED BY <1>9, <1>11 DEF FuzzyInv

\* Every line of the fuzzy parser keeps the invariant.
LEMMA FuzzyStep ==
    ASSUME FuzzyInv, ParseLine
    PROVE  FuzzyInv'
<1>1. CASE BeginTrigger \/ DeclareGlobal
    BY <1>1, BeginningStep
<1>2. CASE OpenBlock \/ OpenElse \/ Statement \/ PassOver \/ OpenInPython
    <2>1. Enter /\ Understand
        BY <1>2 DEF OpenBlock, OpenElse, Statement, PassOver, OpenInPython, Enter
    <2>2. /\ SourceTyped /\ ~failed /\ mentioned \in STRING /\ Line.kind \notin Beginnings
        BY <2>1 DEF FuzzyInv, Enter, Understand, Beginnings
    <2>3. /\ pos \in Nat /\ Here \in 1 .. Len(lines) /\ Line = lines[Here]
          /\ Line.indent \in Nat
        BY <2>1, <2>2, UnderstandIs, LineTyped DEF Line
    <2>4. /\ Blocks \in Seq(StackEntry) /\ Current \in Nat \X {"body", "else"}
          /\ Current = Home[Here]
        BY <2>2, <2>3, BlocksAre
    <2>5. /\ PrecedingIf # {} <=> AfterIf(Here, Home[Here])
          /\ \A j \in PrecedingIf :
                 j \in Nat /\ j = Max({k \in 1 .. Here - 1 : place[k] = Home[Here]})
        BY <2>2, <2>3, <2>4, PrecedingIfIs
    <2>6. Current \in Place /\ Current # Nowhere /\ Nowhere \in Place
        BY <2>4 DEF Place, Nowhere
    <2>11. Unplaced(Here, Home[Here])
               <=> \/ Line.kind = "else" /\ AfterIf(Here, Home[Here])
                   \/ Line.kind = "vague" /\ ~InPython
        BY <2>3, <2>4 DEF Unplaced, InPython
    <2>7. CASE OpenBlock
        <3>1. HeadEntry(Here) = Entry(Line.indent + 1, Body(Here))
            BY <2>3, <2>7 DEF OpenBlock, HeadEntry, HeadBlock, Openers
        <3>2. HeadEntry(Here) \in StackEntry
            BY <2>3, <3>1 DEF Entry, Body, StackEntry
        <3>3. /\ AppendTo(Current) /\ failed' = failed /\ Line.kind \in Openers
              /\ Line.kind \notin {"else", "vague"}
              /\ stack' = Append(Blocks, HeadEntry(Here))
            BY <2>7, <3>1 DEF OpenBlock, Openers
        <3> QED BY <2>1, <2>4, <2>6, <2>11, <3>2, <3>3, EnterStep
    <2>8. CASE OpenElse
        <3>1. PICK j \in PrecedingIf : stack' = Append(Blocks, Entry(Line.indent + 1, Else(j)))
            BY <2>8 DEF OpenElse
        <3>2. HeadEntry(Here) = Entry(Line.indent + 1, Else(j)) /\ j \in Nat
            BY <2>3, <2>5, <2>8 DEF OpenElse, HeadEntry, HeadBlock
        <3>3. HeadEntry(Here) \in StackEntry
            BY <2>3, <3>2 DEF Entry, Else, StackEntry
        <3>4. AppendTo(Nowhere)
            BY <2>1, <2>2, <2>8, LeftNowhere DEF OpenElse
        <3>5. /\ failed' = failed /\ Line.kind = "else" /\ AfterIf(Here, Home[Here])
              /\ stack' = Append(Blocks, HeadEntry(Here))
            BY <2>5, <2>8, <3>1, <3>2 DEF OpenElse
        <3> QED BY <2>1, <2>6, <2>11, <3>3, <3>4, <3>5, EnterStep
    <2>9. CASE Statement
        <3>1. /\ AppendTo(Current) /\ failed' = failed /\ stack' = Blocks
              /\ Line.kind \notin Openers
              /\ ~Unplaced(Here, Home[Here])
            BY <2>5, <2>9, <2>11 DEF Statement, Openers
        <3>2. ~(Line.kind = "else" /\ Current = Nowhere)
            BY <2>6
        <3> QED BY <2>1, <2>4, <2>6, <3>1, <3>2, EnterStep
    <2>12. CASE PassOver
        <3>1. /\ failed' = failed /\ stack' = Blocks /\ Line.kind = "vague" /\ ~InPython
              /\ UNCHANGED place
            BY <2>12 DEF PassOver
        <3>2. AppendTo(Nowhere)
            BY <2>1, <2>2, <3>1, LeftNowhere
        <3>3. Line.kind \notin Openers /\ Line.kind # "else" /\ Unplaced(Here, Home[Here])
            BY <2>11, <3>1 DEF Openers
        <3> QED BY <2>1, <2>6, <3>1, <3>2, <3>3, EnterStep
    <2>10. CASE OpenInPython
        <3>1. failed' = TRUE /\ stack' = Blocks /\ UNCHANGED place
            BY <2>10 DEF OpenInPython
        <3>2. AppendTo(Nowhere)
            BY <2>1, <2>2, <3>1, LeftNowhere
        <3>3. SourceTyped' /\ mentioned' \in STRING /\ FuzzyNesting'
            BY <2>1, <2>4, <2>6, <3>1, <3>2, FuzzyReads
        <3> QED BY <3>1, <3>3 DEF FuzzyInv
    <2> QED BY <1>2, <2>7, <2>8, <2>9, <2>10, <2>12
<1> QED BY <1>1, <1>2 DEF ParseLine
-----------------------------------------------------------------------------
(* The toolchain *)

ParserInv ==
    /\ dialect = "fuzzy" => FuzzyInv
    /\ dialect # "fuzzy" => StrictInv

\* What the lines are that a parser starts with.
LEMMA SourceIs ==
    ASSUME Init
    PROVE  lines \in Seq(SourceLine) /\ (dialect = "strict" => lines \in Seq(StrictSourceLine))
<1>1. PICK s \in Sources :
          /\ dialect = s.dialect
          /\ lines = IF dialect = "strict" THEN Tokenize(s.lines) ELSE s.lines
    BY DEF Init
<1>2. s.lines \in Seq(IF s.dialect = "strict" THEN StrictSourceLine ELSE SourceLine)
    BY SourcesAssumption
<1>3. StrictSourceLine \subseteq SourceLine
    BY DEF StrictSourceLine
<1>4. CASE dialect = "strict"
    <2>1. ASSUME NEW w \in StrictSourceLine, NEW k \in Kind
          PROVE  [w EXCEPT !.kind = k] \in StrictSourceLine
        <3>1. PICK v : v = [w EXCEPT !.kind = k]
            OBVIOUS
        <3>2. w \in SourceLine /\ w.var \in Var /\ {w.left, w.right} \subseteq StrictOperand
            BY DEF StrictSourceLine
        <3>3. v \in SourceLine /\ v.var = w.var /\ v.left = w.left /\ v.right = w.right
            BY <3>1, <3>2 DEF SourceLine
        <3> QED BY <3>1, <3>2, <3>3 DEF StrictSourceLine
    <2>2. s.lines \in Seq(StrictSourceLine)
        BY <1>1, <1>2, <1>4
    <2>3. lines \in Seq(StrictSourceLine)
        BY <1>1, <1>3, <1>4, <2>1, <2>2, TokenizeIs
    <2> QED BY <1>3, <2>3
<1>5. CASE dialect # "strict"
    BY <1>1, <1>2, <1>5
<1> QED BY <1>4, <1>5

\* The parsers start right.
LEMMA ParserStarts ==
    ASSUME Init
    PROVE  ParserInv
<1>3. lines \in Seq(SourceLine)
    BY SourceIs
<1>4. SourceLine \subseteq TextLine
    BY DEF SourceLine, TextLine
<1>5. lines \in Seq(TextLine)
    BY <1>3, <1>4
<1>6. /\ pos = 0 /\ place = [i \in 1 .. Len(lines) |-> Nowhere] /\ stack = <<>>
      /\ failed = FALSE /\ trigger = Nowhere /\ mentioned = NoVar
    BY <1>5 DEF Init, FuzzyInit, SourceInit
<1>7. SourceTyped
    <2>1. Nowhere \in Place /\ stack \in Seq(StackEntry)
        BY <1>6 DEF Place, Nowhere
    <2>2. \A i \in pos + 1 .. Len(lines) : place[i] = Nowhere
        BY <1>5, <1>6
    <2>3. pos \in 0 .. Len(lines)
        BY <1>5, <1>6
    <2>4. place \in [1 .. Len(lines) -> Place]
        BY <1>6, <2>1
    <2> QED BY <1>5, <1>6, <2>1, <2>2, <2>3, <2>4 DEF SourceTyped
<1>8. FuzzyInv
    <2>1. mentioned \in STRING
        BY <1>6, FuzzyAssumption
    <2>2. FuzzyNesting
        BY <1>6 DEF FuzzyNesting
    <2>3. Section(0) = {}
        BY DEF Section
    <2>4. TriggerBody(0) = Body(0)
        <3>1. TriggerOver(0) = {0}
            BY DEF TriggerOver
        <3>2. PICK m : m = Max({0})
            OBVIOUS
        <3>3. m = 0
            BY <3>2, MaxIs
        <3> QED BY <3>1, <3>2, <3>3 DEF TriggerBody
    <2> QED BY <1>6, <1>7, <2>1, <2>2, <2>3, <2>4 DEF FuzzyInv, FuzzyStack
<1>9. StrictInv
    <2>1. Statements = {}
        BY <1>6 DEF Statements
    <2>2. OpenAt(pos, ReadsIn) = {}
        BY <1>6 DEF OpenAt
    <2> QED BY <1>6, <1>7, <2>1, <2>2 DEF StrictInv, StrictNesting, StrictStack
<1> QED BY <1>8, <1>9 DEF ParserInv

\* What the parsers do not change keeps what is said of them.
LEMMA ParserStays ==
    ASSUME ParserInv, UNCHANGED <<parserVars, dialect>>
    PROVE  ParserInv'
<1>1. /\ lines' = lines /\ pos' = pos /\ place' = place /\ stack' = stack /\ failed' = failed
      /\ trigger' = trigger /\ mentioned' = mentioned /\ dialect' = dialect
    BY DEF parserVars, sourceVars, fuzzyVars
<1>2. SourceTyped' <=> SourceTyped
    BY <1>1 DEF SourceTyped, Nowhere
<1>3. \A i : Section(i)' = Section(i)
    BY <1>1 DEF Section
<1>4. \A i : TriggerBody(i)' = TriggerBody(i)
    BY <1>1 DEF TriggerBody, TriggerOver, Body
<1>5. \A j : Heads(j)' <=> Heads(j)
    BY <1>1 DEF Heads, Nowhere
<1>6. \A i : Opener(i)' = Opener(i)
    BY <1>1, <1>3, <1>5 DEF Opener, Innermost, Encloses
<1>7. Home' = Home
    BY <1>1, <1>4, <1>6 DEF Home, Body, Else
<1>8. FuzzyInv' <=> FuzzyInv
    <2>1. \A i : Unplaced(i, Home[i])' <=> Unplaced(i, Home[i])
        BY <1>1, <1>7 DEF Unplaced, AfterIf, IsPython
    <2>2. FuzzyNesting' <=> FuzzyNesting
        BY <1>1, <1>7, <2>1 DEF FuzzyNesting, Nowhere, Beginnings
    <2>3. OpenHeads' = OpenHeads
        BY <1>1, <1>3, <1>5 DEF OpenHeads, OpenAt, HeadsIn
    <2>4. \A j : HeadEntry(j)' = HeadEntry(j)
        BY <1>1, <1>7 DEF HeadEntry, HeadBlock, Entry, Body, Else
    <2>5. HeadEntries(OpenHeads)' = HeadEntries(OpenHeads)
        BY <2>3, <2>4 DEF HeadEntries
    <2>6. Lists(stack, HeadEntries(OpenHeads))' <=> Lists(stack, HeadEntries(OpenHeads))
        BY <1>1, <2>5 DEF Lists
    <2>7. Section(pos)' = Section(pos) /\ TriggerBody(pos)' = TriggerBody(pos)
        BY <1>1, <1>3, <1>4 DEF Section, TriggerBody, TriggerOver, Body
    <2>8. FuzzyStack' <=> FuzzyStack
        BY <1>1, <2>6, <2>7 DEF FuzzyStack, Nowhere, Body
    <2> QED BY <1>1, <1>2, <2>2, <2>8 DEF FuzzyInv
<1>9. StrictInv' <=> StrictInv
    <2>1. \A j : Reads(j)' <=> Reads(j)
        BY <1>1 DEF Reads, Nowhere
    <2>2. \A i : Innermost(i, Reads)' = Innermost(i, Reads)
        BY <1>1, <2>1 DEF Innermost, Encloses
    <2>3. Statements' = Statements
        BY <1>1 DEF Statements, Nowhere, Program
    <2>4. StrictNesting' <=> StrictNesting
        BY <1>1, <2>2, <2>3 DEF StrictNesting, Body, Program
    <2>5. OpenAt(pos, ReadsIn)' = OpenAt(pos, ReadsIn)
        BY <1>1, <2>1 DEF OpenAt, ReadsIn
    <2>6. ReadEntries(OpenAt(pos, ReadsIn))' = ReadEntries(OpenAt(pos, ReadsIn))
        BY <1>1, <2>5 DEF ReadEntries, ReadEntry, Entry, Body
    <2>7. Lists(stack, ReadEntries(OpenAt(pos, ReadsIn)))'
              <=> Lists(stack, ReadEntries(OpenAt(pos, ReadsIn)))
        BY <1>1, <2>6 DEF Lists
    <2>8. Begun(pos)' = Begun(pos)
        BY <1>1 DEF Begun, Program
    <2>9. StrictStack' <=> StrictStack
        BY <1>1, <2>5, <2>7, <2>8 DEF StrictStack, Entry, Body
    <2> QED BY <1>2, <2>4, <2>9 DEF StrictInv
<1> QED BY <1>1, <1>8, <1>9 DEF ParserInv

\* Every step of the toolchain keeps the invariant: only the parsers change the tree.
LEMMA ParserInvStep ==
    ASSUME ParserInv, [Next]_vars
    PROVE  ParserInv'
<1>1. CASE Parse
    <2>1. dialect' = dialect
        BY <1>1 DEF Parse
    <2>2. CASE dialect = "fuzzy" /\ ParseLine
        BY <2>1, <2>2, FuzzyStep DEF ParserInv
    <2>3. CASE dialect = "strict" /\ StrictLine
        BY <2>1, <2>3, StrictStep DEF ParserInv
    <2> QED BY <1>1, <2>2, <2>3 DEF Parse
<1>2. CASE ~Parse
    <2>1. UNCHANGED <<parserVars, dialect>>
        BY <1>2 DEF Next, vars, Begin, Step, Connect, Continue, Interpreting, Analyse, Lower,
                    Execute
    <2> QED BY <2>1, ParserStays
<1> QED BY <1>1, <1>2

\* Whatever the source, FuzzyParser nests it as its indentation shows: a line is in the
\* block of the nearest opener that it is under, with the trigger of its section at the
\* bottom, however many blocks were opened, left and gone on with by an Else in between.
\* Only an Else that goes on with an If and a line that says nothing make no node.
THEOREM NestingIsRight == Spec => []NestingFollowsIndentation
<1>1. Init => ParserInv
    BY ParserStarts
<1>2. ParserInv /\ [Next]_vars => ParserInv'
    BY ParserInvStep
<1>3. ParserInv => NestingFollowsIndentation
    BY DEF ParserInv, FuzzyInv, NestingFollowsIndentation
<1> QED BY <1>1, <1>2, <1>3, PTL DEF Spec

\* Whatever the source, Parser gives each statement to the nearest IF or REPEAT without a
\* colon that it is under, and else to the last trigger: one with a colon is passed over,
\* however it is indented, so the lines under it are not in its body.
THEOREM StrictNestingIsRight == Spec => []ColonsReadNothing
<1>1. Init => ParserInv
    BY ParserStarts
<1>2. ParserInv /\ [Next]_vars => ParserInv'
    BY ParserInvStep
<1>3. ParserInv => ColonsReadNothing
    BY DEF ParserInv, StrictInv, ColonsReadNothing
<1> QED BY <1>1, <1>2, <1>3, PTL DEF Spec
-----------------------------------------------------------------------------
(* Compilable programs: their statements *)

\* What the strict parser makes of lines, besides where it puts them: only statements
\* go to a block, after a trigger.
StrictWords ==
    /\ lines \in Seq(StrictSourceLine)
    /\ \A i \in Nodes(Program) : lines[i].kind \in {"start", "teach", "global"}
    /\ \A i \in Statements : /\ lines[i].kind \in {"if", "repeat"} \cup Simple \cup OnFiles
                             /\ Begun(i) # {}

\* What a line of the strict parser adds to the tree, when it is where it belongs.
LEMMA WordsRead ==
    ASSUME StrictInv, StrictWords, Read, NEW b, AppendTo(b),
           b = Program => Line.kind \in {"start", "teach", "global"},
           b \notin {Nowhere, Program} =>
               stack # <<>> /\ Line.kind \in {"if", "repeat"} \cup Simple \cup OnFiles
    PROVE  StrictWords'
<1>1. PICK h : h = Here
    OBVIOUS
<1>2. /\ place \in [1 .. Len(lines) -> Place] /\ pos \in Nat /\ h = pos + 1
      /\ h \in 1 .. Len(lines) /\ lines' = lines
      /\ \A i \in pos + 1 .. Len(lines) : place[i] = Nowhere
    BY <1>1 DEF StrictInv, SourceTyped, Read, Here
<1>3. place' = [place EXCEPT ![h] = b]
    BY <1>1 DEF AppendTo
<1>4. DOMAIN place' = DOMAIN place /\ DOMAIN place = 1 .. Len(lines)
      /\ place'[h] = b /\ \A i \in 1 .. Len(lines) : i # h => place'[i] = place[i]
    BY <1>2, <1>3
<1>5. Line = lines[h]
    BY <1>1 DEF Line
<1>6. ASSUME NEW i \in Nodes(Program)' PROVE lines[i].kind \in {"start", "teach", "global"}
    <2>1. i \in 1 .. Len(lines) /\ place'[i] = Program
        BY <1>4 DEF Nodes, Program
    <2>2. CASE i = h
        BY <1>4, <1>5, <2>1, <2>2
    <2>3. CASE i # h
        BY <1>4, <2>1, <2>3 DEF StrictWords, Nodes
    <2> QED BY <2>2, <2>3
<1>7. ASSUME NEW i \in 1 .. Len(lines), i <= h, NEW j \in Begun(i), j <= pos PROVE j \in Begun(i)'
    <2>1. j \in 1 .. i /\ j # h /\ j \in 1 .. Len(lines)
        BY <1>2, <1>7 DEF Begun
    <2> QED BY <1>2, <1>4, <2>1 DEF Begun, Program
<1>8. ASSUME NEW i \in Statements'
      PROVE  lines[i].kind \in {"if", "repeat"} \cup Simple \cup OnFiles /\ Begun(i)' # {}
    <2>1. i \in 1 .. Len(lines) /\ place'[i] \notin {Nowhere, Program}
        BY <1>4 DEF Statements, Nowhere, Program
    <2>2. CASE i = h
        <3>1. stack # <<>> /\ lines[i].kind \in {"if", "repeat"} \cup Simple \cup OnFiles
            BY <1>4, <1>5, <2>1, <2>2
        <3>2. Begun(pos) # {}
            BY <3>1 DEF StrictInv, StrictStack
        <3>3. PICK j : j \in Begun(pos)
            BY <3>2
        <3>4. j \in Begun(i) /\ j <= pos
            BY <1>2, <2>2, <3>3 DEF Begun
        <3> QED BY <1>2, <1>7, <2>1, <2>2, <3>1, <3>4
    <2>3. CASE i # h
        <3>1. i \in Statements
            BY <1>4, <2>1, <2>3 DEF Statements
        <3>2. lines[i].kind \in {"if", "repeat"} \cup Simple \cup OnFiles /\ Begun(i) # {}
            BY <3>1 DEF StrictWords
        <3>3. i <= pos
            BY <1>2, <2>1, <3>1 DEF Statements
        <3>4. PICK j : j \in Begun(i)
            BY <3>2
        <3>5. j <= pos
            BY <1>2, <2>1, <3>3, <3>4 DEF Begun
        <3> QED BY <1>2, <1>7, <2>1, <3>2, <3>3, <3>4, <3>5
    <2> QED BY <2>2, <2>3
<1> QED BY <1>2, <1>6, <1>8 DEF StrictWords

\* Every line of the strict parser keeps that.
LEMMA WordsStep ==
    ASSUME StrictInv, StrictWords, StrictLine
    PROVE  StrictWords'
<1>1. SourceTyped
    BY DEF StrictInv
<1>2. CASE StrictTrigger
    BY <1>2, WordsRead DEF StrictTrigger, Program
<1>3. CASE StrictTopLevel
    <2>1. PICK b : b = IF Line.kind = "global" THEN Program ELSE Nowhere
        OBVIOUS
    <2> QED BY <1>3, <2>1, WordsRead DEF StrictTopLevel, Program, Nowhere
<1>10. CASE StrictWhen
    <2>1. Read /\ AppendTo(Nowhere)
        BY <1>1, <1>10, StaysNowhere DEF StrictWhen
    <2> QED BY <2>1, WordsRead DEF Nowhere, Program
<1>4. ~TopLevel => stack # <<>>
    BY DEF TopLevel
<1>5. PICK c : c = Last(Reading(stack)).block
    OBVIOUS
<1>6. ~TopLevel /\ Read => c \in Nat \X {"body", "else"}
    <2>1. ~TopLevel /\ Read => Here \in 1 .. Len(lines)
        BY <1>1 DEF SourceTyped, Read, Here
    <2> QED BY <1>4, <1>5, <2>1, ReadingIs
<1>7. ~TopLevel /\ Read => c # Program
    BY <1>6 DEF Program
<1>8. CASE StrictOpener \/ StrictStatement \/ StrictFileStatement
    <2>1. /\ Read /\ ~TopLevel /\ AppendTo(c)
          /\ Line.kind \in {"if", "repeat"} \cup Simple \cup OnFiles
        BY <1>5, <1>8 DEF StrictOpener, StrictStatement, StrictFileStatement, Take
    <2> QED BY <1>4, <1>7, <2>1, WordsRead
<1>9. CASE StrictJunk \/ StrictBroken
    <2>1. Read /\ AppendTo(Nowhere)
        BY <1>1, <1>9, StaysNowhere DEF StrictJunk, StrictBroken
    <2> QED BY <2>1, WordsRead DEF Nowhere, Program
<1> QED BY <1>2, <1>3, <1>8, <1>9, <1>10 DEF StrictLine

\* The IFs of a program.
Conds == {j \in Statements : lines[j].kind = "if"}

\* The names in a statement.
Names(i) == {x \in Var : Name(x) \in {lines[i].left, lines[i].right}}

\* The variables set in the body of line j.
SetIn(j) == {lines[i].var : i \in {k \in Nodes(Body(j)) : lines[k].kind = "set"}}

\* The statements of a compilable program, its trigger at line s: they are in the block of
\* the trigger, or in that of the one IF, which the others of the trigger do not interrupt.
Tree(s) ==
    /\ s \in 1 .. Len(lines) /\ s \notin Statements
    /\ Triggers("start") = {s} /\ Triggers("global") = {}
    /\ \A i \in Statements :
          /\ i \in s + 1 .. Len(lines) /\ lines[i] \in StrictSourceLine
          /\ lines[i].kind \in {"if"} \cup Simple \cup OnFiles
          /\ place[i] = Body(s) \/ \E j \in Conds : j < i /\ place[i] = Body(j)
    /\ \A j, k \in Conds : j = k
    /\ \A j \in Conds :
          /\ place[j] = Body(s)
          /\ \A i \in Nodes(Body(j)), k \in Nodes(Body(s)) : k > j => i < k

\* The numbers and the strings that the SETs and IFs of a program say, and 0, which a
\* name without a value stands for.
Keeping == {i \in Statements : lines[i].kind \in {"set", "if"}}

Numbers == {k \in Int : k = 0 \/ \E i \in Keeping : Num(k) \in {lines[i].left, lines[i].right}}
Words == {w \in STRING : \E i \in Keeping : Str(w) \in {lines[i].left, lines[i].right}}

\* No comparison is one of a number with the string that spells it.
Unlike ==
    \/ Words = {}
    \/ /\ \A i \in Statements : lines[i].kind = "set" => lines[i].op = "NONE"
       /\ \A k \in Numbers : ToString(k) \notin Words

\* What else a program the compiler translates faithfully keeps to.
Faithful ==
    /\ \A j \in Conds : \E i \in Statements :
          i < j /\ lines[i].kind = "set" /\ lines[i].var = lines[j].var
    /\ \A j \in Conds : \A k \in Statements :
          k > j /\ k \notin Nodes(Body(j)) => Names(k) \cap SetIn(j) = {}
    /\ \A i, k \in Statements :
          lines[i].kind = "set" => Str(lines[i].var) \notin {lines[k].left, lines[k].right}
    /\ Conds # {} => Unlike

\* A statement is in the block of the trigger or in that of an IF or a REPEAT before it,
\* which its indentation shows.
LEMMA StatementIs ==
    ASSUME StrictInv, StrictWords, NEW s, Triggers("start") = {s}, Triggers("teach") = {},
           NEW i \in Statements
    PROVE  /\ s \in Begun(i)
           /\ \/ Innermost(i, Reads) = {} /\ place[i] = Body(s)
              \/ \E j \in Innermost(i, Reads) :
                    /\ j \in Statements /\ lines[j].kind \in {"if", "repeat"} /\ j < i
                    /\ place[i] = Body(j)
<1>1. i \in 1 .. Len(lines) /\ place \in [1 .. Len(lines) -> Place]
    BY DEF Statements, StrictInv, SourceTyped
<1>2. Begun(i) = {s}
    <2>1. ASSUME NEW j \in Begun(i) PROVE j = s
        <3>1. j \in Nodes(Program) /\ lines[j].kind \in {"start", "teach"}
            BY <1>1 DEF Begun, Nodes
        <3> QED BY <3>1 DEF Triggers
    <2>2. Begun(i) # {}
        BY DEF StrictWords
    <2> QED BY <2>1, <2>2
<1>3. CASE Innermost(i, Reads) = {}
    <2>1. PICK S : S = Begun(i)
        OBVIOUS
    <2>2. S \subseteq 0 .. i /\ i \in Nat /\ S # {}
        BY <1>1, <1>2, <2>1 DEF Begun
    <2>3. PICK m : m = Max(S)
        OBVIOUS
    <2>4. m = s
        BY <1>2, <2>1, <2>2, <2>3, MaxIs
    <2>5. place[i] = Body(Max(Begun(i)))
        BY <1>3 DEF StrictInv, StrictNesting, Begun
    <2> QED BY <1>2, <1>3, <2>1, <2>3, <2>4, <2>5
<1>4. CASE Innermost(i, Reads) # {}
    <2>1. PICK j \in Innermost(i, Reads) : TRUE
        BY <1>4
    <2>2. place[i] = Body(j)
        BY <2>1 DEF StrictInv, StrictNesting
    <2>3. j \in 1 .. i /\ Encloses(j, i) /\ Reads(j)
        BY DEF Innermost
    <2>4. j < i /\ j \in 1 .. Len(lines) /\ lines[j].kind \in {"if", "repeat"} /\ place[j] # Nowhere
        BY <1>1, <2>3 DEF Encloses, Reads
    <2>5. place[j] # Program
        BY <1>1, <2>4 DEF StrictWords, Nodes
    <2> QED BY <1>1, <1>2, <2>1, <2>2, <2>4, <2>5 DEF Statements
<1> QED BY <1>3, <1>4

\* A set of lines with at most one element.
LEMMA AtMostOne ==
    ASSUME NEW n \in Nat, NEW S \in SUBSET (1 .. n), Cardinality(S) <= 1
    PROVE  \A j, k \in S : j = k
<1>1. IsFiniteSet(S)
    <2>1. IsFiniteSet(1 .. n)
        BY FS_Interval
    <2> QED BY <2>1, FS_Subset
<1>2. Cardinality(S) \in Nat
    BY <1>1, FS_CardinalityType
<1>3. CASE Cardinality(S) = 0
    BY <1>1, <1>3, FS_EmptySet
<1>4. CASE Cardinality(S) = 1
    BY <1>1, <1>4, FS_Singleton
<1> QED BY <1>2, <1>3, <1>4

\* What Compilable says, line by line.
LEMMA CompilableIs ==
    ASSUME SourceTyped, Compilable
    PROVE  /\ \E s : Triggers("start") = {s}
           /\ Triggers("global") = {} /\ Triggers("teach") = {}
           /\ \A i \in Statements : lines[i].kind # "repeat"
           /\ \A j, k \in Conds : j = k
           /\ \A j \in Conds :
                 \E i \in Statements : i < j /\ lines[i].kind = "set" /\ lines[i].var = lines[j].var
           /\ \A j \in Conds : \A i \in Nodes(Body(j)), k \in Statements :
                 lines[i].kind = "set" /\ k > i /\ k \notin Nodes(Body(j)) =>
                     lines[i].var \notin Names(k)
           /\ \A i, k \in Statements :
                 lines[i].kind = "set" => Str(lines[i].var) \notin {lines[k].left, lines[k].right}
           /\ Conds # {} => Unlike
<1> DEFINE of(kind) == {i \in Statements : lines[i].kind = kind}
           said(kind, i) == {v[2] : v \in {w \in {lines[i].left, lines[i].right} : w[1] = kind}}
           strings == UNION {said("str", i) : i \in Statements}
           kept == {i \in Statements : lines[i].kind \in {"set", "if"}}
           words == UNION {said("str", i) : i \in kept}
           numbers == {0} \cup UNION {said("num", i) : i \in kept}
<1>1. /\ Cardinality(Triggers("start")) = 1
      /\ Triggers("global") = {} /\ Triggers("teach") = {}
      /\ of("repeat") = {}
      /\ Cardinality(of("if")) <= 1
      /\ \A j \in of("if") :
            /\ \E i \in of("set") : i < j /\ lines[i].var = lines[j].var
            /\ \A i \in Nodes(Body(j)) \cap of("set"), k \in Statements :
                  k > i /\ k \notin Nodes(Body(j)) => lines[i].var \notin said("name", k)
      /\ \A i \in of("set") : lines[i].var \notin strings
      /\ of("if") # {} => ComparesAlike
    BY DEF Compilable
<1>14. ComparesAlike =>
          \/ words = {}
          \/ /\ \A i \in kept : lines[i].kind = "set" => lines[i].op = "NONE"
             /\ \A k \in numbers : ToString(k) \notin words
    BY DEF ComparesAlike
<1>2. Len(lines) \in Nat /\ DOMAIN place = 1 .. Len(lines)
    BY DEF SourceTyped
<1>3. \E s : Triggers("start") = {s}
    <2>1. Triggers("start") \subseteq 1 .. Len(lines)
        BY <1>2 DEF Triggers, Nodes
    <2>2. IsFiniteSet(1 .. Len(lines))
        BY <1>2, FS_Interval
    <2>3. IsFiniteSet(Triggers("start"))
        BY <2>1, <2>2, FS_Subset
    <2> QED BY <1>1, <2>3, FS_Singleton
<1>4. \A j, k \in Conds : j = k
    <2>1. Conds = of("if")
        BY DEF Conds
    <2>2. Conds \subseteq 1 .. Len(lines)
        BY <1>2 DEF Conds, Statements
    <2>3. Cardinality(Conds) <= 1
        BY <1>1, <2>1
    <2> QED BY <1>2, <2>2, <2>3, AtMostOne
<1>5. \A k \in Statements : \A x :
          Name(x) \in {lines[k].left, lines[k].right} => x \in said("name", k)
    <2> SUFFICES ASSUME NEW k \in Statements, NEW x, Name(x) \in {lines[k].left, lines[k].right}
                 PROVE  x \in said("name", k)
        OBVIOUS
    <2>1. PICK v : v = Name(x)
        OBVIOUS
    <2>2. v[1] = "name" /\ v[2] = x
        BY <2>1 DEF Name
    <2> QED BY <2>1, <2>2
<1>6. \A k \in Statements : \A x : Str(x) \in {lines[k].left, lines[k].right} => x \in strings
    <2> SUFFICES ASSUME NEW k \in Statements, NEW x, Str(x) \in {lines[k].left, lines[k].right}
                 PROVE  x \in strings
        OBVIOUS
    <2>1. PICK v : v = Str(x)
        OBVIOUS
    <2>2. v[1] = "str" /\ v[2] = x
        BY <2>1 DEF Str
    <2>3. x \in said("str", k)
        BY <2>1, <2>2
    <2> QED BY <2>3
<1>11. \A w \in Words : w \in words
    <2> SUFFICES ASSUME NEW w \in Words PROVE w \in words
        OBVIOUS
    <2>1. PICK i \in Keeping : Str(w) \in {lines[i].left, lines[i].right}
        BY DEF Words
    <2>2. PICK v : v = Str(w)
        OBVIOUS
    <2>3. v[1] = "str" /\ v[2] = w
        BY <2>2 DEF Str
    <2>4. w \in said("str", i) /\ i \in kept
        BY <2>1, <2>2, <2>3 DEF Keeping
    <2> QED BY <2>4
<1>12. \A k \in Numbers : k \in numbers
    <2> SUFFICES ASSUME NEW k \in Numbers, k # 0 PROVE k \in numbers
        OBVIOUS
    <2>1. PICK i \in Keeping : Num(k) \in {lines[i].left, lines[i].right}
        BY DEF Numbers
    <2>2. PICK v : v = Num(k)
        OBVIOUS
    <2>3. v[1] = "num" /\ v[2] = k
        BY <2>2 DEF Num
    <2>4. k \in said("num", i) /\ i \in kept
        BY <2>1, <2>2, <2>3 DEF Keeping
    <2> QED BY <2>4
<1> HIDE DEF said, strings, words, numbers
<1>13. Conds # {} => Unlike
    <2>1. words = {} => Words = {}
        BY <1>11
    <2>2. Conds # {} => of("if") # {}
        BY DEF Conds
    <2> QED BY <1>1, <1>11, <1>12, <1>14, <2>1, <2>2 DEF Unlike
<1>7. ASSUME NEW j \in Conds
      PROVE  \E i \in Statements : i < j /\ lines[i].kind = "set" /\ lines[i].var = lines[j].var
    BY <1>1 DEF Conds
<1>8. ASSUME NEW j \in Conds, NEW i \in Nodes(Body(j)), NEW k \in Statements,
             lines[i].kind = "set", k > i, k \notin Nodes(Body(j))
      PROVE  lines[i].var \notin Names(k)
    <2>1. i \in Statements
        BY DEF Nodes, Statements, Body, Nowhere, Program
    <2>2. lines[i].var \notin said("name", k)
        BY <1>1, <1>8, <2>1 DEF Conds
    <2> QED BY <1>5, <2>2 DEF Names
<1>9. ASSUME NEW i \in Statements, NEW k \in Statements, lines[i].kind = "set"
      PROVE  Str(lines[i].var) \notin {lines[k].left, lines[k].right}
    BY <1>1, <1>6, <1>9
<1>10. \A i \in Statements : lines[i].kind # "repeat"
    BY <1>1
<1> QED BY <1>1, <1>3, <1>4, <1>7, <1>8, <1>9, <1>10, <1>13

\* A compilable program is such a tree, and keeps to the rest.
LEMMA TreeIs ==
    ASSUME StrictInv, StrictWords, Compilable
    PROVE  \E s : Tree(s) /\ Faithful
<1>1. SourceTyped /\ place \in [1 .. Len(lines) -> Place] /\ lines \in Seq(StrictSourceLine)
    BY DEF StrictInv, SourceTyped, StrictWords
<1>2. PICK s : Triggers("start") = {s}
    BY <1>1, CompilableIs
<1>3. Triggers("global") = {} /\ Triggers("teach") = {}
    BY <1>1, CompilableIs
<1>4. s \in 1 .. Len(lines) /\ place[s] = Program /\ lines[s].kind = "start"
    BY <1>1, <1>2 DEF Triggers, Nodes
<1>5. s \notin Statements
    BY <1>4 DEF Statements
<1>6. ASSUME NEW i \in Statements
      PROVE  /\ i \in s + 1 .. Len(lines) /\ lines[i] \in StrictSourceLine
             /\ lines[i].kind \in {"if"} \cup Simple \cup OnFiles
             /\ \/ Innermost(i, Reads) = {} /\ place[i] = Body(s)
                \/ \E j \in Innermost(i, Reads) : j \in Conds /\ j < i /\ place[i] = Body(j)
    <2>1. i \in 1 .. Len(lines)
        BY <1>1 DEF Statements
    <2>2. s \in Begun(i)
        BY <1>2, <1>3, StatementIs
    <2>3. s < i
        BY <1>4, <1>5, <2>1, <2>2 DEF Begun
    <2>4. lines[i].kind \in {"if"} \cup Simple \cup OnFiles
        BY <1>1, CompilableIs DEF StrictWords
    <2>5. lines[i] \in StrictSourceLine
        BY <1>1, <2>1
    <2>6. ASSUME NEW j \in Statements, lines[j].kind \in {"if", "repeat"} PROVE j \in Conds
        BY <1>1, <2>6, CompilableIs DEF Conds
    <2>7. \/ Innermost(i, Reads) = {} /\ place[i] = Body(s)
          \/ \E j \in Innermost(i, Reads) :
                /\ j \in Statements /\ lines[j].kind \in {"if", "repeat"} /\ j < i
                /\ place[i] = Body(j)
        BY <1>2, <1>3, StatementIs
    <2>8. i \in s + 1 .. Len(lines)
        BY <1>1, <1>4, <2>1, <2>3
    <2> QED BY <2>4, <2>5, <2>6, <2>7, <2>8
<1>7. \A j, k \in Conds : j = k
    BY <1>1, CompilableIs
<1>8. ASSUME NEW j \in Conds PROVE place[j] = Body(s) /\ j # s /\ j \in 1 .. Len(lines)
    <2>1. j \in Statements /\ j \in 1 .. Len(lines)
        BY <1>1 DEF Conds, Statements
    <2>2. ~(j < j)
        BY <2>1
    <2>3. \/ Innermost(j, Reads) = {} /\ place[j] = Body(s)
          \/ \E k \in Innermost(j, Reads) : k \in Conds /\ k < j /\ place[j] = Body(k)
        BY <1>6, <2>1
    <2>4. ASSUME NEW k \in Conds, k < j PROVE FALSE
        <3>1. k = j
            BY <1>7, <2>4
        <3> QED BY <2>2, <2>4, <3>1
    <2>5. place[j] = Body(s)
        BY <2>3, <2>4
    <2> QED BY <1>5, <2>1, <2>5
<1>9. ASSUME NEW j \in Conds, NEW i \in Nodes(Body(j)), NEW k \in Nodes(Body(s)), k > j
      PROVE  i < k
    <2>1. /\ i \in Statements /\ k \in Statements /\ place[i] = Body(j) /\ place[k] = Body(s)
          /\ i \in 1 .. Len(lines) /\ k \in 1 .. Len(lines)
        <3>1. i \in DOMAIN place /\ k \in DOMAIN place /\ place[i] = Body(j) /\ place[k] = Body(s)
            BY DEF Nodes
        <3>2. Body(j) \notin {Nowhere, Program} /\ Body(s) \notin {Nowhere, Program}
            BY DEF Body, Nowhere, Program
        <3> QED BY <1>1, <3>1, <3>2 DEF Statements
    <2>2. Body(j) # Body(s)
        BY <1>8 DEF Body
    <2> SUFFICES ASSUME k < i PROVE FALSE
        BY <2>1, <2>2
    <2>3. j \in Innermost(i, Reads)
        BY <1>6, <1>7, <2>1, <2>2
    <2>4. Encloses(j, i) /\ Reads(j)
        BY <2>3 DEF Innermost
    <2>5. Encloses(j, k)
        BY <1>8, <1>9, <2>1, <2>4 DEF Encloses
    <2>6. ASSUME NEW m \in j + 1 .. k, Encloses(m, k), Reads(m) PROVE FALSE
        <3>1. m \in 1 .. Len(lines) /\ place[m] # Nowhere /\ lines[m].kind \in {"if", "repeat"}
            BY <1>8, <2>1, <2>6 DEF Reads
        <3>2. m \in Statements
            BY <1>1, <3>1 DEF Statements, StrictWords, Nodes
        <3>3. m \in Conds
            BY <1>1, <3>1, <3>2, CompilableIs DEF Conds
        <3> QED BY <1>7, <1>8, <3>3
    <2>7. j \in 1 .. k
        BY <1>8, <1>9, <2>1
    <2>8. j \in Innermost(k, Reads)
        BY <2>4, <2>5, <2>6, <2>7 DEF Innermost
    <2>9. place[k] = Body(j)
        BY <2>1, <2>8 DEF StrictInv, StrictNesting
    <2> QED BY <2>1, <2>2, <2>9
<1>10. Tree(s)
    BY <1>2, <1>3, <1>4, <1>5, <1>6, <1>7, <1>8, <1>9 DEF Tree
<1>11. ASSUME NEW j \in Conds, NEW k \in Statements, k > j, k \notin Nodes(Body(j)),
              NEW x \in Names(k) \cap SetIn(j)
       PROVE  FALSE
    <2>1. PICK i \in Nodes(Body(j)) : lines[i].kind = "set" /\ x = lines[i].var
        BY DEF SetIn
    <2>2. ~(k > i)
        BY <1>1, <1>11, <2>1, CompilableIs
    <2>3. place[k] = Body(s)
        BY <1>1, <1>6, <1>7, <1>11 DEF Nodes, Statements
    <2>4. k \in Nodes(Body(s))
        BY <2>3 DEF Nodes, Statements
    <2>5. i < k
        BY <1>9, <1>11, <2>4
    <2> QED BY <2>2, <2>5
<1>12. Faithful
    BY <1>1, <1>11, CompilableIs DEF Faithful
<1> QED BY <1>10, <1>12
-----------------------------------------------------------------------------
(* Compilable programs: what they do, line by line *)

Value == ({"num"} \X Int) \cup ({"str"} \X STRING) \cup ({"text"} \X Seq(STRING))
Store == [Var -> Value \cup {Undef}]
FileMap == UNION {[names -> Seq(Value)] : names \in SUBSET Var}

\* What there is after a line: the interpreter's variables, what was printed and written,
\* whether a statement raised, and whether the IF's condition held.
State ==
    [env : Store, out : Seq(Value), files : FileMap, raised : BOOLEAN, taken : BOOLEAN]

Blank ==
    [env |-> [x \in Var |-> Undef], out |-> <<>>, files |-> <<>>,
     raised |-> FALSE, taken |-> FALSE]

\* Evaluate, with variables given.
Meaning(v, e) ==
    IF v[1] = "str" /\ v[2] \in Var THEN IF e[v[2]] = Undef THEN v ELSE e[v[2]]
    ELSE IF v[1] = "name" THEN IF e[v[2]] = Undef THEN Num(0) ELSE e[v[2]]
    ELSE v

Left(i, q) == Meaning(lines[i].left, q.env)
Right(i, q) == Meaning(lines[i].right, q.env)

\* A SET that is a type error.
Raises(i, q) ==
    lines[i].kind = "set" /\ lines[i].op # "NONE" /\ ~Fits(lines[i].op, Left(i, q), Right(i, q))

Assigned(i, q) ==
    IF lines[i].op = "NONE" THEN Left(i, q) ELSE Calculate(lines[i].op, Left(i, q), Right(i, q))

Effect(i, q) ==
    CASE Raises(i, q) -> [q EXCEPT !.raised = TRUE]
      [] lines[i].kind = "set" /\ ~Raises(i, q) ->
             [q EXCEPT !.env = [@ EXCEPT ![lines[i].var] = Assigned(i, q)]]
      [] lines[i].kind = "output" -> [q EXCEPT !.out = Append(@, Left(i, q))]
      [] lines[i].kind = "create" -> [q EXCEPT !.files = Stored(@, lines[i].var, <<>>)]
      [] lines[i].kind = "write" ->
             [q EXCEPT !.files = Stored(@, lines[i].var, <<Left(i, q), Left(i, q)>>)]
      [] lines[i].kind = "if" -> [q EXCEPT !.taken = SameText(q.env[lines[i].var], Left(i, q))]

\* Line i is run: it is in the block of the trigger, at line s, or the condition held.
Runs(s, i, q) == i \in Statements /\ ~q.raised /\ (place[i] = Body(s) \/ q.taken)

After(s, i, q) == IF Runs(s, i, q) THEN Effect(i, q) ELSE q

\* What there is after each line.
Semantics(s, sem) ==
    /\ sem \in [0 .. Len(lines) -> State]
    /\ sem[0] = Blank
    /\ \A i \in 1 .. Len(lines) : sem[i] = After(s, i, sem[i - 1])

\* Operands have values.
LEMMA MeaningIs ==
    ASSUME NEW v \in StrictOperand, NEW e \in Store
    PROVE  Meaning(v, e) \in Value
<1>1. CASE v \in {"num"} \X Int
    BY <1>1 DEF Meaning, Value
<1>2. CASE v \in {"str"} \X STRING
    <2>1. v \in Value /\ v[1] = "str"
        BY <1>2 DEF Value
    <2>2. v[2] \in Var /\ e[v[2]] # Undef => e[v[2]] \in Value
        BY DEF Store
    <2> QED BY <2>1, <2>2 DEF Meaning
<1>3. CASE v \in {"name"} \X Var
    <2>1. v[1] = "name" /\ v[2] \in Var
        BY <1>3
    <2>2. e[v[2]] # Undef => e[v[2]] \in Value
        BY <2>1 DEF Store
    <2>3. Num(0) \in Value
        BY DEF Num, Value
    <2> QED BY <2>1, <2>2, <2>3 DEF Meaning
<1> QED BY <1>1, <1>2, <1>3 DEF StrictOperand

\* A string is put together from strings.
LEMMA PiecesAre ==
    ASSUME NEW v \in Value, IsString(v)
    PROVE  Pieces(v) \in Seq(STRING)
<1>1. CASE v \in {"str"} \X STRING
    <2>1. v[1] = "str" /\ v[2] \in STRING
        BY <1>1
    <2>2. <<v[2]>> \in Seq(STRING)
        BY <2>1
    <2> QED BY <2>1, <2>2 DEF Pieces
<1>2. CASE v \in {"text"} \X Seq(STRING)
    BY <1>2 DEF Pieces
<1> QED BY <1>1, <1>2 DEF Value, IsString

\* A string over and over is one.
LEMMA RepeatedIs ==
    ASSUME NEW p \in Seq(STRING), NEW k \in Int
    PROVE  Repeated(p, k) \in Seq(STRING)
<1>1. PICK n \in Nat : n = Len(p)
    OBVIOUS
<1>2. PICK m \in Int : m = k * n /\ (m > 0 => n > 0)
    <2>1. n = 0 => k * n = 0
        OBVIOUS
    <2>2. k * n \in Int
        OBVIOUS
    <2>3. k * n > 0 => n > 0
        BY <2>1
    <2> QED BY <2>2, <2>3
<1>3. PICK l \in Nat : 1 .. l = 1 .. m /\ (l > 0 => n > 0)
    <2>1. CASE m > 0
        BY <1>2, <2>1
    <2>2. CASE m <= 0
        <3>1. 1 .. 0 = 1 .. m /\ 0 \in Nat
            BY <2>2
        <3> WITNESS 0 \in Nat
        <3> QED BY <3>1
    <2> QED BY <2>1, <2>2
<1>4. ASSUME NEW i \in 1 .. l PROVE p[1 + ((i - 1) % n)] \in STRING
    <2>1. n > 0
        BY <1>3
    <2>2. PICK r : r = (i - 1) % n
        OBVIOUS
    <2>3. r \in 0 .. n - 1
        BY <2>1, <2>2
    <2>4. 1 + r \in 1 .. n
        BY <2>3
    <2> QED BY <1>1, <2>2, <2>4
<1>5. Repeated(p, k) = [i \in 1 .. l |-> p[1 + ((i - 1) % n)]]
    BY <1>1, <1>2, <1>3 DEF Repeated
<1> QED BY <1>4, <1>5

\* What is calculated from values that fit is a value.
LEMMA CalculateIs ==
    ASSUME NEW op \in {"PLUS", "MINUS", "TIMES"}, NEW a \in Value, NEW b \in Value, Fits(op, a, b)
    PROVE  Calculate(op, a, b) \in Value
<1>1. \A v \in Value : IsNumber(v) => v[2] \in Int /\ ~IsString(v)
    BY DEF IsNumber, IsString, Value
<1>2. \A k \in Int : Num(k) \in Value
    BY DEF Num, Value
<1>3. \A p \in Seq(STRING) : Text(p) \in Value
    BY DEF Text, Value
<1>4. CASE IsNumber(a) /\ IsNumber(b)
    <2>1. a[2] \in Int /\ b[2] \in Int /\ ~IsString(a) /\ ~IsString(b)
        BY <1>1, <1>4
    <2>2. a[2] + b[2] \in Int /\ a[2] - b[2] \in Int /\ a[2] * b[2] \in Int
        BY <2>1
    <2>3. op = "PLUS" => Calculate(op, a, b) = Num(a[2] + b[2])
        BY <2>1 DEF Calculate
    <2>4. op = "MINUS" => Calculate(op, a, b) = Num(a[2] - b[2])
        BY <2>1 DEF Calculate
    <2>5. op = "TIMES" => Calculate(op, a, b) = Num(a[2] * b[2])
        BY <2>1 DEF Calculate
    <2> QED BY <1>2, <2>2, <2>3, <2>4, <2>5
<1>5. CASE op = "PLUS" /\ IsString(a) /\ IsString(b)
    <2>1. Pieces(a) \o Pieces(b) \in Seq(STRING)
        BY <1>5, PiecesAre
    <2> QED BY <1>3, <1>5, <2>1 DEF Calculate
<1>6. CASE op = "TIMES" /\ IsString(a) /\ IsNumber(b)
    <2>1. Repeated(Pieces(a), b[2]) \in Seq(STRING)
        BY <1>1, <1>6, PiecesAre, RepeatedIs
    <2>2. ~IsString(b)
        BY <1>1, <1>6
    <2> QED BY <1>3, <1>6, <2>1, <2>2 DEF Calculate
<1>7. CASE op = "TIMES" /\ IsNumber(a) /\ IsString(b)
    <2>1. Repeated(Pieces(b), a[2]) \in Seq(STRING)
        BY <1>1, <1>7, PiecesAre, RepeatedIs
    <2>2. ~IsString(a)
        BY <1>1, <1>7
    <2> QED BY <1>3, <1>7, <2>1, <2>2 DEF Calculate
<1> QED BY <1>4, <1>5, <1>6, <1>7 DEF Fits

\* Files with one more, or one of them written anew.
LEMMA FilesStored ==
    ASSUME NEW map \in FileMap, NEW key \in Var, NEW value \in Seq(Value)
    PROVE  Stored(map, key, value) \in FileMap
<1>1. PICK names \in SUBSET Var : map \in [names -> Seq(Value)]
    BY DEF FileMap
<1>2. Stored(map, key, value) \in [names \cup {key} -> Seq(Value)]
    BY <1>1 DEF Stored
<1> QED BY <1>2 DEF FileMap

\* Lines have operands, an operation and a variable.
LEMMA WordIs ==
    ASSUME NEW i, lines[i] \in StrictSourceLine
    PROVE  /\ lines[i].left \in StrictOperand /\ lines[i].right \in StrictOperand
           /\ lines[i].var \in Var /\ lines[i].op \in Operation
BY DEF StrictSourceLine, SourceLine

\* A statement leads from a state to a state.
LEMMA EffectIs ==
    ASSUME NEW i, lines[i] \in StrictSourceLine, NEW q \in State,
           lines[i].kind \in {"if"} \cup Simple \cup OnFiles
    PROVE  Effect(i, q) \in State
<1>1. /\ q.env \in Store /\ q.out \in Seq(Value) /\ q.files \in FileMap
      /\ q.raised \in BOOLEAN /\ q.taken \in BOOLEAN
    BY DEF State
<1>2. Left(i, q) \in Value /\ Right(i, q) \in Value
    BY <1>1, WordIs, MeaningIs DEF Left, Right
<1>3. lines[i].var \in Var /\ lines[i].op \in Operation
    BY WordIs
<1>4. CASE Raises(i, q)
    <2>1. lines[i].kind = "set"
        BY <1>4 DEF Raises
    <2>2. Effect(i, q) = [q EXCEPT !.raised = TRUE]
        BY <1>4, <2>1 DEF Effect
    <2> QED BY <2>2 DEF State
<1>5. CASE lines[i].kind = "set" /\ ~Raises(i, q)
    <2>1. Assigned(i, q) \in Value
        <3>1. lines[i].op # "NONE" => /\ Fits(lines[i].op, Left(i, q), Right(i, q))
                                      /\ lines[i].op \in {"PLUS", "MINUS", "TIMES"}
            BY <1>3, <1>5 DEF Raises, Operation
        <3> QED BY <1>2, <3>1, CalculateIs DEF Assigned
    <2>2. PICK e : e = [q.env EXCEPT ![lines[i].var] = Assigned(i, q)]
        OBVIOUS
    <2>3. e \in Store
        BY <1>1, <2>1, <2>2 DEF Store
    <2>4. Effect(i, q) = [q EXCEPT !.env = e]
        BY <1>5, <2>2 DEF Effect
    <2> QED BY <1>1, <2>3, <2>4 DEF State
<1>6. CASE lines[i].kind = "output"
    <2>1. PICK o : o = Append(q.out, Left(i, q))
        OBVIOUS
    <2>2. o \in Seq(Value)
        BY <1>1, <1>2, <2>1
    <2>3. Effect(i, q) = [q EXCEPT !.out = o]
        BY <1>6, <2>1 DEF Effect, Raises
    <2> QED BY <1>1, <2>2, <2>3 DEF State
<1>7. CASE lines[i].kind \in {"create", "write"}
    <2>1. PICK w : w = IF lines[i].kind = "create" THEN <<>> ELSE <<Left(i, q), Left(i, q)>>
        OBVIOUS
    <2>2. w \in Seq(Value)
        BY <1>2, <2>1
    <2>3. PICK f : f = Stored(q.files, lines[i].var, w)
        OBVIOUS
    <2>4. f \in FileMap
        BY <1>1, <1>3, <2>2, <2>3, FilesStored
    <2>5. Effect(i, q) = [q EXCEPT !.files = f]
        BY <1>7, <2>1, <2>3 DEF Effect, Raises
    <2> QED BY <1>1, <2>4, <2>5 DEF State
<1>8. CASE lines[i].kind = "if"
    <2>1. Effect(i, q) = [q EXCEPT !.taken = SameText(q.env[lines[i].var], Left(i, q))]
        BY <1>8 DEF Effect, Raises
    <2>2. PICK b \in BOOLEAN : b = SameText(q.env[lines[i].var], Left(i, q))
        BY DEF SameText
    <2> QED BY <1>1, <2>1, <2>2 DEF State
<1> QED BY <1>4, <1>5, <1>6, <1>7, <1>8 DEF Simple, OnFiles

\* There is a state after each line.
LEMMA SemanticsExist ==
    ASSUME NEW s, Tree(s), lines \in Seq(StrictSourceLine)
    PROVE  \E sem : Semantics(s, sem)
<1> DEFINE n == Len(lines)
           next == [p \in State \X (1 .. n) |-> After(s, p[2], p[1])]
<1>1. Blank \in State
    <2>1. [x \in Var |-> Undef] \in Store
        BY DEF Store
    <2>2. <<>> \in Seq(Value)
        OBVIOUS
    <2>3. <<>> \in FileMap
        <3>1. <<>> \in [{} -> Seq(Value)]
            OBVIOUS
        <3> QED BY <3>1 DEF FileMap
    <2> QED BY <2>1, <2>2, <2>3 DEF Blank, State
<1>2. ASSUME NEW q \in State, NEW i \in 1 .. n PROVE After(s, i, q) \in State
    <2>1. CASE Runs(s, i, q)
        <3>1. lines[i] \in StrictSourceLine /\ lines[i].kind \in {"if"} \cup Simple \cup OnFiles
            BY <2>1 DEF Runs, Tree
        <3> QED BY <2>1, <3>1, EffectIs DEF After
    <2> QED BY <2>1 DEF After
<1>3. next \in [State \X (1 .. n) -> State]
    BY <1>2
<1>4. \A q \in State, i \in 1 .. n : next[<<q, i>>] = After(s, i, q)
    OBVIOUS
<1>5. n \in Nat
    OBVIOUS
<1> HIDE DEF next, n
<1>6. HasSolution(State, Blank, n, next)
    BY <1>1, <1>3, <1>5, Recursion
<1>7. PICK sem \in [0 .. n -> State] :
          sem[0] = Blank /\ \A i \in 1 .. n : sem[i] = next[<<sem[i - 1], i>>]
    BY <1>6 DEF HasSolution
<1>8. ASSUME NEW i \in 1 .. n PROVE sem[i] = After(s, i, sem[i - 1])
    <2>1. i - 1 \in 0 .. n
        BY <1>5
    <2>2. sem[i - 1] \in State
        BY <2>1
    <2> QED BY <1>4, <1>7, <2>2
<1>9. Semantics(s, sem)
    BY <1>7, <1>8 DEF Semantics, n
<1> QED BY <1>9

\* The lines of a body are after their head; those of the trigger are statements.
LEMMA BodyIs ==
    ASSUME NEW s, Tree(s), SourceTyped
    PROVE  /\ \A i \in Nodes(Body(s)) : i \in Statements
           /\ \A j \in Conds : \A i \in Nodes(Body(j)) :
                 i \in Statements /\ j < i /\ i \notin Nodes(Body(s)) /\ i \notin Conds
           /\ \A i \in Statements : i \in Nat /\ i \in 1 .. Len(lines) /\ i \in DOMAIN place
           /\ \A i \in Statements :
                 i \in Nodes(Body(s)) \/ \E j \in Conds : i \in Nodes(Body(j))
<1>1. ASSUME NEW j, NEW i \in Nodes(Body(j)) PROVE i \in Statements /\ place[i] = Body(j)
    BY DEF Nodes, Statements, Body, Nowhere, Program
<1>2. ASSUME NEW j \in Conds, NEW i \in Nodes(Body(j))
      PROVE  i \in Statements /\ j < i /\ i \notin Nodes(Body(s)) /\ i \notin Conds
    <2>1. i \in Statements /\ place[i] = Body(j)
        BY <1>1
    <2>2. j # s
        BY DEF Tree, Conds
    <2>3. Body(j) # Body(s) /\ \A k : Body(j) = Body(k) => j = k
        BY <2>2 DEF Body
    <2>4. j < i
        BY <2>1, <2>3 DEF Tree
    <2>5. i \notin Nodes(Body(s))
        BY <2>1, <2>3 DEF Nodes
    <2>6. i \notin Conds
        BY <2>1, <2>3 DEF Tree
    <2> QED BY <2>1, <2>4, <2>5, <2>6
<1>3. ASSUME NEW i \in Statements PROVE i \in Nat /\ i \in 1 .. Len(lines) /\ i \in DOMAIN place
    BY DEF Statements, SourceTyped
<1>4. ASSUME NEW i \in Statements
      PROVE  i \in Nodes(Body(s)) \/ \E j \in Conds : i \in Nodes(Body(j))
    BY <1>3 DEF Tree, Nodes
<1> QED BY <1>1, <1>2, <1>3, <1>4

\* Lines that do not run change nothing.
LEMMA Skips ==
    ASSUME NEW s, NEW sem, Semantics(s, sem), lines \in Seq(StrictSourceLine),
           NEW p \in 0 .. Len(lines), NEW k \in p .. Len(lines),
           \A i \in p + 1 .. k : ~Runs(s, i, sem[p])
    PROVE  sem[k] = sem[p]
<1> DEFINE T == {i \in 0 .. k : i >= p => sem[i] = sem[p]}
<1>1. Len(lines) \in Nat /\ p \in Nat /\ k \in Nat
    OBVIOUS
<1>2. 0 \in T
    BY <1>1
<1>3. ASSUME NEW i \in 1 .. k, i - 1 \in T PROVE i \in T
    <2>1. CASE i <= p
        BY <1>1, <2>1
    <2>2. CASE i > p
        <3>1. i - 1 >= p /\ i \in 1 .. Len(lines) /\ i \in p + 1 .. k
            BY <1>1, <2>2
        <3>2. sem[i - 1] = sem[p]
            BY <1>3, <3>1
        <3>3. sem[i] = After(s, i, sem[p])
            BY <3>1, <3>2 DEF Semantics
        <3>4. sem[i] = sem[p]
            BY <3>1, <3>3 DEF After
        <3> QED BY <1>1, <3>4
    <2> QED BY <1>1, <2>1, <2>2
<1> HIDE DEF T
<1>4. \A i \in 0 .. k : i \in T
    BY <1>1, <1>2, <1>3, InductionUpTo
<1>5. k \in T /\ k >= p
    BY <1>1, <1>4
<1> QED BY <1>5 DEF T

\* What a statement leaves as it is: IF alone changes what is taken.
LEMMA EffectKeeps ==
    ASSUME NEW i, NEW q \in State, lines[i].kind \in {"if"} \cup Simple \cup OnFiles
    PROVE  /\ lines[i].kind # "if" => Effect(i, q).taken = q.taken
           /\ Effect(i, q).raised = (q.raised \/ Raises(i, q))
           /\ lines[i].kind # "set" => Effect(i, q).env = q.env /\ ~Raises(i, q)
           /\ lines[i].kind # "output" => Effect(i, q).out = q.out
           /\ lines[i].kind \notin OnFiles => Effect(i, q).files = q.files
           /\ Raises(i, q) => Effect(i, q).env = q.env
<1>1. /\ q = [env |-> q.env, out |-> q.out, files |-> q.files, raised |-> q.raised,
              taken |-> q.taken]
      /\ q.raised \in BOOLEAN /\ q.taken \in BOOLEAN
    BY DEF State
<1>2. lines[i].kind # "set" => ~Raises(i, q)
    BY DEF Raises
<1>3. CASE Raises(i, q)
    <2>1. Effect(i, q) = [q EXCEPT !.raised = TRUE] /\ lines[i].kind = "set"
        BY <1>3 DEF Effect, Raises
    <2> QED BY <1>1, <1>3, <2>1 DEF OnFiles
<1>4. CASE lines[i].kind = "set" /\ ~Raises(i, q)
    <2>1. PICK e : e = [q.env EXCEPT ![lines[i].var] = Assigned(i, q)]
        OBVIOUS
    <2>2. Effect(i, q) = [q EXCEPT !.env = e]
        BY <1>4, <2>1 DEF Effect
    <2> QED BY <1>1, <1>4, <2>2 DEF OnFiles
<1>5. CASE lines[i].kind = "output"
    <2>1. PICK o : o = Append(q.out, Left(i, q))
        OBVIOUS
    <2>2. Effect(i, q) = [q EXCEPT !.out = o]
        BY <1>2, <1>5, <2>1 DEF Effect
    <2> QED BY <1>1, <1>2, <1>5, <2>2 DEF OnFiles
<1>6. CASE lines[i].kind \in {"create", "write"}
    <2>1. PICK f : f = Stored(q.files, lines[i].var,
                              IF lines[i].kind = "create" THEN <<>> ELSE <<Left(i, q), Left(i, q)>>)
        OBVIOUS
    <2>2. Effect(i, q) = [q EXCEPT !.files = f]
        BY <1>2, <1>6, <2>1 DEF Effect
    <2> QED BY <1>1, <1>2, <1>6, <2>2 DEF OnFiles
<1>7. CASE lines[i].kind = "if"
    <2>1. Effect(i, q) = [q EXCEPT !.taken = SameText(q.env[lines[i].var], Left(i, q))]
        BY <1>2, <1>7 DEF Effect
    <2> QED BY <1>1, <1>2, <1>7, <2>1 DEF OnFiles
<1> QED BY <1>3, <1>4, <1>5, <1>6, <1>7 DEF Simple, OnFiles

\* After line p, what is still to run of the program is among the lines of A, all later.
Upto(s, sem, p, A) ==
    /\ p \in 0 .. Len(lines)
    /\ \A i \in A : i \in Statements /\ i > p
    /\ \A i \in p + 1 .. Len(lines) : Runs(s, i, sem[p]) => i \in A

\* When nothing is left, all is done.
LEMMA UptoEnd ==
    ASSUME NEW s, NEW sem, Semantics(s, sem), lines \in Seq(StrictSourceLine),
           NEW p, Upto(s, sem, p, {})
    PROVE  sem[p] = sem[Len(lines)] /\ sem[p] \in State
<1>1. p \in 0 .. Len(lines) /\ Len(lines) \in Nat
    BY DEF Upto
<1>2. Len(lines) \in p .. Len(lines)
    BY <1>1
<1>3. \A i \in p + 1 .. Len(lines) : ~Runs(s, i, sem[p])
    BY DEF Upto
<1>4. sem[Len(lines)] = sem[p]
    BY <1>1, <1>2, <1>3, Skips
<1> QED BY <1>1, <1>4 DEF Semantics

\* After the first line of A, the rest of A is left, and with an IF its body.
LEMMA UptoNext ==
    ASSUME NEW s, Tree(s), SourceTyped, lines \in Seq(StrictSourceLine),
           NEW sem, Semantics(s, sem), NEW p, NEW A, Upto(s, sem, p, A),
           NEW k \in A, \A i \in A : k <= i
    PROVE  /\ sem[p] \in State /\ sem[k] \in State
           /\ k \in 1 .. Len(lines) /\ p \in 0 .. Len(lines)
           /\ sem[k] = After(s, k, sem[p])
           /\ lines[k].kind # "if" => Upto(s, sem, k, A \ {k})
           /\ lines[k].kind = "if" => Upto(s, sem, k, (A \ {k}) \cup Nodes(Body(k)))
           /\ lines[k].kind = "if" /\ ~sem[k].taken => Upto(s, sem, k, A \ {k})
<1>1. /\ p \in 0 .. Len(lines) /\ Len(lines) \in Nat
      /\ \A i \in A : i \in Statements /\ i > p
      /\ \A i \in p + 1 .. Len(lines) : Runs(s, i, sem[p]) => i \in A
    BY DEF Upto
<1>2. /\ k \in Statements /\ k \in 1 .. Len(lines) /\ k > p
      /\ \A i \in A : i \in Nat
    BY <1>1, BodyIs
<1>3. k - 1 \in p .. Len(lines) /\ \A i \in p + 1 .. k - 1 : i \in p + 1 .. Len(lines) /\ i < k
    BY <1>1, <1>2
<1>4. ASSUME NEW i \in p + 1 .. k - 1, Runs(s, i, sem[p]) PROVE FALSE
    <2>1. i \in A /\ i < k
        BY <1>1, <1>3, <1>4
    <2> QED BY <1>2, <2>1
<1>5. sem[k - 1] = sem[p]
    BY <1>1, <1>3, <1>4, Skips
<1>6. sem[k] = After(s, k, sem[p])
    BY <1>2, <1>5 DEF Semantics
<1>7. sem[p] \in State /\ sem[k] \in State
    BY <1>1, <1>2 DEF Semantics
<1>8. lines[k].kind \in {"if"} \cup Simple \cup OnFiles
    BY <1>2 DEF Tree
<1>9. \A i \in A \ {k} : i \in Statements /\ i > k
    BY <1>1, <1>2
<1>10. ASSUME NEW i \in k + 1 .. Len(lines), Runs(s, i, sem[k]), i \notin A
       PROVE  ~sem[p].raised /\ ~Runs(s, i, sem[p]) /\ i \in Statements /\ i # k
    <2>1. i \in p + 1 .. Len(lines) /\ i # k /\ ~Runs(s, i, sem[p])
        BY <1>1, <1>2, <1>10
    <2>2. ~sem[k].raised /\ i \in Statements
        BY <1>10 DEF Runs
    <2>3. ~sem[p].raised
        <3>1. CASE Runs(s, k, sem[p])
            BY <3>1 DEF Runs
        <3>2. CASE ~Runs(s, k, sem[p])
            BY <1>6, <2>2, <3>2 DEF After
        <3> QED BY <3>1, <3>2
    <2> QED BY <2>1, <2>2, <2>3
<1>11. ASSUME lines[k].kind # "if" PROVE Upto(s, sem, k, A \ {k})
    <2>1. ASSUME NEW i \in k + 1 .. Len(lines), Runs(s, i, sem[k]), i \notin A PROVE FALSE
        <3>1. ~sem[p].raised /\ ~Runs(s, i, sem[p]) /\ i \in Statements
            BY <1>10, <2>1
        <3>2. sem[k].taken = sem[p].taken
            BY <1>6, <1>7, <1>8, <1>11, EffectKeeps DEF After
        <3> QED BY <2>1, <3>1, <3>2 DEF Runs
    <2>2. \A i \in k + 1 .. Len(lines) : i # k
        BY <1>2
    <2> QED BY <1>2, <1>9, <2>1, <2>2 DEF Upto
<1>12. ASSUME lines[k].kind = "if"
       PROVE  /\ Upto(s, sem, k, (A \ {k}) \cup Nodes(Body(k)))
              /\ ~sem[k].taken => Upto(s, sem, k, A \ {k})
    <2>1. k \in Conds
        BY <1>2, <1>12 DEF Conds
    <2>2. \A i \in Nodes(Body(k)) : i \in Statements /\ i > k
        BY <1>2, <2>1, BodyIs
    <2>3. ASSUME NEW i \in k + 1 .. Len(lines), Runs(s, i, sem[k]), i \notin A
          PROVE  i \in Nodes(Body(k)) /\ sem[k].taken
        <3>1. ~sem[p].raised /\ ~Runs(s, i, sem[p]) /\ i \in Statements
            BY <1>10, <2>3
        <3>2. place[i] # Body(s)
            BY <3>1 DEF Runs
        <3>3. sem[k].taken
            BY <2>3, <3>2 DEF Runs
        <3>4. i \in Nodes(Body(k))
            BY <2>1, <3>1, <3>2, BodyIs DEF Tree, Nodes
        <3> QED BY <3>3, <3>4
    <2>4. \A i \in k + 1 .. Len(lines) : i # k
        BY <1>2
    <2> QED BY <1>2, <1>9, <2>2, <2>3, <2>4 DEF Upto
<1> QED BY <1>1, <1>2, <1>6, <1>7, <1>11, <1>12

\* A sequence is a prefix of itself and of what is appended to it.
LEMMA PrefixIs ==
    ASSUME NEW S, NEW a \in Seq(S), NEW b \in Seq(S), NEW x \in S
    PROVE  /\ IsPrefix(a, a)
           /\ IsPrefix(a, b) => IsPrefix(a, Append(b, x))
<1>1. Len(a) \in Nat /\ Len(b) \in Nat /\ Append(b, x) \in Seq(S) /\ Len(Append(b, x)) = Len(b) + 1
    OBVIOUS
<1>2. IsPrefix(a, a)
    BY <1>1 DEF IsPrefix
<1>3. ASSUME IsPrefix(a, b) PROVE IsPrefix(a, Append(b, x))
    <2>1. Len(a) <= Len(b) /\ SubSeq(a, 1, Len(a)) = SubSeq(b, 1, Len(a))
        BY <1>3 DEF IsPrefix
    <2>2. SubSeq(Append(b, x), 1, Len(a)) = SubSeq(b, 1, Len(a))
        <3>1. \A i \in 1 .. Len(a) : Append(b, x)[i] = b[i]
            BY <1>1, <2>1
        <3> QED BY <1>1, <2>1, <3>1
    <2> QED BY <1>1, <2>1, <2>2 DEF IsPrefix
<1> QED BY <1>2, <1>3

\* The ends of short sequences.
LEMMA Short1 ==
    ASSUME NEW a
    PROVE  /\ Last(<<a>>) = a /\ Front(<<a>>) = <<>> /\ Len(<<a>>) = 1 /\ <<a>> # <<>>
           /\ Append(<<>>, a) = <<a>>
BY DEF Last, Front

\* Sequences of two.
LEMMA Short2 ==
    ASSUME NEW a, NEW b
    PROVE  /\ Last(<<a, b>>) = b /\ Front(<<a, b>>) = <<a>> /\ Len(<<a, b>>) = 2
           /\ <<a, b>> # <<>> /\ Append(<<a>>, b) = <<a, b>>
<1>1. /\ Last(<<a, b>>) = b /\ Len(<<a, b>>) = 2 /\ <<a, b>> # <<>>
    BY DEF Last
<1>2. PICK S : S = {a, b}
    OBVIOUS
<1>3. <<a>> \in Seq(S) /\ <<a, b>> \in Seq(S) /\ a \in S /\ b \in S /\ Len(<<a>>) = 1
    BY <1>2
<1>4. Front(<<a, b>>) = <<a>>
    <2>1. PICK f : f = SubSeq(<<a, b>>, 1, 2 - 1)
        OBVIOUS
    <2>2. f \in Seq(S) /\ Len(f) = 1 /\ f[1] = a
        BY <1>3, <2>1
    <2>3. f = <<a>>
        BY <1>3, <2>2
    <2>4. Front(<<a, b>>) = f
        BY <1>1, <2>1 DEF Front
    <2> QED BY <2>3, <2>4
<1>5. Append(<<a>>, b) = <<a, b>>
    <2>1. PICK f : f = Append(<<a>>, b)
        OBVIOUS
    <2>2. f \in Seq(S) /\ Len(f) = 2 /\ f[1] = a /\ f[2] = b
        BY <1>3, <2>1
    <2>3. f = <<a, b>>
        BY <1>1, <1>3, <2>2
    <2> QED BY <2>1, <2>3
<1> QED BY <1>1, <1>4, <1>5

\* The nodes of a block that are after line d.
Later(b, d) == {i \in Nodes(b) : i > d}

\* Steps of what runs the program leave the program alone.
LEMMA SameProgram ==
    ASSUME UNCHANGED <<lines, place>>, NEW s, NEW sem
    PROVE  /\ \A b : Nodes(b)' = Nodes(b)
           /\ \A b, d : Later(b, d)' = Later(b, d)
           /\ Statements' = Statements /\ Conds' = Conds
           /\ \A kind : Triggers(kind)' = Triggers(kind)
           /\ \A j : SetIn(j)' = SetIn(j)
           /\ \A p, A : Upto(s, sem, p, A)' <=> Upto(s, sem, p, A)
           /\ \A j : Body(j)' = Body(j)
<1>1. \A b : Nodes(b)' = Nodes(b)
    BY DEF Nodes
<1>2. Statements' = Statements
    BY DEF Statements, Nowhere, Program
<1>3. Conds' = Conds
    BY <1>2 DEF Conds
<1>4. \A j : Body(j)' = Body(j)
    BY DEF Body
<1>5. \A p, A : Upto(s, sem, p, A)' <=> Upto(s, sem, p, A)
    BY <1>2, <1>4 DEF Upto, Runs
<1>6. \A kind : Triggers(kind)' = Triggers(kind)
    BY <1>1 DEF Triggers, Program
<1>7. \A j : SetIn(j)' = SetIn(j)
    BY <1>1, <1>4 DEF SetIn
<1>8. \A b, d : Later(b, d)' = Later(b, d)
    BY <1>1 DEF Later
<1> QED BY <1>1, <1>2, <1>3, <1>4, <1>5, <1>6, <1>7, <1>8

\* The next node of a block, if there is one.
LEMMA NextNodeIs ==
    ASSUME SourceTyped, NEW b, NEW d \in Nat
    PROVE  LET k == NextNode(b, d)
           IN  /\ k = 0 => Later(b, d) = {}
               /\ k # 0 => /\ k \in Later(b, d) /\ k \in Nat
                           /\ \A i \in Later(b, d) : k <= i
                           /\ Later(b, k) = Later(b, d) \ {k}
<1>1. PICK R : R = Later(b, d)
    OBVIOUS
<1>2. R \subseteq Nat /\ \A i \in R : i > d /\ i \in Nodes(b)
    BY <1>1 DEF SourceTyped, Nodes, Later
<1>3. NextNode(b, d) = IF R = {} THEN 0 ELSE Min(R)
    BY <1>1 DEF NextNode, Later
<1>4. CASE R = {}
    BY <1>1, <1>3, <1>4
<1>5. CASE R # {}
    <2>1. PICK m : m = Min(R)
        OBVIOUS
    <2>2. m \in R /\ \A y \in R : m <= y
        BY <1>2, <1>5, <2>1, MinIs
    <2>3. m \in Nat /\ m # 0
        BY <1>2, <2>2
    <2>4. Later(b, m) = R \ {m}
        BY <1>1, <1>2, <2>2, <2>3 DEF Later, Nodes, SourceTyped
    <2> QED BY <1>1, <1>3, <1>5, <2>1, <2>2, <2>3, <2>4
<1> QED BY <1>4, <1>5

\* What is left to run where the main task stands, once q is reached.
Stands(s, q, fs, A) ==
    \/ fs = <<>> /\ A = {}
    \/ \E d \in Nat : fs = <<Frame(Body(s), d, 0)>> /\ A = Later(Body(s), d)
    \/ \E j \in Conds : \E e \in Nat :
          /\ fs = <<Frame(Body(s), j, 0), Frame(Body(j), e, 0)>>
          /\ q.taken
          /\ A = Later(Body(j), e) \cup Later(Body(s), j)

\* The interpreter is where the program is, with what there is then.
Interprets(s, sem) ==
    /\ server = {} /\ listeners = <<>>
    /\ DOMAIN status = Task /\ DOMAIN frames = Task
    /\ \A t \in Task : t # Main => status[t] = "none"
    /\ \E p, A :
          /\ Upto(s, sem, p, A)
          /\ env = sem[p].env /\ out = sem[p].out /\ files = sem[p].files
          /\ \/ /\ status[Main] = "entry" /\ turn = Main
                /\ ~sem[p].raised /\ Stands(s, sem[p], frames[Main], A)
             \/ /\ status[Main] = IF sem[p].raised THEN "raised" ELSE "ended"
                /\ turn = Free /\ A = {}

\* The interpreter starts the program.
LEMMA InterpreterStarts ==
    ASSUME SourceTyped, NEW s, Tree(s), NEW sem, Semantics(s, sem), InterpreterInit,
           Run(Globals, Triggers("start")), UNCHANGED <<lines, place>>
    PROVE  Interprets(s, sem)'
<1>1. Main \in Task
    BY InterpreterAssumption DEF Main, Task
<1>2. Globals = Blank.env
    BY DEF Globals, Tree, Blank
<1>3. Triggers("start") = {s} /\ s \in Nat
    BY DEF Tree, SourceTyped
<1>4. PICK m : m = Min({s})
    OBVIOUS
<1>5. m = s
    BY <1>3, <1>4, MinIs
<1>6. /\ env' = sem[0].env /\ out' = sem[0].out /\ files' = sem[0].files
      /\ ~sem[0].raised
    BY <1>2 DEF Run, InterpreterInit, Semantics, Blank
<1>7. /\ status'[Main] = "entry" /\ turn' = Main /\ DOMAIN status' = Task /\ DOMAIN frames' = Task
      /\ frames'[Main] = <<Frame(Body(s), 0, 0)>>
      /\ \A t \in Task : t # Main => status'[t] = "none"
      /\ server' = {} /\ listeners' = <<>>
    BY <1>1, <1>3, <1>4, <1>5 DEF Run, InterpreterInit, Block, Body
<1>8. Later(Body(s), 0) = Nodes(Body(s))
    BY DEF SourceTyped, Nodes, Later
<1>9. Upto(s, sem, 0, Later(Body(s), 0))
    <2>1. \A i \in Nodes(Body(s)) : i \in Statements /\ i > 0
        BY BodyIs
    <2>2. ASSUME NEW i \in 1 .. Len(lines), Runs(s, i, sem[0]) PROVE i \in Nodes(Body(s))
        <3>1. i \in Statements /\ place[i] = Body(s)
            BY <2>2 DEF Runs, Semantics, Blank
        <3> QED BY <3>1 DEF Nodes, Statements
    <2>3. Len(lines) \in Nat
        BY DEF SourceTyped
    <2> QED BY <1>8, <2>1, <2>2, <2>3 DEF Upto
<1>10. Stands(s, sem[0], frames'[Main], Later(Body(s), 0))
    BY <1>7 DEF Stands
<1>11. Upto(s, sem, 0, Later(Body(s), 0))' /\ Stands(s, sem[0], frames[Main], Later(Body(s), 0))'
    BY <1>7, <1>9, SameProgram DEF Stands
<1>12. PICK A : A = Later(Body(s), 0) /\ A = Later(Body(s), 0)'
    BY SameProgram
<1> QED BY <1>6, <1>7, <1>11, <1>12 DEF Interprets

\* The block a task is in.
LEMMA StandsIs ==
    ASSUME SourceTyped, NEW s, Tree(s), NEW q, NEW t, NEW fs, fs = frames[t], NEW A,
           Stands(s, q, fs, A), fs # <<>>
    PROVE  LET k == Following(t)
           IN  /\ Top(t).done \in Nat /\ Top(t).n = 0
               /\ k = 0 => LoopOf(t) \notin {"while", "repeat"} /\ Stands(s, q, Under(t), A)
               /\ k # 0 =>
                    /\ k \in A /\ \A i \in A : k <= i
                    /\ place[k] = Body(s) \/ q.taken
                    /\ \A r : r.taken = q.taken => Stands(s, r, Passed(t), A \ {k})
                    /\ lines[k].kind = "if" =>
                          /\ \A r : Stands(s, r, Passed(t), A \ {k})
                          /\ Len(Passed(t)) < MaxDepth
                          /\ \A r : r.taken =>
                                Stands(s, r, Append(Passed(t), Block(Body(k))),
                                       (A \ {k}) \cup Nodes(Body(k)))
<1> DEFINE k == Following(t)
<1>1. SourceTyped /\ \A j \in Conds : j \in Nat
    BY DEF Conds, Statements, SourceTyped
<1>2. s \in Nat /\ s # 0 /\ lines[s].kind = "start"
    BY DEF Tree, Triggers
<1>3. CASE \E d \in Nat : fs = <<Frame(Body(s), d, 0)>> /\ A = Later(Body(s), d)
    <2>1. PICK d \in Nat : fs = <<Frame(Body(s), d, 0)>> /\ A = Later(Body(s), d)
        BY <1>3
    <2>2. PICK f : f = Frame(Body(s), d, 0)
        OBVIOUS
    <2>3. Top(t) = f /\ Under(t) = <<>>
        BY <2>1, <2>2, Short1 DEF Top, Under
    <2>4. f.done = d /\ f.n = 0 /\ f.block = Body(s)
        BY <2>2 DEF Frame
    <2>5. Following(t) = NextNode(Body(s), d)
        BY <2>3, <2>4 DEF Following
    <2>6. PICK g : g = Frame(Body(s), k, 0)
        OBVIOUS
    <2>7. Passed(t) = <<g>>
        BY <2>2, <2>3, <2>6, Short1 DEF Passed, Frame
    <2>8. k = 0 => A = {} /\ LoopOf(t) \notin {"while", "repeat"}
        <3>1. LoopOf(t) \in {"none", "start"}
            BY <1>2, <2>3, <2>4 DEF LoopOf, Body
        <3> QED BY <2>1, <2>5, <3>1, NextNodeIs
    <2>9. ASSUME k # 0
          PROVE  /\ k \in A /\ \A i \in A : k <= i
                 /\ k \in Nat /\ A \ {k} = Later(Body(s), k) /\ place[k] = Body(s)
        <3>1. k \in A /\ (\A i \in A : k <= i) /\ k \in Nat /\ A \ {k} = Later(Body(s), k)
            BY <2>1, <2>5, <2>9, NextNodeIs
        <3> QED BY <2>1, <3>1 DEF Later, Nodes
    <2>10. ASSUME k # 0 PROVE \A r : Stands(s, r, Passed(t), A \ {k})
        BY <2>6, <2>7, <2>9, <2>10 DEF Stands
    <2>11. ASSUME k # 0, lines[k].kind = "if"
           PROVE  /\ Len(Passed(t)) < MaxDepth
                  /\ \A r : r.taken => Stands(s, r, Append(Passed(t), Block(Body(k))),
                                              (A \ {k}) \cup Nodes(Body(k)))
        <3>1. Len(Passed(t)) < MaxDepth
            BY <2>7, Short1, InterpreterAssumption
        <3>2. k \in Conds /\ k \in Nat
            <4>1. k \in Nodes(Body(s))
                BY <2>1, <2>9, <2>11 DEF Later
            <4>2. k \in Statements
                BY <4>1, BodyIs
            <4> QED BY <1>1, <2>11, <4>2 DEF Conds
        <3>3. PICK h : h = Frame(Body(k), 0, 0)
            OBVIOUS
        <3>4. Append(Passed(t), Block(Body(k))) = <<g, h>>
            BY <2>7, <3>3, Short2 DEF Block
        <3>5. Nodes(Body(k)) = Later(Body(k), 0)
            BY DEF SourceTyped, Nodes, Later
        <3>6. (A \ {k}) \cup Nodes(Body(k)) = Later(Body(k), 0) \cup Later(Body(s), k)
            BY <2>9, <2>11, <3>5
        <3>7. 0 \in Nat
            OBVIOUS
        <3> HIDE DEF k
        <3> QED BY <2>6, <3>1, <3>2, <3>3, <3>4, <3>6, <3>7 DEF Stands
    <2>12. k = 0 => Stands(s, q, Under(t), A)
        BY <2>3, <2>8 DEF Stands
    <2> HIDE DEF k
    <2> QED BY <2>3, <2>4, <2>8, <2>9, <2>10, <2>11, <2>12 DEF k
<1>4. CASE \E j \in Conds : \E e \in Nat :
              /\ fs = <<Frame(Body(s), j, 0), Frame(Body(j), e, 0)>>
              /\ q.taken
              /\ A = Later(Body(j), e) \cup Later(Body(s), j)
    <2>1. PICK j \in Conds : \E e \in Nat :
              /\ fs = <<Frame(Body(s), j, 0), Frame(Body(j), e, 0)>>
              /\ q.taken
              /\ A = Later(Body(j), e) \cup Later(Body(s), j)
        BY <1>4
    <2>2. PICK e \in Nat :
              /\ fs = <<Frame(Body(s), j, 0), Frame(Body(j), e, 0)>>
              /\ q.taken
              /\ A = Later(Body(j), e) \cup Later(Body(s), j)
        BY <2>1
    <2>3. PICK g : g = Frame(Body(s), j, 0)
        OBVIOUS
    <2>4. PICK f : f = Frame(Body(j), e, 0)
        OBVIOUS
    <2>5. Top(t) = f /\ Under(t) = <<g>>
        BY <2>2, <2>3, <2>4, Short2 DEF Top, Under
    <2>6. f.done = e /\ f.n = 0 /\ f.block = Body(j)
        BY <2>4 DEF Frame
    <2>7. Following(t) = NextNode(Body(j), e)
        BY <2>5, <2>6 DEF Following
    <2>8. PICK h : h = Frame(Body(j), k, 0)
        OBVIOUS
    <2>9. Passed(t) = <<g, h>>
        <3>1. h = [Top(t) EXCEPT !.done = Following(t)]
            BY <2>4, <2>5, <2>8 DEF Frame
        <3>2. Passed(t) = Append(<<g>>, h)
            BY <2>5, <3>1 DEF Passed
        <3> QED BY <3>2, Short2
    <2>10. j \in Nat
        BY <1>1
    <2>11. k = 0 => LoopOf(t) \notin {"while", "repeat"} /\ Stands(s, q, Under(t), A)
        <3>1. LoopOf(t) \in {"none", "if"}
            BY <2>1, <2>5, <2>6 DEF LoopOf, Body, Conds
        <3>2. k = 0 => A = Later(Body(s), j)
            BY <2>2, <2>7, NextNodeIs
        <3>3. k = 0 => Stands(s, q, Under(t), A)
            BY <2>3, <2>5, <2>10, <3>2 DEF Stands
        <3> QED BY <3>1, <3>3
    <2>12. ASSUME k # 0
           PROVE  /\ k \in A /\ \A i \in A : k <= i
                  /\ k \in Nat /\ A \ {k} = Later(Body(j), k) \cup Later(Body(s), j)
                  /\ lines[k].kind # "if"
        <3>1. /\ k \in Later(Body(j), e) /\ k \in Nat /\ \A i \in Later(Body(j), e) : k <= i
              /\ Later(Body(j), k) = Later(Body(j), e) \ {k}
            BY <2>7, <2>12, NextNodeIs
        <3>2. k \in Nodes(Body(j)) /\ k \in A
            BY <2>2, <3>1 DEF Later
        <3>3. \A i \in Later(Body(s), j) : i \in Nodes(Body(s)) /\ k < i
            <4>1. \A i \in Later(Body(s), j) : i \in Nodes(Body(s)) /\ i > j
                BY DEF Later
            <4> QED BY <2>1, <3>2, <4>1 DEF Tree
        <3>4. lines[k].kind # "if"
            BY <2>1, <3>2, BodyIs DEF Conds
        <3>5. \A i \in A : k <= i
            BY <2>2, <3>1, <3>3 DEF Later, SourceTyped, Nodes
        <3>6. k \notin Later(Body(s), j)
            BY <3>1, <3>3
        <3>7. A \ {k} = Later(Body(j), k) \cup Later(Body(s), j)
            BY <2>2, <3>1, <3>6
        <3> QED BY <3>1, <3>2, <3>4, <3>5, <3>7
    <2>13. ASSUME k # 0 PROVE \A r : r.taken = q.taken => Stands(s, r, Passed(t), A \ {k})
        BY <2>1, <2>2, <2>3, <2>8, <2>9, <2>12, <2>13 DEF Stands
    <2> HIDE DEF k
    <2> QED BY <2>2, <2>5, <2>6, <2>11, <2>12, <2>13 DEF k
<1> QED BY <1>3, <1>4 DEF Stands

\* A task that no longer waits does not start again, nor another.
LEMMA Quiet ==
    ASSUME NEW s, NEW sem, Interprets(s, sem), NEW t \in Task,
           Step(t) \/ Connect(t) \/ Continue(t)
    PROVE  /\ t = Main /\ turn = Main /\ status[Main] = "entry"
           /\ \/ frames[Main] # <<>> /\ RunStatement(Main)
              \/ frames[Main] = <<>> /\ EndEntry
<1>1. /\ server = {} /\ \A u \in Task : u # Main => status[u] = "none"
      /\ status[Main] \in {"entry", "raised", "ended"}
      /\ turn = Free => status[Main] # "entry"
      /\ turn \in {Main, Free} /\ (status[Main] = "entry" => turn = Main)
      /\ (turn = Main => status[Main] = "entry")
    BY DEF Interprets, Main, Free
<1>2. ~Connect(t)
    BY <1>1 DEF Connect, Request
<1>3. ~Continue(t)
    BY <1>1 DEF Continue, Resume
<1>4. Step(t) => turn = t
    BY DEF Step, TaskStep, RunStatement, Set, Output, If, While, CheckWhile, Repeat, Call,
           CreateFile, WriteFile, Save, Load, Python, Shell, When, StartServer, EndBlock, At,
           Active, Visit, EndVisit, EndEntry
<1>5. Step(t) /\ frames[t] = <<>> => ~RunStatement(t)
    BY DEF RunStatement, Set, Output, If, While, CheckWhile, Repeat, Call,
           CreateFile, WriteFile, Save, Load, Python, Shell, When, StartServer, EndBlock, At,
           Active
<1>6. t \in 0 .. MaxRequests
    BY DEF Task
<1>7. t # Free
    BY <1>6, InterpreterAssumption DEF Free
<1>8. t = Main /\ turn = Main /\ status[Main] = "entry"
    BY <1>1, <1>2, <1>3, <1>4, <1>7
<1>9. Step(t)
    BY <1>2, <1>3
<1> QED BY <1>4, <1>5, <1>8, <1>9 DEF Step, TaskStep, Visit, EndVisit, EndEntry

\* A SET without a type error sets its variable.
LEMMA EffectSets ==
    ASSUME NEW i, NEW q, lines[i].kind = "set", ~Raises(i, q)
    PROVE  Effect(i, q) = [q EXCEPT !.env = [q.env EXCEPT ![lines[i].var] = Assigned(i, q)]]
BY DEF Effect

\* A statement does to the interpreter's variables what Effect says.
LEMMA Interpreted1 ==
    ASSUME SourceTyped, NEW k, k = Following(Main), k # 0, RunStatement(Main),
           lines[k] \in StrictSourceLine, lines[k].kind \in {"if"} \cup Simple \cup OnFiles,
           Top(Main).done \in Nat, Nodes(Else(k)) = {},
           lines[k].kind = "if" => Len(Passed(Main)) < MaxDepth,
           NEW q \in State, env = q.env, out = q.out, files = q.files, ~q.raised
    PROVE  /\ env' = Effect(k, q).env /\ out' = Effect(k, q).out /\ files' = Effect(k, q).files
           /\ UNCHANGED <<listeners, server>>
           /\ IF Raises(k, q) THEN Raise(Main)
              ELSE Go(Main, IF lines[k].kind = "if" /\ Effect(k, q).taken
                            THEN Append(Passed(Main), Block(Body(k))) ELSE Passed(Main))
<1>1. /\ q = [env |-> q.env, out |-> q.out, files |-> q.files, raised |-> q.raised,
              taken |-> q.taken]
      /\ q.raised \in BOOLEAN /\ q.taken \in BOOLEAN
    BY DEF State
<1>2. \A v : Evaluate(v) = Meaning(v, q.env)
    BY DEF Evaluate, Meaning
<1>3. Evaluate(lines[k].left) = Left(k, q) /\ Evaluate(lines[k].right) = Right(k, q)
    BY <1>2 DEF Left, Right
<1>4. lines[k].kind # "set" => ~Raises(k, q)
    BY DEF Raises
<1>5. CASE lines[k].kind = "set"
    <2>1. Set(Main)
        BY <1>5 DEF RunStatement, Output, If, While, CheckWhile, Repeat, Call, CreateFile,
                    WriteFile, Save, Load, Python, Shell, When, StartServer, EndBlock, At,
                    Unchecked, Node
    <2>2. Raises(k, q) <=> (Node(Main).op # "NONE" /\ ~Fits(Node(Main).op, Left(k, q), Right(k, q)))
        BY <1>5 DEF Raises, Node
    <2>3. PICK e : e = [q.env EXCEPT ![lines[k].var] = Assigned(k, q)]
        OBVIOUS
    <2>4. /\ UNCHANGED <<out, listeners, server, files>>
          /\ env' = IF Raises(k, q) THEN env ELSE e
          /\ IF Raises(k, q) THEN Raise(Main) ELSE Go(Main, Passed(Main))
        BY <1>3, <2>1, <2>2, <2>3 DEF Set, Node, Assigned
    <2>5. Raises(k, q) => Effect(k, q) = [q EXCEPT !.raised = TRUE]
        BY <1>5 DEF Effect
    <2>6. ~Raises(k, q) => Effect(k, q) = [q EXCEPT !.env = e]
        BY <1>5, <2>3, EffectSets
    <2> QED BY <1>1, <1>5, <2>4, <2>5, <2>6
<1>6. CASE lines[k].kind = "output"
    <2>1. Output(Main)
        BY <1>6 DEF RunStatement, Set, If, While, CheckWhile, Repeat, Call, CreateFile,
                    WriteFile, Save, Load, Python, Shell, When, StartServer, EndBlock, At,
                    Unchecked, Node
    <2>2. PICK o : o = Append(q.out, Left(k, q))
        OBVIOUS
    <2>3. /\ UNCHANGED <<env, listeners, server, files>>
          /\ out' = o /\ Go(Main, Passed(Main))
        BY <1>3, <2>1, <2>2 DEF Output, Node
    <2>4. Effect(k, q) = [q EXCEPT !.out = o]
        BY <1>4, <1>6, <2>2 DEF Effect
    <2> QED BY <1>1, <1>4, <1>6, <2>3, <2>4
<1>7. CASE lines[k].kind \in {"create", "write"}
    <2>1. /\ lines[k].kind = "create" => CreateFile(Main)
          /\ lines[k].kind = "write" => WriteFile(Main)
        BY <1>7 DEF RunStatement, Set, Output, If, While, CheckWhile, Repeat, Call, CreateFile,
                    WriteFile, Save, Load, Python, Shell, When, StartServer, EndBlock, At,
                    Unchecked, Node
    <2>2. PICK f : f = Stored(q.files, lines[k].var,
                              IF lines[k].kind = "create" THEN <<>> ELSE <<Left(k, q), Left(k, q)>>)
        OBVIOUS
    <2>3. /\ UNCHANGED <<env, out, listeners, server>>
          /\ files' = f /\ Go(Main, Passed(Main))
        BY <1>3, <1>7, <2>1, <2>2 DEF CreateFile, WriteFile, Node
    <2>4. Effect(k, q) = [q EXCEPT !.files = f]
        BY <1>4, <1>7, <2>2 DEF Effect
    <2> QED BY <1>1, <1>4, <1>7, <2>3, <2>4
<1>8. CASE lines[k].kind = "if"
    <2>1. If(Main)
        BY <1>8 DEF RunStatement, Set, Output, If, While, CheckWhile, Repeat, Call, CreateFile,
                    WriteFile, Save, Load, Python, Shell, When, StartServer, EndBlock, At,
                    Unchecked, Node
    <2>2. Effect(k, q) = [q EXCEPT !.taken = SameText(q.env[lines[k].var], Left(k, q))]
        BY <1>4, <1>8 DEF Effect
    <2>3. Effect(k, q).taken <=> Holds(Node(Main))
        BY <1>1, <1>3, <2>2 DEF Holds, Node
    <2>4. /\ UNCHANGED <<env, out, listeners, server, files>>
          /\ Go(Main, IF Effect(k, q).taken THEN Append(Passed(Main), Block(Body(k)))
                      ELSE Passed(Main))
        BY <1>8, <2>1, <2>3 DEF If, EnterBlock
    <2> QED BY <1>1, <1>4, <1>8, <2>2, <2>4
<1> QED BY <1>5, <1>6, <1>7, <1>8 DEF Simple, OnFiles

\* Every step of the interpreter takes it where the program is.
LEMMA InterpretsStep ==
    ASSUME SourceTyped, lines \in Seq(StrictSourceLine), NEW s, Tree(s), NEW sem,
           Semantics(s, sem), Interprets(s, sem), NEW t \in Task,
           Step(t) \/ Connect(t) \/ Continue(t), UNCHANGED <<lines, place>>
    PROVE  Interprets(s, sem)'
<1>1. /\ turn = Main /\ status[Main] = "entry" /\ Main \in Task
      /\ \/ frames[Main] # <<>> /\ RunStatement(Main)
         \/ frames[Main] = <<>> /\ EndEntry
    BY Quiet
<1>2. /\ server = {} /\ listeners = <<>> /\ DOMAIN status = Task /\ DOMAIN frames = Task
      /\ \A u \in Task : u # Main => status[u] = "none"
    BY DEF Interprets
<1>3. PICK p, A : /\ Upto(s, sem, p, A)
                  /\ env = sem[p].env /\ out = sem[p].out /\ files = sem[p].files
                  /\ ~sem[p].raised /\ Stands(s, sem[p], frames[Main], A)
    BY <1>1 DEF Interprets, Main, Free
<1>4. PICK q \in State : q = sem[p]
    BY <1>3 DEF Upto, Semantics
<1>5. CASE frames[Main] = <<>>
    <2>1. A = {}
        BY <1>3, <1>5 DEF Stands
    <2>2. /\ status' = [status EXCEPT ![Main] = "ended"] /\ turn' = Free
          /\ UNCHANGED <<env, out, files, listeners, server, frames>>
        BY <1>1, <1>2, <1>5 DEF EndEntry
    <2>3. status'[Main] = "ended" /\ DOMAIN status' = Task
          /\ \A u \in Task : u # Main => status'[u] = "none"
        BY <1>1, <1>2, <2>2
    <2>4. Upto(s, sem, p, A)'
        BY <1>3, SameProgram
    <2> QED BY <1>2, <1>3, <2>1, <2>2, <2>3, <2>4 DEF Interprets
<1>6. CASE frames[Main] # <<>>
    <2>1. PICK k : k = Following(Main)
        OBVIOUS
    <2>2. PICK fs : fs = frames[Main]
        OBVIOUS
    <2>3. Stands(s, q, fs, A) /\ fs # <<>>
        BY <1>3, <1>4, <1>6, <2>2
    <2>4. Top(Main).done \in Nat /\ Top(Main).n = 0
        BY <2>2, <2>3, StandsIs
    <2>5. CASE k = 0
        <3>1. LoopOf(Main) \notin {"while", "repeat"} /\ Stands(s, q, Under(Main), A)
            BY <2>1, <2>2, <2>3, <2>5, StandsIs
        <3>2. EndBlock(Main)
            BY <1>1, <1>6, <2>1, <2>4, <2>5 DEF RunStatement, Set, Output, If, While, CheckWhile,
               Repeat, Call, CreateFile, WriteFile, Save, Load, Python, Shell, When, StartServer,
               At, Unchecked
        <3>3. /\ frames' = [frames EXCEPT ![Main] = Under(Main)] /\ turn' = Main
              /\ UNCHANGED <<env, out, listeners, server, files, status>>
            BY <3>1, <3>2 DEF EndBlock
        <3>4. frames'[Main] = Under(Main) /\ DOMAIN frames' = Task
            BY <1>1, <1>2, <3>3
        <3>5. Upto(s, sem, p, A)'
            BY <1>3, SameProgram
        <3>6. Stands(s, sem[p], frames[Main], A)'
            BY <1>4, <3>1, <3>4, SameProgram DEF Stands
        <3> QED BY <1>1, <1>2, <1>3, <3>3, <3>4, <3>5, <3>6 DEF Interprets
    <2>6. CASE k # 0
        <3>1. /\ k \in A /\ \A i \in A : k <= i
              /\ place[k] = Body(s) \/ q.taken
              /\ \A r : r.taken = q.taken => Stands(s, r, Passed(Main), A \ {k})
            BY <2>1, <2>2, <2>3, <2>6, StandsIs
        <3>2. lines[k].kind = "if" =>
                 /\ \A r : Stands(s, r, Passed(Main), A \ {k})
                 /\ Len(Passed(Main)) < MaxDepth
                 /\ \A r : r.taken => Stands(s, r, Append(Passed(Main), Block(Body(k))),
                                             (A \ {k}) \cup Nodes(Body(k)))
            BY <2>1, <2>2, <2>3, <2>6, StandsIs
        <3>3. /\ sem[k] \in State /\ k \in 1 .. Len(lines)
              /\ sem[k] = After(s, k, q)
              /\ lines[k].kind # "if" => Upto(s, sem, k, A \ {k})
              /\ lines[k].kind = "if" => Upto(s, sem, k, (A \ {k}) \cup Nodes(Body(k)))
              /\ lines[k].kind = "if" /\ ~sem[k].taken => Upto(s, sem, k, A \ {k})
            <4>1. Upto(s, sem, p, A) /\ k \in A /\ \A i \in A : k <= i
                BY <1>3, <3>1
            <4>2. sem[k] \in State /\ k \in 1 .. Len(lines)
                BY <4>1, UptoNext
            <4>4. sem[k] = After(s, k, sem[p])
                BY <4>1, UptoNext, ZenonT(30)
            <4>3. /\ lines[k].kind # "if" => Upto(s, sem, k, A \ {k})
                  /\ lines[k].kind = "if" => Upto(s, sem, k, (A \ {k}) \cup Nodes(Body(k)))
                  /\ lines[k].kind = "if" /\ ~sem[k].taken => Upto(s, sem, k, A \ {k})
                BY <4>1, UptoNext
            <4> QED BY <1>4, <4>2, <4>3, <4>4
        <3>4. k \in Statements
            BY <1>3, <3>1 DEF Upto
        <3>5. sem[k] = Effect(k, q)
            BY <1>3, <1>4, <3>1, <3>3, <3>4 DEF After, Runs
        <3>6. lines[k] \in StrictSourceLine /\ lines[k].kind \in {"if"} \cup Simple \cup OnFiles
            BY <3>4 DEF Tree
        <3>7. Nodes(Else(k)) = {}
            <4>1. ASSUME NEW i \in Nodes(Else(k)) PROVE FALSE
                <5>1. i \in DOMAIN place /\ place[i] = Else(k)
                    BY <4>1 DEF Nodes
                <5>2. i \in Statements
                    BY <5>1 DEF Statements, Nowhere, Program, Else
                <5>3. \E j : place[i] = Body(j)
                    BY <5>2 DEF Tree
                <5> QED BY <5>1, <5>3 DEF Body, Else
            <4> QED BY <4>1
        <3>8. /\ env' = Effect(k, q).env /\ out' = Effect(k, q).out /\ files' = Effect(k, q).files
              /\ UNCHANGED <<listeners, server>>
              /\ IF Raises(k, q) THEN Raise(Main)
                 ELSE Go(Main, IF lines[k].kind = "if" /\ Effect(k, q).taken
                               THEN Append(Passed(Main), Block(Body(k))) ELSE Passed(Main))
            BY <1>1, <1>3, <1>4, <1>6, <2>1, <2>4, <2>6, <3>2, <3>6, <3>7, Interpreted1
        <3>9. /\ Effect(k, q).raised = (q.raised \/ Raises(k, q))
              /\ lines[k].kind # "if" => Effect(k, q).taken = q.taken
            BY <3>6, EffectKeeps
        <3>10. CASE Raises(k, q)
            <4>1. Raise(Main) /\ sem[k].raised
                BY <3>5, <3>8, <3>9, <3>10
            <4>2. /\ status'[Main] = "raised" /\ DOMAIN status' = Task
                  /\ \A u \in Task : u # Main => status'[u] = "none"
                  /\ turn' = Free /\ DOMAIN frames' = Task
                BY <1>1, <1>2, <4>1 DEF Raise
            <4>3. Upto(s, sem, k, {})
                BY <3>3, <4>1 DEF Upto, Runs
            <4>4. Upto(s, sem, k, {})'
                BY <4>3, SameProgram
            <4> QED BY <1>2, <3>5, <3>8, <4>1, <4>2, <4>4 DEF Interprets
        <3>11. CASE ~Raises(k, q)
            <4>1. PICK fs2 : fs2 = IF lines[k].kind = "if" /\ Effect(k, q).taken
                                   THEN Append(Passed(Main), Block(Body(k))) ELSE Passed(Main)
                OBVIOUS
            <4>2. PICK B : B = IF lines[k].kind = "if" /\ Effect(k, q).taken
                               THEN (A \ {k}) \cup Nodes(Body(k)) ELSE A \ {k}
                OBVIOUS
            <4>3. /\ frames'[Main] = fs2 /\ DOMAIN frames' = Task
                  /\ UNCHANGED <<status, turn>>
                BY <1>1, <1>2, <3>8, <3>11, <4>1 DEF Go
            <4>4. Upto(s, sem, k, B)
                BY <3>3, <3>5, <4>2
            <4>5. Stands(s, sem[k], fs2, B)
                BY <3>1, <3>2, <3>5, <3>9, <4>1, <4>2
            <4>6. Upto(s, sem, k, B)'
                BY <4>4, SameProgram
            <4>7. Stands(s, sem[k], frames[Main], B)'
                BY <4>3, <4>5, SameProgram DEF Stands
            <4>8. ~sem[k].raised
                BY <1>3, <1>4, <3>5, <3>9, <3>11
            <4> QED BY <1>1, <1>2, <3>5, <3>8, <4>3, <4>6, <4>7, <4>8 DEF Interprets
        <3> QED BY <3>10, <3>11
    <2> QED BY <2>5, <2>6
<1> QED BY <1>5, <1>6

\* What the interpreter has made of the program when it is done.
LEMMA InterpreterEnds ==
    ASSUME SourceTyped, lines \in Seq(StrictSourceLine), NEW s, NEW sem, Semantics(s, sem),
           Interprets(s, sem), Interpreted
    PROVE  LET last == sem[Len(lines)]
           IN  /\ out = last.out /\ files = last.files
               /\ last.raised = (status[Main] = "raised")
               /\ last \in State
<1>1. PICK p, A : /\ Upto(s, sem, p, A) /\ A = {}
                  /\ out = sem[p].out /\ files = sem[p].files
                  /\ status[Main] = IF sem[p].raised THEN "raised" ELSE "ended"
    BY DEF Interprets, Interpreted
<1>2. sem[p] = sem[Len(lines)] /\ sem[p] \in State
    BY <1>1, UptoEnd
<1>3. sem[p].raised \in BOOLEAN
    BY <1>2 DEF State
<1> QED BY <1>1, <1>2, <1>3
=============================================================================
