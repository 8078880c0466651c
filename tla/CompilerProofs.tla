--------------------------- MODULE CompilerProofs ---------------------------
(***************************************************************************)
(* That a compiled program does what the interpreted one does, for any     *)
(* sources: the analyser, the IR generator, the bytecode and the VM.       *)
(***************************************************************************)
EXTENDS ToolchainProofs
-----------------------------------------------------------------------------
(* Compilable programs: the analyser *)

\* The names the analyser finds in a statement.
Found(i) ==
    CASE lines[i].kind = "set" ->
             {lines[i].var} \cup Ensured(lines[i].left)
                 \cup IF lines[i].op = "NONE" THEN {} ELSE Ensured(lines[i].right)
      [] lines[i].kind \in {"output", "if", "write"} -> Ensured(lines[i].left)
      [] OTHER -> {}

\* The analyser has recorded what it found, in all statements once it accepts them.
Analysed ==
    /\ checked \in Nat
    /\ \A i \in Statements : i <= checked => Found(i) \subseteq variables
    /\ verdict = "accepted" => \A i \in Statements : i <= checked

\* Every step of the analyser keeps that.
LEMMA AnalysedStep ==
    ASSUME SourceTyped, NEW s, Tree(s), Analysed, CheckStmt, UNCHANGED <<lines, place>>
    PROVE  Analysed'
<1>1. Statements \subseteq Nat \ {0}
    BY DEF SourceTyped, Statements
<1>2. Statements' = Statements
    BY DEF Statements, Nowhere, Program
<1>3. \A i : Found(i)' = Found(i)
    BY DEF Found, Ensured
<1>4. PICK R : R = {i \in Statements : i > checked}
    OBVIOUS
<1>5. ToCheck = IF R = {} THEN 0 ELSE Min(R)
    BY <1>4 DEF ToCheck
<1>6. R # {} => ToCheck \in R /\ \A i \in R : ToCheck <= i
    <2>1. PICK m : m = Min(R)
        OBVIOUS
    <2>2. R # {} => m \in R /\ \A i \in R : m <= i
        BY <1>1, <1>4, <2>1, MinIs
    <2> QED BY <1>5, <2>1, <2>2
<1>7. CASE EndChecks
    <2>1. R = {}
        BY <1>1, <1>4, <1>6, <1>7 DEF EndChecks
    <2>2. \A i \in Statements : i <= checked
        BY <1>1, <1>4, <2>1 DEF Analysed
    <2>3. UNCHANGED <<checked, variables>>
        BY <1>7 DEF EndChecks
    <2> QED BY <1>2, <1>3, <2>2, <2>3 DEF Analysed
<1>8. CASE ~EndChecks
    <2>1. PICK k : k = ToCheck
        OBVIOUS
    <2>2. k # 0 /\ verdict = "pending" /\ R # {}
        BY <1>5, <1>8, <2>1 DEF CheckStmt, CheckSet, CheckValue, CheckCreateFile, CheckRepeat,
                              Checking
    <2>3. k \in R /\ (\A i \in R : k <= i) /\ k \in Statements /\ k > checked /\ k \in Nat
        BY <1>1, <1>4, <1>6, <2>1, <2>2
    <2>4. lines[k].kind # "repeat"
        BY <2>3 DEF Tree, Simple, OnFiles
    <2>5. checked' = k /\ variables' = variables \cup Found(k) /\ verdict' = verdict
        BY <1>8, <2>1, <2>4 DEF CheckStmt, CheckSet, CheckValue, CheckCreateFile, CheckRepeat,
                              Checking, Record, Found
    <2>6. ASSUME NEW i \in Statements, i <= k PROVE i <= checked \/ i = k
        BY <1>1, <1>4, <2>3, <2>6 DEF Analysed
    <2> QED BY <1>2, <1>3, <2>2, <2>3, <2>5, <2>6 DEF Analysed
<1> QED BY <1>7, <1>8
-----------------------------------------------------------------------------
(* Compilable programs: what instructions do *)

Register == {"reg"} \X Nat
Location == Register \cup ({"name"} \X Var)
Slots == UNION {[D -> Value] : D \in SUBSET Location}

\* What a value holds, which may name a file.
Payload == Int \cup STRING \cup Seq(STRING)

Contents == UNION {[D -> Seq(Value)] : D \in SUBSET Payload}

\* The machine between two instructions, the operands of which it keeps in slots.
Machine == [slots : Slots, printed : Seq(Value), files : Contents, failed : BOOLEAN]

Zero == [slots |-> <<>>, printed |-> <<>>, files |-> <<>>, failed |-> FALSE]

Held(r, st) == IF r \in DOMAIN st.slots THEN st.slots[r] ELSE Num(0)

Constants == {Instr("const", <<v>>, r) : v \in Value, r \in Register}
Operations ==
    {Instr(op, p, r) :
         op \in {"add", "sub", "mul", "eq"}, p \in Register \X Register, r \in Register}
Stores == {Instr("store", <<l, r>>, None) : l \in Location, r \in Register}
Prints == {Instr("print", <<r>>, None) : r \in Register}
Creates == {Instr("file.create", <<r>>, None) : r \in Register}
Writes == {Instr("file.write", <<a, b>>, None) : a \in Register, b \in Register}

Instruction == Constants \cup Operations \cup Stores \cup Prints \cup Creates \cup Writes

\* What an operation makes of its operands.
Result(op, a, b) == IF op = "eq" THEN Truth(SameValue(a, b)) ELSE Calculate(OpName(op), a, b)

Kept(st, r, v) == [st EXCEPT !.slots = Stored(@, r, v)]

Do(i, st) ==
    IF st.failed THEN st
    ELSE CASE i.op = "const" -> Kept(st, i.result, i.args[1])
           [] i.op \in {"add", "sub", "mul", "eq"} ->
                  IF TypeError(i.op, Held(i.args[1], st), Held(i.args[2], st))
                  THEN [st EXCEPT !.failed = TRUE]
                  ELSE Kept(st, i.result,
                            Result(i.op, Held(i.args[1], st), Held(i.args[2], st)))
           [] i.op = "store" -> Kept(st, i.args[1], Held(i.args[2], st))
           [] i.op = "print" -> [st EXCEPT !.printed = Append(@, Held(i.args[1], st))]
           [] i.op = "file.create" ->
                  [st EXCEPT !.files = Stored(@, Held(i.args[1], st)[2], <<>>)]
           [] i.op = "file.write" ->
                  LET name == Held(i.args[1], st)[2]
                      held == IF name \in DOMAIN st.files THEN st.files[name] ELSE <<>>
                  IN  [st EXCEPT !.files = Stored(@, name, Append(held, Held(i.args[2], st)))]

\* Everything in a is in b.
Below(a, b) ==
    /\ IsPrefix(a.printed, b.printed)
    /\ DOMAIN a.files \subseteq DOMAIN b.files /\ DOMAIN a.slots \subseteq DOMAIN b.slots

\* The kinds of instructions.
LEMMA InstructionIs ==
    ASSUME NEW i \in Instruction
    PROVE  \/ \E v \in Value, r \in Register : i = Instr("const", <<v>>, r)
           \/ \E op \in {"add", "sub", "mul", "eq"}, a \in Register, b \in Register,
                 r \in Register : i = Instr(op, <<a, b>>, r)
           \/ \E l \in Location, r \in Register : i = Instr("store", <<l, r>>, None)
           \/ \E r \in Register : i = Instr("print", <<r>>, None)
           \/ \E r \in Register : i = Instr("file.create", <<r>>, None)
           \/ \E a \in Register, b \in Register : i = Instr("file.write", <<a, b>>, None)
<1>1. i \in Constants => \E v \in Value, r \in Register : i = Instr("const", <<v>>, r)
    BY SMTT(20) DEF Constants
<1>2. i \in Operations =>
          \E op \in {"add", "sub", "mul", "eq"}, a \in Register, b \in Register, r \in Register :
              i = Instr(op, <<a, b>>, r)
    <2>1. SUFFICES ASSUME i \in Operations
                   PROVE  \E op \in {"add", "sub", "mul", "eq"}, a \in Register, b \in Register,
                             r \in Register : i = Instr(op, <<a, b>>, r)
        OBVIOUS
    <2>2. PICK op \in {"add", "sub", "mul", "eq"}, p \in Register \X Register, r \in Register :
              i = Instr(op, p, r)
        BY <2>1 DEF Operations
    <2>3. p = <<p[1], p[2]>> /\ p[1] \in Register /\ p[2] \in Register
        OBVIOUS
    <2>4. i = Instr(op, <<p[1], p[2]>>, r)
        BY <2>2, <2>3
    <2> QED BY <2>3, <2>4, Zenon
<1>3. i \in Stores => \E l \in Location, r \in Register : i = Instr("store", <<l, r>>, None)
    BY DEF Stores
<1>4. i \in Prints => \E r \in Register : i = Instr("print", <<r>>, None)
    BY DEF Prints
<1>5. i \in Creates => \E r \in Register : i = Instr("file.create", <<r>>, None)
    BY DEF Creates
<1>6. i \in Writes => \E a \in Register, b \in Register : i = Instr("file.write", <<a, b>>, None)
    BY DEF Writes
<1>7. \/ i \in Constants \/ i \in Operations \/ i \in Stores \/ i \in Prints \/ i \in Creates
      \/ i \in Writes
    BY DEF Instruction
<1> QED BY <1>1, <1>2, <1>3, <1>4, <1>5, <1>6, <1>7, Zenon

\* Slots hold values.
LEMMA HeldIs ==
    ASSUME NEW st \in Machine, NEW r
    PROVE  Held(r, st) \in Value /\ Held(r, st)[2] \in Payload
<1>1. Num(0) \in Value
    BY DEF Num, Value
<1>2. PICK D \in SUBSET Location : st.slots \in [D -> Value]
    BY DEF Machine, Slots
<1>3. Held(r, st) \in Value
    BY <1>1, <1>2 DEF Held
<1> QED BY <1>3 DEF Value, Payload

\* A slot that is written.
LEMMA KeptIs ==
    ASSUME NEW st \in Machine, NEW r \in Location, NEW v \in Value
    PROVE  /\ Kept(st, r, v) \in Machine
           /\ Held(r, Kept(st, r, v)) = v
           /\ \A l : l # r => Held(l, Kept(st, r, v)) = Held(l, st)
           /\ DOMAIN Kept(st, r, v).slots = DOMAIN st.slots \cup {r}
           /\ Kept(st, r, v).printed = st.printed /\ Kept(st, r, v).files = st.files
           /\ Kept(st, r, v).failed = st.failed
<1>1. PICK D \in SUBSET Location : st.slots \in [D -> Value]
    BY DEF Machine, Slots
<1>2. PICK f : f = Stored(st.slots, r, v)
    OBVIOUS
<1>3. f \in [D \cup {r} -> Value] /\ f[r] = v /\ \A l \in D : l # r => f[l] = st.slots[l]
    BY <1>1, <1>2 DEF Stored
<1>4. f \in Slots
    BY <1>3 DEF Slots
<1>5. Kept(st, r, v) = [st EXCEPT !.slots = f]
    BY <1>2 DEF Kept
<1>6. /\ Kept(st, r, v) \in Machine /\ Kept(st, r, v).slots = f
      /\ Kept(st, r, v).printed = st.printed /\ Kept(st, r, v).files = st.files
      /\ Kept(st, r, v).failed = st.failed
    BY <1>4, <1>5 DEF Machine
<1> QED BY <1>1, <1>3, <1>6 DEF Held

\* Being a prefix is an order.
LEMMA PrefixOrder ==
    ASSUME NEW S, NEW a \in Seq(S), NEW b \in Seq(S), NEW c \in Seq(S)
    PROVE  IsPrefix(a, a) /\ (IsPrefix(a, b) /\ IsPrefix(b, c) => IsPrefix(a, c))
<1>1. Len(a) \in Nat /\ Len(b) \in Nat /\ Len(c) \in Nat
    OBVIOUS
<1>2. IsPrefix(a, a)
    BY <1>1 DEF IsPrefix
<1>3. ASSUME IsPrefix(a, b), IsPrefix(b, c) PROVE IsPrefix(a, c)
    <2>1. Len(a) <= Len(b) /\ SubSeq(a, 1, Len(a)) = SubSeq(b, 1, Len(a))
        BY <1>3 DEF IsPrefix
    <2>2. Len(b) <= Len(c) /\ SubSeq(b, 1, Len(b)) = SubSeq(c, 1, Len(b))
        BY <1>3 DEF IsPrefix
    <2>3. \A i \in 1 .. Len(a) : b[i] = c[i]
        <3> SUFFICES ASSUME NEW i \in 1 .. Len(a) PROVE b[i] = c[i]
            OBVIOUS
        <3>1. i \in 1 .. Len(b)
            BY <1>1, <2>1
        <3>2. SubSeq(b, 1, Len(b))[i] = b[i] /\ SubSeq(c, 1, Len(b))[i] = c[i]
            BY <1>1, <2>2, <3>1
        <3> QED BY <2>2, <3>2
    <2>4. SubSeq(b, 1, Len(a)) = SubSeq(c, 1, Len(a))
        BY <1>1, <2>1, <2>2, <2>3
    <2> QED BY <1>1, <2>1, <2>2, <2>4 DEF IsPrefix
<1> QED BY <1>2, <1>3

\* So is what a machine has of another.
LEMMA BelowOrder ==
    ASSUME NEW a \in Machine, NEW b \in Machine, NEW c \in Machine
    PROVE  Below(a, a) /\ (Below(a, b) /\ Below(b, c) => Below(a, c))
<1>1. a.printed \in Seq(Value) /\ b.printed \in Seq(Value) /\ c.printed \in Seq(Value)
    BY DEF Machine
<1>2. /\ IsPrefix(a.printed, a.printed)
      /\ IsPrefix(a.printed, b.printed) /\ IsPrefix(b.printed, c.printed)
             => IsPrefix(a.printed, c.printed)
    BY <1>1, PrefixOrder
<1> QED BY <1>2 DEF Below

\* Instructions add to what there is, and do nothing once one has failed.
LEMMA DoIs ==
    ASSUME NEW i \in Instruction, NEW st \in Machine
    PROVE  /\ Do(i, st) \in Machine /\ Below(st, Do(i, st))
           /\ st.failed => Do(i, st) = st
<1>1. Below(st, st)
    BY BelowOrder
<1>2. st.failed => Do(i, st) = st
    BY DEF Do
<1> SUFFICES ASSUME ~st.failed PROVE Do(i, st) \in Machine /\ Below(st, Do(i, st))
    BY <1>1, <1>2
<1>3. ASSUME NEW r \in Location, NEW v \in Value, Do(i, st) = Kept(st, r, v)
      PROVE  Do(i, st) \in Machine /\ Below(st, Do(i, st))
    BY <1>1, <1>3, KeptIs DEF Below
<1>4. Register \subseteq Location
    BY DEF Location
<1>5. CASE \E v \in Value, r \in Register : i = Instr("const", <<v>>, r)
    <2>1. PICK v \in Value, r \in Register : i = Instr("const", <<v>>, r)
        BY <1>5
    <2>2. i.op = "const" /\ i.args[1] = v /\ i.result = r
        BY <2>1 DEF Instr
    <2>3. Do(i, st) = Kept(st, r, v)
        BY <2>2 DEF Do
    <2> QED BY <1>3, <1>4, <2>3
<1>6. CASE \E op \in {"add", "sub", "mul", "eq"}, a \in Register, b \in Register, r \in Register :
              i = Instr(op, <<a, b>>, r)
    <2>1. PICK op \in {"add", "sub", "mul", "eq"}, a \in Register, b \in Register, r \in Register :
              i = Instr(op, <<a, b>>, r)
        BY <1>6
    <2>2. i.op = op /\ i.args[1] = a /\ i.args[2] = b /\ i.result = r
        BY <2>1 DEF Instr
    <2>3. PICK x \in Value : x = Held(a, st)
        BY HeldIs
    <2>4. PICK y \in Value : y = Held(b, st)
        BY HeldIs
    <2>5. CASE TypeError(op, x, y)
        <3>1. Do(i, st) = [st EXCEPT !.failed = TRUE]
            BY <2>2, <2>3, <2>4, <2>5 DEF Do
        <3> QED BY <1>1, <3>1 DEF Machine, Below
    <2>6. CASE ~(TypeError(op, x, y))
        <3>1. Do(i, st) = Kept(st, r, Result(op, x, y))
            BY <2>2, <2>3, <2>4, <2>6 DEF Do
        <3>2. Result(op, x, y) \in Value
            <4>1. op = "eq" => Result(op, x, y) \in Value
                BY DEF Result, Truth, Num, Value, SameValue
            <4>2. op # "eq" => OpName(op) \in {"PLUS", "MINUS", "TIMES"}
                BY DEF OpName
            <4>3. op # "eq" => Calculate(OpName(op), x, y) \in Value
                <5>1. op # "eq" => Fits(OpName(op), x, y)
                    BY <2>6 DEF TypeError
                <5> QED BY <4>2, <5>1, CalculateIs
            <4> QED BY <4>1, <4>3 DEF Result
        <3> QED BY <1>3, <1>4, <3>1, <3>2
    <2> QED BY <2>5, <2>6
<1>7. CASE \E l \in Location, r \in Register : i = Instr("store", <<l, r>>, None)
    <2>1. PICK l \in Location, r \in Register : i = Instr("store", <<l, r>>, None)
        BY <1>7
    <2>2. i.op = "store" /\ i.args[1] = l /\ i.args[2] = r
        BY <2>1 DEF Instr
    <2>3. Do(i, st) = Kept(st, l, Held(r, st))
        BY <2>2 DEF Do
    <2> QED BY <1>3, <2>3, HeldIs
<1>8. CASE \E r \in Register : i = Instr("print", <<r>>, None)
    <2>1. PICK r \in Register : i = Instr("print", <<r>>, None)
        BY <1>8
    <2>2. i.op = "print" /\ i.args[1] = r
        BY <2>1 DEF Instr
    <2>3. PICK o : o = Append(st.printed, Held(r, st))
        OBVIOUS
    <2>4. Do(i, st) = [st EXCEPT !.printed = o]
        BY <2>2, <2>3 DEF Do
    <2>5. st.printed \in Seq(Value) /\ Held(r, st) \in Value
        BY HeldIs DEF Machine
    <2>6. o \in Seq(Value)
        BY <2>3, <2>5
    <2>7. IsPrefix(st.printed, st.printed) => IsPrefix(st.printed, o)
        BY <2>3, <2>5, PrefixIs
    <2> QED BY <1>1, <2>4, <2>6, <2>7 DEF Machine, Below
<1>9. ASSUME NEW n \in Payload, NEW w \in Seq(Value),
             Do(i, st) = [st EXCEPT !.files = Stored(st.files, n, w)]
      PROVE  Do(i, st) \in Machine /\ Below(st, Do(i, st))
    <2>1. PICK D \in SUBSET Payload : st.files \in [D -> Seq(Value)]
        BY DEF Machine, Contents
    <2>2. PICK f : f = Stored(st.files, n, w)
        OBVIOUS
    <2>3. f \in [D \cup {n} -> Seq(Value)]
        BY <2>1, <2>2 DEF Stored
    <2>4. f \in Contents /\ DOMAIN st.files \subseteq DOMAIN f
        BY <2>1, <2>3 DEF Contents
    <2>5. Do(i, st) = [st EXCEPT !.files = f]
        BY <1>9, <2>2
    <2> QED BY <1>1, <2>4, <2>5 DEF Machine, Below
<1>10. CASE \E r \in Register : i = Instr("file.create", <<r>>, None)
    <2>1. PICK r \in Register : i = Instr("file.create", <<r>>, None)
        BY <1>10
    <2>2. i.op = "file.create" /\ i.args[1] = r
        BY <2>1 DEF Instr
    <2>3. PICK n \in Payload : n = Held(r, st)[2]
        BY HeldIs
    <2>4. Do(i, st) = [st EXCEPT !.files = Stored(st.files, n, <<>>)]
        BY <2>2, <2>3 DEF Do
    <2>5. <<>> \in Seq(Value)
        OBVIOUS
    <2> QED BY <1>9, <2>4, <2>5
<1>11. CASE \E a \in Register, b \in Register : i = Instr("file.write", <<a, b>>, None)
    <2>1. PICK a \in Register, b \in Register : i = Instr("file.write", <<a, b>>, None)
        BY <1>11
    <2>2. i.op = "file.write" /\ i.args[1] = a /\ i.args[2] = b
        BY <2>1 DEF Instr
    <2>3. PICK n \in Payload : n = Held(a, st)[2]
        BY HeldIs
    <2>4. PICK h : h = IF n \in DOMAIN st.files THEN st.files[n] ELSE <<>>
        OBVIOUS
    <2>5. PICK w : w = Append(h, Held(b, st))
        OBVIOUS
    <2>6. h \in Seq(Value)
        <3>1. PICK D \in SUBSET Payload : st.files \in [D -> Seq(Value)]
            BY DEF Machine, Contents
        <3> QED BY <2>4, <3>1
    <2>7. w \in Seq(Value)
        BY <2>5, <2>6, HeldIs
    <2>8. Do(i, st) = [st EXCEPT !.files = Stored(st.files, n, w)]
        BY <2>2, <2>3, <2>4, <2>5 DEF Do
    <2> QED BY <1>9, <2>7, <2>8
<1> QED BY <1>5, <1>6, <1>7, <1>8, <1>10, <1>11, InstructionIs

\* The machine after each of some instructions, from st on.
Traces(instrs, st) ==
    {T \in [0 .. Len(instrs) -> Machine] :
        T[0] = st /\ \A k \in 1 .. Len(instrs) : T[k] = Do(instrs[k], T[k - 1])}

Trace(instrs, st) == CHOOSE T \in Traces(instrs, st) : TRUE
Final(instrs, st) == Trace(instrs, st)[Len(instrs)]

\* There is one.
LEMMA TraceIs ==
    ASSUME NEW instrs \in Seq(Instruction), NEW st \in Machine
    PROVE  /\ Trace(instrs, st) \in [0 .. Len(instrs) -> Machine]
           /\ Trace(instrs, st)[0] = st
           /\ \A k \in 1 .. Len(instrs) :
                 Trace(instrs, st)[k] = Do(instrs[k], Trace(instrs, st)[k - 1])
           /\ Final(instrs, st) \in Machine
<1> DEFINE n == Len(instrs)
           next == [p \in Machine \X (1 .. n) |-> Do(instrs[p[2]], p[1])]
<1>1. n \in Nat /\ \A k \in 1 .. n : instrs[k] \in Instruction
    OBVIOUS
<1>2. next \in [Machine \X (1 .. n) -> Machine]
    BY <1>1, DoIs
<1>3. \A m \in Machine, k \in 1 .. n : next[<<m, k>>] = Do(instrs[k], m)
    OBVIOUS
<1> HIDE DEF next, n
<1>4. HasSolution(Machine, st, n, next)
    BY <1>1, <1>2, Recursion
<1>5. PICK T \in [0 .. n -> Machine] : T[0] = st /\ \A k \in 1 .. n : T[k] = next[<<T[k - 1], k>>]
    BY <1>4 DEF HasSolution
<1>6. ASSUME NEW k \in 1 .. n PROVE T[k] = Do(instrs[k], T[k - 1])
    <2>1. k - 1 \in 0 .. n
        BY <1>1
    <2> QED BY <1>3, <1>5, <2>1
<1>7. T \in Traces(instrs, st)
    BY <1>5, <1>6 DEF Traces, n
<1>8. Trace(instrs, st) \in Traces(instrs, st)
    BY <1>7 DEF Trace
<1>9. Len(instrs) \in 0 .. Len(instrs)
    OBVIOUS
<1> QED BY <1>8, <1>9 DEF Traces, Final

\* Later there is more, and nothing happens after a failure.
LEMMA TraceGoesOn ==
    ASSUME NEW instrs \in Seq(Instruction), NEW st \in Machine, NEW k \in 0 .. Len(instrs)
    PROVE  LET at == Trace(instrs, st)[k]
           IN  /\ Below(at, Final(instrs, st))
               /\ at.failed => Final(instrs, st) = at
<1> DEFINE n == Len(instrs)
           Tr == Trace(instrs, st)
           Good(j) == Below(Tr[k], Tr[j]) /\ (Tr[k].failed => Tr[j] = Tr[k])
           T == {j \in 0 .. n : j >= k => Good(j)}
<1>1. n \in Nat /\ k \in 0 .. n /\ \A j \in 1 .. n : instrs[j] \in Instruction
    OBVIOUS
<1>2. Tr \in [0 .. n -> Machine] /\ \A j \in 1 .. n : Tr[j] = Do(instrs[j], Tr[j - 1])
    BY TraceIs
<1> HIDE DEF Tr, n
<1>3. Good(k)
    <2>1. Tr[k] \in Machine
        BY <1>1, <1>2
    <2> QED BY <2>1, BelowOrder
<1>4. 0 \in T
    BY <1>1, <1>3
<1>5. ASSUME NEW j \in 1 .. n, j - 1 \in T PROVE j \in T
    <2>1. CASE j <= k
        BY <1>1, <1>3, <2>1
    <2>2. CASE j > k
        <3>1. j - 1 \in 0 .. n /\ j - 1 >= k /\ j \in 0 .. n
            BY <1>1, <2>2
        <3>2. Tr[k] \in Machine /\ Tr[j - 1] \in Machine /\ Tr[j] \in Machine
            BY <1>1, <1>2, <3>1
        <3>3. Good(j - 1)
            BY <1>5, <3>1
        <3>4. /\ Below(Tr[j - 1], Tr[j])
              /\ Tr[j - 1].failed => Tr[j] = Tr[j - 1]
            BY <1>1, <1>2, <3>2, DoIs
        <3>5. Below(Tr[k], Tr[j])
            BY <3>2, <3>3, <3>4, BelowOrder
        <3> QED BY <3>1, <3>3, <3>4, <3>5
    <2> QED BY <1>1, <2>1, <2>2
<1> HIDE DEF T
<1>6. \A j \in 0 .. n : j \in T
    BY <1>1, <1>4, <1>5, InductionUpTo
<1>7. n \in T /\ n >= k
    BY <1>1, <1>6
<1>8. Good(n)
    BY <1>7 DEF T
<1> QED BY <1>8 DEF Final, Tr, n

\* Sequences one after the other.
LEMMA ConcatIs ==
    ASSUME NEW S, NEW a \in Seq(S), NEW b \in Seq(S)
    PROVE  /\ a \o b \in Seq(S) /\ Len(a \o b) = Len(a) + Len(b)
           /\ \A i \in 1 .. Len(a) : (a \o b)[i] = a[i]
           /\ \A i \in 1 .. Len(b) : (a \o b)[Len(a) + i] = b[i]
OBVIOUS

\* What is appended comes after.
LEMMA AppendIs ==
    ASSUME NEW S, NEW a \in Seq(S), NEW e \in S
    PROVE  /\ Append(a, e) \in Seq(S) /\ Append(a, e) = a \o <<e>>
           /\ <<e>> \in Seq(S) /\ Len(<<e>>) = 1 /\ <<e>>[1] = e
<1>0. <<e>> \in Seq(S) /\ Len(<<e>>) = 1 /\ <<e>>[1] = e /\ Append(a, e) \in Seq(S)
    OBVIOUS
<1>1. PICK x : x = Append(a, e)
    OBVIOUS
<1>2. PICK y : y = a \o <<e>>
    OBVIOUS
<1>3. Len(x) = Len(a) + 1 /\ (\A k \in 1 .. Len(a) : x[k] = a[k]) /\ x[Len(a) + 1] = e
      /\ x \in Seq(S)
    BY <1>1
<1>4. Len(y) = Len(a) + 1 /\ (\A k \in 1 .. Len(a) : y[k] = a[k]) /\ y[Len(a) + 1] = e
      /\ y \in Seq(S)
    BY <1>0, <1>2, ConcatIs
<1>5. x = y
    BY <1>3, <1>4
<1> QED BY <1>0, <1>1, <1>2, <1>5

\* Instructions one after the other.
LEMMA FinalConcat ==
    ASSUME NEW a \in Seq(Instruction), NEW b \in Seq(Instruction), NEW st \in Machine
    PROVE  Final(a \o b, st) = Final(b, Final(a, st))
<1> DEFINE m == Len(a)
           n == Len(b)
           All == Trace(a \o b, st)
           First == Trace(a, st)
           Then == Trace(b, Final(a, st))
<1>1. m \in Nat /\ n \in Nat
    OBVIOUS
<1>2. /\ a \o b \in Seq(Instruction) /\ Len(a \o b) = m + n
      /\ \A i \in 1 .. m : (a \o b)[i] = a[i]
      /\ \A i \in 1 .. n : (a \o b)[m + i] = b[i]
    BY ConcatIs
<1>3. PICK c \in Seq(Instruction) : c = a \o b /\ Len(c) = m + n
    BY <1>2
<1>4. All[0] = st /\ \A i \in 1 .. m + n : All[i] = Do(c[i], All[i - 1])
    <2>1. /\ Trace(c, st)[0] = st
          /\ \A i \in 1 .. Len(c) : Trace(c, st)[i] = Do(c[i], Trace(c, st)[i - 1])
        BY TraceIs
    <2>2. All = Trace(c, st)
        BY <1>3
    <2> HIDE DEF All, m, n
    <2> QED BY <1>3, <2>1, <2>2
<1>5. First[0] = st /\ (\A i \in 1 .. m : First[i] = Do(a[i], First[i - 1]))
      /\ Final(a, st) = First[m] /\ Final(a, st) \in Machine
    BY TraceIs DEF Final
<1>6. Then[0] = Final(a, st) /\ \A i \in 1 .. n : Then[i] = Do(b[i], Then[i - 1])
    BY <1>5, TraceIs
<1>7. Final(a \o b, st) = All[m + n] /\ Final(b, Final(a, st)) = Then[n]
    BY <1>2 DEF Final
<1> HIDE DEF m, n, All, First, Then
<1> DEFINE T == {i \in 0 .. m : All[i] = First[i]}
           U == {i \in 0 .. n : All[m + i] = Then[i]}
<1>8. 0 \in T
    BY <1>1, <1>4, <1>5
<1>9. ASSUME NEW i \in 1 .. m, i - 1 \in T PROVE i \in T
    <2>1. i \in 1 .. m + n /\ i \in 0 .. m
        BY <1>1
    <2> QED BY <1>2, <1>3, <1>4, <1>5, <1>9, <2>1
<1> HIDE DEF T
<1>10. \A i \in 0 .. m : i \in T
    BY <1>1, <1>8, <1>9, InductionUpTo
<1>11. All[m] = First[m]
    BY <1>1, <1>10 DEF T
<1>12. 0 \in U
    BY <1>1, <1>5, <1>6, <1>11
<1>13. ASSUME NEW i \in 1 .. n, i - 1 \in U PROVE i \in U
    <2>1. m + i \in 1 .. m + n /\ i \in 0 .. n /\ (m + i) - 1 = m + (i - 1)
        BY <1>1
    <2>2. All[m + i] = Do(c[m + i], All[m + (i - 1)])
        BY <1>4, <2>1
    <2> QED BY <1>2, <1>3, <1>6, <1>13, <2>1, <2>2
<1> HIDE DEF U
<1>14. \A i \in 0 .. n : i \in U
    BY <1>1, <1>12, <1>13, InductionUpTo
<1>15. All[m + n] = Then[n]
    BY <1>1, <1>14 DEF U
<1> QED BY <1>7, <1>15

\* One instruction, or none, or one more.
LEMMA FinalOne ==
    ASSUME NEW i \in Instruction, NEW st \in Machine, NEW a \in Seq(Instruction)
    PROVE  /\ Final(<<>>, st) = st
           /\ Final(<<i>>, st) = Do(i, st)
           /\ Final(Append(a, i), st) = Do(i, Final(a, st))
<1>1. <<>> \in Seq(Instruction) /\ <<i>> \in Seq(Instruction) /\ Len(<<i>>) = 1 /\ Len(<<>>) = 0
    OBVIOUS
<1>2. Final(<<>>, st) = st
    BY <1>1, TraceIs DEF Final
<1>3. ASSUME NEW m \in Machine PROVE Final(<<i>>, m) = Do(i, m)
    <2>1. PICK one \in Seq(Instruction) : one = <<i>> /\ Len(one) = 1 /\ one[1] = i
        BY <1>1
    <2>2. /\ Trace(one, m)[0] = m
          /\ \A k \in 1 .. 1 : Trace(one, m)[k] = Do(one[k], Trace(one, m)[k - 1])
        BY <2>1, TraceIs
    <2>3. Trace(one, m)[1] = Do(one[1], Trace(one, m)[1 - 1])
        BY <2>2
    <2> QED BY <2>1, <2>2, <2>3 DEF Final
<1>4. Append(a, i) = a \o <<i>>
    BY AppendIs
<1>5. Final(a, st) \in Machine
    BY TraceIs
<1>6. Final(Append(a, i), st) = Do(i, Final(a, st))
    <2>1. Final(a \o <<i>>, st) = Final(<<i>>, Final(a, st))
        BY <1>1, FinalConcat
    <2> QED BY <1>3, <1>4, <1>5, <2>1
<1> QED BY <1>2, <1>3, <1>6
-----------------------------------------------------------------------------
(* Compilable programs: the instructions of a statement *)

\* The variables that the code may have slots for.
Declared == variables \cup {lines[j].var : j \in Conds}

\* The files of the machine, and those of the interpreter.
Alike(map, written) ==
    /\ DOMAIN map = DOMAIN written
    /\ \A f \in DOMAIN written :
          IF written[f] = <<>> THEN map[f] = <<>>
          ELSE map[f] # <<>> /\ Last(map[f]) = Last(written[f])

\* Which register has which variable, of n registers made.
Known(known, n) == n \in Nat /\ known \in [Var -> {None} \cup {Reg(k) : k \in 1 .. n}]

\* The registers hold the variables' values, but for those of bad.
Registers(q, st, known, n, bad) ==
    /\ \A k \in Nat : k > n => Reg(k) \notin DOMAIN st.slots
    /\ \A x \in Var \ bad :
          IF known[x] = None THEN q.env[x] = Undef
          ELSE Held(known[x], st) = IF q.env[x] = Undef THEN Num(0) ELSE q.env[x]

\* The machine has what there is after some line.
Carries(q, st, known, n, bad) ==
    /\ st \in Machine
    /\ st.printed = q.out /\ Alike(st.files, q.files) /\ st.failed = q.raised
    /\ \A x \in Var : Name(x) \in DOMAIN st.slots => x \in Declared
    /\ ~q.raised => Registers(q, st, known, n, bad)

\* An operand the compiler translates faithfully.
Sayable(v, q, bad) ==
    /\ v \in StrictOperand
    /\ v[1] = "name" => v[2] \notin bad /\ v[2] \in Declared
    /\ v[1] = "str" /\ v[2] \in Var => q.env[v[2]] = Undef

\* Registers are told apart, and from names.
LEMMA SlotIs ==
    ASSUME NEW k, NEW x
    PROVE  /\ Reg(k) # Name(x) /\ Reg(k) # None /\ Reg(k)[1] = "reg" /\ Reg(k)[2] = k
           /\ k \in Nat => Reg(k) \in Register /\ Reg(k) \in Location
           /\ x \in Var => Name(x) \in Location
           /\ Name(x)[1] = "name" /\ Name(x)[2] = x
BY DEF Reg, Name, None, Register, Location

\* A value is given a new register.
LEMMA RegisterWritten ==
    ASSUME NEW q, ~q.raised, NEW st, NEW known, NEW n, NEW bad, Known(known, n),
           Carries(q, st, known, n, bad), NEW v \in Value
    PROVE  LET en == Kept(st, Reg(n + 1), v)
           IN  /\ Carries(q, en, known, n + 1, bad) /\ Held(Reg(n + 1), en) = v
               /\ \A k \in 1 .. n : Held(Reg(k), en) = Held(Reg(k), st)
<1>1. PICK en : en = Kept(st, Reg(n + 1), v)
    OBVIOUS
<1>2. n \in Nat /\ st \in Machine
    BY DEF Known, Carries
<1>3. Reg(n + 1) \in Location /\ \A k \in Nat : k # n + 1 => Reg(k) # Reg(n + 1)
    <2>1. n + 1 \in Nat
        BY <1>2
    <2>2. \A k : Reg(k)[2] = k
        BY SlotIs
    <2> QED BY <2>1, <2>2, SlotIs
<1>4. /\ en \in Machine /\ Held(Reg(n + 1), en) = v
      /\ \A l : l # Reg(n + 1) => Held(l, en) = Held(l, st)
      /\ DOMAIN en.slots = DOMAIN st.slots \cup {Reg(n + 1)}
      /\ en.printed = st.printed /\ en.files = st.files /\ en.failed = st.failed
    BY <1>1, <1>2, <1>3, KeptIs
<1>5. \A k \in 1 .. n : Held(Reg(k), en) = Held(Reg(k), st)
    BY <1>2, <1>3, <1>4
<1>6. \A k \in Nat : k > n + 1 => Reg(k) \notin DOMAIN en.slots
    BY <1>2, <1>3, <1>4 DEF Carries, Registers
<1>7. ASSUME NEW x \in Var \ bad
      PROVE  IF known[x] = None THEN q.env[x] = Undef
             ELSE Held(known[x], en) = IF q.env[x] = Undef THEN Num(0) ELSE q.env[x]
    <2>1. known[x] = None \/ \E k \in 1 .. n : known[x] = Reg(k)
        BY DEF Known
    <2>2. known[x] = None \/ Held(known[x], en) = Held(known[x], st)
        BY <1>5, <2>1
    <2> QED BY <2>2 DEF Carries, Registers
<1>8. \A x \in Var : Name(x) \in DOMAIN en.slots => x \in Declared
    BY <1>4, SlotIs DEF Carries
<1>9. Registers(q, en, known, n + 1, bad)
    BY <1>6, <1>7 DEF Registers
<1>10. Carries(q, en, known, n + 1, bad)
    BY <1>4, <1>8, <1>9 DEF Carries
<1> QED BY <1>1, <1>4, <1>5, <1>10

\* A value is given a variable's own slot.
LEMMA NameWritten ==
    ASSUME NEW q, ~q.raised, NEW st, NEW known, NEW n, NEW bad, Known(known, n),
           Carries(q, st, known, n, bad), NEW v \in Value, NEW x \in Var, x \in Declared
    PROVE  LET en == Kept(st, Name(x), v)
           IN  /\ Carries(q, en, known, n, bad)
               /\ \A k : Held(Reg(k), en) = Held(Reg(k), st)
<1>1. PICK en : en = Kept(st, Name(x), v)
    OBVIOUS
<1>2. st \in Machine /\ Name(x) \in Location /\ \A k : Reg(k) # Name(x)
    BY SlotIs DEF Carries
<1>3. /\ en \in Machine
      /\ \A l : l # Name(x) => Held(l, en) = Held(l, st)
      /\ DOMAIN en.slots = DOMAIN st.slots \cup {Name(x)}
      /\ en.printed = st.printed /\ en.files = st.files /\ en.failed = st.failed
    BY <1>1, <1>2, KeptIs
<1>4. \A k : Held(Reg(k), en) = Held(Reg(k), st)
    BY <1>2, <1>3
<1>5. \A k \in Nat : k > n => Reg(k) \notin DOMAIN en.slots
    BY <1>2, <1>3 DEF Carries, Registers
<1>6. ASSUME NEW y \in Var \ bad
      PROVE  IF known[y] = None THEN q.env[y] = Undef
             ELSE Held(known[y], en) = IF q.env[y] = Undef THEN Num(0) ELSE q.env[y]
    <2>1. known[y] = None \/ \E k \in 1 .. n : known[y] = Reg(k)
        BY DEF Known
    <2>2. known[y] = None \/ Held(known[y], en) = Held(known[y], st)
        BY <1>4, <2>1
    <2> QED BY <2>2 DEF Carries, Registers
<1>7. \A y \in Var : Name(y) \in DOMAIN en.slots => y \in Declared
    <2>1. \A y : Name(y)[2] = y
        BY SlotIs
    <2> QED BY <1>3, <2>1 DEF Carries
<1>8. Registers(q, en, known, n, bad)
    BY <1>5, <1>6 DEF Registers
<1>9. Carries(q, en, known, n, bad)
    BY <1>3, <1>7, <1>8 DEF Carries
<1> QED BY <1>1, <1>4, <1>9

\* The kinds of operands.
LEMMA OperandKinds ==
    ASSUME NEW v \in StrictOperand
    PROVE  \/ v[1] # "name" /\ v \in Value
           \/ v[1] = "name" /\ v[2] \in Var /\ v = Name(v[2])
<1>1. CASE v \in {"num"} \X Int
    BY <1>1 DEF Value
<1>2. CASE v \in {"str"} \X STRING
    BY <1>2 DEF Value
<1>3. CASE v \in {"name"} \X Var
    BY <1>3 DEF Name
<1> QED BY <1>1, <1>2, <1>3 DEF StrictOperand

\* What an operand is lowered to.
LEMMA OperandTyped ==
    ASSUME NEW known, NEW n, Known(known, n), NEW v \in StrictOperand
    PROVE  LET o == Operand(v, known, n)
           IN  /\ o.instrs \in Seq(Instruction) /\ Known(o.regs, o.n)
               /\ \E k \in 1 .. o.n : o.reg = Reg(k)
               /\ o.n \in {n, n + 1}
<1>1. n \in Nat /\ known \in [Var -> {None} \cup {Reg(k) : k \in 1 .. n}]
    BY DEF Known
<1>2. PICK r : r = Reg(n + 1)
    OBVIOUS
<1>3. r \in Register /\ n + 1 \in Nat /\ n + 1 \in 1 .. n + 1
    BY <1>1, <1>2, SlotIs
<1>4. \A i \in Instruction : <<i>> \in Seq(Instruction)
    <2>1. <<>> \in Seq(Instruction)
        OBVIOUS
    <2> QED BY <2>1, AppendIs
<1>5. Known(known, n + 1)
    <2>1. \A k \in 1 .. n : k \in 1 .. n + 1
        BY <1>1
    <2>2. {Reg(k) : k \in 1 .. n} \subseteq {Reg(k) : k \in 1 .. n + 1}
        BY <2>1
    <2> QED BY <1>1, <1>3, <2>2 DEF Known
<1>6. CASE v[1] # "name" /\ v \in Value
    <2>1. PICK i : i = Instr("const", <<v>>, r)
        OBVIOUS
    <2>2. i \in Instruction
        BY <1>3, <1>6, <2>1 DEF Instruction, Constants
    <2>3. Operand(v, known, n) = [instrs |-> <<i>>, reg |-> r, regs |-> known, n |-> n + 1]
        BY <1>2, <1>6, <2>1 DEF Operand
    <2> QED BY <1>2, <1>3, <1>4, <1>5, <2>2, <2>3
<1>7. CASE v[1] = "name" /\ v[2] \in Var /\ known[v[2]] # None
    <2>1. Operand(v, known, n) = [instrs |-> <<>>, reg |-> known[v[2]], regs |-> known, n |-> n]
        BY <1>7 DEF Operand
    <2>2. \E k \in 1 .. n : known[v[2]] = Reg(k)
        BY <1>1, <1>7
    <2>3. <<>> \in Seq(Instruction)
        OBVIOUS
    <2> QED BY <1>1, <2>1, <2>2, <2>3
<1>8. CASE v[1] = "name" /\ v[2] \in Var /\ v = Name(v[2]) /\ known[v[2]] = None
    <2>1. PICK i : i = Instr("store", <<v, r>>, None)
        OBVIOUS
    <2>2. v \in Location
        BY <1>8, SlotIs
    <2>3. i \in Instruction
        BY <1>3, <2>1, <2>2 DEF Instruction, Stores
    <2>4. PICK m : m = [known EXCEPT ![v[2]] = r]
        OBVIOUS
    <2>5. Operand(v, known, n) = [instrs |-> <<i>>, reg |-> r, regs |-> m, n |-> n + 1]
        BY <1>2, <1>8, <2>1, <2>4 DEF Operand
    <2>6. Known(m, n + 1)
        BY <1>2, <1>3, <1>5, <2>4 DEF Known
    <2> QED BY <1>2, <1>3, <1>4, <2>3, <2>5, <2>6
<1> QED BY <1>6, <1>7, <1>8, OperandKinds

\* The instruction of a constant gives it a register.
LEMMA ConstantIs ==
    ASSUME NEW q, ~q.raised, NEW st, NEW known, NEW n, NEW bad, Known(known, n),
           Carries(q, st, known, n, bad), NEW v \in Value, v[1] # "name"
    PROVE  LET o == Operand(v, known, n)
               en == Final(o.instrs, st)
           IN  /\ Carries(q, en, o.regs, o.n, bad) /\ o.regs = known
               /\ Held(o.reg, en) = v
               /\ \A k \in 1 .. n : Held(Reg(k), en) = Held(Reg(k), st)
<1>1. n \in Nat /\ st \in Machine
    BY DEF Known, Carries
<1>2. PICK r : r = Reg(n + 1)
    OBVIOUS
<1>3. r \in Register
    BY <1>1, <1>2, SlotIs
<1>4. PICK i : i = Instr("const", <<v>>, r)
    OBVIOUS
<1>5. i \in Instruction
    BY <1>3, <1>4 DEF Instruction, Constants
<1>6. Operand(v, known, n) = [instrs |-> <<i>>, reg |-> r, regs |-> known, n |-> n + 1]
    BY <1>2, <1>4 DEF Operand
<1>7. Final(<<i>>, st) = Do(i, st)
    <2>1. <<>> \in Seq(Instruction)
        OBVIOUS
    <2> QED BY <1>1, <1>5, <2>1, FinalOne
<1>8. i.op = "const" /\ i.args[1] = v /\ i.result = r /\ ~st.failed
    BY <1>4 DEF Instr, Carries
<1>9. Do(i, st) = Kept(st, r, v)
    BY <1>8 DEF Do
<1>10. PICK en : en = Kept(st, Reg(n + 1), v)
    OBVIOUS
<1>11. /\ Carries(q, en, known, n + 1, bad) /\ Held(Reg(n + 1), en) = v
       /\ \A k \in 1 .. n : Held(Reg(k), en) = Held(Reg(k), st)
    BY <1>10, RegisterWritten
<1>12. Final(<<i>>, st) = en
    BY <1>2, <1>7, <1>9, <1>10
<1> QED BY <1>2, <1>6, <1>11, <1>12

\* The instructions of an operand give its value a register.
LEMMA OperandIs ==
    ASSUME NEW q, ~q.raised, NEW st, NEW known, NEW n, NEW bad, Known(known, n),
           Carries(q, st, known, n, bad), NEW v, Sayable(v, q, bad)
    PROVE  LET o == Operand(v, known, n)
               en == Final(o.instrs, st)
           IN  /\ Carries(q, en, o.regs, o.n, bad)
               /\ Held(o.reg, en) = Meaning(v, q.env)
               /\ \A k \in 1 .. n : Held(Reg(k), en) = Held(Reg(k), st)
<1>1. n \in Nat /\ st \in Machine /\ v \in StrictOperand
    BY DEF Known, Carries, Sayable
<1>2. PICK r : r = Reg(n + 1)
    OBVIOUS
<1>3. r \in Register /\ r \notin DOMAIN st.slots
    <2>1. n + 1 \in Nat /\ n + 1 > n
        BY <1>1
    <2> QED BY <1>2, <2>1, SlotIs DEF Carries, Registers
<1>4. CASE v[1] # "name" /\ v \in Value
    <2>1. Meaning(v, q.env) = v
        BY <1>4 DEF Meaning, Sayable
    <2> QED BY <1>4, <2>1, ConstantIs
<1>5. CASE v[1] = "name" /\ v[2] \in Var /\ known[v[2]] # None
    <2>1. Operand(v, known, n) = [instrs |-> <<>>, reg |-> known[v[2]], regs |-> known, n |-> n]
        BY <1>5 DEF Operand
    <2>2. Final(<<>>, st) = st
        <3>1. <<>> \in Seq(Instruction)
            OBVIOUS
        <3> QED BY <1>1, <3>1, TraceIs DEF Final
    <2>3. Held(known[v[2]], st) = Meaning(v, q.env)
        BY <1>5 DEF Meaning, Sayable, Carries, Registers
    <2> QED BY <2>1, <2>2, <2>3
<1>6. CASE v[1] = "name" /\ v[2] \in Var /\ v = Name(v[2]) /\ known[v[2]] = None
    <2>1. PICK i : i = Instr("store", <<v, r>>, None)
        OBVIOUS
    <2>2. v \in Location
        BY <1>6, SlotIs
    <2>3. i \in Instruction
        BY <1>3, <2>1, <2>2 DEF Instruction, Stores
    <2>4. PICK m : m = [known EXCEPT ![v[2]] = r]
        OBVIOUS
    <2>5. Operand(v, known, n) = [instrs |-> <<i>>, reg |-> r, regs |-> m, n |-> n + 1]
        BY <1>2, <1>6, <2>1, <2>4 DEF Operand
    <2>6. Final(<<i>>, st) = Do(i, st)
        <3>1. <<>> \in Seq(Instruction)
            OBVIOUS
        <3> QED BY <1>1, <2>3, <3>1, FinalOne
    <2>7. i.op = "store" /\ i.args[1] = v /\ i.args[2] = r /\ ~st.failed
        BY <2>1 DEF Instr, Carries
    <2>8. PICK en : en = Kept(st, Name(v[2]), Num(0))
        OBVIOUS
    <2>9. Do(i, st) = en
        <3>1. Held(r, st) = Num(0)
            BY <1>3 DEF Held
        <3>2. Do(i, st) = Kept(st, v, Held(r, st))
            BY <2>7 DEF Do
        <3> QED BY <1>6, <2>8, <3>1, <3>2
    <2>10. /\ Carries(q, en, known, n, bad)
           /\ \A k : Held(Reg(k), en) = Held(Reg(k), st)
        <3>1. Num(0) \in Value
            BY DEF Num, Value
        <3> QED BY <1>6, <2>8, <3>1, NameWritten DEF Sayable
    <2>11. Held(r, en) = Num(0)
        BY <1>2, <1>3, <2>10 DEF Held
    <2>12. q.env[v[2]] = Undef /\ Meaning(v, q.env) = Num(0)
        BY <1>6 DEF Carries, Registers, Sayable, Meaning
    <2>13. Registers(q, en, m, n + 1, bad)
        <3>1. Registers(q, en, known, n, bad)
            BY <2>10 DEF Carries
        <3>2. \A k \in Nat : k > n + 1 => Reg(k) \notin DOMAIN en.slots
            BY <1>1, <3>1 DEF Registers
        <3>3. ASSUME NEW x \in Var \ bad
              PROVE  IF m[x] = None THEN q.env[x] = Undef
                     ELSE Held(m[x], en) = IF q.env[x] = Undef THEN Num(0) ELSE q.env[x]
            <4>1. CASE x = v[2]
                BY <1>2, <1>6, <2>4, <2>11, <2>12, <4>1, SlotIs DEF Known
            <4>2. CASE x # v[2]
                BY <2>4, <3>1, <4>2 DEF Registers, Known
            <4> QED BY <4>1, <4>2
        <3> QED BY <3>2, <3>3 DEF Registers
    <2>14. Carries(q, en, m, n + 1, bad)
        BY <2>10, <2>13 DEF Carries
    <2> QED BY <2>5, <2>6, <2>9, <2>10, <2>11, <2>12, <2>14
<1> QED BY <1>1, <1>4, <1>5, <1>6, OperandKinds

\* What an operand leaves as it is where its code does not run.
LEMMA OperandSkipped ==
    ASSUME NEW q, NEW st, NEW known, NEW n, NEW bad, Known(known, n),
           Registers(q, st, known, n, bad), NEW v \in StrictOperand
    PROVE  LET o == Operand(v, known, n)
           IN  Registers(q, st, o.regs, o.n, bad)
<1>1. n \in Nat
    BY DEF Known
<1>2. \A k \in Nat : k > n + 1 => Reg(k) \notin DOMAIN st.slots
    BY <1>1 DEF Registers
<1>3. CASE v[1] # "name"
    <2>1. Operand(v, known, n).regs = known /\ Operand(v, known, n).n = n + 1
        BY <1>3 DEF Operand
    <2> QED BY <1>2, <2>1 DEF Registers
<1>4. CASE v[1] = "name" /\ known[v[2]] # None
    <2>1. Operand(v, known, n).regs = known /\ Operand(v, known, n).n = n
        BY <1>4 DEF Operand
    <2> QED BY <2>1
<1>5. CASE v[1] = "name" /\ v[2] \in Var /\ known[v[2]] = None
    <2>1. PICK r : r = Reg(n + 1)
        OBVIOUS
    <2>2. PICK m : m = [known EXCEPT ![v[2]] = r]
        OBVIOUS
    <2>3. Operand(v, known, n).regs = m /\ Operand(v, known, n).n = n + 1
        BY <1>5, <2>1, <2>2 DEF Operand
    <2>4. r \notin DOMAIN st.slots
        <3>1. n + 1 \in Nat /\ n + 1 > n
            BY <1>1
        <3> QED BY <2>1, <3>1 DEF Registers
    <2>5. ASSUME NEW x \in Var \ bad
          PROVE  IF m[x] = None THEN q.env[x] = Undef
                 ELSE Held(m[x], st) = IF q.env[x] = Undef THEN Num(0) ELSE q.env[x]
        <3>1. CASE x = v[2]
            <4>1. m[x] = r /\ r # None
                BY <1>5, <2>1, <2>2, <3>1, SlotIs DEF Known
            <4>2. q.env[x] = Undef
                BY <1>5, <3>1 DEF Registers
            <4> QED BY <2>4, <4>1, <4>2 DEF Held
        <3>2. CASE x # v[2]
            BY <2>2, <3>2 DEF Registers, Known
        <3> QED BY <3>1, <3>2
    <2> QED BY <1>2, <2>3, <2>5 DEF Registers
<1> QED BY <1>3, <1>4, <1>5, OperandKinds

\* What an operation on two operands is lowered to.
LEMMA BinaryTyped ==
    ASSUME Known(regs, counter), NEW a \in StrictOperand, NEW b \in StrictOperand,
           NEW op \in {"add", "sub", "mul", "eq"}
    PROVE  LET bin == Binary(op, a, b)
           IN  /\ bin.instrs \in Seq(Instruction) /\ Known(bin.regs, bin.n)
               /\ \E k \in 1 .. bin.n : bin.reg = Reg(k)
<1>1. PICK left : left = Operand(a, regs, counter)
    OBVIOUS
<1>2. /\ left.instrs \in Seq(Instruction) /\ Known(left.regs, left.n)
      /\ \E k \in 1 .. left.n : left.reg = Reg(k)
    BY <1>1, OperandTyped
<1>3. PICK right : right = Operand(b, left.regs, left.n)
    OBVIOUS
<1>4. /\ right.instrs \in Seq(Instruction) /\ Known(right.regs, right.n)
      /\ (\E k \in 1 .. right.n : right.reg = Reg(k)) /\ right.n \in {left.n, left.n + 1}
    <2>1. PICK known : known = left.regs
        OBVIOUS
    <2>2. PICK n : n = left.n
        OBVIOUS
    <2>3. Known(known, n)
        BY <1>2, <2>1, <2>2
    <2>4. right = Operand(b, known, n)
        BY <1>3, <2>1, <2>2
    <2>5. /\ right.instrs \in Seq(Instruction) /\ Known(right.regs, right.n)
          /\ (\E k \in 1 .. right.n : right.reg = Reg(k)) /\ right.n \in {n, n + 1}
        BY <2>3, <2>4, OperandTyped
    <2> QED BY <2>2, <2>5
<1>5. PICK r : r = Reg(right.n + 1)
    OBVIOUS
<1>6. PICK i : i = Instr(op, <<left.reg, right.reg>>, r)
    OBVIOUS
<1>7. Binary(op, a, b) = [instrs |-> left.instrs \o right.instrs \o <<i>>, reg |-> r,
                          regs |-> right.regs, n |-> right.n + 1]
    BY <1>1, <1>3, <1>5, <1>6 DEF Binary
<1>8. right.n \in Nat /\ left.n \in Nat
    BY <1>2, <1>4 DEF Known
<1>9. i \in Instruction
    <2>1. left.reg \in Register /\ right.reg \in Register
        BY <1>2, <1>4, <1>8, SlotIs
    <2>2. r \in Register
        BY <1>5, <1>8, SlotIs
    <2>3. <<left.reg, right.reg>> \in Register \X Register
        BY <2>1
    <2> QED BY <1>6, <2>2, <2>3 DEF Instruction, Operations
<1>10. left.instrs \o right.instrs \o <<i>> \in Seq(Instruction)
    <2>1. PICK c \in Seq(Instruction) : c = left.instrs \o right.instrs
        BY <1>2, <1>4, ConcatIs
    <2> QED BY <1>9, <2>1, AppendIs, ConcatIs
<1>11. Known(right.regs, right.n + 1)
    <2>1. {Reg(k) : k \in 1 .. right.n} \subseteq {Reg(k) : k \in 1 .. right.n + 1}
        <3>1. \A k \in 1 .. right.n : k \in 1 .. right.n + 1
            BY <1>8
        <3> QED BY <3>1
    <2>2. right.n + 1 \in Nat
        BY <1>8
    <2> QED BY <1>4, <2>1, <2>2 DEF Known
<1>12. right.n + 1 \in 1 .. right.n + 1
    BY <1>8
<1> QED BY <1>5, <1>7, <1>10, <1>11, <1>12

\* What a binary operation's code does: it fails where the interpreter raises, and computes
\* the same otherwise.
Operates(op, a, b, q, st, bad) ==
    LET bin == Binary(op, a, b)
        en == Final(bin.instrs, st)
        x == Meaning(a, q.env)
        y == Meaning(b, q.env)
    IN  IF TypeError(op, x, y)
        THEN \A known, n : Carries([q EXCEPT !.raised = TRUE], en, known, n, bad)
        ELSE Carries(q, en, bin.regs, bin.n, bad) /\ Held(bin.reg, en) = Result(op, x, y)

\* Its instructions give the result a register, or fail.
LEMMA BinaryIs ==
    ASSUME NEW q \in State, ~q.raised, NEW st, NEW bad, Known(regs, counter),
           Carries(q, st, regs, counter, bad), NEW a, NEW b,
           Sayable(a, q, bad), Sayable(b, q, bad), NEW op \in {"add", "sub", "mul", "eq"}
    PROVE  Operates(op, a, b, q, st, bad)
<1> SUFFICES LET bin == Binary(op, a, b)
                 en == Final(bin.instrs, st)
                 x == Meaning(a, q.env)
                 y == Meaning(b, q.env)
             IN  IF TypeError(op, x, y)
                 THEN \A known, n : Carries([q EXCEPT !.raised = TRUE], en, known, n, bad)
                 ELSE /\ Carries(q, en, bin.regs, bin.n, bad)
                      /\ Held(bin.reg, en) = Result(op, x, y)
    BY DEF Operates
<1>1. PICK left : left = Operand(a, regs, counter)
    OBVIOUS
<1>2. PICK right : right = Operand(b, left.regs, left.n)
    OBVIOUS
<1>3. a \in StrictOperand /\ b \in StrictOperand /\ st \in Machine
    BY DEF Sayable, Carries
<1>4. /\ left.instrs \in Seq(Instruction) /\ Known(left.regs, left.n)
      /\ \E k \in 1 .. left.n : left.reg = Reg(k)
    BY <1>1, <1>3, OperandTyped
<1>5. /\ right.instrs \in Seq(Instruction) /\ Known(right.regs, right.n)
      /\ (\E k \in 1 .. right.n : right.reg = Reg(k)) /\ right.n \in {left.n, left.n + 1}
    <2>1. PICK known : known = left.regs
        OBVIOUS
    <2>2. PICK n : n = left.n
        OBVIOUS
    <2>3. Known(known, n)
        BY <1>4, <2>1, <2>2
    <2>4. right = Operand(b, known, n)
        BY <1>2, <2>1, <2>2
    <2>5. /\ right.instrs \in Seq(Instruction) /\ Known(right.regs, right.n)
          /\ (\E k \in 1 .. right.n : right.reg = Reg(k)) /\ right.n \in {n, n + 1}
        BY <1>3, <2>3, <2>4, OperandTyped
    <2> QED BY <2>2, <2>5
<1>6. PICK mid : mid = Final(left.instrs, st)
    OBVIOUS
<1>7. PICK x : x = Meaning(a, q.env)
    OBVIOUS
<1>8. PICK y : y = Meaning(b, q.env)
    OBVIOUS
<1>9. Carries(q, mid, left.regs, left.n, bad) /\ Held(left.reg, mid) = x
    BY <1>1, <1>6, <1>7, OperandIs
<1>10. PICK fin : fin = Final(right.instrs, mid)
    OBVIOUS
<1>11. /\ Carries(q, fin, right.regs, right.n, bad) /\ Held(right.reg, fin) = y
       /\ \A k \in 1 .. left.n : Held(Reg(k), fin) = Held(Reg(k), mid)
    BY <1>2, <1>4, <1>8, <1>9, <1>10, OperandIs
<1>12. Held(left.reg, fin) = x
    BY <1>4, <1>9, <1>11
<1>13. PICK r : r = Reg(right.n + 1)
    OBVIOUS
<1>14. PICK i : i = Instr(op, <<left.reg, right.reg>>, r)
    OBVIOUS
<1>15. Binary(op, a, b) = [instrs |-> left.instrs \o right.instrs \o <<i>>, reg |-> r,
                           regs |-> right.regs, n |-> right.n + 1]
    BY <1>1, <1>2, <1>13, <1>14 DEF Binary
<1>16. right.n \in Nat /\ left.n \in Nat /\ mid \in Machine /\ fin \in Machine /\ ~fin.failed
    BY <1>4, <1>5, <1>9, <1>11 DEF Known, Carries
<1>17. i \in Instruction
    <2>1. left.reg \in Register /\ right.reg \in Register
        BY <1>4, <1>5, <1>16, SlotIs
    <2>2. r \in Register
        BY <1>13, <1>16, SlotIs
    <2>3. <<left.reg, right.reg>> \in Register \X Register
        BY <2>1
    <2> QED BY <1>14, <2>2, <2>3 DEF Instruction, Operations
<1>18. PICK en : en = Final(left.instrs \o right.instrs \o <<i>>, st)
    OBVIOUS
<1>19. en = Do(i, fin)
    <2>1. PICK c \in Seq(Instruction) : c = left.instrs \o right.instrs
        BY <1>4, <1>5, ConcatIs
    <2>2. Append(c, i) = c \o <<i>>
        BY <1>17, AppendIs
    <2>3. Final(Append(c, i), st) = Do(i, Final(c, st))
        BY <1>3, <1>17, FinalOne
    <2>4. Final(c, st) = fin
        BY <1>3, <1>4, <1>5, <1>6, <1>10, <2>1, FinalConcat
    <2> QED BY <1>18, <2>1, <2>2, <2>3, <2>4
<1>20. i.op = op /\ i.args[1] = left.reg /\ i.args[2] = right.reg /\ i.result = r
    BY <1>14 DEF Instr
<1>21. CASE TypeError(op, x, y)
    <2>1. en = [fin EXCEPT !.failed = TRUE]
        BY <1>11, <1>12, <1>16, <1>19, <1>20, <1>21 DEF Do
    <2>2. /\ en \in Machine /\ en.failed = TRUE /\ en.slots = fin.slots
          /\ en.printed = fin.printed /\ en.files = fin.files
        BY <1>16, <2>1 DEF Machine
    <2>3. PICK w : w = [q EXCEPT !.raised = TRUE]
        OBVIOUS
    <2>4. w.raised = TRUE /\ w.out = q.out /\ w.files = q.files
        BY <2>3 DEF State
    <2>5. \A known, n : Carries(w, en, known, n, bad)
        BY <1>11, <2>2, <2>4 DEF Carries
    <2>6. Final(Binary(op, a, b).instrs, st) = en
        BY <1>15, <1>18
    <2>7. TypeError(op, Meaning(a, q.env), Meaning(b, q.env))
        BY <1>7, <1>8, <1>21
    <2>8. \A known, n : Carries([q EXCEPT !.raised = TRUE], en, known, n, bad)
        BY <2>3, <2>5
    <2> QED BY <2>6, <2>7, <2>8
<1>22. CASE ~(TypeError(op, x, y))
    <2>1. PICK v : v = Result(op, x, y)
        OBVIOUS
    <2>2. en = Kept(fin, r, v)
        BY <1>11, <1>12, <1>16, <1>19, <1>20, <1>22, <2>1 DEF Do
    <2>3. v \in Value
        <3>1. x \in Value /\ y \in Value
            BY <1>3, <1>7, <1>8, MeaningIs DEF State
        <3>2. op = "eq" => v \in Value
            BY <2>1 DEF Result, Truth, Num, Value, SameValue
        <3>3. op # "eq" => OpName(op) \in {"PLUS", "MINUS", "TIMES"}
            BY DEF OpName
        <3>4. op # "eq" => Calculate(OpName(op), x, y) \in Value
            <4>1. op # "eq" => Fits(OpName(op), x, y)
                BY <1>22 DEF TypeError
            <4> QED BY <3>1, <3>3, <4>1, CalculateIs
        <3> QED BY <2>1, <3>2, <3>4 DEF Result
    <2>4. Carries(q, en, right.regs, right.n + 1, bad) /\ Held(r, en) = v
        BY <1>5, <1>11, <1>13, <2>2, <2>3, RegisterWritten
    <2> QED BY <1>7, <1>8, <1>15, <1>18, <1>22, <2>1, <2>4
<1> QED BY <1>7, <1>8, <1>21, <1>22
-----------------------------------------------------------------------------
(* Compilable programs: what a statement is lowered to *)

\* One statement is lowered, to m.instrs, after which m.regs and m.n are known.
LoweredBy(m) ==
    /\ blocks' = Add(blocks, block, m.instrs)
    /\ regs' = m.regs /\ counter' = m.n
    /\ lowering' = Lowered
    /\ UNCHANGED block

\* The operands of a statement are those the compiler translates faithfully.
Said(k, q, bad) ==
    /\ lines[k].kind \in {"set", "output", "write"} => Sayable(lines[k].left, q, bad)
    /\ lines[k].kind = "set" => lines[k].var \in Declared
    /\ lines[k].kind = "set" /\ lines[k].op # "NONE" => Sayable(lines[k].right, q, bad)

\* The instructions do what the statement does; where they do not run, the registers are
\* as they were, but for that of a variable that it sets.
Translates(k, m) ==
    /\ m.instrs \in Seq(Instruction) /\ Known(m.regs, m.n)
    /\ \A q \in State : \A st, bad :
          ~q.raised /\ Carries(q, st, regs, counter, bad) /\ Said(k, q, bad) =>
              Carries(Effect(k, q), Final(m.instrs, st), m.regs, m.n, bad)
    /\ \A q, st, bad :
          Registers(q, st, regs, counter, bad)
              /\ (lines[k].kind = "set" => lines[k].var \in bad) =>
                  Registers(q, st, m.regs, m.n, bad)

\* What OUTPUT is lowered to.
LEMMA OutputTranslated ==
    ASSUME LowerOutput, NEW k, k = Upcoming, lines[k] \in StrictSourceLine,
           Known(regs, counter)
    PROVE  \E m : LoweredBy(m) /\ Translates(k, m)
<1>1. lines[k].kind = "output" /\ lines[k].left \in StrictOperand
    BY WordIs DEF LowerOutput, Lowering, Stmt
<1>2. PICK v : v = lines[k].left
    OBVIOUS
<1>3. PICK res : res = Operand(v, regs, counter)
    OBVIOUS
<1>4. /\ res.instrs \in Seq(Instruction) /\ Known(res.regs, res.n)
      /\ \E c \in 1 .. res.n : res.reg = Reg(c)
    BY <1>1, <1>2, <1>3, OperandTyped
<1>5. PICK i : i = Instr("print", <<res.reg>>, None)
    OBVIOUS
<1>6. PICK m : m = [instrs |-> Append(res.instrs, i), regs |-> res.regs, n |-> res.n]
    OBVIOUS
<1>7. LoweredBy(m)
    BY <1>2, <1>3, <1>5, <1>6 DEF LowerOutput, LoweredBy, Stmt
<1>8. res.reg \in Register
    BY <1>4, SlotIs DEF Known
<1>9. i \in Instruction
    BY <1>5, <1>8 DEF Instruction, Prints
<1>10. m.instrs \in Seq(Instruction) /\ Known(m.regs, m.n)
    BY <1>4, <1>6, <1>9, AppendIs
<1>11. ASSUME NEW q \in State, NEW st, NEW bad, ~q.raised,
              Carries(q, st, regs, counter, bad), Said(k, q, bad)
       PROVE  Carries(Effect(k, q), Final(m.instrs, st), m.regs, m.n, bad)
    <2>1. PICK mid : mid = Final(res.instrs, st)
        OBVIOUS
    <2>2. Sayable(v, q, bad)
        BY <1>1, <1>2, <1>11 DEF Said
    <2>3. Carries(q, mid, res.regs, res.n, bad) /\ Held(res.reg, mid) = Meaning(v, q.env)
        BY <1>3, <1>11, <2>1, <2>2, OperandIs
    <2>4. st \in Machine /\ mid \in Machine /\ ~mid.failed
        BY <1>11, <2>3 DEF Carries
    <2>5. PICK en : en = Final(m.instrs, st)
        OBVIOUS
    <2>6. en = Do(i, mid)
        BY <1>4, <1>6, <1>9, <2>1, <2>4, <2>5, FinalOne
    <2>7. PICK x : x = Meaning(v, q.env)
        OBVIOUS
    <2>8. i.op = "print" /\ i.args[1] = res.reg
        BY <1>5 DEF Instr
    <2>9. en = [mid EXCEPT !.printed = Append(mid.printed, x)]
        BY <2>3, <2>4, <2>6, <2>7, <2>8 DEF Do
    <2>10. en \in Machine
        BY <1>9, <2>4, <2>6, DoIs
    <2>11. /\ en.slots = mid.slots /\ en.files = mid.files /\ en.failed = mid.failed
           /\ en.printed = Append(mid.printed, x)
        BY <2>4, <2>9 DEF Machine
    <2>12. PICK w : w = Effect(k, q)
        OBVIOUS
    <2>13. w = [q EXCEPT !.out = Append(q.out, x)]
        BY <1>1, <1>2, <2>7, <2>12 DEF Effect, Raises, Left
    <2>14. /\ w.out = Append(q.out, x) /\ w.env = q.env /\ w.files = q.files
           /\ w.raised = q.raised
        BY <2>13 DEF State
    <2>15. Registers(w, en, res.regs, res.n, bad)
        BY <1>11, <2>3, <2>11, <2>14 DEF Carries, Registers, Held
    <2>16. Carries(w, en, res.regs, res.n, bad)
        BY <2>3, <2>10, <2>11, <2>14, <2>15 DEF Carries
    <2> QED BY <1>6, <2>5, <2>12, <2>16
<1>12. ASSUME NEW q, NEW st, NEW bad, Registers(q, st, regs, counter, bad)
       PROVE  Registers(q, st, m.regs, m.n, bad)
    BY <1>1, <1>2, <1>3, <1>6, <1>12, OperandSkipped
<1>13. Translates(k, m)
    BY <1>10, <1>11, <1>12 DEF Translates
<1> QED BY <1>7, <1>13

\* More registers may be made.
LEMMA MoreRegisters ==
    ASSUME NEW known, NEW n, Known(known, n)
    PROVE  /\ Known(known, n + 1)
           /\ \A q, st, bad : Registers(q, st, known, n, bad) =>
                  Registers(q, st, known, n + 1, bad)
<1>1. n \in Nat /\ known \in [Var -> {None} \cup {Reg(c) : c \in 1 .. n}]
    BY DEF Known
<1>2. \A c \in 1 .. n : c \in 1 .. n + 1
    BY <1>1
<1>3. {Reg(c) : c \in 1 .. n} \subseteq {Reg(c) : c \in 1 .. n + 1}
    BY <1>2
<1>4. \A c \in Nat : c > n + 1 => c > n
    BY <1>1
<1>5. n + 1 \in Nat
    BY <1>1
<1> QED BY <1>1, <1>3, <1>4, <1>5 DEF Known, Registers
\* A file of each is written.
LEMMA AlikeStored ==
    ASSUME NEW map, NEW written, Alike(map, written), NEW f, NEW a, NEW b,
           IF b = <<>> THEN a = <<>> ELSE a # <<>> /\ Last(a) = Last(b)
    PROVE  Alike(Stored(map, f, a), Stored(written, f, b))
<1>1. PICK map2 : map2 = Stored(map, f, a)
    OBVIOUS
<1>2. PICK written2 : written2 = Stored(written, f, b)
    OBVIOUS
<1>3. /\ DOMAIN map2 = DOMAIN map \cup {f} /\ map2[f] = a
      /\ \A k \in DOMAIN map : k # f => map2[k] = map[k]
    BY <1>1 DEF Stored
<1>4. /\ DOMAIN written2 = DOMAIN written \cup {f} /\ written2[f] = b
      /\ \A k \in DOMAIN written : k # f => written2[k] = written[k]
    BY <1>2 DEF Stored
<1>5. Alike(map2, written2)
    BY <1>3, <1>4 DEF Alike
<1> QED BY <1>1, <1>2, <1>5

\* The name of a file is a value.
LEMMA FileNameIs ==
    ASSUME NEW k, lines[k] \in StrictSourceLine
    PROVE  LET v == Str(lines[k].var)
           IN  v \in StrictOperand /\ v \in Value /\ v[1] # "name" /\ v[2] = lines[k].var
BY DEF StrictSourceLine, SourceLine, Str, Value, StrictOperand

\* What CREATE FILE is lowered to.
LEMMA CreateTranslated ==
    ASSUME LowerCreateFile, NEW k, k = Upcoming, lines[k] \in StrictSourceLine,
           Known(regs, counter)
    PROVE  \E m : LoweredBy(m) /\ Translates(k, m)
<1>1. lines[k].kind = "create"
    BY DEF LowerCreateFile, Lowering, Stmt
<1>2. PICK v : v = Str(lines[k].var)
    OBVIOUS
<1>3. v \in StrictOperand /\ v \in Value /\ v[1] # "name" /\ v[2] = lines[k].var
    BY <1>2, FileNameIs
<1>4. PICK res : res = Operand(v, regs, counter)
    OBVIOUS
<1>5. /\ res.instrs \in Seq(Instruction) /\ Known(res.regs, res.n)
      /\ \E c \in 1 .. res.n : res.reg = Reg(c)
    BY <1>3, <1>4, OperandTyped
<1>6. res.regs = regs
    BY <1>3, <1>4 DEF Operand
<1>7. PICK i : i = Instr("file.create", <<res.reg>>, None)
    OBVIOUS
<1>8. PICK m : m = [instrs |-> Append(res.instrs, i), regs |-> res.regs, n |-> res.n]
    OBVIOUS
<1>9. LoweredBy(m)
    BY <1>2, <1>4, <1>6, <1>7, <1>8 DEF LowerCreateFile, LoweredBy, Stmt
<1>10. res.reg \in Register
    BY <1>5, SlotIs DEF Known
<1>11. i \in Instruction
    BY <1>7, <1>10 DEF Instruction, Creates
<1>12. m.instrs \in Seq(Instruction) /\ Known(m.regs, m.n)
    BY <1>5, <1>8, <1>11, AppendIs
<1>13. ASSUME NEW q \in State, NEW st, NEW bad, ~q.raised, Carries(q, st, regs, counter, bad)
       PROVE  Carries(Effect(k, q), Final(m.instrs, st), m.regs, m.n, bad)
    <2>1. PICK mid : mid = Final(res.instrs, st)
        OBVIOUS
    <2>2. Carries(q, mid, res.regs, res.n, bad) /\ Held(res.reg, mid) = v
        BY <1>3, <1>4, <1>13, <2>1, ConstantIs
    <2>3. st \in Machine /\ mid \in Machine /\ ~mid.failed
        BY <1>13, <2>2 DEF Carries
    <2>4. PICK en : en = Final(m.instrs, st)
        OBVIOUS
    <2>5. en = Do(i, mid)
        BY <1>5, <1>8, <1>11, <2>1, <2>3, <2>4, FinalOne
    <2>6. PICK name : name = lines[k].var
        OBVIOUS
    <2>7. i.op = "file.create" /\ i.args[1] = res.reg
        BY <1>7 DEF Instr
    <2>8. en = [mid EXCEPT !.files = Stored(mid.files, name, <<>>)]
        BY <1>3, <2>2, <2>3, <2>5, <2>6, <2>7 DEF Do
    <2>9. en \in Machine
        BY <1>11, <2>3, <2>5, DoIs
    <2>10. /\ en.slots = mid.slots /\ en.printed = mid.printed /\ en.failed = mid.failed
           /\ en.files = Stored(mid.files, name, <<>>)
        BY <2>3, <2>8 DEF Machine
    <2>11. PICK w : w = Effect(k, q)
        OBVIOUS
    <2>12. w = [q EXCEPT !.files = Stored(q.files, name, <<>>)]
        BY <1>1, <2>6, <2>11 DEF Effect, Raises
    <2>13. /\ w.files = Stored(q.files, name, <<>>) /\ w.env = q.env /\ w.out = q.out
           /\ w.raised = q.raised
        BY <2>12 DEF State
    <2>14. Alike(en.files, w.files)
        BY <2>2, <2>10, <2>13, AlikeStored DEF Carries
    <2>15. Registers(w, en, res.regs, res.n, bad)
        BY <1>13, <2>2, <2>10, <2>13 DEF Carries, Registers, Held
    <2>16. Carries(w, en, res.regs, res.n, bad)
        BY <2>2, <2>9, <2>10, <2>13, <2>14, <2>15 DEF Carries
    <2> QED BY <1>8, <2>4, <2>11, <2>16
<1>14. ASSUME NEW q, NEW st, NEW bad, Registers(q, st, regs, counter, bad)
       PROVE  Registers(q, st, m.regs, m.n, bad)
    BY <1>3, <1>4, <1>8, <1>14, OperandSkipped
<1>15. Translates(k, m)
    BY <1>12, <1>13, <1>14 DEF Translates
<1> QED BY <1>9, <1>15

\* What WRITE is lowered to.
LEMMA WriteTranslated ==
    ASSUME LowerWriteFile, NEW k, k = Upcoming, lines[k] \in StrictSourceLine,
           Known(regs, counter)
    PROVE  \E m : LoweredBy(m) /\ Translates(k, m)
<1>1. lines[k].kind = "write" /\ lines[k].left \in StrictOperand
    BY WordIs DEF LowerWriteFile, Lowering, Stmt
<1>2. PICK v : v = Str(lines[k].var)
    OBVIOUS
<1>3. v \in StrictOperand /\ v \in Value /\ v[1] # "name" /\ v[2] = lines[k].var
    BY <1>2, FileNameIs
<1>4. PICK file : file = Operand(v, regs, counter)
    OBVIOUS
<1>5. PICK n : n = file.n
    OBVIOUS
<1>6. /\ file.instrs \in Seq(Instruction) /\ Known(file.regs, file.n)
      /\ \E c \in 1 .. file.n : file.reg = Reg(c)
    BY <1>3, <1>4, OperandTyped
<1>7. file.regs = regs /\ Known(regs, n)
    BY <1>3, <1>4, <1>5, <1>6 DEF Operand
<1>8. PICK u : u = lines[k].left
    OBVIOUS
<1>9. PICK res : res = Operand(u, regs, n)
    OBVIOUS
<1>10. /\ res.instrs \in Seq(Instruction) /\ Known(res.regs, res.n)
       /\ \E c \in 1 .. res.n : res.reg = Reg(c)
    BY <1>1, <1>7, <1>8, <1>9, OperandTyped
<1>11. PICK i : i = Instr("file.write", <<file.reg, res.reg>>, None)
    OBVIOUS
<1>12. PICK both \in Seq(Instruction) : both = file.instrs \o res.instrs
    BY <1>6, <1>10, ConcatIs
<1>13. PICK m : m = [instrs |-> Append(both, i), regs |-> res.regs, n |-> res.n]
    OBVIOUS
<1>14. LoweredBy(m)
    BY <1>2, <1>4, <1>5, <1>8, <1>9, <1>11, <1>12, <1>13
    DEF LowerWriteFile, LoweredBy, Stmt
<1>15. res.reg \in Register /\ file.reg \in Register
    <2>1. res.n \in Nat /\ file.n \in Nat
        BY <1>6, <1>10 DEF Known
    <2>2. \A c \in Nat : Reg(c) \in Register
        BY SlotIs
    <2> QED BY <1>6, <1>10, <2>1, <2>2
<1>16. i \in Instruction
    <2>1. i \in Writes
        BY <1>11, <1>15 DEF Writes
    <2> QED BY <2>1 DEF Instruction
<1>17. m.instrs \in Seq(Instruction) /\ Known(m.regs, m.n)
    BY <1>10, <1>12, <1>13, <1>16, AppendIs
<1>18. ASSUME NEW q \in State, NEW st, NEW bad, ~q.raised,
              Carries(q, st, regs, counter, bad), Said(k, q, bad)
       PROVE  Carries(Effect(k, q), Final(m.instrs, st), m.regs, m.n, bad)
    <2>1. PICK mid : mid = Final(file.instrs, st)
        OBVIOUS
    <2>2. Carries(q, mid, regs, n, bad) /\ Held(file.reg, mid) = v
        BY <1>3, <1>4, <1>5, <1>7, <1>18, <2>1, ConstantIs
    <2>3. Sayable(u, q, bad)
        BY <1>1, <1>8, <1>18 DEF Said
    <2>4. PICK fin : fin = Final(res.instrs, mid)
        OBVIOUS
    <2>5. PICK x : x = Meaning(u, q.env)
        OBVIOUS
    <2>6. /\ Carries(q, fin, res.regs, res.n, bad) /\ Held(res.reg, fin) = x
          /\ \A c \in 1 .. n : Held(Reg(c), fin) = Held(Reg(c), mid)
        BY <1>7, <1>9, <1>18, <2>2, <2>3, <2>4, <2>5, OperandIs
    <2>7. Held(file.reg, fin) = v
        BY <1>5, <1>6, <2>2, <2>6
    <2>8. st \in Machine /\ mid \in Machine /\ fin \in Machine /\ ~fin.failed
        BY <1>18, <2>2, <2>6 DEF Carries
    <2>9. PICK en : en = Final(m.instrs, st)
        OBVIOUS
    <2>10. en = Do(i, fin)
        <3>1. Final(both, st) = fin
            BY <1>6, <1>10, <1>12, <2>1, <2>4, <2>8, FinalConcat
        <3> QED BY <1>12, <1>13, <1>16, <2>8, <2>9, <3>1, FinalOne
    <2>11. PICK name : name = lines[k].var
        OBVIOUS
    <2>12. PICK held : held = IF name \in DOMAIN fin.files THEN fin.files[name] ELSE <<>>
        OBVIOUS
    <2>13. i.op = "file.write" /\ i.args[1] = file.reg /\ i.args[2] = res.reg
        BY <1>11 DEF Instr
    <2>14. en = [fin EXCEPT !.files = Stored(fin.files, name, Append(held, x))]
        BY <1>3, <2>6, <2>7, <2>8, <2>10, <2>11, <2>12, <2>13 DEF Do
    <2>15. en \in Machine
        BY <1>16, <2>8, <2>10, DoIs
    <2>16. /\ en.slots = fin.slots /\ en.printed = fin.printed /\ en.failed = fin.failed
           /\ en.files = Stored(fin.files, name, Append(held, x))
        BY <2>8, <2>14 DEF Machine
    <2>17. PICK w : w = Effect(k, q)
        OBVIOUS
    <2>18. w = [q EXCEPT !.files = Stored(q.files, name, <<x, x>>)]
        BY <1>1, <1>8, <2>5, <2>11, <2>17 DEF Effect, Raises, Left
    <2>19. /\ w.files = Stored(q.files, name, <<x, x>>) /\ w.env = q.env /\ w.out = q.out
           /\ w.raised = q.raised
        BY <2>18 DEF State
    <2>20. Append(held, x) # <<>> /\ Last(Append(held, x)) = x
        <3>1. x \in Value
            BY <1>1, <1>8, <2>5, MeaningIs DEF State
        <3>2. held \in Seq(Value)
            <4>1. fin.files \in Contents
                BY <2>8 DEF Machine
            <4>2. \A f \in DOMAIN fin.files : fin.files[f] \in Seq(Value)
                BY <4>1 DEF Contents
            <4>3. <<>> \in Seq(Value)
                OBVIOUS
            <4> QED BY <2>12, <4>2, <4>3
        <3> QED BY <3>1, <3>2 DEF Last
    <2>21. Alike(en.files, w.files)
        <3>1. <<x, x>> # <<>> /\ Last(<<x, x>>) = x
            BY Short2
        <3> QED BY <2>6, <2>16, <2>19, <2>20, <3>1, AlikeStored DEF Carries
    <2>22. Registers(w, en, res.regs, res.n, bad)
        BY <1>18, <2>6, <2>16, <2>19 DEF Carries, Registers, Held
    <2>23. Carries(w, en, res.regs, res.n, bad)
        BY <2>6, <2>15, <2>16, <2>19, <2>21, <2>22 DEF Carries
    <2> QED BY <1>13, <2>9, <2>17, <2>23
<1>19. ASSUME NEW q, NEW st, NEW bad, Registers(q, st, regs, counter, bad)
       PROVE  Registers(q, st, m.regs, m.n, bad)
    <2>1. Registers(q, st, regs, n, bad)
        BY <1>3, <1>4, <1>5, <1>7, <1>19, OperandSkipped
    <2> QED BY <1>1, <1>7, <1>8, <1>9, <1>13, <2>1, OperandSkipped
<1>20. Translates(k, m)
    BY <1>17, <1>18, <1>19 DEF Translates
<1> QED BY <1>14, <1>20
\* What an operation on two operands leaves as it is where its code does not run.
LEMMA BinarySkipped ==
    ASSUME Known(regs, counter), NEW q, NEW st, NEW bad, Registers(q, st, regs, counter, bad),
           NEW a \in StrictOperand, NEW b \in StrictOperand, NEW op
    PROVE  LET bin == Binary(op, a, b)
           IN  Registers(q, st, bin.regs, bin.n, bad)
<1>1. PICK left : left = Operand(a, regs, counter)
    OBVIOUS
<1>2. PICK known : known = left.regs
    OBVIOUS
<1>3. PICK n : n = left.n
    OBVIOUS
<1>4. Known(known, n)
    BY <1>1, <1>2, <1>3, OperandTyped
<1>5. Registers(q, st, known, n, bad)
    BY <1>1, <1>2, <1>3, OperandSkipped
<1>6. PICK right : right = Operand(b, known, n)
    OBVIOUS
<1>7. PICK known2 : known2 = right.regs
    OBVIOUS
<1>8. PICK n2 : n2 = right.n
    OBVIOUS
<1>9. Known(known2, n2)
    BY <1>4, <1>6, <1>7, <1>8, OperandTyped
<1>10. Registers(q, st, known2, n2, bad)
    BY <1>4, <1>5, <1>6, <1>7, <1>8, OperandSkipped
<1>11. Registers(q, st, known2, n2 + 1, bad)
    BY <1>9, <1>10, MoreRegisters
<1>12. Binary(op, a, b).regs = known2 /\ Binary(op, a, b).n = n2 + 1
    BY <1>1, <1>2, <1>3, <1>6, <1>7, <1>8 DEF Binary
<1> QED BY <1>11, <1>12

\* The value of a SET is in a register, or the SET is a type error.
Computes(k, res) ==
    /\ res.instrs \in Seq(Instruction) /\ Known(res.regs, res.n)
    /\ \E c \in 1 .. res.n : res.reg = Reg(c)
    /\ \A q \in State : \A st, bad :
          ~q.raised /\ Carries(q, st, regs, counter, bad) /\ Said(k, q, bad) =>
              IF Raises(k, q)
              THEN \A known, n :
                      Carries([q EXCEPT !.raised = TRUE], Final(res.instrs, st), known, n, bad)
              ELSE /\ Carries(q, Final(res.instrs, st), res.regs, res.n, bad)
                   /\ Held(res.reg, Final(res.instrs, st)) = Assigned(k, q)
    /\ \A q, st, bad :
          Registers(q, st, regs, counter, bad) => Registers(q, st, res.regs, res.n, bad)

\* Without an operation it is the operand.
LEMMA ComputesOperand ==
    ASSUME NEW k, lines[k] \in StrictSourceLine, lines[k].kind = "set", lines[k].op = "NONE",
           Known(regs, counter)
    PROVE  Computes(k, Operand(lines[k].left, regs, counter))
<1>1. PICK v \in StrictOperand : v = lines[k].left
    BY WordIs
<1>2. PICK res : res = Operand(v, regs, counter)
    OBVIOUS
<1>3. /\ res.instrs \in Seq(Instruction) /\ Known(res.regs, res.n)
      /\ \E c \in 1 .. res.n : res.reg = Reg(c)
    BY <1>2, OperandTyped
<1>4. ASSUME NEW q \in State, NEW st, NEW bad, ~q.raised,
             Carries(q, st, regs, counter, bad), Said(k, q, bad)
      PROVE  /\ ~Raises(k, q)
             /\ Carries(q, Final(res.instrs, st), res.regs, res.n, bad)
             /\ Held(res.reg, Final(res.instrs, st)) = Assigned(k, q)
    <2>1. Sayable(v, q, bad)
        BY <1>1, <1>4 DEF Said
    <2>2. /\ Carries(q, Final(res.instrs, st), res.regs, res.n, bad)
          /\ Held(res.reg, Final(res.instrs, st)) = Meaning(v, q.env)
        BY <1>2, <1>4, <2>1, OperandIs
    <2>3. ~Raises(k, q) /\ Assigned(k, q) = Meaning(v, q.env)
        BY <1>1 DEF Raises, Assigned, Left
    <2> QED BY <2>2, <2>3
<1>5. \A q, st, bad :
          Registers(q, st, regs, counter, bad) => Registers(q, st, res.regs, res.n, bad)
    BY <1>2, OperandSkipped
<1>6. Computes(k, res)
    BY <1>3, <1>4, <1>5 DEF Computes
<1> QED BY <1>1, <1>2, <1>6

\* With one it is the result.
LEMMA ComputesBinary ==
    ASSUME NEW k, lines[k] \in StrictSourceLine, lines[k].kind = "set",
           NEW op \in {"add", "sub", "mul"}, lines[k].op = OpName(op), Known(regs, counter)
    PROVE  Computes(k, Binary(op, lines[k].left, lines[k].right))
<1>1. PICK a \in StrictOperand : a = lines[k].left
    BY WordIs
<1>2. PICK b \in StrictOperand : b = lines[k].right
    BY WordIs
<1>3. PICK res : res = Binary(op, a, b)
    OBVIOUS
<1>4. /\ res.instrs \in Seq(Instruction) /\ Known(res.regs, res.n)
      /\ \E c \in 1 .. res.n : res.reg = Reg(c)
    BY <1>3, BinaryTyped
<1>5. lines[k].op # "NONE" /\ op # "eq"
    BY DEF OpName
<1>6. ASSUME NEW q \in State, NEW st, NEW bad, ~q.raised,
             Carries(q, st, regs, counter, bad), Said(k, q, bad)
      PROVE  IF Raises(k, q)
             THEN \A known, n :
                     Carries([q EXCEPT !.raised = TRUE], Final(res.instrs, st), known, n, bad)
             ELSE /\ Carries(q, Final(res.instrs, st), res.regs, res.n, bad)
                  /\ Held(res.reg, Final(res.instrs, st)) = Assigned(k, q)
    <2>1. Sayable(a, q, bad) /\ Sayable(b, q, bad)
        BY <1>1, <1>2, <1>5, <1>6 DEF Said
    <2>2. PICK en : en = Final(res.instrs, st)
        OBVIOUS
    <2>3. PICK x : x = Meaning(a, q.env)
        OBVIOUS
    <2>4. PICK y : y = Meaning(b, q.env)
        OBVIOUS
    <2>5. op \in {"add", "sub", "mul", "eq"}
        OBVIOUS
    <2>6. IF TypeError(op, x, y)
          THEN \A known, n : Carries([q EXCEPT !.raised = TRUE], en, known, n, bad)
          ELSE Carries(q, en, res.regs, res.n, bad) /\ Held(res.reg, en) = Result(op, x, y)
        <3>1. Operates(op, a, b, q, st, bad)
            BY <1>3, <1>6, <2>1, <2>5, BinaryIs
        <3> QED BY <1>3, <2>2, <2>3, <2>4, <3>1 DEF Operates
    <2>7. Raises(k, q) <=> TypeError(op, x, y)
        <3>1. TypeError(op, x, y) <=> ~Fits(lines[k].op, x, y)
            BY DEF TypeError
        <3> QED BY <1>1, <1>2, <1>5, <2>3, <2>4, <3>1 DEF Raises, Left, Right
    <2>8. Assigned(k, q) = Result(op, x, y)
        BY <1>1, <1>2, <1>5, <2>3, <2>4 DEF Assigned, Result, Left, Right
    <2> QED BY <1>5, <2>2, <2>6, <2>7, <2>8
<1>7. \A q, st, bad :
          Registers(q, st, regs, counter, bad) => Registers(q, st, res.regs, res.n, bad)
    BY <1>3, BinarySkipped
<1>8. Computes(k, res)
    BY <1>4, <1>6, <1>7 DEF Computes
<1> QED BY <1>1, <1>2, <1>3, <1>8

\* The value in a register is made that of a variable.
LEMMA VariableSet ==
    ASSUME NEW q \in State, ~q.raised, NEW st, NEW known, NEW n, NEW bad, Known(known, n),
           Carries(q, st, known, n, bad), NEW v \in Value,
           NEW r, \E c \in 1 .. n : r = Reg(c), Held(r, st) = v,
           NEW x \in Var, x \in Declared
    PROVE  LET w == [q EXCEPT !.env = [q.env EXCEPT ![x] = v]]
               en == Kept(st, Name(x), v)
               made == [known EXCEPT ![x] = r]
           IN  Known(made, n) /\ Carries(w, en, made, n, bad)
<1>1. PICK w : w = [q EXCEPT !.env = [q.env EXCEPT ![x] = v]]
    OBVIOUS
<1>2. PICK en : en = Kept(st, Name(x), v)
    OBVIOUS
<1>3. PICK made : made = [known EXCEPT ![x] = r]
    OBVIOUS
<1>4. n \in Nat /\ known \in [Var -> {None} \cup {Reg(c) : c \in 1 .. n}]
    BY DEF Known
<1>5. made \in [Var -> {None} \cup {Reg(c) : c \in 1 .. n}]
    BY <1>3, <1>4
<1>6. q.env \in Store
    BY DEF State
<1>7. /\ w.out = q.out /\ w.files = q.files /\ w.raised = q.raised
      /\ w.env = [q.env EXCEPT ![x] = v]
    BY <1>1 DEF State
<1>8. Carries(q, en, known, n, bad) /\ \A c : Held(Reg(c), en) = Held(Reg(c), st)
    BY <1>2, NameWritten
<1>9. v # Undef
    BY DEF Value, Undef
<1>10. ASSUME NEW y \in Var \ bad
       PROVE  IF made[y] = None THEN w.env[y] = Undef
              ELSE Held(made[y], en) = IF w.env[y] = Undef THEN Num(0) ELSE w.env[y]
    <2>1. CASE y = x
        <3>1. made[y] = r /\ r # None
            BY <1>3, <1>4, <2>1, SlotIs
        <3>2. w.env[y] = v
            BY <1>6, <1>7, <2>1 DEF Store
        <3>3. Held(r, en) = v
            BY <1>8
        <3> QED BY <1>9, <3>1, <3>2, <3>3
    <2>2. CASE y # x
        <3>1. made[y] = known[y]
            BY <1>3, <1>4, <2>2
        <3>2. w.env[y] = q.env[y]
            BY <1>6, <1>7, <2>2 DEF Store
        <3>3. Registers(q, en, known, n, bad)
            BY <1>8 DEF Carries
        <3> QED BY <3>1, <3>2, <3>3 DEF Registers
    <2> QED BY <2>1, <2>2
<1>11. Registers(w, en, made, n, bad)
    BY <1>8, <1>10 DEF Carries, Registers
<1>12. Carries(w, en, made, n, bad)
    BY <1>7, <1>8, <1>11 DEF Carries
<1>13. Known(made, n)
    BY <1>4, <1>5, SMTT(20) DEF Known
<1> QED BY <1>1, <1>2, <1>3, <1>12, <1>13

\* What SET is lowered to.
LEMMA SetTranslated ==
    ASSUME LowerSet, NEW k, k = Upcoming, lines[k] \in StrictSourceLine,
           Known(regs, counter)
    PROVE  \E m : LoweredBy(m) /\ Translates(k, m)
<1>1. lines[k].kind = "set" /\ lines[k].var \in Var /\ lines[k].op \in Operation
    BY WordIs DEF LowerSet, Lowering, Stmt
<1>2. PICK op : op = CASE lines[k].op = "PLUS" -> "add" [] lines[k].op = "MINUS" -> "sub"
                       [] lines[k].op = "TIMES" -> "mul" [] OTHER -> "none"
    OBVIOUS
<1>3. PICK res : res = IF op = "none" THEN Operand(lines[k].left, regs, counter)
                       ELSE Binary(op, lines[k].left, lines[k].right)
    OBVIOUS
<1>4. Computes(k, res)
    <2>1. CASE lines[k].op = "NONE"
        <3>1. op = "none"
            BY <1>2, <2>1
        <3> QED BY <1>1, <1>3, <2>1, <3>1, ComputesOperand
    <2>2. CASE lines[k].op # "NONE"
        <3>1. lines[k].op \in {"PLUS", "MINUS", "TIMES"}
            BY <1>1, <2>2 DEF Operation
        <3>2. op \in {"add", "sub", "mul"} /\ lines[k].op = OpName(op)
            BY <1>2, <3>1 DEF OpName
        <3> QED BY <1>1, <1>3, <3>2, ComputesBinary
    <2> QED BY <2>1, <2>2
<1>5. PICK x : x = lines[k].var
    OBVIOUS
<1>6. PICK i : i = Instr("store", <<Name(x), res.reg>>, None)
    OBVIOUS
<1>7. PICK made : made = [res.regs EXCEPT ![x] = res.reg]
    OBVIOUS
<1>8. PICK m : m = [instrs |-> Append(res.instrs, i), regs |-> made, n |-> res.n]
    OBVIOUS
<1>9. LoweredBy(m)
    BY <1>2, <1>3, <1>5, <1>6, <1>7, <1>8 DEF LowerSet, LoweredBy, Stmt
<1>10. /\ res.instrs \in Seq(Instruction) /\ Known(res.regs, res.n)
       /\ \E c \in 1 .. res.n : res.reg = Reg(c)
    BY <1>4 DEF Computes
<1>11. res.reg \in Register /\ Name(x) \in Location
    <2>1. res.n \in Nat
        BY <1>10 DEF Known
    <2>2. \A c \in Nat : Reg(c) \in Register
        BY SlotIs
    <2> QED BY <1>1, <1>5, <1>10, <2>1, <2>2, SlotIs
<1>12. i \in Instruction
    <2>1. i \in Stores
        BY <1>6, <1>11 DEF Stores
    <2> QED BY <2>1 DEF Instruction
<1>13. Known(made, res.n)
    BY <1>7, <1>10 DEF Known
<1>14. m.instrs \in Seq(Instruction) /\ Known(m.regs, m.n)
    BY <1>8, <1>10, <1>12, <1>13, AppendIs
<1>15. ASSUME NEW q \in State, NEW st, NEW bad, ~q.raised,
              Carries(q, st, regs, counter, bad), Said(k, q, bad)
       PROVE  Carries(Effect(k, q), Final(m.instrs, st), m.regs, m.n, bad)
    <2>1. PICK mid : mid = Final(res.instrs, st)
        OBVIOUS
    <2>2. IF Raises(k, q)
          THEN \A known, n : Carries([q EXCEPT !.raised = TRUE], mid, known, n, bad)
          ELSE /\ Carries(q, mid, res.regs, res.n, bad)
               /\ Held(res.reg, mid) = Assigned(k, q)
        BY <1>4, <1>15, <2>1 DEF Computes
    <2>3. st \in Machine
        BY <1>15 DEF Carries
    <2>4. mid \in Machine
        BY <1>10, <2>1, <2>3, TraceIs
    <2>5. PICK en : en = Final(m.instrs, st)
        OBVIOUS
    <2>6. en = Do(i, mid)
        BY <1>8, <1>10, <1>12, <2>1, <2>3, <2>5, FinalOne
    <2>7. CASE Raises(k, q)
        <3>1. PICK w : w = [q EXCEPT !.raised = TRUE]
            OBVIOUS
        <3>2. Effect(k, q) = w
            BY <1>1, <2>7, <3>1 DEF Effect
        <3>3. \A known, n : Carries(w, mid, known, n, bad)
            BY <2>2, <2>7, <3>1
        <3>4. mid.failed
            BY <3>1, <3>3 DEF Carries, State
        <3>5. en = mid
            BY <2>6, <3>4 DEF Do
        <3> QED BY <2>5, <3>2, <3>3, <3>5
    <2>8. CASE ~Raises(k, q)
        <3>1. PICK v : v = Assigned(k, q)
            OBVIOUS
        <3>2. Carries(q, mid, res.regs, res.n, bad) /\ Held(res.reg, mid) = v
            BY <2>2, <2>8, <3>1
        <3>3. v \in Value
            BY <2>4, <3>2, HeldIs
        <3>4. x \in Var /\ x \in Declared
            BY <1>1, <1>5, <1>15 DEF Said
        <3>5. i.op = "store" /\ i.args[1] = Name(x) /\ i.args[2] = res.reg
            BY <1>6 DEF Instr
        <3>6. ~mid.failed
            BY <1>15, <3>2 DEF Carries
        <3>7. en = Kept(mid, Name(x), v)
            BY <2>6, <3>2, <3>5, <3>6 DEF Do
        <3>8. PICK w : w = [q EXCEPT !.env = [q.env EXCEPT ![x] = v]]
            OBVIOUS
        <3>9. Effect(k, q) = w
            BY <1>1, <1>5, <2>8, <3>1, <3>8, EffectSets
        <3>10. PICK known : known = res.regs
            OBVIOUS
        <3>11. PICK n : n = res.n
            OBVIOUS
        <3>12. PICK r : r = res.reg
            OBVIOUS
        <3>13. Known(known, n) /\ Carries(q, mid, known, n, bad) /\ Held(r, mid) = v
            BY <1>10, <3>2, <3>10, <3>11, <3>12
        <3>14. \E c \in 1 .. n : r = Reg(c)
            BY <1>10, <3>11, <3>12
        <3>15. made = [known EXCEPT ![x] = r]
            BY <1>7, <3>10, <3>12
        <3>16. Carries(w, en, made, n, bad)
            BY <1>15, <3>3, <3>4, <3>7, <3>8, <3>13, <3>14, <3>15, VariableSet
        <3> QED BY <1>8, <2>5, <3>9, <3>11, <3>16
    <2> QED BY <2>7, <2>8
<1>16. ASSUME NEW q, NEW st, NEW bad, Registers(q, st, regs, counter, bad), x \in bad
       PROVE  Registers(q, st, m.regs, m.n, bad)
    <2>1. Registers(q, st, res.regs, res.n, bad)
        BY <1>4, <1>16 DEF Computes
    <2>2. \A y \in Var \ bad : made[y] = res.regs[y]
        BY <1>7, <1>10, <1>16 DEF Known
    <2>3. Registers(q, st, made, res.n, bad)
        BY <2>1, <2>2 DEF Registers
    <2> QED BY <1>8, <2>3
<1>17. Translates(k, m)
    BY <1>1, <1>5, <1>14, <1>15, <1>16 DEF Translates
<1> QED BY <1>9, <1>17

\* What a statement is lowered to that is not an IF.
LEMMA StatementTranslated ==
    ASSUME LowerSet \/ LowerOutput \/ LowerCreateFile \/ LowerWriteFile,
           NEW k, k = Upcoming, lines[k] \in StrictSourceLine, Known(regs, counter)
    PROVE  \E m : LoweredBy(m) /\ Translates(k, m)
BY SetTranslated, OutputTranslated, CreateTranslated, WriteTranslated
-----------------------------------------------------------------------------
(* Compilable programs: which variables have values *)

\* A statement gives a value to the variable it sets, to no other, and takes none away.
LEMMA EffectAssigns ==
    ASSUME NEW i, lines[i] \in StrictSourceLine, NEW q \in State,
           lines[i].kind \in {"if"} \cup Simple \cup OnFiles
    PROVE  /\ \A x \in Var : q.env[x] # Undef => Effect(i, q).env[x] # Undef
           /\ \A x \in Var : Effect(i, q).env[x] # Undef =>
                 q.env[x] # Undef \/ (lines[i].kind = "set" /\ lines[i].var = x)
           /\ lines[i].kind = "set" /\ ~Raises(i, q) => Effect(i, q).env[lines[i].var] # Undef
<1>1. PICK w \in State : w = Effect(i, q)
    BY EffectIs
<1>2. q.env \in Store /\ lines[i].var \in Var
    BY WordIs DEF State
<1>3. CASE lines[i].kind # "set" \/ Raises(i, q)
    <2>1. w.env = q.env
        BY <1>1, <1>3, EffectKeeps
    <2> QED BY <1>1, <1>3, <2>1, EffectKeeps
<1>4. CASE lines[i].kind = "set" /\ ~Raises(i, q)
    <2>1. PICK x : x = lines[i].var
        OBVIOUS
    <2>2. PICK v : v = Assigned(i, q)
        OBVIOUS
    <2>3. w = [q EXCEPT !.env = [q.env EXCEPT ![x] = v]]
        BY <1>1, <1>4, <2>1, <2>2, EffectSets
    <2>4. w.env = [q.env EXCEPT ![x] = v]
        BY <2>3 DEF State
    <2>5. lines[i].left \in StrictOperand /\ lines[i].right \in StrictOperand
          /\ lines[i].op \in Operation
        BY WordIs
    <2>6. Left(i, q) \in Value /\ Right(i, q) \in Value
        BY <1>2, <2>5, MeaningIs DEF Left, Right
    <2>7. v \in Value
        <3>1. CASE lines[i].op = "NONE"
            BY <2>2, <2>6, <3>1 DEF Assigned
        <3>2. CASE lines[i].op # "NONE"
            <4>1. /\ Fits(lines[i].op, Left(i, q), Right(i, q))
                  /\ lines[i].op \in {"PLUS", "MINUS", "TIMES"}
                BY <1>4, <2>5, <3>2 DEF Raises, Operation
            <4>2. v = Calculate(lines[i].op, Left(i, q), Right(i, q))
                BY <2>2, <3>2 DEF Assigned
            <4> QED BY <2>6, <4>1, <4>2, CalculateIs
        <3> QED BY <3>1, <3>2
    <2>8. v # Undef
        BY <2>7 DEF Value, Undef
    <2>9. \A y \in Var : w.env[y] = IF y = x THEN v ELSE q.env[y]
        BY <1>2, <2>4 DEF Store
    <2> QED BY <1>1, <1>2, <1>4, <2>1, <2>8, <2>9
<1> QED BY <1>3, <1>4

\* A variable that has a value is set somewhere.
LEMMA AssignedSomewhere ==
    ASSUME NEW s, NEW sem, Tree(s), Semantics(s, sem), lines \in Seq(StrictSourceLine),
           NEW p \in 0 .. Len(lines), NEW x \in Var, sem[p].env[x] # Undef
    PROVE  \E i \in Statements : lines[i].kind = "set" /\ lines[i].var = x
<1> DEFINE n == Len(lines)
           Somewhere == \E i \in Statements : lines[i].kind = "set" /\ lines[i].var = x
           T == {i \in 0 .. n : sem[i].env[x] # Undef => Somewhere}
<1>1. n \in Nat /\ sem \in [0 .. n -> State]
    BY DEF Semantics
<1>2. 0 \in T
    BY <1>1 DEF Semantics, Blank
<1>3. ASSUME NEW i \in 1 .. n, i - 1 \in T PROVE i \in T
    <2>1. PICK q \in State : q = sem[i - 1]
        BY <1>1
    <2>2. sem[i] = After(s, i, q)
        BY <2>1 DEF Semantics
    <2>3. CASE ~Runs(s, i, q)
        BY <1>3, <2>1, <2>2, <2>3 DEF After
    <2>4. CASE Runs(s, i, q)
        <3>1. /\ i \in Statements /\ lines[i] \in StrictSourceLine
              /\ lines[i].kind \in {"if"} \cup Simple \cup OnFiles
            BY <2>4 DEF Runs, Tree
        <3>2. sem[i] = Effect(i, q)
            BY <2>2, <2>4 DEF After
        <3>3. sem[i].env[x] # Undef =>
                  q.env[x] # Undef \/ (lines[i].kind = "set" /\ lines[i].var = x)
            BY <3>1, <3>2, EffectAssigns
        <3> QED BY <1>3, <2>1, <3>1, <3>3
    <2> QED BY <2>3, <2>4
<1> HIDE DEF T, n
<1>4. \A i \in 0 .. n : i \in T
    BY <1>1, <1>2, <1>3, InductionUpTo
<1> QED BY <1>4 DEF T, n

\* One that is set in the block of the trigger has a value from there on.
LEMMA AssignedBefore ==
    ASSUME NEW s, NEW sem, Tree(s), Semantics(s, sem), lines \in Seq(StrictSourceLine),
           NEW i \in 1 .. Len(lines), i \in Statements, lines[i].kind = "set",
           place[i] = Body(s), NEW p \in i .. Len(lines), ~sem[p].raised
    PROVE  sem[p].env[lines[i].var] # Undef
<1> DEFINE n == Len(lines)
           x == lines[i].var
           T == {m \in 0 .. n : m >= i /\ ~sem[m].raised => sem[m].env[x] # Undef}
<1>1. n \in Nat /\ sem \in [0 .. n -> State] /\ i \in Nat /\ i >= 1
    BY DEF Semantics
<1>2. 0 \in T
    BY <1>1
<1>3. ASSUME NEW m \in 1 .. n, m - 1 \in T PROVE m \in T
    <2>1. PICK q \in State : q = sem[m - 1]
        BY <1>1
    <2>2. sem[m] = After(s, m, q)
        BY <2>1 DEF Semantics
    <2>3. CASE m < i
        BY <1>1, <2>3
    <2>4. CASE m > i /\ ~Runs(s, m, q)
        <3>1. sem[m] = q /\ m - 1 >= i
            BY <1>1, <2>2, <2>4 DEF After
        <3> QED BY <1>3, <2>1, <3>1
    <2>5. CASE Runs(s, m, q) /\ m >= i
        <3>1. /\ m \in Statements /\ lines[m] \in StrictSourceLine
              /\ lines[m].kind \in {"if"} \cup Simple \cup OnFiles
            BY <2>5 DEF Runs, Tree
        <3>2. sem[m] = Effect(m, q)
            BY <2>2, <2>5 DEF After
        <3>3. Effect(m, q).raised = (q.raised \/ Raises(m, q))
            BY <3>1, EffectKeeps
        <3>4. x \in Var
            BY WordIs DEF Tree
        <3>5. q.env[x] # Undef => Effect(m, q).env[x] # Undef
            BY <3>1, <3>4, EffectAssigns
        <3>6. m = i /\ ~Raises(m, q) => Effect(m, q).env[x] # Undef
            BY <3>1, EffectAssigns
        <3>7. m # i => m - 1 >= i
            BY <1>1, <2>5
        <3>8. ASSUME ~sem[m].raised PROVE ~q.raised /\ ~Raises(m, q)
            BY <3>2, <3>3, <3>8
        <3>9. ASSUME ~sem[m].raised PROVE sem[m].env[x] # Undef
            <4>1. CASE m = i
                BY <3>2, <3>6, <3>8, <3>9, <4>1
            <4>2. CASE m # i
                <5>1. q.env[x] # Undef
                    BY <1>3, <2>1, <3>7, <3>8, <3>9, <4>2
                <5> QED BY <3>2, <3>5, <5>1
            <4> QED BY <4>1, <4>2
        <3> QED BY <1>1, <3>9
    <2>6. CASE m = i /\ ~Runs(s, m, q)
        <3>1. q.raised
            BY <2>6 DEF Runs
        <3> QED BY <2>2, <2>6, <3>1 DEF After
    <2> QED BY <1>1, <2>3, <2>4, <2>5, <2>6
<1> HIDE DEF T, n
<1>4. \A m \in 0 .. n : m \in T
    BY <1>1, <1>2, <1>3, InductionUpTo
<1>5. p \in 0 .. n /\ p >= i
    BY <1>1 DEF n
<1> QED BY <1>4, <1>5 DEF T

\* The variable of the IF has a value when the IF comes.
LEMMA CondAssigned ==
    ASSUME NEW s, NEW sem, Tree(s), Faithful, Semantics(s, sem), SourceTyped,
           lines \in Seq(StrictSourceLine), NEW p, NEW A, Upto(s, sem, p, A),
           NEW j \in A, \A i \in A : j <= i, j \in Conds, ~sem[p].raised
    PROVE  sem[p].env[lines[j].var] # Undef
<1>1. PICK i \in Statements : i < j /\ lines[i].kind = "set" /\ lines[i].var = lines[j].var
    BY DEF Faithful
<1>2. place[i] = Body(s)
    <2>1. ASSUME NEW k \in Conds, k < i, place[i] = Body(k) PROVE FALSE
        <3>1. k = j
            BY DEF Tree
        <3>2. i \in Nat /\ j \in Nat
            BY BodyIs DEF Conds
        <3> QED BY <1>1, <2>1, <3>1, <3>2
    <2> QED BY <2>1 DEF Tree
<1>3. i \in 1 .. Len(lines) /\ i \in Nat /\ j \in Nat /\ j \in 1 .. Len(lines)
    BY BodyIs DEF Conds
<1>4. i <= p /\ p \in 0 .. Len(lines)
    <2>1. p \in 0 .. Len(lines)
        BY DEF Upto
    <2>2. CASE i > p
        <3>1. Runs(s, i, sem[p])
            BY <1>2 DEF Runs
        <3>2. i \in p + 1 .. Len(lines)
            BY <1>3, <2>1, <2>2
        <3>3. i \in A
            BY <3>1, <3>2 DEF Upto
        <3> QED BY <1>1, <1>3, <3>3
    <2> QED BY <1>3, <2>1, <2>2
<1>5. p \in i .. Len(lines)
    BY <1>3, <1>4
<1>6. sem[p].env[lines[i].var] # Undef
    BY <1>1, <1>2, <1>3, <1>5, AssignedBefore
<1> QED BY <1>1, <1>6

-----------------------------------------------------------------------------
(* Compilable programs: what an IF compares *)

\* The values that variables can have.
Sayings ==
    IF Words = {} THEN {"num"} \X Int
    ELSE {Num(k) : k \in Numbers} \cup {Str(w) : w \in Words}

SaysOnly(e) == \A x \in Var : e[x] \in Sayings \cup {Undef}

\* One of these is a number or a string that is not spelled like any of the numbers.
LEMMA SayingsAre ==
    ASSUME Unlike, NEW v \in Sayings
    PROVE  \/ \E k \in Int : v = Num(k) /\ (Words # {} => ToString(k) \notin Words)
           \/ \E w \in Words : v = Str(w)
<1>1. CASE Words = {}
    <2>1. v \in {"num"} \X Int
        BY <1>1 DEF Sayings
    <2>2. v[2] \in Int /\ v = Num(v[2])
        BY <2>1 DEF Num
    <2> QED BY <1>1, <2>2
<1>2. CASE Words # {}
    <2>1. (\E k \in Numbers : v = Num(k)) \/ (\E w \in Words : v = Str(w))
        BY <1>2 DEF Sayings
    <2>2. \A k \in Numbers : k \in Int /\ ToString(k) \notin Words
        BY <1>2 DEF Unlike, Numbers
    <2> QED BY <2>1, <2>2
<1> QED BY <1>1, <1>2

\* Two of them are the same to the interpreter and to the VM, or to neither.
LEMMA Compared ==
    ASSUME Unlike, NEW a \in Sayings, NEW b \in Sayings
    PROVE  SameText(a, b) <=> SameValue(a, b)
<1>1. \A k \in Int : Num(k)[1] = "num" /\ Num(k)[2] = k /\ IsNumber(Num(k))
    BY DEF Num, IsNumber
<1>2. \A w \in STRING : Str(w)[1] = "str" /\ Str(w)[2] = w /\ ~IsNumber(Str(w))
    BY DEF Str, IsNumber
<1>3. Words \subseteq STRING
    BY DEF Words
<1>4. ASSUME NEW k \in Int, NEW w \in Words, ToString(k) \notin Words
      PROVE  Num(k) # Str(w) /\ Spelled(Num(k)) # Spelled(Str(w))
    <2>1. w \in STRING
        BY <1>3
    <2>2. Num(k) # Str(w)
        BY <1>1, <1>2, <2>1
    <2>3. PICK u : u = Num(k)
        OBVIOUS
    <2>4. PICK v : v = Str(w)
        OBVIOUS
    <2>5. Spelled(u) = ToString(k)
        BY <1>1, <2>3 DEF Spelled
    <2>6. ~IsNumber(v) /\ v[1] = "str" /\ v[2] = w
        BY <1>2, <2>1, <2>4
    <2>7. Spelled(v) = w
        BY <2>6 DEF Spelled
    <2> QED BY <1>4, <2>2, <2>3, <2>4, <2>5, <2>7
<1>5. CASE IsNumber(a) /\ IsNumber(b)
    BY <1>5 DEF SameText, SameValue
<1>6. CASE ~IsNumber(a) /\ ~IsNumber(b)
    BY <1>6 DEF SameText, SameValue
<1>7. CASE IsNumber(a) /\ ~IsNumber(b)
    <2>1. PICK k \in Int : a = Num(k) /\ (Words # {} => ToString(k) \notin Words)
        BY <1>2, <1>3, <1>7, SayingsAre
    <2>2. PICK w \in Words : b = Str(w)
        BY <1>1, <1>7, SayingsAre
    <2>3. a # b /\ Spelled(a) # Spelled(b)
        BY <1>4, <2>1, <2>2
    <2> QED BY <1>7, <2>3 DEF SameText, SameValue
<1>8. CASE ~IsNumber(a) /\ IsNumber(b)
    <2>1. PICK k \in Int : b = Num(k) /\ (Words # {} => ToString(k) \notin Words)
        BY <1>2, <1>3, <1>8, SayingsAre
    <2>2. PICK w \in Words : a = Str(w)
        BY <1>1, <1>8, SayingsAre
    <2>3. b # a /\ Spelled(b) # Spelled(a)
        BY <1>4, <2>1, <2>2
    <2> QED BY <1>8, <2>3 DEF SameText, SameValue
<1> QED BY <1>5, <1>6, <1>7, <1>8

\* An operand of a SET or an IF is one of them if the variables are.
LEMMA OperandSaid ==
    ASSUME NEW i \in Keeping, NEW v \in StrictOperand, v \in {lines[i].left, lines[i].right},
           NEW e, SaysOnly(e)
    PROVE  Meaning(v, e) \in Sayings
<1>1. Num(0) \in Sayings
    <2>1. 0 \in Numbers
        BY DEF Numbers
    <2> QED BY <2>1 DEF Sayings, Num
<1>2. CASE v \in {"num"} \X Int
    <2>1. v[1] = "num" /\ v[2] \in Int /\ v = Num(v[2])
        BY <1>2 DEF Num
    <2>2. v[2] \in Numbers
        BY <2>1 DEF Numbers
    <2>3. v \in Sayings
        BY <1>2, <2>1, <2>2 DEF Sayings
    <2> QED BY <2>1, <2>3 DEF Meaning
<1>3. CASE v \in {"str"} \X STRING
    <2>1. v[1] = "str" /\ v[2] \in STRING /\ v = Str(v[2])
        BY <1>3 DEF Str
    <2>2. v[2] \in Words
        BY <2>1 DEF Words
    <2>3. v \in Sayings
        BY <2>1, <2>2 DEF Sayings
    <2>4. v[2] \in Var /\ e[v[2]] # Undef => e[v[2]] \in Sayings
        BY DEF SaysOnly
    <2> QED BY <2>1, <2>3, <2>4 DEF Meaning
<1>4. CASE v \in {"name"} \X Var
    <2>1. v[1] = "name" /\ v[2] \in Var
        BY <1>4
    <2>2. e[v[2]] # Undef => e[v[2]] \in Sayings
        BY <2>1 DEF SaysOnly
    <2> QED BY <1>1, <2>1, <2>2 DEF Meaning
<1> QED BY <1>2, <1>3, <1>4 DEF StrictOperand

\* What is calculated from numbers is a number.
LEMMA NumbersCalculated ==
    ASSUME NEW op \in {"PLUS", "MINUS", "TIMES"}, NEW a \in {"num"} \X Int,
           NEW b \in {"num"} \X Int
    PROVE  Calculate(op, a, b) \in {"num"} \X Int
<1>1. a[2] \in Int /\ b[2] \in Int /\ ~IsString(a) /\ ~IsString(b)
    BY DEF IsString
<1>2. a[2] + b[2] \in Int /\ a[2] - b[2] \in Int /\ a[2] * b[2] \in Int
    BY <1>1
<1>3. op = "PLUS" => Calculate(op, a, b) = Num(a[2] + b[2])
    BY <1>1 DEF Calculate
<1>4. op = "MINUS" => Calculate(op, a, b) = Num(a[2] - b[2])
    BY <1>1 DEF Calculate
<1>5. op = "TIMES" => Calculate(op, a, b) = Num(a[2] * b[2])
    BY <1>1 DEF Calculate
<1>6. \A k \in Int : Num(k) \in {"num"} \X Int
    BY DEF Num
<1> QED BY <1>2, <1>3, <1>4, <1>5, <1>6

\* So the variables stay with them.
LEMMA EffectSays ==
    ASSUME Unlike, NEW i \in Statements, lines[i] \in StrictSourceLine, NEW q \in State,
           lines[i].kind \in {"if"} \cup Simple \cup OnFiles, SaysOnly(q.env)
    PROVE  SaysOnly(Effect(i, q).env)
<1>1. CASE lines[i].kind # "set" \/ Raises(i, q)
    BY <1>1, EffectKeeps
<1>2. CASE lines[i].kind = "set" /\ ~Raises(i, q)
    <2>1. /\ lines[i].left \in StrictOperand /\ lines[i].right \in StrictOperand
          /\ lines[i].var \in Var /\ lines[i].op \in Operation
        BY WordIs
    <2>2. PICK x : x = lines[i].var
        OBVIOUS
    <2>3. PICK v : v = Assigned(i, q)
        OBVIOUS
    <2>4. Effect(i, q) = [q EXCEPT !.env = [q.env EXCEPT ![x] = v]] /\ q.env \in Store
        BY <1>2, <2>2, <2>3, EffectSets DEF State
    <2>5. Effect(i, q).env = [q.env EXCEPT ![x] = v]
        BY <2>4 DEF State
    <2>6. i \in Keeping
        BY <1>2 DEF Keeping
    <2>7. Left(i, q) \in Sayings /\ Right(i, q) \in Sayings
        BY <2>1, <2>6, OperandSaid DEF Left, Right
    <2>8. v \in Sayings
        <3>1. CASE lines[i].op = "NONE"
            BY <2>3, <2>7, <3>1 DEF Assigned
        <3>2. CASE lines[i].op # "NONE"
            <4>1. Words = {}
                BY <1>2, <3>2 DEF Unlike
            <4>2. Sayings = {"num"} \X Int
                BY <4>1 DEF Sayings
            <4>3. v = Calculate(lines[i].op, Left(i, q), Right(i, q))
                BY <2>3, <3>2 DEF Assigned
            <4>4. lines[i].op \in {"PLUS", "MINUS", "TIMES"}
                BY <2>1, <3>2 DEF Operation
            <4> QED BY <2>7, <4>2, <4>3, <4>4, NumbersCalculated
        <3> QED BY <3>1, <3>2
    <2>9. \A y \in Var : Effect(i, q).env[y] = IF y = x THEN v ELSE q.env[y]
        BY <2>4, <2>5 DEF Store
    <2> QED BY <2>8, <2>9 DEF SaysOnly
<1> QED BY <1>1, <1>2

\* They have no other values after any line.
LEMMA StatesSay ==
    ASSUME NEW s, NEW sem, Tree(s), Unlike, Semantics(s, sem), lines \in Seq(StrictSourceLine),
           NEW p \in 0 .. Len(lines)
    PROVE  SaysOnly(sem[p].env)
<1> DEFINE n == Len(lines)
           T == {i \in 0 .. n : SaysOnly(sem[i].env)}
<1>1. n \in Nat /\ sem \in [0 .. n -> State]
    BY DEF Semantics
<1>2. 0 \in T
    BY <1>1 DEF Semantics, Blank, SaysOnly
<1>3. ASSUME NEW i \in 1 .. n, i - 1 \in T PROVE i \in T
    <2>1. PICK q \in State : q = sem[i - 1]
        BY <1>1
    <2>2. sem[i] = After(s, i, q)
        BY <2>1 DEF Semantics
    <2>3. CASE ~Runs(s, i, q)
        BY <1>3, <2>1, <2>2, <2>3 DEF After
    <2>4. CASE Runs(s, i, q)
        <3>1. /\ i \in Statements /\ lines[i] \in StrictSourceLine
              /\ lines[i].kind \in {"if"} \cup Simple \cup OnFiles
            BY <2>4 DEF Runs, Tree
        <3>2. sem[i] = Effect(i, q)
            BY <2>2, <2>4 DEF After
        <3>3. SaysOnly(q.env)
            BY <1>3, <2>1
        <3>4. SaysOnly(sem[i].env)
            BY <3>1, <3>2, <3>3, EffectSays
        <3> QED BY <3>4
    <2> QED BY <2>3, <2>4
<1> HIDE DEF T, n
<1>4. \A i \in 0 .. n : i \in T
    BY <1>1, <1>2, <1>3, InductionUpTo
<1> QED BY <1>4 DEF T, n

\* The interpreter and the VM agree on the condition of the IF.
LEMMA Tested ==
    ASSUME NEW s, NEW sem, Tree(s), Faithful, Semantics(s, sem),
           lines \in Seq(StrictSourceLine), NEW j \in Conds, NEW p \in 0 .. Len(lines),
           sem[p].env[lines[j].var] # Undef
    PROVE  SameText(sem[p].env[lines[j].var], Left(j, sem[p]))
               <=> SameValue(sem[p].env[lines[j].var], Left(j, sem[p]))
<1>1. Unlike
    BY DEF Faithful
<1>2. PICK q : q = sem[p]
    OBVIOUS
<1>3. SaysOnly(q.env)
    BY <1>1, <1>2, StatesSay
<1>4. j \in Statements /\ j \in Keeping /\ lines[j] \in StrictSourceLine
    BY DEF Conds, Keeping, Tree
<1>5. lines[j].var \in Var /\ lines[j].left \in StrictOperand
    BY <1>4, WordIs
<1>6. q.env[lines[j].var] \in Sayings
    BY <1>2, <1>3, <1>5 DEF SaysOnly
<1>7. Left(j, q) \in Sayings
    BY <1>3, <1>4, <1>5, OperandSaid DEF Left
<1> QED BY <1>1, <1>2, <1>6, <1>7, Compared

-----------------------------------------------------------------------------
(* Compilable programs: their operands *)

\* The operands of statements are those the compiler translates faithfully, but for the
\* variables of bad.
LEMMA OperandsSayable ==
    ASSUME NEW s, NEW sem, Tree(s), Faithful, Semantics(s, sem),
           lines \in Seq(StrictSourceLine), NEW k \in Statements,
           NEW p \in 0 .. Len(lines), NEW bad, Names(k) \cap bad = {},
           NEW v, v \in {lines[k].left, lines[k].right}, Ensured(v) \subseteq variables
    PROVE  Sayable(v, sem[p], bad)
<1>1. v \in StrictOperand
    BY WordIs DEF Tree
<1>2. ASSUME v[1] = "name" PROVE v[2] \notin bad /\ v[2] \in Declared
    <2>1. v[2] \in Var /\ v = Name(v[2])
        BY <1>1, <1>2, OperandKinds
    <2>2. v[2] \in Names(k)
        BY <2>1 DEF Names
    <2>3. v[2] \in variables
        BY <1>2 DEF Ensured
    <2> QED BY <2>2, <2>3 DEF Declared
<1>3. ASSUME v[1] = "str", v[2] \in Var, sem[p].env[v[2]] # Undef PROVE FALSE
    <2>1. PICK i \in Statements : lines[i].kind = "set" /\ lines[i].var = v[2]
        BY <1>3, AssignedSomewhere
    <2>2. v = Str(v[2])
        BY <1>1, <1>3 DEF StrictOperand, Str
    <2> QED BY <2>1, <2>2 DEF Faithful
<1> QED BY <1>1, <1>2, <1>3 DEF Sayable

\* So are those of a statement of an accepted program.
LEMMA SaidIs ==
    ASSUME NEW s, NEW sem, Tree(s), Faithful, Semantics(s, sem), Analysed,
           verdict = "accepted", lines \in Seq(StrictSourceLine), NEW k \in Statements,
           NEW p \in 0 .. Len(lines), NEW bad, Names(k) \cap bad = {}
    PROVE  /\ Said(k, sem[p], bad)
           /\ lines[k].kind = "if" =>
                  /\ Sayable(lines[k].left, sem[p], bad)
                  /\ bad = {} => Sayable(Name(lines[k].var), sem[p], bad)
<1>1. Found(k) \subseteq variables
    BY DEF Analysed
<1>2. lines[k].kind \in {"set", "output", "write", "if"} => Sayable(lines[k].left, sem[p], bad)
    <2>1. lines[k].kind \in {"set", "output", "write", "if"} =>
              Ensured(lines[k].left) \subseteq variables
        BY <1>1 DEF Found
    <2> QED BY <2>1, OperandsSayable
<1>3. lines[k].kind = "set" /\ lines[k].op # "NONE" => Sayable(lines[k].right, sem[p], bad)
    <2>1. lines[k].kind = "set" /\ lines[k].op # "NONE" =>
              Ensured(lines[k].right) \subseteq variables
        BY <1>1 DEF Found
    <2> QED BY <2>1, OperandsSayable
<1>4. lines[k].kind = "set" => lines[k].var \in Declared
    BY <1>1 DEF Found, Declared
<1>5. ASSUME lines[k].kind = "if", bad = {} PROVE Sayable(Name(lines[k].var), sem[p], bad)
    <2>1. lines[k].var \in Var
        BY WordIs DEF Tree
    <2>2. lines[k].var \in Declared
        BY <1>5 DEF Declared, Conds
    <2> QED BY <1>5, <2>1, <2>2 DEF Sayable, Name, StrictOperand
<1> QED BY <1>2, <1>3, <1>4, <1>5 DEF Said
-----------------------------------------------------------------------------
(* Compilable programs: their blocks *)

Part(name, instrs, exit) == [name |-> name, instrs |-> instrs, terminator |-> exit]
CallOf(b, after, d) ==
    [body |-> b, done |-> d, after |-> after, header |-> 0, iter |-> None]

\* The condition of the IF is in register r, unless a statement before it has failed.
Branches(q, r, t) == ~t.failed => (Held(r, t) # Num(0) <=> q.taken)

\* The machine after the body of the IF, which may not have run, and the variables whose
\* registers then do not hold their values.
Through(q, instrs, t) == IF q.taken THEN Final(instrs, t) ELSE t
Unread(q, j) == IF q.taken THEN {} ELSE SetIn(j)

\* Before the IF there is one block.
OneBlock(s, sem, p, blks, known, n, low) ==
    \E d \in Nat, c \in Seq(Instruction) :
        /\ blks = <<Part("entry", c, <<>>)>>
        /\ low = <<CallOf(Body(s), 0, d)>>
        /\ Upto(s, sem, p, Later(Body(s), d))
        /\ Carries(sem[p], Final(c, Zero), known, n, {})

\* In it there are three, the last one empty.
InBranch(s, sem, p, blks, known, n, low) ==
    \E j \in Conds, e \in Nat, r \in Register,
       c1 \in Seq(Instruction), c2 \in Seq(Instruction) :
        /\ blks = <<Part("entry", c1, Cbr(r, "if.then", "if.cont")),
                    Part("if.then", c2, <<>>), Part("if.cont", <<>>, <<>>)>>
        /\ low = <<CallOf(Body(s), 0, j), CallOf(Body(j), 3, e)>>
        /\ Upto(s, sem, p, Later(Body(j), e) \cup Later(Body(s), j))
        /\ Branches(sem[p], r, Final(c1, Zero))
        /\ Carries(sem[p], Through(sem[p], c2, Final(c1, Zero)), known, n, Unread(sem[p], j))

\* After it the last one is added to.
AfterBranch(s, sem, p, blks, known, n, low) ==
    \E j \in Conds, d \in Nat, r \in Register,
       c1 \in Seq(Instruction), c2 \in Seq(Instruction), c3 \in Seq(Instruction) :
        /\ blks = <<Part("entry", c1, Cbr(r, "if.then", "if.cont")),
                    Part("if.then", c2, Br("if.cont")), Part("if.cont", c3, <<>>)>>
        /\ j <= d /\ low = <<CallOf(Body(s), 0, d)>>
        /\ Upto(s, sem, p, Later(Body(s), d))
        /\ Branches(sem[p], r, Final(c1, Zero))
        /\ Carries(sem[p], Final(c3, Through(sem[p], c2, Final(c1, Zero))), known, n,
                   Unread(sem[p], j))

\* The blocks made so far, when block b is added to.
Lowers(s, sem, blks, b, known, n, low) ==
    /\ Known(known, n)
    /\ \/ /\ b = 1 /\ blks = <<NewBlock("entry")>> /\ low = <<>>
          /\ known = [x \in Var |-> None] /\ n = 0
       \/ b = 1 /\ \E p : OneBlock(s, sem, p, blks, known, n, low)
       \/ b = 2 /\ \E p : InBranch(s, sem, p, blks, known, n, low)
       \/ b = 3 /\ \E p : AfterBranch(s, sem, p, blks, known, n, low)

\* Nothing is in the machine at first.
LEMMA ZeroIs ==
    Zero \in Machine /\ DOMAIN Zero.slots = {} /\ Final(<<>>, Zero) = Zero
<1>1. <<>> \in [{} -> Value] /\ <<>> \in [{} -> Seq(Value)] /\ <<>> \in Seq(Value)
    OBVIOUS
<1>2. <<>> \in Slots /\ <<>> \in Contents
    <2>1. {} \in SUBSET Location /\ {} \in SUBSET Payload
        OBVIOUS
    <2> QED BY <1>1, <2>1 DEF Slots, Contents
<1>3. Zero \in Machine
    BY <1>1, <1>2 DEF Zero, Machine
<1>4. Final(<<>>, Zero) = Zero
    <2>1. <<>> \in Seq(Instruction)
        OBVIOUS
    <2>2. Trace(<<>>, Zero)[0] = Zero
        BY <1>3, <2>1, TraceIs
    <2> QED BY <2>2 DEF Final
<1>5. DOMAIN Zero.slots = {}
    BY DEF Zero
<1> QED BY <1>3, <1>4, <1>5

\* What the IF's condition was does not change what the machine has.
LEMMA CarriesAlso ==
    ASSUME NEW q, NEW w, NEW st, NEW known, NEW n, NEW bad, NEW more,
           Carries(q, st, known, n, bad), bad \subseteq more,
           w.env = q.env, w.out = q.out, w.files = q.files, w.raised = q.raised
    PROVE  Carries(w, st, known, n, more)
<1>1. Registers(q, st, known, n, bad) => Registers(w, st, known, n, more)
    BY DEF Registers
<1> QED BY <1>1 DEF Carries

\* A failed machine stays as it is.
LEMMA CarriesFailed ==
    ASSUME NEW q, NEW st, NEW known, NEW n, NEW bad, Carries(q, st, known, n, bad), q.raised,
           NEW instrs \in Seq(Instruction)
    PROVE  /\ Final(instrs, st) = st
           /\ \A known2, n2, bad2 : Carries(q, st, known2, n2, bad2)
<1>1. st \in Machine /\ st.failed
    BY DEF Carries
<1>2. Trace(instrs, st)[0] = st /\ 0 \in 0 .. Len(instrs)
    BY <1>1, TraceIs
<1>3. Final(instrs, st) = st
    BY <1>1, <1>2, TraceGoesOn
<1> QED BY <1>3 DEF Carries

\* A statement is run where the program is, or it has failed.
LEMMA CarriesOn ==
    ASSUME NEW s, NEW k, NEW m, Translates(k, m), NEW q \in State, NEW st, NEW bad,
           Carries(q, st, regs, counter, bad), Said(k, q, bad), Runs(s, k, q) \/ q.raised
    PROVE  Carries(After(s, k, q), Final(m.instrs, st), m.regs, m.n, bad)
<1>1. CASE q.raised
    <2>1. After(s, k, q) = q
        BY <1>1 DEF After, Runs
    <2>2. m.instrs \in Seq(Instruction)
        BY DEF Translates
    <2>3. PICK c \in Seq(Instruction) : c = m.instrs
        BY <2>2
    <2>4. Final(c, st) = st /\ \A known2, n2, bad2 : Carries(q, st, known2, n2, bad2)
        BY <1>1, CarriesFailed
    <2> QED BY <2>1, <2>3, <2>4
<1>2. CASE Runs(s, k, q)
    <2>1. After(s, k, q) = Effect(k, q) /\ ~q.raised
        BY <1>2 DEF After, Runs
    <2> QED BY <2>1 DEF Translates
<1> QED BY <1>1, <1>2

\* The blocks before the program is lowered, and when its trigger is.
LEMMA LoweringStarts ==
    ASSUME SourceTyped, NEW s, Tree(s), NEW sem, Semantics(s, sem),
           Known(regs, counter), lowering = <<>>, block = 1, blocks = <<NewBlock("entry")>>,
           regs = [x \in Var |-> None], counter = 0,
           LowerTrigger(Max(Triggers("start")))
    PROVE  \E blks, b, known, n, low :
              /\ blks = blocks' /\ b = block' /\ known = regs' /\ n = counter'
              /\ low = lowering'
              /\ Lowers(s, sem, blks, b, known, n, low)
<1>1. Triggers("start") = {s} /\ s \in 1 .. Len(lines) /\ Len(lines) \in Nat
    BY DEF Tree, SourceTyped
<1>2. Max({s}) = s
    <2>1. {s} \in SUBSET (0 .. Len(lines)) /\ {s} # {}
        BY <1>1
    <2> QED BY <1>1, <2>1, MaxIs
<1>3. PICK low : low = <<CallOf(Body(s), 0, 0)>>
    OBVIOUS
<1>4. lowering' = low
    BY <1>1, <1>2, <1>3 DEF LowerTrigger, Body_, CallOf
<1>5. PICK blks : blks = <<NewBlock("entry")>>
    OBVIOUS
<1>6. blks = <<Part("entry", <<>>, <<>>)>>
    BY <1>5 DEF NewBlock, Part
<1>7. Upto(s, sem, 0, Later(Body(s), 0))
    <2>1. sem[0] = Blank
        BY DEF Semantics
    <2>2. ASSUME NEW i \in 0 + 1 .. Len(lines), Runs(s, i, sem[0]) PROVE i \in Later(Body(s), 0)
        <3>1. place[i] = Body(s)
            BY <2>1, <2>2 DEF Runs, Blank
        <3>2. i \in DOMAIN place /\ i > 0
            BY <1>1 DEF SourceTyped
        <3> QED BY <3>1, <3>2 DEF Later, Nodes
    <2>3. \A i \in Later(Body(s), 0) : i \in Statements /\ i > 0
        BY BodyIs DEF Later
    <2>4. 0 \in 0 .. Len(lines)
        BY <1>1
    <2> QED BY <2>2, <2>3, <2>4 DEF Upto
<1>8. Carries(Blank, Zero, regs, 0, {})
    <2>1. Zero \in Machine
        BY ZeroIs
    <2>2. DOMAIN Zero.slots = {}
        BY ZeroIs
    <2>3. Registers(Blank, Zero, regs, 0, {})
        BY <2>2 DEF Registers, Blank
    <2>4. Alike(Zero.files, Blank.files)
        BY DEF Zero, Blank, Alike
    <2> QED BY <2>1, <2>2, <2>3, <2>4 DEF Carries, Zero, Blank
<1>9. Final(<<>>, Zero) = Zero
    BY ZeroIs
<1>10. OneBlock(s, sem, 0, blks, regs, 0, low)
    <2>1. sem[0] = Blank
        BY DEF Semantics
    <2>2. <<>> \in Seq(Instruction) /\ 0 \in Nat
        OBVIOUS
    <2>3. Carries(sem[0], Final(<<>>, Zero), regs, 0, {})
        BY <1>8, <1>9, <2>1
    <2> QED BY <1>3, <1>6, <1>7, <2>2, <2>3 DEF OneBlock
<1>11. Lowers(s, sem, blks, 1, regs, 0, low)
    BY <1>10 DEF Lowers
<1>12. blocks' = blks /\ block' = 1 /\ regs' = regs /\ counter' = 0
    BY <1>5 DEF LowerTrigger
<1> QED BY <1>4, <1>11, <1>12
\* Instructions are added to the only block.
LEMMA AddToOnly ==
    ASSUME NEW name, NEW c, NEW exit, NEW m
    PROVE  Add(<<Part(name, c, exit)>>, 1, m) = <<Part(name, c \o m, exit)>>
<1>1. PICK e : e = c \o m
    OBVIOUS
<1>2. PICK old : old = Part(name, c, exit)
    OBVIOUS
<1>3. PICK new : new = Part(name, e, exit)
    OBVIOUS
<1>4. old.instrs = c /\ [old EXCEPT !.instrs = e] = new
    BY <1>2, <1>3 DEF Part
<1>5. <<old>>[1] = old /\ [<<old>> EXCEPT ![1] = new] = <<new>>
    OBVIOUS
<1>6. Add(<<old>>, 1, m) = [<<old>> EXCEPT ![1] = [old EXCEPT !.instrs = e]]
    BY <1>1, <1>4, <1>5 DEF Add
<1> QED BY <1>1, <1>2, <1>3, <1>4, <1>5, <1>6

\* They are added to the second of three.
LEMMA AddToSecond ==
    ASSUME NEW name, NEW c, NEW exit, NEW m, NEW x, NEW z
    PROVE  Add(<<x, Part(name, c, exit), z>>, 2, m) = <<x, Part(name, c \o m, exit), z>>
<1>1. PICK e : e = c \o m
    OBVIOUS
<1>2. PICK old : old = Part(name, c, exit)
    OBVIOUS
<1>3. PICK new : new = Part(name, e, exit)
    OBVIOUS
<1>4. old.instrs = c /\ [old EXCEPT !.instrs = e] = new
    BY <1>2, <1>3 DEF Part
<1>5. <<x, old, z>>[2] = old /\ [<<x, old, z>> EXCEPT ![2] = new] = <<x, new, z>>
    OBVIOUS
<1>6. Add(<<x, old, z>>, 2, m) = [<<x, old, z>> EXCEPT ![2] = [old EXCEPT !.instrs = e]]
    BY <1>1, <1>4, <1>5 DEF Add
<1> QED BY <1>1, <1>2, <1>3, <1>4, <1>5, <1>6

\* They are added to the third.
LEMMA AddToThird ==
    ASSUME NEW name, NEW c, NEW exit, NEW m, NEW x, NEW y
    PROVE  Add(<<x, y, Part(name, c, exit)>>, 3, m) = <<x, y, Part(name, c \o m, exit)>>
<1>1. PICK e : e = c \o m
    OBVIOUS
<1>2. PICK old : old = Part(name, c, exit)
    OBVIOUS
<1>3. PICK new : new = Part(name, e, exit)
    OBVIOUS
<1>4. old.instrs = c /\ [old EXCEPT !.instrs = e] = new
    BY <1>2, <1>3 DEF Part
<1>5. <<x, y, old>>[3] = old /\ [<<x, y, old>> EXCEPT ![3] = new] = <<x, y, new>>
    OBVIOUS
<1>6. Add(<<x, y, old>>, 3, m) = [<<x, y, old>> EXCEPT ![3] = [old EXCEPT !.instrs = e]]
    BY <1>1, <1>4, <1>5 DEF Add
<1> QED BY <1>1, <1>2, <1>3, <1>4, <1>5, <1>6

\* The statement that comes up, where one block is lowered.
LEMMA LoweringOuter ==
    ASSUME NEW b, NEW after, NEW d, lowering = <<CallOf(b, after, d)>>
    PROVE  /\ Upcoming = NextNode(b, d) /\ Len(lowering) = 1
           /\ Lowered = <<CallOf(b, after, Upcoming)>>
<1>1. Inner = CallOf(b, after, d) /\ Outer = <<>> /\ Len(lowering) = 1
    BY Short1 DEF Inner, Outer
<1>2. Upcoming = NextNode(b, d)
    BY <1>1 DEF Upcoming, CallOf
<1>3. PICK k : k = Upcoming
    OBVIOUS
<1>4. [Inner EXCEPT !.done = k] = CallOf(b, after, k)
    BY <1>1 DEF CallOf
<1>5. Lowered = Append(<<>>, CallOf(b, after, k))
    BY <1>1, <1>3, <1>4 DEF Lowered
<1> QED BY <1>1, <1>2, <1>3, <1>5, Short1

\* The same where it is in another.
LEMMA LoweringInner ==
    ASSUME NEW x, NEW b, NEW after, NEW d, lowering = <<x, CallOf(b, after, d)>>
    PROVE  /\ Upcoming = NextNode(b, d) /\ Len(lowering) = 2
           /\ Lowered = <<x, CallOf(b, after, Upcoming)>>
           /\ Outer = <<x>> /\ Inner = CallOf(b, after, d)
<1>1. Inner = CallOf(b, after, d) /\ Outer = <<x>> /\ Len(lowering) = 2
    BY Short2 DEF Inner, Outer
<1>2. Upcoming = NextNode(b, d)
    BY <1>1 DEF Upcoming, CallOf
<1>3. PICK k : k = Upcoming
    OBVIOUS
<1>4. [Inner EXCEPT !.done = k] = CallOf(b, after, k)
    BY <1>1 DEF CallOf
<1>5. Lowered = Append(<<x>>, CallOf(b, after, k))
    BY <1>1, <1>3, <1>4 DEF Lowered
<1> QED BY <1>1, <1>2, <1>3, <1>5, Short2

\* What is fixed once a program is accepted.
Accepted(s, sem) ==
    /\ SourceTyped /\ Tree(s) /\ Faithful /\ Semantics(s, sem)
    /\ lines \in Seq(StrictSourceLine)
    /\ Analysed /\ verdict = "accepted"

\* A statement that is not an IF.
LowerSimple == LowerSet \/ LowerOutput \/ LowerCreateFile \/ LowerWriteFile

\* One is lowered before the IF.
LEMMA OneBlockStep ==
    ASSUME NEW s, NEW sem, Accepted(s, sem), Known(regs, counter), block = 1,
           NEW p, OneBlock(s, sem, p, blocks, regs, counter, lowering), LowerSimple
    PROVE  \E blks, b, known, n, low :
              /\ blks = blocks' /\ b = block' /\ known = regs' /\ n = counter'
              /\ low = lowering'
              /\ Lowers(s, sem, blks, b, known, n, low)
<1>1. /\ SourceTyped /\ Tree(s) /\ Faithful /\ Semantics(s, sem)
      /\ lines \in Seq(StrictSourceLine) /\ Analysed /\ verdict = "accepted"
    BY DEF Accepted
<1>2. PICK d, c :
          /\ d \in Nat /\ c \in Seq(Instruction)
          /\ blocks = <<Part("entry", c, <<>>)>>
          /\ lowering = <<CallOf(Body(s), 0, d)>>
          /\ Upto(s, sem, p, Later(Body(s), d))
          /\ Carries(sem[p], Final(c, Zero), regs, counter, {})
    BY DEF OneBlock
<1>3. PICK k : k = Upcoming
    OBVIOUS
<1>4. k = NextNode(Body(s), d) /\ Lowered = <<CallOf(Body(s), 0, k)>>
    BY <1>2, <1>3, LoweringOuter
<1>5. k # 0 /\ lines[k].kind \in Simple \cup OnFiles
    BY <1>3 DEF LowerSimple, LowerSet, LowerOutput, LowerCreateFile, LowerWriteFile, Lowering,
                Stmt, Simple, OnFiles
<1>6. /\ k \in Later(Body(s), d) /\ k \in Nat /\ \A i \in Later(Body(s), d) : k <= i
      /\ Later(Body(s), k) = Later(Body(s), d) \ {k}
    BY <1>1, <1>2, <1>4, <1>5, NextNodeIs
<1>7. lines[k].kind # "if"
    BY <1>5 DEF Simple, OnFiles
<1>8. PICK A : A = Later(Body(s), d)
    OBVIOUS
<1>9. Upto(s, sem, p, A) /\ k \in A /\ \A i \in A : k <= i
    BY <1>2, <1>6, <1>8
<1>10. /\ sem[p] \in State /\ k \in 1 .. Len(lines) /\ p \in 0 .. Len(lines)
       /\ sem[k] = After(s, k, sem[p]) /\ Upto(s, sem, k, A \ {k})
    <2>1. sem[p] \in State /\ k \in 1 .. Len(lines) /\ p \in 0 .. Len(lines)
        BY <1>1, <1>9, UptoNext
    <2>2. sem[k] = After(s, k, sem[p])
        BY <1>1, <1>9, UptoNext, ZenonT(30)
    <2>3. lines[k].kind # "if" => Upto(s, sem, k, A \ {k})
        BY <1>1, <1>9, UptoNext
    <2> QED BY <1>7, <2>1, <2>2, <2>3
<1>11. k \in Statements /\ place[k] = Body(s)
    BY <1>1, <1>6, BodyIs DEF Later, Nodes
<1>12. lines[k] \in StrictSourceLine
    BY <1>1, <1>11 DEF Tree
<1>13. PICK m : LoweredBy(m) /\ Translates(k, m)
    BY <1>3, <1>12, StatementTranslated DEF LowerSimple
<1>14. Said(k, sem[p], {})
    <2>1. Names(k) \cap {} = {}
        OBVIOUS
    <2> QED BY <1>1, <1>10, <1>11, <2>1, SaidIs
<1>15. Runs(s, k, sem[p]) \/ sem[p].raised
    BY <1>11 DEF Runs
<1>16. m.instrs \in Seq(Instruction) /\ Known(m.regs, m.n)
    BY <1>13 DEF Translates
<1>17. PICK c2 : c2 = c \o m.instrs
    OBVIOUS
<1>18. Zero \in Machine
    BY ZeroIs
<1>19. Final(c2, Zero) = Final(m.instrs, Final(c, Zero))
    BY <1>2, <1>16, <1>17, <1>18, FinalConcat
<1>20. Carries(sem[k], Final(c2, Zero), m.regs, m.n, {})
    BY <1>2, <1>10, <1>13, <1>14, <1>15, <1>19, CarriesOn
<1>21. PICK blks : blks = <<Part("entry", c2, <<>>)>>
    OBVIOUS
<1>22. blocks' = blks
    <2>1. Add(<<Part("entry", c, <<>>)>>, 1, m.instrs) = <<Part("entry", c \o m.instrs, <<>>)>>
        BY AddToOnly
    <2> QED BY <1>2, <1>13, <1>17, <1>21, <2>1 DEF LoweredBy
<1>23. PICK low : low = <<CallOf(Body(s), 0, k)>>
    OBVIOUS
<1>24. lowering' = low
    BY <1>4, <1>13, <1>23 DEF LoweredBy
<1>25. Upto(s, sem, k, Later(Body(s), k))
    BY <1>6, <1>8, <1>10
<1>26. OneBlock(s, sem, k, blks, m.regs, m.n, low)
    <2>1. c2 \in Seq(Instruction)
        BY <1>2, <1>16, <1>17, ConcatIs
    <2> QED BY <1>6, <2>1, <1>20, <1>21, <1>23, <1>25 DEF OneBlock
<1>27. Lowers(s, sem, blks, 1, m.regs, m.n, low)
    BY <1>16, <1>26 DEF Lowers
<1>28. regs' = m.regs /\ counter' = m.n /\ block' = 1
    BY <1>13 DEF LoweredBy
<1> QED BY <1>22, <1>24, <1>27, <1>28

\* The only block gets an end.
LEMMA OnlyEnds ==
    ASSUME NEW name, NEW c, NEW exit, NEW new
    PROVE  [<<Part(name, c, exit)>> EXCEPT ![1].terminator = new] = <<Part(name, c, new)>>
<1>1. PICK old : old = Part(name, c, exit)
    OBVIOUS
<1>2. PICK ended : ended = Part(name, c, new)
    OBVIOUS
<1>3. [old EXCEPT !.terminator = new] = ended
    BY <1>1, <1>2 DEF Part
<1>4. [<<old>> EXCEPT ![1].terminator = new] = <<ended>>
    <2>1. <<old>>[1] = old
        OBVIOUS
    <2>2. [<<old>> EXCEPT ![1].terminator = new] =
              [<<old>> EXCEPT ![1] = [old EXCEPT !.terminator = new]]
        BY <2>1
    <2>3. [<<old>> EXCEPT ![1] = ended] = <<ended>>
        OBVIOUS
    <2> QED BY <1>3, <2>2, <2>3
<1> QED BY <1>1, <1>2, <1>4

\* The second of three gets one.
LEMMA SecondEnds ==
    ASSUME NEW name, NEW c, NEW exit, NEW new, NEW x, NEW z
    PROVE  [<<x, Part(name, c, exit), z>> EXCEPT ![2].terminator = new] =
               <<x, Part(name, c, new), z>>
<1>1. PICK old : old = Part(name, c, exit)
    OBVIOUS
<1>2. PICK ended : ended = Part(name, c, new)
    OBVIOUS
<1>3. [old EXCEPT !.terminator = new] = ended
    BY <1>1, <1>2 DEF Part
<1>4. [<<x, old, z>> EXCEPT ![2].terminator = new] = <<x, ended, z>>
    <2>1. <<x, old, z>>[2] = old
        OBVIOUS
    <2>2. [<<x, old, z>> EXCEPT ![2].terminator = new] =
              [<<x, old, z>> EXCEPT ![2] = [old EXCEPT !.terminator = new]]
        BY <2>1
    <2>3. [<<x, old, z>> EXCEPT ![2] = ended] = <<x, ended, z>>
        OBVIOUS
    <2> QED BY <1>3, <2>2, <2>3
<1> QED BY <1>1, <1>2, <1>4

\* Two follow the first.
LEMMA Three ==
    ASSUME NEW x, NEW y, NEW z
    PROVE  <<x>> \o <<y, z>> = <<x, y, z>>
<1>1. PICK S : S = {x, y, z}
    OBVIOUS
<1>2. PICK a : a = <<x>>
    OBVIOUS
<1>3. PICK b : b = <<y, z>>
    OBVIOUS
<1>4. Len(a) = 1 /\ a[1] = x
    BY <1>2
<1>5. Len(b) = 2 /\ b[1] = y /\ b[2] = z
    BY <1>3
<1>6. x \in S /\ y \in S /\ z \in S
    BY <1>1
<1>7. a \in Seq(S) /\ b \in Seq(S)
    BY <1>2, <1>3, <1>6
<1>8. /\ a \o b \in Seq(S) /\ Len(a \o b) = Len(a) + Len(b)
      /\ \A i \in 1 .. Len(a) : (a \o b)[i] = a[i]
      /\ \A i \in 1 .. Len(b) : (a \o b)[Len(a) + i] = b[i]
    BY <1>7, ConcatIs
<1>9. PICK d \in Seq(S) : d = a \o b
    BY <1>8
<1>10. Len(d) = 3 /\ d[1] = x /\ d[2] = y /\ d[3] = z
    <2>1. 1 \in 1 .. 1 /\ 1 \in 1 .. 2 /\ 2 \in 1 .. 2
        OBVIOUS
    <2> QED BY <1>4, <1>5, <1>8, <1>9, <2>1
<1>11. d = <<x, y, z>>
    BY <1>10
<1> QED BY <1>2, <1>3, <1>9, <1>11

\* The comparison of the IF's variable tells whether its body runs.
LEMMA ConditionIs ==
    ASSUME NEW k, NEW q \in State, q.env[lines[k].var] # Undef, NEW r, NEW st,
           lines[k].kind = "if",
           SameText(q.env[lines[k].var], Left(k, q)) <=> SameValue(q.env[lines[k].var], Left(k, q)),
           Held(r, st) = Result("eq", Meaning(Name(lines[k].var), q.env), Left(k, q))
    PROVE  /\ Effect(k, q) \in State
           /\ Branches(Effect(k, q), r, st)
           /\ Effect(k, q).env = q.env /\ Effect(k, q).out = q.out
           /\ Effect(k, q).files = q.files /\ Effect(k, q).raised = q.raised
<1>1. PICK holds \in BOOLEAN : holds = SameText(q.env[lines[k].var], Left(k, q))
    BY DEF SameText
<1>2. PICK w : w = [q EXCEPT !.taken = holds]
    OBVIOUS
<1>3. Effect(k, q) = w
    BY <1>1, <1>2 DEF Effect, Raises
<1>4. /\ w \in State /\ w.taken = holds /\ w.env = q.env /\ w.out = q.out
      /\ w.files = q.files /\ w.raised = q.raised
    BY <1>2 DEF State
<1>5. Meaning(Name(lines[k].var), q.env) = q.env[lines[k].var]
    BY DEF Meaning, Name
<1>6. Held(r, st) = Truth(SameValue(q.env[lines[k].var], Left(k, q)))
    BY <1>5 DEF Result
<1>7. Held(r, st) # Num(0) <=> w.taken
    <2>1. CASE SameValue(q.env[lines[k].var], Left(k, q))
        <3>1. w.taken
            BY <1>1, <1>4, <2>1
        <3>2. Held(r, st) = Num(1)
            BY <1>6, <2>1 DEF Truth
        <3> QED BY <3>1, <3>2 DEF Num
    <2>2. CASE ~SameValue(q.env[lines[k].var], Left(k, q))
        <3>1. ~w.taken
            BY <1>1, <1>4, <2>2
        <3>2. Held(r, st) = Num(0)
            BY <1>6, <2>2 DEF Truth
        <3> QED BY <3>1, <3>2
    <2> QED BY <2>1, <2>2
<1> QED BY <1>1, <1>2, <1>3, <1>4, <1>7 DEF Branches

\* The code that tests the condition.
LEMMA TestIs ==
    ASSUME NEW s, NEW sem, Accepted(s, sem), Known(regs, counter),
           NEW p, NEW A, Upto(s, sem, p, A), NEW k \in A, \A i \in A : k <= i,
           k \in Conds, sem[p] \in State, p \in 0 .. Len(lines), sem[k] = After(s, k, sem[p]),
           place[k] = Body(s),
           NEW st, Carries(sem[p], st, regs, counter, {}),
           NEW cmp, cmp = Binary("eq", Name(lines[k].var), lines[k].left)
    PROVE  LET en == Final(cmp.instrs, st)
           IN  /\ cmp.instrs \in Seq(Instruction) /\ Known(cmp.regs, cmp.n)
               /\ cmp.reg \in Register
               /\ Carries(sem[k], en, cmp.regs, cmp.n, {})
               /\ Branches(sem[k], cmp.reg, en)
<1>1. /\ SourceTyped /\ Tree(s) /\ Faithful /\ Semantics(s, sem)
      /\ lines \in Seq(StrictSourceLine) /\ Analysed /\ verdict = "accepted"
    BY DEF Accepted
<1>2. PICK q \in State : q = sem[p]
    OBVIOUS
<1>3. PICK a : a = Name(lines[k].var)
    OBVIOUS
<1>4. PICK b : b = lines[k].left
    OBVIOUS
<1>5. k \in Statements /\ lines[k].kind = "if" /\ lines[k] \in StrictSourceLine
    BY <1>1 DEF Conds, Tree
<1>6. a \in StrictOperand /\ b \in StrictOperand
    BY <1>3, <1>4, <1>5, WordIs DEF StrictOperand, Name
<1>7. /\ cmp.instrs \in Seq(Instruction) /\ Known(cmp.regs, cmp.n)
      /\ \E c \in 1 .. cmp.n : cmp.reg = Reg(c)
    BY <1>3, <1>4, <1>6, BinaryTyped
<1>8. cmp.reg \in Register
    <2>1. cmp.n \in Nat
        BY <1>7 DEF Known
    <2>2. \A c \in Nat : Reg(c) \in Register
        BY SlotIs
    <2> QED BY <1>7, <2>1, <2>2
<1>9. PICK en : en = Final(cmp.instrs, st)
    OBVIOUS
<1>10. CASE q.raised
    <2>1. sem[k] = q
        BY <1>2, <1>10 DEF After, Runs
    <2>2. PICK c \in Seq(Instruction) : c = cmp.instrs
        BY <1>7
    <2>3. Carries(q, st, regs, counter, {})
        BY <1>2
    <2>4. Final(c, st) = st /\ \A known, n, bad : Carries(q, st, known, n, bad)
        BY <1>10, <2>3, CarriesFailed
    <2>5. en = st /\ st.failed
        BY <1>9, <1>10, <2>2, <2>3, <2>4 DEF Carries
    <2> QED BY <1>7, <1>8, <1>9, <2>1, <2>4, <2>5 DEF Branches
<1>11. CASE ~q.raised
    <2>1. q.env[lines[k].var] # Undef
        BY <1>1, <1>2, <1>11, CondAssigned
    <2>2. sem[k] = Effect(k, q)
        BY <1>2, <1>5, <1>11 DEF After, Runs
    <2>15. SameText(q.env[lines[k].var], Left(k, q))
               <=> SameValue(q.env[lines[k].var], Left(k, q))
        BY <1>1, <1>2, <2>1, Tested
    <2>3. Sayable(a, q, {}) /\ Sayable(b, q, {})
        <3>1. Names(k) \cap {} = {}
            OBVIOUS
        <3>2. /\ Sayable(lines[k].left, sem[p], {})
              /\ {} = {} => Sayable(Name(lines[k].var), sem[p], {})
            BY <1>1, <1>5, <3>1, SaidIs
        <3> QED BY <1>2, <1>3, <1>4, <3>2
    <2>4. PICK x : x = Meaning(a, q.env)
        OBVIOUS
    <2>5. PICK y : y = Meaning(b, q.env)
        OBVIOUS
    <2>6. Carries(q, st, regs, counter, {})
        BY <1>2
    <2>7. cmp = Binary("eq", a, b)
        BY <1>3, <1>4
    <2>8. IF TypeError("eq", x, y)
          THEN \A known, n : Carries([q EXCEPT !.raised = TRUE], en, known, n, {})
          ELSE Carries(q, en, cmp.regs, cmp.n, {}) /\ Held(cmp.reg, en) = Result("eq", x, y)
        <3>1. PICK op : op = "eq"
            OBVIOUS
        <3>2. op \in {"add", "sub", "mul", "eq"} /\ cmp = Binary(op, a, b)
            BY <2>7, <3>1
        <3>3. Operates(op, a, b, q, st, {})
            BY <1>11, <2>3, <2>6, <3>2, BinaryIs
        <3>4. IF TypeError(op, x, y)
              THEN \A known, n : Carries([q EXCEPT !.raised = TRUE], en, known, n, {})
              ELSE Carries(q, en, cmp.regs, cmp.n, {}) /\ Held(cmp.reg, en) = Result(op, x, y)
            BY <1>9, <2>4, <2>5, <3>2, <3>3 DEF Operates
        <3> QED BY <3>1, <3>4
    <2>9. Carries(q, en, cmp.regs, cmp.n, {}) /\ Held(cmp.reg, en) = Result("eq", x, y)
        BY <2>8 DEF TypeError
    <2>10. PICK r : r = cmp.reg
        OBVIOUS
    <2>11. Held(r, en) = Result("eq", Meaning(Name(lines[k].var), q.env), Left(k, q))
        BY <1>3, <1>4, <2>4, <2>5, <2>9, <2>10 DEF Left
    <2>12. PICK w : w = Effect(k, q)
        OBVIOUS
    <2>13. /\ Branches(w, r, en) /\ w.env = q.env /\ w.out = q.out
           /\ w.files = q.files /\ w.raised = q.raised
        BY <1>2, <1>5, <2>1, <2>11, <2>12, <2>15, ConditionIs
    <2>14. Carries(w, en, cmp.regs, cmp.n, {})
        BY <2>9, <2>13, CarriesAlso
    <2> QED BY <1>7, <1>8, <1>9, <2>2, <2>10, <2>12, <2>13, <2>14
<1> QED BY <1>10, <1>11
\* The IF is lowered.
LEMMA OneBlockForks ==
    ASSUME NEW s, NEW sem, Accepted(s, sem), Known(regs, counter), block = 1,
           NEW p, OneBlock(s, sem, p, blocks, regs, counter, lowering), LowerIf
    PROVE  \E blks, b, known, n, low :
              /\ blks = blocks' /\ b = block' /\ known = regs' /\ n = counter'
              /\ low = lowering'
              /\ Lowers(s, sem, blks, b, known, n, low)
<1>1. /\ SourceTyped /\ Tree(s) /\ Faithful /\ Semantics(s, sem)
      /\ lines \in Seq(StrictSourceLine) /\ Analysed /\ verdict = "accepted"
    BY DEF Accepted
<1>2. PICK d, c :
          /\ d \in Nat /\ c \in Seq(Instruction)
          /\ blocks = <<Part("entry", c, <<>>)>>
          /\ lowering = <<CallOf(Body(s), 0, d)>>
          /\ Upto(s, sem, p, Later(Body(s), d))
          /\ Carries(sem[p], Final(c, Zero), regs, counter, {})
    BY DEF OneBlock
<1>3. PICK k : k = Upcoming
    OBVIOUS
<1>4. k = NextNode(Body(s), d) /\ Lowered = <<CallOf(Body(s), 0, k)>>
    BY <1>2, <1>3, LoweringOuter
<1>5. k # 0 /\ lines[k].kind = "if"
    BY <1>3 DEF LowerIf, Lowering, Stmt
<1>6. /\ k \in Later(Body(s), d) /\ k \in Nat /\ \A i \in Later(Body(s), d) : k <= i
      /\ Later(Body(s), k) = Later(Body(s), d) \ {k}
    BY <1>1, <1>2, <1>4, <1>5, NextNodeIs
<1>7. PICK A : A = Later(Body(s), d)
    OBVIOUS
<1>8. Upto(s, sem, p, A) /\ k \in A /\ \A i \in A : k <= i
    BY <1>2, <1>6, <1>7
<1>9. /\ sem[p] \in State /\ k \in 1 .. Len(lines) /\ p \in 0 .. Len(lines)
      /\ sem[k] = After(s, k, sem[p])
      /\ Upto(s, sem, k, (A \ {k}) \cup Nodes(Body(k)))
    <2>1. sem[p] \in State /\ k \in 1 .. Len(lines) /\ p \in 0 .. Len(lines)
        BY <1>1, <1>8, UptoNext
    <2>2. sem[k] = After(s, k, sem[p])
        BY <1>1, <1>8, UptoNext, ZenonT(30)
    <2>3. lines[k].kind = "if" => Upto(s, sem, k, (A \ {k}) \cup Nodes(Body(k)))
        BY <1>1, <1>8, UptoNext
    <2> QED BY <1>5, <2>1, <2>2, <2>3
<1>10. k \in Conds /\ place[k] = Body(s)
    BY <1>1, <1>5, <1>6, BodyIs DEF Later, Nodes, Conds
<1>11. PICK cmp : cmp = Binary("eq", Name(lines[k].var), lines[k].left)
    OBVIOUS
<1>12. PICK t : t = Final(cmp.instrs, Final(c, Zero))
    OBVIOUS
<1>13. /\ cmp.instrs \in Seq(Instruction) /\ Known(cmp.regs, cmp.n) /\ cmp.reg \in Register
       /\ Carries(sem[k], t, cmp.regs, cmp.n, {})
       /\ Branches(sem[k], cmp.reg, t)
    BY <1>2, <1>8, <1>9, <1>10, <1>11, <1>12, TestIs
<1>14. PICK c1 : c1 = c \o cmp.instrs
    OBVIOUS
<1>15. c1 \in Seq(Instruction)
    BY <1>2, <1>13, <1>14, ConcatIs
<1>16. Final(c1, Zero) = t
    BY <1>2, <1>12, <1>13, <1>14, ZeroIs, FinalConcat
<1>17. Through(sem[k], <<>>, t) = t
    <2>1. t \in Machine /\ <<>> \in Seq(Instruction)
        BY <1>13 DEF Carries
    <2>2. Trace(<<>>, t)[0] = t
        BY <2>1, TraceIs
    <2> QED BY <2>2 DEF Through, Final
<1>18. Carries(sem[k], Through(sem[k], <<>>, Final(c1, Zero)), cmp.regs, cmp.n,
               Unread(sem[k], k))
    <2>1. Carries(sem[k], t, cmp.regs, cmp.n, Unread(sem[k], k))
        BY <1>13, CarriesAlso
    <2> QED BY <1>16, <1>17, <2>1
<1>19. Upto(s, sem, k, Later(Body(k), 0) \cup Later(Body(s), k))
    <2>1. Later(Body(k), 0) = Nodes(Body(k))
        BY <1>1, <1>10, BodyIs DEF Later
    <2>2. (A \ {k}) \cup Nodes(Body(k)) = Later(Body(k), 0) \cup Later(Body(s), k)
        BY <1>6, <1>7, <2>1
    <2> QED BY <1>9, <2>2
<1>20. PICK test : test = Cbr(cmp.reg, "if.then", "if.cont")
    OBVIOUS
<1>21. PICK blks : blks = <<Part("entry", c1, test), Part("if.then", <<>>, <<>>),
                            Part("if.cont", <<>>, <<>>)>>
    OBVIOUS
<1>22. blocks' = blks /\ block' = 2
    <2>1. Add(<<Part("entry", c, <<>>)>>, 1, cmp.instrs) =
              <<Part("entry", c \o cmp.instrs, <<>>)>>
        BY AddToOnly
    <2>2. Len(blocks) = 1
        BY <1>2
    <2>3. [<<Part("entry", c1, <<>>)>> EXCEPT ![1].terminator = test] = <<Part("entry", c1, test)>>
        BY OnlyEnds
    <2>4. PICK first : first = Part("entry", c1, test)
        OBVIOUS
    <2>5. PICK then : then = NewBlock("if.then")
        OBVIOUS
    <2>6. PICK cont : cont = NewBlock("if.cont")
        OBVIOUS
    <2>7. PICK added : added = Add(blocks, block, cmp.instrs)
        OBVIOUS
    <2>8. added = <<Part("entry", c1, <<>>)>>
        BY <1>2, <1>14, <2>1, <2>7, SMTT(20)
    <2>9. blocks' = [added EXCEPT ![block].terminator = test] \o <<then, cont>>
        BY <1>3, <1>11, <1>20, <2>5, <2>6, <2>7 DEF LowerIf, Stmt
    <2>10. [added EXCEPT ![block].terminator = test] = <<first>>
        BY <2>3, <2>4, <2>8
    <2>11. blocks' = <<first, then, cont>>
        <3>1. <<first>> \o <<then, cont>> = <<first, then, cont>>
            BY Three, Zenon
        <3>2. blocks' = <<first>> \o <<then, cont>>
            BY <2>9, <2>10, Zenon
        <3> QED BY <3>1, <3>2, Zenon
    <2>12. then = Part("if.then", <<>>, <<>>) /\ cont = Part("if.cont", <<>>, <<>>)
        BY <2>5, <2>6 DEF NewBlock, Part
    <2>13. block' = 2
        BY <2>2 DEF LowerIf
    <2> QED BY <1>21, <2>4, <2>11, <2>12, <2>13
<1>23. PICK low : low = <<CallOf(Body(s), 0, k), CallOf(Body(k), 3, 0)>>
    OBVIOUS
<1>24. lowering' = low
    <2>1. Len(blocks) = 1
        BY <1>2
    <2>2. PICK inner : inner = Body_(Body(k), 3, 0, None)
        OBVIOUS
    <2>3. inner = CallOf(Body(k), 3, 0)
        BY <2>2 DEF Body_, CallOf
    <2>4. lowering' = Append(Lowered, inner)
        BY <1>3, <2>1, <2>2 DEF LowerIf
    <2> QED BY <1>4, <1>23, <2>3, <2>4, Short2
<1>25. InBranch(s, sem, k, blks, cmp.regs, cmp.n, low)
    <2>1. <<>> \in Seq(Instruction) /\ 0 \in Nat
        OBVIOUS
    <2>2. Branches(sem[k], cmp.reg, Final(c1, Zero))
        BY <1>13, <1>16
    <2> QED BY <1>10, <1>13, <1>15, <1>18, <1>19, <1>20, <1>21, <1>23, <2>1, <2>2 DEF InBranch
<1>26. Lowers(s, sem, blks, 2, cmp.regs, cmp.n, low)
    BY <1>13, <1>25, SMTT(20) DEF Lowers
<1>27. regs' = cmp.regs /\ counter' = cmp.n
    BY <1>3, <1>11 DEF LowerIf, Stmt
<1> QED BY <1>22, <1>24, <1>26, <1>27

\* Statement k of the body of IF j is the next to run after p.
NextIn(s, sem, p, j, k) ==
    /\ k \in Statements /\ k \in Nat /\ k > j /\ k \in Nodes(Body(j)) /\ lines[k].kind # "if"
    /\ lines[k] \in StrictSourceLine
    /\ sem[p] \in State /\ sem[k] = After(s, k, sem[p]) /\ p \in 0 .. Len(lines)
    /\ Upto(s, sem, k, Later(Body(j), k) \cup Later(Body(s), j))
    /\ Runs(s, k, sem[p]) <=> ~sem[p].raised /\ sem[p].taken

\* The next statement of the IF's body is the first of those that are left.
LEMMA InBranchNext ==
    ASSUME NEW s, NEW sem, Accepted(s, sem), NEW p, NEW j \in Conds, NEW e \in Nat,
           Upto(s, sem, p, Later(Body(j), e) \cup Later(Body(s), j)),
           NEW k, k = NextNode(Body(j), e), k # 0
    PROVE  NextIn(s, sem, p, j, k)
<1>1. /\ SourceTyped /\ Tree(s) /\ Faithful /\ Semantics(s, sem)
      /\ lines \in Seq(StrictSourceLine)
    BY DEF Accepted
<1>2. /\ k \in Later(Body(j), e) /\ k \in Nat /\ \A i \in Later(Body(j), e) : k <= i
      /\ Later(Body(j), k) = Later(Body(j), e) \ {k}
    BY <1>1, NextNodeIs
<1>3. k \in Nodes(Body(j))
    BY <1>2 DEF Later
<1>4. k \in Statements /\ j < k /\ k \notin Nodes(Body(s)) /\ k \notin Conds
    BY <1>1, <1>3, BodyIs
<1>5. lines[k].kind # "if" /\ lines[k] \in StrictSourceLine
    BY <1>1, <1>4 DEF Conds, Tree
<1>6. \A i \in Later(Body(s), j) : k < i
    <2>1. ASSUME NEW i \in Later(Body(s), j) PROVE k < i
        <3>1. i \in Nodes(Body(s)) /\ i > j
            BY DEF Later
        <3> QED BY <1>1, <1>3, <3>1 DEF Tree
    <2> QED BY <2>1
<1>13. PICK A : A = Later(Body(j), e) \cup Later(Body(s), j)
    OBVIOUS
<1>7. Upto(s, sem, p, A) /\ k \in A /\ \A i \in A : k <= i
    <2>1. \A i \in Later(Body(s), j) : i \in Nat
        BY <1>1, BodyIs DEF Later
    <2> QED BY <1>2, <1>6, <1>13, <2>1
<1>8. sem[p] \in State /\ k \in 1 .. Len(lines) /\ p \in 0 .. Len(lines)
    BY <1>1, <1>7, UptoNext
<1>9. sem[k] = After(s, k, sem[p])
    BY <1>1, <1>7, UptoNext, ZenonT(30)
<1>10. Upto(s, sem, k, A \ {k})
    <2>1. lines[k].kind # "if" => Upto(s, sem, k, A \ {k})
        BY <1>1, <1>7, UptoNext
    <2> QED BY <1>5, <2>1
<1>11. A \ {k} = Later(Body(j), k) \cup Later(Body(s), j)
    <2>1. k \notin Later(Body(s), j)
        BY <1>4 DEF Later
    <2> QED BY <1>2, <1>13, <2>1
<1>12. place[k] # Body(s)
    <2>1. k \in DOMAIN place
        BY <1>3 DEF Nodes
    <2> QED BY <1>4, <2>1 DEF Nodes
<1> QED BY <1>2, <1>3, <1>4, <1>5, <1>8, <1>9, <1>10, <1>11, <1>12 DEF Runs, NextIn

\* A statement is lowered in the body of the IF.
LEMMA InBranchStep ==
    ASSUME NEW s, NEW sem, Accepted(s, sem), Known(regs, counter), block = 2,
           NEW p, InBranch(s, sem, p, blocks, regs, counter, lowering), LowerSimple
    PROVE  \E blks, b, known, n, low :
              /\ blks = blocks' /\ b = block' /\ known = regs' /\ n = counter'
              /\ low = lowering'
              /\ Lowers(s, sem, blks, b, known, n, low)
<1>1. /\ SourceTyped /\ Tree(s) /\ Faithful /\ Semantics(s, sem)
      /\ lines \in Seq(StrictSourceLine) /\ Analysed /\ verdict = "accepted"
    BY DEF Accepted
<1>2. PICK j, e, r, c1, c2 :
        /\ j \in Conds /\ e \in Nat /\ r \in Register
        /\ c1 \in Seq(Instruction) /\ c2 \in Seq(Instruction)
        /\ blocks = <<Part("entry", c1, Cbr(r, "if.then", "if.cont")),
                      Part("if.then", c2, <<>>), Part("if.cont", <<>>, <<>>)>>
        /\ lowering = <<CallOf(Body(s), 0, j), CallOf(Body(j), 3, e)>>
        /\ Upto(s, sem, p, Later(Body(j), e) \cup Later(Body(s), j))
        /\ Branches(sem[p], r, Final(c1, Zero))
        /\ Carries(sem[p], Through(sem[p], c2, Final(c1, Zero)), regs, counter,
                   Unread(sem[p], j))
    BY DEF InBranch
<1>3. PICK k : k = Upcoming
    OBVIOUS
<1>4. /\ k = NextNode(Body(j), e)
      /\ Lowered = <<CallOf(Body(s), 0, j), CallOf(Body(j), 3, k)>>
    BY <1>2, <1>3, LoweringInner
<1>5. k # 0
    BY <1>3 DEF LowerSimple, LowerSet, LowerOutput, LowerCreateFile, LowerWriteFile, Lowering
<1>6. /\ k \in Statements /\ k \in Nat /\ k > j /\ k \in Nodes(Body(j)) /\ lines[k].kind # "if"
      /\ lines[k] \in StrictSourceLine
      /\ sem[p] \in State /\ sem[k] = After(s, k, sem[p]) /\ p \in 0 .. Len(lines)
      /\ Upto(s, sem, k, Later(Body(j), k) \cup Later(Body(s), j))
      /\ Runs(s, k, sem[p]) <=> ~sem[p].raised /\ sem[p].taken
    <2>2. /\ j \in Conds /\ e \in Nat /\ k = NextNode(Body(j), e) /\ k # 0
          /\ Upto(s, sem, p, Later(Body(j), e) \cup Later(Body(s), j))
        BY <1>2, <1>4, <1>5
    <2>3. NextIn(s, sem, p, j, k)
        BY <2>2, InBranchNext, ZenonT(30)
    <2> QED BY <2>3 DEF NextIn
<1>7. PICK m : LoweredBy(m) /\ Translates(k, m)
    BY <1>3, <1>6, StatementTranslated DEF LowerSimple
<1>8. m.instrs \in Seq(Instruction) /\ Known(m.regs, m.n)
    BY <1>7 DEF Translates
<1>9. PICK t : t = Final(c1, Zero)
    OBVIOUS
<1>10. t \in Machine
    BY <1>2, <1>9, ZeroIs, TraceIs
<1>11. PICK d2 : d2 = c2 \o m.instrs
    OBVIOUS
<1>12. d2 \in Seq(Instruction)
    BY <1>2, <1>8, <1>11, ConcatIs
<1>13. PICK q \in State : q = sem[p]
    BY <1>6
<1>14. PICK w : w = sem[k]
    OBVIOUS
<1>15. w = After(s, k, q) /\ w.taken = q.taken
    <2>1. w = After(s, k, q)
        BY <1>6, <1>13, <1>14
    <2>2. lines[k].kind \in {"if"} \cup Simple \cup OnFiles
        BY <1>1, <1>6 DEF Tree
    <2>3. Effect(k, q).taken = q.taken
        BY <1>6, <2>2, EffectKeeps
    <2> QED BY <2>1, <2>3 DEF After
<1>16. Branches(w, r, t)
    BY <1>2, <1>9, <1>13, <1>15 DEF Branches
<1>17. Carries(w, Through(w, d2, t), m.regs, m.n, Unread(w, j))
    <2>1. CASE q.taken
        <3>1. Through(q, c2, t) = Final(c2, t) /\ Unread(q, j) = {}
            BY <2>1 DEF Through, Unread
        <3>2. Carries(q, Final(c2, t), regs, counter, {})
            BY <1>2, <1>9, <1>13, <3>1
        <3>3. Said(k, q, {})
            <4>1. Names(k) \cap {} = {}
                OBVIOUS
            <4> QED BY <1>1, <1>6, <1>13, <4>1, SaidIs
        <3>4. Runs(s, k, q) \/ q.raised
            BY <1>6, <1>13, <2>1
        <3>5. Carries(After(s, k, q), Final(m.instrs, Final(c2, t)), m.regs, m.n, {})
            BY <1>7, <3>2, <3>3, <3>4, CarriesOn
        <3>6. Final(d2, t) = Final(m.instrs, Final(c2, t))
            BY <1>2, <1>8, <1>10, <1>11, FinalConcat
        <3>7. Through(w, d2, t) = Final(d2, t) /\ Unread(w, j) = {}
            BY <1>15, <2>1 DEF Through, Unread
        <3> QED BY <1>15, <3>5, <3>6, <3>7
    <2>2. CASE ~q.taken
        <3>1. Through(q, c2, t) = t /\ Unread(q, j) = SetIn(j)
            BY <2>2 DEF Through, Unread
        <3>2. Carries(q, t, regs, counter, SetIn(j))
            BY <1>2, <1>9, <1>13, <3>1
        <3>3. w = q
            BY <1>6, <1>13, <1>15, <2>2 DEF After
        <3>4. Through(w, d2, t) = t /\ Unread(w, j) = SetIn(j)
            BY <1>15, <2>2 DEF Through, Unread
        <3>5. lines[k].kind = "set" => lines[k].var \in SetIn(j)
            BY <1>6 DEF SetIn
        <3>6. Registers(q, t, regs, counter, SetIn(j)) => Registers(q, t, m.regs, m.n, SetIn(j))
            BY <1>7, <3>5 DEF Translates
        <3>7. Carries(q, t, m.regs, m.n, SetIn(j))
            BY <3>2, <3>6 DEF Carries
        <3> QED BY <3>3, <3>4, <3>7
    <2> QED BY <2>1, <2>2
<1>18. PICK first : first = Part("entry", c1, Cbr(r, "if.then", "if.cont"))
    OBVIOUS
<1>19. PICK cont : cont = Part("if.cont", <<>>, <<>>)
    OBVIOUS
<1>20. PICK blks : blks = <<first, Part("if.then", d2, <<>>), cont>>
    OBVIOUS
<1>21. blocks' = blks
    <2>1. Add(<<first, Part("if.then", c2, <<>>), cont>>, 2, m.instrs) =
              <<first, Part("if.then", c2 \o m.instrs, <<>>), cont>>
        BY AddToSecond
    <2>2. blocks = <<first, Part("if.then", c2, <<>>), cont>>
        BY <1>2, <1>18, <1>19
    <2> QED BY <1>7, <1>11, <1>20, <2>1, <2>2 DEF LoweredBy
<1>22. PICK low : low = <<CallOf(Body(s), 0, j), CallOf(Body(j), 3, k)>>
    OBVIOUS
<1>23. lowering' = low
    BY <1>4, <1>7, <1>22 DEF LoweredBy
<1>24. InBranch(s, sem, k, blks, m.regs, m.n, low)
    BY <1>2, <1>6, <1>9, <1>12, <1>14, <1>16, <1>17, <1>18, <1>19, <1>20, <1>22 DEF InBranch
<1>25. Lowers(s, sem, blks, 2, m.regs, m.n, low)
    BY <1>8, <1>24 DEF Lowers
<1>26. regs' = m.regs /\ counter' = m.n /\ block' = 2
    BY <1>7 DEF LoweredBy
<1> QED BY <1>21, <1>23, <1>25, <1>26

\* The machine after the body of the IF.
LEMMA ThroughIs ==
    ASSUME NEW q, NEW c1 \in Seq(Instruction), NEW c2 \in Seq(Instruction)
    PROVE  Final(c1, Zero) \in Machine /\ Through(q, c2, Final(c1, Zero)) \in Machine
<1>1. Final(c1, Zero) \in Machine
    BY ZeroIs, TraceIs
<1>2. Final(c2, Final(c1, Zero)) \in Machine
    BY <1>1, TraceIs
<1> QED BY <1>1, <1>2 DEF Through

\* The body of the IF ends.
LEMMA InBranchEnds ==
    ASSUME NEW s, NEW sem, Accepted(s, sem), Known(regs, counter), block = 2,
           NEW p, InBranch(s, sem, p, blocks, regs, counter, lowering), EndBody
    PROVE  \E blks, b, known, n, low :
              /\ blks = blocks' /\ b = block' /\ known = regs' /\ n = counter'
              /\ low = lowering'
              /\ Lowers(s, sem, blks, b, known, n, low)
<1>1. SourceTyped
    BY DEF Accepted
<1>2. PICK j, e, r, c1, c2 :
        /\ j \in Conds /\ e \in Nat /\ r \in Register
        /\ c1 \in Seq(Instruction) /\ c2 \in Seq(Instruction)
        /\ blocks = <<Part("entry", c1, Cbr(r, "if.then", "if.cont")),
                      Part("if.then", c2, <<>>), Part("if.cont", <<>>, <<>>)>>
        /\ lowering = <<CallOf(Body(s), 0, j), CallOf(Body(j), 3, e)>>
        /\ Upto(s, sem, p, Later(Body(j), e) \cup Later(Body(s), j))
        /\ Branches(sem[p], r, Final(c1, Zero))
        /\ Carries(sem[p], Through(sem[p], c2, Final(c1, Zero)), regs, counter,
                   Unread(sem[p], j))
    BY DEF InBranch
<1>3. /\ NextNode(Body(j), e) = 0
      /\ Outer = <<CallOf(Body(s), 0, j)>> /\ Inner = CallOf(Body(j), 3, e)
    <2>1. /\ Upcoming = NextNode(Body(j), e)
          /\ Outer = <<CallOf(Body(s), 0, j)>> /\ Inner = CallOf(Body(j), 3, e)
        BY <1>2, LoweringInner
    <2> QED BY <2>1 DEF EndBody
<1>4. Later(Body(j), e) = {}
    BY <1>1, <1>2, <1>3, NextNodeIs
<1>5. Upto(s, sem, p, Later(Body(s), j))
    <2>1. {} \cup Later(Body(s), j) = Later(Body(s), j)
        OBVIOUS
    <2> QED BY <1>2, <1>4, <2>1
<1>6. PICK t : t = Through(sem[p], c2, Final(c1, Zero))
    OBVIOUS
<1>7. Final(<<>>, t) = t /\ <<>> \in Seq(Instruction)
    <2>1. t \in Machine /\ <<>> \in Seq(Instruction)
        BY <1>2, <1>6, ThroughIs
    <2>2. Trace(<<>>, t)[0] = t
        BY <2>1, TraceIs
    <2> QED BY <2>1, <2>2 DEF Final
<1>8. PICK low : low = <<CallOf(Body(s), 0, j)>>
    OBVIOUS
<1>9. lowering' = low /\ block' = 3 /\ regs' = regs /\ counter' = counter
    BY <1>3, <1>8 DEF EndBody, CallOf
<1>10. PICK first : first = Part("entry", c1, Cbr(r, "if.then", "if.cont"))
    OBVIOUS
<1>11. PICK cont : cont = Part("if.cont", <<>>, <<>>)
    OBVIOUS
<1>12. PICK exit : exit = Br("if.cont")
    OBVIOUS
<1>13. PICK blks : blks = <<first, Part("if.then", c2, exit), cont>>
    OBVIOUS
<1>14. blocks' = blks
    <2>1. Inner.header = 0
        BY <1>3 DEF CallOf
    <2>2. blocks' = [blocks EXCEPT ![2].terminator = exit]
        BY <1>12, <2>1 DEF EndBody
    <2>3. blocks = <<first, Part("if.then", c2, <<>>), cont>>
        BY <1>2, <1>10, <1>11
    <2>4. [<<first, Part("if.then", c2, <<>>), cont>> EXCEPT ![2].terminator = exit] =
              <<first, Part("if.then", c2, exit), cont>>
        BY SecondEnds
    <2> QED BY <1>13, <2>2, <2>3, <2>4
<1>15. AfterBranch(s, sem, p, blks, regs, counter, low)
    <2>1. j \in Nat /\ j <= j
        BY <1>1, <1>2 DEF Conds, Statements, SourceTyped
    <2>2. Carries(sem[p], Final(<<>>, t), regs, counter, Unread(sem[p], j))
        BY <1>2, <1>6, <1>7
    <2> QED BY <1>2, <1>5, <1>6, <1>7, <1>8, <1>10, <1>11, <1>12, <1>13, <2>1, <2>2
            DEF AfterBranch
<1>16. Lowers(s, sem, blks, 3, regs, counter, low)
    BY <1>15 DEF Lowers
<1> QED BY <1>9, <1>14, <1>16

\* Statement k of the trigger is the next to run after p, and the IF is behind.
NextAfter(s, sem, p, k) ==
    /\ k \in Statements /\ k \in Nat /\ k \in Nodes(Body(s)) /\ lines[k].kind # "if"
    /\ lines[k] \in StrictSourceLine /\ place[k] = Body(s)
    /\ sem[p] \in State /\ sem[k] = After(s, k, sem[p]) /\ p \in 0 .. Len(lines)
    /\ Upto(s, sem, k, Later(Body(s), k))

\* The next statement after the IF is the first of those that are left.
LEMMA AfterBranchNext ==
    ASSUME NEW s, NEW sem, Accepted(s, sem), NEW p, NEW j \in Conds, NEW d \in Nat, j <= d,
           Upto(s, sem, p, Later(Body(s), d)),
           NEW k, k = NextNode(Body(s), d), k # 0
    PROVE  NextAfter(s, sem, p, k) /\ k > j /\ k \notin Nodes(Body(j))
<1>1. /\ SourceTyped /\ Tree(s) /\ Faithful /\ Semantics(s, sem)
      /\ lines \in Seq(StrictSourceLine)
    BY DEF Accepted
<1>2. /\ k \in Later(Body(s), d) /\ k \in Nat /\ \A i \in Later(Body(s), d) : k <= i
      /\ Later(Body(s), k) = Later(Body(s), d) \ {k}
    BY <1>1, NextNodeIs
<1>3. k \in Nodes(Body(s)) /\ k > d /\ place[k] = Body(s)
    BY <1>2 DEF Later, Nodes
<1>4. k \in Statements
    BY <1>1, <1>3, BodyIs
<1>5. j \in Nat /\ k > j
    BY <1>1, <1>2, <1>3 DEF Conds, Statements, SourceTyped
<1>6. k \notin Conds
    BY <1>1, <1>5 DEF Tree
<1>7. lines[k].kind # "if" /\ lines[k] \in StrictSourceLine
    BY <1>1, <1>4, <1>6 DEF Conds, Tree
<1>8. k \notin Nodes(Body(j))
    BY <1>1, <1>3, BodyIs
<1>9. PICK A : A = Later(Body(s), d)
    OBVIOUS
<1>10. Upto(s, sem, p, A) /\ k \in A /\ \A i \in A : k <= i
    BY <1>2, <1>9
<1>11. sem[p] \in State /\ p \in 0 .. Len(lines)
    BY <1>1, <1>10, UptoNext
<1>12. sem[k] = After(s, k, sem[p])
    BY <1>1, <1>10, UptoNext, ZenonT(30)
<1>13. Upto(s, sem, k, A \ {k})
    <2>1. lines[k].kind # "if" => Upto(s, sem, k, A \ {k})
        BY <1>1, <1>10, UptoNext
    <2> QED BY <1>7, <2>1
<1>14. Upto(s, sem, k, Later(Body(s), k))
    BY <1>2, <1>9, <1>13
<1>15. NextAfter(s, sem, p, k)
    BY <1>2, <1>3, <1>4, <1>7, <1>11, <1>12, <1>14 DEF NextAfter
<1> QED BY <1>5, <1>8, <1>15

\* A statement is lowered after the IF.
LEMMA AfterBranchStep ==
    ASSUME NEW s, NEW sem, Accepted(s, sem), Known(regs, counter), block = 3,
           NEW p, AfterBranch(s, sem, p, blocks, regs, counter, lowering), LowerSimple
    PROVE  \E blks, b, known, n, low :
              /\ blks = blocks' /\ b = block' /\ known = regs' /\ n = counter'
              /\ low = lowering'
              /\ Lowers(s, sem, blks, b, known, n, low)
<1>1. /\ SourceTyped /\ Tree(s) /\ Faithful /\ Semantics(s, sem)
      /\ lines \in Seq(StrictSourceLine) /\ Analysed /\ verdict = "accepted"
    BY DEF Accepted
<1>2. PICK j, d, r, c1, c2, c3 :
        /\ j \in Conds /\ d \in Nat /\ r \in Register
        /\ c1 \in Seq(Instruction) /\ c2 \in Seq(Instruction) /\ c3 \in Seq(Instruction)
        /\ blocks = <<Part("entry", c1, Cbr(r, "if.then", "if.cont")),
                      Part("if.then", c2, Br("if.cont")), Part("if.cont", c3, <<>>)>>
        /\ j <= d /\ lowering = <<CallOf(Body(s), 0, d)>>
        /\ Upto(s, sem, p, Later(Body(s), d))
        /\ Branches(sem[p], r, Final(c1, Zero))
        /\ Carries(sem[p], Final(c3, Through(sem[p], c2, Final(c1, Zero))), regs, counter,
                   Unread(sem[p], j))
    BY DEF AfterBranch
<1>3. PICK k : k = Upcoming
    OBVIOUS
<1>4. k = NextNode(Body(s), d) /\ Lowered = <<CallOf(Body(s), 0, k)>>
    BY <1>2, <1>3, LoweringOuter
<1>5. k # 0
    BY <1>3 DEF LowerSimple, LowerSet, LowerOutput, LowerCreateFile, LowerWriteFile, Lowering
<1>6. NextAfter(s, sem, p, k) /\ k > j /\ k \notin Nodes(Body(j))
    <2>1. j \in Conds /\ d \in Nat /\ j <= d /\ Upto(s, sem, p, Later(Body(s), d))
        BY <1>2
    <2> QED BY <1>4, <1>5, <2>1, AfterBranchNext, ZenonT(30)
<1>7. /\ k \in Statements /\ k \in Nat /\ k \in Nodes(Body(s)) /\ lines[k].kind # "if"
      /\ lines[k] \in StrictSourceLine /\ place[k] = Body(s)
      /\ sem[p] \in State /\ sem[k] = After(s, k, sem[p]) /\ p \in 0 .. Len(lines)
      /\ Upto(s, sem, k, Later(Body(s), k))
    BY <1>6 DEF NextAfter
<1>8. PICK m : LoweredBy(m) /\ Translates(k, m)
    BY <1>3, <1>7, StatementTranslated DEF LowerSimple
<1>9. m.instrs \in Seq(Instruction) /\ Known(m.regs, m.n)
    BY <1>8 DEF Translates
<1>10. PICK q \in State : q = sem[p]
    BY <1>7
<1>11. PICK w : w = sem[k]
    OBVIOUS
<1>12. w = After(s, k, q) /\ w.taken = q.taken
    <2>1. w = After(s, k, q)
        BY <1>7, <1>10, <1>11
    <2>2. lines[k].kind \in {"if"} \cup Simple \cup OnFiles
        BY <1>1, <1>7 DEF Tree
    <2>3. Effect(k, q).taken = q.taken
        BY <1>7, <2>2, EffectKeeps
    <2> QED BY <2>1, <2>3 DEF After
<1>13. PICK t : t = Through(q, c2, Final(c1, Zero))
    OBVIOUS
<1>14. t \in Machine
    BY <1>2, <1>13, ThroughIs
<1>15. Through(w, c2, Final(c1, Zero)) = t /\ Unread(w, j) = Unread(q, j)
    BY <1>12, <1>13 DEF Through, Unread
<1>16. Branches(w, r, Final(c1, Zero))
    BY <1>2, <1>10, <1>12 DEF Branches
<1>17. Said(k, q, Unread(q, j))
    <2>1. Names(k) \cap SetIn(j) = {}
        BY <1>1, <1>2, <1>6, <1>7 DEF Faithful
    <2>2. Names(k) \cap Unread(q, j) = {}
        BY <2>1 DEF Unread
    <2> QED BY <1>1, <1>7, <1>10, <2>2, SaidIs
<1>18. Runs(s, k, q) \/ q.raised
    BY <1>7 DEF Runs
<1>19. PICK d3 : d3 = c3 \o m.instrs
    OBVIOUS
<1>20. d3 \in Seq(Instruction)
    BY <1>2, <1>9, <1>19, ConcatIs
<1>21. Final(d3, t) = Final(m.instrs, Final(c3, t))
    BY <1>2, <1>9, <1>14, <1>19, FinalConcat
<1>22. PICK bad : bad = Unread(q, j)
    OBVIOUS
<1>23. Carries(After(s, k, q), Final(m.instrs, Final(c3, t)), m.regs, m.n, bad)
    <2>1. Carries(q, Final(c3, t), regs, counter, bad)
        BY <1>2, <1>10, <1>13, <1>22
    <2>2. Said(k, q, bad)
        BY <1>17, <1>22
    <2> QED BY <1>8, <1>18, <2>1, <2>2, CarriesOn
<1>24. Carries(w, Final(d3, t), m.regs, m.n, Unread(w, j))
    BY <1>12, <1>15, <1>21, <1>22, <1>23
<1>25. PICK first : first = Part("entry", c1, Cbr(r, "if.then", "if.cont"))
    OBVIOUS
<1>26. PICK then : then = Part("if.then", c2, Br("if.cont"))
    OBVIOUS
<1>27. PICK blks : blks = <<first, then, Part("if.cont", d3, <<>>)>>
    OBVIOUS
<1>28. blocks' = blks
    <2>1. Add(<<first, then, Part("if.cont", c3, <<>>)>>, 3, m.instrs) =
              <<first, then, Part("if.cont", c3 \o m.instrs, <<>>)>>
        BY AddToThird
    <2>2. blocks = <<first, then, Part("if.cont", c3, <<>>)>>
        BY <1>2, <1>25, <1>26
    <2> QED BY <1>8, <1>19, <1>27, <2>1, <2>2 DEF LoweredBy
<1>29. PICK low : low = <<CallOf(Body(s), 0, k)>>
    OBVIOUS
<1>30. lowering' = low
    BY <1>4, <1>8, <1>29 DEF LoweredBy
<1>31. AfterBranch(s, sem, k, blks, m.regs, m.n, low)
    <2>1. j <= k
        BY <1>1, <1>2, <1>6, <1>7 DEF Conds, Statements, SourceTyped
    <2>2. Carries(sem[k], Final(d3, Through(sem[k], c2, Final(c1, Zero))), m.regs, m.n,
                  Unread(sem[k], j))
        BY <1>11, <1>15, <1>24
    <2>3. Branches(sem[k], r, Final(c1, Zero))
        BY <1>11, <1>16
    <2> QED BY <1>2, <1>7, <1>20, <1>25, <1>26, <1>27, <1>29, <2>1, <2>2, <2>3
            DEF AfterBranch
<1>32. Lowers(s, sem, blks, 3, m.regs, m.n, low)
    BY <1>9, <1>31 DEF Lowers
<1>33. regs' = m.regs /\ counter' = m.n /\ block' = 3
    BY <1>8 DEF LoweredBy
<1> QED BY <1>28, <1>30, <1>32, <1>33

\* Before its trigger is lowered nothing is.
LEMMA StartSteps ==
    ASSUME NEW s, NEW sem, Accepted(s, sem),
           Lowers(s, sem, blocks, block, regs, counter, lowering), lowering = <<>>, Lower
    PROVE  \E blks, b, known, n, low :
              /\ blks = blocks' /\ b = block' /\ known = regs' /\ n = counter'
              /\ low = lowering'
              /\ Lowers(s, sem, blks, b, known, n, low)
<1>1. SourceTyped /\ Tree(s) /\ Semantics(s, sem)
    BY DEF Accepted
<1>2. /\ Known(regs, counter) /\ block = 1 /\ blocks = <<NewBlock("entry")>>
      /\ regs = [x \in Var |-> None] /\ counter = 0
    <2>1. ~\E p : OneBlock(s, sem, p, blocks, regs, counter, lowering)
        BY DEF OneBlock
    <2>2. ~\E p : InBranch(s, sem, p, blocks, regs, counter, lowering)
        BY DEF InBranch
    <2>3. ~\E p : AfterBranch(s, sem, p, blocks, regs, counter, lowering)
        BY DEF AfterBranch
    <2> QED BY <2>1, <2>2, <2>3 DEF Lowers
<1>3. LowerTrigger(Max(Triggers("start")))
    <2>1. ~LowerStep
        BY DEF LowerStep, LowerSet, LowerOutput, LowerCreateFile, LowerWriteFile, LowerIf,
               LowerRepeat, EndBody, Lowering
    <2> QED BY <2>1 DEF Lower
<1> QED BY <1>1, <1>2, <1>3, LoweringStarts

\* A REPEAT does not come up, nor in the body of an IF another one.
LEMMA UpcomingIs ==
    ASSUME NEW s, SourceTyped, Tree(s), NEW j \in {s} \cup Conds, NEW d \in Nat,
           NEW k, k = NextNode(Body(j), d), k # 0
    PROVE  /\ lines[k].kind # "repeat" /\ (j # s => lines[k].kind # "if")
           /\ j = s /\ lines[k].kind = "if" => \A i \in Conds : k = i /\ k > d
<1>1. k \in Later(Body(j), d)
    BY NextNodeIs
<1>2. k \in Nodes(Body(j)) /\ k > d
    BY <1>1 DEF Later
<1>3. k \in Statements /\ (j # s => k \notin Conds)
    BY <1>2, BodyIs
<1>4. lines[k].kind \in {"if"} \cup Simple \cup OnFiles
    BY <1>3 DEF Tree
<1>5. lines[k].kind = "if" => k \in Conds
    BY <1>3 DEF Conds
<1>6. \A a, b \in Conds : a = b
    BY DEF Tree
<1> QED BY <1>2, <1>3, <1>4, <1>5, <1>6 DEF Simple, OnFiles

\* A step where there is one block.
LEMMA OneBlockSteps ==
    ASSUME NEW s, NEW sem, Accepted(s, sem), Known(regs, counter), block = 1,
           NEW p, OneBlock(s, sem, p, blocks, regs, counter, lowering), Lower
    PROVE  \E blks, b, known, n, low :
              /\ blks = blocks' /\ b = block' /\ known = regs' /\ n = counter'
              /\ low = lowering'
              /\ Lowers(s, sem, blks, b, known, n, low)
<1>1. SourceTyped /\ Tree(s)
    BY DEF Accepted
<1>2. PICK d, c :
          d \in Nat /\ lowering = <<CallOf(Body(s), 0, d)>>
    BY DEF OneBlock
<1>3. Upcoming = NextNode(Body(s), d) /\ Len(lowering) = 1 /\ lowering # <<>>
    BY <1>2, LoweringOuter
<1>4. ~EndBody /\ LowerStep
    BY <1>3 DEF EndBody, Lower
<1>5. ~LowerRepeat
    <2>1. Upcoming # 0 => lines[Upcoming].kind # "repeat"
        BY <1>1, <1>2, <1>3, UpcomingIs
    <2> QED BY <2>1 DEF LowerRepeat, Lowering, Stmt
<1>6. LowerSimple \/ LowerIf
    BY <1>4, <1>5 DEF LowerStep, LowerSimple
<1> QED BY <1>6, OneBlockStep, OneBlockForks

\* A step in the body of the IF.
LEMMA InBranchSteps ==
    ASSUME NEW s, NEW sem, Accepted(s, sem), Known(regs, counter), block = 2,
           NEW p, InBranch(s, sem, p, blocks, regs, counter, lowering), Lower
    PROVE  \E blks, b, known, n, low :
              /\ blks = blocks' /\ b = block' /\ known = regs' /\ n = counter'
              /\ low = lowering'
              /\ Lowers(s, sem, blks, b, known, n, low)
<1>1. SourceTyped /\ Tree(s)
    BY DEF Accepted
<1>2. PICK j, e :
          /\ j \in Conds /\ e \in Nat
          /\ lowering = <<CallOf(Body(s), 0, j), CallOf(Body(j), 3, e)>>
    BY DEF InBranch
<1>3. Upcoming = NextNode(Body(j), e) /\ Len(lowering) = 2 /\ lowering # <<>>
    BY <1>2, LoweringInner
<1>4. LowerStep
    BY <1>3, SMTT(20) DEF Lower
<1>5. ~LowerRepeat /\ ~LowerIf
    <2>1. j # s
        BY <1>1, <1>2 DEF Tree, Conds
    <2>2. Upcoming # 0 => lines[Upcoming].kind # "repeat" /\ lines[Upcoming].kind # "if"
        BY <1>1, <1>2, <1>3, <2>1, UpcomingIs
    <2> QED BY <2>2 DEF LowerRepeat, LowerIf, Lowering, Stmt
<1>6. LowerSimple \/ EndBody
    BY <1>4, <1>5 DEF LowerStep, LowerSimple
<1> QED BY <1>6, InBranchStep, InBranchEnds

\* A step after the IF.
LEMMA AfterBranchSteps ==
    ASSUME NEW s, NEW sem, Accepted(s, sem), Known(regs, counter), block = 3,
           NEW p, AfterBranch(s, sem, p, blocks, regs, counter, lowering), Lower
    PROVE  \E blks, b, known, n, low :
              /\ blks = blocks' /\ b = block' /\ known = regs' /\ n = counter'
              /\ low = lowering'
              /\ Lowers(s, sem, blks, b, known, n, low)
<1>1. SourceTyped /\ Tree(s)
    BY DEF Accepted
<1>2. PICK j, d :
          /\ j \in Conds /\ d \in Nat /\ j <= d /\ lowering = <<CallOf(Body(s), 0, d)>>
    BY DEF AfterBranch
<1>3. Upcoming = NextNode(Body(s), d) /\ Len(lowering) = 1 /\ lowering # <<>>
    BY <1>2, LoweringOuter
<1>4. ~EndBody /\ LowerStep
    BY <1>3 DEF EndBody, Lower
<1>5. ~LowerRepeat /\ ~LowerIf
    <2>1. j \in Nat
        BY <1>1, <1>2 DEF Conds, Statements, SourceTyped
    <2>2. Upcoming # 0 => lines[Upcoming].kind # "repeat"
        BY <1>1, <1>2, <1>3, UpcomingIs
    <2>3. PICK k : k = Upcoming
        OBVIOUS
    <2>4. ASSUME k # 0, lines[k].kind = "if" PROVE FALSE
        <3>1. k = j /\ k > d
            BY <1>1, <1>2, <1>3, <2>3, <2>4, UpcomingIs
        <3> QED BY <1>2, <2>1, <3>1
    <2> QED BY <2>2, <2>3, <2>4 DEF LowerRepeat, LowerIf, Lowering, Stmt
<1>6. LowerSimple
    BY <1>4, <1>5 DEF LowerStep, LowerSimple
<1> QED BY <1>6, AfterBranchStep

\* Every step of the compiler makes the blocks of a longer part of the program.
LEMMA LowersStep ==
    ASSUME NEW s, NEW sem, Accepted(s, sem),
           Lowers(s, sem, blocks, block, regs, counter, lowering), Lower
    PROVE  \E blks, b, known, n, low :
              /\ blks = blocks' /\ b = block' /\ known = regs' /\ n = counter'
              /\ low = lowering'
              /\ Lowers(s, sem, blks, b, known, n, low)
<1>1. Known(regs, counter)
    BY DEF Lowers
<1>2. CASE lowering = <<>>
    BY <1>2, StartSteps
<1>3. CASE block = 1 /\ \E p : OneBlock(s, sem, p, blocks, regs, counter, lowering)
    BY <1>1, <1>3, OneBlockSteps
<1>4. CASE block = 2 /\ \E p : InBranch(s, sem, p, blocks, regs, counter, lowering)
    BY <1>1, <1>4, InBranchSteps
<1>5. CASE block = 3 /\ \E p : AfterBranch(s, sem, p, blocks, regs, counter, lowering)
    BY <1>1, <1>5, AfterBranchSteps
<1> QED BY <1>2, <1>3, <1>4, <1>5 DEF Lowers

\* The machine has printed and written what the program does, and failed if it does.
Agrees(q, st) ==
    /\ st \in Machine
    /\ st.printed = q.out /\ Alike(st.files, q.files) /\ st.failed = q.raised
    /\ \A x \in Var : Name(x) \in DOMAIN st.slots => x \in Declared

\* The code of a program without an IF, and with one.
Straight(q, blks) ==
    \E c \in Seq(Instruction) :
        blks = <<Part("entry", c, <<>>)>> /\ Agrees(q, Final(c, Zero))
Forked(q, blks) ==
    \E r \in Register, c1 \in Seq(Instruction), c2 \in Seq(Instruction), c3 \in Seq(Instruction) :
        /\ blks = <<Part("entry", c1, Cbr(r, "if.then", "if.cont")),
                    Part("if.then", c2, Br("if.cont")), Part("if.cont", c3, <<>>)>>
        /\ Branches(q, r, Final(c1, Zero))
        /\ Agrees(q, Final(c3, Through(q, c2, Final(c1, Zero))))

\* What a program is once it is lowered.
LEMMA LoweringEnds ==
    ASSUME NEW s, NEW sem, SourceTyped, Semantics(s, sem), lines \in Seq(StrictSourceLine),
           Lowers(s, sem, blocks, block, regs, counter, lowering), IrDone
    PROVE  Straight(sem[Len(lines)], blocks) \/ Forked(sem[Len(lines)], blocks)
<1>0. Len(lowering) = 1
    BY Zenon DEF IrDone
<1>1. lowering # <<>>
    BY <1>0
<1>2. ASSUME NEW p, OneBlock(s, sem, p, blocks, regs, counter, lowering)
      PROVE  Straight(sem[Len(lines)], blocks)
    <2>1. PICK d, c :
              /\ d \in Nat /\ c \in Seq(Instruction)
              /\ blocks = <<Part("entry", c, <<>>)>>
              /\ lowering = <<CallOf(Body(s), 0, d)>>
              /\ Upto(s, sem, p, Later(Body(s), d))
              /\ Carries(sem[p], Final(c, Zero), regs, counter, {})
        BY <1>2 DEF OneBlock
    <2>2. NextNode(Body(s), d) = 0
        BY <2>1, LoweringOuter DEF IrDone
    <2>3. Upto(s, sem, p, {})
        BY <2>1, <2>2, NextNodeIs
    <2>4. sem[p] = sem[Len(lines)]
        BY <2>3, UptoEnd
    <2>5. Agrees(sem[Len(lines)], Final(c, Zero))
        BY <2>1, <2>4 DEF Carries, Agrees
    <2> QED BY <2>1, <2>5 DEF Straight
<1>3. ASSUME NEW p, InBranch(s, sem, p, blocks, regs, counter, lowering)
      PROVE  FALSE
    <2>1. PICK j, e :
              /\ j \in Conds /\ e \in Nat
              /\ lowering = <<CallOf(Body(s), 0, j), CallOf(Body(j), 3, e)>>
        BY <1>3 DEF InBranch
    <2>2. Len(lowering) = 2
        BY <2>1, LoweringInner
    <2> QED BY <1>0, <2>2
<1>4. ASSUME NEW p, AfterBranch(s, sem, p, blocks, regs, counter, lowering)
      PROVE  Forked(sem[Len(lines)], blocks)
    <2>1. PICK j, d, r, c1, c2, c3 :
            /\ j \in Conds /\ d \in Nat /\ r \in Register
            /\ c1 \in Seq(Instruction) /\ c2 \in Seq(Instruction) /\ c3 \in Seq(Instruction)
            /\ blocks = <<Part("entry", c1, Cbr(r, "if.then", "if.cont")),
                          Part("if.then", c2, Br("if.cont")), Part("if.cont", c3, <<>>)>>
            /\ j <= d /\ lowering = <<CallOf(Body(s), 0, d)>>
            /\ Upto(s, sem, p, Later(Body(s), d))
            /\ Branches(sem[p], r, Final(c1, Zero))
            /\ Carries(sem[p], Final(c3, Through(sem[p], c2, Final(c1, Zero))), regs, counter,
                       Unread(sem[p], j))
        BY <1>4 DEF AfterBranch
    <2>2. NextNode(Body(s), d) = 0
        BY <2>1, LoweringOuter DEF IrDone
    <2>3. Upto(s, sem, p, {})
        BY <2>1, <2>2, NextNodeIs
    <2>4. sem[p] = sem[Len(lines)]
        BY <2>3, UptoEnd
    <2>5. PICK q : q = sem[Len(lines)]
        OBVIOUS
    <2>6. Agrees(q, Final(c3, Through(q, c2, Final(c1, Zero))))
        BY <2>1, <2>4, <2>5 DEF Carries, Agrees
    <2>7. Branches(q, r, Final(c1, Zero))
        BY <2>1, <2>4, <2>5
    <2> QED BY <2>1, <2>5, <2>6, <2>7 DEF Forked
<1> QED BY <1>1, <1>2, <1>3, <1>4 DEF Lowers
-----------------------------------------------------------------------------
(* Compilable programs: what the VM does *)

Vm == [slots |-> slots, printed |-> printed, files |-> vmFiles, failed |-> vmFailed]

\* The opcode at pc decides which step the VM takes.
LEMMA VmLoads ==
    ASSUME NEW r, code[pc] = Op("LOAD", r), VmStep
    PROVE  /\ code' = code /\ pc' = pc + 1 /\ operands' = Append(operands, Held(r, Vm))
           /\ Vm' = Vm
<1>1. Opcode = "LOAD" /\ Arg = r
    BY DEF Opcode, Arg, Op
<1>2. VmLoad
    BY <1>1 DEF VmStep, VmLabel, VmStore, VmBinary, VmPrint, VmCreateFile, VmWriteFile, VmJump
<1>3. Slot(r) = Held(r, Vm)
    BY DEF Slot, Held, Vm
<1> QED BY <1>1, <1>2, <1>3 DEF VmLoad, Vm, Pushed

\* A constant is pushed.
LEMMA VmLoadsConst ==
    ASSUME NEW v, code[pc] = Op("LOAD_CONST", v), VmStep
    PROVE  /\ code' = code /\ pc' = pc + 1 /\ operands' = Append(operands, v)
           /\ Vm' = Vm
<1>1. Opcode = "LOAD_CONST" /\ Arg = v
    BY DEF Opcode, Arg, Op
<1>2. VmLoad
    BY <1>1 DEF VmStep, VmLabel, VmStore, VmBinary, VmPrint, VmCreateFile, VmWriteFile, VmJump
<1> QED BY <1>1, <1>2 DEF VmLoad, Vm, Pushed

\* The topmost operand is stored.
LEMMA VmStores ==
    ASSUME NEW r, code[pc] = Op("STORE", r), VmStep
    PROVE  /\ code' = code /\ pc' = pc + 1 /\ operands' = Front(operands)
           /\ Vm' = Kept(Vm, r, Last(operands))
<1>1. Opcode = "STORE" /\ Arg = r
    BY DEF Opcode, Arg, Op
<1>2. VmStore
    BY <1>1 DEF VmStep, VmLabel, VmLoad, VmBinary, VmPrint, VmCreateFile, VmWriteFile, VmJump
<1> QED BY <1>1, <1>2 DEF VmStore, Vm, Kept, TopValue

\* The topmost operand is printed.
LEMMA VmPrints ==
    ASSUME code[pc] = Op("PRINT", None), VmStep
    PROVE  /\ code' = code /\ pc' = pc + 1 /\ operands' = Front(operands)
           /\ Vm' = [Vm EXCEPT !.printed = Append(@, Last(operands))]
<1>1. Opcode = "PRINT"
    BY DEF Opcode, Op
<1>2. VmPrint
    BY <1>1 DEF VmStep, VmLabel, VmLoad, VmBinary, VmStore, VmCreateFile, VmWriteFile, VmJump
<1>3. PICK text : text = Append(printed, Last(operands))
    OBVIOUS
<1>4. /\ code' = code /\ pc' = pc + 1 /\ operands' = Front(operands) /\ printed' = text
      /\ UNCHANGED <<slots, vmFiles, vmFailed>>
    BY <1>2, <1>3 DEF VmPrint, TopValue
<1>5. Vm' = [Vm EXCEPT !.printed = text]
    BY <1>4 DEF Vm
<1> QED BY <1>3, <1>4, <1>5 DEF Vm

\* The topmost operand is the name of a file, which is emptied.
LEMMA VmCreates ==
    ASSUME code[pc] = Op("FILE_CREATE", None), VmStep
    PROVE  /\ code' = code /\ pc' = pc + 1 /\ operands' = Front(operands)
           /\ Vm' = [Vm EXCEPT !.files = Stored(@, Last(operands)[2], <<>>)]
<1>1. Opcode = "FILE_CREATE"
    BY DEF Opcode, Op
<1>2. VmCreateFile
    BY <1>1 DEF VmStep, VmLabel, VmLoad, VmBinary, VmStore, VmPrint, VmWriteFile, VmJump
<1> QED BY <1>2 DEF VmCreateFile, Vm, TopValue

\* The topmost operand is added to the file that the one below it names.
LEMMA VmWrites ==
    ASSUME code[pc] = Op("FILE_WRITE", None), VmStep
    PROVE  LET name == Last(Front(operands))[2]
               held == IF name \in DOMAIN vmFiles THEN vmFiles[name] ELSE <<>>
           IN  /\ code' = code /\ pc' = pc + 1 /\ operands' = Front(Front(operands))
               /\ Vm' = [Vm EXCEPT !.files = Stored(@, name, Append(held, Last(operands)))]
<1>1. Opcode = "FILE_WRITE"
    BY DEF Opcode, Op
<1>2. VmWriteFile
    BY <1>1 DEF VmStep, VmLabel, VmLoad, VmBinary, VmStore, VmPrint, VmCreateFile, VmJump
<1> QED BY <1>2 DEF VmWriteFile, Vm, TopValue

\* An operation takes two operands away and pushes its result, or fails.
LEMMA VmCalculates ==
    ASSUME NEW op \in {"add", "sub", "mul", "eq"}, code[pc] = Op(op, None), VmStep,
           vmFailed \in BOOLEAN
    PROVE  LET b == Last(operands)
               a == Last(Front(operands))
           IN  /\ code' = code /\ pc' = pc + 1
               /\ IF TypeError(op, a, b)
                  THEN Vm' = [Vm EXCEPT !.failed = TRUE] /\ vmFailed'
                  ELSE Vm' = Vm /\ operands' = Append(Front(Front(operands)), Result(op, a, b))
<1>1. Opcode = op
    BY DEF Opcode, Op
<1>2. VmBinary
    BY <1>1 DEF VmStep, VmLabel, VmLoad, VmStore, VmPrint, VmCreateFile, VmWriteFile, VmJump
<1>3. ~vmFailed
    BY <1>2 DEF VmBinary, Running
<1>4. PICK b : b = Last(operands)
    OBVIOUS
<1>5. PICK a : a = Last(Front(operands))
    OBVIOUS
<1>6. code' = code /\ pc' = pc + 1 /\ UNCHANGED <<slots, printed, vmFiles>>
    BY <1>2 DEF VmBinary
<1>7. /\ vmFailed' = (TypeError(op, a, b))
      /\ ~TypeError(op, a, b) => operands' = Append(Front(Front(operands)), Result(op, a, b))
    BY <1>1, <1>2, <1>4, <1>5 DEF VmBinary, TopValue, Result
<1>8. CASE TypeError(op, a, b)
    <2>1. vmFailed' = TRUE
        BY <1>7, <1>8
    <2>2. vmFailed'
        BY <2>1, Zenon
    <2>3. PICK yes : yes = TRUE
        OBVIOUS
    <2>4. Vm' = [Vm EXCEPT !.failed = yes]
        <3>1. vmFailed' = yes
            BY <2>1, <2>3, Zenon
        <3> QED BY <1>6, <3>1 DEF Vm
    <2> QED BY <1>4, <1>5, <1>6, <1>8, <2>2, <2>3, <2>4
<1>9. CASE ~TypeError(op, a, b)
    <2>1. vmFailed' = FALSE
        BY <1>7, <1>9
    <2>2. vmFailed = FALSE
        BY <1>3
    <2>3. Vm' = Vm
        BY <1>6, <2>1, <2>2 DEF Vm
    <2> QED BY <1>4, <1>5, <1>6, <1>7, <1>9, <2>3
<1> QED BY <1>8, <1>9

\* A label is passed.
LEMMA VmLabels ==
    ASSUME NEW name, code[pc] = Op("LABEL", name), VmStep
    PROVE  code' = code /\ pc' = pc + 1 /\ operands' = operands /\ Vm' = Vm
<1>1. Opcode = "LABEL"
    BY DEF Opcode, Op
<1>2. VmLabel
    BY <1>1 DEF VmStep, VmStore, VmLoad, VmBinary, VmPrint, VmCreateFile, VmWriteFile, VmJump
<1> QED BY <1>2 DEF VmLabel, Vm

\* A jump goes to its label.
LEMMA VmJumps ==
    ASSUME NEW name, code[pc] = Op("JMP", name), VmStep
    PROVE  code' = code /\ pc' = Label(name) /\ operands' = operands /\ Vm' = Vm
<1>1. Opcode = "JMP" /\ Arg = name
    BY DEF Opcode, Arg, Op
<1>2. VmJump
    BY <1>1 DEF VmStep, VmStore, VmLoad, VmBinary, VmPrint, VmCreateFile, VmWriteFile, VmLabel
<1> QED BY <1>1, <1>2 DEF VmJump, Vm

\* A conditional one does if the topmost operand is not 0.
LEMMA VmTests ==
    ASSUME NEW name, code[pc] = Op("JMP_IF", name), VmStep
    PROVE  /\ code' = code /\ operands' = Front(operands) /\ Vm' = Vm
           /\ pc' = IF Last(operands) # Num(0) THEN Label(name) ELSE pc + 1
<1>1. Opcode = "JMP_IF" /\ Arg = name
    BY DEF Opcode, Arg, Op
<1>2. VmJump
    BY <1>1 DEF VmStep, VmStore, VmLoad, VmBinary, VmPrint, VmCreateFile, VmWriteFile, VmLabel
<1> QED BY <1>1, <1>2 DEF VmJump, Vm, TopValue

\* The first operand that the code of an instruction pushes, and the stack after m opcodes.
First(i, st) ==
    CASE i.op = "const" -> i.args[1]
      [] i.op = "store" -> Held(i.args[2], st)
      [] OTHER -> Held(i.args[1], st)
Stack(i, st, m) ==
    CASE m = 0 -> <<>>
      [] m = 1 -> <<First(i, st)>>
      [] m = 2 -> <<Held(i.args[1], st), Held(i.args[2], st)>>
      [] OTHER -> <<Result(i.op, Held(i.args[1], st), Held(i.args[2], st))>>

\* m opcodes of an instruction are behind: an operation that fails has not pushed its result.
Midway(i, st, m, ops) == ops = Stack(i, st, m) /\ (m = 3 => ~Do(i, st).failed)

\* The next one: another follows, or the instruction is done, or it has failed.
Ahead(i, st, m) ==
    /\ code' = code
    /\ \/ /\ m + 1 < Len(LowerInstr(i)) /\ pc' = pc + 1 /\ Vm' = st
          /\ operands' = Stack(i, st, m + 1) /\ (m + 1 = 3 => ~Do(i, st).failed)
       \/ /\ m + 1 = Len(LowerInstr(i)) /\ pc' = pc + 1 /\ Vm' = Do(i, st)
          /\ operands' = <<>>
       \/ Vm' = Do(i, st) /\ vmFailed'

\* A step of the code of a constant.
LEMMA ConstStep ==
    ASSUME NEW v, NEW r, NEW i, i = Instr("const", <<v>>, r), NEW st, ~st.failed, Vm = st,
           NEW m \in Nat, m < Len(LowerInstr(i)), code[pc] = LowerInstr(i)[m + 1],
           Midway(i, st, m, operands), VmStep
    PROVE  Ahead(i, st, m)
<1>1. i.op = "const" /\ i.args[1] = v /\ i.result = r
    BY DEF Instr
<1>2. LowerInstr(i) = <<Op("LOAD_CONST", v), Op("STORE", r)>>
    BY <1>1 DEF LowerInstr
<1>3. /\ Len(LowerInstr(i)) = 2 /\ LowerInstr(i)[1] = Op("LOAD_CONST", v)
      /\ LowerInstr(i)[2] = Op("STORE", r)
    BY <1>2
<1>4. Stack(i, st, 0) = <<>> /\ Stack(i, st, 1) = <<v>>
    BY <1>1 DEF Stack, First
<1>5. Do(i, st) = Kept(st, r, v)
    BY <1>1 DEF Do
<1>6. CASE m = 0
    <2>1. code[pc] = Op("LOAD_CONST", v) /\ operands = <<>>
        BY <1>3, <1>4, <1>6 DEF Midway
    <2>2. code' = code /\ pc' = pc + 1 /\ operands' = Append(operands, v) /\ Vm' = Vm
        BY <2>1, VmLoadsConst
    <2>3. operands' = <<v>>
        BY <2>1, <2>2, Short1
    <2> QED BY <1>3, <1>4, <1>6, <2>2, <2>3 DEF Ahead
<1>7. CASE m = 1
    <2>1. code[pc] = Op("STORE", r) /\ operands = <<v>>
        BY <1>3, <1>4, <1>7 DEF Midway
    <2>2. /\ code' = code /\ pc' = pc + 1 /\ operands' = Front(operands)
          /\ Vm' = Kept(Vm, r, Last(operands))
        BY <2>1, VmStores
    <2>3. Vm' = Do(i, st) /\ operands' = <<>>
        BY <1>5, <2>1, <2>2, Short1
    <2> QED BY <1>3, <1>7, <2>2, <2>3 DEF Ahead
<1> QED BY <1>3, <1>6, <1>7

\* One of the code of a store.
LEMMA StoreStep ==
    ASSUME NEW l, NEW r, NEW i, i = Instr("store", <<l, r>>, None), NEW st, ~st.failed, Vm = st,
           NEW m \in Nat, m < Len(LowerInstr(i)), code[pc] = LowerInstr(i)[m + 1],
           Midway(i, st, m, operands), VmStep
    PROVE  Ahead(i, st, m)
<1>1. i.op = "store" /\ i.args[1] = l /\ i.args[2] = r
    BY DEF Instr
<1>2. LowerInstr(i) = <<Op("LOAD", r), Op("STORE", l)>>
    BY <1>1 DEF LowerInstr
<1>3. /\ Len(LowerInstr(i)) = 2 /\ LowerInstr(i)[1] = Op("LOAD", r)
      /\ LowerInstr(i)[2] = Op("STORE", l)
    BY <1>2
<1>4. Stack(i, st, 0) = <<>> /\ Stack(i, st, 1) = <<Held(r, st)>>
    BY <1>1 DEF Stack, First
<1>5. Do(i, st) = Kept(st, l, Held(r, st))
    BY <1>1 DEF Do
<1>6. CASE m = 0
    <2>1. code[pc] = Op("LOAD", r) /\ operands = <<>>
        BY <1>3, <1>4, <1>6 DEF Midway
    <2>2. /\ code' = code /\ pc' = pc + 1 /\ operands' = Append(operands, Held(r, Vm))
          /\ Vm' = Vm
        BY <2>1, VmLoads
    <2>3. operands' = <<Held(r, st)>>
        BY <2>1, <2>2, Short1
    <2> QED BY <1>3, <1>4, <1>6, <2>2, <2>3 DEF Ahead
<1>7. CASE m = 1
    <2>1. code[pc] = Op("STORE", l) /\ operands = <<Held(r, st)>>
        BY <1>3, <1>4, <1>7 DEF Midway
    <2>2. /\ code' = code /\ pc' = pc + 1 /\ operands' = Front(operands)
          /\ Vm' = Kept(Vm, l, Last(operands))
        BY <2>1, VmStores
    <2>3. Vm' = Do(i, st) /\ operands' = <<>>
        BY <1>5, <2>1, <2>2, Short1
    <2> QED BY <1>3, <1>7, <2>2, <2>3 DEF Ahead
<1> QED BY <1>3, <1>6, <1>7

\* One of the code of a print.
LEMMA PrintStep ==
    ASSUME NEW r, NEW i, i = Instr("print", <<r>>, None), NEW st, ~st.failed, Vm = st,
           NEW m \in Nat, m < Len(LowerInstr(i)), code[pc] = LowerInstr(i)[m + 1],
           Midway(i, st, m, operands), VmStep
    PROVE  Ahead(i, st, m)
<1>1. i.op = "print" /\ i.args[1] = r
    BY DEF Instr
<1>2. LowerInstr(i) = <<Op("LOAD", r), Op("PRINT", None)>>
    BY <1>1 DEF LowerInstr
<1>3. /\ Len(LowerInstr(i)) = 2 /\ LowerInstr(i)[1] = Op("LOAD", r)
      /\ LowerInstr(i)[2] = Op("PRINT", None)
    BY <1>2
<1>4. Stack(i, st, 0) = <<>> /\ Stack(i, st, 1) = <<Held(r, st)>>
    BY <1>1 DEF Stack, First
<1>5. PICK v : v = Held(r, st)
    OBVIOUS
<1>6. Do(i, st) = [st EXCEPT !.printed = Append(@, v)]
    BY <1>1, <1>5 DEF Do
<1>7. CASE m = 0
    <2>1. code[pc] = Op("LOAD", r) /\ operands = <<>>
        BY <1>3, <1>4, <1>7 DEF Midway
    <2>2. /\ code' = code /\ pc' = pc + 1 /\ operands' = Append(operands, Held(r, Vm))
          /\ Vm' = Vm
        BY <2>1, VmLoads
    <2>3. operands' = <<Held(r, st)>>
        BY <2>1, <2>2, Short1
    <2> QED BY <1>3, <1>4, <1>7, <2>2, <2>3 DEF Ahead
<1>8. CASE m = 1
    <2>1. code[pc] = Op("PRINT", None) /\ operands = <<v>>
        BY <1>3, <1>4, <1>5, <1>8 DEF Midway
    <2>2. Last(operands) = v /\ Front(operands) = <<>>
        BY <2>1, Short1
    <2>3. /\ code' = code /\ pc' = pc + 1 /\ operands' = Front(operands)
          /\ Vm' = [Vm EXCEPT !.printed = Append(@, Last(operands))]
        BY <2>1, VmPrints
    <2>4. Vm' = Do(i, st) /\ operands' = <<>>
        BY <1>6, <2>2, <2>3
    <2> QED BY <1>3, <1>8, <2>3, <2>4 DEF Ahead
<1> QED BY <1>3, <1>7, <1>8

\* One of the code that makes a file.
LEMMA CreateStep ==
    ASSUME NEW r, NEW i, i = Instr("file.create", <<r>>, None), NEW st, ~st.failed, Vm = st,
           NEW m \in Nat, m < Len(LowerInstr(i)), code[pc] = LowerInstr(i)[m + 1],
           Midway(i, st, m, operands), VmStep
    PROVE  Ahead(i, st, m)
<1>1. i.op = "file.create" /\ i.args = <<r>> /\ i.args[1] = r
    BY DEF Instr
<1>2. LowerInstr(i) = <<Op("LOAD", r), Op("FILE_CREATE", None)>>
    <2>1. Loads(<<r>>) = <<Op("LOAD", r)>>
        BY DEF Loads
    <2>2. LowerInstr(i) = Append(Loads(<<r>>), Op("FILE_CREATE", None))
        BY <1>1 DEF LowerInstr
    <2> QED BY <2>1, <2>2, Short2
<1>3. /\ Len(LowerInstr(i)) = 2 /\ LowerInstr(i)[1] = Op("LOAD", r)
      /\ LowerInstr(i)[2] = Op("FILE_CREATE", None)
    BY <1>2
<1>4. Stack(i, st, 0) = <<>> /\ Stack(i, st, 1) = <<Held(r, st)>>
    BY <1>1 DEF Stack, First
<1>5. PICK v : v = Held(r, st)
    OBVIOUS
<1>6. Do(i, st) = [st EXCEPT !.files = Stored(@, v[2], <<>>)]
    BY <1>1, <1>5 DEF Do
<1>7. CASE m = 0
    <2>1. code[pc] = Op("LOAD", r) /\ operands = <<>>
        BY <1>3, <1>4, <1>7 DEF Midway
    <2>2. /\ code' = code /\ pc' = pc + 1 /\ operands' = Append(operands, Held(r, Vm))
          /\ Vm' = Vm
        BY <2>1, VmLoads
    <2>3. operands' = <<Held(r, st)>>
        BY <2>1, <2>2, Short1
    <2> QED BY <1>3, <1>4, <1>7, <2>2, <2>3 DEF Ahead
<1>8. CASE m = 1
    <2>1. code[pc] = Op("FILE_CREATE", None) /\ operands = <<v>>
        BY <1>3, <1>4, <1>5, <1>8 DEF Midway
    <2>2. Last(operands) = v /\ Front(operands) = <<>>
        BY <2>1, Short1
    <2>3. /\ code' = code /\ pc' = pc + 1 /\ operands' = Front(operands)
          /\ Vm' = [Vm EXCEPT !.files = Stored(@, Last(operands)[2], <<>>)]
        BY <2>1, VmCreates
    <2>4. Vm' = Do(i, st) /\ operands' = <<>>
        BY <1>6, <2>2, <2>3
    <2> QED BY <1>3, <1>8, <2>3, <2>4 DEF Ahead
<1> QED BY <1>3, <1>7, <1>8

\* Two operands are pushed one after the other.
LEMMA LoadsTwo ==
    ASSUME NEW a, NEW b
    PROVE  Loads(<<a, b>>) = <<Op("LOAD", a), Op("LOAD", b)>>
<1>1. PICK x : x = Op("LOAD", a)
    OBVIOUS
<1>2. PICK y : y = Op("LOAD", b)
    OBVIOUS
<1>3. PICK args : args = <<a, b>>
    OBVIOUS
<1>4. DOMAIN args = 1 .. 2 /\ args[1] = a /\ args[2] = b
    BY <1>3
<1>5. Loads(args) = [k \in 1 .. 2 |-> IF k = 1 THEN x ELSE y]
    BY <1>1, <1>2, <1>4 DEF Loads
<1>6. [k \in 1 .. 2 |-> IF k = 1 THEN x ELSE y] = <<x, y>>
    OBVIOUS
<1> QED BY <1>1, <1>2, <1>3, <1>5, <1>6

\* Three in a row, and four.
LEMMA ThirdIs ==
    ASSUME NEW x, NEW y, NEW z
    PROVE  Append(<<x, y>>, z) = <<x, y, z>>
<1>1. PICK S : S = {x, y, z}
    OBVIOUS
<1>2. PICK a : a = <<x, y>>
    OBVIOUS
<1>3. Len(a) = 2 /\ a[1] = x /\ a[2] = y
    BY <1>2
<1>4. a \in Seq(S) /\ z \in S
    BY <1>1, <1>2
<1>5. PICK d : d = Append(a, z)
    OBVIOUS
<1>6. d \in Seq(S) /\ Len(d) = 3 /\ d[1] = x /\ d[2] = y /\ d[3] = z
    <2>1. /\ Append(a, z) \in Seq(S) /\ Append(a, z) = a \o <<z>>
          /\ <<z>> \in Seq(S) /\ Len(<<z>>) = 1 /\ <<z>>[1] = z
        BY <1>4, AppendIs
    <2>2. PICK b \in Seq(S) : b = <<z>>
        BY <2>1
    <2>3. /\ Len(a \o b) = Len(a) + Len(b)
          /\ \A i \in 1 .. Len(a) : (a \o b)[i] = a[i]
          /\ \A i \in 1 .. Len(b) : (a \o b)[Len(a) + i] = b[i]
        BY <1>4, <2>2, ConcatIs
    <2>4. d = a \o b /\ Len(b) = 1 /\ b[1] = z /\ d \in Seq(S)
        BY <1>5, <2>1, <2>2
    <2>5. 1 \in 1 .. 2 /\ 2 \in 1 .. 2 /\ 1 \in 1 .. 1
        OBVIOUS
    <2> QED BY <1>3, <2>3, <2>4, <2>5
<1>7. d = <<x, y, z>>
    BY <1>6
<1> QED BY <1>2, <1>5, <1>7

\* Two sequences of two, one after the other.
LEMMA FourIs ==
    ASSUME NEW w, NEW x, NEW y, NEW z
    PROVE  <<w, x>> \o <<y, z>> = <<w, x, y, z>>
<1>1. PICK S : S = {w, x, y, z}
    OBVIOUS
<1>2. PICK a : a = <<w, x>>
    OBVIOUS
<1>3. PICK b : b = <<y, z>>
    OBVIOUS
<1>4. Len(a) = 2 /\ a[1] = w /\ a[2] = x
    BY <1>2
<1>5. Len(b) = 2 /\ b[1] = y /\ b[2] = z
    BY <1>3
<1>6. w \in S /\ x \in S /\ y \in S /\ z \in S
    BY <1>1
<1>7. a \in Seq(S) /\ b \in Seq(S)
    BY <1>2, <1>3, <1>6
<1>8. /\ a \o b \in Seq(S) /\ Len(a \o b) = Len(a) + Len(b)
      /\ \A i \in 1 .. Len(a) : (a \o b)[i] = a[i]
      /\ \A i \in 1 .. Len(b) : (a \o b)[Len(a) + i] = b[i]
    BY <1>7, ConcatIs
<1>9. PICK d \in Seq(S) : d = a \o b
    BY <1>8
<1>10. Len(d) = 4 /\ d[1] = w /\ d[2] = x /\ d[3] = y /\ d[4] = z
    <2>1. 1 \in 1 .. 2 /\ 2 \in 1 .. 2
        OBVIOUS
    <2> QED BY <1>4, <1>5, <1>8, <1>9, <2>1
<1>11. d = <<w, x, y, z>>
    BY <1>10
<1> QED BY <1>2, <1>3, <1>9, <1>11

\* A step of the code that writes a file.
LEMMA WriteStep ==
    ASSUME NEW a, NEW b, NEW i, i = Instr("file.write", <<a, b>>, None), NEW st, ~st.failed,
           Vm = st, NEW m \in Nat, m < Len(LowerInstr(i)), code[pc] = LowerInstr(i)[m + 1],
           Midway(i, st, m, operands), VmStep
    PROVE  Ahead(i, st, m)
<1>1. i.op = "file.write" /\ i.args = <<a, b>> /\ i.args[1] = a /\ i.args[2] = b
    BY DEF Instr
<1>2. PICK w : w = Op("FILE_WRITE", None)
    OBVIOUS
<1>3. LowerInstr(i) = <<Op("LOAD", a), Op("LOAD", b), w>>
    <2>1. LowerInstr(i) = Append(Loads(<<a, b>>), w)
        BY <1>1, <1>2 DEF LowerInstr
    <2>2. PICK x : x = Op("LOAD", a)
        OBVIOUS
    <2>3. PICK y : y = Op("LOAD", b)
        OBVIOUS
    <2>4. Append(<<x, y>>, w) = <<x, y, w>>
        BY ThirdIs, Zenon
    <2> QED BY <2>1, <2>2, <2>3, <2>4, LoadsTwo
<1>4. /\ Len(LowerInstr(i)) = 3 /\ LowerInstr(i)[1] = Op("LOAD", a)
      /\ LowerInstr(i)[2] = Op("LOAD", b) /\ LowerInstr(i)[3] = w
    BY <1>3
<1>5. PICK u : u = Held(a, st)
    OBVIOUS
<1>6. PICK v : v = Held(b, st)
    OBVIOUS
<1>7. Stack(i, st, 0) = <<>> /\ Stack(i, st, 1) = <<u>> /\ Stack(i, st, 2) = <<u, v>>
    BY <1>1, <1>5, <1>6 DEF Stack, First
<1>8. PICK held : held = IF u[2] \in DOMAIN st.files THEN st.files[u[2]] ELSE <<>>
    OBVIOUS
<1>9. Do(i, st) = [st EXCEPT !.files = Stored(@, u[2], Append(held, v))]
    BY <1>1, <1>5, <1>6, <1>8 DEF Do
<1>10. CASE m = 0
    <2>1. code[pc] = Op("LOAD", a) /\ operands = <<>>
        BY <1>4, <1>7, <1>10 DEF Midway
    <2>2. /\ code' = code /\ pc' = pc + 1 /\ operands' = Append(operands, Held(a, Vm))
          /\ Vm' = Vm
        BY <2>1, VmLoads
    <2>3. operands' = <<u>>
        BY <1>5, <2>1, <2>2, Short1
    <2> QED BY <1>4, <1>7, <1>10, <2>2, <2>3 DEF Ahead
<1>11. CASE m = 1
    <2>1. code[pc] = Op("LOAD", b) /\ operands = <<u>>
        BY <1>4, <1>7, <1>11 DEF Midway
    <2>2. /\ code' = code /\ pc' = pc + 1 /\ operands' = Append(operands, Held(b, Vm))
          /\ Vm' = Vm
        BY <2>1, VmLoads
    <2>3. operands' = <<u, v>>
        BY <1>6, <2>1, <2>2, Short2
    <2> QED BY <1>4, <1>7, <1>11, <2>2, <2>3 DEF Ahead
<1>12. CASE m = 2
    <2>1. code[pc] = Op("FILE_WRITE", None) /\ operands = <<u, v>>
        BY <1>2, <1>4, <1>7, <1>12 DEF Midway
    <2>2. Last(operands) = v /\ Front(operands) = <<u>>
        BY <2>1, Short2
    <2>3. Last(<<u>>) = u /\ Front(<<u>>) = <<>>
        BY Short1
    <2>4. vmFiles = st.files
        BY DEF Vm
    <2>5. held = IF u[2] \in DOMAIN vmFiles THEN vmFiles[u[2]] ELSE <<>>
        BY <1>8, <2>4
    <2>6. /\ code' = code /\ pc' = pc + 1 /\ operands' = Front(Front(operands))
          /\ Vm' = [Vm EXCEPT !.files = Stored(@, u[2], Append(held, v))]
        BY <2>1, <2>2, <2>3, <2>5, VmWrites
    <2>7. Vm' = Do(i, st) /\ operands' = <<>>
        BY <1>9, <2>2, <2>3, <2>6
    <2> QED BY <1>4, <1>12, <2>6, <2>7 DEF Ahead
<1> QED BY <1>4, <1>10, <1>11, <1>12

\* One of the code of an operation.
LEMMA OperationStep ==
    ASSUME NEW op \in {"add", "sub", "mul", "eq"}, NEW a, NEW b, NEW r, NEW i,
           i = Instr(op, <<a, b>>, r), NEW st, ~st.failed, st.failed \in BOOLEAN,
           Vm = st, NEW m \in Nat, m < Len(LowerInstr(i)), code[pc] = LowerInstr(i)[m + 1],
           Midway(i, st, m, operands), VmStep
    PROVE  Ahead(i, st, m)
<1>1. i.op = op /\ i.args = <<a, b>> /\ i.args[1] = a /\ i.args[2] = b /\ i.result = r
    BY DEF Instr
<1>2. PICK x : x = Op(op, None)
    OBVIOUS
<1>3. PICK y : y = Op("STORE", r)
    OBVIOUS
<1>4. LowerInstr(i) = <<Op("LOAD", a), Op("LOAD", b), x, y>>
    <2>1. LowerInstr(i) = Loads(<<a, b>>) \o <<x, y>>
        BY <1>1, <1>2, <1>3 DEF LowerInstr
    <2>2. PICK la : la = Op("LOAD", a)
        OBVIOUS
    <2>3. PICK lb : lb = Op("LOAD", b)
        OBVIOUS
    <2>4. <<la, lb>> \o <<x, y>> = <<la, lb, x, y>>
        BY FourIs, Zenon
    <2> QED BY <2>1, <2>2, <2>3, <2>4, LoadsTwo
<1>5. /\ Len(LowerInstr(i)) = 4 /\ LowerInstr(i)[1] = Op("LOAD", a)
      /\ LowerInstr(i)[2] = Op("LOAD", b) /\ LowerInstr(i)[3] = x /\ LowerInstr(i)[4] = y
    BY <1>4
<1>6. PICK u : u = Held(a, st)
    OBVIOUS
<1>7. PICK v : v = Held(b, st)
    OBVIOUS
<1>8. PICK w : w = Result(op, u, v)
    OBVIOUS
<1>9. /\ Stack(i, st, 0) = <<>> /\ Stack(i, st, 1) = <<u>> /\ Stack(i, st, 2) = <<u, v>>
      /\ Stack(i, st, 3) = <<w>>
    BY <1>1, <1>6, <1>7, <1>8 DEF Stack, First
<1>10. Do(i, st) = IF TypeError(op, u, v) THEN [st EXCEPT !.failed = TRUE]
                   ELSE Kept(st, r, w)
    BY <1>1, <1>6, <1>7, <1>8 DEF Do
<1>11. vmFailed = st.failed
    BY DEF Vm
<1>12. Kept(st, r, w).failed = st.failed
    BY <1>11 DEF Kept, Vm
<1>13. CASE m = 0
    <2>1. code[pc] = Op("LOAD", a) /\ operands = <<>>
        BY <1>5, <1>9, <1>13 DEF Midway
    <2>2. /\ code' = code /\ pc' = pc + 1 /\ operands' = Append(operands, Held(a, Vm))
          /\ Vm' = Vm
        BY <2>1, VmLoads
    <2>3. operands' = <<u>>
        BY <1>6, <2>1, <2>2, Short1
    <2> QED BY <1>5, <1>9, <1>13, <2>2, <2>3 DEF Ahead
<1>14. CASE m = 1
    <2>1. code[pc] = Op("LOAD", b) /\ operands = <<u>>
        BY <1>5, <1>9, <1>14 DEF Midway
    <2>2. /\ code' = code /\ pc' = pc + 1 /\ operands' = Append(operands, Held(b, Vm))
          /\ Vm' = Vm
        BY <2>1, VmLoads
    <2>3. operands' = <<u, v>>
        BY <1>7, <2>1, <2>2, Short2
    <2> QED BY <1>5, <1>9, <1>14, <2>2, <2>3 DEF Ahead
<1>15. CASE m = 2
    <2>1. code[pc] = Op(op, None) /\ operands = <<u, v>>
        BY <1>2, <1>5, <1>9, <1>15 DEF Midway
    <2>2. Last(operands) = v /\ Front(operands) = <<u>>
        BY <2>1, Short2
    <2>3. Last(<<u>>) = u /\ Front(<<u>>) = <<>>
        BY Short1
    <2>4. /\ code' = code /\ pc' = pc + 1
          /\ IF TypeError(op, u, v)
             THEN Vm' = [Vm EXCEPT !.failed = TRUE] /\ vmFailed'
             ELSE Vm' = Vm /\ operands' = Append(<<>>, w)
        BY <1>8, <1>11, <2>1, <2>2, <2>3, VmCalculates
    <2>5. CASE TypeError(op, u, v)
        BY <1>10, <2>4, <2>5 DEF Ahead
    <2>6. CASE ~(TypeError(op, u, v))
        <3>1. operands' = <<w>> /\ Vm' = st
            BY <2>4, <2>6, Short1
        <3>2. ~Do(i, st).failed
            BY <1>10, <1>12, <2>6
        <3> QED BY <1>5, <1>9, <1>15, <2>4, <3>1, <3>2 DEF Ahead
    <2> QED BY <2>5, <2>6
<1>16. CASE m = 3
    <2>1. code[pc] = Op("STORE", r) /\ operands = <<w>> /\ ~Do(i, st).failed
        BY <1>3, <1>5, <1>9, <1>16 DEF Midway
    <2>2. ~(TypeError(op, u, v))
        <3>1. ASSUME TypeError(op, u, v) PROVE FALSE
            <4>1. Do(i, st) = [st EXCEPT !.failed = TRUE]
                BY <1>10, <3>1
            <4>2. Do(i, st).failed
                BY <4>1 DEF Vm
            <4> QED BY <2>1, <4>2
        <3> QED BY <3>1
    <2>3. /\ code' = code /\ pc' = pc + 1 /\ operands' = Front(operands)
          /\ Vm' = Kept(Vm, r, Last(operands))
        BY <2>1, VmStores
    <2>4. Vm' = Do(i, st) /\ operands' = <<>>
        BY <1>10, <2>1, <2>2, <2>3, Short1
    <2> QED BY <1>5, <1>16, <2>3, <2>4 DEF Ahead
<1> QED BY <1>5, <1>13, <1>14, <1>15, <1>16

\* A step of the code of any instruction.
LEMMA MicroStep ==
    ASSUME NEW i \in Instruction, NEW st \in Machine, ~st.failed, Vm = st,
           NEW m \in Nat, m < Len(LowerInstr(i)), code[pc] = LowerInstr(i)[m + 1],
           Midway(i, st, m, operands), VmStep
    PROVE  Ahead(i, st, m)
<1>1. st.failed \in BOOLEAN
    BY DEF Machine
<1> QED BY <1>1, InstructionIs, ConstStep, StoreStep, PrintStep, CreateStep, WriteStep,
           OperationStep

\* Opcodes with their arguments, but for labels.
Argument == Value \cup Location \cup {None} \cup {"entry", "if.then", "if.cont"}
Plain ==
    {"LOAD", "LOAD_CONST", "STORE", "add", "sub", "mul", "eq", "PRINT", "FILE_CREATE",
     "FILE_WRITE", "JMP", "JMP_IF"} \X Argument

\* An instruction becomes some of them.
LEMMA LoweredIs ==
    ASSUME NEW i \in Instruction
    PROVE  LowerInstr(i) \in Seq(Plain) /\ Len(LowerInstr(i)) \in Nat \ {0}
<1>1. /\ \A r \in Register : Op("LOAD", r) \in Plain
      /\ \A l \in Location : Op("STORE", l) \in Plain
      /\ \A v \in Value : Op("LOAD_CONST", v) \in Plain
      /\ \A op \in {"add", "sub", "mul", "eq"} : Op(op, None) \in Plain
      /\ Op("PRINT", None) \in Plain /\ Op("FILE_CREATE", None) \in Plain
      /\ Op("FILE_WRITE", None) \in Plain
    BY DEF Op, Plain, Argument, Location
<1>2. Register \subseteq Location
    BY DEF Location
<1>3. ASSUME NEW v \in Value, NEW r \in Register, i = Instr("const", <<v>>, r)
      PROVE  LowerInstr(i) \in Seq(Plain) /\ Len(LowerInstr(i)) \in Nat \ {0}
    <2>1. i.op = "const" /\ i.args[1] = v /\ i.result = r
        BY <1>3 DEF Instr
    <2>2. LowerInstr(i) = <<Op("LOAD_CONST", v), Op("STORE", r)>>
        BY <2>1 DEF LowerInstr
    <2> QED BY <1>1, <1>2, <2>2
<1>4. ASSUME NEW op \in {"add", "sub", "mul", "eq"}, NEW a \in Register, NEW b \in Register,
             NEW r \in Register, i = Instr(op, <<a, b>>, r)
      PROVE  LowerInstr(i) \in Seq(Plain) /\ Len(LowerInstr(i)) \in Nat \ {0}
    <2>1. i.op = op /\ i.args = <<a, b>> /\ i.result = r
        BY <1>4 DEF Instr
    <2>2. PICK x \in Plain : x = Op(op, None)
        BY <1>1
    <2>3. PICK y \in Plain : y = Op("STORE", r)
        BY <1>1, <1>2
    <2>4. PICK la \in Plain : la = Op("LOAD", a)
        BY <1>1
    <2>5. PICK lb \in Plain : lb = Op("LOAD", b)
        BY <1>1
    <2>6. LowerInstr(i) = Loads(<<a, b>>) \o <<x, y>>
        BY <2>1, <2>2, <2>3 DEF LowerInstr
    <2>7. <<la, lb>> \o <<x, y>> = <<la, lb, x, y>>
        BY FourIs, Zenon
    <2>8. LowerInstr(i) = <<la, lb, x, y>>
        BY <2>4, <2>5, <2>6, <2>7, LoadsTwo
    <2> QED BY <2>8
<1>5. ASSUME NEW l \in Location, NEW r \in Register, i = Instr("store", <<l, r>>, None)
      PROVE  LowerInstr(i) \in Seq(Plain) /\ Len(LowerInstr(i)) \in Nat \ {0}
    <2>1. i.op = "store" /\ i.args[1] = l /\ i.args[2] = r
        BY <1>5 DEF Instr
    <2>2. LowerInstr(i) = <<Op("LOAD", r), Op("STORE", l)>>
        BY <2>1 DEF LowerInstr
    <2> QED BY <1>1, <1>2, <2>2
<1>6. ASSUME NEW r \in Register, i = Instr("print", <<r>>, None)
      PROVE  LowerInstr(i) \in Seq(Plain) /\ Len(LowerInstr(i)) \in Nat \ {0}
    <2>1. i.op = "print" /\ i.args[1] = r
        BY <1>6 DEF Instr
    <2>2. LowerInstr(i) = <<Op("LOAD", r), Op("PRINT", None)>>
        BY <2>1 DEF LowerInstr
    <2> QED BY <1>1, <1>2, <2>2
<1>7. ASSUME NEW r \in Register, i = Instr("file.create", <<r>>, None)
      PROVE  LowerInstr(i) \in Seq(Plain) /\ Len(LowerInstr(i)) \in Nat \ {0}
    <2>1. i.op = "file.create" /\ i.args = <<r>>
        BY <1>7 DEF Instr
    <2>2. Loads(<<r>>) = <<Op("LOAD", r)>>
        BY DEF Loads
    <2>3. LowerInstr(i) = Append(Loads(<<r>>), Op("FILE_CREATE", None))
        BY <2>1 DEF LowerInstr
    <2>4. LowerInstr(i) = <<Op("LOAD", r), Op("FILE_CREATE", None)>>
        BY <2>2, <2>3, Short2
    <2> QED BY <1>1, <2>4
<1>8. ASSUME NEW a \in Register, NEW b \in Register, i = Instr("file.write", <<a, b>>, None)
      PROVE  LowerInstr(i) \in Seq(Plain) /\ Len(LowerInstr(i)) \in Nat \ {0}
    <2>1. i.op = "file.write" /\ i.args = <<a, b>>
        BY <1>8 DEF Instr
    <2>2. PICK w \in Plain : w = Op("FILE_WRITE", None)
        BY <1>1
    <2>3. PICK la \in Plain : la = Op("LOAD", a)
        BY <1>1
    <2>4. PICK lb \in Plain : lb = Op("LOAD", b)
        BY <1>1
    <2>5. LowerInstr(i) = Append(Loads(<<a, b>>), w)
        BY <2>1, <2>2 DEF LowerInstr
    <2>6. Append(<<la, lb>>, w) = <<la, lb, w>>
        BY ThirdIs, Zenon
    <2>7. LowerInstr(i) = <<la, lb, w>>
        BY <2>3, <2>4, <2>5, <2>6, LoadsTwo
    <2> QED BY <2>7
<1> QED BY <1>3, <1>4, <1>5, <1>6, <1>7, <1>8, InstructionIs

\* The code of instruction k starts after position F[k - 1] of the program, that of the
\* first after the label of the block.
Placed(prog, instrs, F) ==
    /\ \A k \in 0 .. Len(instrs) : F[k] \in Nat
    /\ \A k \in 1 .. Len(instrs) :
          /\ F[k] = F[k - 1] + Len(LowerInstr(instrs[k]))
          /\ \A m \in 1 .. Len(LowerInstr(instrs[k])) :
                prog[F[k - 1] + m] = LowerInstr(instrs[k])[m]

\* Where the VM is: at the label of a block, or in its instructions, at the start of which
\* the machine was st, or one of them has failed.
Performs(instrs, F, st, at, ops, vm) ==
    \/ at = F[0] /\ ops = <<>> /\ vm = st
    \/ \E k \in 0 .. Len(instrs) :
          /\ vm = Trace(instrs, st)[k]
          /\ \/ vm.failed
             \/ k = Len(instrs) /\ at = F[k] + 1 /\ ops = <<>>
             \/ /\ k < Len(instrs)
                /\ \E m \in Nat : /\ m < Len(LowerInstr(instrs[k + 1])) /\ at = F[k] + m + 1
                                  /\ Midway(instrs[k + 1], Trace(instrs, st)[k], m, ops)

\* It is at the end of the instructions.
Performed(instrs, F, st, at, ops, vm) ==
    at = F[Len(instrs)] + 1 /\ ops = <<>> /\ vm = Final(instrs, st)

\* Nothing runs once an instruction has failed.
LEMMA VmRuns ==
    ASSUME VmStep
    PROVE  ~vmFailed /\ pc \in DOMAIN code
BY DEF VmStep, VmLabel, VmLoad, VmStore, VmBinary, VmPrint, VmCreateFile, VmWriteFile, VmJump,
       Running

\* The start of an instruction, or the end of all.
LEMMA PerformsAt ==
    ASSUME NEW instrs \in Seq(Instruction), NEW st, NEW F, NEW k \in 0 .. Len(instrs),
           F[k] \in Nat
    PROVE  Performs(instrs, F, st, F[k] + 1, <<>>, Trace(instrs, st)[k])
<1>1. CASE k = Len(instrs)
    BY <1>1 DEF Performs
<1>2. CASE k # Len(instrs)
    <2>1. k < Len(instrs) /\ k + 1 \in 1 .. Len(instrs)
        BY <1>2
    <2>2. PICK i \in Instruction : i = instrs[k + 1]
        BY <2>1
    <2>3. 0 \in Nat /\ 0 < Len(LowerInstr(i)) /\ F[k] + 1 = F[k] + 0 + 1
        BY LoweredIs
    <2>4. Midway(i, Trace(instrs, st)[k], 0, <<>>)
        BY DEF Midway, Stack
    <2>5. \E m \in Nat : /\ m < Len(LowerInstr(instrs[k + 1])) /\ F[k] + 1 = F[k] + m + 1
                         /\ Midway(instrs[k + 1], Trace(instrs, st)[k], m, <<>>)
        BY <2>2, <2>3, <2>4
    <2> QED BY <2>1, <2>5 DEF Performs
<1> QED BY <1>1, <1>2

\* A step in the code of the instructions stays in it.
LEMMA PerformsStep ==
    ASSUME NEW c \in Seq(Instruction), NEW st \in Machine, NEW name, NEW F,
           Placed(code, c, F), code[F[0]] = Op("LABEL", name),
           Performs(c, F, st, pc, operands, Vm), ~Performed(c, F, st, pc, operands, Vm), VmStep
    PROVE  /\ code' = code
           /\ \E at, ops, vm :
                 /\ at = pc' /\ ops = operands' /\ vm = Vm'
                 /\ Performs(c, F, st, at, ops, vm)
<1>1. ~vmFailed /\ Vm.failed = vmFailed
    BY VmRuns DEF Vm
<1>2. PICK T : T = Trace(c, st)
    OBVIOUS
<1>3. /\ T \in [0 .. Len(c) -> Machine] /\ T[0] = st /\ Len(c) \in Nat
      /\ \A k \in 1 .. Len(c) : T[k] = Do(c[k], T[k - 1])
    BY <1>2, TraceIs
<1>4. CASE pc = F[0] /\ operands = <<>> /\ Vm = st
    <2>1. code' = code /\ pc' = pc + 1 /\ operands' = operands /\ Vm' = Vm
        BY <1>4, VmLabels
    <2>2. 0 \in 0 .. Len(c) /\ F[0] \in Nat
        BY <1>3 DEF Placed
    <2>3. Performs(c, F, st, F[0] + 1, <<>>, T[0])
        BY <1>2, <2>2, PerformsAt
    <2> QED BY <1>3, <1>4, <2>1, <2>3
<1>5. ASSUME NEW k \in 0 .. Len(c), Vm = T[k], k = Len(c) /\ pc = F[k] + 1 /\ operands = <<>>
      PROVE  FALSE
    BY <1>2, <1>5 DEF Performed, Final
<1>6. ASSUME NEW k \in 0 .. Len(c), Vm = T[k], k < Len(c), NEW m \in Nat,
             m < Len(LowerInstr(c[k + 1])), pc = F[k] + m + 1,
             Midway(c[k + 1], T[k], m, operands)
      PROVE  /\ code' = code
             /\ \E at, ops, vm :
                   /\ at = pc' /\ ops = operands' /\ vm = Vm'
                   /\ Performs(c, F, st, at, ops, vm)
    <2>1. k + 1 \in 1 .. Len(c) /\ (k + 1) - 1 = k /\ k + 1 \in 0 .. Len(c)
        BY <1>6
    <2>2. PICK i \in Instruction : i = c[k + 1]
        BY <2>1
    <2>3. PICK n \in Nat : n = Len(LowerInstr(i))
        BY LoweredIs
    <2>4. m + 1 \in 1 .. n
        BY <1>6, <2>2, <2>3
    <2>5. /\ F[k] \in Nat /\ F[k + 1] \in Nat /\ F[k + 1] = F[k] + n
          /\ code[F[k] + (m + 1)] = LowerInstr(i)[m + 1]
        BY <2>1, <2>2, <2>3, <2>4 DEF Placed
    <2>6. code[pc] = LowerInstr(i)[m + 1]
        <3>1. PICK f \in Nat : f = F[k]
            BY <2>5
        <3>2. pc = f + m + 1
            BY <1>6, <3>1
        <3>3. pc = f + (m + 1)
            BY <3>2
        <3> QED BY <2>5, <3>1, <3>3
    <2>7. PICK u \in Machine : u = T[k]
        BY <1>3
    <2>8. Vm = u /\ ~u.failed /\ Midway(i, u, m, operands) /\ m < Len(LowerInstr(i))
        BY <1>1, <1>6, <2>2, <2>7
    <2>9. Ahead(i, u, m)
        BY <2>6, <2>8, MicroStep
    <2>10. T[k + 1] = Do(i, u)
        BY <1>3, <2>1, <2>2, <2>7
    <2>11. CASE /\ m + 1 < n /\ pc' = pc + 1 /\ Vm' = u
                /\ operands' = Stack(i, u, m + 1) /\ (m + 1 = 3 => ~Do(i, u).failed)
        <3>1. PICK ops : ops = operands'
            OBVIOUS
        <3>2. Midway(i, u, m + 1, ops) /\ m + 1 \in Nat
            BY <2>11, <3>1 DEF Midway
        <3>4. PICK f \in Nat : f = F[k]
            BY <2>5
        <3>5. pc = f + m + 1 /\ pc' = pc + 1
            BY <1>6, <2>11, <3>4
        <3>6. pc' = f + (m + 1) + 1
            BY <3>5
        <3>3. Performs(c, F, st, F[k] + (m + 1) + 1, ops, u)
            BY <1>2, <1>6, <2>2, <2>3, <2>7, <2>11, <3>2 DEF Performs
        <3> QED BY <2>9, <2>11, <3>1, <3>3, <3>4, <3>6 DEF Ahead
    <2>12. CASE m + 1 = n /\ pc' = pc + 1 /\ Vm' = Do(i, u) /\ operands' = <<>>
        <3>1. pc' = F[k + 1] + 1
            BY <1>6, <2>5, <2>12
        <3>2. Performs(c, F, st, F[k + 1] + 1, <<>>, T[k + 1])
            BY <1>2, <2>1, <2>5, PerformsAt
        <3> QED BY <2>9, <2>10, <2>12, <3>1, <3>2 DEF Ahead
    <2>13. CASE Vm' = Do(i, u) /\ vmFailed'
        <3>1. PICK vm : vm = Vm'
            OBVIOUS
        <3>2. vm = T[k + 1] /\ vm.failed
            BY <2>10, <2>13, <3>1 DEF Vm
        <3>3. \A at, ops : Performs(c, F, st, at, ops, vm)
            BY <1>2, <2>1, <3>2 DEF Performs
        <3> QED BY <2>9, <3>1, <3>3 DEF Ahead
    <2> QED BY <2>3, <2>9, <2>11, <2>12, <2>13 DEF Ahead
<1>7. CASE \E k \in 0 .. Len(c) :
              /\ Vm = T[k]
              /\ \/ Vm.failed
                 \/ k = Len(c) /\ pc = F[k] + 1 /\ operands = <<>>
                 \/ /\ k < Len(c)
                    /\ \E m \in Nat : /\ m < Len(LowerInstr(c[k + 1])) /\ pc = F[k] + m + 1
                                      /\ Midway(c[k + 1], T[k], m, operands)
    BY <1>1, <1>5, <1>6, <1>7
<1> QED BY <1>2, <1>4, <1>7 DEF Performs

\* Sequence k of seqs comes after position G[k - 1] of flat, and they are all there is.
Cut(flat, seqs, G) ==
    /\ G \in [0 .. Len(seqs) -> Nat] /\ G[0] = 0 /\ Len(flat) = G[Len(seqs)]
    /\ \A k \in 1 .. Len(seqs) :
          /\ G[k] = G[k - 1] + Len(seqs[k])
          /\ \A m \in 1 .. Len(seqs[k]) :
                G[k - 1] + m \in 1 .. Len(flat) /\ flat[G[k - 1] + m] = seqs[k][m]
    /\ \A p \in 1 .. Len(flat) : \E k \in 1 .. Len(seqs) :
          \E m \in 1 .. Len(seqs[k]) : p = G[k - 1] + m

\* Flattening puts sequences one after the other.
LEMMA FlattenCuts ==
    ASSUME NEW A, NEW seqs \in Seq(Seq(A))
    PROVE  FlattenSeq(seqs) \in Seq(A) /\ \E G : Cut(FlattenSeq(seqs), seqs, G)
<1> DEFINE n == Len(seqs)
           next == [p \in Seq(A) \X (1 .. n) |-> p[1] \o seqs[p[2]]]
           Defines(f) == f = [i \in 1 .. n |-> IF i = 1 THEN seqs[i] ELSE f[i - 1] \o seqs[i]]
<1>1. n \in Nat /\ \A i \in 1 .. n : seqs[i] \in Seq(A)
    OBVIOUS
<1>2. next \in [Seq(A) \X (1 .. n) -> Seq(A)] /\ <<>> \in Seq(A)
    <2>1. \A s \in Seq(A), i \in 1 .. n : s \o seqs[i] \in Seq(A)
        BY <1>1
    <2> QED BY <2>1
<1>3. \A s \in Seq(A), i \in 1 .. n : next[<<s, i>>] = s \o seqs[i]
    OBVIOUS
<1> HIDE DEF next, n
<1>4. PICK g \in [0 .. n -> Seq(A)] : /\ g[0] = <<>>
                                      /\ \A i \in 1 .. n : g[i] = next[<<g[i - 1], i>>]
    <2>1. HasSolution(Seq(A), <<>>, n, next)
        BY <1>1, <1>2, Recursion
    <2> QED BY <2>1 DEF HasSolution
<1>5. \A i \in 0 .. n : g[i] \in Seq(A)
    OBVIOUS
<1>6. ASSUME NEW i \in 1 .. n
      PROVE  i - 1 \in 0 .. n /\ i \in 0 .. n /\ g[i] = g[i - 1] \o seqs[i]
    <2>1. i - 1 \in 0 .. n /\ i \in 0 .. n
        BY <1>1
    <2> QED BY <1>1, <1>3, <1>4, <2>1
<1>7. FlattenSeq(seqs) = g[n]
    <2>1. CASE n = 0
        <3>1. seqs = <<>>
            BY <2>1 DEF n
        <3> QED BY <1>4, <2>1, <3>1 DEF FlattenSeq, n
    <2>2. CASE n # 0
        <3>1. PICK h : h = [i \in 1 .. n |-> g[i]]
            OBVIOUS
        <3>2. \A i \in 1 .. n : h[i] = IF i = 1 THEN seqs[i] ELSE h[i - 1] \o seqs[i]
            <4>1. ASSUME NEW i \in 1 .. n
                  PROVE  h[i] = IF i = 1 THEN seqs[i] ELSE h[i - 1] \o seqs[i]
                <5>1. h[i] = g[i - 1] \o seqs[i] /\ seqs[i] \in Seq(A)
                    BY <1>1, <1>6, <3>1
                <5>2. CASE i = 1
                    <6>1. g[i - 1] = <<>>
                        BY <1>4, <5>2
                    <6>2. <<>> \o seqs[i] = seqs[i]
                        BY <5>1
                    <6> QED BY <5>1, <5>2, <6>1, <6>2
                <5>3. CASE i # 1
                    <6>1. i - 1 \in 1 .. n
                        BY <1>1, <5>3
                    <6> QED BY <3>1, <5>1, <5>3, <6>1
                <5> QED BY <5>2, <5>3
            <4> QED BY <4>1
        <3>3. Defines(h)
            BY <3>1, <3>2
        <3>4. PICK f : f = CHOOSE k : Defines(k)
            OBVIOUS
        <3>5. Defines(f)
            BY <3>3, <3>4
        <3>6. FlattenSeq(seqs) = f[n]
            BY <2>2, <3>4 DEF FlattenSeq, n
        <3>7. \A i \in 1 .. n : f[i] = IF i = 1 THEN seqs[i] ELSE f[i - 1] \o seqs[i]
            BY <3>5
        <3> HIDE DEF Defines
        <3> DEFINE T == {i \in 0 .. n : i = 0 \/ f[i] = h[i]}
        <3>8. 0 \in T
            BY <1>1
        <3>9. ASSUME NEW i \in 1 .. n, i - 1 \in T PROVE i \in T
            <4>1. i \in 0 .. n /\ (i # 1 => f[i - 1] = h[i - 1])
                BY <1>1, <3>9
            <4>2. f[i] = h[i]
                BY <3>2, <3>7, <4>1
            <4> QED BY <4>1, <4>2
        <3> HIDE DEF T
        <3>10. \A i \in 0 .. n : i \in T
            BY <1>1, <3>8, <3>9, InductionUpTo
        <3>11. n \in T /\ n \in 1 .. n
            BY <1>1, <2>2, <3>10
        <3> QED BY <2>2, <3>1, <3>6, <3>11 DEF T
    <2> QED BY <2>1, <2>2
<1>8. PICK G : G = [i \in 0 .. n |-> Len(g[i])]
    OBVIOUS
<1>9. G \in [0 .. n -> Nat] /\ G[0] = 0
    <2>1. \A i \in 0 .. n : Len(g[i]) \in Nat
        BY <1>5
    <2>2. 0 \in 0 .. n /\ Len(g[0]) = 0
        BY <1>1, <1>4
    <2> QED BY <1>8, <2>1, <2>2
<1>10. ASSUME NEW i \in 1 .. n
       PROVE  /\ G[i] = G[i - 1] + Len(seqs[i])
              /\ \A p \in 1 .. G[i - 1] : g[i][p] = g[i - 1][p]
              /\ \A m \in 1 .. Len(seqs[i]) : g[i][G[i - 1] + m] = seqs[i][m]
    <2>1. PICK u \in Seq(A), v \in Seq(A) : u = g[i - 1] /\ v = seqs[i]
        BY <1>1, <1>5, <1>6
    <2>2. g[i] = u \o v
        BY <1>6, <2>1
    <2>3. /\ Len(u \o v) = Len(u) + Len(v)
          /\ \A p \in 1 .. Len(u) : (u \o v)[p] = u[p]
          /\ \A m \in 1 .. Len(v) : (u \o v)[Len(u) + m] = v[m]
        BY ConcatIs
    <2>4. G[i - 1] = Len(u) /\ G[i] = Len(u \o v)
        BY <1>6, <1>8, <2>1, <2>2
    <2> QED BY <2>1, <2>2, <2>3, <2>4
<1> DEFINE Covered(i, p) == \E k \in 1 .. i : \E m \in 1 .. Len(seqs[k]) : p = G[k - 1] + m
           Whole(i) == /\ \A k \in 1 .. i : \A m \in 1 .. Len(seqs[k]) :
                            /\ G[k - 1] + m \in 1 .. G[i]
                            /\ g[i][G[k - 1] + m] = seqs[k][m]
                      /\ \A p \in 1 .. G[i] : Covered(i, p)
           T == {i \in 0 .. n : Whole(i)}
<1>11. 0 \in T
    <2>1. 1 .. 0 = {}
        OBVIOUS
    <2>2. 1 .. G[0] = {} /\ 0 \in 0 .. n
        BY <1>1, <1>9
    <2> QED BY <2>1, <2>2
<1>12. ASSUME NEW i \in 1 .. n, i - 1 \in T PROVE i \in T
    <2>1. Whole(i - 1) /\ i \in 0 .. n /\ i - 1 \in 0 .. n
        BY <1>6, <1>12
    <2>2. PICK a \in Nat : a = G[i - 1]
        BY <1>9, <2>1
    <2>7. PICK v \in Seq(A) : v = seqs[i]
        BY <1>1
    <2>3. PICK l \in Nat : l = Len(seqs[i])
        BY <2>7
    <2>4. G[i] = a + l
        BY <1>10, <2>2, <2>3
    <2>5. ASSUME NEW k \in 1 .. i, NEW m \in 1 .. Len(seqs[k])
          PROVE  /\ G[k - 1] + m \in 1 .. G[i]
                 /\ g[i][G[k - 1] + m] = seqs[k][m]
        <3>1. CASE k = i
            BY <1>10, <2>2, <2>3, <2>4, <3>1, SMTT(20)
        <3>2. CASE k # i
            <4>1. k \in 1 .. i - 1
                BY <3>2
            <4>2. G[k - 1] + m \in 1 .. a /\ g[i - 1][G[k - 1] + m] = seqs[k][m]
                BY <2>1, <2>2, <4>1
            <4>3. PICK p : p = G[k - 1] + m
                OBVIOUS
            <4>4. p \in 1 .. a /\ p \in 1 .. G[i]
                BY <2>4, <4>2, <4>3
            <4>5. g[i][p] = g[i - 1][p]
                BY <1>10, <2>2, <4>4
            <4> QED BY <4>2, <4>3, <4>4, <4>5
        <3> QED BY <3>1, <3>2
    <2>6. ASSUME NEW p \in 1 .. G[i] PROVE Covered(i, p)
        <3>1. CASE p <= a
            <4>1. p \in 1 .. G[i - 1]
                BY <2>2, <2>4, <3>1
            <4>2. Covered(i - 1, p)
                BY <2>1, <4>1
            <4>3. 1 .. i - 1 \subseteq 1 .. i
                OBVIOUS
            <4> QED BY <4>2, <4>3
        <3>2. CASE p > a
            <4>1. p - a \in 1 .. l /\ p = a + (p - a)
                BY <2>4, <3>2
            <4>2. i \in 1 .. i
                OBVIOUS
            <4> QED BY <2>2, <2>3, <4>1, <4>2
        <3> QED BY <2>2, <2>4, <3>1, <3>2
    <2> HIDE DEF Covered
    <2> QED BY <2>1, <2>5, <2>6
<1> HIDE DEF T
<1>13. \A i \in 0 .. n : i \in T
    BY <1>1, <1>11, <1>12, InductionUpTo
<1>14. Whole(n) /\ n \in 0 .. n
    <2>1. n \in 0 .. n
        BY <1>1
    <2>2. n \in T
        BY <1>13, <2>1
    <2> HIDE DEF Whole
    <2> QED BY <2>1, <2>2 DEF T
<1>15. PICK flat \in Seq(A) : flat = g[n]
    BY <1>5, <1>14
<1>16. Len(flat) = G[n]
    BY <1>8, <1>14, <1>15
<1>17. Cut(flat, seqs, G)
    <2>1. \A k \in 1 .. n : G[k] = G[k - 1] + Len(seqs[k])
        BY <1>10
    <2>2. \A k \in 1 .. n : \A m \in 1 .. Len(seqs[k]) :
              G[k - 1] + m \in 1 .. Len(flat) /\ flat[G[k - 1] + m] = seqs[k][m]
        BY <1>14, <1>15, <1>16
    <2>3. \A p \in 1 .. Len(flat) : \E k \in 1 .. n : \E m \in 1 .. Len(seqs[k]) : p = G[k - 1] + m
        BY <1>14, <1>16
    <2> QED BY <1>9, <1>16, <2>1, <2>2, <2>3 DEF Cut, n
<1> QED BY <1>7, <1>15, <1>17
-----------------------------------------------------------------------------
(* Compilable programs: the code of blocks *)

BlockName == {"entry", "if.then", "if.cont"}
Opcodes == Plain \cup ({"LABEL"} \X BlockName)

\* What ends the first block and the body of the IF.
Test(r) == Instr("cbr", <<r, "if.then", "if.cont">>, None)
Jump == Instr("br", <<"if.cont">>, None)
Lowerable == Instruction \cup {Test(r) : r \in Register} \cup {Jump}

\* The code of these.
LEMMA EndsAre ==
    ASSUME NEW r \in Register
    PROVE  /\ Cbr(r, "if.then", "if.cont") = <<Test(r)>> /\ Br("if.cont") = <<Jump>>
           /\ LowerInstr(Test(r)) =
                  <<Op("LOAD", r), Op("JMP_IF", "if.then"), Op("JMP", "if.cont")>>
           /\ LowerInstr(Jump) = <<Op("JMP", "if.cont")>>
           /\ LowerInstr(Test(r)) \in Seq(Plain) /\ LowerInstr(Jump) \in Seq(Plain)
           /\ Len(LowerInstr(Test(r))) = 3 /\ Len(LowerInstr(Jump)) = 1
<1>1. Cbr(r, "if.then", "if.cont") = <<Test(r)>> /\ Br("if.cont") = <<Jump>>
    BY DEF Cbr, Br, Test, Jump
<1>2. LowerInstr(Test(r)) = <<Op("LOAD", r), Op("JMP_IF", "if.then"), Op("JMP", "if.cont")>>
    <2>1. PICK i : i = Test(r)
        OBVIOUS
    <2>2. i.op = "cbr" /\ i.args[1] = r /\ i.args[2] = "if.then" /\ i.args[3] = "if.cont"
        BY <2>1 DEF Test, Instr
    <2>3. LowerInstr(i) = <<Op("LOAD", i.args[1]), Op("JMP_IF", i.args[2]), Op("JMP", i.args[3])>>
        BY <2>2 DEF LowerInstr
    <2> QED BY <2>1, <2>2, <2>3
<1>3. LowerInstr(Jump) = <<Op("JMP", "if.cont")>>
    <2>1. PICK i : i = Jump
        OBVIOUS
    <2>2. i.op = "br" /\ i.args[1] = "if.cont"
        BY <2>1 DEF Jump, Instr
    <2>3. LowerInstr(i) = <<Op("JMP", i.args[1])>>
        BY <2>2 DEF LowerInstr
    <2> QED BY <2>1, <2>2, <2>3
<1>4. /\ Op("LOAD", r) \in Plain /\ Op("JMP_IF", "if.then") \in Plain
      /\ Op("JMP", "if.cont") \in Plain
    BY DEF Op, Plain, Argument, Location
<1> QED BY <1>1, <1>2, <1>3, <1>4

\* So has every instruction, and every exit.
LEMMA LowerableIs ==
    ASSUME NEW i \in Lowerable
    PROVE  LowerInstr(i) \in Seq(Plain)
<1>1. ASSUME NEW r \in Register, i = Test(r) PROVE LowerInstr(i) \in Seq(Plain)
    BY <1>1, EndsAre
<1>2. ASSUME i = Jump PROVE LowerInstr(i) \in Seq(Plain)
    <2>1. <<"reg", 0>> \in Register
        BY DEF Register
    <2> QED BY <1>2, <2>1, EndsAre
<1> QED BY <1>1, <1>2, LoweredIs DEF Lowerable

\* A block's code is in the program: its label, and nothing but instructions after it.
LaidOut(prog, name, instrs, F) ==
    /\ Placed(prog, instrs, F) /\ prog[F[0]] = Op("LABEL", name)
    /\ F[0] > 0 /\ F[0] <= F[Len(instrs)]
    /\ \A p \in F[0] + 1 .. F[Len(instrs)] : prog[p] \in Plain
    /\ \A k \in 1 .. Len(instrs) : \A m \in 1 .. Len(LowerInstr(instrs[k])) :
          F[k - 1] + m \in F[0] + 1 .. F[Len(instrs)]

\* The instructions of a block.
InstrsOf(b) == b.instrs \o b.terminator

\* The code of a block.
LEMMA BlockIs ==
    ASSUME NEW name \in BlockName, NEW instrs, instrs \in Seq(Lowerable), NEW b,
           b.name = name, instrs = InstrsOf(b)
    PROVE  /\ LowerBlock(b) \in Seq(Opcodes)
           /\ \E F : /\ LaidOut(LowerBlock(b), name, instrs, F)
                     /\ F[0] = 1 /\ F[Len(instrs)] = Len(LowerBlock(b))
<1>0. PICK n : n = Len(instrs)
    OBVIOUS
<1>1. n \in Nat /\ n = Len(instrs) /\ DOMAIN instrs = 1 .. n
    BY <1>0
<1>2. PICK seqs : seqs = [k \in 1 .. n |-> LowerInstr(instrs[k])]
    OBVIOUS
<1>3. seqs \in Seq(Seq(Plain)) /\ Len(seqs) = n
    <2>1. ASSUME NEW k \in 1 .. n PROVE LowerInstr(instrs[k]) \in Seq(Plain)
        <3>1. PICK i \in Lowerable : i = instrs[k]
            BY <1>1
        <3> QED BY <3>1, LowerableIs
    <2> QED BY <1>1, <1>2, <2>1
<1>4. PICK flat : flat = FlattenSeq(seqs)
    OBVIOUS
<1>5. flat \in Seq(Plain) /\ \E G : Cut(flat, seqs, G)
    BY <1>3, <1>4, FlattenCuts
<1>6. PICK G : Cut(flat, seqs, G)
    BY <1>5
<1>7. /\ G \in [0 .. n -> Nat] /\ G[0] = 0 /\ Len(flat) = G[n]
      /\ \A k \in 1 .. n :
          /\ G[k] = G[k - 1] + Len(seqs[k])
          /\ \A m \in 1 .. Len(seqs[k]) :
                G[k - 1] + m \in 1 .. Len(flat) /\ flat[G[k - 1] + m] = seqs[k][m]
      /\ \A p \in 1 .. Len(flat) : \E k \in 1 .. n :
          \E m \in 1 .. Len(seqs[k]) : p = G[k - 1] + m
    BY <1>3, <1>6 DEF Cut
<1>8. PICK label : label = Op("LABEL", name)
    OBVIOUS
<1>9. label \in Opcodes /\ flat \in Seq(Opcodes)
    BY <1>5, <1>8 DEF Opcodes, Op
<1>10. PICK prog : prog = <<label>> \o flat
    OBVIOUS
<1>11. LowerBlock(b) = prog
    <2>1. [k \in DOMAIN instrs |-> LowerInstr(instrs[k])] = seqs
        BY <1>1, <1>2
    <2> QED BY <1>4, <1>8, <1>10, <2>1 DEF LowerBlock, InstrsOf
<1>12. /\ prog \in Seq(Opcodes) /\ Len(prog) = 1 + Len(flat) /\ prog[1] = label
       /\ \A p \in 1 .. Len(flat) : prog[1 + p] = flat[p]
    <2>1. PICK a : a = <<label>>
        OBVIOUS
    <2>2. a \in Seq(Opcodes) /\ Len(a) = 1 /\ a[1] = label /\ 1 \in 1 .. 1
        BY <1>9, <2>1
    <2>3. /\ a \o flat \in Seq(Opcodes) /\ Len(a \o flat) = Len(a) + Len(flat)
          /\ \A p \in 1 .. Len(a) : (a \o flat)[p] = a[p]
          /\ \A p \in 1 .. Len(flat) : (a \o flat)[Len(a) + p] = flat[p]
        <3>1. PICK S : S = Opcodes
            OBVIOUS
        <3>2. a \in Seq(S) /\ flat \in Seq(S)
            BY <1>9, <2>2, <3>1
        <3>3. /\ a \o flat \in Seq(S) /\ Len(a \o flat) = Len(a) + Len(flat)
              /\ \A p \in 1 .. Len(a) : (a \o flat)[p] = a[p]
              /\ \A p \in 1 .. Len(flat) : (a \o flat)[Len(a) + p] = flat[p]
            BY <3>2, ConcatIs
        <3> QED BY <3>1, <3>3
    <2> QED BY <1>10, <2>1, <2>2, <2>3
<1>13. PICK F : F = [k \in 0 .. n |-> G[k] + 1]
    OBVIOUS
<1>14. \A k \in 0 .. n : G[k] \in Nat /\ F[k] = G[k] + 1 /\ F[k] \in Nat
    BY <1>7, <1>13
<1>15. F[0] = 1 /\ F[n] = Len(prog) /\ F[0] <= F[n]
    <2>1. 0 \in 0 .. n /\ n \in 0 .. n
        BY <1>1
    <2> QED BY <1>7, <1>12, <1>14, <2>1
<1>16. Placed(prog, instrs, F)
    <2>1. ASSUME NEW k \in 1 .. n
          PROVE  /\ F[k] = F[k - 1] + Len(LowerInstr(instrs[k]))
                 /\ \A m \in 1 .. Len(LowerInstr(instrs[k])) :
                       prog[F[k - 1] + m] = LowerInstr(instrs[k])[m]
        <3>1. k \in 0 .. n /\ k - 1 \in 0 .. n
            BY <1>1
        <3>8. PICK i \in Lowerable : i = instrs[k]
            BY <1>1
        <3>2. PICK s \in Seq(Plain) : s = LowerInstr(i)
            BY LowerableIs
        <3>3. seqs[k] = s
            BY <1>2, <3>2, <3>8
        <3>4. PICK g \in Nat : g = G[k - 1]
            BY <1>14, <3>1
        <3>5. /\ G[k] = g + Len(s)
              /\ \A m \in 1 .. Len(s) : g + m \in 1 .. Len(flat) /\ flat[g + m] = s[m]
            BY <1>7, <3>3, <3>4
        <3>6. F[k - 1] = g + 1 /\ F[k] = g + Len(s) + 1
            BY <1>14, <3>1, <3>4, <3>5
        <3>7. ASSUME NEW m \in 1 .. Len(s) PROVE prog[F[k - 1] + m] = s[m]
            <4>1. F[k - 1] + m = 1 + (g + m)
                BY <3>6
            <4> QED BY <1>12, <3>5, <4>1
        <3>9. F[k] = F[k - 1] + Len(s)
            BY <3>6
        <3> QED BY <3>2, <3>7, <3>8, <3>9
    <2> QED BY <1>1, <1>14, <2>1 DEF Placed
<1>17. ASSUME NEW p \in F[0] + 1 .. F[n] PROVE prog[p] \in Plain
    <2>1. p - 1 \in 1 .. Len(flat) /\ p = 1 + (p - 1)
        BY <1>5, <1>12, <1>15
    <2>2. prog[p] = flat[p - 1]
        BY <1>12, <2>1
    <2> QED BY <1>5, <2>1, <2>2
<1>18. ASSUME NEW k \in 1 .. n, NEW m \in 1 .. Len(LowerInstr(instrs[k]))
       PROVE  F[k - 1] + m \in F[0] + 1 .. F[n]
    <2>1. k \in 0 .. n /\ k - 1 \in 0 .. n
        BY <1>1
    <2>2. PICK p : p = G[k - 1] + m
        OBVIOUS
    <2>3. p \in 1 .. Len(flat)
        BY <1>2, <1>7, <2>2
    <2>4. PICK g \in Nat : g = G[k - 1]
        BY <1>14, <2>1
    <2>5. PICK i \in Lowerable : i = instrs[k]
        BY <1>1
    <2>6. m \in Nat
        <3>1. LowerInstr(i) \in Seq(Plain)
            BY LowerableIs
        <3> QED BY <2>5, <3>1
    <2>7. F[k - 1] = g + 1 /\ p = g + m
        BY <1>14, <2>1, <2>2, <2>4
    <2>8. F[k - 1] + m = p + 1
        BY <2>6, <2>7
    <2> QED BY <1>5, <1>12, <1>15, <2>3, <2>8
<1>19. LaidOut(prog, name, instrs, F)
    BY <1>1, <1>8, <1>12, <1>15, <1>16, <1>17, <1>18 DEF LaidOut
<1> QED BY <1>1, <1>11, <1>12, <1>15, <1>19

\* One sequence is in another after so many elements; a block's code is, and fills l of them.
Continues(flat, h, prog) == \A p \in 1 .. Len(prog) : flat[h + p] = prog[p]
Lies(flat, name, instrs, h, l) ==
    \E E : LaidOut(flat, name, instrs, E) /\ E[0] = h + 1 /\ E[Len(instrs)] = h + l

\* The code of a block, further down.
LEMMA Shifted ==
    ASSUME NEW prog, prog \in Seq(Opcodes), NEW name, NEW instrs, instrs \in Seq(Lowerable),
           Lies(prog, name, instrs, 0, Len(prog)),
           NEW h, h \in Nat, NEW flat, Continues(flat, h, prog)
    PROVE  Lies(flat, name, instrs, h, Len(prog))
<1>0. PICK F : LaidOut(prog, name, instrs, F) /\ F[0] = 1 /\ F[Len(instrs)] = Len(prog)
    <2>1. PICK F : /\ LaidOut(prog, name, instrs, F)
                   /\ F[0] = 0 + 1 /\ F[Len(instrs)] = 0 + Len(prog)
        BY DEF Lies
    <2>2. Len(prog) \in Nat
        OBVIOUS
    <2> QED BY <2>1, <2>2
<1>1. PICK n : n = Len(instrs)
    OBVIOUS
<1>2. n \in Nat /\ 0 \in 0 .. n /\ n \in 0 .. n /\ Len(prog) \in Nat
    BY <1>1
<1>3. PICK E : E = [k \in 0 .. n |-> h + F[k]]
    OBVIOUS
<1>4. \A k \in 0 .. n : F[k] \in Nat /\ E[k] = h + F[k] /\ E[k] \in Nat
    BY <1>0, <1>1, <1>3 DEF LaidOut, Placed
<1>5. E[0] = h + 1 /\ E[n] = h + Len(prog)
    BY <1>0, <1>1, <1>2, <1>4
<1>6. flat[E[0]] = Op("LABEL", name) /\ E[0] > 0 /\ E[0] <= E[n]
    <2>1. 1 <= Len(prog) /\ prog[1] = Op("LABEL", name)
        BY <1>0, <1>1 DEF LaidOut
    <2>2. flat[h + 1] = prog[1]
        BY <1>2, <2>1 DEF Continues
    <2> QED BY <1>2, <1>5, <2>1, <2>2
<1>7. ASSUME NEW p \in E[0] + 1 .. E[n] PROVE flat[p] \in Plain
    <2>1. p - h \in F[0] + 1 .. F[Len(instrs)] /\ p = h + (p - h) /\ p - h \in 1 .. Len(prog)
        BY <1>0, <1>1, <1>2, <1>5
    <2>2. prog[p - h] \in Plain
        BY <1>0, <2>1 DEF LaidOut
    <2> QED BY <2>1, <2>2 DEF Continues
<1>8. ASSUME NEW k \in 1 .. n
      PROVE  /\ E[k] = E[k - 1] + Len(LowerInstr(instrs[k]))
             /\ \A m \in 1 .. Len(LowerInstr(instrs[k])) :
                   /\ E[k - 1] + m \in E[0] + 1 .. E[n]
                   /\ flat[E[k - 1] + m] = LowerInstr(instrs[k])[m]
    <2>1. k \in 0 .. n /\ k - 1 \in 0 .. n
        BY <1>2
    <2>2. PICK i \in Lowerable : i = instrs[k]
        BY <1>1, <1>2
    <2>3. PICK s \in Seq(Plain) : s = LowerInstr(i)
        BY LowerableIs
    <2>4. PICK f \in Nat : f = F[k - 1]
        BY <1>4, <2>1
    <2>5. /\ F[k] = f + Len(s) /\ E[k - 1] = h + f /\ E[k] = h + F[k]
          /\ \A m \in 1 .. Len(s) : prog[f + m] = s[m]
        BY <1>0, <1>1, <1>4, <2>1, <2>2, <2>3, <2>4 DEF LaidOut, Placed
    <2>6. \A m \in 1 .. Len(s) : f + m \in 2 .. Len(prog)
        <3>1. \A m \in 1 .. Len(s) : f + m \in F[0] + 1 .. F[Len(instrs)]
            BY <1>0, <1>1, <2>2, <2>3, <2>4 DEF LaidOut
        <3> QED BY <1>0, <1>1, <3>1
    <2>7. ASSUME NEW m \in 1 .. Len(s)
          PROVE  E[k - 1] + m \in E[0] + 1 .. E[n] /\ flat[E[k - 1] + m] = s[m]
        <3>1. E[k - 1] + m = h + (f + m) /\ f + m \in 2 .. Len(prog) /\ f + m \in 1 .. Len(prog)
            BY <1>2, <2>5, <2>6
        <3>2. h + (f + m) \in (h + 1) + 1 .. h + Len(prog)
            BY <1>2, <3>1
        <3>3. flat[h + (f + m)] = prog[f + m]
            BY <3>1 DEF Continues
        <3> QED BY <1>5, <2>5, <3>1, <3>2, <3>3
    <2>8. E[k] = E[k - 1] + Len(s)
        BY <2>5
    <2> QED BY <2>2, <2>3, <2>7, <2>8
<1>9. Placed(flat, instrs, E)
    BY <1>1, <1>4, <1>8 DEF Placed
<1>10. LaidOut(flat, name, instrs, E)
    BY <1>1, <1>6, <1>7, <1>8, <1>9 DEF LaidOut
<1> QED BY <1>1, <1>5, <1>10 DEF Lies

\* compile_function: the code of blocks.
CodeOf(blks) == FlattenSeq([k \in DOMAIN blks |-> LowerBlock(blks[k])])

\* A block between its neighbours.
LEMMA BlockPlaced ==
    ASSUME NEW name \in BlockName, NEW instrs, instrs \in Seq(Lowerable), NEW b,
           b.name = name, instrs = InstrsOf(b), NEW h, h \in Nat, NEW flat,
           Continues(flat, h, LowerBlock(b))
    PROVE  Lies(flat, name, instrs, h, Len(LowerBlock(b)))
<1>1. PICK prog : prog = LowerBlock(b)
    OBVIOUS
<1>2. /\ prog \in Seq(Opcodes)
      /\ \E F : LaidOut(prog, name, instrs, F) /\ F[0] = 1 /\ F[Len(instrs)] = Len(prog)
    BY <1>1, BlockIs
<1>3. Lies(prog, name, instrs, 0, Len(prog))
    <2>1. Len(prog) \in Nat
        BY <1>2
    <2>2. 1 = 0 + 1 /\ Len(prog) = 0 + Len(prog)
        BY <2>1
    <2> QED BY <1>2, <2>2 DEF Lies
<1>4. Continues(flat, h, prog)
    BY <1>1
<1>5. Lies(flat, name, instrs, h, Len(prog))
    BY <1>2, <1>3, <1>4, Shifted
<1> QED BY <1>1, <1>5

\* The code of one block.
LEMMA StraightCode ==
    ASSUME NEW c, c \in Seq(Instruction), NEW blks, blks = <<Part("entry", c, <<>>)>>
    PROVE  /\ CodeOf(blks) \in Seq(Opcodes)
           /\ Lies(CodeOf(blks), "entry", c, 0, Len(CodeOf(blks)))
<1>1. PICK b : b = Part("entry", c, <<>>)
    OBVIOUS
<1>2. PICK name \in BlockName : name = "entry"
    BY DEF BlockName
<1>3. b.name = name /\ b.instrs = c /\ b.terminator = <<>>
    BY <1>1, <1>2 DEF Part
<1>4. c \in Seq(Lowerable) /\ c = InstrsOf(b)
    <2>1. c \in Seq(Lowerable)
        BY DEF Lowerable
    <2>2. c \o <<>> = c
        OBVIOUS
    <2> QED BY <1>3, <2>1, <2>2 DEF InstrsOf
<1>5. PICK prog : prog = LowerBlock(b) /\ prog \in Seq(Opcodes)
    BY <1>3, <1>4, BlockIs
<1>6. PICK seqs : seqs = <<prog>>
    OBVIOUS
<1>7. CodeOf(blks) = FlattenSeq(seqs)
    <2>1. blks = <<b>> /\ DOMAIN blks = 1 .. 1 /\ blks[1] = b
        BY <1>1
    <2>2. [k \in DOMAIN blks |-> LowerBlock(blks[k])] = <<prog>>
        BY <1>5, <2>1
    <2> QED BY <1>6, <2>2 DEF CodeOf
<1>8. seqs \in Seq(Seq(Opcodes)) /\ Len(seqs) = 1 /\ seqs[1] = prog
    BY <1>5, <1>6
<1>9. PICK flat : flat = CodeOf(blks)
    OBVIOUS
<1>10. flat \in Seq(Opcodes) /\ \E G : Cut(flat, seqs, G)
    BY <1>7, <1>8, <1>9, FlattenCuts
<1>11. PICK G : Cut(flat, seqs, G)
    BY <1>10
<1>12. PICK l \in Nat : l = Len(prog)
    BY <1>5
<1>13. Len(flat) = l /\ \A p \in 1 .. l : flat[0 + p] = prog[p]
    <2>1. 1 \in 1 .. 1 /\ 1 - 1 = 0
        OBVIOUS
    <2>2. G[0] = 0 /\ Len(flat) = G[1]
        BY <1>8, <1>11 DEF Cut
    <2>3. G[1] = G[0] + l /\ \A m \in 1 .. l : flat[G[0] + m] = prog[m]
        BY <1>8, <1>11, <1>12, <2>1 DEF Cut
    <2> QED BY <2>2, <2>3
<1>14. Continues(flat, 0, LowerBlock(b))
    BY <1>5, <1>12, <1>13 DEF Continues
<1>15. Lies(flat, name, c, 0, Len(LowerBlock(b)))
    <2>1. PICK h : h = 0
        OBVIOUS
    <2>2. h \in Nat /\ Continues(flat, h, LowerBlock(b))
        BY <1>14, <2>1
    <2>3. Lies(flat, name, c, h, Len(LowerBlock(b)))
        BY <1>3, <1>4, <2>2, BlockPlaced
    <2> QED BY <2>1, <2>3
<1> QED BY <1>2, <1>5, <1>9, <1>10, <1>12, <1>13, <1>15
-----------------------------------------------------------------------------
(* Compilable programs: where their code is *)

\* The instructions c of a block are in the program, after its label.
Spans(prog, name, c, F) ==
    /\ prog \in Seq(Opcodes) /\ Placed(prog, c, F) /\ prog[F[0]] = Op("LABEL", name)
    /\ F[0] > 0
    /\ \A k \in 0 .. Len(c) : F[k] <= Len(prog)
    /\ \A k \in 1 .. Len(c) : \A m \in 1 .. Len(LowerInstr(c[k])) : F[k - 1] + m <= Len(prog)

\* Instructions and exits have code.
LEMMA LowerableSome ==
    ASSUME NEW i \in Lowerable
    PROVE  LowerInstr(i) # <<>>
<1>1. ASSUME NEW r \in Register, i = Test(r) PROVE LowerInstr(i) # <<>>
    <2>1. Len(LowerInstr(i)) = 3
        BY Zenon, <1>1, EndsAre
    <2> QED BY <2>1
<1>2. ASSUME i = Jump PROVE LowerInstr(i) # <<>>
    <2>1. <<"reg", 0>> \in Register
        BY DEF Register
    <2> QED BY <1>2, <2>1, EndsAre
<1> QED BY <1>1, <1>2, LoweredIs DEF Lowerable

\* All of a block without an exit is a section.
LEMMA WholeSpans ==
    ASSUME NEW prog, prog \in Seq(Opcodes), NEW name, NEW c, c \in Seq(Lowerable), NEW F,
           LaidOut(prog, name, c, F), F[Len(c)] <= Len(prog)
    PROVE  Spans(prog, name, c, F)
<1>1. PICK n \in Nat : n = Len(c)
    OBVIOUS
<1>2. PICK l \in Nat : l = Len(prog)
    OBVIOUS
<1>3. PICK f \in Nat : f = F[0]
    BY <1>1 DEF LaidOut, Placed
<1>4. /\ Placed(prog, c, F) /\ prog[F[0]] = Op("LABEL", name) /\ F[0] > 0
      /\ F[n] \in Nat /\ F[n] <= l /\ f <= F[n]
      /\ \A k \in 1 .. n : F[k] \in Nat /\ F[k - 1] \in Nat
    <2>1. 0 \in 0 .. n /\ n \in 0 .. n /\ \A k \in 1 .. n : k \in 0 .. n /\ k - 1 \in 0 .. n
        BY <1>1
    <2> QED BY <1>1, <1>2, <1>3, <2>1 DEF LaidOut, Placed
<1>5. ASSUME NEW k \in 1 .. n, NEW m \in 1 .. Len(LowerInstr(c[k]))
      PROVE  F[k - 1] + m <= l
    <2>1. F[k - 1] + m \in F[0] + 1 .. F[n]
        BY <1>1 DEF LaidOut
    <2> QED BY <1>2, <1>3, <1>4, <2>1
<1>6. ASSUME NEW k \in 0 .. n PROVE F[k] <= l
    <2>1. CASE k = 0
        BY <1>2, <1>3, <1>4, <2>1
    <2>2. CASE k # 0
        <3>1. k \in 1 .. n
            BY <1>1, <2>2
        <3>2. PICK i \in Lowerable : i = c[k]
            BY <1>1, <3>1
        <3>3. PICK s \in Seq(Plain) : s = LowerInstr(i)
            BY LowerableIs
        <3>4. PICK g \in Nat : g = F[k - 1]
            BY <1>4, <3>1
        <3>5. F[k] = g + Len(s) /\ \A m \in 1 .. Len(s) : g + m <= l
            BY <1>1, <1>4, <1>5, <3>1, <3>2, <3>3, <3>4 DEF Placed
        <3>6. CASE Len(s) > 0
            <4>1. Len(s) \in 1 .. Len(s)
                BY <3>3, <3>6
            <4> QED BY <3>5, <4>1
        <3>7. CASE Len(s) = 0
            <4>1. LowerInstr(i) # <<>>
                BY <3>2, LowerableSome
            <4> QED BY <3>3, <3>7, <4>1
        <3>8. Len(s) \in Nat
            BY <3>3
        <3> QED BY <3>6, <3>7, <3>8
    <2> QED BY <2>1, <2>2
<1> QED BY <1>1, <1>2, <1>4, <1>5, <1>6 DEF Spans

\* Some code comes next in the program.
There(prog, y, f) == \A m \in 1 .. Len(y) : prog[f + m] = y[m] /\ f + m <= Len(prog)

Comes(prog, F, k, y) == F[k] = F[k - 1] + Len(y) /\ There(prog, y, F[k - 1])

\* The code of one of the instructions.
LEMMA SpansAt ==
    ASSUME NEW prog, NEW name, NEW s, NEW F, Spans(prog, name, s, F),
           NEW k, k \in 1 .. Len(s), NEW y, y = LowerInstr(s[k])
    PROVE  Comes(prog, F, k, y)
BY DEF Spans, Placed, There, Comes

\* A block with an exit is a section and the exit's code.
LEMMA SpansAndExits ==
    ASSUME NEW prog, prog \in Seq(Opcodes), NEW name, NEW c, c \in Seq(Lowerable),
           NEW x, x \in Lowerable, NEW s, s = c \o <<x>>, NEW F,
           LaidOut(prog, name, s, F), F[Len(s)] <= Len(prog)
    PROVE  /\ Spans(prog, name, c, F) /\ There(prog, LowerInstr(x), F[Len(c)])
           /\ F[Len(c)] \in Nat /\ F[Len(s)] = F[Len(c)] + Len(LowerInstr(x))
<1>1. PICK n \in Nat : n = Len(c)
    OBVIOUS
<1>2. /\ s \in Seq(Lowerable) /\ Len(s) = n + 1 /\ (\A k \in 1 .. n : s[k] = c[k])
      /\ s[n + 1] = x
    <2>1. PICK t : t = <<x>>
        OBVIOUS
    <2>2. t \in Seq(Lowerable) /\ Len(t) = 1 /\ t[1] = x
        BY <2>1
    <2>3. PICK S : S = Lowerable
        OBVIOUS
    <2>4. c \in Seq(S) /\ t \in Seq(S)
        BY <2>2, <2>3
    <2>5. /\ c \o t \in Seq(S) /\ Len(c \o t) = Len(c) + Len(t)
          /\ \A i \in 1 .. Len(c) : (c \o t)[i] = c[i]
          /\ \A i \in 1 .. Len(t) : (c \o t)[Len(c) + i] = t[i]
        BY <2>4, ConcatIs
    <2>6. s = c \o t /\ 1 \in 1 .. 1
        BY <2>1
    <2> QED BY <1>1, <2>2, <2>3, <2>5, <2>6
<1>3. Spans(prog, name, s, F)
    BY <1>2, WholeSpans
<1>4. \A k \in 0 .. n + 1 : F[k] \in Nat /\ F[k] <= Len(prog)
    BY <1>2, <1>3 DEF Spans, Placed
<1>5. Spans(prog, name, c, F)
    <2>1. \A k \in 0 .. n : k \in 0 .. n + 1
        BY <1>1
    <2>2. \A k \in 1 .. n : k \in 1 .. n + 1 /\ s[k] = c[k]
        BY <1>1, <1>2
    <2>3. Placed(prog, c, F)
        <3>1. \A k \in 0 .. n : F[k] \in Nat
            BY <1>4, <2>1
        <3>2. ASSUME NEW k \in 1 .. n
              PROVE  /\ F[k] = F[k - 1] + Len(LowerInstr(c[k]))
                     /\ \A m \in 1 .. Len(LowerInstr(c[k])) :
                           prog[F[k - 1] + m] = LowerInstr(c[k])[m]
            <4>1. PICK y : y = LowerInstr(s[k])
                OBVIOUS
            <4>2. k \in 1 .. n + 1 /\ y = LowerInstr(c[k])
                BY <2>2, <4>1
            <4>3. Comes(prog, F, k, y)
                BY <1>2, <1>3, <4>1, <4>2, SpansAt
            <4> QED BY <4>2, <4>3 DEF There, Comes
        <3> QED BY <1>1, <3>1, <3>2 DEF Placed
    <2>4. ASSUME NEW k \in 1 .. n, NEW m \in 1 .. Len(LowerInstr(c[k]))
          PROVE  F[k - 1] + m <= Len(prog)
        <3>1. PICK y : y = LowerInstr(s[k])
            OBVIOUS
        <3>2. k \in 1 .. n + 1 /\ y = LowerInstr(c[k])
            BY <2>2, <3>1
        <3>3. Comes(prog, F, k, y)
            BY <1>2, <1>3, <3>1, <3>2, SpansAt
        <3> QED BY <3>2, <3>3 DEF There, Comes
    <2>5. \A k \in 0 .. n : F[k] <= Len(prog)
        BY <1>4, <2>1
    <2> QED BY <1>1, <1>3, <2>3, <2>4, <2>5 DEF Spans
<1>6. n + 1 \in 1 .. n + 1 /\ (n + 1) - 1 = n /\ n \in 0 .. n + 1
    BY <1>1
<1>7. PICK y : y = LowerInstr(x)
    OBVIOUS
<1>8. y = LowerInstr(s[n + 1])
    BY <1>2, <1>7
<1>9. F[n + 1] = F[n] + Len(y) /\ There(prog, y, F[n])
    <2>1. PICK k : k = n + 1
        OBVIOUS
    <2>2. k \in 1 .. Len(s)
        BY <1>2, <1>6, <2>1
    <2>3. y = LowerInstr(s[k])
        BY <1>8, <2>1
    <2>4. Comes(prog, F, k, y)
        BY <1>3, <2>2, <2>3, SpansAt
    <2>5. F[k] = F[k - 1] + Len(y) /\ There(prog, y, F[k - 1])
        BY <2>4 DEF Comes
    <2> QED BY <1>6, <2>1, <2>5
<1>10. There(prog, LowerInstr(x), F[n])
    BY <1>7, <1>9
<1> QED BY <1>1, <1>2, <1>4, <1>5, <1>6, <1>7, <1>9, <1>10

\* Where a label is.
LabelIn(prog, name) == Max({k \in DOMAIN prog : prog[k] = Op("LABEL", name)})

\* There is one with the name.
LEMMA LabelAt ==
    ASSUME NEW prog, prog \in Seq(Opcodes), NEW name, NEW f, f \in DOMAIN prog,
           prog[f] = Op("LABEL", name),
           \A p \in DOMAIN prog : p = f \/ prog[p] # Op("LABEL", name)
    PROVE  LabelIn(prog, name) = f
<1>1. PICK S : S = {k \in DOMAIN prog : prog[k] = Op("LABEL", name)}
    OBVIOUS
<1>2. S = {f}
    BY <1>1
<1>3. PICK n \in Nat : n = Len(prog)
    OBVIOUS
<1>4. S \in SUBSET (0 .. n) /\ S # {}
    BY <1>2, <1>3
<1>5. Max(S) \in S
    BY <1>4, MaxIs
<1> QED BY <1>1, <1>2, <1>5 DEF LabelIn

\* Nothing else is a label.
LEMMA PlainIs ==
    ASSUME NEW o \in Plain, NEW name
    PROVE  o # Op("LABEL", name)
BY DEF Plain, Op

\* The three blocks of a program with an IF on register r.
Fork(prog, r, c1, c2, c3, F1, F2, F3) ==
    /\ Spans(prog, "entry", c1, F1) /\ F1[0] = 1
    /\ There(prog, LowerInstr(Test(r)), F1[Len(c1)])
    /\ Spans(prog, "if.then", c2, F2) /\ There(prog, LowerInstr(Jump), F2[Len(c2)])
    /\ Spans(prog, "if.cont", c3, F3) /\ F3[Len(c3)] = Len(prog)
    /\ LabelIn(prog, "if.then") = F2[0] /\ LabelIn(prog, "if.cont") = F3[0]

\* Three blocks one after the other.
Trio(flat, n1, n2, n3, i1, i2, i3, F1, F2, F3) ==
    /\ flat \in Seq(Opcodes)
    /\ LaidOut(flat, n1, i1, F1) /\ LaidOut(flat, n2, i2, F2) /\ LaidOut(flat, n3, i3, F3)
    /\ F1[0] = 1 /\ F2[0] = F1[Len(i1)] + 1 /\ F3[0] = F2[Len(i2)] + 1
    /\ F3[Len(i3)] = Len(flat)
Trisected(flat, n1, n2, n3, i1, i2, i3) ==
    \E F1, F2, F3 : Trio(flat, n1, n2, n3, i1, i2, i3, F1, F2, F3)

\* That is how they are compiled.
LEMMA ThreeLaidOut ==
    ASSUME NEW n1 \in BlockName, NEW n2 \in BlockName, NEW n3 \in BlockName,
           NEW i1, i1 \in Seq(Lowerable), NEW i2, i2 \in Seq(Lowerable),
           NEW i3, i3 \in Seq(Lowerable), NEW b1, NEW b2, NEW b3,
           b1.name = n1, b2.name = n2, b3.name = n3,
           i1 = InstrsOf(b1), i2 = InstrsOf(b2), i3 = InstrsOf(b3)
    PROVE  Trisected(CodeOf(<<b1, b2, b3>>), n1, n2, n3, i1, i2, i3)
<1>1. PICK p1 : p1 = LowerBlock(b1) /\ p1 \in Seq(Opcodes)
    BY BlockIs
<1>2. PICK p2 : p2 = LowerBlock(b2) /\ p2 \in Seq(Opcodes)
    BY BlockIs
<1>3. PICK p3 : p3 = LowerBlock(b3) /\ p3 \in Seq(Opcodes)
    BY BlockIs
<1>4. PICK seqs : seqs = <<p1, p2, p3>>
    OBVIOUS
<1>5. PICK flat : flat = CodeOf(<<b1, b2, b3>>)
    OBVIOUS
<1>6. flat = FlattenSeq(seqs)
    <2>1. PICK blks : blks = <<b1, b2, b3>>
        OBVIOUS
    <2>2. DOMAIN blks = 1 .. 3 /\ blks[1] = b1 /\ blks[2] = b2 /\ blks[3] = b3
        BY <2>1
    <2>3. [k \in DOMAIN blks |-> LowerBlock(blks[k])] = <<p1, p2, p3>>
        BY <1>1, <1>2, <1>3, <2>2
    <2>4. CodeOf(blks) = FlattenSeq([k \in DOMAIN blks |-> LowerBlock(blks[k])])
        BY Zenon DEF CodeOf
    <2> QED BY <1>4, <1>5, <2>1, <2>3, <2>4
<1>7. /\ seqs \in Seq(Seq(Opcodes)) /\ Len(seqs) = 3
      /\ seqs[1] = p1 /\ seqs[2] = p2 /\ seqs[3] = p3
    BY <1>1, <1>2, <1>3, <1>4
<1>8. flat \in Seq(Opcodes) /\ \E G : Cut(flat, seqs, G)
    BY <1>6, <1>7, FlattenCuts
<1>9. PICK G : Cut(flat, seqs, G)
    BY <1>8
<1>10. PICK l1 \in Nat : l1 = Len(p1)
    BY <1>1
<1>11. PICK l2 \in Nat : l2 = Len(p2)
    BY <1>2
<1>12. PICK l3 \in Nat : l3 = Len(p3)
    BY <1>3
<1>13. /\ G[0] = 0 /\ G[1] = l1 /\ G[2] = l1 + l2 /\ G[3] = l1 + l2 + l3
       /\ Len(flat) = l1 + l2 + l3
    <2>1. G[0] = 0 /\ Len(flat) = G[3] /\ \A k \in 1 .. 3 : G[k] = G[k - 1] + Len(seqs[k])
        BY <1>7, <1>9 DEF Cut
    <2>2. G[1] = G[0] + Len(seqs[1]) /\ G[2] = G[1] + Len(seqs[2]) /\ G[3] = G[2] + Len(seqs[3])
        BY <2>1
    <2> QED BY <1>7, <1>10, <1>11, <1>12, <2>1, <2>2
<1>14. /\ Continues(flat, 0, p1) /\ Continues(flat, l1, p2) /\ Continues(flat, l1 + l2, p3)
    <2>1. ASSUME NEW k \in 1 .. 3 PROVE Continues(flat, G[k - 1], seqs[k])
        BY <1>7, <1>9 DEF Cut, Continues
    <2>2. /\ Continues(flat, G[0], seqs[1]) /\ Continues(flat, G[1], seqs[2])
          /\ Continues(flat, G[2], seqs[3])
        BY <2>1
    <2> QED BY <1>7, <1>13, <2>2
<1>15. Lies(flat, n1, i1, 0, l1)
    <2>1. PICK h : h = 0
        OBVIOUS
    <2>2. h \in Nat /\ Continues(flat, h, LowerBlock(b1))
        BY <1>1, <1>14, <2>1
    <2>3. Lies(flat, n1, i1, h, Len(LowerBlock(b1)))
        BY <2>2, BlockPlaced
    <2> QED BY <1>1, <1>10, <2>1, <2>3
<1>16. Lies(flat, n2, i2, l1, l2)
    <2>1. l1 \in Nat /\ Continues(flat, l1, LowerBlock(b2))
        BY <1>2, <1>14
    <2>2. Lies(flat, n2, i2, l1, Len(LowerBlock(b2)))
        BY <2>1, BlockPlaced
    <2> QED BY <1>2, <1>11, <2>2
<1>17. Lies(flat, n3, i3, l1 + l2, l3)
    <2>1. PICK h : h = l1 + l2
        OBVIOUS
    <2>2. h \in Nat /\ Continues(flat, h, LowerBlock(b3))
        BY <1>3, <1>14, <2>1
    <2>3. Lies(flat, n3, i3, h, Len(LowerBlock(b3)))
        BY <2>2, BlockPlaced
    <2> QED BY <1>3, <1>12, <2>1, <2>3
<1>18. PICK F1 : LaidOut(flat, n1, i1, F1) /\ F1[0] = 0 + 1 /\ F1[Len(i1)] = 0 + l1
    BY <1>15 DEF Lies
<1>19. PICK F2 : LaidOut(flat, n2, i2, F2) /\ F2[0] = l1 + 1 /\ F2[Len(i2)] = l1 + l2
    BY <1>16 DEF Lies
<1>20. PICK F3 : /\ LaidOut(flat, n3, i3, F3)
                 /\ F3[0] = l1 + l2 + 1 /\ F3[Len(i3)] = l1 + l2 + l3
    BY <1>17 DEF Lies
<1>21. /\ F1[0] = 1 /\ F2[0] = F1[Len(i1)] + 1 /\ F3[0] = F2[Len(i2)] + 1
       /\ F3[Len(i3)] = Len(flat)
    BY <1>13, <1>18, <1>19, <1>20
<1>22. Trio(flat, n1, n2, n3, i1, i2, i3, F1, F2, F3)
    BY <1>8, <1>18, <1>19, <1>20, <1>21 DEF Trio
<1> QED BY <1>5, <1>22 DEF Trisected

\* A label is at one of some places.
Sole(flat, name, f, S) ==
    /\ f \in S /\ flat[f] = Op("LABEL", name)
    /\ \A p \in S : p = f \/ flat[p] # Op("LABEL", name)

\* Three blocks cover the program: a label not of the others is at the start of its own.
LEMMA LabelOf ==
    ASSUME NEW flat, NEW n1, NEW n2, NEW n3, NEW i1, NEW i2, NEW i3,
           i1 \in Seq(Lowerable), i2 \in Seq(Lowerable), i3 \in Seq(Lowerable),
           NEW F1, NEW F2, NEW F3, Trio(flat, n1, n2, n3, i1, i2, i3, F1, F2, F3),
           NEW f, NEW name, Sole(flat, name, f, {F1[0], F2[0], F3[0]})
    PROVE  LabelIn(flat, name) = f
<1>10. /\ flat \in Seq(Opcodes)
       /\ LaidOut(flat, n1, i1, F1) /\ LaidOut(flat, n2, i2, F2) /\ LaidOut(flat, n3, i3, F3)
       /\ F1[0] = 1 /\ F2[0] = F1[Len(i1)] + 1 /\ F3[0] = F2[Len(i2)] + 1
       /\ F3[Len(i3)] = Len(flat)
    BY DEF Trio
<1>11. /\ f \in {F1[0], F2[0], F3[0]} /\ flat[f] = Op("LABEL", name)
       /\ \A p \in {F1[0], F2[0], F3[0]} : p = f \/ flat[p] # Op("LABEL", name)
    BY DEF Sole
<1>0. PICK n \in Nat : n = Len(flat)
    BY <1>10
<1>1. PICK a \in Nat : a = F1[Len(i1)]
    <2>1. Len(i1) \in 0 .. Len(i1)
        OBVIOUS
    <2> QED BY <1>10, <2>1 DEF LaidOut, Placed
<1>2. PICK b \in Nat : b = F2[Len(i2)]
    <2>1. Len(i2) \in 0 .. Len(i2)
        OBVIOUS
    <2> QED BY <1>10, <2>1 DEF LaidOut, Placed
<1>3. 1 <= a /\ a + 1 <= b /\ b + 1 <= n
    BY <1>0, <1>1, <1>2, <1>10 DEF LaidOut
<1>4. /\ \A p \in 2 .. a : flat[p] \in Plain
      /\ \A p \in a + 2 .. b : flat[p] \in Plain
      /\ \A p \in b + 2 .. n : flat[p] \in Plain
    <2>1. \A p \in 1 + 1 .. a : flat[p] \in Plain
        BY <1>1, <1>10 DEF LaidOut
    <2>2. \A p \in (a + 1) + 1 .. b : flat[p] \in Plain
        BY <1>1, <1>2, <1>10 DEF LaidOut
    <2>3. \A p \in (b + 1) + 1 .. n : flat[p] \in Plain
        BY <1>0, <1>2, <1>10 DEF LaidOut
    <2>4. 1 + 1 = 2 /\ (a + 1) + 1 = a + 2 /\ (b + 1) + 1 = b + 2
        OBVIOUS
    <2> QED BY <2>1, <2>2, <2>3, <2>4
<1>5. ASSUME NEW p \in 1 .. n PROVE p = f \/ flat[p] # Op("LABEL", name)
    <2>1. CASE p \in {1, a + 1, b + 1}
        BY <1>1, <1>2, <1>10, <1>11, <2>1
    <2>2. CASE p \notin {1, a + 1, b + 1}
        <3>1. p \in 2 .. a \/ p \in a + 2 .. b \/ p \in b + 2 .. n
            BY <1>3, <2>2
        <3>2. flat[p] \in Plain
            BY <1>4, <3>1
        <3> QED BY <3>2, PlainIs
    <2> QED BY <2>1, <2>2
<1>6. f \in 1 .. n /\ DOMAIN flat = 1 .. n
    BY <1>0, <1>1, <1>2, <1>3, <1>10, <1>11, SMTT(20)
<1>7. f \in DOMAIN flat /\ \A p \in DOMAIN flat : p = f \/ flat[p] # Op("LABEL", name)
    BY <1>5, <1>6
<1> QED BY <1>7, <1>10, <1>11, LabelAt

\* The code of a program with an IF.
LEMMA ForkedCode ==
    ASSUME NEW r \in Register, NEW c1, c1 \in Seq(Instruction), NEW c2, c2 \in Seq(Instruction),
           NEW c3, c3 \in Seq(Instruction), NEW blks,
           blks = <<Part("entry", c1, Cbr(r, "if.then", "if.cont")),
                    Part("if.then", c2, Br("if.cont")), Part("if.cont", c3, <<>>)>>
    PROVE  \E F1, F2, F3 : Fork(CodeOf(blks), r, c1, c2, c3, F1, F2, F3)
<1>1. PICK b1 : b1 = Part("entry", c1, Cbr(r, "if.then", "if.cont"))
    OBVIOUS
<1>2. PICK b2 : b2 = Part("if.then", c2, Br("if.cont"))
    OBVIOUS
<1>3. PICK b3 : b3 = Part("if.cont", c3, <<>>)
    OBVIOUS
<1>4. PICK n1 \in BlockName : n1 = "entry"
    BY DEF BlockName
<1>5. PICK n2 \in BlockName : n2 = "if.then"
    BY DEF BlockName
<1>6. PICK n3 \in BlockName : n3 = "if.cont"
    BY DEF BlockName
<1>7. PICK x \in Lowerable : x = Test(r)
    BY DEF Lowerable
<1>8. PICK y \in Lowerable : y = Jump
    BY DEF Lowerable
<1>9. PICK i1 : i1 = c1 \o <<x>>
    OBVIOUS
<1>10. PICK i2 : i2 = c2 \o <<y>>
    OBVIOUS
<1>11. c1 \in Seq(Lowerable) /\ c2 \in Seq(Lowerable) /\ c3 \in Seq(Lowerable)
    BY DEF Lowerable
<1>12. i1 \in Seq(Lowerable) /\ i2 \in Seq(Lowerable)
    <2>1. PICK S : S = Lowerable
        OBVIOUS
    <2>2. c1 \in Seq(S) /\ c2 \in Seq(S) /\ <<x>> \in Seq(S) /\ <<y>> \in Seq(S)
        BY <1>11, <2>1
    <2>3. c1 \o <<x>> \in Seq(S) /\ c2 \o <<y>> \in Seq(S)
        BY <2>2, ConcatIs
    <2> QED BY <1>9, <1>10, <2>1, <2>3
<1>13. /\ b1.name = n1 /\ b1.instrs = c1 /\ b1.terminator = <<x>>
       /\ b2.name = n2 /\ b2.instrs = c2 /\ b2.terminator = <<y>>
       /\ b3.name = n3 /\ b3.instrs = c3 /\ b3.terminator = <<>>
    BY <1>1, <1>2, <1>3, <1>4, <1>5, <1>6, <1>7, <1>8, EndsAre DEF Part
<1>14. i1 = InstrsOf(b1) /\ i2 = InstrsOf(b2) /\ c3 = InstrsOf(b3)
    <2>1. c3 \o <<>> = c3
        OBVIOUS
    <2> QED BY <1>9, <1>10, <1>13, <2>1, Zenon DEF InstrsOf
<1>15. blks = <<b1, b2, b3>>
    BY <1>1, <1>2, <1>3
<1>27. Trisected(CodeOf(<<b1, b2, b3>>), n1, n2, n3, i1, i2, c3)
    BY <1>11, <1>12, <1>13, <1>14, ThreeLaidOut
<1>28. PICK flat : flat = CodeOf(<<b1, b2, b3>>)
    OBVIOUS
<1>29. PICK F1, F2, F3 : Trio(flat, n1, n2, n3, i1, i2, c3, F1, F2, F3)
    BY <1>27, <1>28 DEF Trisected
<1>16. /\ flat \in Seq(Opcodes)
       /\ LaidOut(flat, n1, i1, F1) /\ LaidOut(flat, n2, i2, F2)
       /\ LaidOut(flat, n3, c3, F3)
       /\ F1[0] = 1 /\ F2[0] = F1[Len(i1)] + 1 /\ F3[0] = F2[Len(i2)] + 1
       /\ F3[Len(c3)] = Len(flat)
    BY <1>29 DEF Trio
<1>17. flat = CodeOf(blks)
    BY <1>15, <1>28
<1>18. /\ flat[F1[0]] = Op("LABEL", n1) /\ flat[F2[0]] = Op("LABEL", n2)
       /\ flat[F3[0]] = Op("LABEL", n3)
    BY <1>16 DEF LaidOut
<1>19. /\ Op("LABEL", n1) # Op("LABEL", n2) /\ Op("LABEL", n1) # Op("LABEL", n3)
       /\ Op("LABEL", n2) # Op("LABEL", n3)
    BY <1>4, <1>5, <1>6 DEF Op
<1>20. LabelIn(flat, n2) = F2[0]
    <2>1. F2[0] \in {F1[0], F2[0], F3[0]}
        OBVIOUS
    <2>2. \A p \in {F1[0], F2[0], F3[0]} : p = F2[0] \/ flat[p] # Op("LABEL", n2)
        BY <1>18, <1>19
    <2>3. Sole(flat, n2, F2[0], {F1[0], F2[0], F3[0]})
        BY <1>18, <2>1, <2>2 DEF Sole
    <2> QED BY <1>11, <1>12, <1>29, <2>3, LabelOf
<1>21. LabelIn(flat, n3) = F3[0]
    <2>1. F3[0] \in {F1[0], F2[0], F3[0]}
        OBVIOUS
    <2>2. \A p \in {F1[0], F2[0], F3[0]} : p = F3[0] \/ flat[p] # Op("LABEL", n3)
        BY <1>18, <1>19
    <2>3. Sole(flat, n3, F3[0], {F1[0], F2[0], F3[0]})
        BY <1>18, <2>1, <2>2 DEF Sole
    <2> QED BY <1>11, <1>12, <1>29, <2>3, LabelOf
<1>22. F1[Len(i1)] <= Len(flat) /\ F2[Len(i2)] <= Len(flat) /\ F3[Len(c3)] <= Len(flat)
    <2>1. F2[0] <= F2[Len(i2)] /\ F3[0] <= F3[Len(c3)]
        BY <1>16 DEF LaidOut
    <2>2. F1[Len(i1)] \in Nat /\ F2[Len(i2)] \in Nat /\ Len(flat) \in Nat
        <3>1. Len(i1) \in 0 .. Len(i1) /\ Len(i2) \in 0 .. Len(i2)
            BY <1>12
        <3> QED BY <1>16, <3>1 DEF LaidOut, Placed
    <2> QED BY <1>16, <2>1, <2>2
<1>23. Spans(flat, n1, c1, F1) /\ There(flat, LowerInstr(x), F1[Len(c1)])
    BY <1>9, <1>11, <1>16, <1>22, SpansAndExits
<1>24. Spans(flat, n2, c2, F2) /\ There(flat, LowerInstr(y), F2[Len(c2)])
    BY <1>10, <1>11, <1>16, <1>22, SpansAndExits
<1>25. Spans(flat, n3, c3, F3)
    BY <1>11, <1>16, <1>22, WholeSpans
<1>26. Fork(flat, r, c1, c2, c3, F1, F2, F3)
    BY <1>4, <1>5, <1>6, <1>7, <1>8, <1>16, <1>20, <1>21, <1>23, <1>24, <1>25 DEF Fork
<1> QED BY <1>17, <1>26
-----------------------------------------------------------------------------
(* Compilable programs: the VM runs them *)

\* What the interpreter has in the end, with the names the analyser knows.
AgreesOn(q, st, names) ==
    /\ st \in Machine
    /\ st.printed = q.out /\ Alike(st.files, q.files) /\ st.failed = q.raised
    /\ \A x \in Var : Name(x) \in DOMAIN st.slots => x \in names

\* The VM in a program of one block.
InStraight(c, F, prog, at, ops, vm) ==
    /\ Spans(prog, "entry", c, F) /\ F[0] = 1 /\ F[Len(c)] = Len(prog)
    /\ Performs(c, F, Zero, at, ops, vm)
RunsStraight(q, names, prog, at, ops, vm) ==
    \E c, F : /\ c \in Seq(Instruction) /\ AgreesOn(q, Final(c, Zero), names)
              /\ InStraight(c, F, prog, at, ops, vm)

\* It takes a step in it.
LEMMA StraightStep ==
    ASSUME NEW q, NEW names, RunsStraight(q, names, code, pc, operands, Vm), VmStep
    PROVE  /\ code' = code
           /\ \E at, ops, vm :
                 /\ at = pc' /\ ops = operands' /\ vm = Vm'
                 /\ RunsStraight(q, names, code, at, ops, vm)
<1>1. PICK c, F : /\ c \in Seq(Instruction) /\ AgreesOn(q, Final(c, Zero), names)
                  /\ InStraight(c, F, code, pc, operands, Vm)
    BY DEF RunsStraight
<1>2. /\ Spans(code, "entry", c, F) /\ F[0] = 1 /\ F[Len(c)] = Len(code)
      /\ Performs(c, F, Zero, pc, operands, Vm)
    BY <1>1 DEF InStraight
<1>3. code \in Seq(Opcodes) /\ Placed(code, c, F) /\ code[F[0]] = Op("LABEL", "entry")
    BY <1>2 DEF Spans
<1>4. ~Performed(c, F, Zero, pc, operands, Vm)
    <2>1. PICK n \in Nat : n = Len(code)
        BY <1>3
    <2>2. DOMAIN code = 1 .. n
        BY <1>3, <2>1
    <2>3. pc \in 1 .. n
        BY <2>2, VmRuns
    <2>4. pc # n + 1
        BY <2>3
    <2> QED BY <1>2, <2>1, <2>4 DEF Performed
<1>5. Zero \in Machine
    BY ZeroIs
<1>6. PICK name : name = "entry"
    OBVIOUS
<1>7. code[F[0]] = Op("LABEL", name)
    BY <1>3, <1>6
<1>8. code' = code /\ \E at, ops, vm : /\ at = pc' /\ ops = operands' /\ vm = Vm'
                                       /\ Performs(c, F, Zero, at, ops, vm)
    BY <1>1, <1>2, <1>3, <1>4, <1>5, <1>7, PerformsStep
<1>9. PICK at, ops, vm : /\ at = pc' /\ ops = operands' /\ vm = Vm'
                         /\ Performs(c, F, Zero, at, ops, vm)
    BY <1>8
<1>10. InStraight(c, F, code, at, ops, vm)
    BY <1>2, <1>9 DEF InStraight
<1>11. RunsStraight(q, names, code, at, ops, vm)
    BY <1>1, <1>10 DEF RunsStraight
<1> QED BY <1>8, <1>9, <1>11

\* The VM goes on in a section, at the end of which it may be.
PerformsNext(c, F, st) ==
    /\ code' = code
    /\ \E at, ops, vm :
          /\ at = pc' /\ ops = operands' /\ vm = Vm'
          /\ Performs(c, F, st, at, ops, vm)

\* In a section it takes a step, or is at its end.
LEMMA SpanStep ==
    ASSUME NEW name, NEW c, c \in Seq(Instruction), NEW F, NEW st, st \in Machine,
           Spans(code, name, c, F), Performs(c, F, st, pc, operands, Vm), VmStep
    PROVE  Performed(c, F, st, pc, operands, Vm) \/ PerformsNext(c, F, st)
<1>1. Placed(code, c, F) /\ code[F[0]] = Op("LABEL", name)
    BY DEF Spans
<1> QED BY <1>1, PerformsStep DEF PerformsNext

\* The label that code has.
LEMMA LabelIs ==
    ASSUME NEW name
    PROVE  Label(name) = LabelIn(code, name)
BY DEF Label, LabelIn

\* The code of the exits.
LEMMA ExitsAre ==
    ASSUME NEW r \in Register, NEW prog, NEW f, f \in Nat
    PROVE  /\ There(prog, LowerInstr(Test(r)), f) =>
                 /\ prog[f + 1] = Op("LOAD", r) /\ prog[f + 2] = Op("JMP_IF", "if.then")
                 /\ prog[f + 3] = Op("JMP", "if.cont")
                 /\ f + 1 <= Len(prog) /\ f + 2 <= Len(prog) /\ f + 3 <= Len(prog)
           /\ There(prog, LowerInstr(Jump), f) =>
                 prog[f + 1] = Op("JMP", "if.cont") /\ f + 1 <= Len(prog)
<1>1. PICK a : a = Op("LOAD", r)
    OBVIOUS
<1>2. PICK b : b = Op("JMP_IF", "if.then")
    OBVIOUS
<1>3. PICK d : d = Op("JMP", "if.cont")
    OBVIOUS
<1>4. LowerInstr(Test(r)) = <<a, b, d>> /\ LowerInstr(Jump) = <<d>>
    BY <1>1, <1>2, <1>3, EndsAre
<1>5. ASSUME There(prog, LowerInstr(Test(r)), f)
      PROVE  /\ prog[f + 1] = a /\ prog[f + 2] = b /\ prog[f + 3] = d
             /\ f + 1 <= Len(prog) /\ f + 2 <= Len(prog) /\ f + 3 <= Len(prog)
    <2>1. PICK y : y = <<a, b, d>>
        OBVIOUS
    <2>2. Len(y) = 3 /\ y[1] = a /\ y[2] = b /\ y[3] = d
        BY <2>1
    <2>3. \A m \in 1 .. 3 : prog[f + m] = y[m] /\ f + m <= Len(prog)
        BY <1>4, <1>5, <2>1, <2>2 DEF There
    <2>4. /\ prog[f + 1] = y[1] /\ prog[f + 2] = y[2] /\ prog[f + 3] = y[3]
          /\ f + 1 <= Len(prog) /\ f + 2 <= Len(prog) /\ f + 3 <= Len(prog)
        BY <2>3
    <2> QED BY <2>2, <2>4
<1>6. ASSUME There(prog, LowerInstr(Jump), f)
      PROVE  prog[f + 1] = d /\ f + 1 <= Len(prog)
    <2>1. PICK y : y = <<d>>
        OBVIOUS
    <2>2. Len(y) = 1 /\ y[1] = d /\ 1 \in 1 .. 1
        BY <2>1
    <2>3. \A m \in 1 .. 1 : prog[f + m] = y[m] /\ f + m <= Len(prog)
        BY <1>4, <1>6, <2>1, <2>2 DEF There
    <2> QED BY <2>2, <2>3
<1> QED BY <1>1, <1>2, <1>3, <1>5, <1>6

\* The VM at the test, t being the machine then: the operand is pushed, or it was 0.
Tests(q, r, f, t, at, ops, vm) ==
    /\ vm = t
    /\ \/ at = f + 2 /\ ops = <<Held(r, t)>>
       \/ at = f + 3 /\ ops = <<>> /\ ~q.taken

\* The VM in a program of three blocks.
InForked(q, r, c1, c2, c3, F1, F2, F3, at, ops, vm) ==
    \/ Performs(c1, F1, Zero, at, ops, vm)
    \/ Tests(q, r, F1[Len(c1)], Final(c1, Zero), at, ops, vm)
    \/ q.taken /\ Performs(c2, F2, Final(c1, Zero), at, ops, vm)
    \/ Performs(c3, F3, Through(q, c2, Final(c1, Zero)), at, ops, vm)
InForkedNext(q, r, c1, c2, c3, F1, F2, F3) ==
    /\ code' = code
    /\ \E at, ops, vm :
          /\ at = pc' /\ ops = operands' /\ vm = Vm'
          /\ InForked(q, r, c1, c2, c3, F1, F2, F3, at, ops, vm)

\* Where the condition is looked at.
LEMMA TestsStep ==
    ASSUME NEW q, NEW r \in Register, NEW c1, c1 \in Seq(Instruction), NEW c2, NEW c3,
           NEW F1, NEW F2, NEW F3, Fork(code, r, c1, c2, c3, F1, F2, F3),
           Branches(q, r, Final(c1, Zero)),
           \/ Performed(c1, F1, Zero, pc, operands, Vm)
           \/ Tests(q, r, F1[Len(c1)], Final(c1, Zero), pc, operands, Vm),
           VmStep
    PROVE  InForkedNext(q, r, c1, c2, c3, F1, F2, F3)
<1>1. PICK f : f = F1[Len(c1)]
    OBVIOUS
<1>2. PICK t : t = Final(c1, Zero)
    OBVIOUS
<1>3. f \in Nat
    <2>1. Len(c1) \in 0 .. Len(c1)
        OBVIOUS
    <2> QED BY <1>1, <2>1 DEF Fork, Spans, Placed
<1>4. /\ code[f + 1] = Op("LOAD", r) /\ code[f + 2] = Op("JMP_IF", "if.then")
      /\ code[f + 3] = Op("JMP", "if.cont")
    BY <1>1, <1>3, ExitsAre DEF Fork
<1>5. Label("if.then") = F2[0] /\ Label("if.cont") = F3[0]
    BY LabelIs DEF Fork
<1>6. CASE Performed(c1, F1, Zero, pc, operands, Vm)
    <2>1. pc = f + 1 /\ operands = <<>> /\ Vm = t
        BY <1>1, <1>2, <1>6 DEF Performed
    <2>2. code[pc] = Op("LOAD", r)
        BY <1>4, <2>1
    <2>3. /\ code' = code /\ pc' = pc + 1 /\ operands' = Append(operands, Held(r, Vm))
          /\ Vm' = Vm
        BY <2>2, VmLoads
    <2>4. operands' = <<Held(r, t)>>
        BY <2>1, <2>3, Short1
    <2>5. pc' = f + 2
        BY <1>3, <2>1, <2>3
    <2>6. PICK at, ops, vm : at = pc' /\ ops = operands' /\ vm = Vm'
        OBVIOUS
    <2>7. Tests(q, r, f, t, at, ops, vm)
        BY <2>1, <2>3, <2>4, <2>5, <2>6 DEF Tests
    <2>8. InForked(q, r, c1, c2, c3, F1, F2, F3, at, ops, vm)
        BY <1>1, <1>2, <2>7 DEF InForked
    <2> QED BY <2>3, <2>6, <2>8 DEF InForkedNext
<1>7. CASE Tests(q, r, f, t, pc, operands, Vm)
    <2>0. Vm = t /\ ~t.failed
        <3>1. ~Vm.failed
            BY VmRuns DEF Vm
        <3> QED BY <1>7, <3>1 DEF Tests
    <2>1. CASE pc = f + 2 /\ operands = <<Held(r, t)>>
        <3>1. code[pc] = Op("JMP_IF", "if.then")
            BY <1>4, <2>1
        <3>2. PICK name : name = "if.then"
            OBVIOUS
        <3>3. /\ code' = code /\ operands' = Front(operands) /\ Vm' = Vm
              /\ pc' = IF Last(operands) # Num(0) THEN Label(name) ELSE pc + 1
            BY <3>1, <3>2, VmTests
        <3>4. operands' = <<>> /\ Last(operands) = Held(r, t)
            BY <2>1, <3>3, Short1
        <3>5. Held(r, t) # Num(0) <=> q.taken
            BY <1>2, <2>0 DEF Branches
        <3>6. PICK at, ops, vm : at = pc' /\ ops = operands' /\ vm = Vm'
            OBVIOUS
        <3>7. CASE q.taken
            <4>1. at = F2[0] /\ ops = <<>> /\ vm = t
                BY <1>5, <2>0, <3>2, <3>3, <3>4, <3>5, <3>6, <3>7
            <4>2. Performs(c2, F2, t, at, ops, vm)
                BY <4>1 DEF Performs
            <4>3. InForked(q, r, c1, c2, c3, F1, F2, F3, at, ops, vm)
                BY <1>2, <3>7, <4>2 DEF InForked
            <4> QED BY <3>3, <3>6, <4>3 DEF InForkedNext
        <3>8. CASE ~q.taken
            <4>1. at = f + 3 /\ ops = <<>> /\ vm = t
                BY <1>3, <2>0, <2>1, <3>3, <3>4, <3>5, <3>6, <3>8
            <4>2. Tests(q, r, f, t, at, ops, vm)
                BY <3>8, <4>1 DEF Tests
            <4>3. InForked(q, r, c1, c2, c3, F1, F2, F3, at, ops, vm)
                BY <1>1, <1>2, <4>2 DEF InForked
            <4> QED BY <3>3, <3>6, <4>3 DEF InForkedNext
        <3> QED BY <3>7, <3>8
    <2>2. CASE pc = f + 3 /\ operands = <<>> /\ ~q.taken
        <3>1. code[pc] = Op("JMP", "if.cont")
            BY <1>4, <2>2
        <3>2. PICK name : name = "if.cont"
            OBVIOUS
        <3>3. code' = code /\ pc' = Label(name) /\ operands' = operands /\ Vm' = Vm
            BY <3>1, <3>2, VmJumps
        <3>4. PICK at, ops, vm : at = pc' /\ ops = operands' /\ vm = Vm'
            OBVIOUS
        <3>5. at = F3[0] /\ ops = <<>> /\ vm = t
            BY <1>5, <2>0, <2>2, <3>2, <3>3, <3>4
        <3>6. Through(q, c2, t) = t
            BY <2>2 DEF Through
        <3>7. Performs(c3, F3, Through(q, c2, t), at, ops, vm)
            BY <3>5, <3>6 DEF Performs
        <3>8. InForked(q, r, c1, c2, c3, F1, F2, F3, at, ops, vm)
            BY <1>2, <3>7 DEF InForked
        <3> QED BY <3>3, <3>4, <3>8 DEF InForkedNext
    <2> QED BY <1>7, <2>1, <2>2 DEF Tests
<1> QED BY <1>1, <1>2, <1>6, <1>7

\* A program of three blocks, run.
RunsForked(q, names, prog, at, ops, vm) ==
    \E r, c1, c2, c3, F1, F2, F3 :
        /\ r \in Register
        /\ c1 \in Seq(Instruction) /\ c2 \in Seq(Instruction) /\ c3 \in Seq(Instruction)
        /\ Branches(q, r, Final(c1, Zero))
        /\ AgreesOn(q, Final(c3, Through(q, c2, Final(c1, Zero))), names)
        /\ Fork(prog, r, c1, c2, c3, F1, F2, F3)
        /\ InForked(q, r, c1, c2, c3, F1, F2, F3, at, ops, vm)

\* It takes a step in it.
LEMMA ForkedSteps ==
    ASSUME NEW q, NEW r \in Register, NEW c1, c1 \in Seq(Instruction),
           NEW c2, c2 \in Seq(Instruction), NEW c3, c3 \in Seq(Instruction),
           NEW F1, NEW F2, NEW F3, Fork(code, r, c1, c2, c3, F1, F2, F3),
           Branches(q, r, Final(c1, Zero)),
           InForked(q, r, c1, c2, c3, F1, F2, F3, pc, operands, Vm), VmStep
    PROVE  InForkedNext(q, r, c1, c2, c3, F1, F2, F3)
<1>1. PICK t \in Machine : t = Final(c1, Zero)
    BY ThroughIs
<1>2. PICK u \in Machine : u = Through(q, c2, t)
    BY <1>1, ThroughIs
<1>3. /\ Spans(code, "entry", c1, F1) /\ Spans(code, "if.then", c2, F2)
      /\ Spans(code, "if.cont", c3, F3) /\ F3[Len(c3)] = Len(code)
      /\ There(code, LowerInstr(Jump), F2[Len(c2)])
    BY DEF Fork
<1>4. CASE Performs(c1, F1, Zero, pc, operands, Vm)
    <2>1. Performed(c1, F1, Zero, pc, operands, Vm) \/ PerformsNext(c1, F1, Zero)
        <3>1. PICK name : name = "entry"
            OBVIOUS
        <3>2. Spans(code, name, c1, F1) /\ Zero \in Machine
            BY <1>3, <3>1, ZeroIs
        <3> QED BY <1>4, <3>2, SpanStep
    <2>2. CASE Performed(c1, F1, Zero, pc, operands, Vm)
        BY <2>2, TestsStep
    <2>3. CASE PerformsNext(c1, F1, Zero)
        <3>1. code' = code
            BY <2>3 DEF PerformsNext
        <3>2. PICK at, ops, vm : /\ at = pc' /\ ops = operands' /\ vm = Vm'
                                 /\ Performs(c1, F1, Zero, at, ops, vm)
            BY <2>3 DEF PerformsNext
        <3>3. InForked(q, r, c1, c2, c3, F1, F2, F3, at, ops, vm)
            BY <3>2 DEF InForked
        <3> QED BY <3>1, <3>2, <3>3 DEF InForkedNext
    <2> QED BY <2>1, <2>2, <2>3
<1>5. CASE Tests(q, r, F1[Len(c1)], Final(c1, Zero), pc, operands, Vm)
    BY <1>5, TestsStep
<1>6. CASE q.taken /\ Performs(c2, F2, Final(c1, Zero), pc, operands, Vm)
    <2>1. Performed(c2, F2, t, pc, operands, Vm) \/ PerformsNext(c2, F2, t)
        <3>1. PICK name : name = "if.then"
            OBVIOUS
        <3>2. Spans(code, name, c2, F2) /\ Performs(c2, F2, t, pc, operands, Vm)
            BY <1>1, <1>3, <1>6, <3>1
        <3> QED BY <3>2, SpanStep
    <2>2. CASE Performed(c2, F2, t, pc, operands, Vm)
        <3>1. PICK f \in Nat : f = F2[Len(c2)]
            <4>1. Len(c2) \in 0 .. Len(c2)
                OBVIOUS
            <4> QED BY <1>3, <4>1 DEF Spans, Placed
        <3>2. pc = f + 1 /\ operands = <<>> /\ Vm = Final(c2, t)
            BY <2>2, <3>1 DEF Performed
        <3>3. code[pc] = Op("JMP", "if.cont")
            BY <1>3, <3>1, <3>2, ExitsAre
        <3>4. PICK name : name = "if.cont"
            OBVIOUS
        <3>5. code' = code /\ pc' = Label(name) /\ operands' = operands /\ Vm' = Vm
            BY <3>3, <3>4, VmJumps
        <3>6. PICK at, ops, vm : at = pc' /\ ops = operands' /\ vm = Vm'
            OBVIOUS
        <3>7. Label(name) = F3[0]
            BY <3>4, LabelIs DEF Fork
        <3>8. u = Final(c2, t)
            BY <1>2, <1>6 DEF Through
        <3>9. at = F3[0] /\ ops = <<>> /\ vm = u
            BY <3>2, <3>5, <3>6, <3>7, <3>8
        <3>10. Performs(c3, F3, Through(q, c2, Final(c1, Zero)), at, ops, vm)
            BY <1>1, <1>2, <3>9 DEF Performs
        <3>11. InForked(q, r, c1, c2, c3, F1, F2, F3, at, ops, vm)
            BY <3>10 DEF InForked
        <3> QED BY <3>5, <3>6, <3>11 DEF InForkedNext
    <2>3. CASE PerformsNext(c2, F2, t)
        <3>1. code' = code
            BY <2>3 DEF PerformsNext
        <3>2. PICK at, ops, vm : /\ at = pc' /\ ops = operands' /\ vm = Vm'
                                 /\ Performs(c2, F2, t, at, ops, vm)
            BY <2>3 DEF PerformsNext
        <3>3. InForked(q, r, c1, c2, c3, F1, F2, F3, at, ops, vm)
            BY <1>1, <1>6, <3>2 DEF InForked
        <3> QED BY <3>1, <3>2, <3>3 DEF InForkedNext
    <2> QED BY <2>1, <2>2, <2>3
<1>7. CASE Performs(c3, F3, Through(q, c2, Final(c1, Zero)), pc, operands, Vm)
    <2>1. Performed(c3, F3, u, pc, operands, Vm) \/ PerformsNext(c3, F3, u)
        <3>1. PICK name : name = "if.cont"
            OBVIOUS
        <3>2. Spans(code, name, c3, F3) /\ Performs(c3, F3, u, pc, operands, Vm)
            BY <1>1, <1>2, <1>3, <1>7, <3>1
        <3> QED BY <3>2, SpanStep
    <2>2. ~Performed(c3, F3, u, pc, operands, Vm)
        <3>1. PICK n \in Nat : n = Len(code) /\ DOMAIN code = 1 .. n
            BY <1>3 DEF Spans
        <3>2. pc \in 1 .. n
            BY <3>1, VmRuns
        <3>3. pc # n + 1
            BY <3>2
        <3> QED BY <1>3, <3>1, <3>3 DEF Performed
    <2>3. code' = code
        BY <2>1, <2>2 DEF PerformsNext
    <2>4. PICK at, ops, vm : /\ at = pc' /\ ops = operands' /\ vm = Vm'
                             /\ Performs(c3, F3, u, at, ops, vm)
        BY <2>1, <2>2 DEF PerformsNext
    <2>5. InForked(q, r, c1, c2, c3, F1, F2, F3, at, ops, vm)
        BY <1>1, <1>2, <2>4 DEF InForked
    <2> QED BY <2>3, <2>4, <2>5 DEF InForkedNext
<1> QED BY <1>4, <1>5, <1>6, <1>7 DEF InForked

\* The program of three blocks stays the one that runs.
LEMMA ForkedStep ==
    ASSUME NEW q, NEW names, RunsForked(q, names, code, pc, operands, Vm), VmStep
    PROVE  /\ code' = code
           /\ \E at, ops, vm :
                 /\ at = pc' /\ ops = operands' /\ vm = Vm'
                 /\ RunsForked(q, names, code, at, ops, vm)
<1>1. PICK r, c1, c2, c3, F1, F2, F3 :
          /\ r \in Register
          /\ c1 \in Seq(Instruction) /\ c2 \in Seq(Instruction) /\ c3 \in Seq(Instruction)
          /\ Branches(q, r, Final(c1, Zero))
          /\ AgreesOn(q, Final(c3, Through(q, c2, Final(c1, Zero))), names)
          /\ Fork(code, r, c1, c2, c3, F1, F2, F3)
          /\ InForked(q, r, c1, c2, c3, F1, F2, F3, pc, operands, Vm)
    BY DEF RunsForked
<1>2. InForkedNext(q, r, c1, c2, c3, F1, F2, F3)
    BY <1>1, ForkedSteps
<1>3. code' = code
    BY <1>2 DEF InForkedNext
<1>4. PICK at, ops, vm : /\ at = pc' /\ ops = operands' /\ vm = Vm'
                         /\ InForked(q, r, c1, c2, c3, F1, F2, F3, at, ops, vm)
    BY <1>2 DEF InForkedNext
<1>5. RunsForked(q, names, code, at, ops, vm)
    BY <1>1, <1>4 DEF RunsForked
<1> QED BY <1>3, <1>4, <1>5

\* What is done in a section is part of what it does in the end.
LEMMA SpanEnds ==
    ASSUME NEW prog, NEW name, NEW c, c \in Seq(Instruction), NEW F, NEW st, st \in Machine,
           Spans(prog, name, c, F), NEW at, NEW ops, NEW vm, Performs(c, F, st, at, ops, vm)
    PROVE  /\ vm \in Machine /\ Below(vm, Final(c, st)) /\ (vm.failed => vm = Final(c, st))
           /\ at = Len(prog) + 1 => vm.failed \/ (vm = Final(c, st) /\ F[Len(c)] = Len(prog))
<1>1. PICK T : T = Trace(c, st)
    OBVIOUS
<1>2. PICK n \in Nat : n = Len(c)
    OBVIOUS
<1>3. T \in [0 .. n -> Machine] /\ T[0] = st /\ T[n] = Final(c, st)
    BY <1>1, <1>2, TraceIs DEF Final
<1>4. \A k \in 0 .. n : Below(T[k], Final(c, st)) /\ (T[k].failed => Final(c, st) = T[k])
    BY <1>1, <1>2, TraceGoesOn
<1>5. PICK l \in Nat : l = Len(prog)
    BY DEF Spans
<1>6. (\A k \in 0 .. n : F[k] \in Nat /\ F[k] <= l)
    BY <1>2, <1>5 DEF Spans, Placed
<1>7. CASE at = F[0] /\ vm = st
    <2>1. 0 \in 0 .. n
        BY <1>2
    <2>2. F[0] # l + 1
        BY <1>6, <2>1
    <2> QED BY <1>3, <1>4, <1>5, <1>7, <2>1, <2>2
<1>8. ASSUME NEW k \in 0 .. n, vm = T[k],
             \/ vm.failed
             \/ k = n /\ at = F[k] + 1
             \/ k < n /\ \E m \in Nat : m < Len(LowerInstr(c[k + 1])) /\ at = F[k] + m + 1
      PROVE  /\ vm \in Machine /\ Below(vm, Final(c, st)) /\ (vm.failed => vm = Final(c, st))
             /\ at = Len(prog) + 1 => vm.failed \/ (vm = Final(c, st) /\ F[Len(c)] = Len(prog))
    <2>1. Below(vm, Final(c, st)) /\ (vm.failed => vm = Final(c, st))
        BY <1>4, <1>8
    <2>5. vm \in Machine
        BY <1>3, <1>8
    <2>2. CASE vm.failed
        BY <2>1, <2>2, <2>5
    <2>3. CASE k = n /\ at = F[k] + 1
        BY <1>2, <1>3, <1>5, <1>6, <1>8, <2>1, <2>3
    <2>4. ASSUME k < n, NEW m \in Nat, m < Len(LowerInstr(c[k + 1])), at = F[k] + m + 1
          PROVE  at # l + 1
        <3>1. k + 1 \in 1 .. Len(c) /\ (k + 1) - 1 = k
            BY <1>2, <2>4
        <3>2. PICK y : y = LowerInstr(c[k + 1])
            OBVIOUS
        <3>3. y \in Seq(Plain)
            <4>1. PICK i \in Instruction : i = c[k + 1]
                BY <3>1
            <4> QED BY <3>2, <4>1, LoweredIs
        <3>4. m + 1 \in 1 .. Len(y)
            BY <2>4, <3>2, <3>3
        <3>5. F[k] + (m + 1) <= l
            <4>1. \A j \in 1 .. Len(y) : F[(k + 1) - 1] + j <= l
                BY <1>5, <3>1, <3>2 DEF Spans
            <4> QED BY <3>1, <3>4, <4>1
        <3> QED BY <1>6, <2>4, <3>5
    <2> QED BY <1>5, <1>8, <2>1, <2>2, <2>3, <2>4, <2>5
<1> QED BY <1>1, <1>2, <1>7, <1>8 DEF Performs

\* What the VM has done is part of what the interpreter has, and all of it at the end.
RunsRight(q, names, prog, at, vm) ==
    /\ IsPrefix(vm.printed, q.out) /\ DOMAIN vm.files \subseteq DOMAIN q.files
    /\ at = Len(prog) + 1 \/ vm.failed =>
          vm.printed = q.out /\ Alike(vm.files, q.files) /\ vm.failed = q.raised
    /\ \A x \in Var : Name(x) \in DOMAIN vm.slots => x \in names

\* It has if u is the machine in the end.
LEMMA RightIf ==
    ASSUME NEW q, NEW names, NEW prog, NEW at, NEW vm, NEW u, AgreesOn(q, u, names),
           Below(vm, u), at = Len(prog) + 1 \/ vm.failed => vm = u
    PROVE  RunsRight(q, names, prog, at, vm)
<1>1. /\ u.printed = q.out /\ Alike(u.files, q.files) /\ u.failed = q.raised
      /\ \A x \in Var : Name(x) \in DOMAIN u.slots => x \in names
    BY DEF AgreesOn
<1>2. /\ IsPrefix(vm.printed, u.printed)
      /\ DOMAIN vm.files \subseteq DOMAIN u.files /\ DOMAIN vm.slots \subseteq DOMAIN u.slots
    BY DEF Below
<1>3. DOMAIN u.files = DOMAIN q.files
    BY <1>1 DEF Alike
<1>4. CASE at = Len(prog) + 1 \/ vm.failed
    <2>1. vm = u
        BY <1>4
    <2> QED BY <1>1, <1>2, <1>3, <2>1 DEF RunsRight
<1>5. CASE ~(at = Len(prog) + 1 \/ vm.failed)
    BY <1>1, <1>2, <1>3, <1>5 DEF RunsRight
<1> QED BY <1>4, <1>5

\* A program of one block has done what the interpreter has.
LEMMA StraightRight ==
    ASSUME NEW q, NEW names, NEW prog, NEW at, NEW ops, NEW vm,
           RunsStraight(q, names, prog, at, ops, vm)
    PROVE  RunsRight(q, names, prog, at, vm)
<1>1. PICK c, F : /\ c \in Seq(Instruction) /\ AgreesOn(q, Final(c, Zero), names)
                  /\ InStraight(c, F, prog, at, ops, vm)
    BY DEF RunsStraight
<1>2. PICK name : name = "entry"
    OBVIOUS
<1>3. Spans(prog, name, c, F) /\ Performs(c, F, Zero, at, ops, vm)
    BY <1>1, <1>2 DEF InStraight
<1>4. /\ Below(vm, Final(c, Zero)) /\ (vm.failed => vm = Final(c, Zero))
      /\ at = Len(prog) + 1 => vm.failed \/ (vm = Final(c, Zero) /\ F[Len(c)] = Len(prog))
    BY <1>1, <1>3, ZeroIs, SpanEnds
<1> QED BY <1>1, <1>4, RightIf

\* A section goes on from the machine before it.
LEMMA FinalGoesOn ==
    ASSUME NEW c, c \in Seq(Instruction), NEW st, st \in Machine
    PROVE  /\ Final(c, st) \in Machine /\ Below(st, Final(c, st))
           /\ st.failed => Final(c, st) = st
<1>1. Trace(c, st)[0] = st /\ Final(c, st) \in Machine
    BY TraceIs
<1>2. PICK k \in 0 .. Len(c) : k = 0
    OBVIOUS
<1>3. /\ Below(Trace(c, st)[k], Final(c, st))
      /\ Trace(c, st)[k].failed => Final(c, st) = Trace(c, st)[k]
    BY TraceGoesOn
<1> QED BY <1>1, <1>2, <1>3

\* So has one of three.
LEMMA ForkedRight ==
    ASSUME NEW q, NEW names, NEW prog, NEW at, NEW ops, NEW vm,
           RunsForked(q, names, prog, at, ops, vm)
    PROVE  RunsRight(q, names, prog, at, vm)
<1>1. PICK r, c1, c2, c3, F1, F2, F3 :
          /\ r \in Register
          /\ c1 \in Seq(Instruction) /\ c2 \in Seq(Instruction) /\ c3 \in Seq(Instruction)
          /\ Branches(q, r, Final(c1, Zero))
          /\ AgreesOn(q, Final(c3, Through(q, c2, Final(c1, Zero))), names)
          /\ Fork(prog, r, c1, c2, c3, F1, F2, F3)
          /\ InForked(q, r, c1, c2, c3, F1, F2, F3, at, ops, vm)
    BY DEF RunsForked
<1>2. PICK t : t = Final(c1, Zero)
    OBVIOUS
<1>3. PICK w : w = Final(c2, t)
    OBVIOUS
<1>4. PICK u : u = Through(q, c2, t)
    OBVIOUS
<1>5. PICK v : v = Final(c3, u)
    OBVIOUS
<1>6. t \in Machine /\ w \in Machine /\ Below(t, w) /\ (t.failed => w = t)
    BY <1>1, <1>2, <1>3, ZeroIs, FinalGoesOn
<1>7. u = IF q.taken THEN w ELSE t
    BY <1>3, <1>4 DEF Through
<1>8. u \in Machine /\ Below(t, u) /\ (t.failed => u = t)
    BY <1>6, <1>7, BelowOrder
<1>9. v \in Machine /\ Below(u, v) /\ (u.failed => v = u)
    BY <1>1, <1>5, <1>8, FinalGoesOn
<1>10. Below(t, v) /\ (t.failed => v = t)
    BY <1>6, <1>8, <1>9, BelowOrder
<1>11. AgreesOn(q, v, names)
    BY <1>1, <1>2, <1>4, <1>5
<1>12. /\ Spans(prog, "entry", c1, F1) /\ Spans(prog, "if.then", c2, F2)
       /\ Spans(prog, "if.cont", c3, F3)
       /\ There(prog, LowerInstr(Test(r)), F1[Len(c1)])
       /\ There(prog, LowerInstr(Jump), F2[Len(c2)])
    BY <1>1 DEF Fork
<1>13. PICK f \in Nat : f = F1[Len(c1)]
    <2>1. Len(c1) \in 0 .. Len(c1)
        BY <1>1
    <2> QED BY <1>12, <2>1 DEF Spans, Placed
<1>14. PICK g \in Nat : g = F2[Len(c2)]
    <2>1. Len(c2) \in 0 .. Len(c2)
        BY <1>1
    <2> QED BY <1>12, <2>1 DEF Spans, Placed
<1>15. PICK l \in Nat : l = Len(prog)
    BY <1>12 DEF Spans
<1>16. f + 2 <= l /\ f + 3 <= l /\ g + 1 <= l
    BY <1>1, <1>12, <1>13, <1>14, <1>15, ExitsAre
<1>17. CASE Performs(c1, F1, Zero, at, ops, vm)
    <2>1. PICK name : name = "entry"
        OBVIOUS
    <2>2. Spans(prog, name, c1, F1)
        BY <1>12, <2>1
    <2>3. /\ vm \in Machine /\ Below(vm, t) /\ (vm.failed => vm = t)
          /\ at = Len(prog) + 1 => vm.failed \/ (vm = t /\ F1[Len(c1)] = Len(prog))
        BY <1>1, <1>2, <1>17, <2>2, ZeroIs, SpanEnds
    <2>5. Below(vm, v)
        BY <1>6, <1>9, <1>10, <2>3, BelowOrder
    <2>6. at = Len(prog) + 1 \/ vm.failed => vm = v
        BY <1>10, <1>13, <1>15, <1>16, <2>3
    <2> QED BY <1>11, <2>5, <2>6, RightIf
<1>18. CASE Tests(q, r, F1[Len(c1)], Final(c1, Zero), at, ops, vm)
    <2>1. vm = t /\ (at = f + 2 \/ at = f + 3)
        BY <1>2, <1>13, <1>18 DEF Tests
    <2>2. at # l + 1
        BY <1>16, <2>1
    <2> QED BY <1>10, <1>11, <1>15, <2>1, <2>2, RightIf
<1>19. CASE q.taken /\ Performs(c2, F2, Final(c1, Zero), at, ops, vm)
    <2>0. u = w
        BY <1>7, <1>19
    <2>1. PICK name : name = "if.then"
        OBVIOUS
    <2>2. Spans(prog, name, c2, F2) /\ Performs(c2, F2, t, at, ops, vm)
        BY <1>2, <1>12, <1>19, <2>1
    <2>3. /\ vm \in Machine /\ Below(vm, w) /\ (vm.failed => vm = w)
          /\ at = Len(prog) + 1 => vm.failed \/ (vm = w /\ F2[Len(c2)] = Len(prog))
        BY <1>1, <1>3, <1>6, <2>2, SpanEnds
    <2>5. Below(vm, v)
        BY <1>6, <1>9, <2>0, <2>3, BelowOrder
    <2>6. at = Len(prog) + 1 \/ vm.failed => vm = v
        BY <1>9, <1>14, <1>15, <1>16, <2>0, <2>3
    <2> QED BY <1>11, <2>5, <2>6, RightIf
<1>20. CASE Performs(c3, F3, Through(q, c2, Final(c1, Zero)), at, ops, vm)
    <2>1. PICK name : name = "if.cont"
        OBVIOUS
    <2>2. Spans(prog, name, c3, F3) /\ Performs(c3, F3, u, at, ops, vm)
        BY <1>2, <1>4, <1>12, <1>20, <2>1
    <2>3. /\ Below(vm, v) /\ (vm.failed => vm = v)
          /\ at = Len(prog) + 1 => vm.failed \/ (vm = v /\ F3[Len(c3)] = Len(prog))
        BY <1>1, <1>5, <1>8, <2>2, SpanEnds
    <2> QED BY <1>11, <2>3, RightIf
<1> QED BY <1>1, <1>17, <1>18, <1>19, <1>20 DEF InForked

\* The program runs, q being what the interpreter has in the end.
Executing(q, names, prog, at, ops, vm) ==
    RunsStraight(q, names, prog, at, ops, vm) \/ RunsForked(q, names, prog, at, ops, vm)

\* Once it is compiled, the VM is at its first label.
LEMMA StraightStarts ==
    ASSUME NEW q, NEW blks, Straight(q, blks)
    PROVE  RunsStraight(q, Declared, CodeOf(blks), 1, <<>>, Zero)
<1>1. PICK c : /\ c \in Seq(Instruction) /\ blks = <<Part("entry", c, <<>>)>>
               /\ Agrees(q, Final(c, Zero))
    BY DEF Straight
<1>2. PICK prog : prog = CodeOf(blks)
    OBVIOUS
<1>3. PICK name : name = "entry"
    OBVIOUS
<1>4. prog \in Seq(Opcodes) /\ Lies(prog, name, c, 0, Len(prog))
    BY <1>1, <1>2, <1>3, StraightCode
<1>5. PICK F : LaidOut(prog, name, c, F) /\ F[0] = 0 + 1 /\ F[Len(c)] = 0 + Len(prog)
    BY <1>4 DEF Lies
<1>6. F[0] = 1 /\ F[Len(c)] = Len(prog) /\ F[Len(c)] <= Len(prog)
    <2>1. Len(prog) \in Nat
        BY <1>4
    <2> QED BY <1>5, <2>1
<1>7. c \in Seq(Lowerable)
    BY <1>1 DEF Lowerable
<1>8. Spans(prog, name, c, F)
    BY <1>4, <1>5, <1>6, <1>7, WholeSpans
<1>9. Performs(c, F, Zero, 1, <<>>, Zero)
    BY <1>6 DEF Performs
<1>10. InStraight(c, F, prog, 1, <<>>, Zero)
    BY <1>3, <1>6, <1>8, <1>9 DEF InStraight
<1>11. AgreesOn(q, Final(c, Zero), Declared)
    BY <1>1 DEF Agrees, AgreesOn
<1>12. RunsStraight(q, Declared, prog, 1, <<>>, Zero)
    BY <1>1, <1>10, <1>11 DEF RunsStraight
<1> QED BY <1>2, <1>12

\* So it is in a program of three blocks.
LEMMA ForkedStarts ==
    ASSUME NEW q, NEW blks, Forked(q, blks)
    PROVE  RunsForked(q, Declared, CodeOf(blks), 1, <<>>, Zero)
<1>1. PICK r, c1, c2, c3 :
        /\ r \in Register
        /\ c1 \in Seq(Instruction) /\ c2 \in Seq(Instruction) /\ c3 \in Seq(Instruction)
        /\ blks = <<Part("entry", c1, Cbr(r, "if.then", "if.cont")),
                    Part("if.then", c2, Br("if.cont")), Part("if.cont", c3, <<>>)>>
        /\ Branches(q, r, Final(c1, Zero))
        /\ Agrees(q, Final(c3, Through(q, c2, Final(c1, Zero))))
    BY DEF Forked
<1>2. PICK prog : prog = CodeOf(blks)
    OBVIOUS
<1>3. PICK F1, F2, F3 : Fork(prog, r, c1, c2, c3, F1, F2, F3)
    BY <1>1, <1>2, ForkedCode
<1>4. F1[0] = 1
    BY <1>3 DEF Fork
<1>5. Performs(c1, F1, Zero, 1, <<>>, Zero)
    BY <1>4 DEF Performs
<1>6. InForked(q, r, c1, c2, c3, F1, F2, F3, 1, <<>>, Zero)
    BY <1>5 DEF InForked
<1>7. AgreesOn(q, Final(c3, Through(q, c2, Final(c1, Zero))), Declared)
    BY <1>1 DEF Agrees, AgreesOn
<1>8. RunsForked(q, Declared, prog, 1, <<>>, Zero)
    BY <1>1, <1>3, <1>6, <1>7 DEF RunsForked
<1> QED BY <1>2, <1>8

\* Either way it runs what the interpreter has run.
LEMMA ExecutingStarts ==
    ASSUME NEW q, Straight(q, blocks) \/ Forked(q, blocks), Compile, operands = <<>>, Vm = Zero
    PROVE  \E prog, at, ops, vm :
              /\ prog = code' /\ at = pc' /\ ops = operands' /\ vm = Vm'
              /\ Executing(q, Declared, prog, at, ops, vm)
<1>1. code' = CodeOf(blocks) /\ pc' = 1 /\ operands' = <<>> /\ Vm' = Zero
    <2>1. Vm' = Vm
        BY DEF Compile, Vm
    <2> QED BY <2>1 DEF Compile, CodeOf
<1>2. Executing(q, Declared, CodeOf(blocks), 1, <<>>, Zero)
    BY StraightStarts, ForkedStarts DEF Executing
<1>3. PICK prog, at, ops, vm : /\ prog = CodeOf(blocks) /\ at = 1 /\ ops = <<>> /\ vm = Zero
                               /\ prog = code' /\ at = pc' /\ ops = operands' /\ vm = Vm'
    BY <1>1
<1>4. Executing(q, Declared, prog, at, ops, vm)
    BY <1>2, <1>3
<1> QED BY <1>3, <1>4

\* It goes on.
LEMMA ExecutingGoesOn ==
    ASSUME NEW q, NEW names, Executing(q, names, code, pc, operands, Vm), VmStep
    PROVE  \E prog, at, ops, vm :
              /\ prog = code' /\ at = pc' /\ ops = operands' /\ vm = Vm'
              /\ Executing(q, names, prog, at, ops, vm)
<1>1. CASE RunsStraight(q, names, code, pc, operands, Vm)
    <2>1. code' = code
        BY <1>1, StraightStep
    <2>2. PICK at, ops, vm : /\ at = pc' /\ ops = operands' /\ vm = Vm'
                             /\ RunsStraight(q, names, code, at, ops, vm)
        BY <1>1, StraightStep
    <2>3. Executing(q, names, code, at, ops, vm)
        BY <2>2 DEF Executing
    <2> QED BY <2>1, <2>2, <2>3
<1>2. CASE RunsForked(q, names, code, pc, operands, Vm)
    <2>1. code' = code
        BY <1>2, ForkedStep
    <2>2. PICK at, ops, vm : /\ at = pc' /\ ops = operands' /\ vm = Vm'
                             /\ RunsForked(q, names, code, at, ops, vm)
        BY <1>2, ForkedStep
    <2>3. Executing(q, names, code, at, ops, vm)
        BY <2>2 DEF Executing
    <2> QED BY <2>1, <2>2, <2>3
<1> QED BY <1>1, <1>2 DEF Executing

\* So what it does is right.
LEMMA ExecutingIs ==
    ASSUME NEW q, NEW names, NEW prog, NEW at, NEW ops, NEW vm,
           Executing(q, names, prog, at, ops, vm)
    PROVE  RunsRight(q, names, prog, at, vm)
BY StraightRight, ForkedRight DEF Executing
-----------------------------------------------------------------------------
(* Compilable programs: what the other steps leave alone *)

\* Once the program is read, what it is stays the same.
LEMMA SameMeaning ==
    ASSUME UNCHANGED <<lines, place>>, NEW s, NEW sem
    PROVE  /\ Tree(s)' <=> Tree(s)
           /\ Faithful' <=> Faithful
           /\ Semantics(s, sem)' <=> Semantics(s, sem)
           /\ Compilable' <=> Compilable
<1>1. /\ \A b : Nodes(b)' = Nodes(b)
      /\ Statements' = Statements /\ Conds' = Conds
      /\ \A kind : Triggers(kind)' = Triggers(kind)
      /\ \A j : SetIn(j)' = SetIn(j)
      /\ \A j : Body(j)' = Body(j)
    BY SameProgram
<1>2. Tree(s)' <=> Tree(s)
    BY <1>1 DEF Tree
<1>3. Faithful' <=> Faithful
    <2>1. \A i : Names(i)' = Names(i)
        BY DEF Names
    <2>2. Keeping' = Keeping
        BY <1>1 DEF Keeping
    <2>3. Numbers' = Numbers /\ Words' = Words
        BY <2>2 DEF Numbers, Words
    <2>4. Unlike' <=> Unlike
        BY <1>1, <2>3 DEF Unlike
    <2> QED BY <1>1, <2>1, <2>4 DEF Faithful
<1>4. \A i, q : After(s, i, q)' = After(s, i, q)
    <2>1. \A i, q : Left(i, q)' = Left(i, q) /\ Right(i, q)' = Right(i, q)
        BY DEF Left, Right
    <2>2. \A i, q : Raises(i, q)' <=> Raises(i, q)
        BY <2>1 DEF Raises
    <2>3. \A i, q : Assigned(i, q)' = Assigned(i, q)
        BY <2>1 DEF Assigned
    <2>4. \A i, q : Effect(i, q)' = Effect(i, q)
        BY <2>1, <2>2, <2>3 DEF Effect
    <2>5. \A i, q : Runs(s, i, q)' <=> Runs(s, i, q)
        BY <1>1 DEF Runs
    <2> QED BY <2>4, <2>5 DEF After
<1>5. Semantics(s, sem)' <=> Semantics(s, sem)
    BY <1>4 DEF Semantics
<1>6. Compilable' <=> Compilable
    <2>1. ComparesAlike' <=> ComparesAlike
        BY <1>1 DEF ComparesAlike
    <2> QED BY <1>1, <2>1 DEF Compilable
<1> QED BY <1>2, <1>3, <1>5, <1>6

\* Steps of others leave the interpreter where it is.
LEMMA SameRun ==
    ASSUME UNCHANGED <<lines, place, interpreterVars>>, NEW s, NEW sem
    PROVE  Interprets(s, sem)' <=> Interprets(s, sem)
<1>1. /\ Conds' = Conds /\ \A b, d : Later(b, d)' = Later(b, d)
      /\ \A p, A : Upto(s, sem, p, A)' <=> Upto(s, sem, p, A)
      /\ \A j : Body(j)' = Body(j)
    BY SameProgram
<1>2. \A q, fs, A : Stands(s, q, fs, A)' <=> Stands(s, q, fs, A)
    BY <1>1 DEF Stands
<1>3. /\ env' = env /\ out' = out /\ listeners' = listeners /\ server' = server
      /\ files' = files /\ status' = status /\ frames' = frames /\ turn' = turn
    BY DEF interpreterVars
<1> QED BY <1>1, <1>2, <1>3 DEF Interprets

\* The analyser is left where it is.
LEMMA SameNames ==
    ASSUME UNCHANGED <<lines, place, semanticVars>>
    PROVE  (Analysed' <=> Analysed) /\ Declared' = Declared
<1>1. Statements' = Statements /\ Conds' = Conds
    BY SameProgram
<1>2. \A i : Found(i)' = Found(i)
    BY DEF Found
<1>3. checked' = checked /\ variables' = variables /\ verdict' = verdict
    BY DEF semanticVars
<1> QED BY <1>1, <1>2, <1>3 DEF Analysed, Declared

\* In the body of j, whose test and body so far are c1 and c2.
InThen(s, sem, p, blks, known, n, low, j, e, r, c1, c2) ==
    /\ blks = <<Part("entry", c1, Cbr(r, "if.then", "if.cont")),
                Part("if.then", c2, <<>>), Part("if.cont", <<>>, <<>>)>>
    /\ low = <<CallOf(Body(s), 0, j), CallOf(Body(j), 3, e)>>
    /\ Upto(s, sem, p, Later(Body(j), e) \cup Later(Body(s), j))
    /\ Branches(sem[p], r, Final(c1, Zero))
    /\ Carries(sem[p], Through(sem[p], c2, Final(c1, Zero)), known, n, Unread(sem[p], j))

\* What the blocks are does not change unless a variable is declared.
LEMMA SameBlocks ==
    ASSUME UNCHANGED <<lines, place, variables>>, NEW s, NEW sem
    PROVE  \A blks, b, known, n, low :
              Lowers(s, sem, blks, b, known, n, low)' <=> Lowers(s, sem, blks, b, known, n, low)
<1>1. /\ Conds' = Conds /\ \A b, d : Later(b, d)' = Later(b, d)
      /\ \A j : SetIn(j)' = SetIn(j)
      /\ \A p, A : Upto(s, sem, p, A)' <=> Upto(s, sem, p, A)
      /\ \A j : Body(j)' = Body(j)
    BY SameProgram
<1>2. Declared' = Declared
    BY <1>1 DEF Declared
<1>3. \A q, st, known, n, bad : Carries(q, st, known, n, bad)' <=> Carries(q, st, known, n, bad)
    BY <1>2 DEF Carries
<1>4. \A q, j : Unread(q, j)' = Unread(q, j)
    BY <1>1 DEF Unread
<1>5. \A p, blks, known, n, low :
        OneBlock(s, sem, p, blks, known, n, low)' <=> OneBlock(s, sem, p, blks, known, n, low)
    BY <1>1, <1>3 DEF OneBlock
<1>6. \A p, blks, known, n, low :
        InBranch(s, sem, p, blks, known, n, low)' <=> InBranch(s, sem, p, blks, known, n, low)
    <2>1. \A p, j, e : Upto(s, sem, p, Later(Body(j), e) \cup Later(Body(s), j))'
                         <=> Upto(s, sem, p, Later(Body(j), e) \cup Later(Body(s), j))
        BY <1>1
    <2>2. \A q, st, known, n, j : Carries(q, st, known, n, Unread(q, j))'
                                    <=> Carries(q, st, known, n, Unread(q, j))
        BY <1>3, <1>4
    <2>3. \A j : CallOf(Body(s), 0, j)' = CallOf(Body(s), 0, j)
        BY <1>1
    <2>4. \A j, e : CallOf(Body(j), 3, e)' = CallOf(Body(j), 3, e)
        BY <1>1
    <2>5. ASSUME NEW p, NEW blks, NEW known, NEW n, NEW low,
                 InBranch(s, sem, p, blks, known, n, low)
          PROVE  InBranch(s, sem, p, blks, known, n, low)'
        <3>1. PICK j \in Conds, e \in Nat, r \in Register,
                   c1 \in Seq(Instruction), c2 \in Seq(Instruction) :
                  InThen(s, sem, p, blks, known, n, low, j, e, r, c1, c2)
            BY <2>5 DEF InBranch, InThen
        <3>2. InThen(s, sem, p, blks, known, n, low, j, e, r, c1, c2)'
            BY <1>1, <2>1, <2>2, <2>3, <2>4, <3>1 DEF InThen
        <3> QED BY <1>1, <3>1, <3>2 DEF InBranch, InThen
    <2>6. ASSUME NEW p, NEW blks, NEW known, NEW n, NEW low,
                 InBranch(s, sem, p, blks, known, n, low)'
          PROVE  InBranch(s, sem, p, blks, known, n, low)
        <3>1. PICK j \in Conds, e \in Nat, r \in Register,
                   c1 \in Seq(Instruction), c2 \in Seq(Instruction) :
                  InThen(s, sem, p, blks, known, n, low, j, e, r, c1, c2)'
            BY <1>1, <2>6 DEF InBranch, InThen
        <3>2. InThen(s, sem, p, blks, known, n, low, j, e, r, c1, c2)
            BY <1>1, <2>1, <2>2, <2>3, <2>4, <3>1 DEF InThen
        <3> QED BY <3>1, <3>2 DEF InBranch, InThen
    <2> QED BY <2>5, <2>6
<1>7. \A p, blks, known, n, low :
        AfterBranch(s, sem, p, blks, known, n, low)'
            <=> AfterBranch(s, sem, p, blks, known, n, low)
    BY <1>1, <1>3, <1>4, SMTT(20) DEF AfterBranch
<1> QED BY <1>5, <1>6, <1>7 DEF Lowers

\* In a section the VM is at a place of the program.
LEMMA SpanIn ==
    ASSUME NEW prog, NEW name, NEW c, c \in Seq(Instruction), NEW F, Spans(prog, name, c, F),
           NEW st, NEW at, NEW ops, NEW vm, Performs(c, F, st, at, ops, vm), ~vm.failed
    PROVE  at \in Nat \ {0}
<1>1. (\A k \in 0 .. Len(c) : F[k] \in Nat) /\ F[0] > 0 /\ 0 \in 0 .. Len(c)
    BY DEF Spans, Placed
<1>2. CASE at = F[0]
    BY <1>1, <1>2
<1>3. ASSUME NEW k \in 0 .. Len(c), NEW m \in Nat, at = F[k] + 1 \/ at = F[k] + m + 1
      PROVE  at \in Nat \ {0}
    <2>1. F[k] \in Nat
        BY <1>1
    <2> QED BY <1>3, <2>1
<1>4. \/ at = F[0]
      \/ \E k \in 0 .. Len(c) : at = F[k] + 1 \/ \E m \in Nat : at = F[k] + m + 1
    BY DEF Performs
<1>5. 0 \in Nat
    OBVIOUS
<1> QED BY <1>2, <1>3, <1>4, <1>5

\* So it is in the program.
LEMMA ExecutingIn ==
    ASSUME NEW q, NEW names, NEW prog, NEW at, NEW ops, NEW vm,
           Executing(q, names, prog, at, ops, vm)
    PROVE  prog \in Seq(Opcodes) /\ (~vm.failed => at \in Nat \ {0})
<1>1. CASE RunsStraight(q, names, prog, at, ops, vm)
    <2>1. PICK c, F : c \in Seq(Instruction) /\ InStraight(c, F, prog, at, ops, vm)
        BY <1>1 DEF RunsStraight
    <2>2. PICK name : name = "entry"
        OBVIOUS
    <2>3. Spans(prog, name, c, F) /\ Performs(c, F, Zero, at, ops, vm)
        BY <2>1, <2>2 DEF InStraight
    <2>4. prog \in Seq(Opcodes)
        BY <2>3 DEF Spans
    <2> QED BY <2>1, <2>3, <2>4, SpanIn
<1>2. CASE RunsForked(q, names, prog, at, ops, vm)
    <2>1. PICK r, c1, c2, c3, F1, F2, F3 :
              /\ c1 \in Seq(Instruction) /\ c2 \in Seq(Instruction) /\ c3 \in Seq(Instruction)
              /\ Fork(prog, r, c1, c2, c3, F1, F2, F3)
              /\ InForked(q, r, c1, c2, c3, F1, F2, F3, at, ops, vm)
        BY <1>2 DEF RunsForked
    <2>2. PICK n1 : n1 = "entry"
        OBVIOUS
    <2>3. PICK n2 : n2 = "if.then"
        OBVIOUS
    <2>4. PICK n3 : n3 = "if.cont"
        OBVIOUS
    <2>5. Spans(prog, n1, c1, F1) /\ Spans(prog, n2, c2, F2) /\ Spans(prog, n3, c3, F3)
        BY <2>1, <2>2, <2>3, <2>4 DEF Fork
    <2>6. prog \in Seq(Opcodes)
        BY <2>5 DEF Spans
    <2>7. ~vm.failed => at \in Nat \ {0}
        <3>1. CASE Performs(c1, F1, Zero, at, ops, vm)
            BY <2>1, <2>5, <3>1, SpanIn
        <3>2. CASE Tests(q, r, F1[Len(c1)], Final(c1, Zero), at, ops, vm)
            <4>1. PICK f \in Nat : f = F1[Len(c1)]
                <5>1. Len(c1) \in 0 .. Len(c1)
                    BY <2>1
                <5> QED BY <2>5, <5>1 DEF Spans, Placed
            <4>2. at = f + 2 \/ at = f + 3
                BY <3>2, <4>1 DEF Tests
            <4> QED BY <4>2
        <3>3. CASE q.taken /\ Performs(c2, F2, Final(c1, Zero), at, ops, vm)
            BY <2>1, <2>5, <3>3, SpanIn
        <3>4. CASE Performs(c3, F3, Through(q, c2, Final(c1, Zero)), at, ops, vm)
            BY <2>1, <2>5, <3>4, SpanIn
        <3> QED BY <2>1, <3>1, <3>2, <3>3, <3>4 DEF InForked
    <2> QED BY <2>6, <2>7
<1> QED BY <1>1, <1>2 DEF Executing

\* An instruction that fails is passed.
LEMMA FailedAfter ==
    ASSUME VmStep, code \in Seq(Opcodes), vmFailed'
    PROVE  pc' \in Nat \ {0}
<1>1. pc \in DOMAIN code /\ ~vmFailed
    BY DEF VmStep, VmLabel, VmLoad, VmStore, VmBinary, VmPrint, VmCreateFile, VmWriteFile,
           VmJump, Running
<1>2. pc \in Nat
    BY <1>1
<1>3. VmBinary
    BY <1>1 DEF VmStep, VmLabel, VmLoad, VmStore, VmBinary, VmPrint, VmCreateFile, VmWriteFile,
           VmJump
<1>4. pc' = pc + 1
    BY <1>3 DEF VmBinary
<1> QED BY <1>2, <1>4
-----------------------------------------------------------------------------
(* Compilable programs: all that runs one *)

Resting == code = <<>> /\ pc = 0 /\ operands = <<>> /\ Vm = Zero

\* The code of the whole program runs.
Executes(sem) ==
    /\ IrDone /\ pc # 0
    /\ Executing(sem[Len(lines)], Declared, code, pc, operands, Vm)

\* Each part is where it can be in a program whose trigger is s: it is interpreted, then
\* analysed, then lowered, then compiled and executed.
RunsWell(s, sem) ==
    /\ Tree(s) /\ Faithful /\ Semantics(s, sem)
    /\ Interprets(s, sem)
    /\ Analysed
    /\ Lowers(s, sem, blocks, block, regs, counter, lowering)
    /\ verdict # "accepted" => lowering = <<>>
    /\ verdict # "pending" => Interpreted
    /\ Resting \/ Executes(sem)

\* Without code nothing is executed, and before the end of the lowering nothing is compiled.
LEMMA VmRests ==
    ASSUME Resting, ~IrDone
    PROVE  ~Execute
<1>1. pc \notin DOMAIN code
    BY DEF Resting
<1>2. ~VmStep
    BY <1>1 DEF VmStep, VmLabel, VmLoad, VmStore, VmBinary, VmPrint, VmCreateFile,
                VmWriteFile, VmJump, Running
<1> QED BY <1>2 DEF Execute, Compile

\* Steps of others leave the VM where it is.
LEMMA SameExecution ==
    ASSUME UNCHANGED <<lines, place, semanticVars, irVars, vmVars>>, NEW sem
    PROVE  (Resting' <=> Resting) /\ (Executes(sem)' <=> Executes(sem))
<1>1. lines' = lines /\ Declared' = Declared
    BY SameNames
<1>2. code' = code /\ pc' = pc /\ operands' = operands /\ Vm' = Vm
    BY DEF vmVars, Vm
<1>3. IrDone' <=> IrDone
    <2>1. lowering' = lowering /\ place' = place
        BY DEF irVars
    <2> QED BY <2>1 DEF IrDone, Upcoming, Inner, NextNode, Nodes
<1> QED BY <1>1, <1>2, <1>3 DEF Resting, Executes

\* The lowering is left where it is.
LEMMA SameLowering ==
    ASSUME UNCHANGED <<lines, place, variables, irVars>>, NEW s, NEW sem
    PROVE  Lowers(s, sem, blocks, block, regs, counter, lowering)'
               <=> Lowers(s, sem, blocks, block, regs, counter, lowering)
<1>1. /\ blocks' = blocks /\ block' = block /\ regs' = regs /\ counter' = counter
      /\ lowering' = lowering
    BY DEF irVars
<1>2. Lowers(s, sem, blocks, block, regs, counter, lowering)'
          <=> Lowers(s, sem, blocks', block', regs', counter', lowering')
    BY SameBlocks
<1> QED BY <1>1, <1>2

\* Before it starts nothing is lowered.
LEMMA NotYetLowered ==
    ASSUME NEW s, NEW sem, NEW blks, NEW b, NEW known, NEW n, NEW low, low = <<>>
    PROVE  Lowers(s, sem, blks, b, known, n, low)
               <=> /\ Known(known, n) /\ b = 1 /\ blks = <<NewBlock("entry")>>
                   /\ known = [x \in Var |-> None] /\ n = 0
<1>1. ASSUME NEW p PROVE ~OneBlock(s, sem, p, blks, known, n, low)
    BY DEF OneBlock
<1>2. ASSUME NEW p PROVE ~InBranch(s, sem, p, blks, known, n, low)
    BY DEF InBranch
<1>3. ASSUME NEW p PROVE ~AfterBranch(s, sem, p, blks, known, n, low)
    BY DEF AfterBranch
<1> QED BY <1>1, <1>2, <1>3 DEF Lowers

\* The program is begun.
LEMMA WellBegins ==
    ASSUME SourceTyped, lines \in Seq(StrictSourceLine), NEW s, Tree(s), Faithful,
           NEW sem, Semantics(s, sem), InterpreterInit, SemanticInit, IrInit, Resting, Begin
    PROVE  RunsWell(s, sem)'
<1>1. /\ Run(Globals, Triggers("start")) /\ UNCHANGED <<lines, place>>
      /\ UNCHANGED <<lines, place, semanticVars>> /\ UNCHANGED <<lines, place, variables, irVars>>
      /\ UNCHANGED <<lines, place, semanticVars, irVars, vmVars>>
    BY DEF Begin, Interpreting, parserVars, sourceVars, semanticVars
<1>2. Tree(s)' /\ Faithful' /\ Semantics(s, sem)'
    BY <1>1, SameMeaning
<1>3. Interprets(s, sem)'
    BY <1>1, InterpreterStarts
<1>4. Analysed'
    <2>1. Analysed
        <3>1. Statements \subseteq Nat \ {0}
            BY DEF SourceTyped, Statements
        <3>2. checked = 0 /\ verdict = "pending"
            BY DEF SemanticInit
        <3>3. \A i \in Statements : ~(i <= 0)
            BY <3>1
        <3> QED BY <3>2, <3>3 DEF Analysed
    <2> QED BY <1>1, <2>1, SameNames
<1>5. Lowers(s, sem, blocks, block, regs, counter, lowering)'
    <2>1. Known(regs, counter)
        BY DEF IrInit, Known
    <2>2. Lowers(s, sem, blocks, block, regs, counter, lowering)
        BY <2>1 DEF IrInit, Lowers
    <2> QED BY <1>1, <2>2, SameLowering
<1>6. verdict' = "pending" /\ lowering' = <<>>
    BY <1>1 DEF semanticVars, irVars, SemanticInit, IrInit
<1>7. Resting'
    BY <1>1, SameExecution
<1> QED BY <1>2, <1>3, <1>4, <1>5, <1>6, <1>7 DEF RunsWell

\* A step of the interpreter.
LEMMA WellInterpreted ==
    ASSUME SourceTyped, lines \in Seq(StrictSourceLine), NEW s, NEW sem, RunsWell(s, sem),
           NEW t \in Task, Step(t) \/ Connect(t) \/ Continue(t)
    PROVE  RunsWell(s, sem)'
<1>0. /\ Tree(s) /\ Faithful /\ Semantics(s, sem) /\ Interprets(s, sem) /\ Analysed
      /\ Lowers(s, sem, blocks, block, regs, counter, lowering)
      /\ verdict # "accepted" => lowering = <<>>
      /\ verdict # "pending" => Interpreted
      /\ Resting \/ Executes(sem)
    BY DEF RunsWell
<1>1. /\ UNCHANGED <<lines, place>>
      /\ UNCHANGED <<lines, place, semanticVars>> /\ UNCHANGED <<lines, place, variables, irVars>>
      /\ UNCHANGED <<lines, place, semanticVars, irVars, vmVars>>
    BY DEF Step, Connect, Continue, Interpreting, parserVars, sourceVars, semanticVars
<1>2. Tree(s)' /\ Faithful' /\ Semantics(s, sem)'
    BY <1>0, <1>1, SameMeaning
<1>3. Interprets(s, sem)'
    BY <1>0, <1>1, InterpretsStep
<1>4. Analysed'
    BY <1>0, <1>1, SameNames
<1>5. Lowers(s, sem, blocks, block, regs, counter, lowering)'
    BY <1>0, <1>1, SameLowering
<1>6. verdict = "pending"
    <2>1. status[Main] = "entry"
        BY <1>0, Quiet
    <2> QED BY <1>0, <2>1 DEF Interpreted
<1>7. verdict' = verdict /\ lowering' = lowering
    BY <1>1 DEF semanticVars, irVars
<1>8. (Resting \/ Executes(sem))'
    BY <1>0, <1>1, SameExecution
<1> QED BY <1>0, <1>2, <1>3, <1>4, <1>5, <1>6, <1>7, <1>8 DEF RunsWell

\* A step of the analyser.
LEMMA WellAnalysed ==
    ASSUME SourceTyped, NEW s, NEW sem, RunsWell(s, sem), Analyse
    PROVE  RunsWell(s, sem)'
<1>0. /\ Tree(s) /\ Faithful /\ Semantics(s, sem) /\ Interprets(s, sem) /\ Analysed
      /\ Lowers(s, sem, blocks, block, regs, counter, lowering)
      /\ verdict # "accepted" => lowering = <<>>
      /\ Resting \/ Executes(sem)
    BY DEF RunsWell
<1>1. /\ CheckStmt /\ Interpreted /\ UNCHANGED <<lines, place>>
      /\ UNCHANGED <<lines, place, interpreterVars>> /\ UNCHANGED <<irVars, vmVars>>
    BY DEF Analyse, parserVars, sourceVars
<1>2. Tree(s)' /\ Faithful' /\ Semantics(s, sem)'
    BY <1>0, <1>1, SameMeaning
<1>3. Interprets(s, sem)'
    BY <1>0, <1>1, SameRun
<1>4. Analysed'
    BY <1>0, <1>1, AnalysedStep
<1>5. verdict = "pending"
    BY <1>1 DEF CheckStmt, CheckSet, CheckValue, CheckCreateFile, CheckRepeat, EndChecks, Checking
<1>6. lowering = <<>>
    BY <1>0, <1>5
<1>7. /\ Known(regs, counter) /\ block = 1 /\ blocks = <<NewBlock("entry")>>
      /\ regs = [x \in Var |-> None] /\ counter = 0
    BY <1>0, <1>6, NotYetLowered
<1>8. /\ blocks' = blocks /\ block' = block /\ regs' = regs /\ counter' = counter
      /\ lowering' = <<>>
    BY <1>1, <1>6 DEF irVars
<1>9. Lowers(s, sem, blocks, block, regs, counter, lowering)'
    BY <1>7, <1>8 DEF Lowers
<1>10. Resting'
    <2>1. ~IrDone
        BY <1>6 DEF IrDone
    <2>2. Resting
        BY <1>0, <2>1 DEF Executes
    <2> QED BY <1>1, <2>2 DEF Resting, vmVars, Vm
<1>11. Interpreted'
    BY <1>1 DEF Interpreted, interpreterVars
<1> QED BY <1>2, <1>3, <1>4, <1>8, <1>9, <1>10, <1>11 DEF RunsWell

\* Once all is lowered, nothing more is.
LEMMA LoweredOnce ==
    ASSUME IrDone, Lower
    PROVE  FALSE
<1>1. Len(lowering) = 1
    BY Zenon DEF IrDone
<1>2. Upcoming = 0
    BY DEF IrDone
<1>3. lowering # <<>>
    BY <1>1
<1> QED BY <1>1, <1>2, <1>3 DEF Lower, LowerTrigger, LowerStep, LowerSet, LowerOutput,
           LowerCreateFile, LowerWriteFile, LowerIf, LowerRepeat, EndBody, Lowering

\* What is lowered was begun.
LEMMA LoweredSome ==
    ASSUME IrDone
    PROVE  lowering # <<>>
<1>1. Len(lowering) = 1
    BY Zenon DEF IrDone
<1>2. PICK low : low = lowering
    OBVIOUS
<1>3. Len(low) = 1
    BY <1>1, <1>2
<1>4. low # <<>>
    BY <1>3
<1> QED BY <1>2, <1>4

\* A step of the lowering.
LEMMA WellLowered ==
    ASSUME SourceTyped, lines \in Seq(StrictSourceLine), NEW s, NEW sem, RunsWell(s, sem), Lower
    PROVE  RunsWell(s, sem)'
<1>0. /\ Tree(s) /\ Faithful /\ Semantics(s, sem) /\ Interprets(s, sem) /\ Analysed
      /\ Lowers(s, sem, blocks, block, regs, counter, lowering)
      /\ verdict # "pending" => Interpreted
      /\ Resting \/ Executes(sem)
    BY DEF RunsWell
<1>1. /\ verdict = "accepted" /\ UNCHANGED <<lines, place>>
      /\ UNCHANGED <<lines, place, interpreterVars>> /\ UNCHANGED <<lines, place, semanticVars>>
      /\ UNCHANGED <<lines, place, variables>> /\ UNCHANGED vmVars
    BY DEF Lower, parserVars, sourceVars, semanticVars
<1>2. Tree(s)' /\ Faithful' /\ Semantics(s, sem)'
    BY <1>0, <1>1, SameMeaning
<1>3. Interprets(s, sem)'
    BY <1>0, <1>1, SameRun
<1>4. Analysed'
    BY <1>0, <1>1, SameNames
<1>5. Lowers(s, sem, blocks, block, regs, counter, lowering)'
    <2>1. Accepted(s, sem)
        BY <1>0, <1>1 DEF Accepted
    <2>2. PICK blks, b, known, n, low :
              /\ blks = blocks' /\ b = block' /\ known = regs' /\ n = counter'
              /\ low = lowering'
              /\ Lowers(s, sem, blks, b, known, n, low)
        BY <1>0, <2>1, LowersStep
    <2>3. Lowers(s, sem, blks, b, known, n, low)'
        BY <1>1, <2>2, SameBlocks
    <2> QED BY <2>2, <2>3
<1>6. verdict' = "accepted" /\ Interpreted'
    <2>1. verdict' = verdict /\ status' = status
        BY <1>1 DEF semanticVars, interpreterVars
    <2> QED BY <1>0, <1>1, <2>1 DEF Interpreted
<1>7. Resting'
    <2>1. Resting
        BY <1>0, LoweredOnce DEF Executes
    <2> QED BY <1>1, <2>1 DEF Resting, vmVars, Vm
<1> QED BY <1>2, <1>3, <1>4, <1>5, <1>6, <1>7 DEF RunsWell

\* A step of the VM, or what it starts with.
LEMMA WellExecuted ==
    ASSUME SourceTyped, lines \in Seq(StrictSourceLine), NEW s, NEW sem, RunsWell(s, sem), Execute
    PROVE  RunsWell(s, sem)'
<1>0. /\ Tree(s) /\ Faithful /\ Semantics(s, sem) /\ Interprets(s, sem) /\ Analysed
      /\ Lowers(s, sem, blocks, block, regs, counter, lowering)
      /\ verdict # "accepted" => lowering = <<>>
      /\ verdict # "pending" => Interpreted
      /\ Resting \/ Executes(sem)
    BY DEF RunsWell
<1>1. /\ UNCHANGED <<lines, place>>
      /\ UNCHANGED <<lines, place, interpreterVars>> /\ UNCHANGED <<lines, place, semanticVars>>
      /\ UNCHANGED <<lines, place, variables, irVars>>
    BY DEF Execute, parserVars, sourceVars, semanticVars
<1>2. Tree(s)' /\ Faithful' /\ Semantics(s, sem)'
    BY <1>0, <1>1, SameMeaning
<1>3. Interprets(s, sem)'
    BY <1>0, <1>1, SameRun
<1>4. Analysed' /\ Declared' = Declared
    BY <1>0, <1>1, SameNames
<1>5. Lowers(s, sem, blocks, block, regs, counter, lowering)'
    BY <1>0, <1>1, SameLowering
<1>6. verdict' = verdict /\ lowering' = lowering /\ Interpreted' = Interpreted
    <2>1. verdict' = verdict /\ status' = status /\ lowering' = lowering
        BY <1>1 DEF semanticVars, interpreterVars, irVars
    <2> QED BY <2>1 DEF Interpreted
<1>7. IrDone' <=> IrDone
    BY <1>1 DEF irVars, IrDone, Upcoming, Inner, NextNode, Nodes
<1>8. PICK q : q = sem[Len(lines)]
    OBVIOUS
<1>9. q = sem[Len(lines)]'
    BY <1>1, <1>8
<1>10. IrDone
    BY <1>0, VmRests DEF Executes
<1>11. CASE Resting
    <2>1. pc \notin DOMAIN code
        BY <1>11 DEF Resting
    <2>2. Compile
        BY <2>1 DEF Execute, VmStep, VmLabel, VmLoad, VmStore, VmBinary, VmPrint, VmCreateFile,
                    VmWriteFile, VmJump, Running
    <2>3. operands = <<>> /\ Vm = Zero
        BY <1>11 DEF Resting
    <2>4. Straight(q, blocks) \/ Forked(q, blocks)
        BY <1>0, <1>8, <1>10, LoweringEnds
    <2>5. PICK prog, at, ops, vm : /\ prog = code' /\ at = pc' /\ ops = operands' /\ vm = Vm'
                                   /\ Executing(q, Declared, prog, at, ops, vm)
        BY <2>2, <2>3, <2>4, ExecutingStarts
    <2>6. pc' # 0
        BY <2>2 DEF Compile
    <2>7. Executes(sem)'
        BY <1>4, <1>7, <1>9, <1>10, <2>5, <2>6 DEF Executes
    <2> QED BY <1>0, <1>2, <1>3, <1>4, <1>5, <1>6, <2>7 DEF RunsWell
<1>12. CASE Executes(sem)
    <2>1. pc # 0 /\ Executing(q, Declared, code, pc, operands, Vm)
        BY <1>8, <1>12 DEF Executes
    <2>2. VmStep
        BY <2>1 DEF Execute, Compile
    <2>3. PICK prog, at, ops, vm : /\ prog = code' /\ at = pc' /\ ops = operands' /\ vm = Vm'
                                   /\ Executing(q, Declared, prog, at, ops, vm)
        BY <2>1, <2>2, ExecutingGoesOn
    <2>4. pc' # 0
        <3>1. CASE vmFailed'
            <4>1. code \in Seq(Opcodes)
                BY <2>1, ExecutingIn
            <4> QED BY <2>2, <3>1, <4>1, FailedAfter
        <3>2. CASE ~vmFailed'
            <4>1. ~vm.failed
                BY <2>3, <3>2 DEF Vm
            <4> QED BY <2>3, <4>1, ExecutingIn
        <3> QED BY <3>1, <3>2
    <2>5. Executes(sem)'
        BY <1>4, <1>7, <1>9, <1>10, <2>3, <2>4 DEF Executes
    <2> QED BY <1>0, <1>2, <1>3, <1>4, <1>5, <1>6, <2>5 DEF RunsWell
<1> QED BY <1>0, <1>11, <1>12

\* What the VM has done is right.
LEMMA WellCompiled ==
    ASSUME SourceTyped, lines \in Seq(StrictSourceLine), NEW s, NEW sem, RunsWell(s, sem), pc # 0
    PROVE  /\ IsPrefix(printed, out)
           /\ DOMAIN vmFiles \subseteq DOMAIN files
           /\ VmEnded \/ vmFailed =>
                 printed = out /\ SameFiles /\ vmFailed = (status[Main] = "raised")
           /\ \A x \in Var : Name(x) \in DOMAIN slots =>
                 x \in variables \/ \E j \in Statements : lines[j].kind = "if" /\ lines[j].var = x
<1>1. /\ Semantics(s, sem) /\ Interprets(s, sem) /\ Executes(sem)
      /\ verdict # "accepted" => lowering = <<>>
      /\ verdict # "pending" => Interpreted
    BY DEF RunsWell, Resting
<1>2. Interpreted
    <2>1. IrDone
        BY <1>1 DEF Executes
    <2> QED BY <1>1, <2>1, LoweredSome
<1>3. PICK q : q = sem[Len(lines)]
    OBVIOUS
<1>4. out = q.out /\ files = q.files /\ q.raised = (status[Main] = "raised")
    BY <1>1, <1>2, <1>3, InterpreterEnds
<1>5. Executing(q, Declared, code, pc, operands, Vm)
    BY <1>1, <1>3 DEF Executes
<1>6. RunsRight(q, Declared, code, pc, Vm)
    BY <1>5, ExecutingIs
<1>7. /\ Vm.printed = printed /\ Vm.files = vmFiles /\ Vm.failed = vmFailed /\ Vm.slots = slots
    BY DEF Vm
<1>8. /\ IsPrefix(printed, out) /\ DOMAIN vmFiles \subseteq DOMAIN files
      /\ pc = Len(code) + 1 \/ vmFailed =>
            printed = out /\ Alike(vmFiles, files) /\ vmFailed = (status[Main] = "raised")
      /\ \A x \in Var : Name(x) \in DOMAIN slots => x \in Declared
    BY <1>4, <1>6, <1>7 DEF RunsRight
<1>9. VmEnded => pc = Len(code) + 1
    BY DEF VmEnded
<1>10. Alike(vmFiles, files) => SameFiles
    BY DEF Alike, SameFiles
<1>11. \A x \in Declared : x \in variables \/ \E j \in Statements :
                                                  lines[j].kind = "if" /\ lines[j].var = x
    BY DEF Declared, Conds
<1> QED BY <1>8, <1>9, <1>10, <1>11

\* Nothing is compiled.
Idle == SemanticInit /\ IrInit /\ Resting

\* Before the program is begun all else is as it was, and afterwards it runs well.
Early == InterpreterInit /\ Idle
Late == Parsed /\ (dialect = "strict" /\ Compilable => \E s, sem : RunsWell(s, sem))

CompileInv ==
    /\ ParserInv
    /\ dialect = "strict" => StrictWords
    /\ dialect # "strict" => Idle
    /\ Early \/ Late

\* No part of the compiler does anything yet.
LEMMA IdleWaits ==
    ASSUME Idle, dialect # "strict" \/ ~Interpreted
    PROVE  ~Analyse /\ ~Lower /\ ~Execute
<1>1. ~IrDone
    BY LoweredSome DEF Idle, IrInit
<1>2. ~Execute
    BY <1>1, VmRests DEF Idle
<1>3. ~Lower
    BY DEF Idle, SemanticInit, Lower
<1>4. ~Analyse
    BY DEF Analyse
<1> QED BY <1>2, <1>3, <1>4

\* As long as nothing of theirs changes.
LEMMA IdleStays ==
    ASSUME Idle, UNCHANGED <<semanticVars, irVars, vmVars>>
    PROVE  Idle'
BY DEF Idle, SemanticInit, IrInit, Resting, semanticVars, irVars, vmVars, Vm

\* Nothing runs before the program is begun.
LEMMA EarlyWaits ==
    ASSUME InterpreterInit
    PROVE  ~Interpreted /\ \A t \in Task : ~Step(t) /\ ~Connect(t) /\ ~Continue(t)
<1>1. Main \in Task
    BY InterpreterAssumption DEF Main, Task
<1>2. /\ server = {} /\ turn = Free /\ \A t \in Task : status[t] = "none"
    BY DEF InterpreterInit
<1>3. ASSUME NEW t \in Task PROVE ~Step(t) /\ ~Connect(t) /\ ~Continue(t)
    <2>1. turn # t
        BY <1>2, InterpreterAssumption DEF Task, Free
    <2>2. ~Step(t)
        BY <2>1 DEF Step, TaskStep, RunStatement, Set, Output, If, While, CheckWhile, Repeat,
               Call, CreateFile, WriteFile, Save, Load, Python, Shell, When, StartServer,
               EndBlock, At, Active, Visit, EndVisit, EndEntry
    <2> QED BY <1>2, <2>2 DEF Connect, Request, Continue, Resume
<1> QED BY <1>1, <1>2, <1>3 DEF Interpreted

\* A parser reads a line, while there are lines.
LEMMA ParseReads ==
    ASSUME Parse
    PROVE  ~Parsed
<1>1. CASE ParseLine
    <2>1. Understand
        BY <1>1 DEF ParseLine, BeginTrigger, DeclareGlobal, OpenBlock, OpenElse, Statement,
               PassOver, OpenInPython, Enter
    <2> QED BY <2>1 DEF Understand, Parsed
<1>2. CASE StrictLine
    <2>1. Read
        BY <1>2 DEF StrictLine, StrictTrigger, StrictTopLevel, StrictWhen, StrictOpener,
               StrictStatement, StrictFileStatement, StrictJunk, StrictBroken, Take
    <2> QED BY <2>1 DEF Read, Parsed
<1> QED BY <1>1, <1>2 DEF Parse

\* At first no line is in the tree.
LEMMA CompileStarts ==
    ASSUME Init
    PROVE  CompileInv
<1>1. ParserInv
    BY ParserStarts
<1>2. dialect = "strict" => StrictWords
    <2>1. \A i \in DOMAIN place : place[i] = Nowhere
        BY DEF Init, FuzzyInit, SourceInit
    <2>2. Nodes(Program) = {} /\ Statements = {}
        BY <2>1 DEF Nodes, Statements, Nowhere, Program
    <2> QED BY <2>2, SourceIs DEF StrictWords
<1>3. Resting
    BY DEF Init, VmInit, Resting, Vm, Zero
<1>4. Idle /\ InterpreterInit
    BY <1>3 DEF Init, Idle
<1> QED BY <1>1, <1>2, <1>4 DEF CompileInv, Early

\* A line is read.
LEMMA CompileParses ==
    ASSUME CompileInv, Parse
    PROVE  CompileInv'
<1>1. ParserInv'
    BY ParserInvStep DEF CompileInv, Next
<1>2. Early
    BY ParseReads DEF CompileInv, Late
<1>3. Early' /\ Idle'
    <2>1. UNCHANGED <<semanticVars, irVars, vmVars>>
        BY DEF Parse
    <2>2. Idle'
        BY <1>2, <2>1, IdleStays DEF Early
    <2>3. InterpreterInit'
        BY <1>2 DEF Early, InterpreterInit, Parse, interpreterVars
    <2> QED BY <2>2, <2>3 DEF Early
<1>4. dialect' = dialect
    BY DEF Parse
<1>5. ASSUME dialect = "strict" PROVE StrictWords'
    <2>1. StrictInv /\ StrictWords
        BY <1>5 DEF CompileInv, ParserInv
    <2>2. StrictLine
        BY <1>5 DEF Parse
    <2> QED BY <2>1, <2>2, WordsStep
<1> QED BY <1>1, <1>3, <1>4, <1>5 DEF CompileInv

\* What no parser's step changes.
LEMMA ReadStays ==
    ASSUME CompileInv, UNCHANGED <<parserVars, dialect>>
    PROVE  /\ ParserInv' /\ (dialect' = "strict" => StrictWords')
           /\ Parsed' = Parsed /\ dialect' = dialect /\ (Compilable' <=> Compilable)
           /\ lines' = lines /\ place' = place
<1>1. /\ lines' = lines /\ pos' = pos /\ place' = place /\ failed' = failed
      /\ dialect' = dialect
    BY DEF parserVars, sourceVars
<1>2. ParserInv'
    BY ParserStays DEF CompileInv
<1>3. Compilable' <=> Compilable
    BY <1>1, SameMeaning
<1>4. StrictWords' <=> StrictWords
    <2>1. Nodes(Program)' = Nodes(Program) /\ Statements' = Statements
        BY <1>1, SameProgram
    <2>2. \A i : Begun(i)' = Begun(i)
        BY <1>1 DEF Begun
    <2> QED BY <1>1, <2>1, <2>2 DEF StrictWords
<1> QED BY <1>1, <1>2, <1>3, <1>4 DEF CompileInv, Parsed

\* A strict program that is read.
LEMMA StrictIs ==
    ASSUME CompileInv, dialect = "strict"
    PROVE  SourceTyped /\ StrictInv /\ StrictWords /\ lines \in Seq(StrictSourceLine)
<1>1. StrictInv /\ StrictWords
    BY DEF CompileInv, ParserInv
<1> QED BY <1>1 DEF StrictInv, StrictWords

\* The program is begun.
LEMMA CompileBegins ==
    ASSUME CompileInv, Begin
    PROVE  CompileInv'
<1>1. Parsed /\ UNCHANGED <<parserVars, dialect>> /\ UNCHANGED <<semanticVars, irVars, vmVars>>
    BY DEF Begin, Interpreting
<1>2. /\ ParserInv' /\ (dialect' = "strict" => StrictWords')
      /\ Parsed' = Parsed /\ dialect' = dialect /\ (Compilable' <=> Compilable)
      /\ lines' = lines /\ place' = place
    BY <1>1, ReadStays
<1>3. dialect' # "strict" => Idle'
    BY <1>1, <1>2, IdleStays DEF CompileInv
<1>4. ASSUME dialect = "strict", Compilable PROVE \E s, sem : RunsWell(s, sem)'
    <2>1. SourceTyped /\ StrictInv /\ StrictWords /\ lines \in Seq(StrictSourceLine)
        BY <1>4, StrictIs
    <2>2. CASE Early
        <3>1. PICK s : Tree(s) /\ Faithful
            BY <1>4, <2>1, TreeIs
        <3>2. PICK sem : Semantics(s, sem)
            BY <2>1, <3>1, SemanticsExist
        <3>3. InterpreterInit /\ SemanticInit /\ IrInit /\ Resting
            BY <2>2 DEF Early, Idle
        <3>4. RunsWell(s, sem)'
            BY <2>1, <3>1, <3>2, <3>3, WellBegins
        <3> QED BY <3>4
    <2>3. CASE Late
        <3>1. PICK s, sem : RunsWell(s, sem)
            BY <1>4, <2>3 DEF Late
        <3>2. status[Main] \in {"entry", "raised", "ended"}
            BY <3>1 DEF RunsWell, Interprets
        <3> QED BY <3>2 DEF Begin, Run
    <2> QED BY <2>2, <2>3 DEF CompileInv
<1>5. Late'
    BY <1>1, <1>2, <1>4 DEF Late
<1> QED BY <1>2, <1>3, <1>5 DEF CompileInv

\* What comes after it has begun.
Proceed ==
    (\E t \in Task : Step(t) \/ Connect(t) \/ Continue(t)) \/ Analyse \/ Lower \/ Execute

\* The program is interpreted, analysed, lowered and executed.
LEMMA CompileGoesOn ==
    ASSUME CompileInv, Proceed
    PROVE  CompileInv'
<1>1. UNCHANGED <<parserVars, dialect>>
    BY DEF Proceed, Step, Connect, Continue, Interpreting, Analyse, Lower, Execute
<1>2. /\ ParserInv' /\ (dialect' = "strict" => StrictWords')
      /\ Parsed' = Parsed /\ dialect' = dialect /\ (Compilable' <=> Compilable)
      /\ lines' = lines /\ place' = place
    BY <1>1, ReadStays
<1>3. Late
    <2>1. SUFFICES ASSUME Early PROVE FALSE
        BY DEF CompileInv
    <2>2. /\ ~Interpreted /\ \A t \in Task : ~Step(t) /\ ~Connect(t) /\ ~Continue(t)
        BY <2>1, EarlyWaits DEF Early
    <2>3. ~Analyse /\ ~Lower /\ ~Execute
        BY <2>1, <2>2, IdleWaits DEF Early
    <2> QED BY <2>2, <2>3 DEF Proceed
<1>4. ASSUME dialect # "strict" PROVE Idle'
    <2>1. Idle
        BY <1>4 DEF CompileInv
    <2>2. ~Analyse /\ ~Lower /\ ~Execute
        BY <1>4, <2>1, IdleWaits
    <2>3. UNCHANGED <<semanticVars, irVars, vmVars>>
        BY <2>2 DEF Proceed, Step, Connect, Continue, Interpreting
    <2> QED BY <2>1, <2>3, IdleStays
<1>5. ASSUME dialect = "strict", Compilable PROVE \E s, sem : RunsWell(s, sem)'
    <2>1. PICK s, sem : RunsWell(s, sem)
        BY <1>3, <1>5 DEF Late
    <2>2. SourceTyped /\ lines \in Seq(StrictSourceLine)
        BY <1>5, StrictIs
    <2>3. RunsWell(s, sem)'
        BY <2>1, <2>2, WellInterpreted, WellAnalysed, WellLowered, WellExecuted DEF Proceed
    <2> QED BY <2>3
<1>6. Late'
    BY <1>2, <1>3, <1>5 DEF Late
<1> QED BY <1>2, <1>4, <1>6 DEF CompileInv

\* Nothing happens.
LEMMA CompileStutters ==
    ASSUME CompileInv, UNCHANGED vars
    PROVE  CompileInv'
<1>1. /\ UNCHANGED <<parserVars, dialect>> /\ UNCHANGED <<semanticVars, irVars, vmVars>>
      /\ UNCHANGED interpreterVars
    BY DEF vars
<1>2. /\ ParserInv' /\ (dialect' = "strict" => StrictWords')
      /\ Parsed' = Parsed /\ dialect' = dialect /\ (Compilable' <=> Compilable)
      /\ lines' = lines /\ place' = place
    BY <1>1, ReadStays
<1>3. Idle => Idle'
    BY <1>1, IdleStays
<1>4. InterpreterInit => InterpreterInit'
    BY <1>1 DEF InterpreterInit, interpreterVars
<1>5. ASSUME NEW s, NEW sem, RunsWell(s, sem) PROVE RunsWell(s, sem)'
    <2>1. /\ UNCHANGED <<lines, place>> /\ UNCHANGED <<lines, place, interpreterVars>>
          /\ UNCHANGED <<lines, place, semanticVars>>
          /\ UNCHANGED <<lines, place, variables, irVars>>
          /\ UNCHANGED <<lines, place, semanticVars, irVars, vmVars>>
        BY <1>1, <1>2 DEF semanticVars
    <2>2. (Tree(s) /\ Faithful /\ Semantics(s, sem))'
        BY <1>5, <2>1, SameMeaning DEF RunsWell
    <2>3. Interprets(s, sem)'
        BY <1>5, <2>1, SameRun DEF RunsWell
    <2>4. Analysed'
        BY <1>5, <2>1, SameNames DEF RunsWell
    <2>5. Lowers(s, sem, blocks, block, regs, counter, lowering)'
        BY <1>5, <2>1, SameLowering DEF RunsWell
    <2>6. (Resting \/ Executes(sem))'
        BY <1>5, <2>1, SameExecution DEF RunsWell
    <2>7. /\ verdict' = verdict /\ lowering' = lowering
          /\ Interpreted' = Interpreted
        BY <1>1 DEF semanticVars, irVars, interpreterVars, Interpreted
    <2>8. /\ verdict # "accepted" => lowering = <<>>
          /\ verdict # "pending" => Interpreted
        BY <1>5 DEF RunsWell
    <2> QED BY <2>2, <2>3, <2>4, <2>5, <2>6, <2>7, <2>8 DEF RunsWell
<1>6. Early => Early'
    BY <1>3, <1>4 DEF Early
<1>7. Late => Late'
    BY <1>2, <1>5 DEF Late
<1> QED BY <1>2, <1>3, <1>6, <1>7 DEF CompileInv

\* Every step keeps it.
LEMMA CompileInvStep ==
    ASSUME CompileInv, [Next]_vars
    PROVE  CompileInv'
<1>1. Parse \/ Begin \/ Proceed \/ UNCHANGED vars
    BY DEF Next, Proceed
<1> QED BY <1>1, CompileParses, CompileBegins, CompileGoesOn, CompileStutters

\* It is what the property says.
LEMMA CompileInvRight ==
    ASSUME CompileInv
    PROVE  CompiledRight
<1>1. SUFFICES ASSUME pc > 0, Compilable
      PROVE  /\ IsPrefix(printed, out)
             /\ DOMAIN vmFiles \subseteq DOMAIN files
             /\ VmEnded \/ vmFailed =>
                   printed = out /\ SameFiles /\ vmFailed = (status[Main] = "raised")
             /\ \A x \in Var : Name(x) \in DOMAIN slots =>
                   x \in variables \/ \E j \in Statements : lines[j].kind = "if" /\ lines[j].var = x
    BY DEF CompiledRight
<1>2. pc # 0
    BY <1>1
<1>3. ~Idle
    BY <1>2 DEF Idle, Resting
<1>4. dialect = "strict" /\ Late
    BY <1>3 DEF CompileInv, Early
<1>5. SourceTyped /\ lines \in Seq(StrictSourceLine)
    BY <1>4, StrictIs
<1>6. PICK s, sem : RunsWell(s, sem)
    BY <1>1, <1>4 DEF Late
<1> QED BY <1>2, <1>5, <1>6, WellCompiled

\* Whatever the program, if it keeps to what Compilable asks for, the compiled one prints
\* what the interpreted one prints, raises when it does and leaves the same files.
THEOREM CompilesRight == Spec => []CompiledRight
<1>1. Init => CompileInv
    BY CompileStarts
<1>2. CompileInv /\ [Next]_vars => CompileInv'
    BY CompileInvStep
<1>3. CompileInv => CompiledRight
    BY CompileInvRight
<1> QED BY <1>1, <1>2, <1>3, PTL DEF Spec
=============================================================================
