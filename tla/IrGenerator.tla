---------------------------- MODULE IrGenerator ----------------------------
(***************************************************************************)
(* IRGenerator.lower of engine/ir/builder.py with IRBuilder of             *)
(* engine/ir/ssa.py: the statements of a trigger become instructions in    *)
(* basic blocks, one statement a step.  Several blocks may have the name   *)
(* of an IF's or a REPEAT's part: a branch gives only the name.            *)
(*                                                                         *)
(* Left out: the types of registers, which decide nothing here.            *)
(***************************************************************************)
EXTENDS Ast

VARIABLES
    blocks,     \* func.blocks: each with a name, instructions and at most one terminator
    block,      \* the block instructions are added to
    regs,       \* self.vars: variable -> operand, or None
    counter,    \* registers made
    lowering    \* the lower_* calls in progress, innermost last

irVars == <<blocks, block, regs, counter, lowering>>

None == <<"none">>
Reg(k) == <<"reg", k>>

Instr(op, args, result) == [op |-> op, args |-> args, result |-> result]
Br(name) == <<Instr("br", <<name>>, None)>>
Cbr(cond, then, else) == <<Instr("cbr", <<cond, then, else>>, None)>>
NewBlock(name) == [name |-> name, instrs |-> <<>>, terminator |-> <<>>]

\* A call in progress: a list of statements, how many are lowered, and the blocks of
\* the IF or REPEAT it is the body of.
Body_(body, after, header, iter) ==
    [body |-> body, done |-> 0, after |-> after, header |-> header, iter |-> iter]

IrInit ==
    /\ blocks = <<NewBlock("entry")>> /\ block = 1
    /\ regs = [x \in Var |-> None]
    /\ counter = 0
    /\ lowering = <<>>

Outer == Front(lowering)
Inner == Last(lowering)
Upcoming == NextNode(Inner.body, Inner.done)
Stmt == lines[Upcoming]
Lowered == Append(Outer, [Inner EXCEPT !.done = Upcoming])

Lowering(kind) == lowering # <<>> /\ Upcoming # 0 /\ Stmt.kind = kind

\* A trigger is lowered into a function of its own.
LowerTrigger(j) ==
    /\ lowering' = <<Body_(Body(j), 0, 0, None)>>
    /\ UNCHANGED <<blocks, block, regs, counter>>

\* The instructions that give a value a register, the register, and what is known
\* afterwards.  A variable not yet set gets a register that nothing writes to.
Operand(v, known, n) ==
    LET reg == Reg(n + 1)
    IN  IF v[1] # "name"
        THEN [instrs |-> <<Instr("const", <<v>>, reg)>>, reg |-> reg, regs |-> known, n |-> n + 1]
        ELSE IF known[v[2]] # None
        THEN [instrs |-> <<>>, reg |-> known[v[2]], regs |-> known, n |-> n]
        ELSE [instrs |-> <<Instr("store", <<v, reg>>, None)>>, reg |-> reg,
              regs |-> [known EXCEPT ![v[2]] = reg], n |-> n + 1]

\* The same of two values, and an operation on them.
Binary(op, a, b) ==
    LET left == Operand(a, regs, counter)
        right == Operand(b, left.regs, left.n)
        reg == Reg(right.n + 1)
    IN  [instrs |-> left.instrs \o right.instrs \o <<Instr(op, <<left.reg, right.reg>>, reg)>>,
         reg |-> reg, regs |-> right.regs, n |-> right.n + 1]

Add(blks, k, instrs) == [blks EXCEPT ![k].instrs = @ \o instrs]

LowerSet ==
    /\ Lowering("set")
    /\ LET op == CASE Stmt.op = "PLUS" -> "add" [] Stmt.op = "MINUS" -> "sub"
                   [] Stmt.op = "TIMES" -> "mul" [] OTHER -> "none"
           res == IF op = "none" THEN Operand(Stmt.left, regs, counter)
                  ELSE Binary(op, Stmt.left, Stmt.right)
       IN  /\ blocks' = Add(blocks, block,
                            Append(res.instrs, Instr("store", <<Name(Stmt.var), res.reg>>, None)))
           /\ regs' = [res.regs EXCEPT ![Stmt.var] = res.reg]
           /\ counter' = res.n
    /\ lowering' = Lowered
    /\ UNCHANGED block

LowerOutput ==
    /\ Lowering("output")
    /\ LET res == Operand(Stmt.left, regs, counter)
       IN  /\ blocks' = Add(blocks, block, Append(res.instrs, Instr("print", <<res.reg>>, None)))
           /\ regs' = res.regs
           /\ counter' = res.n
    /\ lowering' = Lowered
    /\ UNCHANGED block

LowerCreateFile ==
    /\ Lowering("create")
    /\ LET name == Operand(Str(Stmt.var), regs, counter)
       IN  /\ blocks' = Add(blocks, block,
                            Append(name.instrs, Instr("file.create", <<name.reg>>, None)))
           /\ counter' = name.n
    /\ lowering' = Lowered
    /\ UNCHANGED <<block, regs>>

LowerWriteFile ==
    /\ Lowering("write")
    /\ LET name == Operand(Str(Stmt.var), regs, counter)
           content == Operand(Stmt.left, regs, name.n)
       IN  /\ blocks' = Add(blocks, block,
                            Append(name.instrs \o content.instrs,
                                   Instr("file.write", <<name.reg, content.reg>>, None)))
           /\ regs' = content.regs
           /\ counter' = content.n
    /\ lowering' = Lowered
    /\ UNCHANGED block

\* Two new blocks; the body is lowered into the first.
LowerIf ==
    /\ Lowering("if")
    /\ LET cmp == Binary("eq", Name(Stmt.var), Stmt.left)
           filled == [Add(blocks, block, cmp.instrs) EXCEPT
                        ![block].terminator = Cbr(cmp.reg, "if.then", "if.cont")]
       IN  /\ blocks' = filled \o <<NewBlock("if.then"), NewBlock("if.cont")>>
           /\ regs' = cmp.regs
           /\ counter' = cmp.n
    /\ block' = Len(blocks) + 1
    /\ lowering' = Append(Lowered, Body_(Body(Upcoming), Len(blocks) + 2, 0, None))

\* Three new blocks.  The header sets the counter of the loop whenever it is entered.
LowerRepeat ==
    /\ Lowering("repeat")
    /\ LET count == Operand(Stmt.left, regs, counter)
           iter == Reg(count.n + 1)
           zero == Reg(count.n + 2)
           cmp == Reg(count.n + 3)
           filled == [Add(blocks, block, count.instrs) EXCEPT
                        ![block].terminator = Br("loop.header")]
           header == [name |-> "loop.header",
                      instrs |-> <<Instr("store", <<iter, count.reg>>, None),
                                   Instr("const", <<Num(0)>>, zero),
                                   Instr("gt", <<iter, zero>>, cmp)>>,
                      terminator |-> Cbr(cmp, "loop.body", "loop.after")]
       IN  /\ blocks' = filled \o <<header, NewBlock("loop.body"), NewBlock("loop.after")>>
           /\ regs' = count.regs
           /\ counter' = count.n + 3
           /\ lowering' = Append(Lowered, Body_(Body(Upcoming), Len(blocks) + 3,
                                                Len(blocks) + 1, iter))
    /\ block' = Len(blocks) + 2

\* The body of an IF goes on to the block after it; that of a REPEAT counts down and
\* goes back to the header.
EndBody ==
    /\ Len(lowering) > 1 /\ Upcoming = 0
    /\ IF Inner.header = 0
       THEN /\ blocks' = [blocks EXCEPT ![block].terminator = Br("if.cont")]
            /\ UNCHANGED counter
       ELSE /\ blocks' = [Add(blocks, block,
                              <<Instr("const", <<Num(1)>>, Reg(counter + 1)),
                                Instr("sub", <<Inner.iter, Reg(counter + 1)>>, Reg(counter + 2)),
                                Instr("store", <<Inner.iter, Reg(counter + 2)>>, None)>>)
                          EXCEPT ![block].terminator = Br("loop.header")]
            /\ counter' = counter + 2
    /\ block' = Inner.after
    /\ lowering' = Outer
    /\ UNCHANGED regs

LowerStep ==
    \/ LowerSet \/ LowerOutput \/ LowerCreateFile \/ LowerWriteFile
    \/ LowerIf \/ LowerRepeat \/ EndBody

IrDone == Len(lowering) = 1 /\ Upcoming = 0
=============================================================================
