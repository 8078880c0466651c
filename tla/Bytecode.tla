------------------------------ MODULE Bytecode ------------------------------
(***************************************************************************)
(* BytecodeCompiler.compile_function and VM.run of                         *)
(* engine/vm/bytecode_vm.py.  Constants are given in their instruction and *)
(* slots are called by what they are for, a register or a variable.        *)
(***************************************************************************)
EXTENDS IrGenerator

CONSTANT MaxOut     \* lines the program may print, for those that never end

ASSUME BytecodeAssumption == MaxOut \in Nat

VARIABLES
    code,       \* the program: pairs of an opcode and an argument
    pc,         \* the next instruction, 0 before the program is compiled
    slots,      \* vars: slot -> value
    operands,   \* the stack
    printed,    \* what was printed
    vmFiles,    \* the files written
    vmFailed    \* an instruction raised

vmVars == <<code, pc, slots, operands, printed, vmFiles, vmFailed>>

VmInit ==
    /\ code = <<>> /\ pc = 0 /\ slots = <<>>
    /\ operands = <<>> /\ printed = <<>> /\ vmFiles = <<>> /\ vmFailed = FALSE

Op(name, arg) == <<name, arg>>

Loads(args) == [k \in DOMAIN args |-> Op("LOAD", args[k])]

\* lower_instr
LowerInstr(i) ==
    CASE i.op = "const" -> <<Op("LOAD_CONST", i.args[1]), Op("STORE", i.result)>>
      [] i.op \in {"add", "sub", "mul", "eq", "gt"} ->
             Loads(i.args) \o <<Op(i.op, None), Op("STORE", i.result)>>
      [] i.op = "store" -> <<Op("LOAD", i.args[2]), Op("STORE", i.args[1])>>
      [] i.op = "print" -> <<Op("LOAD", i.args[1]), Op("PRINT", None)>>
      [] i.op = "file.create" -> Append(Loads(i.args), Op("FILE_CREATE", None))
      [] i.op = "file.write" -> Append(Loads(i.args), Op("FILE_WRITE", None))
      [] i.op = "br" -> <<Op("JMP", i.args[1])>>
      [] i.op = "cbr" -> <<Op("LOAD", i.args[1]), Op("JMP_IF", i.args[2]), Op("JMP", i.args[3])>>

\* Mutant: terminators are forgotten.
LowerBlockOnly(b) ==
    <<Op("LABEL", b.name)>>
        \o FlattenSeq([k \in DOMAIN b.instrs |-> LowerInstr(b.instrs[k])])

\* A block without terminator falls through to the one after it.
LowerBlock(b) ==
    LET instrs == b.instrs \o b.terminator
    IN  <<Op("LABEL", b.name)>>
            \o FlattenSeq([k \in DOMAIN instrs |-> LowerInstr(instrs[k])])

\* compile_function
Compile ==
    /\ IrDone /\ pc = 0
    /\ code' = FlattenSeq([k \in DOMAIN blocks |-> LowerBlock(blocks[k])])
    /\ pc' = 1
    /\ UNCHANGED <<slots, operands, printed, vmFiles, vmFailed>>

\* labels has one place for each name: that of the last block with it.
Label(name) == Max({k \in DOMAIN code : code[k] = Op("LABEL", name)})

Running == pc \in DOMAIN code /\ ~vmFailed /\ Len(printed) <= MaxOut
Opcode == code[pc][1]
Arg == code[pc][2]

Slot(s) == IF s \in DOMAIN slots THEN slots[s] ELSE Num(0)
Pushed(v) == Append(operands, v)
TopValue == Last(operands)

VmLabel ==
    /\ Running /\ Opcode = "LABEL"
    /\ pc' = pc + 1
    /\ UNCHANGED <<code, slots, operands, printed, vmFiles, vmFailed>>

VmLoad ==
    /\ Running /\ Opcode \in {"LOAD", "LOAD_CONST"}
    /\ operands' = Pushed(IF Opcode = "LOAD" THEN Slot(Arg) ELSE Arg)
    /\ pc' = pc + 1
    /\ UNCHANGED <<code, slots, printed, vmFiles, vmFailed>>

VmStore ==
    /\ Running /\ Opcode = "STORE"
    /\ slots' = Stored(slots, Arg, TopValue)
    /\ operands' = Front(operands)
    /\ pc' = pc + 1
    /\ UNCHANGED <<code, printed, vmFiles, vmFailed>>

OpName(op) == CASE op = "add" -> "PLUS" [] op = "sub" -> "MINUS" [] op = "mul" -> "TIMES"

Truth(holds) == Num(IF holds THEN 1 ELSE 0)

TypeError(op, a, b) ==
    CASE op = "eq" -> FALSE
      [] op = "gt" -> ~(IsNumber(a) /\ IsNumber(b))
      [] OTHER     -> ~Fits(OpName(op), a, b)

\* ADD, SUB, MUL, EQ and GT of the two topmost values.
VmBinary ==
    /\ Running /\ Opcode \in {"add", "sub", "mul", "eq", "gt"}
    /\ LET b == TopValue
           a == Last(Front(operands))
           raises == TypeError(Opcode, a, b)
           value == CASE Opcode = "eq" -> Truth(SameValue(a, b))
                      [] Opcode = "gt" -> Truth(a[2] > b[2])
                      [] OTHER -> Calculate(OpName(Opcode), a, b)
       IN  /\ vmFailed' = raises
           /\ operands' = IF raises THEN operands ELSE Append(Front(Front(operands)), value)
    /\ pc' = pc + 1
    /\ UNCHANGED <<code, slots, printed, vmFiles>>

VmPrint ==
    /\ Running /\ Opcode = "PRINT"
    /\ printed' = Append(printed, TopValue)
    /\ operands' = Front(operands)
    /\ pc' = pc + 1
    /\ UNCHANGED <<code, slots, vmFiles, vmFailed>>

VmCreateFile ==
    /\ Running /\ Opcode = "FILE_CREATE"
    /\ vmFiles' = Stored(vmFiles, TopValue[2], <<>>)
    /\ operands' = Front(operands)
    /\ pc' = pc + 1
    /\ UNCHANGED <<code, slots, printed, vmFailed>>

\* A file is opened for appending, which makes it if need be.
VmWriteFile ==
    /\ Running /\ Opcode = "FILE_WRITE"
    /\ LET name == Last(Front(operands))[2]
           held == IF name \in DOMAIN vmFiles THEN vmFiles[name] ELSE <<>>
       IN  vmFiles' = Stored(vmFiles, name, Append(held, TopValue))
    /\ operands' = Front(Front(operands))
    /\ pc' = pc + 1
    /\ UNCHANGED <<code, slots, printed, vmFailed>>

VmJump ==
    /\ Running /\ Opcode \in {"JMP", "JMP_IF"}
    /\ pc' = IF Opcode = "JMP" \/ TopValue # Num(0) THEN Label(Arg) ELSE pc + 1
    /\ operands' = IF Opcode = "JMP" THEN operands ELSE Front(operands)
    /\ UNCHANGED <<code, slots, printed, vmFiles, vmFailed>>

VmStep ==
    \/ VmLabel \/ VmLoad \/ VmStore \/ VmBinary
    \/ VmPrint \/ VmCreateFile \/ VmWriteFile \/ VmJump

VmEnded == pc = Len(code) + 1 /\ pc > 1
=============================================================================
