-------------------------------- MODULE Isa --------------------------------
(***************************************************************************)
(* The instruction set: one instruction is one step, as step_state of      *)
(* isa.c executes it.  It is the reference the processors are compared     *)
(* with (psim -t and ssim -t).                                             *)
(***************************************************************************)
EXTENDS Y86

CONSTANT EspBeforeFault
  \* TRUE in isa.c: call, pushl, popl and leave move the stack pointer and
  \* then find that the address is bad.  The processors do not, they drop
  \* the instruction whole.

VARIABLES code, pc, reg, mem, cc, stat
vars == <<code, pc, reg, mem, cc, stat>>

reg_valid(id) == id \in Reg

\* Which fields of an instruction step_state insists on.
RegistersValid(i) ==
  /\ i.icode \in {"IRRMOVL", "IRMMOVL", "IMRMOVL", "IPUSHL", "IPOPL"} => reg_valid(i.rA)
  /\ i.icode \in {"IRRMOVL", "IIRMOVL", "IIADDL"} => reg_valid(i.rB)

instr == code[pc]
ftpc == ToWord(pc + 1)
R(id) == get_reg_val(reg, id)

At(op) ==
  /\ stat = "AOK"
  /\ pc \in DOMAIN code
  /\ instr.icode = op
  /\ RegistersValid(instr)

GoTo(next) == pc' = next /\ UNCHANGED <<code, stat>>

Stop(status) == stat' = status /\ UNCHANGED <<code, pc, mem, cc>>

\* The stack pointer after a fault.
Faulted(moved) == reg' = IF EspBeforeFault THEN moved ELSE reg

Nop == At("INOP") /\ GoTo(ftpc) /\ UNCHANGED <<reg, mem, cc>>

Halt == At("IHALT") /\ Stop("HLT") /\ UNCHANGED reg

Rrmovl ==
  /\ At("IRRMOVL")
  /\ reg' = IF cond_holds(cc, instr.ifun)
            THEN set_reg_val(reg, instr.rB, R(instr.rA))
            ELSE reg
  /\ GoTo(ftpc)
  /\ UNCHANGED <<mem, cc>>

Irmovl ==
  /\ At("IIRMOVL")
  /\ reg' = set_reg_val(reg, instr.rB, instr.valC)
  /\ GoTo(ftpc)
  /\ UNCHANGED <<mem, cc>>

Target == ToWord(instr.valC + R(instr.rB))

Rmmovl ==
  /\ At("IRMMOVL")
  /\ UNCHANGED <<reg, cc>>
  /\ \/ /\ Target \in Addr
        /\ mem' = set_word_val(mem, Target, R(instr.rA))
        /\ GoTo(ftpc)
     \/ Target \notin Addr /\ Stop("ADR")

Mrmovl ==
  /\ At("IMRMOVL")
  /\ UNCHANGED <<mem, cc>>
  /\ \/ /\ Target \in Addr
        /\ reg' = set_reg_val(reg, instr.rA, mem[Target])
        /\ GoTo(ftpc)
     \/ Target \notin Addr /\ Stop("ADR") /\ UNCHANGED reg

Arithmetic(op, argA) ==
  /\ reg' = set_reg_val(reg, instr.rB, compute_alu(op, argA, R(instr.rB)))
  /\ cc' = compute_cc(op, argA, R(instr.rB))
  /\ GoTo(ftpc)
  /\ UNCHANGED mem

Opl == At("IOPL") /\ Arithmetic(instr.ifun, R(instr.rA))
Iaddl == At("IIADDL") /\ Arithmetic("ADD", instr.valC)

Jxx ==
  /\ At("IJXX")
  /\ GoTo(IF cond_holds(cc, instr.ifun) THEN instr.valC ELSE ftpc)
  /\ UNCHANGED <<reg, mem, cc>>

Push(val, next) ==
  LET dval == ToWord(-WordSize + R("esp"))
      moved == set_reg_val(reg, "esp", dval)
  IN /\ UNCHANGED cc
     /\ \/ /\ dval \in Addr
           /\ reg' = moved
           /\ mem' = set_word_val(mem, dval, val)
           /\ GoTo(next)
        \/ dval \notin Addr /\ Stop("ADR") /\ Faulted(moved)

Pushl == At("IPUSHL") /\ Push(R(instr.rA), ftpc)
Call == At("ICALL") /\ Push(ftpc, instr.valC)

Ret ==
  /\ At("IRET")
  /\ UNCHANGED <<mem, cc>>
  /\ \/ /\ R("esp") \in Addr
        /\ reg' = set_reg_val(reg, "esp", ToWord(WordSize + R("esp")))
        /\ GoTo(mem[R("esp")])
     \/ R("esp") \notin Addr /\ Stop("ADR") /\ UNCHANGED reg

\* popl from the stack pointer, leave from the frame pointer.
Pop(dval, dst) ==
  LET moved == set_reg_val(reg, "esp", ToWord(WordSize + dval))
  IN /\ UNCHANGED <<mem, cc>>
     /\ \/ /\ dval \in Addr
           /\ reg' = set_reg_val(moved, dst, mem[dval])
           /\ GoTo(ftpc)
        \/ dval \notin Addr /\ Stop("ADR") /\ Faulted(moved)

Popl == At("IPOPL") /\ Pop(R("esp"), instr.rA)
Leave == At("ILEAVE") /\ Pop(R("ebp"), "ebp")

InvalidAddress == stat = "AOK" /\ pc \notin DOMAIN code /\ Stop("ADR") /\ UNCHANGED reg

InvalidInstruction ==
  /\ stat = "AOK"
  /\ pc \in DOMAIN code
  /\ instr.icode \notin Opcodes \/ ~RegistersValid(instr)
  /\ Stop("INS")
  /\ UNCHANGED reg

step_state ==
  \/ Nop \/ Halt \/ Rrmovl \/ Irmovl \/ Rmmovl \/ Mrmovl \/ Opl \/ Iaddl
  \/ Jxx \/ Call \/ Ret \/ Pushl \/ Popl \/ Leave
  \/ InvalidAddress \/ InvalidInstruction

Spec == stat = "AOK" /\ pc = 0 /\ cc = DEFAULT_CC /\ [][step_state]_vars
\* As long as there is an instruction to execute one is executed.
Progress == WF_vars(step_state)
=============================================================================
