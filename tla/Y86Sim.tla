------------------------------- MODULE Y86Sim -------------------------------
(***************************************************************************)
(* The instruction simulator of the fourth laboratory: one action per case  *)
(* of nexti in y86sim.c.  It has neither iaddl nor leave, and reads         *)
(* registers without asking whether their names are valid.                 *)
(***************************************************************************)
EXTENDS Y86

VARIABLES code, pc, reg, mem, cc, stat
vars == <<code, pc, reg, mem, cc, stat>>

instr == code[pc]
next_pc == ToWord(pc + 1)
valA == get_reg_val(reg, instr.rA)
valB == get_reg_val(reg, instr.rB)
esp == get_reg_val(reg, "esp")

\* An operation y86sim.c does not know gives 0.
sim_compute_alu(op, argA, argB) ==
  CASE op = "ADD" -> ToWord(argB + argA)
    [] op = "SUB" -> ToWord(argB - argA)
    [] op = "AND" -> And[<<argB, argA>>]
    [] op = "XOR" -> Xor[<<argB, argA>>]
    [] OTHER -> 0

\* The branch and move conditions, none of which holds for another code.
cond_doit(codes, cond) ==
  CASE cond = "YES" -> TRUE
    [] cond = "LE" -> codes.sf # codes.of \/ codes.zf
    [] cond = "L"  -> codes.sf # codes.of
    [] cond = "E"  -> codes.zf
    [] cond = "NE" -> ~codes.zf
    [] cond = "GE" -> codes.sf = codes.of
    [] cond = "G"  -> codes.sf = codes.of /\ ~codes.zf
    [] OTHER -> FALSE

\* The overflow of a difference, as y86sim.c states it.
sim_compute_cc(op, argA, argB) ==
  LET val == sim_compute_alu(op, argA, argB)
  IN [zf |-> val = 0,
      sf |-> val < 0,
      of |-> \/ /\ op = "ADD"
                /\ (argA < 0) = (argB < 0)
                /\ (val < 0) # (argA < 0)
             \/ /\ op = "SUB"
                /\ (argB < 0) # (argA < 0)
                /\ (argB < 0) # (val < 0)]

\* A fresh image, with the registers the moves at the head of the program left.
new_y86sim(regs, memory) ==
  pc = 0 /\ reg = regs /\ mem = memory /\ cc = DEFAULT_CC /\ stat = "AOK"

At(op) == stat = "AOK" /\ pc \in DOMAIN code /\ instr.icode = op
GoTo(next) == pc' = next /\ UNCHANGED <<code, stat>>
Return(status) == stat' = status /\ UNCHANGED <<code, pc, mem, cc>>

Nop == At("INOP") /\ GoTo(next_pc) /\ UNCHANGED <<reg, mem, cc>>

Halt == At("IHALT") /\ Return("HLT") /\ UNCHANGED reg

Rrmovl ==
  /\ At("IRRMOVL")
  /\ reg' = IF cond_doit(cc, instr.ifun) THEN set_reg_val(reg, instr.rB, valA) ELSE reg
  /\ GoTo(next_pc)
  /\ UNCHANGED <<mem, cc>>

Irmovl ==
  /\ At("IIRMOVL")
  /\ reg' = set_reg_val(reg, instr.rB, instr.valC)
  /\ GoTo(next_pc)
  /\ UNCHANGED <<mem, cc>>

valE == sim_compute_alu("ADD", instr.valC, valB)

\* The result of set_long_val is dropped: a bad address is no error.
Rmmovl ==
  /\ At("IRMMOVL")
  /\ mem' = set_word_val(mem, valE, valA)
  /\ GoTo(next_pc)
  /\ UNCHANGED <<reg, cc>>

Mrmovl ==
  /\ At("IMRMOVL")
  /\ UNCHANGED <<mem, cc>>
  /\ \/ /\ valE \in Addr
        /\ reg' = set_reg_val(reg, instr.rA, mem[valE])
        /\ GoTo(next_pc)
     \/ valE \notin Addr /\ Return("ADR") /\ UNCHANGED reg

Alu ==
  /\ At("IOPL")
  /\ cc' = sim_compute_cc(instr.ifun, valA, valB)
  /\ reg' = set_reg_val(reg, instr.rB, sim_compute_alu(instr.ifun, valA, valB))
  /\ GoTo(next_pc)
  /\ UNCHANGED mem

Jmp ==
  /\ At("IJXX")
  /\ GoTo(IF cond_doit(cc, instr.ifun) THEN instr.valC ELSE next_pc)
  /\ UNCHANGED <<reg, mem, cc>>

\* The stack pointer has moved when the store fails.
Push(val, next) ==
  LET below == sim_compute_alu("ADD", -WordSize, esp)
  IN /\ reg' = set_reg_val(reg, "esp", below)
     /\ UNCHANGED cc
     /\ \/ below \in Addr /\ mem' = set_word_val(mem, below, val) /\ GoTo(next)
        \/ below \notin Addr /\ Return("ADR")

Call == At("ICALL") /\ Push(next_pc, instr.valC)
Pushl == At("IPUSHL") /\ Push(valA, next_pc)

Ret ==
  /\ At("IRET")
  /\ UNCHANGED <<mem, cc>>
  /\ \/ /\ esp \in Addr
        /\ reg' = set_reg_val(reg, "esp", sim_compute_alu("ADD", WordSize, esp))
        /\ GoTo(mem[esp])
     \/ esp \notin Addr /\ Return("ADR") /\ UNCHANGED reg

\* A mutant: the stack pointer is written last.
PoplStackLast ==
  /\ At("IPOPL")
  /\ UNCHANGED <<mem, cc>>
  /\ \/ /\ esp \in Addr
        /\ reg' = WriteBack(reg, instr.rA, mem[esp], "esp", sim_compute_alu("ADD", WordSize, esp))
        /\ GoTo(next_pc)
     \/ esp \notin Addr /\ Return("ADR") /\ UNCHANGED reg

Popl ==
  /\ At("IPOPL")
  /\ UNCHANGED <<mem, cc>>
  /\ \/ /\ esp \in Addr
        /\ reg' = WriteBack(reg, "esp", sim_compute_alu("ADD", WordSize, esp), instr.rA, mem[esp])
        /\ GoTo(next_pc)
     \/ esp \notin Addr /\ Return("ADR") /\ UNCHANGED reg

InvalidAddress ==
  stat = "AOK" /\ pc \notin DOMAIN code /\ Return("ADR") /\ UNCHANGED reg

InvalidInstruction ==
  /\ stat = "AOK"
  /\ pc \in DOMAIN code
  /\ instr.icode \notin Opcodes \ {"IIADDL", "ILEAVE"}
  /\ Return("INS")
  /\ UNCHANGED reg

nexti ==
  \/ Nop \/ Halt \/ Rrmovl \/ Irmovl \/ Rmmovl \/ Mrmovl \/ Alu \/ Jmp
  \/ Call \/ Ret \/ Pushl \/ Popl \/ InvalidAddress \/ InvalidInstruction
=============================================================================
