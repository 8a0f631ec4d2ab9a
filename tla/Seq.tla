-------------------------------- MODULE Seq --------------------------------
(***************************************************************************)
(* The sequential processor: the control logic of seq-full.hcl in the      *)
(* simulator ssim.c.  The simulator loads the results of an instruction at  *)
(* the start of the next one, which never comes after a failure.           *)
(***************************************************************************)
EXTENDS Y86

VARIABLES code, pc, reg, mem, cc, stat
vars == <<code, pc, reg, mem, cc, stat>>

imem_error == pc \notin DOMAIN code
icode == IF imem_error THEN "INOP" ELSE code[pc].icode
ifun == IF imem_error THEN "YES" ELSE code[pc].ifun
instr_valid == icode \in Opcodes
need_regids ==
  icode \in {"IRRMOVL", "IOPL", "IPUSHL", "IPOPL", "IIRMOVL", "IRMMOVL", "IMRMOVL", "IIADDL"}
need_valC == icode \in {"IIRMOVL", "IRMMOVL", "IMRMOVL", "IJXX", "ICALL", "IIADDL"}
rA == IF need_regids THEN code[pc].rA ELSE "none"
rB == IF need_regids THEN code[pc].rB ELSE "none"
valC == IF need_valC THEN code[pc].valC ELSE 0
valP == ToWord(pc + 1)

srcA ==
  CASE icode \in {"IRRMOVL", "IRMMOVL", "IOPL", "IPUSHL", "IIADDL"} -> rA
    [] icode \in {"IPOPL", "IRET"} -> "esp"
    [] icode = "ILEAVE" -> "ebp"
    [] OTHER -> "none"
srcB ==
  CASE icode \in {"IOPL", "IRMMOVL", "IMRMOVL", "IIADDL"} -> rB
    [] icode \in {"IPUSHL", "IPOPL", "ICALL", "IRET"} -> "esp"
    [] icode = "ILEAVE" -> "ebp"
    [] OTHER -> "none"
valA == get_reg_val(reg, srcA)
valB == get_reg_val(reg, srcB)

Cnd == cond_holds(cc, ifun)
dstE ==
  CASE icode = "IRRMOVL" /\ Cnd -> rB
    [] icode \in {"IIRMOVL", "IOPL", "IIADDL"} -> rB
    [] icode \in {"IPUSHL", "IPOPL", "ICALL", "IRET", "ILEAVE"} -> "esp"
    [] OTHER -> "none"
dstM ==
  CASE icode \in {"IMRMOVL", "IPOPL"} -> rA
    [] icode = "ILEAVE" -> "ebp"
    [] OTHER -> "none"

aluA ==
  CASE icode \in {"IRRMOVL", "IOPL"} -> valA
    [] icode \in {"IIRMOVL", "IRMMOVL", "IMRMOVL", "IIADDL"} -> valC
    [] icode \in {"ICALL", "IPUSHL"} -> -WordSize
    [] icode \in {"IRET", "IPOPL", "ILEAVE"} -> WordSize
    [] OTHER -> 0
aluB ==
  IF icode \in {"IRMMOVL", "IMRMOVL", "IOPL", "ICALL", "IPUSHL", "IRET", "IPOPL", "ILEAVE", "IIADDL"}
  THEN valB ELSE 0
alufun == IF icode = "IOPL" THEN ifun ELSE "ADD"
valE == compute_alu(alufun, aluA, aluB)
set_cc == icode \in {"IOPL", "IIADDL"}

mem_read == icode \in {"IMRMOVL", "IPOPL", "IRET", "ILEAVE"}
mem_write == icode \in {"IRMMOVL", "IPUSHL", "ICALL"}
mem_addr == IF icode \in {"IPOPL", "IRET", "ILEAVE"} THEN valA ELSE valE
mem_data == IF icode = "ICALL" THEN valP ELSE valA
dmem_error == (mem_read \/ mem_write) /\ mem_addr \notin Addr
valM == IF mem_read /\ ~dmem_error THEN mem[mem_addr] ELSE 0

Stat ==
  CASE imem_error \/ dmem_error -> "ADR"
    [] ~(imem_error \/ dmem_error) /\ ~instr_valid -> "INS"
    [] icode = "IHALT" -> "HLT"
    [] OTHER -> "AOK"

new_pc ==
  CASE icode = "ICALL" \/ (icode = "IJXX" /\ Cnd) -> valC
    [] icode = "IRET" -> valM
    [] OTHER -> valP

\* Fetch at 0, with the registers the moves at the head of the program left.
sim_reset(regs, memory) ==
  pc = 0 /\ reg = regs /\ mem = memory /\ cc = DEFAULT_CC /\ stat = "AOK"

update_state ==
  /\ pc' = new_pc
  /\ cc' = IF set_cc THEN compute_cc(alufun, aluA, aluB) ELSE cc
  /\ reg' = WriteBack(reg, dstE, valE, dstM, valM)
  /\ mem' = IF mem_write THEN set_word_val(mem, mem_addr, mem_data) ELSE mem

sim_step ==
  /\ stat = "AOK"
  /\ stat' = Stat
  /\ IF Stat = "AOK" THEN update_state ELSE UNCHANGED <<pc, reg, mem, cc>>
  /\ UNCHANGED code
=============================================================================
