-------------------------------- MODULE Pipe --------------------------------
(***************************************************************************)
(* The five-stage pipelined processor: the control logic of pipe-full.hcl  *)
(* in the simulator psim.c.  One step is one clock cycle: every stage       *)
(* computes its outputs from the pipeline registers F, D, E, M and W, then  *)
(* the program-visible state and the registers are loaded together.  The    *)
(* simulator ends a cycle with the computation and begins the next with the *)
(* load; here both are the step Cycle.                                      *)
(***************************************************************************)
EXTENDS Y86

CONSTANTS
  Programs,   \* what may be loaded: functions from addresses to instructions
  Starts,     \* the registers the moves at the head of a program left
  Memories    \* the data the object file fills in

VARIABLES code, F, D, E, M, W, reg, mem, cc
vars == <<code, F, D, E, M, W, reg, mem, cc>>

bubble_pc == [predPC |-> 0, stat |-> "AOK"]
bubble_if_id ==
  [stat |-> "BUB", icode |-> "INOP", ifun |-> "YES", rA |-> "none", rB |-> "none",
   valC |-> 0, valP |-> 0, pc |-> 0]
bubble_id_ex ==
  [stat |-> "BUB", icode |-> "INOP", ifun |-> "YES", valC |-> 0, valA |-> 0,
   valB |-> 0, dstE |-> "none", dstM |-> "none", pc |-> 0]
bubble_ex_mem ==
  [stat |-> "BUB", icode |-> "INOP", Cnd |-> FALSE, valE |-> 0, valA |-> 0,
   dstE |-> "none", dstM |-> "none", pc |-> 0]
bubble_mem_wb ==
  [stat |-> "BUB", icode |-> "INOP", valE |-> 0, valM |-> 0,
   dstE |-> "none", dstM |-> "none", pc |-> 0]

Errors == {"ADR", "INS", "HLT"}
-----------------------------------------------------------------------------
(* Memory stage: a fault is found here. *)

mem_addr == IF M.icode \in {"IPOPL", "IRET"} THEN M.valA ELSE M.valE
mem_read == M.icode \in {"IMRMOVL", "IPOPL", "IRET"}
mem_write == M.icode \in {"IRMMOVL", "IPUSHL", "ICALL"}
dmem_error == (mem_read \/ mem_write) /\ mem_addr \notin Addr
m_stat == IF dmem_error THEN "ADR" ELSE M.stat
m_valM == IF mem_read /\ ~dmem_error THEN mem[mem_addr] ELSE 0

do_mem_stage ==
  [stat |-> m_stat, icode |-> M.icode, valE |-> M.valE, valM |-> m_valM,
   dstE |-> M.dstE, dstM |-> M.dstM, pc |-> M.pc]

(* Execute stage. *)

aluA ==
  CASE E.icode \in {"IRRMOVL", "IOPL"} -> E.valA
    [] E.icode \in {"IIRMOVL", "IRMMOVL", "IMRMOVL", "IIADDL"} -> E.valC
    [] E.icode \in {"ICALL", "IPUSHL"} -> -WordSize
    [] E.icode \in {"IRET", "IPOPL"} -> WordSize
    [] OTHER -> 0
aluB ==
  IF E.icode \in {"IRMMOVL", "IMRMOVL", "IOPL", "ICALL", "IPUSHL", "IRET", "IPOPL", "IIADDL"}
  THEN E.valB ELSE 0
alufun == IF E.icode = "IOPL" THEN E.ifun ELSE "ADD"

\* A mutant: codes are set although an instruction ahead has failed.
SetCcAlways == E.icode \in {"IOPL", "IIADDL"}

\* The state changes only while nothing ahead has failed.
set_cc == E.icode \in {"IOPL", "IIADDL"} /\ m_stat \notin Errors /\ W.stat \notin Errors

e_Cnd == cond_holds(cc, E.ifun)
e_valE == compute_alu(alufun, aluA, aluB)
e_dstE == IF E.icode = "IRRMOVL" /\ ~e_Cnd THEN "none" ELSE E.dstE

do_ex_stage ==
  [stat |-> E.stat, icode |-> E.icode, Cnd |-> e_Cnd, valE |-> e_valE,
   valA |-> E.valA, dstE |-> e_dstE, dstM |-> E.dstM, pc |-> E.pc]

(* Decode stage: operands come from the youngest instruction ahead that     *)
(* writes the register, else from the register file.                        *)

d_srcA ==
  CASE D.icode \in {"IRRMOVL", "IRMMOVL", "IOPL", "IPUSHL"} -> D.rA
    [] D.icode \in {"IPOPL", "IRET"} -> "esp"
    [] OTHER -> "none"
d_srcB ==
  CASE D.icode \in {"IOPL", "IRMMOVL", "IMRMOVL", "IIADDL"} -> D.rB
    [] D.icode \in {"IPUSHL", "IPOPL", "ICALL", "IRET"} -> "esp"
    [] OTHER -> "none"
d_dstE ==
  CASE D.icode \in {"IRRMOVL", "IIRMOVL", "IOPL", "IIADDL"} -> D.rB
    [] D.icode \in {"IPUSHL", "IPOPL", "ICALL", "IRET"} -> "esp"
    [] OTHER -> "none"
d_dstM == IF D.icode \in {"IMRMOVL", "IPOPL"} THEN D.rA ELSE "none"

Forwarded(src) ==
  IF src = e_dstE THEN e_valE
  ELSE IF src = M.dstM THEN m_valM
  ELSE IF src = M.dstE THEN M.valE
  ELSE IF src = W.dstM THEN W.valM
  ELSE IF src = W.dstE THEN W.valE
  ELSE get_reg_val(reg, src)

d_valA == IF D.icode \in {"ICALL", "IJXX"} THEN D.valP ELSE Forwarded(d_srcA)
d_valB == Forwarded(d_srcB)

do_id_wb_stages ==
  [stat |-> D.stat, icode |-> D.icode, ifun |-> D.ifun, valC |-> D.valC,
   valA |-> d_valA, valB |-> d_valB, dstE |-> d_dstE, dstM |-> d_dstM, pc |-> D.pc]

(* Fetch stage: branches are predicted taken. *)

f_pc ==
  CASE M.icode = "IJXX" /\ ~M.Cnd -> M.valA
    [] ~(M.icode = "IJXX" /\ ~M.Cnd) /\ W.icode = "IRET" -> W.valM
    [] OTHER -> F.predPC

f_icode(at) == IF at \in DOMAIN code THEN code[at].icode ELSE "INOP"
f_ifun(at) == IF at \in DOMAIN code THEN code[at].ifun ELSE "YES"
instr_valid(at) == f_icode(at) \in Opcodes \ {"ILEAVE"}
f_stat(at) ==
  CASE at \notin DOMAIN code -> "ADR"
    [] at \in DOMAIN code /\ ~instr_valid(at) -> "INS"
    [] f_icode(at) = "IHALT" -> "HLT"
    [] OTHER -> "AOK"
need_regids(at) ==
  f_icode(at) \in {"IRRMOVL", "IOPL", "IPUSHL", "IPOPL", "IIRMOVL", "IRMMOVL", "IMRMOVL", "IIADDL"}
need_valC(at) ==
  f_icode(at) \in {"IIRMOVL", "IRMMOVL", "IMRMOVL", "IJXX", "ICALL", "IIADDL"}
f_valC(at) == IF need_valC(at) THEN code[at].valC ELSE 0
f_valP(at) == ToWord(at + 1)
f_predPC(at) == IF f_icode(at) \in {"IJXX", "ICALL"} THEN f_valC(at) ELSE f_valP(at)

do_if_stage(at) ==
  [stat |-> f_stat(at), icode |-> f_icode(at), ifun |-> f_ifun(at),
   rA |-> IF need_regids(at) THEN code[at].rA ELSE "none",
   rB |-> IF need_regids(at) THEN code[at].rB ELSE "none",
   valC |-> f_valC(at), valP |-> f_valP(at), pc |-> at]
pc_next(at) == [predPC |-> f_predPC(at), stat |-> IF f_stat(at) = "AOK" THEN "AOK" ELSE "BUB"]
-----------------------------------------------------------------------------
(* Pipeline control. *)

LoadUse == E.icode \in {"IMRMOVL", "IPOPL"} /\ E.dstM \in {d_srcA, d_srcB}
Mispredicted == E.icode = "IJXX" /\ ~e_Cnd
\* A mutant: a ret stalls the fetch stage as soon as it is fetched.
ReturningAtFetch == "IRET" \in {f_icode(f_pc), D.icode, E.icode, M.icode}

Returning == "IRET" \in {D.icode, E.icode, M.icode}

F_stall == LoadUse \/ Returning
D_stall == LoadUse
\* A mutant: ret behind a load that it needs asks for stall and bubble.
BubbleOverStall == Mispredicted \/ Returning

D_bubble == Mispredicted \/ (~LoadUse /\ Returning)
E_bubble == Mispredicted \/ LoadUse
M_bubble == m_stat \in Errors \/ W.stat \in Errors
W_stall == W.stat \in Errors

pipe_cntl(stall, bubble) ==
  CASE stall /\ bubble -> "error"
    [] stall /\ ~bubble -> "stall"
    [] ~stall /\ bubble -> "bubble"
    [] OTHER -> "load"

\* What a pipeline register holds in the next cycle.
update_pipe(op, current, next, bubble_val) ==
  CASE op = "stall" -> current
    [] op = "load" -> next
    [] op = "bubble" -> bubble_val
    [] op = "error" -> [bubble_val EXCEPT !.stat = "PIP"]

update_pipes ==
  /\ F' = update_pipe(pipe_cntl(F_stall, FALSE), F, pc_next(f_pc), bubble_pc)
  /\ D' = update_pipe(pipe_cntl(D_stall, D_bubble), D, do_if_stage(f_pc), bubble_if_id)
  /\ E' = update_pipe(pipe_cntl(FALSE, E_bubble), E, do_id_wb_stages, bubble_id_ex)
  /\ M' = update_pipe(pipe_cntl(FALSE, M_bubble), M, do_ex_stage, bubble_ex_mem)
  /\ W' = update_pipe(pipe_cntl(W_stall, FALSE), W, do_mem_stage, bubble_mem_wb)

update_state ==
  /\ reg' = WriteBack(reg, W.dstE, W.valE, W.dstM, W.valM)
  /\ mem' = IF mem_write THEN set_word_val(mem, mem_addr, M.valA) ELSE mem
  /\ cc' = IF set_cc THEN compute_cc(alufun, aluA, aluB) ELSE cc

Stat == IF W.stat = "BUB" THEN "AOK" ELSE W.stat

\* sim_run_pipe goes on until a status other than AOK reaches W.
Cycle ==
  /\ Stat = "AOK"
  /\ update_state
  /\ update_pipes
  /\ UNCHANGED code

\* sim_reset: no instruction in the pipeline, fetch at 0.
Empty ==
  /\ F = bubble_pc
  /\ D = bubble_if_id
  /\ E = bubble_id_ex
  /\ M = bubble_ex_mem
  /\ W = bubble_mem_wb
  /\ cc = DEFAULT_CC

Init == code \in Programs /\ reg \in Starts /\ mem \in Memories /\ Empty

\* The pipeline registers, the register file and the memory hold what their
\* fields may hold: arithmetic wraps to words in the stage that computes it.
PipeTypeOK ==
  /\ D.stat \in Stats /\ D.rA \in Reg \cup {"none"} /\ D.rB \in Reg \cup {"none"}
  /\ {D.valC, D.valP, D.pc} \subseteq Word
  /\ E.stat \in Stats /\ {E.dstE, E.dstM} \subseteq Reg \cup {"none"}
  /\ {E.valC, E.valA, E.valB, E.pc} \subseteq Word
  /\ M.stat \in Stats /\ {M.dstE, M.dstM} \subseteq Reg \cup {"none"}
  /\ M.Cnd \in BOOLEAN /\ {M.valE, M.valA, M.pc} \subseteq Word
  /\ W.stat \in Stats /\ {W.dstE, W.dstM} \subseteq Reg \cup {"none"}
  /\ {F.predPC, W.valE, W.valM, W.pc} \subseteq Word
  /\ reg \in [Reg -> Word]
  /\ mem \in [Addr -> Word]
  /\ cc \in CC

Spec == Init /\ [][Cycle]_vars
FairSpec == Spec /\ WF_vars(Cycle)
-----------------------------------------------------------------------------
(***************************************************************************)
(* The state of the instruction set the pipeline stands for: an            *)
(* instruction counts as executed when it enters M, so the writes still in  *)
(* M and W are applied, unless the instruction in M fails.                  *)
(***************************************************************************)
isa_stat ==
  CASE W.stat \in Errors -> W.stat
    [] W.stat \notin Errors /\ m_stat \in Errors -> m_stat
    [] OTHER -> "AOK"

Live == isa_stat = "AOK"

isa_reg ==
  LET done == IF W.stat \in Errors THEN reg
              ELSE WriteBack(reg, W.dstE, W.valE, W.dstM, W.valM)
  IN IF Live THEN WriteBack(done, M.dstE, M.valE, M.dstM, m_valM) ELSE done

isa_pc ==
  CASE W.stat \in Errors -> W.pc
    [] W.stat \notin Errors /\ m_stat \in Errors -> M.pc
    [] Live /\ M.icode = "IRET" -> m_valM
    [] Live /\ M.icode # "IRET" /\ E.stat # "BUB" -> E.pc
    [] Live /\ M.icode # "IRET" /\ E.stat = "BUB" /\ D.stat # "BUB" -> D.pc
    [] OTHER -> f_pc

isa_mem ==
  IF Live /\ mem_write THEN set_word_val(mem, mem_addr, M.valA) ELSE mem

I == INSTANCE Isa WITH
       EspBeforeFault <- FALSE,
       pc <- isa_pc, reg <- isa_reg, mem <- isa_mem, stat <- isa_stat

\* Every cycle executes an instruction of isa.c, with its result and its
\* faults, or nothing that a program could see (psim -t).
ImplementsIsa == I!Spec
=============================================================================
