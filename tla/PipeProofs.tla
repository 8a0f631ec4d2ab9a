----------------------------- MODULE PipeProofs -----------------------------
(***************************************************************************)
(* The pipeline implements the instruction set, and the sequential         *)
(* processor and the instruction simulator keep up with it: proofs for      *)
(* words, register files, memories and programs of any size.  Loadable says *)
(* what an object file of the assembler holds, and leaves out operands      *)
(* without a base register, for which the forwarding logic is wrong.        *)
(***************************************************************************)
EXTENDS MCPipe, TLAPS

WellFormed(i) ==
  /\ i.icode # "ILEAVE"
  /\ i.valC \in Word
  /\ {i.rA, i.rB} \subseteq Reg \cup {"none"}
  /\ i.icode \in {"IRRMOVL", "IRMMOVL", "IMRMOVL", "IOPL", "IPUSHL", "IPOPL"} => i.rA \in Reg
  /\ i.icode \in {"IRRMOVL", "IIRMOVL", "IRMMOVL", "IMRMOVL", "IOPL", "IIADDL"} => i.rB \in Reg
  /\ i.icode = "IOPL" => i.ifun \in {"ADD", "SUB", "AND", "XOR"}

Loadable ==
  /\ \A p \in Programs : \A a \in DOMAIN p : WellFormed(p[a])
  /\ Starts \subseteq [Reg -> Word]
  /\ Memories \subseteq [Addr -> Word]
-----------------------------------------------------------------------------
(* The inductive invariant. *)

\* What the fetch stage makes of the program p at an address, and where it
\* goes on.
Fetched(p, at) ==
  LET there == at \in DOMAIN p
      icode == IF there THEN p[at].icode ELSE "INOP"
      ids == icode \in {"IRRMOVL", "IOPL", "IPUSHL", "IPOPL", "IIRMOVL", "IRMMOVL", "IMRMOVL", "IIADDL"}
      const == icode \in {"IIRMOVL", "IRMMOVL", "IMRMOVL", "IJXX", "ICALL", "IIADDL"}
  IN [stat |-> CASE ~there -> "ADR"
                 [] there /\ icode \notin Opcodes \ {"ILEAVE"} -> "INS"
                 [] icode = "IHALT" -> "HLT"
                 [] OTHER -> "AOK",
      icode |-> icode,
      ifun |-> IF there THEN p[at].ifun ELSE "YES",
      rA |-> IF ids THEN p[at].rA ELSE "none",
      rB |-> IF ids THEN p[at].rB ELSE "none",
      valC |-> IF const THEN p[at].valC ELSE 0,
      valP |-> ToWord(at + 1),
      pc |-> at]
Predicted(d) == IF d.icode \in {"IJXX", "ICALL"} THEN d.valC ELSE d.valP

\* What the decode stage makes of a fetched instruction.
SrcA(d) ==
  CASE d.icode \in {"IRRMOVL", "IRMMOVL", "IOPL", "IPUSHL"} -> d.rA
    [] d.icode \in {"IPOPL", "IRET"} -> "esp"
    [] OTHER -> "none"
SrcB(d) ==
  CASE d.icode \in {"IOPL", "IRMMOVL", "IMRMOVL", "IIADDL"} -> d.rB
    [] d.icode \in {"IPUSHL", "IPOPL", "ICALL", "IRET"} -> "esp"
    [] OTHER -> "none"
DstE(d) ==
  CASE d.icode \in {"IRRMOVL", "IIRMOVL", "IOPL", "IIADDL"} -> d.rB
    [] d.icode \in {"IPUSHL", "IPOPL", "ICALL", "IRET"} -> "esp"
    [] OTHER -> "none"
DstM(d) == IF d.icode \in {"IMRMOVL", "IPOPL"} THEN d.rA ELSE "none"

Id == Reg \cup {"none"}
MemOps == {"IRMMOVL", "IMRMOVL", "IPUSHL", "IPOPL", "ICALL", "IRET"}

\* The program-visible state and the values in flight are of their types.
ValuesInv ==
  /\ reg \in [Reg -> Word]
  /\ mem \in [Addr -> Word]
  /\ cc \in CC
  /\ F.predPC \in Word
  /\ {E.valC, E.valA, E.valB, E.pc} \subseteq Word
  /\ M.Cnd \in BOOLEAN
  /\ {M.valE, M.valA, M.pc} \subseteq Word
  /\ {W.valE, W.valM, W.pc} \subseteq Word
  /\ {M.dstE, M.dstM, W.dstE, W.dstM} \subseteq Id
  /\ M.stat \in Stats
  /\ W.stat \in Stats

\* D holds a bubble or what is fetched at D.pc.
FetchInv == D = bubble_if_id \/ (D.pc \in Word /\ D = Fetched(code, D.pc))

EBubble ==
  E.stat = "BUB" /\ E.icode = "INOP" /\ E.dstE = "none" /\ E.dstM = "none"

EDecoded ==
  LET d == Fetched(code, E.pc)
  IN /\ E.stat = d.stat
     /\ E.icode = d.icode
     /\ E.ifun = d.ifun
     /\ E.valC = d.valC
     /\ E.dstE = DstE(d)
     /\ E.dstM = DstM(d)
     /\ d.icode \in {"ICALL", "IJXX"} => E.valA = d.valP

\* E holds a bubble or the instruction at E.pc decoded.
DecodeInv == EBubble \/ EDecoded

\* Its operands are those of the instruction set.
OperandInv ==
  LET d == Fetched(code, E.pc)
  IN Live /\ E.stat # "BUB" =>
       /\ SrcA(d) \in Reg => E.valA = isa_reg[SrcA(d)]
       /\ SrcB(d) \in Reg => E.valB = isa_reg[SrcB(d)]

\* An instruction that is wrong from the start touches no memory.
FaultInv == M.stat \in Errors => M.icode \notin MemOps

\* Behind a ret and a mispredicted jump there are bubbles, every other
\* instruction is followed by the one predicted.
ControlInv ==
  /\ M.icode = "IRET" => D = bubble_if_id /\ EBubble
  /\ W.icode = "IRET" => D = bubble_if_id
  /\ M.icode = "IJXX" /\ ~M.Cnd => D = bubble_if_id /\ EBubble
  /\ D.stat # "BUB" /\ E.stat # "BUB" => D.pc = Predicted(Fetched(code, E.pc)) /\ E.icode # "IRET"
  /\ D.stat # "BUB" /\ D.icode # "IRET" => F.predPC = Predicted(D)
  /\ D.stat = "BUB" /\ E.stat # "BUB" => E.icode = "IRET"

PipeInv ==
  /\ code \in Programs
  /\ ValuesInv
  /\ FetchInv
  /\ DecodeInv
  /\ FaultInv
  /\ Live => ControlInv
  /\ OperandInv
-----------------------------------------------------------------------------
(* Arithmetic, the register file and the memory. *)

\* ToWord wraps every integer to a word and leaves words alone.
LEMMA WordRange ==
  /\ \A x \in Int : ToWord(x) \in Word
  /\ \A x \in Word : ToWord(x + 0) = x /\ ToWord(0 + x) = x
  /\ 0 \in Word /\ Word \subseteq Int
<1>1. ASSUME NEW x \in Int PROVE ToWord(x) \in Word
  <2>1. (x + Half) % (2 * Half) \in 0 .. 2 * Half - 1
    BY HalfAssumption
  <2> QED
    BY <2>1, HalfAssumption DEF ToWord, Word
<1>2. ASSUME NEW x \in Word PROVE ToWord(x) = x
  <2>1. x + Half \in 0 .. 2 * Half - 1
    BY HalfAssumption DEF Word
  <2>2. (x + Half) % (2 * Half) = x + Half
    BY <2>1, HalfAssumption
  <2> QED
    BY <2>2, HalfAssumption DEF ToWord, Word
<1>3. 0 \in Word /\ Word \subseteq Int
  BY HalfAssumption DEF Word
<1>4. \A x \in Word : x + 0 = x /\ 0 + x = x
  BY <1>3
<1> QED
  BY <1>1, <1>2, <1>3, <1>4

\* The arithmetic unit yields a word.
LEMMA AluRange ==
  ASSUME NEW op \in {"ADD", "SUB", "AND", "XOR"}, NEW a \in Int, NEW b \in Int,
         op \in {"AND", "XOR"} => a \in Word /\ b \in Word
  PROVE  compute_alu(op, a, b) \in Word
<1>1. CASE op = "ADD"
  BY <1>1, WordRange DEF compute_alu
<1>2. CASE op = "SUB"
  BY <1>2, WordRange DEF compute_alu
<1>3. CASE op = "AND"
  BY <1>3, BitwiseAssumption DEF compute_alu
<1>4. CASE op = "XOR"
  BY <1>4, BitwiseAssumption DEF compute_alu
<1> QED
  BY <1>1, <1>2, <1>3, <1>4

\* What a register holds after the two writes of a cycle.
LEMMA WriteBackValue ==
  ASSUME NEW r \in [Reg -> Word], NEW i \in Id, NEW x \in Word, NEW j \in Id, NEW y \in Word
  PROVE  /\ WriteBack(r, i, x, j, y) \in [Reg -> Word]
         /\ i = "none" /\ j = "none" => WriteBack(r, i, x, j, y) = r
BY RegAssumption DEF WriteBack, set_reg_val, Id

LEMMA WriteBackAt ==
  ASSUME NEW r, NEW i, NEW x, NEW j, NEW y, NEW k \in Reg
  PROVE  WriteBack(r, i, x, j, y)[k] = IF k = j THEN y ELSE IF k = i THEN x ELSE r[k]
BY DEF WriteBack, set_reg_val

\* A write to memory.
LEMMA MemoryWrite ==
  ASSUME NEW m \in [Addr -> Word], NEW x \in Word, NEW a
  PROVE  /\ set_word_val(m, a, x) \in [Addr -> Word]
         /\ a \notin Addr => set_word_val(m, a, x) = m
BY DEF set_word_val

-----------------------------------------------------------------------------
(* What fetch and decode make of a loaded program. *)

\* The fetch stage as an operator on the program.
LEMMA FetchStage ==
  ASSUME NEW at
  PROVE  /\ do_if_stage(at) = Fetched(code, at)
         /\ f_predPC(at) = Predicted(Fetched(code, at))
<1>1. do_if_stage(at) = Fetched(code, at)
  BY DEF do_if_stage, f_stat, f_icode, f_ifun, f_valC, f_valP, need_regids, need_valC, instr_valid, Fetched
<1>2. f_predPC(at) = Predicted(do_if_stage(at))
  BY DEF f_predPC, Predicted, do_if_stage
<1> QED
  BY <1>1, <1>2

\* A fetched instruction: types, and the instruction it stands for.
LEMMA FetchFacts ==
  ASSUME Loadable, code \in Programs, NEW at \in Word, NEW d, d = Fetched(code, at)
  PROVE  /\ d.pc = at
         /\ d.stat \in Errors \cup {"AOK"}
         /\ {d.rA, d.rB} \subseteq Id
         /\ {d.valC, d.valP, Predicted(d)} \subseteq Word
         /\ d.valP = ToWord(at + 1)
         /\ d.icode = "IOPL" => d.ifun \in {"ADD", "SUB", "AND", "XOR"}
         /\ d.stat = "AOK" => at \in DOMAIN code /\ d.icode \in Opcodes \ {"IHALT", "ILEAVE"}
         /\ d.stat \in Errors => d.icode \notin Opcodes \ {"INOP", "IHALT", "ILEAVE"}
<1>1. at \in DOMAIN code => WellFormed(code[at])
  BY DEF Loadable
<1>2. d.pc = at /\ d.valP = ToWord(at + 1)
  BY DEF Fetched
<1>3. {d.valC, d.valP} \subseteq Word
  BY <1>1, WordRange DEF Fetched, WellFormed
<1>4. Predicted(d) \in Word
  BY <1>3 DEF Predicted
<1>5. {d.rA, d.rB} \subseteq Id
  BY <1>1 DEF Fetched, WellFormed, Id
<1>6. d.icode = "IOPL" => d.ifun \in {"ADD", "SUB", "AND", "XOR"}
  BY <1>1 DEF Fetched, WellFormed
<1>7. d.stat \in Errors \cup {"AOK"}
  BY DEF Fetched, Errors
<1>8. d.stat = "AOK" => at \in DOMAIN code /\ d.icode \in Opcodes \ {"IHALT", "ILEAVE"}
  BY DEF Fetched
<1>9. d.stat \in Errors => d.icode \notin Opcodes \ {"INOP", "IHALT", "ILEAVE"}
  BY DEF Fetched, Errors
<1> QED
  BY <1>2, <1>3, <1>4, <1>5, <1>6, <1>7, <1>8, <1>9

\* The registers an instruction names are registers or none.
LEMMA DecodeFacts ==
  ASSUME NEW d, {d.rA, d.rB} \subseteq Id
  PROVE  {SrcA(d), SrcB(d), DstE(d), DstM(d)} \subseteq Id
BY RegAssumption DEF SrcA, SrcB, DstE, DstM, Id

\* The decode stage as an operator on the fetched instruction.
LEMMA DecodeStage ==
  d_srcA = SrcA(D) /\ d_srcB = SrcB(D) /\ d_dstE = DstE(D) /\ d_dstM = DstM(D)
BY DEF d_srcA, d_srcB, d_dstE, d_dstM, SrcA, SrcB, DstE, DstM

\* An instruction that is fetched without fault, in the words of isa.c.
LEMMA FetchedInstruction ==
  ASSUME Loadable, code \in Programs, NEW at \in Word, NEW d, d = Fetched(code, at),
         d.stat = "AOK"
  PROVE  /\ at \in DOMAIN code
         /\ WellFormed(code[at])
         /\ d.icode = code[at].icode
         /\ d.ifun = code[at].ifun
         /\ d.icode \in {"IRRMOVL", "IOPL", "IPUSHL", "IPOPL", "IIRMOVL", "IRMMOVL", "IMRMOVL", "IIADDL"}
              => d.rA = code[at].rA /\ d.rB = code[at].rB
         /\ d.icode \in {"IIRMOVL", "IRMMOVL", "IMRMOVL", "IJXX", "ICALL", "IIADDL"}
              => d.valC = code[at].valC
<1>1. at \in DOMAIN code
  BY FetchFacts
<1> QED
  BY <1>1 DEF Fetched, Loadable

-----------------------------------------------------------------------------
(* One cycle. *)

\* No pipeline register is told to stall and to take a bubble at once.
LEMMA RegisterLoads ==
  ASSUME Cycle
  PROVE  /\ F' = IF F_stall THEN F ELSE pc_next(f_pc)
         /\ D' = IF LoadUse THEN D ELSE IF D_bubble THEN bubble_if_id ELSE do_if_stage(f_pc)
         /\ E' = IF E_bubble THEN bubble_id_ex ELSE do_id_wb_stages
         /\ M' = IF M_bubble THEN bubble_ex_mem ELSE do_ex_stage
         /\ W' = do_mem_stage
         /\ W.stat \notin Errors
<1>1. ~(D_stall /\ D_bubble)
  BY DEF D_stall, D_bubble, LoadUse, Mispredicted
<1>2. W.stat \notin Errors /\ ~W_stall
  BY DEF Cycle, Stat, Errors, W_stall
<1> QED
  BY <1>1, <1>2 DEF Cycle, update_pipes, update_pipe, pipe_cntl, D_stall

\* The fields of D.
LEMMA FetchedFields ==
  ASSUME Loadable, PipeInv
  PROVE  /\ {D.valC, D.valP, D.pc} \subseteq Word
         /\ {D.rA, D.rB} \subseteq Id
         /\ {d_srcA, d_srcB, d_dstE, d_dstM} \subseteq Id
         /\ D.stat \in Errors \cup {"AOK", "BUB"}
         /\ D.icode = "IOPL" => D.ifun \in {"ADD", "SUB", "AND", "XOR"}
         /\ D.stat = "BUB" <=> D = bubble_if_id
         /\ D.stat # "BUB" => D.pc \in Word /\ D = Fetched(code, D.pc)
<1>1. CASE D = bubble_if_id
  BY <1>1, WordRange, DecodeFacts, DecodeStage DEF bubble_if_id, Id
<1>2. CASE D.pc \in Word /\ D = Fetched(code, D.pc)
  <2>1. /\ {D.valC, D.valP, D.pc} \subseteq Word
        /\ {D.rA, D.rB} \subseteq Id
        /\ D.stat \in Errors \cup {"AOK"}
        /\ D.icode = "IOPL" => D.ifun \in {"ADD", "SUB", "AND", "XOR"}
    BY <1>2, FetchFacts DEF PipeInv
  <2>2. D.stat # "BUB" /\ bubble_if_id.stat = "BUB"
    BY <2>1 DEF Errors, bubble_if_id
  <2> QED
    BY <1>2, <2>1, <2>2, DecodeFacts, DecodeStage
<1> QED
  BY <1>1, <1>2 DEF PipeInv, FetchInv

\* The fields of E.
LEMMA DecodedFields ==
  ASSUME Loadable, PipeInv
  PROVE  /\ {E.dstE, E.dstM, e_dstE} \subseteq Id
         /\ E.stat \in Errors \cup {"AOK", "BUB"}
         /\ E.stat = "BUB" => EBubble
         /\ E.stat # "BUB" => EDecoded
         /\ E.stat \in Errors => E.icode \notin Opcodes \ {"INOP", "IHALT", "ILEAVE"}
         /\ E.icode = "IOPL" => E.ifun \in {"ADD", "SUB", "AND", "XOR"}
<1>1. CASE EBubble
  BY <1>1 DEF EBubble, Id, e_dstE, Errors, EDecoded
<1>2. CASE EDecoded
  <2> DEFINE d == Fetched(code, E.pc)
  <2>1. /\ d.stat \in Errors \cup {"AOK"}
        /\ {d.rA, d.rB} \subseteq Id
        /\ d.icode = "IOPL" => d.ifun \in {"ADD", "SUB", "AND", "XOR"}
        /\ d.stat \in Errors => d.icode \notin Opcodes \ {"INOP", "IHALT", "ILEAVE"}
    BY FetchFacts DEF PipeInv, ValuesInv
  <2>2. {DstE(d), DstM(d)} \subseteq Id
    BY <2>1, DecodeFacts
  <2>3. E.stat = d.stat /\ E.icode = d.icode /\ E.ifun = d.ifun /\ E.dstE = DstE(d) /\ E.dstM = DstM(d)
    BY <1>2 DEF EDecoded
  <2> HIDE DEF d
  <2> QED
    BY <1>2, <2>1, <2>2, <2>3 DEF e_dstE, Id, Errors
<1> QED
  BY <1>1, <1>2 DEF PipeInv, DecodeInv

\* The values that the stages compute are words.
LEMMA ValuesInFlight ==
  ASSUME Loadable, PipeInv
  PROVE  /\ {m_valM, e_valE, d_valA, d_valB, f_pc, f_predPC(f_pc)} \subseteq Word
         /\ e_Cnd \in BOOLEAN
         /\ m_stat \in Stats
<1> USE DEF ValuesInv
<1>1. m_valM \in Word
  BY WordRange DEF PipeInv, m_valM, dmem_error
<1>2. e_valE \in Word
  <2>1. {E.valA, E.valB, E.valC} \subseteq Word /\ Word \subseteq Int /\ {0, WordSize, -WordSize} \subseteq Int /\ 0 \in Word
    BY WordRange, WordSizeAssumption DEF PipeInv
  <2>2. CASE E.icode = "IOPL"
    <3>1. alufun = E.ifun /\ aluA = E.valA /\ aluB = E.valB
      BY <2>2 DEF alufun, aluA, aluB
    <3> QED
      BY <2>1, <2>2, <3>1, DecodedFields, AluRange DEF e_valE
  <2>3. CASE E.icode # "IOPL"
    <3>1. alufun = "ADD" /\ aluA \in Int /\ aluB \in Int
      BY <2>1, <2>3 DEF alufun, aluA, aluB
    <3> QED
      BY <3>1, AluRange DEF e_valE
  <2> QED
    BY <2>2, <2>3
<1>3. \A src : Forwarded(src) \in Word
  BY <1>1, <1>2, WordRange DEF PipeInv, Forwarded, get_reg_val
<1>4. d_valA \in Word /\ d_valB \in Word
  BY <1>3, FetchedFields DEF d_valA, d_valB
<1>5. f_pc \in Word
  BY DEF PipeInv, f_pc
<1>6. f_predPC(f_pc) \in Word
  <2> DEFINE d == Fetched(code, f_pc)
  <2> QED
    BY <1>5, FetchFacts, FetchStage DEF PipeInv
<1>7. e_Cnd \in BOOLEAN
  BY DEF e_Cnd, cond_holds
<1>8. m_stat \in Stats
  BY DEF PipeInv, m_stat, Stats
<1> QED
  BY <1>1, <1>2, <1>4, <1>5, <1>6, <1>7, <1>8

-----------------------------------------------------------------------------
(* The invariant is kept by a cycle. *)

\* Every value stays of its type.
LEMMA ValuesKept ==
  ASSUME Loadable, PipeInv, Cycle
  PROVE  ValuesInv'
<1>1. F'.predPC \in Word
  BY RegisterLoads, ValuesInFlight DEF PipeInv, ValuesInv, pc_next
<1>2. {E'.valC, E'.valA, E'.valB, E'.pc} \subseteq Word
  <2>1. E' = bubble_id_ex \/ E' = do_id_wb_stages
    BY RegisterLoads
  <2> QED
    BY <2>1, FetchedFields, ValuesInFlight, WordRange DEF bubble_id_ex, do_id_wb_stages
<1>3. /\ M'.Cnd \in BOOLEAN
      /\ {M'.valE, M'.valA, M'.pc} \subseteq Word
      /\ {M'.dstE, M'.dstM} \subseteq Id
      /\ M'.stat \in Stats
  <2>1. CASE M' = bubble_ex_mem
    BY <2>1, WordRange DEF bubble_ex_mem, Id, Stats
  <2>2. CASE M' = do_ex_stage
    BY <2>2, DecodedFields, ValuesInFlight DEF do_ex_stage, PipeInv, ValuesInv, Errors, Stats
  <2> QED
    BY <2>1, <2>2, RegisterLoads
<1>4. /\ {W'.valE, W'.valM, W'.pc} \subseteq Word
      /\ {W'.dstE, W'.dstM} \subseteq Id
      /\ W'.stat \in Stats
  BY RegisterLoads, ValuesInFlight DEF do_mem_stage, PipeInv, ValuesInv
<1>5. reg' \in [Reg -> Word]
  BY WriteBackValue DEF Cycle, update_state, PipeInv, ValuesInv
<1>6. mem' \in [Addr -> Word]
  BY MemoryWrite DEF Cycle, update_state, PipeInv, ValuesInv
<1>7. cc' \in CC
  <2>1. \A op, a, b : compute_cc(op, a, b) \in CC
    BY DEF compute_cc, CC
  <2> QED
    BY <2>1 DEF Cycle, update_state, PipeInv, ValuesInv
<1> QED
  BY <1>1, <1>2, <1>3, <1>4, <1>5, <1>6, <1>7 DEF ValuesInv

\* D holds a bubble or what was fetched.
LEMMA FetchKept ==
  ASSUME Loadable, PipeInv, Cycle
  PROVE  FetchInv' /\ code' = code
<1>1. code' = code
  BY DEF Cycle
<1>2. D' = D \/ D' = bubble_if_id \/ D' = Fetched(code, f_pc)
  BY RegisterLoads, FetchStage
<1>3. Fetched(code, f_pc).pc = f_pc /\ f_pc \in Word
  BY ValuesInFlight DEF Fetched
<1> QED
  BY <1>1, <1>2, <1>3 DEF PipeInv, FetchInv

\* E holds a bubble or what was decoded.
LEMMA DecodeKept ==
  ASSUME Loadable, PipeInv, Cycle
  PROVE  /\ DecodeInv'
         /\ E' = bubble_id_ex \/ D.stat = "BUB" => EBubble'
         /\ E' # bubble_id_ex /\ D.stat # "BUB" => EDecoded' /\ E'.pc = D.pc
<1>1. CASE E' = bubble_id_ex
  BY <1>1 DEF bubble_id_ex, EBubble, DecodeInv
<1>2. CASE E' = do_id_wb_stages /\ D = bubble_if_id
  <2>1. E'.stat = "BUB" /\ E'.icode = "INOP" /\ E'.dstE = "none" /\ E'.dstM = "none"
    BY <1>2 DEF do_id_wb_stages, bubble_if_id, d_dstE, d_dstM
  <2> QED
    BY <1>2, <2>1 DEF EBubble, DecodeInv, bubble_if_id
<1>3. CASE E' = do_id_wb_stages /\ D.stat # "BUB"
  <2>1. D = Fetched(code, D.pc)
    BY <1>3, FetchedFields
  <2>2. E'.pc = D.pc
    BY <1>3 DEF do_id_wb_stages
  <2>4. Fetched(code', E'.pc) = D
    BY <2>1, <2>2 DEF Cycle
  <2>5. /\ E'.stat = D.stat
        /\ E'.icode = D.icode
        /\ E'.ifun = D.ifun
        /\ E'.valC = D.valC
        /\ E'.dstE = DstE(D)
        /\ E'.dstM = DstM(D)
        /\ D.icode \in {"ICALL", "IJXX"} => E'.valA = D.valP
    BY <1>3, DecodeStage DEF do_id_wb_stages, d_valA
  <2>6. EDecoded'
    BY <2>4, <2>5 DEF EDecoded, DstE, DstM
  <2> QED
    BY <1>3, <2>2, <2>6 DEF DecodeInv, do_id_wb_stages, bubble_id_ex
<1> QED
  BY <1>1, <1>2, <1>3, RegisterLoads, FetchedFields

\* What fails at fetch touches no memory later.
LEMMA FaultKept ==
  ASSUME Loadable, PipeInv, Cycle
  PROVE  FaultInv'
<1>1. CASE M' = bubble_ex_mem
  BY <1>1 DEF bubble_ex_mem, FaultInv, Errors
<1>2. CASE M' = do_ex_stage
  BY <1>2, DecodedFields DEF do_ex_stage, FaultInv, MemOps, Opcodes
<1> QED
  BY <1>1, <1>2, RegisterLoads

\* While no fault is near the end of the pipeline M takes what E computes.
LEMMA LiveStep ==
  ASSUME Loadable, PipeInv, Cycle
  PROVE  /\ Live <=> m_stat \notin Errors
         /\ W'.stat = m_stat
         /\ Live => M' = do_ex_stage
         /\ Live' => Live
         /\ Live => (Live' <=> m_stat' \notin Errors)
<1>1. W.stat \notin Errors /\ W' = do_mem_stage /\ M' = (IF M_bubble THEN bubble_ex_mem ELSE do_ex_stage)
  BY RegisterLoads
<1>2. Live <=> m_stat \notin Errors
  BY <1>1 DEF Live, isa_stat, Errors
<1>3. W'.stat = m_stat
  BY <1>1 DEF do_mem_stage
<1>4. Live' <=> W'.stat \notin Errors /\ m_stat' \notin Errors
  BY DEF Live, isa_stat, Errors
<1> QED
  BY <1>1, <1>2, <1>3, <1>4 DEF M_bubble

\* Bubbles behind ret and a mispredicted jump, the predicted instruction
\* behind any other.
LEMMA ControlKept ==
  ASSUME Loadable, PipeInv, Cycle, Live'
  PROVE  ControlInv'
<1>1. Live /\ ControlInv /\ M' = do_ex_stage /\ W' = do_mem_stage
  BY LiveStep, RegisterLoads DEF PipeInv
<1>2. /\ M'.icode = E.icode
      /\ M'.Cnd = e_Cnd
      /\ W'.icode = M.icode
  BY <1>1 DEF do_ex_stage, do_mem_stage
<1>3. E.stat = "BUB" => E.icode = "INOP"
  BY DecodedFields DEF EBubble
<1>4. D.stat = "BUB" <=> D = bubble_if_id
  BY FetchedFields
<1>5. bubble_if_id' = bubble_if_id /\ bubble_if_id.stat = "BUB" /\ bubble_if_id.icode = "INOP"
  BY DEF bubble_if_id
<1>6. E.icode \in {"IRET", "IJXX", "INOP"} => ~LoadUse
  BY DEF LoadUse
<1>7. E' = bubble_id_ex \/ E_bubble => EBubble'
  BY RegisterLoads, DecodeKept
<1>8. E'.stat # "BUB" =>
        /\ ~LoadUse /\ ~Mispredicted
        /\ E'.stat = D.stat
        /\ E'.icode = D.icode
        /\ E'.pc = D.pc
  BY <1>7, RegisterLoads DEF EBubble, E_bubble, do_id_wb_stages
<1>9. do_if_stage(f_pc) = Fetched(code, f_pc) /\ Fetched(code, f_pc).pc = f_pc
      /\ Fetched(code, f_pc).stat # "BUB"
  BY FetchStage DEF Fetched
<1>10. M'.icode = "IRET" => D' = bubble_if_id /\ EBubble'
  <2> HAVE M'.icode = "IRET"
  <2>1. E.icode = "IRET" /\ ~LoadUse /\ Returning
    BY <1>2, <1>6 DEF Returning
  <2>2. D' = bubble_if_id
    BY <2>1, RegisterLoads DEF D_bubble
  <2>3. D.stat = "BUB"
    BY <1>1, <1>3, <2>1 DEF ControlInv
  <2> QED
    BY <2>2, <2>3, DecodeKept
<1>11. W'.icode = "IRET" => D' = bubble_if_id
  <2> HAVE W'.icode = "IRET"
  <2>1. M.icode = "IRET" /\ E.icode = "INOP"
    BY <1>1, <1>2 DEF ControlInv, EBubble
  <2> QED
    BY <1>6, <2>1, RegisterLoads DEF D_bubble, Returning
<1>12. M'.icode = "IJXX" /\ ~M'.Cnd => D' = bubble_if_id /\ EBubble'
  <2> HAVE M'.icode = "IJXX" /\ ~M'.Cnd
  <2>1. Mispredicted /\ ~LoadUse
    BY <1>2, <1>6 DEF Mispredicted
  <2> QED
    BY <1>7, <2>1, RegisterLoads DEF D_bubble, E_bubble
<1>13. D'.stat # "BUB" /\ E'.stat # "BUB" => D'.pc = Predicted(Fetched(code', E'.pc)) /\ E'.icode # "IRET"
  <2> HAVE D'.stat # "BUB" /\ E'.stat # "BUB"
  <2>1. ~LoadUse /\ ~D_bubble /\ D' = do_if_stage(f_pc)
    BY <1>5, <1>8, RegisterLoads
  <2>2. "IRET" \notin {D.icode, E.icode, M.icode}
    BY <2>1 DEF D_bubble, Returning
  <2>3. D.stat # "BUB" /\ D # bubble_if_id /\ D = Fetched(code, D.pc)
    BY <1>4, <1>8, FetchedFields
  <2>4. f_pc = F.predPC /\ F.predPC = Predicted(D)
    BY <1>1, <2>2, <2>3 DEF ControlInv, f_pc
  <2>5. Fetched(code', E'.pc) = D
    BY <1>8, <2>3 DEF Cycle
  <2> QED
    BY <1>8, <1>9, <2>1, <2>2, <2>4, <2>5
<1>14. D'.stat # "BUB" /\ D'.icode # "IRET" => F'.predPC = Predicted(D')
  <2> HAVE D'.stat # "BUB" /\ D'.icode # "IRET"
  <2>1. CASE LoadUse
    BY <1>1, <2>1, RegisterLoads DEF F_stall, ControlInv
  <2>2. CASE ~LoadUse
    <3>1. ~D_bubble /\ D' = Fetched(code, f_pc)
      BY <1>5, <1>9, <2>2, RegisterLoads
    <3>2. F' = pc_next(f_pc)
      BY <2>2, <3>1, RegisterLoads DEF D_bubble, F_stall
    <3> QED
      BY <3>1, <3>2, FetchStage DEF pc_next
  <2> QED
    BY <2>1, <2>2
<1>15. D'.stat = "BUB" /\ E'.stat # "BUB" => E'.icode = "IRET"
  <2> HAVE D'.stat = "BUB" /\ E'.stat # "BUB"
  <2>1. ~LoadUse /\ ~Mispredicted /\ D.stat # "BUB" /\ D # bubble_if_id
    BY <1>4, <1>8
  <2>2. D_bubble
    BY <1>9, <2>1, RegisterLoads
  <2>3. "IRET" \in {D.icode, E.icode, M.icode}
    BY <2>1, <2>2 DEF D_bubble, Returning
  <2>4. M.icode # "IRET"
    BY <1>1, <2>1 DEF ControlInv
  <2>5. E.icode # "IRET"
    BY <1>1, <1>3, <2>1 DEF ControlInv
  <2> QED
    BY <1>8, <2>3, <2>4, <2>5
<1> QED
  BY <1>5, <1>10, <1>11, <1>12, <1>13, <1>14, <1>15 DEF ControlInv

\* The registers of the instruction set after a cycle: the writes of the
\* instruction that enters M are applied, unless it fails there.
LEMMA RegisterStep ==
  ASSUME Loadable, PipeInv, Cycle, Live
  PROVE  /\ isa_reg \in [Reg -> Word]
         /\ m_stat' \notin Errors => isa_reg' = WriteBack(isa_reg, e_dstE, e_valE, E.dstM, m_valM')
         /\ m_stat' \in Errors => isa_reg' = isa_reg
<1>1. W.stat \notin Errors /\ W' = do_mem_stage
  BY RegisterLoads
<1>2. M' = do_ex_stage /\ W'.stat \notin Errors /\ (Live' <=> m_stat' \notin Errors)
  BY LiveStep
<1> DEFINE done == WriteBack(reg, W.dstE, W.valE, W.dstM, W.valM)
<1>3. isa_reg = WriteBack(done, M.dstE, M.valE, M.dstM, m_valM)
  BY <1>1 DEF isa_reg
<1>4. done \in [Reg -> Word]
  BY WriteBackValue DEF PipeInv, ValuesInv
<1>5. isa_reg \in [Reg -> Word]
  <2>1. M.dstE \in Id /\ M.valE \in Word /\ M.dstM \in Id /\ m_valM \in Word
    BY ValuesInFlight DEF PipeInv, ValuesInv
  <2> HIDE DEF done
  <2> QED
    BY <1>3, <1>4, <2>1, WriteBackValue
<1>6. reg' = done
  BY DEF Cycle, update_state
<1>7. /\ W'.dstE = M.dstE
      /\ W'.valE = M.valE
      /\ W'.dstM = M.dstM
      /\ W'.valM = m_valM
  BY <1>1 DEF do_mem_stage
<1>8. WriteBack(reg', W'.dstE, W'.valE, W'.dstM, W'.valM) = isa_reg
  BY <1>3, <1>6, <1>7
<1>9. M'.dstE = e_dstE /\ M'.valE = e_valE /\ M'.dstM = E.dstM
  BY <1>2 DEF do_ex_stage
<1> QED
  BY <1>2, <1>5, <1>8, <1>9 DEF isa_reg

\* Forwarding gives decode the value the register has when the instruction
\* starts, unless that value is still being loaded.
LEMMA ForwardedValue ==
  ASSUME Loadable, PipeInv, Cycle, Live', ~LoadUse, NEW k \in {d_srcA, d_srcB}, k \in Reg
  PROVE  Forwarded(k) = isa_reg'[k]
<1>1. Live /\ m_stat' \notin Errors
  BY LiveStep
<1>2. W.stat \notin Errors
  BY RegisterLoads
<1>3. k # "none"
  BY RegAssumption
<1>4. k # E.dstM
  <2>1. E.dstM # "none" => E.icode \in {"IMRMOVL", "IPOPL"}
    BY DEF PipeInv, DecodeInv, EBubble, EDecoded, DstM
  <2> QED
    BY <1>3, <2>1 DEF LoadUse
<1> DEFINE done == WriteBack(reg, W.dstE, W.valE, W.dstM, W.valM)
<1>6. done[k] = (IF k = W.dstM THEN W.valM ELSE IF k = W.dstE THEN W.valE ELSE reg[k])
  BY WriteBackAt
<1>7. isa_reg = WriteBack(done, M.dstE, M.valE, M.dstM, m_valM)
  BY <1>1, <1>2 DEF isa_reg
<1>8. isa_reg[k] = (IF k = M.dstM THEN m_valM ELSE IF k = M.dstE THEN M.valE ELSE done[k])
  <2> HIDE DEF done
  <2> QED
    BY <1>6, <1>7, WriteBackAt
<1>9. isa_reg'[k] = (IF k = e_dstE THEN e_valE ELSE isa_reg[k])
  <2>1. isa_reg \in [Reg -> Word] /\ isa_reg' = WriteBack(isa_reg, e_dstE, e_valE, E.dstM, m_valM')
    BY <1>1, RegisterStep
  <2> QED
    BY <1>4, <2>1, WriteBackAt
<1> QED
  BY <1>6, <1>8, <1>9 DEF Forwarded, get_reg_val

\* The operands of an instruction are those of the instruction set.
LEMMA OperandKept ==
  ASSUME Loadable, PipeInv, Cycle
  PROVE  OperandInv'
<1> SUFFICES ASSUME Live', E'.stat # "BUB"
             PROVE  LET d == Fetched(code', E'.pc)
                    IN /\ SrcA(d) \in Reg => E'.valA = isa_reg'[SrcA(d)]
                       /\ SrcB(d) \in Reg => E'.valB = isa_reg'[SrcB(d)]
  BY DEF OperandInv, SrcA, SrcB
<1>1. E' # bubble_id_ex /\ D.stat # "BUB" /\ E' = do_id_wb_stages /\ ~LoadUse /\ E'.pc = D.pc
  <2>1. E' # bubble_id_ex /\ D.stat # "BUB"
    BY DecodeKept DEF EBubble
  <2> QED
    BY <2>1, RegisterLoads, DecodeKept DEF E_bubble
<1>2. Fetched(code', E'.pc) = D
  BY <1>1, FetchedFields DEF Cycle
<1>3. E'.valA = d_valA /\ E'.valB = d_valB
  BY <1>1 DEF do_id_wb_stages
<1>4. SrcA(D) \in Reg => E'.valA = isa_reg'[SrcA(D)]
  <2> HAVE SrcA(D) \in Reg
  <2>1. D.icode \notin {"ICALL", "IJXX"}
    BY RegAssumption DEF SrcA
  <2> QED
    BY <1>1, <1>3, <2>1, DecodeStage, ForwardedValue DEF d_valA
<1>5. SrcB(D) \in Reg => E'.valB = isa_reg'[SrcB(D)]
  BY <1>1, <1>3, DecodeStage, ForwardedValue DEF d_valB
<1> QED
  BY <1>2, <1>4, <1>5

\* A cycle keeps the invariant.
LEMMA InvariantKept ==
  ASSUME Loadable, PipeInv, [Cycle]_vars
  PROVE  PipeInv'
<1>1. CASE Cycle
  BY <1>1, ValuesKept, FetchKept, DecodeKept, FaultKept, ControlKept, OperandKept DEF PipeInv
<1>2. CASE UNCHANGED vars
  BY <1>2 DEF vars, PipeInv, ValuesInv, FetchInv, DecodeInv, EBubble, EDecoded, FaultInv, ControlInv,
    OperandInv, Live, isa_stat, isa_reg, m_stat, m_valM, dmem_error, mem_read, mem_write, mem_addr,
    bubble_if_id, DstE, DstM, SrcA, SrcB, Predicted
<1> QED
  BY <1>1, <1>2

-----------------------------------------------------------------------------
(* Every cycle is a step of the instruction set or stutters. *)

\* Where the instruction set goes on after the instruction in E.
LEMMA NextInstruction ==
  ASSUME Loadable, PipeInv, Cycle, Live, Live', E.stat # "BUB"
  PROVE  isa_pc' = CASE E.icode = "IRET" -> m_valM'
                     [] E.icode = "IJXX" /\ ~e_Cnd -> E.valA
                     [] OTHER -> Predicted(Fetched(code, E.pc))
<1>1. M' = do_ex_stage /\ W'.stat \notin Errors /\ m_stat' \notin Errors /\ ControlInv /\ ControlInv'
  BY LiveStep, ControlKept DEF PipeInv
<1>2. M'.icode = E.icode /\ M'.Cnd = e_Cnd /\ M'.valA = E.valA
  BY <1>1 DEF do_ex_stage
<1>3. bubble_if_id' = bubble_if_id /\ bubble_if_id.stat = "BUB"
  BY DEF bubble_if_id
<1>4. CASE E.icode = "IRET"
  BY <1>1, <1>2, <1>4 DEF isa_pc
<1>5. CASE E.icode = "IJXX" /\ ~e_Cnd
  <2>1. D'.stat = "BUB" /\ E'.stat = "BUB"
    BY <1>1, <1>2, <1>3, <1>5 DEF ControlInv, EBubble
  <2>2. isa_pc' = f_pc'
    BY <1>1, <1>2, <1>5, <2>1 DEF isa_pc
  <2>3. f_pc' = M'.valA
    BY <1>2, <1>5 DEF f_pc
  <2> QED
    BY <1>2, <1>5, <2>2, <2>3
<1>6. CASE E.icode # "IRET" /\ ~(E.icode = "IJXX" /\ ~e_Cnd)
  <2>1. D.stat # "BUB" /\ D.pc = Predicted(Fetched(code, E.pc)) /\ ~Mispredicted
    BY <1>1, <1>6 DEF ControlInv, Mispredicted
  <2>2. CASE LoadUse
    <3>1. E'.stat = "BUB" /\ D' = D
      BY <2>2, RegisterLoads DEF E_bubble, bubble_id_ex
    <3> QED
      BY <1>1, <1>2, <1>6, <2>1, <3>1 DEF isa_pc
  <2>3. CASE ~LoadUse
    <3>1. E'.stat = D.stat /\ E'.pc = D.pc
      BY <2>1, <2>3, RegisterLoads DEF E_bubble, do_id_wb_stages
    <3> QED
      BY <1>1, <1>2, <1>6, <2>1, <3>1 DEF isa_pc
  <2> QED
    BY <2>2, <2>3
<1> QED
  BY <1>4, <1>5, <1>6

\* Once an instruction has failed in M the program sees nothing more.
LEMMA FaultStutters ==
  ASSUME Loadable, PipeInv, Cycle, ~Live
  PROVE  UNCHANGED <<code, isa_pc, isa_reg, isa_mem, cc, isa_stat>>
<1>1. W.stat \notin Errors /\ m_stat \in Errors /\ W' = do_mem_stage /\ ~Live'
  BY LiveStep, RegisterLoads
<1>2. W'.stat = m_stat /\ W'.pc = M.pc
  BY <1>1 DEF do_mem_stage
<1>3. isa_pc' = isa_pc /\ isa_stat' = isa_stat
  BY <1>1, <1>2 DEF isa_pc, isa_stat
<1>4. isa_reg' = isa_reg
  BY <1>1, <1>2 DEF isa_reg, Cycle, update_state
<1>5. mem' = mem
  <2>1. CASE dmem_error
    BY <2>1, MemoryWrite DEF dmem_error, Cycle, update_state, PipeInv, ValuesInv
  <2>2. CASE ~dmem_error
    BY <1>1, <2>2 DEF m_stat, PipeInv, FaultInv, MemOps, mem_write, Cycle, update_state
  <2> QED
    BY <2>1, <2>2
<1>6. isa_mem' = isa_mem
  BY <1>1, <1>5 DEF isa_mem
<1>7. cc' = cc /\ code' = code
  BY <1>1 DEF Cycle, update_state, set_cc
<1> QED
  BY <1>3, <1>4, <1>6, <1>7

\* A bubble in E changes nothing.
LEMMA BubbleStutters ==
  ASSUME Loadable, PipeInv, Cycle, Live, E.stat = "BUB"
  PROVE  UNCHANGED <<code, isa_pc, isa_reg, isa_mem, cc, isa_stat>>
<1>1. EBubble
  BY DecodedFields
<1>2. M' = do_ex_stage /\ W' = do_mem_stage /\ W.stat \notin Errors /\ m_stat \notin Errors
  BY LiveStep, RegisterLoads
<1>3. /\ M'.stat = "BUB"
      /\ M'.icode = "INOP"
      /\ W'.icode = M.icode
      /\ W'.valM = m_valM
      /\ W'.stat = m_stat
  BY <1>1, <1>2 DEF do_ex_stage, do_mem_stage, EBubble
<1>4. m_stat' = "BUB" /\ ~mem_write'
  BY <1>3 DEF m_stat, dmem_error, mem_read, mem_write
<1>5. Live' /\ isa_stat' = isa_stat
  BY <1>2, <1>3, <1>4 DEF Live, isa_stat, Errors
<1>6. isa_reg' = isa_reg
  <2>1. e_dstE = "none" /\ E.dstM = "none" /\ "none" \in Id
    BY <1>1 DEF EBubble, e_dstE, Id
  <2>2. m_stat' \notin Errors
    BY <1>4 DEF Errors
  <2>3. m_valM' \in Word
    BY <1>3, WordRange DEF m_valM, mem_read
  <2> QED
    BY <2>1, <2>2, <2>3, RegisterStep, ValuesInFlight, WriteBackValue
<1>7. isa_mem' = isa_mem
  BY <1>4 DEF isa_mem, Cycle, update_state
<1>8. cc' = cc /\ code' = code
  BY <1>1 DEF EBubble, Cycle, update_state, set_cc
<1>9. isa_pc' = isa_pc
  <2>1. ControlInv
    BY DEF PipeInv
  <2>2. ~LoadUse /\ ~Mispredicted
    BY <1>1 DEF EBubble, LoadUse, Mispredicted
  <2>3. bubble_if_id.stat = "BUB" /\ bubble_if_id.icode = "INOP" /\ (D.stat = "BUB" <=> D = bubble_if_id)
    BY FetchedFields DEF bubble_if_id
  <2>7. m_stat' \notin Errors
    BY <1>4 DEF Errors
  <2>4. CASE D.stat # "BUB"
    <3>1. M.icode # "IRET"
      BY <2>1, <2>3, <2>4 DEF ControlInv
    <3>2. E'.stat = D.stat /\ E'.pc = D.pc
      BY <2>2, RegisterLoads DEF E_bubble, do_id_wb_stages
    <3>3. isa_pc = D.pc
      BY <1>2, <2>4, <3>1 DEF isa_pc
    <3>4. isa_pc' = E'.pc
      BY <1>2, <1>3, <1>5, <2>4, <2>7, <3>2 DEF isa_pc
    <3> QED
      BY <3>2, <3>3, <3>4
  <2>5. CASE D.stat = "BUB" /\ M.icode # "IRET"
    <3>1. E'.stat = "BUB"
      BY <2>5, DecodeKept DEF EBubble
    <3>2. D' = do_if_stage(f_pc)
      BY <1>1, <2>2, <2>3, <2>5, RegisterLoads DEF D_bubble, Returning, EBubble
    <3>3. D'.pc = f_pc /\ D'.stat # "BUB"
      <4>1. Fetched(code, f_pc).pc = f_pc /\ Fetched(code, f_pc).stat # "BUB"
        BY DEF Fetched
      <4> QED
        BY <3>2, <4>1, FetchStage
    <3>4. isa_pc = f_pc
      BY <1>2, <2>5 DEF isa_pc
    <3>5. isa_pc' = D'.pc
      BY <1>2, <1>3, <1>5, <2>7, <3>1, <3>3 DEF isa_pc
    <3> QED
      BY <3>3, <3>4, <3>5
  <2>6. CASE M.icode = "IRET"
    <3>1. D' = bubble_if_id
      BY <2>2, <2>6, RegisterLoads DEF D_bubble, Returning
    <3>2. D.stat = "BUB"
      BY <2>1, <2>3, <2>6 DEF ControlInv
    <3>3. E'.stat = "BUB" /\ D'.stat = "BUB"
      BY <2>3, <3>1, <3>2, DecodeKept DEF EBubble
    <3>4. f_pc' = W'.valM
      BY <1>3, <2>6 DEF f_pc
    <3>5. isa_pc' = f_pc'
      BY <1>2, <1>3, <2>7, <3>3 DEF isa_pc
    <3> QED
      BY <1>2, <1>3, <2>6, <3>4, <3>5 DEF isa_pc
  <2> QED
    BY <2>4, <2>5, <2>6
<1> QED
  BY <1>5, <1>6, <1>7, <1>8, <1>9

\* The address the instruction in E is going to use, and whether it is bad.
DataAddress == IF E.icode \in {"IPOPL", "IRET"} THEN E.valA ELSE e_valE
BadAddress == E.icode \in MemOps /\ DataAddress \notin Addr

\* What a cycle does to the state of the instruction set when an instruction
\* moves from E to M.
LEMMA ExecuteStep ==
  ASSUME Loadable, PipeInv, Cycle, Live, E.stat # "BUB"
  PROVE  /\ isa_pc = E.pc /\ isa_stat = "AOK" /\ code' = code
         /\ isa_stat' = IF BadAddress THEN "ADR" ELSE E.stat
         /\ isa_stat' # "AOK" => isa_pc' = E.pc /\ isa_reg' = isa_reg
         /\ isa_stat' = "AOK" =>
              /\ Live'
              /\ isa_reg' = WriteBack(isa_reg, e_dstE, e_valE, E.dstM, m_valM')
         /\ E.icode \in {"IMRMOVL", "IPOPL", "IRET"} /\ ~BadAddress => m_valM' = isa_mem[DataAddress]
         /\ isa_mem' = IF isa_stat' = "AOK" /\ E.icode \in {"IRMMOVL", "IPUSHL", "ICALL"}
                       THEN set_word_val(isa_mem, e_valE, E.valA) ELSE isa_mem
         /\ cc' = IF E.icode \in {"IOPL", "IIADDL"} THEN compute_cc(alufun, aluA, aluB) ELSE cc
<1>1. M' = do_ex_stage /\ W' = do_mem_stage /\ W.stat \notin Errors /\ m_stat \notin Errors /\ W'.stat \notin Errors
  BY LiveStep, RegisterLoads
<1>2. M'.stat = E.stat /\ M'.icode = E.icode /\ M'.valE = e_valE /\ M'.valA = E.valA /\ M'.pc = E.pc
  BY <1>1 DEF do_ex_stage
<1>3. E.stat \in Errors \cup {"AOK"} /\ (E.stat \in Errors => E.icode \notin MemOps \cup {"IOPL", "IIADDL"})
  BY DecodedFields DEF MemOps, Opcodes
<1>4. dmem_error' <=> BadAddress
  BY <1>2 DEF dmem_error, BadAddress, DataAddress, MemOps, mem_read, mem_write, mem_addr
<1>5. m_stat' = (IF BadAddress THEN "ADR" ELSE E.stat)
  BY <1>2, <1>4 DEF m_stat
<1>6. m_stat' \in Errors <=> BadAddress \/ E.stat # "AOK"
  BY <1>3, <1>5 DEF Errors
<1>7. Live' <=> m_stat' \notin Errors
  BY LiveStep
<1>8. isa_stat' = (IF BadAddress THEN "ADR" ELSE E.stat)
  BY <1>1, <1>3, <1>5, <1>6 DEF isa_stat
<1>9. isa_stat' = "AOK" <=> Live'
  BY DEF Live
<1>10. isa_pc = E.pc /\ isa_stat = "AOK"
  <2>1. M.icode # "IRET"
    BY <1>1 DEF PipeInv, ControlInv, EBubble
  <2> QED
    BY <1>1, <2>1 DEF isa_pc, Live
<1>11. ~Live' => isa_pc' = E.pc
  BY <1>1, <1>2, <1>7 DEF isa_pc
<1>12. isa_mem = mem'
  BY DEF isa_mem, Cycle, update_state
<1>13. E.icode \in {"IMRMOVL", "IPOPL", "IRET"} /\ ~BadAddress => m_valM' = isa_mem[DataAddress]
  BY <1>2, <1>4, <1>12 DEF m_valM, mem_read, mem_addr, DataAddress
<1>14. isa_mem' = IF Live' /\ E.icode \in {"IRMMOVL", "IPUSHL", "ICALL"}
                  THEN set_word_val(isa_mem, e_valE, E.valA) ELSE isa_mem
  <2>1. isa_mem' = IF Live' /\ mem_write' THEN set_word_val(mem', mem_addr', M'.valA) ELSE mem'
    BY DEF isa_mem, set_word_val
  <2>2. mem_write' <=> E.icode \in {"IRMMOVL", "IPUSHL", "ICALL"}
    BY <1>2 DEF mem_write
  <2>3. mem_write' => mem_addr' = e_valE
    BY <1>2 DEF mem_write, mem_addr
  <2> QED
    BY <1>2, <1>12, <2>1, <2>2, <2>3
<1>15. cc' = IF E.icode \in {"IOPL", "IIADDL"} THEN compute_cc(alufun, aluA, aluB) ELSE cc
  BY <1>1 DEF set_cc, Cycle, update_state
<1> QED
  BY <1>7, <1>8, <1>9, <1>10, <1>11, <1>13, <1>14, <1>15, RegisterStep DEF Cycle

\* The instance of the instruction set has the machine of the processor.
LEMMA SameMachine ==
  /\ \A x : I!ToWord(x) = ToWord(x)
  /\ \A r, k : I!get_reg_val(r, k) = get_reg_val(r, k)
  /\ \A r, k, x : I!set_reg_val(r, k, x) = set_reg_val(r, k, x)
  /\ \A m, a, x : I!set_word_val(m, a, x) = set_word_val(m, a, x)
  /\ \A op, a, b : I!compute_alu(op, a, b) = compute_alu(op, a, b)
  /\ \A op, a, b : I!compute_cc(op, a, b) = compute_cc(op, a, b)
  /\ \A c, f : I!cond_holds(c, f) = cond_holds(c, f)
  /\ I!Opcodes = Opcodes
BY DEF I!ToWord, ToWord, I!get_reg_val, get_reg_val, I!set_reg_val, set_reg_val, I!set_word_val, set_word_val,
  I!compute_alu, compute_alu, I!compute_cc, compute_cc, I!cond_holds, cond_holds, I!Opcodes, Opcodes

\* The instruction in E, its operands and its destinations, in the words of
\* the instruction set.
LEMMA InstructionInE ==
  ASSUME Loadable, PipeInv, Live, E.stat = "AOK", NEW i, i = code[E.pc]
  PROVE  /\ E.pc \in DOMAIN code
         /\ WellFormed(i)
         /\ E.icode = i.icode /\ E.ifun = i.ifun /\ E.icode \in Opcodes \ {"IHALT", "ILEAVE"}
         /\ E.icode \in {"IIRMOVL", "IRMMOVL", "IMRMOVL", "IJXX", "ICALL", "IIADDL"} => E.valC = i.valC
         /\ E.icode \in {"ICALL", "IJXX"} => E.valA = ToWord(E.pc + 1)
         /\ E.icode \in {"IRRMOVL", "IRMMOVL", "IOPL", "IPUSHL"} => E.valA = isa_reg[i.rA]
         /\ E.icode \in {"IPOPL", "IRET"} => E.valA = isa_reg["esp"]
         /\ E.icode \in {"IOPL", "IRMMOVL", "IMRMOVL", "IIADDL"} => E.valB = isa_reg[i.rB]
         /\ E.icode \in {"IPUSHL", "IPOPL", "ICALL", "IRET"} => E.valB = isa_reg["esp"]
         /\ E.icode \in {"IRRMOVL", "IIRMOVL", "IOPL", "IIADDL"} => E.dstE = i.rB
         /\ E.icode \in {"IPUSHL", "IPOPL", "ICALL", "IRET"} => E.dstE = "esp"
         /\ E.icode \in {"INOP", "IRMMOVL", "IMRMOVL", "IJXX"} => E.dstE = "none"
         /\ E.dstM = IF E.icode \in {"IMRMOVL", "IPOPL"} THEN i.rA ELSE "none"
         /\ Predicted(Fetched(code, E.pc)) =
              IF E.icode \in {"IJXX", "ICALL"} THEN i.valC ELSE ToWord(E.pc + 1)
<1> DEFINE d == Fetched(code, E.pc)
<1>1. code \in Programs /\ E.pc \in Word /\ EDecoded /\ OperandInv
  BY DecodedFields DEF PipeInv, ValuesInv
<1>2. /\ E.stat = d.stat
      /\ E.icode = d.icode
      /\ E.ifun = d.ifun
      /\ E.valC = d.valC
      /\ E.dstE = DstE(d)
      /\ E.dstM = DstM(d)
      /\ d.icode \in {"ICALL", "IJXX"} => E.valA = d.valP
  BY <1>1 DEF EDecoded
<1>3. /\ SrcA(d) \in Reg => E.valA = isa_reg[SrcA(d)]
      /\ SrcB(d) \in Reg => E.valB = isa_reg[SrcB(d)]
  BY <1>1 DEF OperandInv
<1>4. d.valP = ToWord(E.pc + 1) /\ d.icode \in Opcodes \ {"IHALT", "ILEAVE"}
  BY <1>1, <1>2, FetchFacts
<1>5. /\ E.pc \in DOMAIN code
      /\ WellFormed(i)
      /\ d.icode = i.icode
      /\ d.ifun = i.ifun
      /\ d.icode \in {"IRRMOVL", "IOPL", "IPUSHL", "IPOPL", "IIRMOVL", "IRMMOVL", "IMRMOVL", "IIADDL"}
           => d.rA = i.rA /\ d.rB = i.rB
      /\ d.icode \in {"IIRMOVL", "IRMMOVL", "IMRMOVL", "IJXX", "ICALL", "IIADDL"} => d.valC = i.valC
  BY <1>1, <1>2, FetchedInstruction
<1> HIDE DEF d
<1>6. /\ E.icode \in {"IRRMOVL", "IRMMOVL", "IOPL", "IPUSHL"} => E.valA = isa_reg[i.rA]
      /\ E.icode \in {"IPOPL", "IRET"} => E.valA = isa_reg["esp"]
  BY <1>2, <1>3, <1>5, RegAssumption DEF SrcA, WellFormed
<1>7. /\ E.icode \in {"IOPL", "IRMMOVL", "IMRMOVL", "IIADDL"} => E.valB = isa_reg[i.rB]
      /\ E.icode \in {"IPUSHL", "IPOPL", "ICALL", "IRET"} => E.valB = isa_reg["esp"]
  BY <1>2, <1>3, <1>5, RegAssumption DEF SrcB, WellFormed
<1>8. /\ E.icode \in {"IRRMOVL", "IIRMOVL", "IOPL", "IIADDL"} => E.dstE = i.rB
      /\ E.icode \in {"IPUSHL", "IPOPL", "ICALL", "IRET"} => E.dstE = "esp"
      /\ E.icode \in {"INOP", "IRMMOVL", "IMRMOVL", "IJXX"} => E.dstE = "none"
  BY <1>2, <1>5 DEF DstE
<1>9. E.dstM = IF E.icode \in {"IMRMOVL", "IPOPL"} THEN i.rA ELSE "none"
  BY <1>2, <1>5 DEF DstM
<1>10. Predicted(d) = IF E.icode \in {"IJXX", "ICALL"} THEN i.valC ELSE ToWord(E.pc + 1)
  BY <1>2, <1>4, <1>5 DEF Predicted
<1> QED
  BY <1>2, <1>4, <1>5, <1>6, <1>7, <1>8, <1>9, <1>10 DEF d

\* Writes to no register.
LEMMA WriteBackOne ==
  ASSUME NEW r \in [Reg -> Word], NEW i, NEW x, NEW y
  PROVE  /\ WriteBack(r, i, x, "none", y) = set_reg_val(r, i, x)
         /\ WriteBack(r, "none", x, i, y) = set_reg_val(r, i, y)
         /\ WriteBack(r, "none", x, "none", y) = r
BY RegAssumption DEF WriteBack, set_reg_val

\* The instruction set is ready for the instruction in E.
LEMMA Enabled ==
  ASSUME Loadable, PipeInv, Live, E.stat = "AOK", isa_pc = E.pc
  PROVE  /\ I!At(E.icode)
         /\ I!instr = code[E.pc]
         /\ I!ftpc = ToWord(E.pc + 1)
         /\ \A k \in Reg : I!R(k) = isa_reg[k]
<1>1. /\ E.pc \in DOMAIN code
      /\ WellFormed(code[E.pc])
      /\ E.icode = code[E.pc].icode
  BY InstructionInE
<1>2. I!instr = code[E.pc] /\ I!ftpc = ToWord(E.pc + 1)
  BY SameMachine DEF I!instr, I!ftpc
<1>3. I!RegistersValid(code[E.pc])
  BY <1>1 DEF I!RegistersValid, I!reg_valid, WellFormed
<1>4. \A k \in Reg : I!R(k) = isa_reg[k]
  BY SameMachine DEF I!R, get_reg_val
<1> QED
  BY <1>1, <1>2, <1>3, <1>4 DEF I!At, Live

\* An instruction that moves from E to M without a fault at its fetch is an
\* instruction executed by the instruction set.
LEMMA ExecuteMaps ==
  ASSUME Loadable, PipeInv, Cycle, Live, E.stat = "AOK"
  PROVE  I!step_state
<1> DEFINE i == code[E.pc]
<1>1. /\ isa_pc = E.pc /\ isa_stat = "AOK" /\ code' = code
      /\ isa_stat' = IF BadAddress THEN "ADR" ELSE "AOK"
      /\ BadAddress => isa_pc' = isa_pc /\ isa_reg' = isa_reg
      /\ ~BadAddress => Live' /\ isa_reg' = WriteBack(isa_reg, e_dstE, e_valE, E.dstM, m_valM')
      /\ E.icode \in {"IMRMOVL", "IPOPL", "IRET"} /\ ~BadAddress => m_valM' = isa_mem[DataAddress]
      /\ isa_mem' = IF ~BadAddress /\ E.icode \in {"IRMMOVL", "IPUSHL", "ICALL"}
                    THEN set_word_val(isa_mem, e_valE, E.valA) ELSE isa_mem
      /\ cc' = IF E.icode \in {"IOPL", "IIADDL"} THEN compute_cc(alufun, aluA, aluB) ELSE cc
  BY ExecuteStep
<1>2. /\ WellFormed(i)
      /\ E.icode = i.icode /\ E.ifun = i.ifun /\ E.icode \in Opcodes \ {"IHALT", "ILEAVE"}
      /\ E.icode \in {"IIRMOVL", "IRMMOVL", "IMRMOVL", "IJXX", "ICALL", "IIADDL"} => E.valC = i.valC
      /\ E.icode \in {"ICALL", "IJXX"} => E.valA = ToWord(E.pc + 1)
      /\ E.icode \in {"IRRMOVL", "IRMMOVL", "IOPL", "IPUSHL"} => E.valA = isa_reg[i.rA]
      /\ E.icode \in {"IPOPL", "IRET"} => E.valA = isa_reg["esp"]
      /\ E.icode \in {"IOPL", "IRMMOVL", "IMRMOVL", "IIADDL"} => E.valB = isa_reg[i.rB]
      /\ E.icode \in {"IPUSHL", "IPOPL", "ICALL", "IRET"} => E.valB = isa_reg["esp"]
      /\ E.icode \in {"IRRMOVL", "IIRMOVL", "IOPL", "IIADDL"} => E.dstE = i.rB
      /\ E.icode \in {"IPUSHL", "IPOPL", "ICALL", "IRET"} => E.dstE = "esp"
      /\ E.icode \in {"INOP", "IRMMOVL", "IMRMOVL", "IJXX"} => E.dstE = "none"
      /\ E.dstM = IF E.icode \in {"IMRMOVL", "IPOPL"} THEN i.rA ELSE "none"
      /\ Predicted(Fetched(code, E.pc)) = IF E.icode \in {"IJXX", "ICALL"} THEN i.valC ELSE ToWord(E.pc + 1)
  BY InstructionInE
<1>3. /\ I!At(E.icode)
      /\ I!instr = i
      /\ I!ftpc = ToWord(E.pc + 1)
      /\ \A k \in Reg : I!R(k) = isa_reg[k]
  BY <1>1, Enabled
<1>4. isa_reg \in [Reg -> Word] /\ {E.valA, E.valB, E.valC} \subseteq Word /\ "esp" \in Reg
  BY RegisterStep, RegAssumption DEF PipeInv, ValuesInv
<1> HIDE DEF i
<1>5. ~BadAddress =>
        isa_pc' = CASE E.icode = "IRET" -> m_valM'
                    [] E.icode = "IJXX" -> (IF e_Cnd THEN i.valC ELSE ToWord(E.pc + 1))
                    [] E.icode = "ICALL" -> i.valC
                    [] OTHER -> ToWord(E.pc + 1)
  BY <1>1, <1>2, NextInstruction
<1>6. /\ E.icode \in {"IRRMOVL", "IIRMOVL"} =>
           e_valE = IF E.icode = "IRRMOVL" THEN isa_reg[i.rA] ELSE i.valC
      /\ E.icode \in {"IRMMOVL", "IMRMOVL"} => e_valE = ToWord(i.valC + isa_reg[i.rB])
      /\ E.icode \in {"ICALL", "IPUSHL"} => e_valE = ToWord(-WordSize + isa_reg["esp"])
      /\ E.icode \in {"IRET", "IPOPL"} => e_valE = ToWord(WordSize + isa_reg["esp"])
  BY <1>2, <1>4, WordRange DEF e_valE, alufun, aluA, aluB, compute_alu
<1>7. E.icode # "IRRMOVL" => e_dstE = E.dstE
  BY DEF e_dstE
<1>8. ~BadAddress => \A next : isa_pc' = next => I!GoTo(next)
  BY <1>1 DEF I!GoTo
<1>9. BadAddress => E.icode \in MemOps /\ I!Stop("ADR") /\ isa_reg' = isa_reg
  BY <1>1 DEF I!Stop, BadAddress, MemOps
<1>10. E.icode \notin MemOps => ~BadAddress
  BY DEF BadAddress
<1>11. CASE E.icode = "INOP"
  <2>1. I!Nop
    BY <1>1, <1>2, <1>3, <1>4, <1>5, <1>7, <1>8, <1>10, <1>11, WriteBackOne DEF I!Nop, MemOps
  <2> QED
    BY <2>1 DEF I!step_state
<1>12. CASE E.icode = "IRRMOVL"
  <2>1. ~BadAddress /\ i.rA \in Reg /\ i.rB \in Reg
    BY <1>2, <1>10, <1>12 DEF MemOps, WellFormed
  <2>2. isa_reg' = IF I!cond_holds(cc, i.ifun) THEN set_reg_val(isa_reg, i.rB, isa_reg[i.rA]) ELSE isa_reg
    BY <1>1, <1>2, <1>4, <1>6, <1>12, <2>1, SameMachine, WriteBackOne DEF e_dstE, e_Cnd
  <2>3. I!Rrmovl
    BY <1>1, <1>3, <1>5, <1>8, <1>12, <2>1, <2>2, SameMachine DEF I!Rrmovl
  <2> QED
    BY <2>3 DEF I!step_state
<1>13. CASE E.icode = "IIRMOVL"
  <2>1. ~BadAddress /\ isa_reg' = set_reg_val(isa_reg, i.rB, i.valC)
    BY <1>1, <1>2, <1>4, <1>6, <1>7, <1>10, <1>13, WriteBackOne DEF MemOps
  <2>2. I!Irmovl
    BY <1>1, <1>3, <1>5, <1>8, <1>13, <2>1, SameMachine DEF I!Irmovl
  <2> QED
    BY <2>2 DEF I!step_state
<1>14. CASE E.icode = "IOPL" \/ E.icode = "IIADDL"
  <2>1. ~BadAddress /\ i.rB \in Reg /\ (E.icode = "IOPL" => i.rA \in Reg)
    BY <1>2, <1>10, <1>14 DEF MemOps, WellFormed
  <2> DEFINE op == IF E.icode = "IOPL" THEN i.ifun ELSE "ADD"
             argA == IF E.icode = "IOPL" THEN isa_reg[i.rA] ELSE i.valC
  <2>2. alufun = op /\ aluA = argA /\ aluB = isa_reg[i.rB]
    BY <1>2, <1>14 DEF alufun, aluA, aluB
  <2>3. isa_reg' = set_reg_val(isa_reg, i.rB, compute_alu(op, argA, isa_reg[i.rB]))
    BY <1>1, <1>2, <1>4, <1>7, <1>14, <2>1, <2>2, WriteBackOne DEF e_valE
  <2>4. I!Arithmetic(op, argA)
    <3>1. isa_pc' = I!ftpc
      BY <1>3, <1>5, <1>14, <2>1
    <3>2. cc' = compute_cc(op, argA, isa_reg[i.rB]) /\ isa_mem' = isa_mem
      BY <1>1, <1>14, <2>2
    <3> HIDE DEF op, argA
    <3> QED
      BY <1>3, <1>8, <2>1, <2>3, <3>1, <3>2, SameMachine DEF I!Arithmetic
  <2>5. CASE E.icode = "IOPL"
    BY <1>3, <2>1, <2>4, <2>5 DEF I!Opl, I!step_state
  <2>6. CASE E.icode = "IIADDL"
    BY <1>3, <2>4, <2>6 DEF I!Iaddl, I!step_state
  <2> QED
    BY <1>14, <2>5, <2>6
<1>15. CASE E.icode = "IJXX"
  <2>1. ~BadAddress /\ isa_reg' = isa_reg
    BY <1>1, <1>2, <1>4, <1>7, <1>10, <1>15, WriteBackOne DEF MemOps
  <2>2. I!Jxx
    BY <1>1, <1>2, <1>3, <1>5, <1>8, <1>15, <2>1, SameMachine DEF I!Jxx, e_Cnd
  <2> QED
    BY <2>2 DEF I!step_state
<1>16. CASE E.icode = "IRMMOVL" \/ E.icode = "IMRMOVL"
  <2>1. i.rA \in Reg /\ i.rB \in Reg
    BY <1>2, <1>16 DEF WellFormed
  <2>2. I!Target = e_valE
    BY <1>3, <1>6, <1>16, <2>1, SameMachine DEF I!Target
  <2>3. DataAddress = e_valE /\ (BadAddress <=> e_valE \notin Addr)
    BY <1>16 DEF BadAddress, DataAddress, MemOps
  <2>4. cc' = cc
    BY <1>1, <1>16
  <2>5. CASE E.icode = "IRMMOVL"
    <3>1. isa_reg' = isa_reg
      BY <1>1, <1>2, <1>4, <1>7, <2>5, WriteBackOne
    <3>2. ~BadAddress => isa_mem' = set_word_val(isa_mem, e_valE, isa_reg[i.rA]) /\ isa_pc' = I!ftpc
      BY <1>1, <1>2, <1>3, <1>5, <2>5
    <3>3. I!Rmmovl
      BY <1>3, <1>8, <1>9, <2>1, <2>2, <2>3, <2>4, <2>5, <3>1, <3>2, SameMachine DEF I!Rmmovl
    <3> QED
      BY <3>3 DEF I!step_state
  <2>6. CASE E.icode = "IMRMOVL"
    <3>1. isa_mem' = isa_mem
      BY <1>1, <2>6
    <3>2. ~BadAddress => isa_reg' = set_reg_val(isa_reg, i.rA, isa_mem[e_valE]) /\ isa_pc' = I!ftpc
      BY <1>1, <1>2, <1>3, <1>4, <1>5, <1>7, <2>3, <2>6, WriteBackOne
    <3>3. I!Mrmovl
      BY <1>3, <1>8, <1>9, <2>1, <2>2, <2>3, <2>4, <2>6, <3>1, <3>2, SameMachine DEF I!Mrmovl
    <3> QED
      BY <3>3 DEF I!step_state
  <2> QED
    BY <1>16, <2>5, <2>6
<1>17. CASE E.icode = "ICALL" \/ E.icode = "IPUSHL"
  <2> DEFINE dval == ToWord(-WordSize + isa_reg["esp"])
             val == IF E.icode = "ICALL" THEN I!ftpc ELSE isa_reg[i.rA]
             next == IF E.icode = "ICALL" THEN i.valC ELSE I!ftpc
  <2>1. e_valE = dval /\ E.valA = val /\ cc' = cc
    BY <1>1, <1>2, <1>3, <1>6, <1>17
  <2>2. BadAddress <=> dval \notin Addr
    BY <1>17, <2>1 DEF BadAddress, DataAddress, MemOps
  <2>3. ~BadAddress =>
          /\ isa_reg' = set_reg_val(isa_reg, "esp", dval)
          /\ isa_mem' = set_word_val(isa_mem, dval, val)
          /\ isa_pc' = next
    BY <1>1, <1>2, <1>3, <1>4, <1>5, <1>7, <1>17, <2>1, WriteBackOne
  <2>4. I!ToWord(-WordSize + I!R("esp")) = dval
    BY <1>3, <1>4, SameMachine
  <2> HIDE DEF dval, val, next
  <2>5. I!Push(val, next)
    BY <1>8, <1>9, <2>1, <2>2, <2>3, <2>4, SameMachine DEF I!Push, I!Faulted
  <2>6. CASE E.icode = "ICALL"
    BY <1>3, <2>5, <2>6 DEF I!Call, I!step_state, val, next
  <2>7. CASE E.icode = "IPUSHL"
    <3>1. i.rA \in Reg
      BY <1>2, <2>7 DEF WellFormed
    <3> QED
      BY <1>3, <2>5, <2>7, <3>1 DEF I!Pushl, I!step_state, val, next
  <2> QED
    BY <1>17, <2>6, <2>7
<1>18. CASE E.icode = "IRET"
  <2>1. BadAddress <=> isa_reg["esp"] \notin Addr
    BY <1>2, <1>18 DEF BadAddress, DataAddress, MemOps
  <2>2. cc' = cc /\ isa_mem' = isa_mem
    BY <1>1, <1>18
  <2>3. ~BadAddress =>
          /\ isa_reg' = set_reg_val(isa_reg, "esp", ToWord(WordSize + isa_reg["esp"]))
          /\ isa_pc' = isa_mem[isa_reg["esp"]]
    BY <1>1, <1>2, <1>4, <1>5, <1>6, <1>7, <1>18, WriteBackOne DEF DataAddress
  <2>4. I!R("esp") = isa_reg["esp"]
    BY <1>3, <1>4
  <2>5. I!Ret
    BY <1>3, <1>8, <1>9, <1>18, <2>1, <2>2, <2>3, <2>4, SameMachine DEF I!Ret
  <2> QED
    BY <2>5 DEF I!step_state
<1>19. CASE E.icode = "IPOPL"
  <2>1. BadAddress <=> isa_reg["esp"] \notin Addr
    BY <1>2, <1>19 DEF BadAddress, DataAddress, MemOps
  <2>2. cc' = cc /\ isa_mem' = isa_mem
    BY <1>1, <1>19
  <2> DEFINE moved == set_reg_val(isa_reg, "esp", ToWord(WordSize + isa_reg["esp"]))
  <2>3. ~BadAddress =>
          /\ isa_reg' = set_reg_val(moved, i.rA, isa_mem[isa_reg["esp"]])
          /\ isa_pc' = I!ftpc
    BY <1>1, <1>2, <1>3, <1>5, <1>6, <1>7, <1>19 DEF DataAddress, WriteBack
  <2>4. I!R("esp") = isa_reg["esp"]
    BY <1>3, <1>4
  <2>5. I!Pop(isa_reg["esp"], i.rA)
    BY <1>8, <1>9, <2>1, <2>2, <2>3, SameMachine DEF I!Pop, I!Faulted
  <2>6. I!Popl
    BY <1>3, <1>19, <2>4, <2>5 DEF I!Popl
  <2> QED
    BY <2>6 DEF I!step_state
<1> QED
  BY <1>2, <1>11, <1>12, <1>13, <1>14, <1>15, <1>16, <1>17, <1>18, <1>19 DEF Opcodes

\* An instruction whose fetch failed stops the instruction set where it is.
LEMMA FetchFaultMaps ==
  ASSUME Loadable, PipeInv, Cycle, Live, E.stat \in Errors
  PROVE  I!step_state
<1> DEFINE d == Fetched(code, E.pc)
<1>1. E.stat = d.stat /\ E.icode = d.icode /\ code \in Programs
  BY DecodedFields DEF EDecoded, Errors, PipeInv
<1>2. E.icode \notin Opcodes \ {"INOP", "IHALT", "ILEAVE"} /\ E.stat # "BUB" /\ E.stat # "AOK"
  BY DecodedFields DEF Errors
<1>3. ~BadAddress
  BY <1>2 DEF BadAddress, MemOps, Opcodes
<1>4. /\ isa_pc = E.pc /\ isa_stat = "AOK" /\ code' = code
      /\ isa_stat' = E.stat
      /\ isa_pc' = isa_pc /\ isa_reg' = isa_reg /\ isa_mem' = isa_mem /\ cc' = cc
  BY <1>2, <1>3, ExecuteStep DEF Opcodes
<1>5. I!Stop(E.stat)
  BY <1>4 DEF I!Stop
<1>6. CASE E.pc \notin DOMAIN code
  <2>1. E.stat = "ADR"
    BY <1>1, <1>6 DEF Fetched
  <2>2. I!InvalidAddress
    BY <1>4, <1>5, <1>6, <2>1 DEF I!InvalidAddress
  <2> QED
    BY <2>2 DEF I!step_state
<1>7. CASE E.pc \in DOMAIN code /\ E.icode \notin Opcodes \ {"ILEAVE"}
  <2>1. E.stat = "INS" /\ E.icode = code[E.pc].icode
    <3>1. E.icode = code[E.pc].icode
      BY <1>1, <1>7 DEF Fetched
    <3>2. code[E.pc].icode \notin Opcodes \ {"ILEAVE"} => d.stat = "INS"
      BY <1>7 DEF Fetched, Opcodes
    <3> QED
      BY <1>1, <1>7, <3>1, <3>2
  <2>2. I!instr.icode \notin I!Opcodes
    <3>1. E.icode # "ILEAVE"
      BY <1>1, <1>7, <2>1 DEF Loadable, WellFormed
    <3> QED
      BY <1>4, <1>7, <2>1, <3>1, SameMachine DEF I!instr
  <2>3. I!InvalidInstruction
    BY <1>4, <1>5, <1>7, <2>1, <2>2 DEF I!InvalidInstruction
  <2> QED
    BY <2>3 DEF I!step_state
<1>8. CASE E.pc \in DOMAIN code /\ E.icode \in Opcodes \ {"ILEAVE"}
  <2>1. E.stat = "HLT" /\ E.icode = "IHALT" /\ E.icode = code[E.pc].icode
    BY <1>1, <1>2, <1>8 DEF Fetched
  <2>2. I!At("IHALT")
    BY <1>4, <1>8, <2>1 DEF I!At, I!instr, I!RegistersValid
  <2>3. I!Halt
    BY <1>4, <1>5, <2>1, <2>2 DEF I!Halt
  <2> QED
    BY <2>3 DEF I!step_state
<1> QED
  BY <1>6, <1>7, <1>8

\* Every cycle is a step of the instruction set or changes nothing in it.
LEMMA CycleMaps ==
  ASSUME Loadable, PipeInv, [Cycle]_vars
  PROVE  [I!step_state]_(I!vars)
<1>1. CASE Cycle /\ ~Live
  BY <1>1, FaultStutters DEF I!vars
<1>2. CASE Cycle /\ Live /\ E.stat = "BUB"
  BY <1>2, BubbleStutters DEF I!vars
<1>3. CASE Cycle /\ Live /\ E.stat = "AOK"
  BY <1>3, ExecuteMaps
<1>4. CASE Cycle /\ Live /\ E.stat \in Errors
  BY <1>4, FetchFaultMaps
<1>5. CASE UNCHANGED vars
  BY <1>5 DEF vars, I!vars, isa_pc, isa_reg, isa_mem, isa_stat, Live, m_stat, m_valM, dmem_error,
    mem_read, mem_write, mem_addr, f_pc
<1> QED
  BY <1>1, <1>2, <1>3, <1>4, <1>5, DecodedFields

\* An empty pipeline satisfies the invariant, and stands for the initial
\* state of the instruction set.
LEMMA EmptyPipeline ==
  ASSUME Loadable, Init
  PROVE  PipeInv /\ isa_stat = "AOK" /\ isa_pc = 0 /\ cc = DEFAULT_CC
<1> USE DEF bubble_pc, bubble_if_id, bubble_id_ex, bubble_ex_mem, bubble_mem_wb
<1>1. 0 \in Word /\ "none" \in Id
  BY WordRange DEF Id
<1>2. m_stat = "BUB" /\ W.stat = "BUB"
  BY DEF Init, Empty, m_stat, dmem_error, mem_read, mem_write
<1>3. isa_stat = "AOK" /\ isa_pc = 0
  BY <1>2 DEF isa_stat, isa_pc, f_pc, Live, Errors, Init, Empty
<1>4. ValuesInv
  BY <1>1 DEF ValuesInv, Init, Empty, Loadable, DEFAULT_CC, CC, Stats
<1>5. FetchInv /\ EBubble /\ DecodeInv
  BY DEF FetchInv, EBubble, DecodeInv, Init, Empty
<1>6. FaultInv /\ ControlInv /\ OperandInv
  BY <1>5 DEF FaultInv, ControlInv, OperandInv, EBubble, Init, Empty, Errors
<1> QED
  BY <1>3, <1>4, <1>5, <1>6 DEF PipeInv, Init, Empty

-----------------------------------------------------------------------------
\* For every loadable program the inductive invariant holds.
THEOREM PipeInvariance ==
  ASSUME Loadable
  PROVE  Spec => []PipeInv
<1>1. Init => PipeInv
  BY EmptyPipeline
<1>2. PipeInv /\ [Cycle]_vars => PipeInv'
  BY InvariantKept
<1> QED
  BY <1>1, <1>2, PTL DEF Spec

\* Pipeline registers, registers, memory and condition codes keep their types.
THEOREM TypeCorrect ==
  ASSUME Loadable
  PROVE  Spec => []PipeTypeOK
<1>1. PipeInv => PipeTypeOK
  <2> SUFFICES ASSUME PipeInv PROVE PipeTypeOK
    OBVIOUS
  <2>1. D.stat \in Stats /\ {D.valC, D.valP, D.pc} \subseteq Word
    BY FetchedFields DEF Errors, Stats
  <2>2. D.rA \in Reg \cup {"none"} /\ D.rB \in Reg \cup {"none"}
    BY FetchedFields DEF Id
  <2>3. E.stat \in Stats /\ {E.dstE, E.dstM} \subseteq Reg \cup {"none"}
    BY DecodedFields DEF Errors, Stats, Id
  <2> QED
    BY <2>1, <2>2, <2>3 DEF PipeInv, ValuesInv, Id, PipeTypeOK
<1> QED
  BY <1>1, PipeInvariance, PTL

\* The pipeline implements the instruction set: with the writes in flight
\* applied, every cycle of psim is a step of isa.c or changes nothing a program
\* can see, and a fault leaves the state as isa.c leaves it.
THEOREM Refinement ==
  ASSUME Loadable
  PROVE  Spec => ImplementsIsa
<1>1. Init => isa_stat = "AOK" /\ isa_pc = 0 /\ cc = I!DEFAULT_CC
  BY EmptyPipeline DEF I!DEFAULT_CC, DEFAULT_CC
<1>2. PipeInv /\ [Cycle]_vars => [I!step_state]_(I!vars)
  BY CycleMaps
<1> QED
  BY <1>1, <1>2, PipeInvariance, PTL DEF Spec, ImplementsIsa, I!Spec
-----------------------------------------------------------------------------
(* The processors in step: MCPipe runs the sequential processor and the      *)
(* instruction simulator of the fourth laboratory beside the pipeline.       *)

\* Both instances have the machine of the processor.
LEMMA SameSequential ==
  /\ \A x : S!ToWord(x) = ToWord(x)
  /\ \A r, k : S!get_reg_val(r, k) = get_reg_val(r, k)
  /\ \A m, a, x : S!set_word_val(m, a, x) = set_word_val(m, a, x)
  /\ \A r, i, x, j, y : S!WriteBack(r, i, x, j, y) = WriteBack(r, i, x, j, y)
  /\ \A op, a, b : S!compute_alu(op, a, b) = compute_alu(op, a, b)
  /\ \A op, a, b : S!compute_cc(op, a, b) = compute_cc(op, a, b)
  /\ \A c, f : S!cond_holds(c, f) = cond_holds(c, f)
  /\ S!Opcodes = Opcodes
BY DEF S!ToWord, ToWord, S!get_reg_val, get_reg_val, S!set_word_val, set_word_val,
  S!set_reg_val, set_reg_val, S!WriteBack, WriteBack,
  S!compute_alu, compute_alu, S!compute_cc, compute_cc, S!cond_holds, cond_holds, S!Opcodes, Opcodes

\* An instruction enters M when nothing ahead of it has failed.
LEMMA ExecutesLive ==
  ASSUME Loadable, PipeInv, Cycle
  PROVE  Executes <=> Live /\ E.stat # "BUB"
BY LiveStep, RegisterLoads DEF Executes, M_bubble

\* What the stages of the sequential processor compute for the instruction in
\* E is what the stages of the pipeline compute.
LEMMA SequentialSignals ==
  ASSUME Loadable, PipeInv, Live, E.stat = "AOK", isa_pc = E.pc, SequentialInStep
  PROVE  /\ S!icode = E.icode /\ S!valP = ToWord(E.pc + 1) /\ S!Cnd = e_Cnd
         /\ S!valE = e_valE /\ S!dstE = e_dstE /\ S!dstM = E.dstM
         /\ S!set_cc => S!alufun = alufun /\ S!aluA = aluA /\ S!aluB = aluB
         /\ S!icode \in {"IJXX", "ICALL"} => S!valC = Predicted(Fetched(code, E.pc))
         /\ S!mem_write => S!mem_data = E.valA
         /\ S!mem_read \/ S!mem_write => S!mem_addr = DataAddress
         /\ S!dmem_error <=> BadAddress
         /\ S!Stat = IF BadAddress THEN "ADR" ELSE "AOK"
<1> DEFINE i == code[E.pc]
<1>1. /\ E.pc \in DOMAIN code
      /\ WellFormed(i)
      /\ E.icode = i.icode /\ E.ifun = i.ifun /\ E.icode \in Opcodes \ {"IHALT", "ILEAVE"}
      /\ E.icode \in {"IIRMOVL", "IRMMOVL", "IMRMOVL", "IJXX", "ICALL", "IIADDL"} => E.valC = i.valC
      /\ E.icode \in {"ICALL", "IJXX"} => E.valA = ToWord(E.pc + 1)
      /\ E.icode \in {"IRRMOVL", "IRMMOVL", "IOPL", "IPUSHL"} => E.valA = isa_reg[i.rA]
      /\ E.icode \in {"IPOPL", "IRET"} => E.valA = isa_reg["esp"]
      /\ E.icode \in {"IOPL", "IRMMOVL", "IMRMOVL", "IIADDL"} => E.valB = isa_reg[i.rB]
      /\ E.icode \in {"IPUSHL", "IPOPL", "ICALL", "IRET"} => E.valB = isa_reg["esp"]
      /\ E.icode \in {"IRRMOVL", "IIRMOVL", "IOPL", "IIADDL"} => E.dstE = i.rB
      /\ E.icode \in {"IPUSHL", "IPOPL", "ICALL", "IRET"} => E.dstE = "esp"
      /\ E.icode \in {"INOP", "IRMMOVL", "IMRMOVL", "IJXX"} => E.dstE = "none"
      /\ E.dstM = IF E.icode \in {"IMRMOVL", "IPOPL"} THEN i.rA ELSE "none"
      /\ Predicted(Fetched(code, E.pc)) = IF E.icode \in {"IJXX", "ICALL"} THEN i.valC ELSE ToWord(E.pc + 1)
  BY InstructionInE
<1>2. spc = E.pc /\ sreg = isa_reg /\ smem = isa_mem /\ scc = cc
  BY DEF SequentialInStep
<1>3. /\ ~S!imem_error /\ S!icode = E.icode /\ S!ifun = E.ifun
      /\ S!valP = ToWord(E.pc + 1) /\ S!instr_valid
  BY <1>1, <1>2, SameSequential DEF S!imem_error, S!icode, S!ifun, S!valP, S!instr_valid
<1>4. E.icode \in {"IIRMOVL", "IRMMOVL", "IMRMOVL", "IJXX", "ICALL", "IIADDL"} => S!valC = E.valC
  BY <1>1, <1>2, <1>3 DEF S!valC, S!need_valC
<1>5. /\ E.icode \in {"IRRMOVL", "IRMMOVL", "IOPL", "IPUSHL", "IIADDL", "IMRMOVL", "IPOPL", "IIRMOVL"} =>
           S!rA = i.rA /\ S!rB = i.rB
      /\ "esp" \in Reg /\ "none" \notin Reg
  BY <1>1, <1>2, <1>3, RegAssumption DEF S!rA, S!rB, S!need_regids
<1>6. E.icode \in {"IRRMOVL", "IRMMOVL", "IOPL", "IPUSHL", "IPOPL", "IRET"} => S!valA = E.valA
  <2>1. E.icode \in {"IRRMOVL", "IRMMOVL", "IOPL", "IPUSHL"} => S!srcA = i.rA /\ i.rA \in Reg
    BY <1>1, <1>3, <1>5 DEF S!srcA, WellFormed
  <2>2. E.icode \in {"IPOPL", "IRET"} => S!srcA = "esp"
    BY <1>3 DEF S!srcA
  <2> QED
    BY <1>1, <1>2, <1>5, <2>1, <2>2, SameSequential DEF S!valA, get_reg_val
<1>7. E.icode \in {"IRMMOVL", "IMRMOVL", "IOPL", "ICALL", "IPUSHL", "IRET", "IPOPL", "IIADDL"} =>
        S!valB = E.valB
  <2>1. E.icode \in {"IOPL", "IRMMOVL", "IMRMOVL", "IIADDL"} => S!srcB = i.rB /\ i.rB \in Reg
    BY <1>1, <1>3, <1>5 DEF S!srcB, WellFormed
  <2>2. E.icode \in {"IPUSHL", "IPOPL", "ICALL", "IRET"} => S!srcB = "esp"
    BY <1>3 DEF S!srcB
  <2> QED
    BY <1>1, <1>2, <1>5, <2>1, <2>2, SameSequential DEF S!valB, get_reg_val
<1>8. S!Cnd = e_Cnd
  BY <1>2, <1>3, SameSequential DEF S!Cnd, e_Cnd
<1>9. S!alufun = alufun /\ S!aluA = aluA /\ S!aluB = aluB
  <2>1. S!alufun = alufun
    BY <1>3 DEF S!alufun, alufun
  <2>2. S!aluA = aluA
    BY <1>1, <1>3, <1>4, <1>6 DEF S!aluA, aluA
  <2>3. S!aluB = aluB
    BY <1>1, <1>3, <1>7 DEF S!aluB, aluB
  <2> QED
    BY <2>1, <2>2, <2>3
<1>10. S!valE = e_valE
  BY <1>9, SameSequential DEF S!valE, e_valE
<1>11. S!dstE = e_dstE /\ S!dstM = E.dstM
  <2>1. S!dstE = e_dstE
    BY <1>1, <1>3, <1>5, <1>8 DEF S!dstE, e_dstE, Opcodes
  <2>2. S!dstM = E.dstM
    BY <1>1, <1>3, <1>5 DEF S!dstM
  <2> QED
    BY <2>1, <2>2
<1>12. S!mem_write => S!mem_data = E.valA
  BY <1>1, <1>3, <1>6 DEF S!mem_write, S!mem_data
<1>13. S!mem_read \/ S!mem_write => S!mem_addr = DataAddress
  BY <1>1, <1>3, <1>6, <1>10 DEF S!mem_read, S!mem_write, S!mem_addr, DataAddress
<1>14. S!mem_read \/ S!mem_write <=> E.icode \in MemOps
  BY <1>1, <1>3 DEF S!mem_read, S!mem_write, MemOps
<1>15. S!dmem_error <=> BadAddress
  BY <1>13, <1>14 DEF S!dmem_error, BadAddress
<1>16. S!Stat = IF BadAddress THEN "ADR" ELSE "AOK"
  BY <1>1, <1>3, <1>15 DEF S!Stat
<1>17. S!icode \in {"IJXX", "ICALL"} => S!valC = Predicted(Fetched(code, E.pc))
  BY <1>1, <1>3, <1>4
<1> QED
  BY <1>3, <1>8, <1>9, <1>10, <1>11, <1>12, <1>13, <1>15, <1>16, <1>17

\* A step of the sequential processor keeps up with an instruction that was
\* fetched without fault.
LEMMA SequentialExecutes ==
  ASSUME Loadable, PipeInv, Cycle, Live, E.stat = "AOK", SequentialInStep, S!sim_step
  PROVE  SequentialInStep'
<1>1. /\ isa_pc = E.pc /\ isa_stat = "AOK"
      /\ isa_stat' = IF BadAddress THEN "ADR" ELSE E.stat
      /\ isa_stat' # "AOK" => isa_pc' = E.pc /\ isa_reg' = isa_reg
      /\ isa_stat' = "AOK" =>
           /\ Live'
           /\ isa_reg' = WriteBack(isa_reg, e_dstE, e_valE, E.dstM, m_valM')
      /\ E.icode \in {"IMRMOVL", "IPOPL", "IRET"} /\ ~BadAddress => m_valM' = isa_mem[DataAddress]
      /\ isa_mem' = IF isa_stat' = "AOK" /\ E.icode \in {"IRMMOVL", "IPUSHL", "ICALL"}
                    THEN set_word_val(isa_mem, e_valE, E.valA) ELSE isa_mem
      /\ cc' = IF E.icode \in {"IOPL", "IIADDL"} THEN compute_cc(alufun, aluA, aluB) ELSE cc
  BY ExecuteStep
<1>2. /\ S!icode = E.icode /\ S!valP = ToWord(E.pc + 1) /\ S!Cnd = e_Cnd
      /\ S!valE = e_valE /\ S!dstE = e_dstE /\ S!dstM = E.dstM
      /\ S!set_cc => S!alufun = alufun /\ S!aluA = aluA /\ S!aluB = aluB
      /\ S!icode \in {"IJXX", "ICALL"} => S!valC = Predicted(Fetched(code, E.pc))
      /\ S!mem_write => S!mem_data = E.valA
      /\ S!mem_read \/ S!mem_write => S!mem_addr = DataAddress
      /\ S!dmem_error <=> BadAddress
      /\ S!Stat = IF BadAddress THEN "ADR" ELSE "AOK"
  BY <1>1, SequentialSignals
<1>3. spc = isa_pc /\ sreg = isa_reg /\ smem = isa_mem /\ scc = cc
  BY DEF SequentialInStep
<1>4. sstat' = isa_stat'
  BY <1>1, <1>2 DEF S!sim_step
<1>5. CASE BadAddress
  <2>1. UNCHANGED <<spc, sreg, smem, scc>>
    BY <1>2, <1>5 DEF S!sim_step
  <2>2. isa_pc' = isa_pc /\ isa_reg' = isa_reg /\ isa_mem' = isa_mem /\ cc' = cc
    <3>1. E.icode \notin {"IOPL", "IIADDL"}
      BY <1>5 DEF BadAddress, MemOps
    <3> QED
      BY <1>1, <1>5, <3>1
  <2> QED
    BY <1>3, <1>4, <2>1, <2>2 DEF SequentialInStep
<1>6. CASE ~BadAddress
  <2>1. S!update_state /\ isa_stat' = "AOK" /\ Live'
    BY <1>1, <1>2, <1>6 DEF S!sim_step
  <2>2. S!mem_read <=> E.icode \in {"IMRMOVL", "IPOPL", "IRET"}
    <3>1. E.icode # "ILEAVE"
      BY <1>1, InstructionInE
    <3> QED
      BY <1>2, <3>1 DEF S!mem_read
  <2>3. S!mem_write <=> E.icode \in {"IRMMOVL", "IPUSHL", "ICALL"}
    BY <1>2 DEF S!mem_write
  <2>4. S!valM = m_valM'
    <3>1. CASE S!mem_read
      BY <1>1, <1>2, <1>3, <1>6, <2>2, <3>1 DEF S!valM
    <3>2. CASE ~S!mem_read
      <4>1. ~mem_read'
        BY <2>2, <3>2, LiveStep DEF mem_read, do_ex_stage
      <4> QED
        BY <3>2, <4>1 DEF S!valM, m_valM
    <3> QED
      BY <3>1, <3>2
  <2>5. sreg' = isa_reg'
    BY <1>1, <1>2, <1>3, <2>1, <2>4, SameSequential DEF S!update_state
  <2>6. smem' = isa_mem'
    <3>1. S!mem_write => S!mem_addr = e_valE
      BY <1>2, <2>3 DEF DataAddress
    <3> QED
      BY <1>1, <1>2, <1>3, <2>1, <2>3, <3>1, SameSequential DEF S!update_state
  <2>7. scc' = cc'
    <3>1. S!set_cc <=> E.icode \in {"IOPL", "IIADDL"}
      BY <1>2 DEF S!set_cc
    <3> QED
      BY <1>1, <1>2, <1>3, <2>1, <3>1, SameSequential DEF S!update_state
  <2>8. spc' = isa_pc'
    <3>1. isa_pc' = CASE E.icode = "IRET" -> m_valM'
                      [] E.icode = "IJXX" /\ ~e_Cnd -> E.valA
                      [] OTHER -> Predicted(Fetched(code, E.pc))
      BY <2>1, NextInstruction
    <3>2. /\ E.icode = "IJXX" => E.valA = ToWord(E.pc + 1)
          /\ E.icode \notin {"IJXX", "ICALL"} => Predicted(Fetched(code, E.pc)) = ToWord(E.pc + 1)
      BY <1>1, InstructionInE
    <3>3. spc' = S!new_pc
      BY <2>1 DEF S!update_state
    <3> QED
      BY <1>2, <2>4, <3>1, <3>2, <3>3 DEF S!new_pc
  <2> QED
    BY <1>4, <2>5, <2>6, <2>7, <2>8 DEF SequentialInStep
<1> QED
  BY <1>5, <1>6

\* An instruction whose fetch failed stops the sequential processor as well.
LEMMA SequentialStops ==
  ASSUME Loadable, PipeInv, Cycle, Live, E.stat \in Errors, SequentialInStep, S!sim_step
  PROVE  SequentialInStep'
<1> DEFINE d == Fetched(code, E.pc)
<1>1. E.stat = d.stat /\ E.icode = d.icode /\ code \in Programs
  BY DecodedFields DEF EDecoded, Errors, PipeInv
<1>2. E.icode \notin Opcodes \ {"INOP", "IHALT", "ILEAVE"} /\ E.stat # "BUB" /\ E.stat # "AOK"
  BY DecodedFields DEF Errors
<1>3. ~BadAddress
  BY <1>2 DEF BadAddress, MemOps, Opcodes
<1>4. /\ isa_pc = E.pc /\ isa_stat' = E.stat
      /\ isa_pc' = isa_pc /\ isa_reg' = isa_reg /\ isa_mem' = isa_mem /\ cc' = cc
  BY <1>2, <1>3, ExecuteStep DEF Opcodes
<1>5. spc = E.pc /\ sreg = isa_reg /\ smem = isa_mem /\ scc = cc
  BY <1>4 DEF SequentialInStep
<1>6. E.pc \in DOMAIN code => E.icode = code[E.pc].icode /\ E.icode # "ILEAVE"
  BY <1>1 DEF Fetched, Loadable, WellFormed
<1>7. E.pc \notin DOMAIN code => E.icode = "INOP" /\ E.stat = "ADR"
  BY <1>1 DEF Fetched
<1>8. S!icode = E.icode /\ (S!imem_error <=> E.pc \notin DOMAIN code)
  BY <1>5, <1>6, <1>7 DEF S!icode, S!imem_error
<1>9. ~S!dmem_error
  <2>1. E.icode # "ILEAVE"
    BY <1>6, <1>7
  <2> QED
    BY <1>2, <1>8, <2>1 DEF S!dmem_error, S!mem_read, S!mem_write, Opcodes
<1>10. S!Stat = E.stat
  <2>1. CASE E.pc \notin DOMAIN code
    BY <1>7, <1>8, <2>1 DEF S!Stat
  <2>2. CASE E.pc \in DOMAIN code /\ E.icode \notin Opcodes \ {"ILEAVE"}
    <3>1. E.stat = "INS"
      BY <1>1, <1>6, <2>2 DEF Fetched, Opcodes
    <3>2. ~S!instr_valid
      BY <1>6, <1>8, <2>2, SameSequential DEF S!instr_valid
    <3> QED
      BY <1>8, <1>9, <2>2, <3>1, <3>2 DEF S!Stat, Opcodes
  <2>3. CASE E.pc \in DOMAIN code /\ E.icode \in Opcodes \ {"ILEAVE"}
    <3>1. E.stat = "HLT" /\ E.icode = "IHALT"
      BY <1>1, <1>2, <2>3 DEF Fetched
    <3>2. S!instr_valid
      BY <1>8, <2>3, SameSequential DEF S!instr_valid
    <3> QED
      BY <1>8, <1>9, <2>3, <3>1, <3>2 DEF S!Stat
  <2> QED
    BY <2>1, <2>2, <2>3
<1>11. sstat' = isa_stat' /\ UNCHANGED <<spc, sreg, smem, scc>>
  BY <1>2, <1>4, <1>10 DEF S!sim_step
<1> QED
  BY <1>4, <1>5, <1>11 DEF SequentialInStep

\* What a state of the pipeline stands for does not change with the others.
LEMMA IsaUnchanged ==
  ASSUME UNCHANGED vars
  PROVE  UNCHANGED <<code, isa_pc, isa_reg, isa_mem, cc, isa_stat>> /\ (Live' <=> Live)
BY DEF vars, isa_pc, isa_reg, isa_mem, isa_stat, Live, m_stat, m_valM, dmem_error,
  mem_read, mem_write, mem_addr, f_pc

\* One step of the machines side by side, for the sequential processor.
LEMMA SequentialKept ==
  ASSUME Loadable, PipeInv, SequentialInStep, [MCNext]_<<vars, svars, yvars>>
  PROVE  SequentialInStep'
<1>1. CASE Cycle /\ Executes /\ S!sim_step
  <2>1. Live /\ E.stat # "BUB"
    BY <1>1, ExecutesLive
  <2> QED
    BY <1>1, <2>1, DecodedFields, SequentialExecutes, SequentialStops
<1>2. CASE Cycle /\ ~Executes /\ UNCHANGED svars
  <2>1. UNCHANGED <<isa_pc, isa_reg, isa_mem, cc, isa_stat>>
    BY <1>2, ExecutesLive, FaultStutters, BubbleStutters
  <2> QED
    BY <1>2, <2>1 DEF SequentialInStep, svars
<1>3. CASE UNCHANGED <<vars, svars, yvars>>
  BY <1>3, IsaUnchanged DEF SequentialInStep, svars
<1> QED
  BY <1>1, <1>2, <1>3 DEF MCNext

-----------------------------------------------------------------------------
(* The instruction simulator of the fourth laboratory. *)

\* It has the machine of the processor, but for its arithmetic and its test of
\* conditions.
LEMMA SameSimulator ==
  /\ \A x : Y!ToWord(x) = ToWord(x)
  /\ \A r, k : Y!get_reg_val(r, k) = get_reg_val(r, k)
  /\ \A r, k, x : Y!set_reg_val(r, k, x) = set_reg_val(r, k, x)
  /\ \A m, a, x : Y!set_word_val(m, a, x) = set_word_val(m, a, x)
  /\ \A r, i, x, j, y : Y!WriteBack(r, i, x, j, y) = WriteBack(r, i, x, j, y)
  /\ Y!Opcodes = Opcodes
BY DEF Y!ToWord, ToWord, Y!get_reg_val, get_reg_val, Y!set_word_val, set_word_val,
  Y!set_reg_val, set_reg_val, Y!WriteBack, WriteBack, Y!Opcodes, Opcodes

\* Its arithmetic is that of isa.c: the operands of a commutative operation may
\* be exchanged.
LEMMA SameAlu ==
  ASSUME NEW op \in {"ADD", "SUB", "AND", "XOR"}, NEW a \in Int, NEW b \in Int,
         op \in {"AND", "XOR"} => a \in Word /\ b \in Word
  PROVE  Y!sim_compute_alu(op, a, b) = compute_alu(op, a, b)
<1>1. CASE op = "ADD"
  BY <1>1, SameSimulator DEF Y!sim_compute_alu, compute_alu
<1>2. CASE op = "SUB"
  BY <1>2, SameSimulator DEF Y!sim_compute_alu, compute_alu
<1>3. CASE op = "AND"
  BY <1>3, CommutativeAssumption DEF Y!sim_compute_alu, compute_alu
<1>4. CASE op = "XOR"
  BY <1>4, CommutativeAssumption DEF Y!sim_compute_alu, compute_alu
<1> QED
  BY <1>1, <1>2, <1>3, <1>4

\* So are its codes, although isa.c asks of the overflow of a difference whether
\* the operand is positive and y86sim.c whether it is negative: for 0 the
\* difference is the other operand, and neither sees an overflow.
LEMMA SameCodes ==
  ASSUME NEW op \in {"ADD", "SUB", "AND", "XOR"}, NEW a \in Word, NEW b \in Word
  PROVE  Y!sim_compute_cc(op, a, b) = compute_cc(op, a, b)
<1> DEFINE val == compute_alu(op, a, b)
<1>1. a \in Int /\ b \in Int /\ val \in Word /\ val \in Int
  BY WordRange, AluRange
<1>2. Y!sim_compute_alu(op, a, b) = val
  BY <1>1, SameAlu
<1>3. op = "SUB" /\ a = 0 => val = b
  <2>1. b - 0 = b + 0
    BY <1>1
  <2> QED
    BY <2>1, WordRange DEF compute_alu
<1> HIDE DEF val
<1>4. op = "SUB" =>
        (((b < 0) # (a < 0) /\ (b < 0) # (val < 0)) <=> ((a > 0) = (b < 0) /\ (val < 0) # (b < 0)))
  BY <1>1, <1>3
<1>5. compute_cc(op, a, b) =
        [zf |-> val = 0, sf |-> val < 0,
         of |-> \/ op = "ADD" /\ (a < 0) = (b < 0) /\ (val < 0) # (a < 0)
                \/ op = "SUB" /\ (a > 0) = (b < 0) /\ (val < 0) # (b < 0)]
  BY DEF compute_cc, val
<1>6. Y!sim_compute_cc(op, a, b) =
        [zf |-> val = 0, sf |-> val < 0,
         of |-> \/ op = "ADD" /\ (a < 0) = (b < 0) /\ (val < 0) # (a < 0)
                \/ op = "SUB" /\ (b < 0) # (a < 0) /\ (b < 0) # (val < 0)]
  BY <1>2 DEF Y!sim_compute_cc
<1> QED
  BY <1>4, <1>5, <1>6

\* And its conditions.
LEMMA SameConditions ==
  ASSUME NEW c \in CC, NEW f
  PROVE  Y!cond_doit(c, f) <=> cond_holds(c, f)
<1>1. c.zf \in BOOLEAN /\ c.sf \in BOOLEAN /\ c.of \in BOOLEAN
  BY DEF CC
<1> QED
  BY <1>1 DEF Y!cond_doit, cond_holds

\* The simulator and isa.c, one step each from the same state: the result is the
\* same, but that a store of rmmovl outside of memory stops isa.c only, and
\* that iaddl stops the simulator only.
LEMMA SimulatorExecutes ==
  ASSUME Loadable, PipeInv, Cycle, Live, E.stat = "AOK", ystat = "AOK", SimulatorInStep, Y!nexti
  PROVE  SimulatorInStep'
<1> DEFINE i == code[E.pc]
<1>1. /\ isa_pc = E.pc /\ isa_stat = "AOK" /\ code' = code /\ E.pc \in DOMAIN code
      /\ WellFormed(i) /\ E.icode = i.icode /\ E.icode \in Opcodes \ {"IHALT", "ILEAVE"}
  BY ExecuteStep, InstructionInE
<1>2. I!At(E.icode) /\ I!instr = i /\ I!ftpc = ToWord(E.pc + 1)
  BY <1>1, Enabled
<1>3. I!step_state
  BY ExecuteMaps
<1>4. ypc = isa_pc /\ yreg = isa_reg /\ ymem = isa_mem /\ ycc = cc
  BY DEF SimulatorInStep
<1>5. /\ Y!instr = i /\ Y!next_pc = I!ftpc
      /\ Y!valA = I!R(i.rA) /\ Y!valB = I!R(i.rB) /\ Y!esp = I!R("esp")
  BY <1>1, <1>2, <1>4, SameMachine, SameSimulator
    DEF Y!instr, Y!next_pc, Y!valA, Y!valB, Y!esp, I!R
<1>6. /\ \A op : I!At(op) => op = E.icode
      /\ ~I!InvalidAddress /\ ~I!InvalidInstruction
  BY <1>1, <1>2, SameMachine DEF I!At, I!InvalidAddress, I!InvalidInstruction
<1>7. /\ \A op : Y!At(op) => op = E.icode
      /\ ~Y!InvalidAddress
      /\ Y!InvalidInstruction => E.icode = "IIADDL"
  BY <1>1, <1>4, <1>5, SameSimulator DEF Y!At, Y!InvalidAddress, Y!InvalidInstruction
<1>8. \A k : I!R(k) \in Word /\ I!R(k) \in Int
  BY RegisterStep, WordRange, SameMachine DEF I!R, get_reg_val
<1>9. i.valC \in Int /\ WordSize \in Int /\ -WordSize \in Int
  <2>1. i.valC \in Word
    BY <1>1 DEF WellFormed
  <2>2. WordSize \in Int /\ -WordSize \in Int
    BY WordSizeAssumption
  <2> HIDE DEF i
  <2> QED
    BY <2>1, <2>2, WordRange
<1>10. (isa_stat' = "AOK" /\ ystat' = "AOK"
          /\ ypc' = isa_pc' /\ yreg' = isa_reg' /\ ymem' = isa_mem' /\ ycc' = cc') => SimulatorInStep'
  BY DEF SimulatorInStep
<1>11. (isa_stat' # "AOK"
          /\ (ystat' = "AOK" \/ (ystat' = isa_stat' /\ ypc' = isa_pc' /\ ymem' = isa_mem'))) => SimulatorInStep'
  BY DEF SimulatorInStep, Live
<1> HIDE DEF i
<1>12. \A next : I!GoTo(next) => isa_pc' = next /\ isa_stat' = "AOK"
  BY <1>1 DEF I!GoTo
<1>13. I!Stop("ADR") => isa_stat' = "ADR" /\ isa_pc' = isa_pc /\ isa_mem' = isa_mem
  BY DEF I!Stop
<1>14. \A next : Y!GoTo(next) => ypc' = next /\ ystat' = "AOK"
  BY DEF Y!GoTo
<1>15. Y!Return("ADR") => ystat' = "ADR" /\ ypc' = ypc /\ ymem' = ymem
  BY DEF Y!Return
<1>16. /\ E.icode = "INOP" => I!Nop
       /\ E.icode = "IRRMOVL" => I!Rrmovl
       /\ E.icode = "IIRMOVL" => I!Irmovl
       /\ E.icode = "IRMMOVL" => I!Rmmovl
       /\ E.icode = "IMRMOVL" => I!Mrmovl
       /\ E.icode = "IOPL" => I!Opl
       /\ E.icode = "IIADDL" => I!Iaddl
       /\ E.icode = "IJXX" => I!Jxx
       /\ E.icode = "ICALL" => I!Call
       /\ E.icode = "IRET" => I!Ret
       /\ E.icode = "IPUSHL" => I!Pushl
       /\ E.icode = "IPOPL" => I!Popl
  BY <1>1, <1>3, <1>6 DEF I!step_state, I!Nop, I!Halt, I!Rrmovl, I!Irmovl, I!Rmmovl, I!Mrmovl,
    I!Opl, I!Iaddl, I!Jxx, I!Call, I!Ret, I!Pushl, I!Popl, I!Leave
<1>17. /\ E.icode = "INOP" => Y!Nop
       /\ E.icode = "IRRMOVL" => Y!Rrmovl
       /\ E.icode = "IIRMOVL" => Y!Irmovl
       /\ E.icode = "IRMMOVL" => Y!Rmmovl
       /\ E.icode = "IMRMOVL" => Y!Mrmovl
       /\ E.icode = "IOPL" => Y!Alu
       /\ E.icode = "IIADDL" => Y!InvalidInstruction
       /\ E.icode = "IJXX" => Y!Jmp
       /\ E.icode = "ICALL" => Y!Call
       /\ E.icode = "IRET" => Y!Ret
       /\ E.icode = "IPUSHL" => Y!Pushl
       /\ E.icode = "IPOPL" => Y!Popl
  BY <1>1, <1>7 DEF Y!nexti, Y!Nop, Y!Halt, Y!Rrmovl, Y!Irmovl, Y!Rmmovl, Y!Mrmovl,
    Y!Alu, Y!Jmp, Y!Call, Y!Ret, Y!Pushl, Y!Popl
<1>18. CASE E.icode = "INOP"
  BY <1>4, <1>5, <1>10, <1>12, <1>14, <1>16, <1>17, <1>18 DEF I!Nop, Y!Nop
<1>19. CASE E.icode \in {"IRRMOVL", "IIRMOVL"}
  <2>1. Y!cond_doit(ycc, i.ifun) <=> I!cond_holds(cc, i.ifun)
    BY <1>4, SameConditions, SameMachine DEF PipeInv, ValuesInv
  <2> QED
    BY <1>2, <1>4, <1>5, <1>10, <1>12, <1>14, <1>16, <1>17, <1>19, <2>1, SameMachine, SameSimulator
      DEF I!Rrmovl, Y!Rrmovl, I!Irmovl, Y!Irmovl
<1>20. CASE E.icode = "IJXX"
  <2>1. Y!cond_doit(ycc, i.ifun) <=> I!cond_holds(cc, i.ifun)
    BY <1>4, SameConditions, SameMachine DEF PipeInv, ValuesInv
  <2> QED
    BY <1>2, <1>4, <1>5, <1>10, <1>12, <1>14, <1>16, <1>17, <1>20, <2>1 DEF I!Jxx, Y!Jmp
<1>21. CASE E.icode = "IOPL"
  <2>1. i.ifun \in {"ADD", "SUB", "AND", "XOR"}
    BY <1>1, <1>21 DEF WellFormed
  <2>2. /\ Y!sim_compute_alu(i.ifun, I!R(i.rA), I!R(i.rB)) = I!compute_alu(i.ifun, I!R(i.rA), I!R(i.rB))
        /\ Y!sim_compute_cc(i.ifun, I!R(i.rA), I!R(i.rB)) = I!compute_cc(i.ifun, I!R(i.rA), I!R(i.rB))
    BY <1>8, <2>1, SameAlu, SameCodes, SameMachine
  <2> QED
    BY <1>2, <1>4, <1>5, <1>10, <1>12, <1>14, <1>16, <1>17, <1>21, <2>2, SameMachine, SameSimulator
      DEF I!Opl, I!Arithmetic, Y!Alu
<1>22. CASE E.icode = "IIADDL"
  <2>1. ystat' = "INS" /\ ypc' = ypc
    BY <1>17, <1>22 DEF Y!InvalidInstruction, Y!Return
  <2> QED
    BY <1>1, <1>4, <1>22, <2>1 DEF SimulatorInStep, i
<1>23. CASE E.icode \in {"IRMMOVL", "IMRMOVL"}
  <2>1. Y!valE = I!Target
    BY <1>2, <1>5, <1>8, <1>9, SameAlu, SameMachine DEF Y!valE, I!Target, compute_alu
  <2>2. CASE E.icode = "IRMMOVL"
    BY <1>4, <1>2, <1>5, <1>10, <1>11, <1>12, <1>13, <1>14, <1>16, <1>17, <2>1, <2>2, SameMachine, SameSimulator
      DEF I!Rmmovl, Y!Rmmovl
  <2>3. CASE E.icode = "IMRMOVL"
    BY <1>4, <1>2, <1>5, <1>10, <1>11, <1>12, <1>13, <1>14, <1>15, <1>16, <1>17, <2>1, <2>3, SameMachine, SameSimulator
      DEF I!Mrmovl, Y!Mrmovl
  <2> QED
    BY <1>23, <2>2, <2>3
<1>24. \A val, next : I!Push(val, next) /\ Y!Push(val, next) => SimulatorInStep'
  <2>1. Y!sim_compute_alu("ADD", -WordSize, Y!esp) = I!ToWord(-WordSize + I!R("esp"))
    BY <1>5, <1>8, <1>9, SameAlu, SameMachine DEF compute_alu
  <2> QED
    BY <1>4, <1>10, <1>11, <1>12, <1>13, <1>14, <1>15, <2>1, SameMachine, SameSimulator DEF I!Push, Y!Push
<1>25. CASE E.icode \in {"ICALL", "IPUSHL"}
  BY <1>2, <1>5, <1>16, <1>17, <1>24, <1>25 DEF I!Call, Y!Call, I!Pushl, Y!Pushl
<1>26. CASE E.icode \in {"IRET", "IPOPL"}
  <2>1. Y!sim_compute_alu("ADD", WordSize, Y!esp) = I!ToWord(WordSize + I!R("esp"))
    BY <1>5, <1>8, <1>9, SameAlu, SameMachine DEF compute_alu
  <2>2. CASE E.icode = "IRET"
    BY <1>4, <1>5, <1>10, <1>11, <1>12, <1>13, <1>14, <1>15, <1>16, <1>17, <2>1, <2>2, SameMachine, SameSimulator
      DEF I!Ret, Y!Ret
  <2>3. CASE E.icode = "IPOPL"
    BY <1>2, <1>4, <1>5, <1>10, <1>11, <1>12, <1>13, <1>14, <1>15, <1>16, <1>17, <2>1, <2>3, SameMachine, SameSimulator
      DEF I!Popl, I!Pop, Y!Popl, WriteBack
  <2> QED
    BY <1>26, <2>2, <2>3
<1> QED
  BY <1>1, <1>18, <1>19, <1>20, <1>21, <1>22, <1>23, <1>25, <1>26 DEF Opcodes

\* An instruction whose fetch failed stops the simulator for the same reason.
LEMMA SimulatorStops ==
  ASSUME Loadable, PipeInv, Cycle, Live, E.stat \in Errors, ystat = "AOK", SimulatorInStep, Y!nexti
  PROVE  SimulatorInStep'
<1> DEFINE d == Fetched(code, E.pc)
<1>1. E.stat = d.stat /\ E.icode = d.icode /\ code \in Programs
  BY DecodedFields DEF EDecoded, Errors, PipeInv
<1>2. E.icode \notin Opcodes \ {"INOP", "IHALT", "ILEAVE"} /\ E.stat # "BUB" /\ E.stat # "AOK"
  BY DecodedFields DEF Errors
<1>3. ~BadAddress
  BY <1>2 DEF BadAddress, MemOps, Opcodes
<1>4. /\ isa_pc = E.pc /\ isa_stat' = E.stat
      /\ isa_pc' = isa_pc /\ isa_mem' = isa_mem
  BY <1>2, <1>3, ExecuteStep DEF Opcodes
<1>5. ypc = E.pc /\ ymem = isa_mem
  BY <1>4 DEF SimulatorInStep
<1>6. E.pc \in DOMAIN code => E.icode = Y!instr.icode /\ E.icode # "ILEAVE"
  BY <1>1, <1>5 DEF Fetched, Loadable, WellFormed, Y!instr
<1>7. \A status : Y!Return(status) => ystat' = status /\ ypc' = ypc /\ ymem' = ymem
  BY DEF Y!Return
<1>8. ystat' = E.stat /\ ypc' = ypc /\ ymem' = ymem
  <2>1. CASE E.pc \notin DOMAIN code
    <3>1. E.stat = "ADR"
      BY <1>1, <2>1 DEF Fetched
    <3>2. \A op : ~Y!At(op)
      BY <1>5, <2>1 DEF Y!At
    <3>3. Y!InvalidAddress
      BY <1>5, <2>1, <3>2 DEF Y!nexti, Y!Nop, Y!Halt, Y!Rrmovl, Y!Irmovl, Y!Rmmovl, Y!Mrmovl,
        Y!Alu, Y!Jmp, Y!Call, Y!Ret, Y!Pushl, Y!Popl, Y!InvalidInstruction
    <3> QED
      BY <1>7, <3>1, <3>3 DEF Y!InvalidAddress
  <2>2. CASE E.pc \in DOMAIN code /\ E.icode \notin Opcodes \ {"ILEAVE"}
    <3>1. E.stat = "INS"
      BY <1>1, <1>6, <2>2 DEF Fetched, Opcodes
    <3>2. \A op : Y!At(op) => op \notin Opcodes
      BY <1>6, <2>2 DEF Y!At
    <3>3. Y!InvalidInstruction
      BY <1>5, <2>2, <3>2 DEF Y!nexti, Y!Nop, Y!Halt, Y!Rrmovl, Y!Irmovl, Y!Rmmovl, Y!Mrmovl,
        Y!Alu, Y!Jmp, Y!Call, Y!Ret, Y!Pushl, Y!Popl, Y!InvalidAddress, Opcodes
    <3> QED
      BY <1>7, <3>1, <3>3 DEF Y!InvalidInstruction
  <2>3. CASE E.pc \in DOMAIN code /\ E.icode \in Opcodes \ {"ILEAVE"}
    <3>1. E.stat = "HLT" /\ E.icode = "IHALT"
      BY <1>1, <1>2, <2>3 DEF Fetched
    <3>2. \A op : Y!At(op) => op = "IHALT"
      BY <1>6, <2>3, <3>1 DEF Y!At
    <3>3. Y!Halt
      BY <1>5, <1>6, <2>3, <3>1, <3>2, SameSimulator DEF Y!nexti, Y!Nop, Y!Rrmovl, Y!Irmovl, Y!Rmmovl, Y!Mrmovl,
        Y!Alu, Y!Jmp, Y!Call, Y!Ret, Y!Pushl, Y!Popl, Y!InvalidAddress, Y!InvalidInstruction
    <3> QED
      BY <1>7, <3>1, <3>3 DEF Y!Halt
  <2> QED
    BY <2>1, <2>2, <2>3
<1> QED
  BY <1>2, <1>4, <1>5, <1>8 DEF SimulatorInStep

\* One step of the machines side by side, for the simulator: once one of them
\* has stopped neither changes.
LEMMA SimulatorKept ==
  ASSUME Loadable, PipeInv, SimulatorInStep, [MCNext]_<<vars, svars, yvars>>
  PROVE  SimulatorInStep'
<1>1. CASE Cycle /\ Executes /\ ystat = "AOK" /\ Y!nexti
  <2>1. Live /\ E.stat # "BUB"
    BY <1>1, ExecutesLive
  <2> QED
    BY <1>1, <2>1, DecodedFields, SimulatorExecutes, SimulatorStops
<1>2. CASE Cycle /\ ~Executes /\ UNCHANGED yvars
  <2>1. UNCHANGED <<code, isa_pc, isa_reg, isa_mem, cc, isa_stat>>
    BY <1>2, ExecutesLive, FaultStutters, BubbleStutters
  <2>2. Live' <=> Live
    BY <2>1 DEF Live
  <2> QED
    BY <1>2, <2>1, <2>2 DEF SimulatorInStep, yvars
<1>3. CASE Cycle /\ Executes /\ ystat # "AOK" /\ UNCHANGED yvars
  <2>1. code' = code /\ Live
    BY <1>3, ExecutesLive DEF Cycle
  <2>2. ystat = "INS" /\ code[ypc].icode = "IIADDL"
    BY <1>3, <2>1 DEF SimulatorInStep, Live
  <2> QED
    BY <1>3, <2>1, <2>2 DEF SimulatorInStep, yvars
<1>4. CASE UNCHANGED <<vars, svars, yvars>>
  BY <1>4, IsaUnchanged DEF SimulatorInStep, yvars
<1> QED
  BY <1>1, <1>2, <1>3, <1>4 DEF MCNext

\* All three begin in the same state.
LEMMA SideBySide ==
  ASSUME Loadable, MCInit
  PROVE  PipeInv /\ SequentialInStep /\ SimulatorInStep
<1>1. Init /\ S!sim_reset(reg, mem) /\ Y!new_y86sim(reg, mem)
  BY DEF MCInit
<1>2. PipeInv /\ isa_stat = "AOK" /\ isa_pc = 0 /\ cc = DEFAULT_CC
  BY <1>1, EmptyPipeline
<1>3. isa_reg = reg /\ isa_mem = mem
  <2>1. /\ W.stat = "BUB" /\ {W.dstE, W.dstM, M.dstE, M.dstM} = {"none"} /\ M.icode = "INOP"
    BY <1>1 DEF Init, Empty, bubble_mem_wb, bubble_ex_mem
  <2>2. ~mem_write /\ W.stat \notin Errors
    BY <2>1 DEF mem_write, Errors
  <2> QED
    BY <1>2, <2>1, <2>2, WriteBackOne DEF isa_reg, isa_mem, Live, PipeInv, ValuesInv
<1>4. scc = cc /\ ycc = cc
  BY <1>1, <1>2 DEF S!sim_reset, Y!new_y86sim, S!DEFAULT_CC, Y!DEFAULT_CC, DEFAULT_CC
<1> QED
  BY <1>1, <1>2, <1>3, <1>4 DEF S!sim_reset, Y!new_y86sim, SequentialInStep, SimulatorInStep

-----------------------------------------------------------------------------
\* At every cycle of every loadable program the pipeline has executed what the
\* sequential processor has executed in as many instructions: its stalls, bubbles
\* and forwarding are invisible, faults included (pipe-full.hcl, seq-full.hcl).
THEOREM SequentialAgrees ==
  ASSUME Loadable
  PROVE  MCSpec => []SequentialInStep
<1>1. MCInit => PipeInv /\ SequentialInStep
  BY SideBySide
<1>2. PipeInv /\ SequentialInStep /\ [MCNext]_<<vars, svars, yvars>> => (PipeInv /\ SequentialInStep)'
  <2>1. [MCNext]_<<vars, svars, yvars>> => [Cycle]_vars
    BY DEF MCNext
  <2> QED
    BY <2>1, InvariantKept, SequentialKept
<1> QED
  BY <1>1, <1>2, PTL DEF MCSpec

\* The simulator of the fourth laboratory agrees with the pipeline until one of
\* them stops, and stops for the same reason or at an iaddl, although it tests
\* for overflow otherwise and does not report a store outside of memory
\* (y86sim.c nexti).
THEOREM SimulatorAgrees ==
  ASSUME Loadable
  PROVE  MCSpec => []SimulatorInStep
<1>1. MCInit => PipeInv /\ SimulatorInStep
  BY SideBySide
<1>2. PipeInv /\ SimulatorInStep /\ [MCNext]_<<vars, svars, yvars>> => (PipeInv /\ SimulatorInStep)'
  <2>1. [MCNext]_<<vars, svars, yvars>> => [Cycle]_vars
    BY DEF MCNext
  <2> QED
    BY <2>1, InvariantKept, SimulatorKept
<1> QED
  BY <1>1, <1>2, PTL DEF MCSpec
=============================================================================
