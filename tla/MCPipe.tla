------------------------------- MODULE MCPipe -------------------------------
(***************************************************************************)
(* The same program on the pipeline, on the sequential processor and on    *)
(* the instruction simulator.  Whenever an instruction of the pipeline is   *)
(* executed the other two take a step, as psim -t and ssim -t compare a     *)
(* processor with the instruction set after the run.                       *)
(***************************************************************************)
EXTENDS Pipe, TLC, FiniteSetsExt

VARIABLES
  spc, sreg, smem, scc, sstat,   \* the sequential processor
  ypc, yreg, ymem, ycc, ystat    \* the instruction simulator

svars == <<spc, sreg, smem, scc, sstat>>
yvars == <<ypc, yreg, ymem, ycc, ystat>>

S == INSTANCE Seq WITH pc <- spc, reg <- sreg, mem <- smem, cc <- scc, stat <- sstat
Y == INSTANCE Y86Sim WITH pc <- ypc, reg <- yreg, mem <- ymem, cc <- ycc, stat <- ystat

MCInit == Init /\ S!sim_reset(reg, mem) /\ Y!new_y86sim(reg, mem)

\* An instruction enters M.
Executes == E.stat # "BUB" /\ ~M_bubble

MCNext ==
  /\ Cycle
  /\ IF Executes THEN S!sim_step ELSE UNCHANGED svars
  /\ IF Executes /\ ystat = "AOK" THEN Y!nexti ELSE UNCHANGED yvars

MCSpec == MCInit /\ [][MCNext]_<<vars, svars, yvars>> /\ WF_<<vars, svars, yvars>>(MCNext)
-----------------------------------------------------------------------------
\* What the pipeline, with all its stalls, bubbles and forwarding, has
\* executed is at every cycle what the sequential processor has executed in
\* as many instructions: same registers, memory, codes, next address and
\* status, also when an instruction fails behind or ahead of others
\* (pipe-full.hcl against seq-full.hcl).
SequentialInStep ==
  /\ sstat = isa_stat
  /\ spc = isa_pc /\ sreg = isa_reg /\ smem = isa_mem /\ scc = cc

\* The simulator of the fourth laboratory, written on its own with another
\* test for overflow and another order of its writes, agrees with the
\* pipeline until one of them stops; it stops for no other reason than the
\* pipeline but that it lacks iaddl, and with the same memory.  Its stack
\* pointer may differ then: call and pushl move it first (y86sim.c nexti).
SimulatorInStep ==
  /\ ystat = "AOK" /\ Live =>
       ypc = isa_pc /\ yreg = isa_reg /\ ymem = isa_mem /\ ycc = cc
  /\ ystat # "AOK" =>
       \/ isa_stat = ystat /\ ypc = isa_pc /\ ymem = isa_mem
       \/ ystat = "INS" /\ code[ypc].icode = "IIADDL"

\* As long as there is an instruction to execute, the pipeline comes to
\* execute it: stalls and bubbles end, whatever hazards meet (pipe-full.hcl).
StallsEnd == I!Progress
-----------------------------------------------------------------------------
\* Words of three bits.
Bit(x, i) == (x \div (2 ^ i)) % 2
AndTable == [p \in (-4..3) \X (-4..3) |->
  ToWord(MapThenSumSet(LAMBDA i : 2 ^ i * Bit(p[1], i) * Bit(p[2], i), 0..2))]
XorTable == [p \in (-4..3) \X (-4..3) |->
  ToWord(MapThenSumSet(LAMBDA i : 2 ^ i * ((Bit(p[1], i) + Bit(p[2], i)) % 2), 0..2))]

\* Two cells of data, as the object file fills them.
Data == {0 :> 1 @@ 1 :> 3}

Ins(op, fun, a, b, c) == [icode |-> op, ifun |-> fun, rA |-> a, rB |-> b, valC |-> c]
Plain(op) == Ins(op, "YES", "none", "none", 0)

Few ==
  {Plain("IHALT"), Plain("IRET"),
   Ins("IOPL", "SUB", "esp", "eax", 0),
   Ins("IRMMOVL", "YES", "eax", "esp", 0),
   Ins("IPOPL", "YES", "esp", "none", 0),
   Ins("IPUSHL", "YES", "esp", "none", 0),
   Ins("IRRMOVL", "LE", "eax", "esp", 0)}
Many == Few \cup
  {Plain("INOP"), Plain("IBAD"),
   Ins("IRRMOVL", "YES", "esp", "eax", 0),
   Ins("IIRMOVL", "YES", "none", "eax", 1),
   Ins("IIRMOVL", "YES", "none", "esp", 2),
   Ins("IMRMOVL", "YES", "eax", "esp", 0),
   Ins("IMRMOVL", "YES", "esp", "eax", 0),
   Ins("IOPL", "XOR", "eax", "eax", 0),
   Ins("IOPL", "AND", "esp", "eax", 0),
   Ins("IOPL", "ADD", "eax", "esp", 0),
   Ins("IIADDL", "YES", "none", "eax", 2),
   Ins("IJXX", "YES", "none", "none", 3),
   Ins("IJXX", "NE", "none", "none", 0),
   Ins("IJXX", "GE", "none", "none", 3),
   Ins("ICALL", "YES", "none", "none", 2),
   Ins("IPUSHL", "YES", "eax", "none", 0),
   Ins("IPOPL", "YES", "eax", "none", 0)}

Last == {Plain("IHALT"), Plain("IRET"), Ins("IOPL", "SUB", "esp", "eax", 0),
         Ins("IPOPL", "YES", "esp", "none", 0)}

FourLines ==
  {(0 :> i[1] @@ 1 :> i[2] @@ 2 :> i[3] @@ 3 :> i[4]) : i \in Many \X Many \X Few \X Last}

\* Addresses without a base register.
Absolute ==
  {(0 :> first @@ 1 :> Ins("IMRMOVL", "YES", "eax", "none", 0) @@ 2 :> Plain("IHALT")) :
     first \in {Ins("IRMMOVL", "YES", "eax", "esp", 0), Plain("INOP"), Ins("IRRMOVL", "YES", "eax", "esp", 0)}}

MCStarts == {"eax" :> 2 @@ "esp" :> 1}
=============================================================================
