--------------------------- MODULE InOrderMachine ---------------------------
(***************************************************************************)
(* The architecture the core implements: one instruction after another, in *)
(* program order.  A value is a term that records the instruction that     *)
(* computed it and the values it read, so two machines agree on a value    *)
(* only if they agree on everything that flowed into it.                   *)
(*                                                                         *)
(* An instruction of a program is a record:                                *)
(*   op    "alu", "mul", "div"   rd := f(rs1, rs2)                         *)
(*         "br"                  control transfer; rd is the link register *)
(*         "csr", "ser"          rd := CSR; CSR := f(rs1)                  *)
(*         "exc", "flt"          traps, at decode or when it executes      *)
(*         "mret", "fencei"                                                *)
(*   rd, rs1, rs2   registers or NoReg                                     *)
(*   next           where a "br" goes                                      *)
(***************************************************************************)
EXTENDS Integers, Sequences

CONSTANTS Reg, NoReg

VARIABLES prog,     \* [code, handler], chosen once
          pc, regs, csr, epc

archVars == <<prog, pc, regs, csr, epc>>

Code(p) == prog.code[p]
PC == DOMAIN prog.code

Read(r, rf) == IF r = NoReg THEN <<>> ELSE rf[r]
Term(p, v1, v2) == <<p, v1, v2>>

Written(rf, r, v) == [q \in DOMAIN rf |-> IF q = r THEN v ELSE rf[q]]

NextPc(p) == IF Code(p).op = "br" THEN Code(p).next ELSE p + 1

\* The state after the instruction at s.pc.
Exec(s) ==
  LET i  == Code(s.pc)
      v1 == Read(i.rs1, s.regs)
      v2 == Read(i.rs2, s.regs)
  IN  CASE i.op \in {"exc", "flt"} -> [s EXCEPT !.pc = prog.handler, !.epc = s.pc]
        [] i.op = "mret" -> [s EXCEPT !.pc = s.epc]
        [] i.op \in {"csr", "ser"} ->
             [s EXCEPT !.pc = @ + 1, !.regs = Written(@, i.rd, s.csr),
                       !.csr = Term(s.pc, v1, <<>>)]
        [] i.op = "br" ->
             [s EXCEPT !.pc = NextPc(@), !.regs = Written(@, i.rd, Term(s.pc, <<>>, <<>>))]
        [] OTHER ->
             [s EXCEPT !.pc = @ + 1, !.regs = Written(@, i.rd, Term(s.pc, v1, v2))]

State == [pc |-> pc, regs |-> regs, csr |-> csr, epc |-> epc]

Becomes(s) ==
  /\ pc' = s.pc /\ regs' = s.regs /\ csr' = s.csr /\ epc' = s.epc
  /\ UNCHANGED prog

Init ==
  /\ pc = 1 /\ epc = 0
  /\ regs = [r \in Reg |-> <<0, r>>]
  /\ csr = <<0, 0>>

\* One instruction, or two when a cycle commits two.
StepOne == pc \in PC /\ Becomes(Exec(State))

StepTwo ==
  /\ pc \in PC
  /\ LET s == Exec(State) IN s.pc \in PC /\ Becomes(Exec(s))

\* An interrupt is taken between two instructions.
Interrupt ==
  /\ pc \in PC
  /\ Becomes([State EXCEPT !.pc = prog.handler, !.epc = pc])

Next == StepOne \/ StepTwo \/ Interrupt

Spec == Init /\ [][Next]_archVars

=============================================================================
