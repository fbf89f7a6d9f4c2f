--------------------------- MODULE InterruptsProof ---------------------------
(***************************************************************************)
(* The interrupt path, for every vector, register value, ring and nesting: *)
(* what a handler finds on its stack, what its iret gives back, and which  *)
(* lines are in service meanwhile.                                         *)
(*                                                                         *)
(* The stack is described level by level: of each handler under way, given *)
(* the instruction it is at, what it has pushed above the frame of what it *)
(* interrupted.                                                            *)
(***************************************************************************)
EXTENDS Interrupts, SequenceTheorems, TLAPS

-----------------------------------------------------------------------------
(* What the stacks hold *)

Regs == {"eip", "cs", "eflags", "esp", "ss", "err", "nr", "eax", "gpr", "ebp"}
Labels == {"code", "idt_trampoline", "ack_pic1", "ack_pic2", "eoi_pic1", "idt_common",
           "intr_hdlr", "panic", "resume_from_intr", "iret", "bp_handler", "bp_body",
           "bp_leave", "syscall_isr", "syscall_handler", "syscall_end"}
Values == Int \cup (Labels \X Int)
Words == [reg : Regs, val : Values]
Cpus == [eip : Labels \X Int, cs : {0, 3}, flags : {0, 1}, gpr : Nat]
Contexts == [cpu : Cpus, stack : Seq(Words)]
Events == [nr : 0 .. 255, err : Int]

\* The words that the processor pushed before the frame
Codes(e) == IF e.err = -1 THEN << >> ELSE <<Word("err", e.err)>>
HasCode(e) == e.err # -1 <=> e.nr \in ErrorCodes

\* Above the frame, after the trampoline
Vectored(e, i) == <<Word("nr", e.nr), Word("err", e.err)>> \o Frame(i)

\* At an instruction, the handler of e that interrupted i has this on its stack:
InTrampoline(c, e, i) ==
    /\ c.cpu.eip = <<"idt_trampoline", e.nr>>
    /\ c.stack = Codes(e) \o Frame(i) /\ c.cpu.gpr = i.cpu.gpr
Entered(c, e, i) ==
    /\ c.cpu.eip \in {<<"bp_handler", e.nr>>, <<"syscall_isr", e.nr>>, At("iret")}
    /\ c.stack = Frame(i) /\ c.cpu.gpr = i.cpu.gpr
Stubbed(c, e, i) ==
    /\ c.cpu.eip \in {At("ack_pic1"), At("ack_pic2"), At("idt_common")}
    /\ c.stack = Vectored(e, i) /\ c.cpu.gpr = i.cpu.gpr
    /\ e.nr \notin Reserved
Acknowledging(c, e, i) ==
    /\ c.cpu.eip = At("eoi_pic1")
    /\ c.stack = <<Word("eax", i.cpu.gpr)>> \o Vectored(e, i)
    /\ e.nr \notin Reserved
Handling(c, e, i) ==
    /\ c.cpu.eip \in {At("intr_hdlr"), At("resume_from_intr"), At("panic")}
    /\ c.stack = <<Word("gpr", i.cpu.gpr)>> \o Vectored(e, i)
    /\ e.nr \notin Reserved
Calling(c, e, i) ==
    /\ c.cpu.eip \in {At("syscall_handler"), At("syscall_end")}
    /\ c.stack = <<Word("gpr", i.cpu.gpr)>> \o Frame(i)
InBody(c, e, i) ==
    /\ c.cpu.eip = At("bp_body")
    /\ c.stack = <<Word("gpr", i.cpu.gpr), Word("ebp", i.cpu.gpr)>> \o Frame(i)
Leaving(c, e, i) ==
    /\ c.cpu.eip = At("bp_leave")
    /\ c.stack = <<Word("ebp", i.cpu.gpr)>> \o Frame(i) /\ c.cpu.gpr = i.cpu.gpr

Shape(c, e, i) ==
    /\ HasCode(e) /\ c.cpu.cs = 0
    /\ \/ InTrampoline(c, e, i) \/ Entered(c, e, i) \/ Stubbed(c, e, i)
       \/ Acknowledging(c, e, i) \/ Handling(c, e, i) \/ Calling(c, e, i)
       \/ InBody(c, e, i) \/ Leaving(c, e, i)

\* The code that is interrupted: in ring 3 the kernel's stack is empty
Runs(c) ==
    /\ c.cpu.eip \in {Code(0), Code(1)}
    /\ c.cpu.cs = 3 => c.stack = << >>

now == [cpu |-> cpu, stack |-> stack]

Types ==
    /\ cpu \in Cpus /\ stack \in Seq(Words)
    /\ cpu.gpr \in Gpr \cup {0}
    /\ event \in Seq(Events) /\ interrupted \in Seq(Contexts)
    /\ Len(event) = Len(interrupted)
    /\ \A k \in 1 .. Len(interrupted) : interrupted[k].cpu.gpr \in Gpr \cup {0}
    /\ idt \in {[v \in {} |-> ""], [v \in {3} |-> "bp_handler"],
                [v \in {48} |-> "syscall_isr"]}

StackInv ==
    /\ Types
    /\ Len(interrupted) = 0 => Runs(now)
    /\ Len(interrupted) > 0 =>
          /\ Shape(now, event[1], interrupted[1])
          /\ Runs(interrupted[Len(interrupted)])
    /\ \A k \in 1 .. Len(interrupted) - 1 :
          Shape(interrupted[k], event[k + 1], interrupted[k + 1])

-----------------------------------------------------------------------------
(* Sequences that grow and shrink at the front *)

\* One in front.
LEMMA Cons ==
  ASSUME NEW S, NEW s \in Seq(S), NEW x \in S
  PROVE  /\ <<x>> \o s \in Seq(S) /\ Len(<<x>> \o s) = Len(s) + 1 /\ Len(s) \in Nat
         /\ (<<x>> \o s)[1] = x
         /\ \A k \in 1 .. Len(s) : (<<x>> \o s)[k + 1] = s[k]
         /\ SubSeq(<<x>> \o s, 2, Len(<<x>> \o s)) = s
  BY SMT

\* Two in front.
LEMMA Cons2 ==
  ASSUME NEW S, NEW s \in Seq(S), NEW x \in S, NEW y \in S
  PROVE  /\ <<x, y>> \o s \in Seq(S) /\ Len(<<x, y>> \o s) >= 2
         /\ (<<x, y>> \o s)[1] = x /\ (<<x, y>> \o s)[2] = y
         /\ <<x>> \o (<<y>> \o s) = <<x, y>> \o s
         /\ SubSeq(<<x, y>> \o s, 2, Len(<<x, y>> \o s)) = <<y>> \o s
<1> DEFINE l == <<x>> \o (<<y>> \o s)
           r == <<x, y>> \o s
<1>1. <<x, y>> \in Seq(S) /\ Len(<<x, y>>) = 2 /\ <<y>> \o s \in Seq(S)
  BY SMT
<1>2. /\ r \in Seq(S) /\ Len(r) = 2 + Len(s) /\ Len(s) \in Nat
      /\ r[1] = x /\ r[2] = y /\ \A k \in 1 .. Len(s) : r[k + 2] = s[k]
  BY SMT
<1>3. /\ l \in Seq(S) /\ Len(l) = 2 + Len(s)
      /\ l[1] = x /\ l[2] = y /\ \A k \in 1 .. Len(s) : l[k + 2] = s[k]
  BY SMT
<1>4. \A k \in 1 .. Len(l) : l[k] = r[k]
  <2> HIDE DEF l, r
  <2> SUFFICES ASSUME NEW k \in 1 .. Len(l) PROVE l[k] = r[k]
    OBVIOUS
  <2>1. k = 1 \/ k = 2 \/ ((k - 2) \in 1 .. Len(s) /\ k = (k - 2) + 2)
    BY <1>2, <1>3, SMT
  <2> QED
    BY <1>2, <1>3, <2>1
<1>5. l = r
  <2> HIDE DEF l, r
  <2> QED
    BY <1>2, <1>3, <1>4, SeqEqual
<1>6. SubSeq(l, 2, Len(l)) = <<y>> \o s
  BY <1>1, Cons
<1> QED
  BY <1>2, <1>5, <1>6, SMT

\* Three in front.
LEMMA Cons3 ==
  ASSUME NEW S, NEW s \in Seq(S), NEW x \in S, NEW y \in S, NEW z \in S
  PROVE  /\ <<x, y, z>> \o s \in Seq(S) /\ Len(<<x, y, z>> \o s) >= 3
         /\ (<<x, y, z>> \o s)[1] = x /\ (<<x, y, z>> \o s)[2] = y
         /\ (<<x, y, z>> \o s)[3] = z
         /\ <<x, y, z>> \o s = <<x>> \o (<<y, z>> \o s)
         /\ SubSeq(<<x, y, z>> \o s, 4, Len(<<x, y, z>> \o s)) = s
<1> DEFINE l == <<x>> \o (<<y, z>> \o s)
           r == <<x, y, z>> \o s
<1>2. /\ r \in Seq(S) /\ Len(r) = 3 + Len(s) /\ Len(s) \in Nat
      /\ r[1] = x /\ r[2] = y /\ r[3] = z /\ \A k \in 1 .. Len(s) : r[k + 3] = s[k]
      /\ SubSeq(r, 4, Len(r)) = s
  BY SMT
<1>3. /\ l \in Seq(S) /\ Len(l) = 3 + Len(s)
      /\ l[1] = x /\ l[2] = y /\ l[3] = z /\ \A k \in 1 .. Len(s) : l[k + 3] = s[k]
  BY SMT
<1>4. \A k \in 1 .. Len(l) : l[k] = r[k]
  <2> HIDE DEF l, r
  <2> SUFFICES ASSUME NEW k \in 1 .. Len(l) PROVE l[k] = r[k]
    OBVIOUS
  <2>1. k = 1 \/ k = 2 \/ k = 3 \/ ((k - 3) \in 1 .. Len(s) /\ k = (k - 3) + 3)
    BY <1>2, <1>3, SMT
  <2> QED
    BY <1>2, <1>3, <2>1
<1>5. l = r
  <2> HIDE DEF l, r
  <2> QED
    BY <1>2, <1>3, <1>4, SeqEqual
<1> QED
  BY <1>2, <1>5, SMT

\* Taking the first away.
LEMMA Uncons ==
  ASSUME NEW S, NEW s \in Seq(S), Len(s) > 0
  PROVE  /\ Tail(s) \in Seq(S) /\ Len(Tail(s)) = Len(s) - 1 /\ Len(s) \in Nat
         /\ Head(s) = s[1] /\ s[1] \in S
         /\ \A k \in 1 .. Len(s) - 1 : Tail(s)[k] = s[k + 1] /\ s[k] \in S /\ s[k + 1] \in S
  BY SMT

\* Five in front.
LEMMA PrefixOf ==
  ASSUME NEW S, NEW s \in Seq(S), NEW p \in Seq(S), Len(p) = 5
  PROVE  /\ p \o s \in Seq(S) /\ Len(p \o s) = 5 + Len(s) /\ Len(s) \in Nat
         /\ (p \o s)[1] = p[1] /\ (p \o s)[2] = p[2] /\ (p \o s)[3] = p[3]
         /\ SubSeq(p \o s, 6, Len(p \o s)) = s
<1> DEFINE t == p \o s
           n == Len(s)
           u == SubSeq(t, 6, Len(t))
<1>1. n \in Nat
  BY LenProperties
<1>2. /\ t \in Seq(S) /\ Len(t) = Len(p) + Len(s)
      /\ \A i \in 1 .. Len(p) + Len(s) : t[i] = IF i <= Len(p) THEN p[i] ELSE s[i - Len(p)]
  BY ConcatProperties
<1>3. /\ t \in Seq(S) /\ Len(t) = 5 + n
      /\ \A i \in 1 .. 5 + n : t[i] = IF i <= 5 THEN p[i] ELSE s[i - 5]
  BY <1>2
<1> HIDE DEF t, n
<1>4. t[1] = p[1] /\ t[2] = p[2] /\ t[3] = p[3]
  BY <1>1, <1>3, SMT
<1>5. ASSUME NEW i \in 1 .. n PROVE t[6 + i - 1] = s[i]
  <2>1. 6 + i - 1 \in 1 .. 5 + n /\ ~(6 + i - 1 <= 5) /\ (6 + i - 1) - 5 = i
    BY <1>1, SMT
  <2> QED
    BY <1>3, <2>1
<1>6. \A i \in 6 .. Len(t) : t[i] \in S
  BY <1>3, ElementOfSeq, SMT
<1>7. u \in Seq(S) /\ Len(u) = n /\ \A i \in 1 .. n : u[i] = t[6 + i - 1]
  BY <1>1, <1>3, <1>6, SubSeqProperties, SMT
<1> HIDE DEF u
<1>8. u = s
  <2>1. \A i \in 1 .. Len(s) : u[i] = s[i]
    BY <1>5, <1>7 DEF n
  <2> QED
    BY <1>7, <2>1, SeqEqual DEF n
<1> QED
  BY <1>1, <1>3, <1>4, <1>8 DEF t, n, u

-----------------------------------------------------------------------------
(* The frame of what is interrupted *)

\* The words of the stack.
LEMMA WordType ==
  ASSUME NEW v \in Values
  PROVE  /\ Word("eip", v) \in Words
         /\ Word("cs", v) \in Words
         /\ Word("eflags", v) \in Words
         /\ Word("esp", v) \in Words
         /\ Word("ss", v) \in Words
         /\ Word("err", v) \in Words
         /\ Word("nr", v) \in Words
         /\ Word("eax", v) \in Words
         /\ Word("gpr", v) \in Words
         /\ Word("ebp", v) \in Words
<1>1. Word("eip", v) \in Words
  BY DEF Word, Words, Regs
<1>2. Word("cs", v) \in Words
  BY DEF Word, Words, Regs
<1>3. Word("eflags", v) \in Words
  BY DEF Word, Words, Regs
<1>4. Word("esp", v) \in Words
  BY DEF Word, Words, Regs
<1>5. Word("ss", v) \in Words
  BY DEF Word, Words, Regs
<1>6. Word("err", v) \in Words
  BY DEF Word, Words, Regs
<1>7. Word("nr", v) \in Words
  BY DEF Word, Words, Regs
<1>8. Word("eax", v) \in Words
  BY DEF Word, Words, Regs
<1>9. Word("gpr", v) \in Words
  BY DEF Word, Words, Regs
<1>10. Word("ebp", v) \in Words
  BY DEF Word, Words, Regs
<1> QED
  BY <1>1, <1>2, <1>3, <1>4, <1>5, <1>6, <1>7, <1>8, <1>9, <1>10

\* The words of a frame, the stack below it, and what is above.
LEMMA FrameOf ==
  ASSUME NEW i \in Contexts
  PROVE  /\ Frame(i) \in Seq(Words) /\ Len(Frame(i)) >= 3
         /\ Frame(i)[1] = Word("eip", i.cpu.eip) /\ Frame(i)[2] = Word("cs", i.cpu.cs)
         /\ Frame(i)[3] = Word("eflags", i.cpu.flags)
         /\ SubSeq(Frame(i), (IF i.cpu.cs = 3 THEN 5 ELSE 3) + 1, Len(Frame(i))) = i.stack
<1> DEFINE a == Word("eip", i.cpu.eip)
           b == Word("cs", i.cpu.cs)
           c == Word("eflags", i.cpu.flags)
           x == Word("esp", 3)
           y == Word("ss", 3)
           s == i.stack
<1>1. /\ a \in Words /\ b \in Words /\ c \in Words /\ x \in Words /\ y \in Words
      /\ s \in Seq(Words)
  <2>1. i.cpu \in Cpus /\ s \in Seq(Words)
    BY DEF Contexts
  <2>2. i.cpu.eip \in Values /\ i.cpu.cs \in Values /\ i.cpu.flags \in Values /\ 3 \in Values
    BY <2>1 DEF Cpus, Values
  <2> QED
    BY <2>1, <2>2, WordType
<1>2. Frame(i) = <<a, b, c>> \o (IF i.cpu.cs = 3 THEN <<x, y>> ELSE << >>) \o s
  BY DEF Frame
<1> HIDE DEF a, b, c, x, y, s
<1>3. CASE i.cpu.cs # 3
  <2>1. <<a, b, c>> \o << >> = <<a, b, c>>
    <3>1. <<a, b, c>> \in Seq(Words)
      BY <1>1, SMT
    <3> QED
      BY <3>1, ConcatEmptySeq
  <2>2. Frame(i) = <<a, b, c>> \o s
    BY <1>2, <1>3, <2>1
  <2> QED
    BY <1>1, <1>3, <2>2, Cons3 DEF a, b, c, s
<1>4. CASE i.cpu.cs = 3
  <2> DEFINE p == <<a, b, c>> \o <<x, y>>
  <2>1. /\ p \in Seq(Words) /\ Len(p) = 5 /\ p[1] = a /\ p[2] = b /\ p[3] = c
    BY <1>1, SMT
  <2>2. Frame(i) = p \o s
    BY <1>2, <1>4
  <2> HIDE DEF p
  <2>3. /\ p \o s \in Seq(Words) /\ Len(p \o s) = 5 + Len(s) /\ Len(s) \in Nat
        /\ (p \o s)[1] = p[1] /\ (p \o s)[2] = p[2] /\ (p \o s)[3] = p[3]
    BY <1>1, <2>1, PrefixOf
  <2>4. SubSeq(p \o s, 6, Len(p \o s)) = s
    BY <1>1, <2>1, PrefixOf
  <2> QED
    BY <1>4, <2>1, <2>2, <2>3, <2>4, SMT DEF a, b, c, s
<1> QED
  BY <1>3, <1>4

\* Stacks of words.
LEMMA Associative ==
  ASSUME NEW x \in Seq(Words), NEW y \in Seq(Words), NEW z \in Seq(Words)
  PROVE  (x \o y) \o z = x \o (y \o z)
  BY ConcatAssociative

\* What the processor pushes is the frame of what it interrupts.
LEMMA Delivered ==
  ASSUME cpu \in Cpus, stack \in Seq(Words), cpu.cs = 3 => stack = << >>,
         NEW v \in 0 .. 255, NEW eip \in Labels \X Int,
         NEW codes \in Seq(Words),
         Deliver(v, codes, eip)
  PROVE  LET i == [cpu |-> [cpu EXCEPT !.eip = eip], stack |-> stack]
         IN  i \in Contexts /\ stack' = codes \o Frame(i)
<1> DEFINE i == [cpu |-> [cpu EXCEPT !.eip = eip], stack |-> stack]
           f == <<Word("eip", eip), Word("cs", cpu.cs), Word("eflags", cpu.flags)>>
           u == <<Word("esp", 3), Word("ss", 3)>>
<1>1. i \in Contexts /\ i.cpu.eip = eip /\ i.cpu.cs = cpu.cs /\ i.cpu.flags = cpu.flags
      /\ i.stack = stack
  BY DEF Contexts, Cpus
<1>2. f \in Seq(Words) /\ u \in Seq(Words)
  <2>1. cpu.cs \in Values /\ cpu.flags \in Values /\ eip \in Values /\ 3 \in Values
    BY DEF Cpus, Values
  <2>2. /\ Word("eip", eip) \in Words /\ Word("cs", cpu.cs) \in Words
        /\ Word("eflags", cpu.flags) \in Words
        /\ Word("esp", 3) \in Words /\ Word("ss", 3) \in Words
    BY <2>1, WordType
  <2> QED
    BY <2>2, SMT
<1>3. stack' = codes \o f \o (IF cpu.cs = 3 THEN u ELSE stack)
  BY DEF Deliver
<1>4. Frame(i) = f \o (IF cpu.cs = 3 THEN u ELSE << >>) \o stack
  BY <1>1 DEF Frame
<1> HIDE DEF f, u, i
<1>5. CASE cpu.cs = 3
  <2>1. Frame(i) = f \o u /\ f \o u \in Seq(Words)
    BY <1>2, <1>4, <1>5, ConcatProperties, ConcatEmptySeq
  <2>2. stack' = codes \o (f \o u)
    <3>1. stack' = (codes \o f) \o u
      BY <1>3, <1>5
    <3>2. (codes \o f) \o u = codes \o (f \o u)
      BY <1>2, Associative
    <3> QED
      BY <3>1, <3>2
  <2> QED
    BY <1>1, <2>1, <2>2 DEF i
<1>6. CASE cpu.cs # 3
  <2>1. Frame(i) = f \o stack
    BY <1>2, <1>4, <1>6, ConcatEmptySeq
  <2>2. stack' = codes \o (f \o stack)
    <3>1. stack' = (codes \o f) \o stack
      BY <1>3, <1>6
    <3>2. (codes \o f) \o stack = codes \o (f \o stack)
      BY <1>2, Associative
    <3> QED
      BY <3>1, <3>2
  <2> QED
    BY <1>1, <2>1, <2>2 DEF i
<1> QED
  BY <1>5, <1>6

-----------------------------------------------------------------------------
(* The levels of the stack *)

e1 == event[1]
i1 == interrupted[1]

\* The types of the newest level.
LEMMA Top ==
  ASSUME Types, Len(interrupted) > 0
  PROVE  /\ e1 \in Events /\ i1 \in Contexts /\ i1.cpu.gpr \in Gpr \cup {0}
         /\ Head(event) = e1 /\ Head(interrupted) = i1
<1>1. Len(event) > 0 /\ 1 \in 1 .. Len(interrupted)
  BY SMT DEF Types
<1>2. Head(event) = e1 /\ e1 \in Events
  BY <1>1, Uncons DEF Types, e1
<1>3. Head(interrupted) = i1 /\ i1 \in Contexts
  BY Uncons DEF Types, i1
<1> QED
  BY <1>1, <1>2, <1>3 DEF Types, i1

\* Where the processor is says what the stack holds.
LEMMA Levels ==
  ASSUME StackInv, ~running
  PROVE  /\ Len(interrupted) > 0 /\ HasCode(e1) /\ cpu.cs = 0
         /\ cpu.eip[1] = "idt_trampoline" => InTrampoline(now, e1, i1)
         /\ cpu.eip[1] \in {"bp_handler", "syscall_isr", "iret"} => Entered(now, e1, i1)
         /\ cpu.eip[1] \in {"ack_pic1", "ack_pic2", "idt_common"} => Stubbed(now, e1, i1)
         /\ cpu.eip[1] = "eoi_pic1" => Acknowledging(now, e1, i1)
         /\ cpu.eip[1] \in {"intr_hdlr", "resume_from_intr", "panic"} => Handling(now, e1, i1)
         /\ cpu.eip[1] \in {"syscall_handler", "syscall_end"} => Calling(now, e1, i1)
         /\ cpu.eip[1] = "bp_body" => InBody(now, e1, i1)
         /\ cpu.eip[1] = "bp_leave" => Leaving(now, e1, i1)
         /\ cpu.eip[1] # "code"
<1>0. now.cpu = cpu
  BY DEF now
<1>1. Len(interrupted) > 0
  <2>1. Len(interrupted) \in Nat
    BY LenProperties DEF StackInv, Types
  <2>2. Len(interrupted) # 0
    BY <1>0 DEF StackInv, Runs, running
  <2> QED
    BY <2>1, <2>2, SMT
<1>2. Shape(now, e1, i1)
  BY <1>1 DEF StackInv, e1, i1
<1>3. HasCode(e1) /\ cpu.cs = 0
  BY <1>0, <1>2 DEF Shape
<1>4. CASE InTrampoline(now, e1, i1)
  <2>1. cpu.eip[1] = "idt_trampoline"
    BY <1>0, <1>4 DEF InTrampoline
  <2> QED
    BY <1>1, <1>3, <1>4, <2>1
<1>5. CASE Entered(now, e1, i1)
  <2>1. cpu.eip[1] \in {"bp_handler", "syscall_isr", "iret"}
    BY <1>0, <1>5 DEF Entered, At
  <2> QED
    BY <1>1, <1>3, <1>5, <2>1
<1>6. CASE Stubbed(now, e1, i1)
  <2>1. cpu.eip[1] \in {"ack_pic1", "ack_pic2", "idt_common"}
    BY <1>0, <1>6 DEF Stubbed, At
  <2> QED
    BY <1>1, <1>3, <1>6, <2>1
<1>7. CASE Acknowledging(now, e1, i1)
  <2>1. cpu.eip[1] = "eoi_pic1"
    BY <1>0, <1>7 DEF Acknowledging, At
  <2> QED
    BY <1>1, <1>3, <1>7, <2>1
<1>8. CASE Handling(now, e1, i1)
  <2>1. cpu.eip[1] \in {"intr_hdlr", "resume_from_intr", "panic"}
    BY <1>0, <1>8 DEF Handling, At
  <2> QED
    BY <1>1, <1>3, <1>8, <2>1
<1>9. CASE Calling(now, e1, i1)
  <2>1. cpu.eip[1] \in {"syscall_handler", "syscall_end"}
    BY <1>0, <1>9 DEF Calling, At
  <2> QED
    BY <1>1, <1>3, <1>9, <2>1
<1>10. CASE InBody(now, e1, i1)
  <2>1. cpu.eip[1] = "bp_body"
    BY <1>0, <1>10 DEF InBody, At
  <2> QED
    BY <1>1, <1>3, <1>10, <2>1
<1>11. CASE Leaving(now, e1, i1)
  <2>1. cpu.eip[1] = "bp_leave"
    BY <1>0, <1>11 DEF Leaving, At
  <2> QED
    BY <1>1, <1>3, <1>11, <2>1
<1> QED
  BY <1>2, <1>4, <1>5, <1>6, <1>7, <1>8, <1>9, <1>10, <1>11 DEF Shape

\* What the processor runs when nothing is interrupted.
LEMMA Bottom ==
  ASSUME StackInv
  PROVE  /\ running <=> Len(interrupted) = 0
         /\ running => Runs(now)
         /\ running => cpu.eip[1] = "code"
         /\ cpu.cs = 3 => stack = << >> /\ running
         /\ Len(interrupted) \in Nat
<1>0. now.cpu = cpu /\ now.stack = stack
  BY DEF now
<1>1. Len(interrupted) \in Nat
  BY LenProperties DEF StackInv, Types
<1>2. CASE running
  <2>1. cpu.eip[1] = "code"
    BY <1>2 DEF running, Code
  <2>2. Len(interrupted) = 0
    <3> SUFFICES ASSUME Len(interrupted) # 0 PROVE FALSE
      OBVIOUS
    <3>1. Shape(now, event[1], interrupted[1])
      BY <1>1, SMT DEF StackInv
    <3>2. cpu.eip[1] # "code"
      BY <1>0, <3>1 DEF Shape, InTrampoline, Entered, Stubbed, Acknowledging, Handling,
                        Calling, InBody, Leaving, At
    <3> QED
      BY <2>1, <3>2
  <2>3. Runs(now)
    BY <2>2 DEF StackInv
  <2> QED
    BY <1>0, <1>1, <1>2, <2>1, <2>2, <2>3 DEF Runs
<1>3. CASE ~running
  BY <1>1, <1>3, Levels, SMT
<1> QED
  BY <1>2, <1>3

\* A step of the newest level.
LEMMA StackStep ==
  ASSUME StackInv, UNCHANGED <<event, interrupted, idt>>,
         cpu' \in Cpus, stack' \in Seq(Words), cpu'.gpr \in Gpr \cup {0},
         running => Runs(now'),
         ~running => Shape(now', e1, i1)
  PROVE  StackInv'
<1>1. Types'
  BY DEF StackInv, Types
<1>2. Len(interrupted) = 0 => Runs(now')
  BY Bottom
<1>3. Len(interrupted) > 0 => Shape(now', event[1], interrupted[1])
  <2>1. Len(interrupted) > 0 => ~running
    BY Bottom, SMT
  <2> QED
    BY <2>1 DEF e1, i1
<1>4. Runs(now)' <=> Runs(now')
  BY DEF Runs
<1> QED
  BY <1>1, <1>2, <1>3, <1>4 DEF StackInv

-----------------------------------------------------------------------------
(* idt.s keeps StackInv *)

\* What lies above the frame is of words.
LEMMA Above ==
  ASSUME Types, Len(interrupted) > 0
  PROVE  /\ Frame(i1) \in Seq(Words) /\ Vectored(e1, i1) \in Seq(Words)
         /\ Word("nr", e1.nr) \in Words /\ Word("err", e1.err) \in Words
         /\ Word("eax", i1.cpu.gpr) \in Words /\ Word("gpr", i1.cpu.gpr) \in Words
         /\ Word("ebp", i1.cpu.gpr) \in Words
<1>1. e1 \in Events /\ i1 \in Contexts
  BY Top
<1>2. e1.nr \in Values /\ e1.err \in Values /\ i1.cpu.gpr \in Values
  <2>1. e1.nr \in Int /\ e1.err \in Int
    <3>1. e1.nr \in 0 .. 255 /\ e1.err \in Int
      BY <1>1 DEF Events
    <3>2. \A n \in 0 .. 255 : n \in Int
      BY SMT
    <3> QED
      BY <3>1, <3>2
  <2>2. i1.cpu.gpr \in Int
    BY <1>1, SMT DEF Contexts, Cpus
  <2> QED
    BY <2>1, <2>2 DEF Values
<1>3. Frame(i1) \in Seq(Words)
  BY <1>1, FrameOf
<1>4. Word("nr", e1.nr) \in Words /\ Word("err", e1.err) \in Words
  BY <1>2, WordType
<1>5. Vectored(e1, i1) \in Seq(Words)
  BY <1>3, <1>4, Cons2 DEF Vectored
<1> QED
  BY <1>2, <1>3, <1>4, <1>5, WordType

\* The processor at another instruction.
LEMMA GotoType ==
  ASSUME StackInv, NEW l \in Labels
  PROVE  /\ Goto(l) \in Cpus /\ Goto(l).eip = At(l) /\ Goto(l).cs = cpu.cs
         /\ Goto(l).gpr = cpu.gpr /\ cpu.gpr \in Gpr \cup {0}
         /\ \A g \in Gpr \cup {0} :
                /\ [Goto(l) EXCEPT !.gpr = g] \in Cpus
                /\ [Goto(l) EXCEPT !.gpr = g].eip = At(l)
                /\ [Goto(l) EXCEPT !.gpr = g].cs = cpu.cs
                /\ [Goto(l) EXCEPT !.gpr = g].gpr = g
<1>1. cpu \in Cpus /\ cpu.gpr \in Gpr \cup {0}
  BY DEF StackInv, Types
<1>2. At(l) \in Labels \X Int
  BY DEF At
<1>3. ASSUME NEW g \in Gpr \cup {0} PROVE g \in Nat
  BY GprAssumption
<1> QED
  BY <1>1, <1>2, <1>3 DEF Goto, Cpus

\* idt_trampoline leaves the same above the frame for every vector.
LEMMA StackTrampoline == StackInv /\ Trampoline => StackInv'
<1> SUFFICES ASSUME StackInv, Trampoline PROVE StackInv'
  OBVIOUS
<1>0. ~running
  BY Bottom DEF Trampoline
<1>1. /\ Types /\ Len(interrupted) > 0 /\ HasCode(e1) /\ cpu.cs = 0
      /\ InTrampoline(now, e1, i1)
  BY <1>0, Levels DEF Trampoline, StackInv
<1>2. cpu.eip[2] = e1.nr /\ stack = Codes(e1) \o Frame(i1) /\ cpu.gpr = i1.cpu.gpr
  BY <1>1 DEF InTrampoline, now
<1>3. CASE e1.nr \in Reserved
  <2>1. cpu' = Goto("iret") /\ stack' = stack
    BY <1>2, <1>3 DEF Trampoline
  <2>2. e1.nr \notin ErrorCodes
    BY <1>3, SMT DEF Reserved, ErrorCodes
  <2>3. stack = Frame(i1)
    BY <1>1, <1>2, <2>2, Above, ConcatEmptySeq DEF HasCode, Codes
  <2>4. cpu' \in Cpus /\ cpu'.eip = At("iret") /\ cpu'.cs = 0 /\ cpu'.gpr = cpu.gpr
        /\ cpu.gpr \in Gpr \cup {0}
    BY <1>1, <2>1, GotoType DEF Labels
  <2>5. Shape(now', e1, i1)
    BY <1>1, <1>2, <2>1, <2>3, <2>4 DEF Shape, Entered, now
  <2> QED
    BY <1>0, <2>1, <2>4, <2>5, StackStep DEF Trampoline, StackInv, Types, kernel
<1>4. CASE e1.nr \notin Reserved
  <2> DEFINE l == CASE e1.nr \in 32 .. 39 -> "ack_pic1"
                    [] e1.nr \in 40 .. 47 -> "ack_pic2"
                    [] OTHER -> "idt_common"
             n == Word("nr", e1.nr)
             c == Word("err", e1.err)
             f == Frame(i1)
  <2>1. /\ cpu' = Goto(l)
        /\ stack' = (<<n>> \o IF e1.nr \in ErrorCodes THEN << >> ELSE <<Word("err", -1)>>)
                    \o stack
    BY <1>2, <1>4 DEF Trampoline, Push
  <2>2. l \in {"ack_pic1", "ack_pic2", "idt_common"}
    OBVIOUS
  <2>3. n \in Words /\ c \in Words /\ f \in Seq(Words)
    BY <1>1, Above
  <2> HIDE DEF l, n, f
  <2>4. cpu' \in Cpus /\ cpu'.eip = At(l) /\ cpu'.cs = 0 /\ cpu'.gpr = cpu.gpr
        /\ cpu.gpr \in Gpr \cup {0}
    <3>1. l \in Labels
      BY <2>2 DEF Labels
    <3> QED
      BY <1>1, <2>1, <3>1, GotoType
  <2>5. <<n>> \in Seq(Words) /\ <<c>> \in Seq(Words) /\ << >> \in Seq(Words)
    BY <2>3, SMT
  <2>6. stack' = <<n, c>> \o f
    <3>1. CASE e1.nr \in ErrorCodes
      <4>1. stack = <<c>> \o f
        BY <1>1, <1>2, <3>1 DEF HasCode, Codes, f
      <4>2. <<n>> \o << >> = <<n>>
        BY <2>5, ConcatEmptySeq
      <4>3. stack' = <<n>> \o (<<c>> \o f)
        BY <2>1, <3>1, <4>1, <4>2
      <4> QED
        BY <2>3, <4>3, Cons2
    <3>2. CASE e1.nr \notin ErrorCodes
      <4>1. e1.err = -1
        BY <1>1, <3>2 DEF HasCode
      <4>2. stack = f
        BY <1>2, <2>3, <4>1, ConcatEmptySeq DEF Codes, f
      <4>3. stack' = (<<n>> \o <<c>>) \o f
        BY <2>1, <3>2, <4>1, <4>2
      <4>4. (<<n>> \o <<c>>) \o f = <<n>> \o (<<c>> \o f)
        BY <2>3, <2>5, Associative
      <4> QED
        BY <2>3, <4>3, <4>4, Cons2
    <3> QED
      BY <3>1, <3>2
  <2>7. stack' = Vectored(e1, i1) /\ stack' \in Seq(Words)
    BY <1>1, <2>6, Above DEF Vectored, n, f
  <2>8. Shape(now', e1, i1)
    BY <1>1, <1>2, <1>4, <2>2, <2>4, <2>7 DEF Shape, Stubbed, now
  <2> QED
    BY <1>0, <2>4, <2>7, <2>8, StackStep DEF Trampoline, kernel
<1> QED
  BY <1>3, <1>4

\* ack_pic1 and ack_pic2 push eax.
LEMMA StackAck == StackInv /\ (ack_pic1 \/ ack_pic2) => StackInv'
<1> SUFFICES ASSUME StackInv, ack_pic1 \/ ack_pic2 PROVE StackInv'
  OBVIOUS
<1>0. /\ cpu.eip[1] \in {"ack_pic1", "ack_pic2"}
      /\ stack' = <<Word("eax", cpu.gpr)>> \o stack
      /\ cpu' = [Goto("eoi_pic1") EXCEPT !.gpr = 0]
      /\ UNCHANGED <<event, interrupted, idt>>
  BY DEF ack_pic1, ack_pic2, At, Push, kernel
<1>1. ~running
  BY <1>0, Bottom
<1>2. Types /\ Len(interrupted) > 0 /\ HasCode(e1) /\ cpu.cs = 0 /\ Stubbed(now, e1, i1)
  BY <1>0, <1>1, Levels DEF StackInv
<1>3. stack = Vectored(e1, i1) /\ cpu.gpr = i1.cpu.gpr /\ e1.nr \notin Reserved
  BY <1>2 DEF Stubbed, now
<1>4. cpu' \in Cpus /\ cpu'.eip = At("eoi_pic1") /\ cpu'.cs = 0 /\ cpu'.gpr \in Gpr \cup {0}
  <2>1. 0 \in Gpr \cup {0} /\ "eoi_pic1" \in Labels
    BY DEF Labels
  <2> QED
    BY <1>0, <1>2, <2>1, GotoType
<1>5. stack' \in Seq(Words)
  BY <1>0, <1>2, <1>3, Above, Cons
<1>6. Shape(now', e1, i1)
  BY <1>0, <1>2, <1>3, <1>4 DEF Shape, Acknowledging, now
<1> QED
  BY <1>0, <1>1, <1>4, <1>5, <1>6, StackStep

\* The end of interrupt gives eax back.
LEMMA StackEoi == StackInv /\ eoi_pic1 => StackInv'
<1> SUFFICES ASSUME StackInv, eoi_pic1 PROVE StackInv'
  OBVIOUS
<1>0. /\ cpu.eip[1] = "eoi_pic1"
      /\ stack' = SubSeq(stack, 2, Len(stack))
      /\ cpu' = [Goto("idt_common") EXCEPT !.gpr = Read(1, "eax", 0)]
      /\ UNCHANGED <<event, interrupted, idt>>
  BY DEF eoi_pic1, At, Drop, kernel
<1>1. ~running
  BY <1>0, Bottom
<1>2. /\ Types /\ Len(interrupted) > 0 /\ HasCode(e1) /\ cpu.cs = 0
      /\ Acknowledging(now, e1, i1)
  BY <1>0, <1>1, Levels DEF StackInv
<1>3. stack = <<Word("eax", i1.cpu.gpr)>> \o Vectored(e1, i1) /\ e1.nr \notin Reserved
  BY <1>2 DEF Acknowledging, now
<1>4. /\ stack' = Vectored(e1, i1) /\ stack' \in Seq(Words)
      /\ stack[1] = Word("eax", i1.cpu.gpr) /\ 1 <= Len(stack)
  BY <1>0, <1>2, <1>3, Above, Cons, SMT
<1>5. Read(1, "eax", 0) = i1.cpu.gpr /\ i1.cpu.gpr \in Gpr \cup {0}
  BY <1>2, <1>4, Top DEF Read, Word
<1>6. /\ cpu' \in Cpus /\ cpu'.eip = At("idt_common") /\ cpu'.cs = 0
      /\ cpu'.gpr = i1.cpu.gpr
  BY <1>0, <1>2, <1>5, GotoType DEF Labels
<1>7. Shape(now', e1, i1)
  BY <1>2, <1>3, <1>4, <1>6 DEF Shape, Stubbed, now
<1> QED
  BY <1>0, <1>1, <1>4, <1>5, <1>6, <1>7, StackStep

\* idt_common pushes the general registers.
LEMMA StackCommon == StackInv /\ idt_common => StackInv'
<1> SUFFICES ASSUME StackInv, idt_common PROVE StackInv'
  OBVIOUS
<1>0. /\ cpu.eip[1] = "idt_common"
      /\ stack' = <<Word("gpr", cpu.gpr)>> \o stack
      /\ cpu' = [Goto("intr_hdlr") EXCEPT !.gpr = 0]
      /\ UNCHANGED <<event, interrupted, idt>>
  BY DEF idt_common, At, Push, kernel
<1>1. ~running
  BY <1>0, Bottom
<1>2. Types /\ Len(interrupted) > 0 /\ HasCode(e1) /\ cpu.cs = 0 /\ Stubbed(now, e1, i1)
  BY <1>0, <1>1, Levels DEF StackInv
<1>3. stack = Vectored(e1, i1) /\ cpu.gpr = i1.cpu.gpr /\ e1.nr \notin Reserved
  BY <1>2 DEF Stubbed, now
<1>4. cpu' \in Cpus /\ cpu'.eip = At("intr_hdlr") /\ cpu'.cs = 0 /\ cpu'.gpr \in Gpr \cup {0}
  <2>1. 0 \in Gpr \cup {0} /\ "intr_hdlr" \in Labels
    BY DEF Labels
  <2> QED
    BY <1>0, <1>2, <2>1, GotoType
<1>5. stack' \in Seq(Words)
  BY <1>0, <1>2, <1>3, Above, Cons
<1>6. Shape(now', e1, i1)
  BY <1>0, <1>2, <1>3, <1>4 DEF Shape, Handling, now
<1> QED
  BY <1>0, <1>1, <1>4, <1>5, <1>6, StackStep

\* Three words.
LEMMA Words3 ==
  ASSUME NEW f \in Seq(Words), NEW x \in Words, NEW y \in Words, NEW z \in Words
  PROVE  <<x>> \o (<<y, z>> \o f) = <<x, y, z>> \o f
  BY SMT

\* What intr_hdlr finds.
LEMMA Found ==
  ASSUME StackInv, cpu.eip[1] \in {"intr_hdlr", "resume_from_intr", "panic"}
  PROVE  /\ ~running /\ Len(interrupted) > 0
         /\ stack = <<Word("gpr", i1.cpu.gpr), Word("nr", e1.nr), Word("err", e1.err)>>
                    \o Frame(i1)
         /\ stack[1] = Word("gpr", i1.cpu.gpr) /\ stack[2] = Word("nr", e1.nr)
         /\ Len(stack) >= 3 /\ SubSeq(stack, 4, Len(stack)) = Frame(i1)
         /\ ctxNr = e1.nr /\ e1.nr \notin Reserved
<1>1. ~running
  BY Bottom
<1>2. Types /\ Len(interrupted) > 0 /\ Handling(now, e1, i1)
  BY <1>1, Levels DEF StackInv
<1>3. /\ stack = <<Word("gpr", i1.cpu.gpr)>> \o (<<Word("nr", e1.nr), Word("err", e1.err)>> \o Frame(i1))
      /\ e1.nr \notin Reserved
  BY <1>2 DEF Handling, Vectored, now
<1> DEFINE s == <<Word("gpr", i1.cpu.gpr), Word("nr", e1.nr), Word("err", e1.err)>> \o Frame(i1)
<1>4. /\ stack = s /\ s[1] = Word("gpr", i1.cpu.gpr) /\ s[2] = Word("nr", e1.nr)
      /\ Len(s) >= 3 /\ SubSeq(s, 4, Len(s)) = Frame(i1)
  <2> DEFINE x == Word("gpr", i1.cpu.gpr)
             y == Word("nr", e1.nr)
             z == Word("err", e1.err)
             f == Frame(i1)
  <2>1. x \in Words /\ y \in Words /\ z \in Words /\ f \in Seq(Words)
    BY <1>2, Above
  <2>2. stack = <<x>> \o (<<y, z>> \o f) /\ s = <<x, y, z>> \o f
    BY <1>3
  <2> HIDE DEF x, y, z, f, s
  <2>3. stack = <<x, y, z>> \o f
    <3>1. <<x>> \o (<<y, z>> \o f) = <<x, y, z>> \o f
      BY <2>1, Words3
    <3> QED
      BY <2>2, <3>1
  <2>4. s[1] = x /\ s[2] = y /\ Len(s) >= 3 /\ SubSeq(s, 4, Len(s)) = f
    BY <2>1, <2>2, Cons3
  <2> QED
    BY <2>2, <2>3, <2>4 DEF x, y, f
<1> HIDE DEF s
<1>5. 2 <= Len(stack)
  <2>1. Len(stack) \in Nat
    BY LenProperties DEF StackInv, Types
  <2> QED
    BY <1>4, <2>1, SMT
<1>6. ctxNr = e1.nr
  BY <1>4, <1>5 DEF ctxNr, Read, Word
<1> QED
  BY <1>1, <1>2, <1>3, <1>4, <1>6 DEF s

\* intr_hdlr only looks.
LEMMA StackHandler == StackInv /\ intr_hdlr => StackInv'
<1> SUFFICES ASSUME StackInv, intr_hdlr PROVE StackInv'
  OBVIOUS
<1>0. /\ cpu.eip[1] = "intr_hdlr" /\ stack' = stack
      /\ UNCHANGED <<event, interrupted, idt>>
      /\ cpu' = Goto("panic") \/ cpu' = Goto("resume_from_intr")
  BY DEF intr_hdlr, At, kernel
<1>1. ~running
  BY <1>0, Bottom
<1>2. /\ Types /\ Len(interrupted) > 0 /\ HasCode(e1) /\ cpu.cs = 0
      /\ Handling(now, e1, i1)
  BY <1>0, <1>1, Levels DEF StackInv
<1>3. /\ cpu' \in Cpus /\ cpu'.eip \in {At("panic"), At("resume_from_intr")} /\ cpu'.cs = 0
      /\ cpu'.gpr \in Gpr \cup {0}
  BY <1>0, <1>2, GotoType DEF Labels
<1>4. Shape(now', e1, i1)
  BY <1>0, <1>2, <1>3 DEF Shape, Handling, now
<1>5. stack' \in Seq(Words)
  BY <1>0 DEF StackInv, Types
<1> QED
  BY <1>0, <1>1, <1>3, <1>4, <1>5, StackStep

\* resume_from_intr leaves the frame, with the registers of before.
LEMMA StackResume == StackInv /\ resume_from_intr => StackInv'
<1> SUFFICES ASSUME StackInv, resume_from_intr PROVE StackInv'
  OBVIOUS
<1>0. /\ cpu.eip[1] = "resume_from_intr"
      /\ stack' = SubSeq(stack, 4, Len(stack))
      /\ cpu' = [Goto("iret") EXCEPT !.gpr = Read(1, "gpr", 0)]
      /\ UNCHANGED <<event, interrupted, idt>>
  BY DEF resume_from_intr, At, Drop, Discard, kernel
<1>1. /\ ~running /\ Len(interrupted) > 0 /\ Types
      /\ stack[1] = Word("gpr", i1.cpu.gpr) /\ Len(stack) >= 3 /\ stack' = Frame(i1)
  BY <1>0, Found DEF StackInv
<1>2. HasCode(e1) /\ cpu.cs = 0
  BY <1>1, Levels
<1>3. stack' \in Seq(Words) /\ i1.cpu.gpr \in Gpr \cup {0}
  BY <1>1, Above, Top
<1>4. 1 <= Len(stack)
  <2>1. Len(stack) \in Nat
    BY LenProperties DEF StackInv, Types
  <2> QED
    BY <1>1, <2>1, SMT
<1>5. Read(1, "gpr", 0) = i1.cpu.gpr
  BY <1>1, <1>4 DEF Read, Word
<1>6. cpu' \in Cpus /\ cpu'.eip = At("iret") /\ cpu'.cs = 0 /\ cpu'.gpr = i1.cpu.gpr
  BY <1>0, <1>2, <1>3, <1>5, GotoType DEF Labels
<1>7. Shape(now', e1, i1)
  BY <1>1, <1>2, <1>6 DEF Shape, Entered, now
<1> QED
  BY <1>0, <1>1, <1>3, <1>6, <1>7, StackStep

-----------------------------------------------------------------------------
(* The handlers of tp2 and tp5 keep StackInv *)

\* The prologue and pusha of a handler, which starts with the frame on top.
LEMMA StackEnter == StackInv /\ (bp_handler \/ syscall_isr) => StackInv'
<1> SUFFICES ASSUME StackInv, bp_handler \/ syscall_isr PROVE StackInv'
  OBVIOUS
<1>0. /\ cpu.eip[1] \in {"bp_handler", "syscall_isr"}
      /\ UNCHANGED <<event, interrupted, idt>>
  BY DEF bp_handler, syscall_isr, kernel
<1>1. ~running
  BY <1>0, Bottom
<1>2. Types /\ Len(interrupted) > 0 /\ HasCode(e1) /\ cpu.cs = 0 /\ Entered(now, e1, i1)
  BY <1>0, <1>1, Levels DEF StackInv
<1>3. stack = Frame(i1) /\ cpu.gpr = i1.cpu.gpr
  BY <1>2 DEF Entered, now
<1>4. /\ Frame(i1) \in Seq(Words)
      /\ Word("gpr", i1.cpu.gpr) \in Words /\ Word("ebp", i1.cpu.gpr) \in Words
  BY <1>2, Above
<1>5. 0 \in Gpr \cup {0} /\ "bp_body" \in Labels /\ "syscall_handler" \in Labels
  BY DEF Labels
<1>6. CASE bp_handler
  <2>1. /\ stack' = <<Word("gpr", i1.cpu.gpr), Word("ebp", i1.cpu.gpr)>> \o Frame(i1)
        /\ cpu' = [Goto("bp_body") EXCEPT !.gpr = 0]
    BY <1>3, <1>6 DEF bp_handler, Push
  <2>2. stack' \in Seq(Words)
    BY <1>4, <2>1, Cons2
  <2>3. cpu' \in Cpus /\ cpu'.eip = At("bp_body") /\ cpu'.cs = 0 /\ cpu'.gpr \in Gpr \cup {0}
    BY <1>2, <1>5, <2>1, GotoType
  <2>4. Shape(now', e1, i1)
    BY <1>2, <2>1, <2>3 DEF Shape, InBody, now
  <2> QED
    BY <1>0, <1>1, <2>2, <2>3, <2>4, StackStep
<1>7. CASE syscall_isr
  <2>1. /\ stack' = <<Word("gpr", i1.cpu.gpr)>> \o Frame(i1)
        /\ cpu' = [Goto("syscall_handler") EXCEPT !.gpr = 0]
    BY <1>3, <1>7 DEF syscall_isr, Push
  <2>2. stack' \in Seq(Words)
    BY <1>4, <2>1, Cons
  <2>3. /\ cpu' \in Cpus /\ cpu'.eip = At("syscall_handler") /\ cpu'.cs = 0
        /\ cpu'.gpr \in Gpr \cup {0}
    BY <1>2, <1>5, <2>1, GotoType
  <2>4. Shape(now', e1, i1)
    BY <1>2, <2>1, <2>3 DEF Shape, Calling, now
  <2> QED
    BY <1>0, <1>1, <2>2, <2>3, <2>4, StackStep
<1> QED
  BY <1>6, <1>7

\* popa of the breakpoint's handler leaves the ebp of the prologue.
LEMMA StackBody == StackInv /\ bp_body => StackInv'
<1> SUFFICES ASSUME StackInv, bp_body PROVE StackInv'
  OBVIOUS
<1> DEFINE x == Word("gpr", i1.cpu.gpr)
           y == Word("ebp", i1.cpu.gpr)
           f == Frame(i1)
<1>0. /\ cpu.eip[1] = "bp_body"
      /\ stack' = SubSeq(stack, 2, Len(stack))
      /\ cpu' = [Goto("bp_leave") EXCEPT !.gpr = Read(1, "gpr", 0)]
      /\ UNCHANGED <<event, interrupted, idt>>
  BY DEF bp_body, At, Drop, kernel
<1>1. ~running
  BY <1>0, Bottom
<1>2. Types /\ Len(interrupted) > 0 /\ HasCode(e1) /\ cpu.cs = 0 /\ InBody(now, e1, i1)
  BY <1>0, <1>1, Levels DEF StackInv
<1>3. stack = <<x, y>> \o f
  BY <1>2 DEF InBody, now
<1>4. f \in Seq(Words) /\ x \in Words /\ y \in Words
  BY <1>2, Above
<1>5. x.reg = "gpr" /\ x.val = i1.cpu.gpr
  BY DEF Word
<1> HIDE DEF x, y, f
<1>6. /\ stack[1] = x /\ 2 <= Len(stack)
      /\ SubSeq(stack, 2, Len(stack)) = <<y>> \o f
  BY <1>3, <1>4, Cons2, SMT
<1>7. stack' = <<y>> \o f /\ stack' \in Seq(Words)
  <2>1. <<y>> \o f \in Seq(Words)
    BY <1>4, Cons
  <2> QED
    BY <1>0, <1>6, <2>1
<1>8. 1 <= Len(stack)
  <2>1. Len(stack) \in Nat
    BY LenProperties DEF StackInv, Types
  <2> QED
    BY <1>6, <2>1, SMT
<1>9. Read(1, "gpr", 0) = i1.cpu.gpr /\ i1.cpu.gpr \in Gpr \cup {0}
  BY <1>2, <1>5, <1>6, <1>8, Top DEF Read
<1>10. cpu' \in Cpus /\ cpu'.eip = At("bp_leave") /\ cpu'.cs = 0 /\ cpu'.gpr = i1.cpu.gpr
  BY <1>0, <1>2, <1>9, GotoType DEF Labels
<1>11. Shape(now', e1, i1)
  BY <1>2, <1>7, <1>10 DEF Shape, Leaving, now, y, f
<1> QED
  BY <1>0, <1>1, <1>7, <1>9, <1>10, <1>11, StackStep

\* leave takes the ebp of the prologue.
LEMMA StackLeave == StackInv /\ bp_leave => StackInv'
<1> SUFFICES ASSUME StackInv, bp_leave PROVE StackInv'
  OBVIOUS
<1>0. /\ cpu.eip[1] = "bp_leave"
      /\ stack' = SubSeq(stack, 2, Len(stack))
      /\ cpu' = Goto("iret")
      /\ UNCHANGED <<event, interrupted, idt>>
  BY DEF bp_leave, At, Drop, kernel
<1>1. ~running
  BY <1>0, Bottom
<1>2. Types /\ Len(interrupted) > 0 /\ HasCode(e1) /\ cpu.cs = 0 /\ Leaving(now, e1, i1)
  BY <1>0, <1>1, Levels DEF StackInv
<1>3. stack = <<Word("ebp", i1.cpu.gpr)>> \o Frame(i1) /\ cpu.gpr = i1.cpu.gpr
  BY <1>2 DEF Leaving, now
<1>4. stack' = Frame(i1) /\ stack' \in Seq(Words)
  BY <1>0, <1>2, <1>3, Above, Cons
<1>5. /\ cpu' \in Cpus /\ cpu'.eip = At("iret") /\ cpu'.cs = 0 /\ cpu'.gpr = cpu.gpr
      /\ cpu.gpr \in Gpr \cup {0}
  BY <1>0, <1>2, GotoType DEF Labels
<1>6. Shape(now', e1, i1)
  BY <1>2, <1>3, <1>4, <1>5 DEF Shape, Entered, now
<1> QED
  BY <1>0, <1>1, <1>4, <1>5, <1>6, StackStep

\* syscall_handler looks, and popa gives the registers back.
LEMMA StackSyscall == StackInv /\ (syscall_handler \/ syscall_end) => StackInv'
<1> SUFFICES ASSUME StackInv, syscall_handler \/ syscall_end PROVE StackInv'
  OBVIOUS
<1>0. /\ cpu.eip[1] \in {"syscall_handler", "syscall_end"}
      /\ UNCHANGED <<event, interrupted, idt>>
  BY DEF syscall_handler, syscall_end, At, kernel
<1>1. ~running
  BY <1>0, Bottom
<1>2. Types /\ Len(interrupted) > 0 /\ HasCode(e1) /\ cpu.cs = 0 /\ Calling(now, e1, i1)
  BY <1>0, <1>1, Levels DEF StackInv
<1>3. stack = <<Word("gpr", i1.cpu.gpr)>> \o Frame(i1) /\ stack \in Seq(Words)
  BY <1>2 DEF Calling, now, Types
<1>4. CASE syscall_handler
  <2>1. stack' = stack /\ cpu' = Goto("syscall_end")
    BY <1>4 DEF syscall_handler
  <2>2. /\ cpu' \in Cpus /\ cpu'.eip = At("syscall_end") /\ cpu'.cs = 0
        /\ cpu'.gpr \in Gpr \cup {0}
    BY <1>2, <2>1, GotoType DEF Labels
  <2>3. Shape(now', e1, i1)
    BY <1>2, <1>3, <2>1, <2>2 DEF Shape, Calling, now
  <2> QED
    BY <1>0, <1>1, <1>3, <2>1, <2>2, <2>3, StackStep
<1>5. CASE syscall_end
  <2>1. /\ stack' = SubSeq(stack, 2, Len(stack))
        /\ cpu' = [Goto("iret") EXCEPT !.gpr = Read(1, "gpr", 0)]
    BY <1>5 DEF syscall_end, Drop
  <2>2. /\ stack' = Frame(i1) /\ stack' \in Seq(Words)
        /\ stack[1] = Word("gpr", i1.cpu.gpr) /\ 1 <= Len(stack)
    BY <1>2, <1>3, <2>1, Above, Cons, SMT
  <2>3. Read(1, "gpr", 0) = i1.cpu.gpr /\ i1.cpu.gpr \in Gpr \cup {0}
    BY <1>2, <2>2, Top DEF Read, Word
  <2>4. cpu' \in Cpus /\ cpu'.eip = At("iret") /\ cpu'.cs = 0 /\ cpu'.gpr = i1.cpu.gpr
    BY <1>2, <2>1, <2>3, GotoType DEF Labels
  <2>5. Shape(now', e1, i1)
    BY <1>2, <2>2, <2>4 DEF Shape, Entered, now
  <2> QED
    BY <1>0, <1>1, <2>2, <2>3, <2>4, <2>5, StackStep
<1> QED
  BY <1>4, <1>5

-----------------------------------------------------------------------------
(* iret: a level is left *)

\* iret gives what was interrupted back.
LEMMA Returned ==
  ASSUME StackInv, iret
  PROVE  /\ Len(interrupted) > 0
         /\ cpu' = i1.cpu /\ stack' = i1.stack
         /\ event' = Tail(event) /\ interrupted' = Tail(interrupted) /\ UNCHANGED idt
<1>0. cpu.eip[1] = "iret"
  BY DEF iret, At
<1>1. ~running
  BY <1>0, Bottom
<1>2. Types /\ Len(interrupted) > 0 /\ cpu.cs = 0 /\ Entered(now, e1, i1)
  BY <1>0, <1>1, Levels DEF StackInv
<1>3. stack = Frame(i1) /\ cpu.gpr = i1.cpu.gpr /\ i1 \in Contexts
  BY <1>2, Top DEF Entered, now
<1>4. /\ stack[1] = Word("eip", i1.cpu.eip) /\ stack[2] = Word("cs", i1.cpu.cs)
      /\ stack[3] = Word("eflags", i1.cpu.flags) /\ Len(stack) >= 3
      /\ SubSeq(stack, (IF i1.cpu.cs = 3 THEN 5 ELSE 3) + 1, Len(stack)) = i1.stack
  BY <1>3, FrameOf
<1>5. 1 <= Len(stack) /\ 2 <= Len(stack) /\ 3 <= Len(stack)
  <2>1. Len(stack) \in Nat
    BY LenProperties DEF StackInv, Types
  <2> QED
    BY <1>4, <2>1, SMT
<1>6. /\ Read(1, "eip", At("lost")) = i1.cpu.eip /\ Read(2, "cs", 0) = i1.cpu.cs
      /\ Read(3, "eflags", 0) = i1.cpu.flags
  BY <1>4, <1>5 DEF Read, Word
<1>7. stack' = i1.stack
  <2>1. stack' = SubSeq(stack, (IF i1.cpu.cs = 3 THEN 5 ELSE 3) + 1, Len(stack))
    BY <1>6 DEF iret, Drop
  <2> QED
    BY <1>4, <2>1
<1>8. cpu' = i1.cpu
  <2>1. i1.cpu \in Cpus
    BY <1>3 DEF Contexts
  <2>2. i1.cpu = [eip |-> i1.cpu.eip, cs |-> i1.cpu.cs, flags |-> i1.cpu.flags,
                  gpr |-> i1.cpu.gpr]
    BY <2>1 DEF Cpus
  <2>3. cpu' = [eip |-> i1.cpu.eip, cs |-> i1.cpu.cs, flags |-> i1.cpu.flags,
                gpr |-> i1.cpu.gpr]
    BY <1>3, <1>6 DEF iret
  <2> QED
    BY <2>2, <2>3
<1> QED
  BY <1>2, <1>7, <1>8 DEF iret, kernel

\* The level below is as it was left.
LEMMA StackIret == StackInv /\ iret => StackInv'
<1> SUFFICES ASSUME StackInv, iret PROVE StackInv'
  OBVIOUS
<1> DEFINE n == Len(interrupted)
<1>1. /\ n > 0 /\ n \in Nat /\ Types
      /\ cpu' = i1.cpu /\ stack' = i1.stack
      /\ event' = Tail(event) /\ interrupted' = Tail(interrupted) /\ UNCHANGED idt
  BY Returned, Bottom DEF StackInv
<1>2. /\ interrupted' \in Seq(Contexts) /\ Len(interrupted') = n - 1
      /\ \A k \in 1 .. n - 1 : interrupted'[k] = interrupted[k + 1]
  BY <1>1, Uncons DEF Types
<1>3. /\ event' \in Seq(Events) /\ Len(event') = n - 1 /\ Len(event) = n
      /\ \A k \in 1 .. n - 1 : event'[k] = event[k + 1]
  <2>1. event \in Seq(Events) /\ Len(event) = n
    BY <1>1 DEF Types
  <2> QED
    BY <1>1, <2>1, Uncons
<1>4. now' = i1 /\ i1 \in Contexts /\ i1.cpu.gpr \in Gpr \cup {0}
  <2>1. i1 \in Contexts /\ i1.cpu.gpr \in Gpr \cup {0}
    BY <1>1, Top
  <2>2. i1 = [cpu |-> i1.cpu, stack |-> i1.stack]
    BY <2>1 DEF Contexts
  <2> QED
    BY <1>1, <2>1, <2>2 DEF now
<1>5. Types'
  <2>1. \A k \in 1 .. n - 1 : interrupted'[k].cpu.gpr \in Gpr \cup {0}
    <3> SUFFICES ASSUME NEW k \in 1 .. n - 1 PROVE interrupted'[k].cpu.gpr \in Gpr \cup {0}
      OBVIOUS
    <3>1. k + 1 \in 1 .. n
      BY <1>1, SMT
    <3> QED
      BY <1>1, <1>2, <3>1 DEF Types
  <2> QED
    BY <1>1, <1>2, <1>3, <1>4, <2>1 DEF Types, Contexts
<1>6. \A k \in 1 .. n - 1 : Shape(interrupted[k], event[k + 1], interrupted[k + 1])
  BY DEF StackInv
<1>7. Len(interrupted') = 0 => Runs(now')
  <2> SUFFICES ASSUME n = 1 PROVE Runs(i1)
    BY <1>1, <1>2, <1>4, SMT
  <2> QED
    BY <1>1 DEF StackInv, i1
<1>8. ASSUME Len(interrupted') > 0
      PROVE  /\ Shape(now', event'[1], interrupted'[1])
             /\ Runs(interrupted'[Len(interrupted')])
  <2>1. 1 \in 1 .. n - 1 /\ n - 1 \in 1 .. n - 1 /\ n - 1 + 1 = n /\ 1 + 1 = 2
    BY <1>1, <1>2, <1>8, SMT
  <2>2. Shape(now', event'[1], interrupted'[1])
    BY <1>2, <1>3, <1>4, <1>6, <2>1 DEF i1
  <2>3. Runs(interrupted'[n - 1])
    BY <1>1, <1>2, <2>1 DEF StackInv
  <2> QED
    BY <1>2, <2>2, <2>3
<1>9. ASSUME NEW k \in 1 .. Len(interrupted') - 1
      PROVE  Shape(interrupted'[k], event'[k + 1], interrupted'[k + 1])
  <2>1. k \in 1 .. n - 1 /\ k + 1 \in 1 .. n - 1
    BY <1>1, <1>2, <1>9, SMT
  <2> QED
    BY <1>2, <1>3, <1>6, <2>1
<1>10. Runs(now)' <=> Runs(now')
  BY DEF Runs
<1> QED
  BY <1>5, <1>7, <1>8, <1>9 DEF StackInv

-----------------------------------------------------------------------------
(* Delivery: a level is entered *)

\* The gate of a vector leads to a handler that takes its frame as it is.
LEMMA Gate ==
  ASSUME Types, NEW v \in 0 .. 255
  PROVE  /\ Handler(v) \in Labels \X Int
         /\ \/ Handler(v) = <<"idt_trampoline", v>>
            \/ /\ v \notin ErrorCodes
               /\ Handler(v) \in {<<"bp_handler", v>>, <<"syscall_isr", v>>}
<1>0. v \in Int
  BY SMT
<1>1. CASE v \notin DOMAIN idt
  BY <1>0, <1>1 DEF Handler, Labels
<1>2. CASE v \in DOMAIN idt
  <2>1. \/ v = 3 /\ idt[v] = "bp_handler"
        \/ v = 48 /\ idt[v] = "syscall_isr"
    BY <1>2 DEF Types
  <2>2. v \notin ErrorCodes
    BY <2>1 DEF ErrorCodes
  <2> QED
    BY <1>0, <1>2, <2>1, <2>2 DEF Handler, Labels
<1> QED
  BY <1>1, <1>2

\* An event enters a level, whatever ran.
LEMMA StackDeliver ==
  ASSUME StackInv, NEW v \in 0 .. 255, NEW eip \in Labels \X Int, NEW codes,
         \/ codes = << >> /\ v \notin ErrorCodes
         \/ codes = <<Word("err", ErrorCode)>> /\ v \in ErrorCodes,
         running => eip \in {Code(0), Code(1)},
         ~running => eip = cpu.eip,
         Deliver(v, codes, eip), UNCHANGED idt
  PROVE  /\ StackInv'
         /\ event' = <<[nr |-> v, err |-> IF codes = << >> THEN -1 ELSE ErrorCode]>> \o event
         /\ Len(interrupted') = Len(interrupted) + 1
         /\ interrupted' = <<[cpu |-> [cpu EXCEPT !.eip = eip], stack |-> stack]>> \o interrupted
         /\ cpu'.flags = 0 /\ cpu'.eip = Handler(v)
<1> DEFINE i == [cpu |-> [cpu EXCEPT !.eip = eip], stack |-> stack]
           e == [nr |-> v, err |-> IF codes = << >> THEN -1 ELSE ErrorCode]
           n == Len(interrupted)
<1>0. Types /\ cpu \in Cpus /\ stack \in Seq(Words) /\ cpu.gpr \in Gpr \cup {0}
      /\ n \in Nat /\ Len(event) = n /\ event \in Seq(Events)
      /\ interrupted \in Seq(Contexts)
  BY Bottom DEF StackInv, Types
<1>1. ErrorCode \in Int /\ ErrorCode # -1 /\ ErrorCode \in Values
  BY DEF ErrorCode, Values
<1>2. codes # << >> => codes[1].val = ErrorCode
  BY DEF Word
<1>2a. codes \in Seq(Words)
  <2>1. CASE codes = << >>
    BY <2>1, EmptySeq
  <2>2. CASE codes = <<Word("err", ErrorCode)>>
    <3>1. Word("err", ErrorCode) \in Words
      BY <1>1, WordType
    <3> QED
      BY <2>2, <3>1, SMT
  <2> QED
    BY <2>1, <2>2
<1>3. i \in Contexts /\ stack' = codes \o Frame(i)
  BY <1>0, <1>2a, Bottom, Delivered
<1>4. codes = Codes(e) /\ HasCode(e) /\ e \in Events
  <2>1. v \in 0 .. 255 /\ e.nr = v
    OBVIOUS
  <2>2. CASE codes = << >> /\ v \notin ErrorCodes
    <3>1. e.err = -1 /\ e \in Events
      BY <2>1, <2>2 DEF Events
    <3> QED
      BY <2>1, <2>2, <3>1 DEF Codes, HasCode
  <2>3. CASE codes = <<Word("err", ErrorCode)>> /\ v \in ErrorCodes
    <3>1. codes # << >>
      BY <2>3
    <3>2. e.err = ErrorCode /\ e \in Events
      BY <1>1, <2>1, <2>3, <3>1 DEF Events
    <3> QED
      BY <1>1, <2>1, <2>3, <3>2 DEF Codes, HasCode
  <2> QED
    BY <2>2, <2>3
<1>5. event' = <<e>> \o event /\ interrupted' = <<i>> \o interrupted
  <2>1. (IF codes = << >> THEN -1 ELSE codes[1].val) = (IF codes = << >> THEN -1 ELSE ErrorCode)
    BY <1>2
  <2>2. event' = <<e>> \o event
    BY <2>1 DEF Deliver
  <2>3. interrupted' = <<i>> \o interrupted
    BY Zenon DEF Deliver
  <2> QED
    BY <2>2, <2>3
<1>6. /\ cpu' = [eip |-> Handler(v), cs |-> 0, flags |-> 0, gpr |-> cpu.gpr]
      /\ Handler(v) \in Labels \X Int /\ cpu' \in Cpus
  BY <1>0, Gate DEF Deliver, GateFlags, Cpus
<1>7. i.cpu.gpr = cpu.gpr /\ i.cpu.eip = eip /\ i.cpu.cs = cpu.cs /\ i.stack = stack
  BY <1>0 DEF Cpus
<1>8. /\ Frame(i) \in Seq(Words) /\ stack' \in Seq(Words)
  <2>1. Frame(i) \in Seq(Words)
    BY <1>3, FrameOf
  <2> QED
    BY <1>2a, <1>3, <2>1, ConcatProperties
<1>9. Shape(now', e, i)
  <2>1. now'.cpu = cpu' /\ now'.stack = stack'
    BY DEF now
  <2>2. CASE Handler(v) = <<"idt_trampoline", v>>
    <3>1. now'.cpu.eip = <<"idt_trampoline", v>> /\ now'.cpu.cs = 0 /\ now'.cpu.gpr = i.cpu.gpr
      BY <1>6, <1>7, <2>1, <2>2
    <3>2. now'.stack = Codes(e) \o Frame(i)
      BY <1>3, <1>4, <2>1
    <3>3. InTrampoline(now', e, i)
      BY <3>1, <3>2 DEF InTrampoline
    <3> QED
      BY <1>4, <3>1, <3>3 DEF Shape
  <2>3. CASE v \notin ErrorCodes /\ Handler(v) \in {<<"bp_handler", v>>, <<"syscall_isr", v>>}
    <3>1. stack' = Frame(i)
      BY <1>3, <1>8, <2>3, ConcatEmptySeq
    <3> QED
      BY <1>4, <1>6, <1>7, <2>1, <2>3, <3>1 DEF Shape, Entered
  <2> QED
    BY <1>0, <2>2, <2>3, Gate
<1>10. n > 0 => i = now
  <2>1. n > 0 => ~running
    BY <1>0, Bottom, SMT
  <2>2. [cpu EXCEPT !.eip = cpu.eip] = cpu
    BY <1>0 DEF Cpus
  <2> QED
    BY <2>1, <2>2 DEF now
<1>11. n = 0 => Runs(i)
  <2>1. n = 0 => running /\ Runs(now)
    BY Bottom
  <2> QED
    BY <1>7, <2>1 DEF Runs, now
<1> HIDE DEF i, e, n
<1>12. /\ interrupted' \in Seq(Contexts) /\ Len(interrupted') = n + 1
       /\ interrupted'[1] = i /\ \A k \in 1 .. n : interrupted'[k + 1] = interrupted[k]
  <2> DEFINE s == interrupted
  <2>1. /\ <<i>> \o s \in Seq(Contexts) /\ Len(<<i>> \o s) = Len(s) + 1
        /\ (<<i>> \o s)[1] = i /\ \A k \in 1 .. Len(s) : (<<i>> \o s)[k + 1] = s[k]
    <3> HIDE DEF s
    <3>1. s \in Seq(Contexts) /\ i \in Contexts
      BY <1>0, <1>3 DEF s
    <3> QED
      BY <3>1, Cons
  <2> QED
    BY <1>5, <2>1 DEF n
<1>13. /\ event' \in Seq(Events) /\ Len(event') = n + 1
       /\ event'[1] = e /\ \A k \in 1 .. n : event'[k + 1] = event[k]
  BY <1>0, <1>4, <1>5, Cons
<1>14. Types'
  <2>1. ASSUME NEW k \in 1 .. n + 1 PROVE interrupted'[k].cpu.gpr \in Gpr \cup {0}
    <3>1. CASE k = 1
      BY <1>0, <1>7, <1>12, <3>1
    <3>2. CASE k # 1
      <4>1. k - 1 \in 1 .. n /\ k = (k - 1) + 1
        BY <1>0, <3>2, SMT
      <4> QED
        BY <1>0, <1>12, <4>1 DEF Types, n
    <3> QED
      BY <3>1, <3>2
  <2>2. cpu'.gpr \in Gpr \cup {0}
    BY <1>0, <1>6
  <2> QED
    BY <1>0, <1>6, <1>8, <1>12, <1>13, <2>1, <2>2 DEF Types
<1>15. Runs(interrupted'[n + 1])
  <2>1. CASE n = 0
    BY <1>11, <1>12, <2>1
  <2>2. CASE n # 0
    <3>1. n \in 1 .. n /\ n > 0
      BY <1>0, <2>2, SMT
    <3> QED
      BY <1>12, <3>1 DEF StackInv, n
  <2> QED
    BY <2>1, <2>2
<1>16. ASSUME NEW k \in 1 .. n
       PROVE  Shape(interrupted'[k], event'[k + 1], interrupted'[k + 1])
  <2>1. CASE k = 1
    <3>1. n > 0 /\ 1 \in 1 .. n
      BY <1>0, <2>1, SMT
    <3>2. Shape(now, event[1], interrupted[1])
      BY <3>1 DEF StackInv, n
    <3> QED
      BY <1>10, <1>12, <1>13, <2>1, <3>1, <3>2
  <2>2. CASE k # 1
    <3>1. k - 1 \in 1 .. n - 1 /\ k - 1 \in 1 .. n /\ k = (k - 1) + 1
      BY <1>0, <2>2, SMT
    <3>2. Shape(interrupted[k - 1], event[(k - 1) + 1], interrupted[(k - 1) + 1])
      BY <3>1 DEF StackInv, n
    <3> QED
      BY <1>12, <1>13, <3>1, <3>2
  <2> QED
    BY <2>1, <2>2
<1>17. Runs(now)' <=> Runs(now')
  BY DEF Runs
<1>18. n + 1 > 0 /\ n + 1 # 0 /\ (n + 1) - 1 = n
  BY <1>0, SMT
<1>19. StackInv'
  BY <1>9, <1>12, <1>13, <1>14, <1>15, <1>16, <1>17, <1>18 DEF StackInv
<1> QED
  BY <1>5, <1>6, <1>12, <1>19 DEF i, e, n

-----------------------------------------------------------------------------
(* The lines of the controllers *)

\* A set of lines has a most urgent one.
LEMMA LeastOf ==
  ASSUME NEW s \in SUBSET (0 .. 7), s # {}
  PROVE  Least(s) \in s /\ Least(s) \in 0 .. 7
<1>1. \E i \in s : \A j \in s : i <= j
  <2>1. \A j \in s : j \in {0, 1, 2, 3, 4, 5, 6, 7}
    BY SMT
  <2>2. CASE 0 \in s
    BY <2>1, <2>2, SMT
  <2>3. CASE 1 \in s /\ 0 \notin s
    BY <2>1, <2>3, SMT
  <2>4. CASE 2 \in s /\ 0 \notin s /\ 1 \notin s
    BY <2>1, <2>4, SMT
  <2>5. CASE 3 \in s /\ 0 \notin s /\ 1 \notin s /\ 2 \notin s
    BY <2>1, <2>5, SMT
  <2>6. CASE 4 \in s /\ 0 \notin s /\ 1 \notin s /\ 2 \notin s /\ 3 \notin s
    BY <2>1, <2>6, SMT
  <2>7. CASE 5 \in s /\ 0 \notin s /\ 1 \notin s /\ 2 \notin s /\ 3 \notin s /\ 4 \notin s
    BY <2>1, <2>7, SMT
  <2>8. CASE /\ 0 \notin s /\ 1 \notin s /\ 2 \notin s /\ 3 \notin s /\ 4 \notin s
             /\ 5 \notin s
    <3>1. \A j \in s : j = 6 \/ j = 7
      BY <2>1, <2>8
    <3>2. CASE 6 \in s
      BY <3>1, <3>2, SMT
    <3>3. CASE 6 \notin s
      <4>1. \A j \in s : j = 7
        BY <3>1, <3>3
      <4>2. 7 \in s
        BY <4>1
      <4>3. \A j \in s : 7 <= j
        BY <4>1, SMT
      <4> QED
        BY <4>2, <4>3
    <3> QED
      BY <3>2, <3>3
  <2> QED
    BY <2>2, <2>3, <2>4, <2>5, <2>6, <2>7, <2>8
<1>2. Least(s) \in s
  BY <1>1 DEF Least
<1> QED
  BY <1>2

\* The line acknowledged is one requested; the slave's come through the cascade.
LEMMA AckOf ==
  ASSUME irr \subseteq Irqs, Asserts
  PROVE  \/ Acknowledged \in 0 .. 7
         \/ Acknowledged \in 8 .. 15
<1>1. SlaveLines \subseteq 0 .. 7 /\ MasterLines \subseteq 0 .. 7
  <2>1. \A k \in irr : k \in 0 .. 15
    BY IrqsAssumption
  <2>2. SlaveLines \subseteq 0 .. 7
    BY <2>1, SMT DEF SlaveLines
  <2>3. \A k \in irr : k < 8 => k \in 0 .. 7
    BY <2>1, SMT
  <2> QED
    BY <2>2, <2>3, SMT DEF MasterLines, Cascade
<1>2. MasterLines # {}
  BY DEF Asserts, Heard
<1>3. Least(MasterLines) \in MasterLines /\ Least(MasterLines) \in 0 .. 7
  BY <1>1, <1>2, LeastOf
<1>4. CASE Least(MasterLines) # Cascade
  BY <1>3, <1>4 DEF Acknowledged
<1>5. CASE Least(MasterLines) = Cascade
  <2>1. Cascade \notin irr
    BY IrqsAssumption
  <2>2. SlaveAsserts
    BY <1>3, <1>5, <2>1 DEF MasterLines
  <2>3. SlaveLines # {}
    BY <2>2 DEF SlaveAsserts, Heard
  <2>4. Least(SlaveLines) \in 0 .. 7
    BY <1>1, <2>3, LeastOf
  <2>5. Acknowledged = 8 + Least(SlaveLines)
    BY <1>5 DEF Acknowledged
  <2> QED
    BY <2>4, <2>5, SMT
<1> QED
  BY <1>4, <1>5

\* A non-specific end of interrupt with at most one line in service ends it.
LEMMA RetireOne ==
  ASSUME NEW s, NEW i \in 0 .. 7, s \subseteq {i}
  PROVE  Retire(s) = {} /\ s \subseteq 0 .. 7
<1>1. CASE s = {}
  BY <1>1 DEF Retire
<1>2. CASE s # {}
  <2>1. s = {i}
    BY <1>2
  <2>2. Least(s) = i
    BY <2>1, LeastOf
  <2> QED
    BY <2>1, <2>2 DEF Retire
<1> QED
  BY <1>1, <1>2

-----------------------------------------------------------------------------
(* The events *)

\* The vectors of the lines.
LEMMA Vector ==
  /\ \A i \in 0 .. 7 : VectorOf(i) = 32 + i
  /\ \A i \in 8 .. 15 : VectorOf(i) = 40 + (i - 8)
  BY SMT DEF VectorOf, IrqBase1, IrqBase2

\* A vector, and the level that its event enters
Enters(v) ==
    /\ StackInv'
    /\ \E err \in Int : event' = <<[nr |-> v, err |-> err]>> \o event
    /\ Len(interrupted') = Len(interrupted) + 1
    /\ interrupted' = <<[cpu |-> [cpu EXCEPT !.eip = interrupted'[1].cpu.eip],
                         stack |-> stack]>> \o interrupted
    /\ interrupted'[1].cpu.eip = cpu.eip \/ running
    /\ cpu'.flags = 0
    /\ \/ cpu'.eip[1] = "idt_trampoline"
       \/ cpu'.eip[1] \in {"bp_handler", "syscall_isr"} /\ v \notin 32 .. 47

\* Each event enters a level: its vector, and who lets it in.
LEMMA Events1 ==
  ASSUME StackInv, irr \subseteq Irqs
  PROVE  /\ Exception \/ SoftwareInterrupt =>
                running /\ (\E v \in (0 .. 31) \cup (48 .. 255) : Enters(v))
         /\ NMI => Enters(2)
         /\ IRQ => cpu.flags = 1 /\ Enters(VectorOf(Acknowledged))
         /\ Spurious => cpu.flags = 1 /\ (\/ Enters(39) /\ UNCHANGED isr1
                                          \/ Enters(47) /\ isr1' = isr1 \cup {Cascade})
<1>0. cpu \in Cpus /\ cpu.eip \in Labels \X Int /\ ProcessorCodes = ErrorCodes
      /\ interrupted \in Seq(Contexts) /\ stack \in Seq(Words)
  BY DEF StackInv, Types, Cpus, ProcessorCodes, ErrorCodes
<1>1. running => cpu.eip \in {Code(0), Code(1)}
  BY DEF running
<1>2. ASSUME NEW v \in 0 .. 255, NEW eip \in Labels \X Int, NEW codes,
             \/ codes = << >> /\ v \notin ErrorCodes
             \/ codes = <<Word("err", ErrorCode)>> /\ v \in ErrorCodes,
             eip = cpu.eip \/ running,
             running => eip \in {Code(0), Code(1)},
             Deliver(v, codes, eip), UNCHANGED idt
      PROVE  Enters(v)
  <2> DEFINE i == [cpu |-> [cpu EXCEPT !.eip = eip], stack |-> stack]
  <2>1. /\ StackInv'
        /\ event' = <<[nr |-> v, err |-> IF codes = << >> THEN -1 ELSE ErrorCode]>> \o event
        /\ Len(interrupted') = Len(interrupted) + 1
        /\ interrupted' = <<i>> \o interrupted
        /\ cpu'.flags = 0 /\ cpu'.eip = Handler(v)
    BY <1>2, StackDeliver
  <2>0. \/ cpu'.eip[1] = "idt_trampoline"
        \/ cpu'.eip[1] \in {"bp_handler", "syscall_isr"} /\ v \notin 32 .. 47
    <3>1. CASE v \in DOMAIN idt
      <4>1. \/ v = 3 /\ idt[v] = "bp_handler"
            \/ v = 48 /\ idt[v] = "syscall_isr"
        BY <3>1 DEF StackInv, Types
      <4>2. v \notin 32 .. 47
        BY <4>1, SMT
      <4> QED
        BY <2>1, <3>1, <4>1, <4>2 DEF Handler
    <3>2. CASE v \notin DOMAIN idt
      BY <2>1, <3>2 DEF Handler
    <3> QED
      BY <3>1, <3>2
  <2>2. i \in Contexts /\ i.cpu.eip = eip
    BY <1>0 DEF Contexts, Cpus
  <2>3. (IF codes = << >> THEN -1 ELSE ErrorCode) \in Int
    BY DEF ErrorCode
  <2>4. interrupted'[1] = i
    <3> HIDE DEF i
    <3>1. (<<i>> \o interrupted)[1] = i
      BY <1>0, <2>2, Cons
    <3> QED
      BY <2>1, <3>1
  <2>5. interrupted'[1].cpu.eip = eip
    BY <2>2, <2>4
  <2>6. interrupted' = <<[cpu |-> [cpu EXCEPT !.eip = interrupted'[1].cpu.eip],
                          stack |-> stack]>> \o interrupted
    BY <2>1, <2>5
  <2>7. \E err \in Int : event' = <<[nr |-> v, err |-> err]>> \o event
    BY <2>1, <2>3
  <2>8. interrupted'[1].cpu.eip = cpu.eip \/ running
    BY <1>2, <2>5
  <2> QED
    BY <2>0, <2>1, <2>6, <2>7, <2>8, Zenon DEF Enters
<1>3. ASSUME Exception PROVE running /\ (\E v \in (0 .. 31) \cup (48 .. 255) : Enters(v))
  <2>1. PICK v \in Vectors :
          Deliver(v, IF v \in ProcessorCodes THEN <<Word("err", ErrorCode)>> ELSE << >>, cpu.eip)
    BY <1>3 DEF Exception
  <2>2. v \in 0 .. 19
    BY VectorsAssumption
  <2>3. v \in 0 .. 255 /\ v \in 0 .. 31
    BY <2>2, SMT
  <2>4. running /\ UNCHANGED idt
    BY <1>3 DEF Exception, Execute, kernel
  <2> DEFINE codes == IF v \in ProcessorCodes THEN <<Word("err", ErrorCode)>> ELSE << >>
  <2>5. \/ codes = << >> /\ v \notin ErrorCodes
        \/ codes = <<Word("err", ErrorCode)>> /\ v \in ErrorCodes
    BY <1>0
  <2> HIDE DEF codes
  <2>6. Deliver(v, codes, cpu.eip)
    BY <2>1 DEF codes
  <2>7. Enters(v)
    BY <1>0, <1>1, <1>2, <2>3, <2>4, <2>5, <2>6
  <2> QED
    BY <2>3, <2>4, <2>7
<1>4. ASSUME SoftwareInterrupt PROVE running /\ (\E v \in (0 .. 31) \cup (48 .. 255) : Enters(v))
  <2>1. running /\ UNCHANGED idt
    BY <1>4 DEF SoftwareInterrupt, Execute, kernel
  <2>2. PICK v \in IntVectors :
          \/ Deliver(v, << >>, Code(1 - cpu.eip[2]))
          \/ Deliver(13, <<Word("err", ErrorCode)>>, cpu.eip)
    BY <1>4 DEF SoftwareInterrupt
  <2>3. v \in {3, 4, 5} \cup (20 .. 31) \cup (48 .. 255)
    BY IntAssumption
  <2>4. v \in 0 .. 255 /\ v \in (0 .. 31) \cup (48 .. 255) /\ v \notin ErrorCodes
    BY <2>3, SMT DEF ErrorCodes
  <2>5. CASE Deliver(v, << >>, Code(1 - cpu.eip[2]))
    <3>1. Code(1 - cpu.eip[2]) \in {Code(0), Code(1)} /\ Code(1 - cpu.eip[2]) \in Labels \X Int
      <4>1. cpu.eip[2] = 0 \/ cpu.eip[2] = 1
        BY <1>1, <2>1 DEF Code
      <4>2. 1 - cpu.eip[2] = 0 \/ 1 - cpu.eip[2] = 1
        BY <4>1, SMT
      <4> QED
        BY <4>2 DEF Code, Labels
    <3>2. Enters(v)
      BY <1>2, <2>1, <2>4, <2>5, <3>1
    <3> QED
      BY <2>1, <2>4, <3>2
  <2>6. CASE Deliver(13, <<Word("err", ErrorCode)>>, cpu.eip)
    <3>1. 13 \in 0 .. 255 /\ 13 \in (0 .. 31) \cup (48 .. 255) /\ 13 \in ErrorCodes
      BY SMT DEF ErrorCodes
    <3>2. Enters(13)
      BY <1>0, <1>1, <1>2, <2>1, <2>6, <3>1
    <3> QED
      BY <2>1, <3>1, <3>2
  <2> QED
    BY <2>2, <2>5, <2>6
<1>5. ASSUME NEW v \in 0 .. 255, v \notin ErrorCodes, Deliver(v, << >>, cpu.eip), UNCHANGED idt
      PROVE  Enters(v)
  BY <1>0, <1>1, <1>2, <1>5
<1>6. ASSUME NMI PROVE Enters(2)
  <2>1. 2 \in 0 .. 255 /\ 2 \notin ErrorCodes
    BY SMT DEF ErrorCodes
  <2> QED
    BY <1>5, <1>6, <2>1 DEF NMI
<1>7. ASSUME IRQ PROVE cpu.flags = 1 /\ Enters(VectorOf(Acknowledged))
  <2>1. Acknowledged \in 0 .. 7 \/ Acknowledged \in 8 .. 15
    BY <1>7, AckOf DEF IRQ
  <2>2. VectorOf(Acknowledged) \in 32 .. 47
    BY <2>1, Vector, SMT
  <2>3. VectorOf(Acknowledged) \in 0 .. 255 /\ VectorOf(Acknowledged) \notin ErrorCodes
    BY <2>2, SMT DEF ErrorCodes
  <2> QED
    BY <1>5, <1>7, <2>3 DEF IRQ, kernel
<1>8. ASSUME Spurious
      PROVE  cpu.flags = 1 /\ (\/ Enters(39) /\ UNCHANGED isr1
                               \/ Enters(47) /\ isr1' = isr1 \cup {Cascade})
  <2>1. VectorOf(7) = 39 /\ VectorOf(15) = 47
    BY SMT DEF VectorOf, IrqBase1, IrqBase2
  <2>2. /\ 39 \in 0 .. 255 /\ 39 \notin ErrorCodes
        /\ 47 \in 0 .. 255 /\ 47 \notin ErrorCodes
    BY SMT DEF ErrorCodes
  <2> QED
    BY <1>5, <1>8, <2>1, <2>2 DEF Spurious
<1> QED
  BY <1>3, <1>4, <1>6, <1>7, <1>8

-----------------------------------------------------------------------------
(* StackInv is an invariant *)

\* The processor starts with nothing interrupted.
LEMMA StackInit == Init => StackInv
<1> SUFFICES ASSUME Init PROVE StackInv
  OBVIOUS
<1>1. /\ << >> \in Seq(Words) /\ << >> \in Seq(Events) /\ << >> \in Seq(Contexts)
      /\ Len(<< >>) = 0
  BY EmptySeq
<1>2. cpu \in Cpus /\ cpu.gpr \in Gpr \cup {0} /\ cpu.eip = Code(0) /\ cpu.cs = 0
  <2>1. /\ cpu.eip = Code(0) /\ cpu.cs = 0 /\ cpu.flags = 0 /\ cpu.gpr \in Gpr
        /\ cpu = [eip |-> cpu.eip, cs |-> cpu.cs, flags |-> cpu.flags, gpr |-> cpu.gpr]
    BY DEF Init
  <2>2. cpu.gpr \in Nat /\ cpu.gpr \in Gpr \cup {0}
    BY <2>1, GprAssumption
  <2>3. Code(0) \in Labels \X Int
    BY DEF Code, Labels
  <2>4. cpu.eip \in Labels \X Int /\ cpu.cs \in {0, 3} /\ cpu.flags \in {0, 1}
    BY <2>1, <2>3
  <2>5. cpu \in Cpus
    BY <2>1, <2>2, <2>4 DEF Cpus
  <2> QED
    BY <2>1, <2>2, <2>5
<1>3. Runs(now)
  BY <1>2 DEF Runs, now
<1>4. Types
  BY <1>1, <1>2, SMT DEF Init, Types
<1> QED
  BY <1>1, <1>3, <1>4, SMT DEF Init, StackInv

\* The code's own instructions change no level.
LEMMA StackCode ==
  StackInv /\ (Instruction \/ force_interrupts_on \/ ToRing3 \/ RaiseLine \/ UNCHANGED vars)
  => StackInv'
<1> SUFFICES ASSUME StackInv, Instruction \/ force_interrupts_on \/ ToRing3 \/ RaiseLine
                              \/ UNCHANGED vars
             PROVE  StackInv'
  OBVIOUS
<1>0. /\ cpu \in Cpus /\ cpu.gpr \in Gpr \cup {0} /\ stack \in Seq(Words)
      /\ running => Runs(now) /\ cpu.eip \in {Code(0), Code(1)} /\ 0 \in {0, 3} /\ 3 \in {0, 3}
      /\ UNCHANGED <<event, interrupted, idt>>
  BY Bottom DEF StackInv, Types, running, Instruction, force_interrupts_on, ToRing3,
                RaiseLine, vars, kernel
<1>1. CASE Instruction
  <2>1. running /\ stack' = stack
    BY <1>1 DEF Instruction, Execute
  <2>2. PICK g \in Gpr : cpu' = [cpu EXCEPT !.eip = Code(1 - @[2]), !.gpr = g]
    BY <1>1 DEF Instruction
  <2>3. g \in Nat /\ cpu.cs \in {0, 3} /\ cpu.flags \in {0, 1}
    BY <1>0, GprAssumption DEF Cpus
  <2>4. Code(1 - cpu.eip[2]) \in {Code(0), Code(1)} /\ Code(1 - cpu.eip[2]) \in Labels \X Int
    <3>1. cpu.eip[2] = 0 \/ cpu.eip[2] = 1
      BY <1>0, <2>1 DEF Code
    <3>2. 1 - cpu.eip[2] = 0 \/ 1 - cpu.eip[2] = 1
      BY <3>1, SMT
    <3> QED
      BY <3>2 DEF Code, Labels
  <2>5. /\ cpu' \in Cpus /\ cpu'.gpr \in Gpr \cup {0}
        /\ cpu'.eip \in {Code(0), Code(1)} /\ cpu'.cs = cpu.cs
    BY <1>0, <2>2, <2>3, <2>4 DEF Cpus
  <2>6. Runs(now')
    BY <1>0, <2>1, <2>5 DEF Runs, now
  <2> QED
    BY <1>0, <2>1, <2>5, <2>6, StackStep
<1>2. CASE force_interrupts_on
  <2>1. running /\ stack' = stack /\ cpu' = [cpu EXCEPT !.flags = 1]
    BY <1>2 DEF force_interrupts_on
  <2>2. cpu' \in Cpus /\ cpu'.gpr = cpu.gpr /\ cpu'.eip = cpu.eip /\ cpu'.cs = cpu.cs
    BY <1>0, <2>1 DEF Cpus
  <2>3. Runs(now')
    BY <1>0, <2>1, <2>2 DEF Runs, now
  <2> QED
    BY <1>0, <2>1, <2>2, <2>3, StackStep
<1>3. CASE ToRing3
  <2>1. running /\ stack' = << >> /\ cpu' = [cpu EXCEPT !.cs = 3]
    BY <1>3 DEF ToRing3, Execute
  <2>2. cpu' \in Cpus /\ cpu'.gpr = cpu.gpr /\ cpu'.eip = cpu.eip
    BY <1>0, <2>1 DEF Cpus
  <2>3. Runs(now')
    BY <1>0, <2>1, <2>2 DEF Runs, now
  <2>4. stack' \in Seq(Words)
    BY <2>1, EmptySeq
  <2> QED
    BY <1>0, <2>1, <2>2, <2>3, <2>4, StackStep
<1>4. CASE RaiseLine \/ UNCHANGED vars
  <2>1. cpu' = cpu /\ stack' = stack
    BY <1>4 DEF RaiseLine, vars
  <2>2. ~running => Shape(now, e1, i1)
    <3>1. ~running => Len(interrupted) > 0
      BY Levels
    <3> QED
      BY <3>1 DEF StackInv, e1, i1
  <2>3. now' = now
    BY <2>1 DEF now
  <2> QED
    BY <1>0, <2>1, <2>2, <2>3, StackStep
<1> QED
  BY <1>1, <1>2, <1>3, <1>4

\* The steps that only a handler makes.
Handler1 == Trampoline \/ ack_pic1 \/ ack_pic2 \/ eoi_pic1 \/ idt_common \/ intr_hdlr
            \/ resume_from_intr \/ bp_handler \/ bp_body \/ bp_leave
            \/ syscall_isr \/ syscall_handler \/ syscall_end
Code1 == Instruction \/ force_interrupts_on \/ ToRing3 \/ RaiseLine \/ UNCHANGED vars
Event1 == Exception \/ SoftwareInterrupt \/ NMI \/ IRQ \/ Spurious

\* Every step is one of these.
LEMMA Steps == [Next]_vars => Handler1 \/ iret \/ Code1 \/ Event1
  BY DEF Next, Cpu, idt_s, Handlers, Handler1, Code1, Event1

\* Every step keeps StackInv.
LEMMA StackNext == StackInv /\ irr \subseteq Irqs /\ [Next]_vars => StackInv'
<1> SUFFICES ASSUME StackInv, irr \subseteq Irqs, [Next]_vars PROVE StackInv'
  OBVIOUS
<1>1. CASE Handler1
  BY <1>1, StackTrampoline, StackAck, StackEoi, StackCommon, StackHandler, StackResume,
     StackEnter, StackBody, StackLeave, StackSyscall DEF Handler1
<1>2. CASE iret
  BY <1>2, StackIret
<1>3. CASE Code1
  BY <1>3, StackCode DEF Code1
<1>4. CASE Event1
  BY <1>4, Events1 DEF Event1, Enters
<1> QED
  BY <1>1, <1>2, <1>3, <1>4, Steps

-----------------------------------------------------------------------------
(* The lines in service, and the nesting *)

Acking == {"idt_trampoline", "ack_pic1", "ack_pic2", "eoi_pic1"}

\* The handler of a vector has interrupts off, and ends the lines of its vector's kind.
Level(c, nr) ==
    /\ c.cpu.flags = 0
    /\ c.cpu.eip[1] = "ack_pic1" => nr \in 32 .. 39
    /\ c.cpu.eip[1] = "ack_pic2" => nr \in 40 .. 47
    /\ c.cpu.eip[1] = "eoi_pic1" => nr \in 32 .. 47

\* What is in service while the first handler is at an instruction.
Serves(c, nr, s1, s2) ==
    /\ nr \in 32 .. 39 => s1 \subseteq {nr - 32} /\ s2 = {}
    /\ nr \in 40 .. 47 => s1 \subseteq {Cascade} /\ s2 \subseteq {nr - 40}
    /\ nr \notin 32 .. 47 => s1 = {} /\ s2 = {}
    /\ c.cpu.eip[1] \notin Acking => s1 = {} /\ s2 = {}
    /\ c.cpu.eip[1] = "eoi_pic1" => s2 = {}

\* Only an NMI breaks into a handler, and no NMI into its own.
Path(n, c, e, i, s1, s2) ==
    /\ n <= 2
    /\ n = 0 => s1 = {} /\ s2 = {}
    /\ n = 1 => Level(c, e[1].nr) /\ Serves(c, e[1].nr, s1, s2)
    /\ n = 2 => /\ e[1].nr = 2 /\ e[2].nr # 2
                /\ Level(c, 2) /\ Level(i[1], e[2].nr) /\ Serves(i[1], e[2].nr, s1, s2)

Bounded == irr \subseteq Irqs /\ raises \in 0 .. MaxRaise /\ nmis \in 0 .. MaxNMI

PathInv ==
    StackInv /\ Bounded /\ Path(Len(interrupted), now, event, interrupted, isr1, isr2)

\* What a step of a handler does to the label it is at and to the lines.
LEMMA Moves ==
  ASSUME StackInv, Handler1
  PROVE  /\ UNCHANGED <<event, interrupted, irr, raises, nmis>> /\ cpu'.flags = cpu.flags
         /\ ~running
         /\ \/ /\ cpu.eip[1] = "idt_trampoline" /\ UNCHANGED <<isr1, isr2>>
               /\ cpu'.eip[1] \in {"ack_pic1", "ack_pic2", "idt_common", "iret"}
               /\ cpu'.eip[1] = "ack_pic1" <=> e1.nr \in 32 .. 39
               /\ cpu'.eip[1] = "ack_pic2" <=> e1.nr \in 40 .. 47
            \/ /\ cpu.eip[1] = "ack_pic1" /\ UNCHANGED <<isr1, isr2>>
               /\ cpu'.eip[1] = "eoi_pic1"
            \/ /\ cpu.eip[1] = "ack_pic2" /\ isr2' = Retire(isr2) /\ UNCHANGED isr1
               /\ cpu'.eip[1] = "eoi_pic1"
            \/ /\ cpu.eip[1] = "eoi_pic1" /\ isr1' = Retire(isr1) /\ UNCHANGED isr2
               /\ cpu'.eip[1] = "idt_common"
            \/ /\ cpu.eip[1] \notin Acking /\ cpu'.eip[1] \notin Acking
               /\ UNCHANGED <<isr1, isr2>>
<1>0. cpu \in Cpus
  BY DEF StackInv, Types
<1>1. \A l : /\ Goto(l).eip[1] = l /\ Goto(l).flags = cpu.flags
             /\ \A g : [Goto(l) EXCEPT !.gpr = g].eip[1] = l
                       /\ [Goto(l) EXCEPT !.gpr = g].flags = cpu.flags
  BY <1>0 DEF Goto, At, Cpus
<1>2. CASE Trampoline
  <2>1. cpu.eip[1] = "idt_trampoline" /\ UNCHANGED <<event, interrupted, irr, raises, nmis, isr1, isr2>>
    BY <1>2 DEF Trampoline, pics, kernel
  <2>2. ~running
    BY <2>1, Bottom
  <2>3. cpu.eip[2] = e1.nr
    BY <2>1, <2>2, Levels DEF InTrampoline, now
  <2>4. CASE e1.nr \in Reserved
    <3>1. cpu' = Goto("iret")
      BY <1>2, <2>3, <2>4 DEF Trampoline
    <3>2. e1.nr \notin 32 .. 39 /\ e1.nr \notin 40 .. 47
      BY <2>4, SMT DEF Reserved
    <3> QED
      BY <1>1, <2>1, <2>2, <3>1, <3>2
  <2>5. CASE e1.nr \notin Reserved
    <3>1. cpu' = Goto(CASE e1.nr \in 32 .. 39 -> "ack_pic1"
                        [] e1.nr \in 40 .. 47 -> "ack_pic2"
                        [] OTHER -> "idt_common")
      BY <1>2, <2>3, <2>5 DEF Trampoline
    <3>2. CASE e1.nr \in 32 .. 39
      <4>1. e1.nr \notin 40 .. 47
        BY <3>2, SMT
      <4>2. cpu' = Goto("ack_pic1")
        BY <3>1, <3>2, <4>1
      <4> QED
        BY <1>1, <2>1, <2>2, <3>2, <4>1, <4>2
    <3>3. CASE e1.nr \in 40 .. 47
      <4>1. e1.nr \notin 32 .. 39
        BY <3>3, SMT
      <4>2. cpu' = Goto("ack_pic2")
        BY <3>1, <3>3, <4>1
      <4> QED
        BY <1>1, <2>1, <2>2, <3>3, <4>1, <4>2
    <3>4. CASE e1.nr \notin 32 .. 39 /\ e1.nr \notin 40 .. 47
      <4>1. cpu' = Goto("idt_common")
        BY <3>1, <3>4
      <4> QED
        BY <1>1, <2>1, <2>2, <3>4, <4>1
    <3> QED
      BY <3>2, <3>3, <3>4
  <2> QED
    BY <2>4, <2>5
<1>3. CASE ack_pic1
  <2>1. cpu.eip[1] = "ack_pic1" /\ UNCHANGED <<event, interrupted, irr, raises, nmis, isr1, isr2>>
    BY <1>3 DEF ack_pic1, At, pics, kernel
  <2> QED
    BY <1>1, <1>3, <2>1, Bottom DEF ack_pic1
<1>4. CASE ack_pic2
  <2>1. cpu.eip[1] = "ack_pic2" /\ UNCHANGED <<event, interrupted, irr, raises, nmis, isr1>>
    BY <1>4 DEF ack_pic2, At, kernel
  <2> QED
    BY <1>1, <1>4, <2>1, Bottom DEF ack_pic2
<1>5. CASE eoi_pic1
  <2>1. cpu.eip[1] = "eoi_pic1" /\ UNCHANGED <<event, interrupted, irr, raises, nmis, isr2>>
    BY <1>5 DEF eoi_pic1, At, kernel
  <2> QED
    BY <1>1, <1>5, <2>1, Bottom DEF eoi_pic1
<1>6. CASE idt_common \/ intr_hdlr \/ resume_from_intr \/ bp_handler \/ bp_body \/ bp_leave
           \/ syscall_isr \/ syscall_handler \/ syscall_end
  <2>1. UNCHANGED <<event, interrupted, irr, raises, nmis, isr1, isr2>>
    BY <1>6 DEF idt_common, intr_hdlr, resume_from_intr, bp_handler, bp_body, bp_leave,
                syscall_isr, syscall_handler, syscall_end, pics, kernel
  <2>2. cpu.eip[1] \notin Acking /\ cpu.eip[1] # "code"
    BY <1>6 DEF idt_common, intr_hdlr, resume_from_intr, bp_handler, bp_body, bp_leave,
                syscall_isr, syscall_handler, syscall_end, At, Acking
  <2>3. \E l \in {"intr_hdlr", "panic", "resume_from_intr", "iret", "bp_body", "bp_leave",
                  "syscall_handler", "syscall_end"} :
            cpu' = Goto(l) \/ \E g : cpu' = [Goto(l) EXCEPT !.gpr = g]
    BY <1>6 DEF idt_common, intr_hdlr, resume_from_intr, bp_handler, bp_body, bp_leave,
                syscall_isr, syscall_handler, syscall_end
  <2>4. PICK l \in {"intr_hdlr", "panic", "resume_from_intr", "iret", "bp_body", "bp_leave",
                  "syscall_handler", "syscall_end"} :
            cpu' = Goto(l) \/ \E g : cpu' = [Goto(l) EXCEPT !.gpr = g]
    BY <2>3
  <2>5. cpu'.eip[1] = l /\ cpu'.flags = cpu.flags
    <3>1. CASE cpu' = Goto(l)
      BY <1>1, <3>1
    <3>2. CASE \E g : cpu' = [Goto(l) EXCEPT !.gpr = g]
      <4>1. PICK g : cpu' = [Goto(l) EXCEPT !.gpr = g]
        BY <3>2
      <4>2. /\ [Goto(l) EXCEPT !.gpr = g].eip[1] = l
            /\ [Goto(l) EXCEPT !.gpr = g].flags = cpu.flags
        BY <1>1
      <4> QED
        BY <4>1, <4>2
    <3> QED
      BY <2>4, <3>1, <3>2
  <2>6. cpu'.eip[1] \notin Acking /\ cpu'.flags = cpu.flags
    BY <2>5 DEF Acking
  <2> QED
    BY <2>1, <2>2, <2>6, Bottom
<1> QED
  BY <1>2, <1>3, <1>4, <1>5, <1>6 DEF Handler1

\* Nothing is in service that the handler's own trampoline does not end.
LEMMA PathHandler ==
  ASSUME PathInv, Handler1
  PROVE  Path(Len(interrupted'), now', event', interrupted', isr1', isr2')
<1> DEFINE n == Len(interrupted)
           nr == e1.nr
           l == cpu.eip[1]
           k == cpu'.eip[1]
<1>1. now.cpu = cpu /\ now'.cpu = cpu' /\ StackInv
  BY DEF now, PathInv
<1>2. /\ UNCHANGED <<event, interrupted>> /\ cpu'.flags = cpu.flags /\ ~running
      /\ \/ /\ l = "idt_trampoline" /\ UNCHANGED <<isr1, isr2>>
            /\ k \in {"ack_pic1", "ack_pic2", "idt_common", "iret"}
            /\ k = "ack_pic1" <=> nr \in 32 .. 39
            /\ k = "ack_pic2" <=> nr \in 40 .. 47
         \/ l = "ack_pic1" /\ UNCHANGED <<isr1, isr2>> /\ k = "eoi_pic1"
         \/ l = "ack_pic2" /\ isr2' = Retire(isr2) /\ UNCHANGED isr1 /\ k = "eoi_pic1"
         \/ l = "eoi_pic1" /\ isr1' = Retire(isr1) /\ UNCHANGED isr2 /\ k = "idt_common"
         \/ l \notin Acking /\ k \notin Acking /\ UNCHANGED <<isr1, isr2>>
  BY <1>1, Moves
<1>3. n > 0 /\ n \in Nat /\ n <= 2 /\ nr \in 0 .. 255
  <2>1. n > 0 /\ n \in Nat
    BY <1>1, <1>2, Levels, Bottom
  <2>2. e1 \in Events
    BY <1>1, <2>1, Top DEF StackInv
  <2> QED
    BY <2>1, <2>2 DEF Events, PathInv, Path
<1> HIDE DEF n, nr, l, k
<1>4. ASSUME Level(now, nr), Serves(now, nr, isr1, isr2)
      PROVE  Level(now', nr) /\ Serves(now', nr, isr1', isr2')
  <2>0. /\ cpu.flags = 0 /\ cpu'.flags = 0
        /\ l = "ack_pic1" => nr \in 32 .. 39
        /\ l = "ack_pic2" => nr \in 40 .. 47
        /\ l = "eoi_pic1" => nr \in 32 .. 47 /\ isr2 = {}
        /\ l \notin Acking => isr1 = {} /\ isr2 = {}
        /\ nr \in 32 .. 39 => isr1 \subseteq {nr - 32} /\ isr2 = {}
        /\ nr \in 40 .. 47 => isr1 \subseteq {Cascade} /\ isr2 \subseteq {nr - 40}
        /\ nr \notin 32 .. 47 => isr1 = {} /\ isr2 = {}
    BY <1>1, <1>2, <1>4 DEF Level, Serves, l
  <2>a. nr \in 32 .. 47 <=> nr \in 32 .. 39 \/ nr \in 40 .. 47
    BY <1>3, SMT
  <2>b. ~(nr \in 32 .. 39 /\ nr \in 40 .. 47)
    BY <1>3, SMT
  <2>1. CASE /\ l = "idt_trampoline" /\ UNCHANGED <<isr1, isr2>>
             /\ k \in {"ack_pic1", "ack_pic2", "idt_common", "iret"}
             /\ k = "ack_pic1" <=> nr \in 32 .. 39
             /\ k = "ack_pic2" <=> nr \in 40 .. 47
    <3>1. k # "eoi_pic1"
      BY <2>1
    <3>2. k \notin Acking => isr1 = {} /\ isr2 = {}
      <4>1. k \notin Acking => nr \notin 32 .. 47
        BY <2>1, <2>a DEF Acking
      <4> QED
        BY <2>0, <4>1
    <3>3. Level(now', nr)
      BY <1>1, <2>0, <2>1, <3>1 DEF Level, k
    <3>4. Serves(now', nr, isr1, isr2)
      BY <1>1, <2>0, <3>1, <3>2 DEF Serves, k
    <3> QED
      BY <2>1, <3>3, <3>4
  <2>2. CASE l = "ack_pic1" /\ UNCHANGED <<isr1, isr2>> /\ k = "eoi_pic1"
    <3>1. nr \in 32 .. 39 /\ isr2 = {} /\ nr \in 32 .. 47 /\ k \in Acking
      BY <2>0, <2>2, <2>a DEF Acking
    <3>2. Level(now', nr)
      BY <1>1, <2>0, <2>2, <3>1 DEF Level, k
    <3>3. Serves(now', nr, isr1, isr2)
      BY <1>1, <2>0, <2>2, <3>1 DEF Serves, k
    <3> QED
      BY <2>2, <3>2, <3>3
  <2>3. CASE l = "ack_pic2" /\ isr2' = Retire(isr2) /\ UNCHANGED isr1 /\ k = "eoi_pic1"
    <3>1. nr \in 40 .. 47 /\ nr \in 32 .. 47 /\ nr \notin 32 .. 39 /\ k \in Acking
      BY <2>0, <2>3, <2>a, <2>b DEF Acking
    <3>2. nr - 40 \in 0 .. 7
      BY <3>1, SMT
    <3>3. isr2' = {} /\ isr1' \subseteq {Cascade}
      BY <2>0, <2>3, <3>1, <3>2, RetireOne
    <3>4. Level(now', nr)
      BY <1>1, <2>0, <2>3, <3>1 DEF Level, k
    <3>5. Serves(now', nr, isr1', isr2')
      BY <1>1, <2>3, <3>1, <3>3 DEF Serves, k
    <3> QED
      BY <3>4, <3>5
  <2>4. CASE l = "eoi_pic1" /\ isr1' = Retire(isr1) /\ UNCHANGED isr2 /\ k = "idt_common"
    <3>1. nr \in 32 .. 47 /\ isr2 = {}
      BY <2>0, <2>4
    <3>2. isr1' = {}
      <4>1. CASE nr \in 32 .. 39
        <5>1. nr - 32 \in 0 .. 7
          BY <4>1, SMT
        <5> QED
          BY <2>0, <2>4, <4>1, <5>1, RetireOne
      <4>2. CASE nr \in 40 .. 47
        BY <2>0, <2>4, <4>2, RetireOne DEF Cascade
      <4> QED
        BY <2>a, <3>1, <4>1, <4>2
    <3>3. Level(now', nr)
      BY <1>1, <2>0, <2>4 DEF Level, k
    <3>4. Serves(now', nr, isr1', isr2')
      BY <1>1, <2>4, <3>1, <3>2 DEF Serves, k
    <3> QED
      BY <3>3, <3>4
  <2>5. CASE l \notin Acking /\ k \notin Acking /\ UNCHANGED <<isr1, isr2>>
    <3>1. Level(now', nr)
      BY <1>1, <2>0, <2>5 DEF Level, k, Acking
    <3>2. Serves(now', nr, isr1', isr2')
      BY <1>1, <2>0, <2>5 DEF Serves, k
    <3> QED
      BY <3>1, <3>2
  <2> QED
    BY <1>2, <2>1, <2>2, <2>3, <2>4, <2>5
<1>5. ASSUME Level(now, nr), nr = 2 PROVE Level(now', nr) /\ UNCHANGED <<isr1, isr2>>
  <2>1. nr \notin 32 .. 39 /\ nr \notin 40 .. 47 /\ nr \notin 32 .. 47
    BY <1>5, SMT
  <2>2. /\ cpu'.flags = 0 /\ l # "ack_pic1" /\ l # "ack_pic2" /\ l # "eoi_pic1"
    BY <1>1, <1>2, <1>5, <2>1 DEF Level, l
  <2>3. k # "ack_pic1" /\ k # "ack_pic2" /\ k # "eoi_pic1" /\ UNCHANGED <<isr1, isr2>>
    BY <1>2, <2>1, <2>2 DEF Acking
  <2> QED
    BY <1>1, <2>2, <2>3 DEF Level, k
<1>6. CASE n = 1
  <2>1. Level(now, nr) /\ Serves(now, nr, isr1, isr2)
    BY <1>6 DEF PathInv, Path, n, nr, e1
  <2>2. Level(now', nr) /\ Serves(now', nr, isr1', isr2')
    BY <1>4, <2>1
  <2> QED
    BY <1>2, <1>6, <2>2, SMT DEF Path, n, nr, e1
<1>7. CASE n = 2
  <2>1. /\ event[1].nr = 2 /\ event[2].nr # 2 /\ Level(now, 2) /\ nr = 2
        /\ Level(interrupted[1], event[2].nr)
        /\ Serves(interrupted[1], event[2].nr, isr1, isr2)
    BY <1>7 DEF PathInv, Path, n, nr, e1
  <2>2. Level(now', 2) /\ UNCHANGED <<isr1, isr2>>
    BY <1>5, <2>1
  <2> QED
    BY <1>2, <1>7, <2>1, <2>2, SMT DEF Path, n
<1>8. n = 1 \/ n = 2
  BY <1>3, SMT
<1> QED
  BY <1>6, <1>7, <1>8

\* The nestings there may be.
LEMMA UpTo2 ==
  ASSUME NEW n \in Nat, n <= 2
  PROVE  n = 0 \/ n = 1 \/ n = 2
  BY SMT

\* Between a handler's end and the code's next event nothing is in service.
LEMMA PathIret ==
  ASSUME PathInv, iret
  PROVE  Path(Len(interrupted'), now', event', interrupted', isr1', isr2')
<1> DEFINE n == Len(interrupted)
<1>1. /\ StackInv /\ n > 0 /\ n \in Nat /\ n <= 2 /\ Types
      /\ cpu' = i1.cpu /\ stack' = i1.stack /\ i1 \in Contexts
      /\ event' = Tail(event) /\ interrupted' = Tail(interrupted)
      /\ cpu.eip[1] = "iret" /\ UNCHANGED <<isr1, isr2>>
  BY Returned, Bottom, Top DEF PathInv, StackInv, Path, iret, At, pics
<1>2. /\ Len(interrupted') = n - 1 /\ \A k \in 1 .. n - 1 : event'[k] = event[k + 1]
  BY <1>1, Uncons DEF Types
<1>3. now' = i1
  BY <1>1 DEF now, Contexts
<1>4. CASE n = 1
  <2>1. Serves(now, event[1].nr, isr1, isr2)
    BY <1>4 DEF PathInv, Path
  <2>2. isr1 = {} /\ isr2 = {}
    BY <1>1, <2>1 DEF Serves, Acking, now
  <2>3. Len(interrupted') = 0
    BY <1>2, <1>4, SMT
  <2> QED
    BY <1>1, <2>2, <2>3, SMT DEF Path
<1>5. CASE n = 2
  <2>1. Level(interrupted[1], event[2].nr) /\ Serves(interrupted[1], event[2].nr, isr1, isr2)
    BY <1>5 DEF PathInv, Path
  <2>2. Len(interrupted') = 1 /\ 1 \in 1 .. n - 1 /\ 1 + 1 = 2
    BY <1>2, <1>5, SMT
  <2>3. event'[1] = event[2]
    BY <1>2, <2>2
  <2>4. Level(now', event'[1].nr) /\ Serves(now', event'[1].nr, isr1', isr2')
    BY <1>1, <1>3, <2>1, <2>3 DEF i1
  <2> HIDE DEF n
  <2> QED
    BY <2>2, <2>4, SMT DEF Path
<1> HIDE DEF n
<1>6. n # 0
  <2>1. n > 0
    BY <1>1
  <2> QED
    BY <2>1, SMT
<1>7. n = 1 \/ n = 2
  BY <1>1, <1>6, UpTo2
<1> QED
  BY <1>4, <1>5, <1>7

\* A handler has interrupts off.
LEMMA Off ==
  ASSUME PathInv
  PROVE  /\ Len(interrupted) \in {0, 1, 2}
         /\ cpu.flags = 1 \/ running => Len(interrupted) = 0 /\ isr1 = {} /\ isr2 = {}
<1>1. Len(interrupted) \in Nat /\ Len(interrupted) <= 2 /\ (running <=> Len(interrupted) = 0)
  BY Bottom DEF PathInv, Path
<1>2. Len(interrupted) \in {0, 1, 2}
  <2> DEFINE n == Len(interrupted)
  <2>1. n \in Nat /\ n <= 2
    BY <1>1
  <2> HIDE DEF n
  <2>2. n = 0 \/ n = 1 \/ n = 2
    BY <2>1, UpTo2
  <2> QED
    BY <2>2 DEF n
<1>3. Len(interrupted) # 0 => cpu.flags = 0
  BY <1>2 DEF PathInv, Path, Level, now
<1>4. Len(interrupted) = 0 => isr1 = {} /\ isr2 = {}
  BY DEF PathInv, Path
<1> QED
  BY <1>1, <1>2, <1>3, <1>4

\* The code's own instructions leave the controllers alone; a line raised is only latched.
LEMMA PathCode ==
  ASSUME PathInv, Code1
  PROVE  Path(Len(interrupted'), now', event', interrupted', isr1', isr2')
<1>1. UNCHANGED <<event, interrupted, isr1, isr2>>
  BY DEF Code1, Instruction, force_interrupts_on, ToRing3, RaiseLine, Raise, vars, pics
<1>2. CASE Instruction \/ force_interrupts_on \/ ToRing3
  <2>1. running
    BY <1>2 DEF Instruction, force_interrupts_on, ToRing3, Execute
  <2>2. Len(interrupted) = 0 /\ isr1 = {} /\ isr2 = {}
    BY <2>1, Off
  <2> QED
    BY <1>1, <2>2, SMT DEF Path
<1>3. CASE RaiseLine \/ UNCHANGED vars
  <2>1. now' = now
    BY <1>3 DEF RaiseLine, vars, now
  <2> QED
    BY <1>1, <2>1 DEF PathInv
<1> QED
  BY <1>2, <1>3 DEF Code1

\* The level an event enters is above those of before.
LevelAbove(v) ==
    /\ Len(interrupted') = Len(interrupted) + 1 /\ event'[1].nr = v
    /\ Len(interrupted) > 0 => interrupted'[1] = now /\ event'[2] = event[1]
    /\ Level(now', v)
    /\ cpu'.eip[1] # "eoi_pic1"
    /\ cpu'.eip[1] = "idt_trampoline" \/ v \notin 32 .. 47

\* An event enters such a level.
LEMMA Entering ==
  ASSUME StackInv, NEW v \in 0 .. 255, Enters(v)
  PROVE  LevelAbove(v)
<1>1. PICK err \in Int : event' = <<[nr |-> v, err |-> err]>> \o event
  BY DEF Enters
<1>2. /\ event \in Seq(Events) /\ interrupted \in Seq(Contexts) /\ Len(event) = Len(interrupted)
      /\ cpu \in Cpus /\ stack \in Seq(Words) /\ [nr |-> v, err |-> err] \in Events
  BY DEF StackInv, Types, Events
<1>3. /\ event'[1] = [nr |-> v, err |-> err]
      /\ \A k \in 1 .. Len(event) : event'[k + 1] = event[k]
  BY <1>1, <1>2, Cons
<1>4. ASSUME Len(interrupted) > 0 PROVE interrupted'[1] = now /\ event'[2] = event[1]
  <2>1. ~running /\ Len(interrupted) \in Nat
    BY <1>4, Bottom, SMT
  <2>2. interrupted'[1].cpu.eip = cpu.eip
    BY <2>1 DEF Enters
  <2>3. interrupted' = <<[cpu |-> [cpu EXCEPT !.eip = cpu.eip], stack |-> stack]>> \o interrupted
    <3>1. interrupted' = <<[cpu |-> [cpu EXCEPT !.eip = interrupted'[1].cpu.eip],
                            stack |-> stack]>> \o interrupted
      BY Zenon DEF Enters
    <3> DEFINE q == interrupted'[1].cpu.eip
    <3>2. interrupted' = <<[cpu |-> [cpu EXCEPT !.eip = q], stack |-> stack]>> \o interrupted
      BY <3>1
    <3>3. q = cpu.eip
      BY <2>2
    <3> HIDE DEF q
    <3> QED
      BY <3>2, <3>3
  <2>4. [cpu EXCEPT !.eip = cpu.eip] = cpu
    BY <1>2 DEF Cpus
  <2>5. interrupted' = <<now>> \o interrupted /\ now \in Contexts
    BY <1>2, <2>3, <2>4 DEF now, Contexts
  <2>6. interrupted'[1] = now
    BY <1>2, <2>5, Cons
  <2>7. 1 \in 1 .. Len(event) /\ 1 + 1 = 2
    BY <1>2, <1>4, <2>1, SMT
  <2> QED
    BY <1>3, <2>6, <2>7
<1>5. cpu'.flags = 0 /\ cpu'.eip[1] \in {"idt_trampoline", "bp_handler", "syscall_isr"}
  BY DEF Enters
<1>6. now'.cpu = cpu'
  BY DEF now
<1>7. Level(now', v)
  BY <1>5, <1>6 DEF Level
<1>8. cpu'.eip[1] = "idt_trampoline" \/ v \notin 32 .. 47
  BY DEF Enters
<1>9. Len(interrupted') = Len(interrupted) + 1
  BY DEF Enters
<1>10. event'[1].nr = v
  BY <1>3
<1>11. cpu'.eip[1] # "eoi_pic1"
  BY <1>5
<1> QED
  BY <1>4, <1>7, <1>8, <1>9, <1>10, <1>11 DEF LevelAbove

\* An event of the code's, when nothing is in service, with what its vector serves.
LEMMA PathFirst ==
  ASSUME StackInv, Len(interrupted) = 0, NEW v \in 0 .. 255, Enters(v),
         v \in 32 .. 39 => isr1' \subseteq {v - 32} /\ isr2' = {},
         v \in 40 .. 47 => isr1' \subseteq {Cascade} /\ isr2' \subseteq {v - 40},
         v \notin 32 .. 47 => isr1' = {} /\ isr2' = {}
  PROVE  Path(Len(interrupted'), now', event', interrupted', isr1', isr2')
<1>0. /\ Len(interrupted') = Len(interrupted) + 1 /\ event'[1].nr = v /\ Level(now', v)
      /\ cpu'.eip[1] # "eoi_pic1" /\ (cpu'.eip[1] = "idt_trampoline" \/ v \notin 32 .. 47)
  <2>1. LevelAbove(v)
    BY Entering
  <2> QED
    BY <2>1, Zenon DEF LevelAbove
<1>1. Len(interrupted') = 1
  BY <1>0
<1>2. now'.cpu = cpu'
  BY DEF now
<1>3. Serves(now', v, isr1', isr2')
  BY <1>0, <1>2 DEF Serves, Acking
<1>4. Level(now', event'[1].nr) /\ Serves(now', event'[1].nr, isr1', isr2')
  BY <1>0, <1>3
<1> QED
  BY <1>1, <1>4, SMT DEF Path

\* Only an NMI finds a handler under way, and none of an NMI.
LEMMA PathEvent ==
  ASSUME PathInv, Event1
  PROVE  Path(Len(interrupted'), now', event', interrupted', isr1', isr2')
<1>0. StackInv /\ irr \subseteq Irqs
  BY DEF PathInv, Bounded
<1>1. CASE Exception \/ SoftwareInterrupt
  <2>1. PICK v \in (0 .. 31) \cup (48 .. 255) : Enters(v)
    BY <1>0, <1>1, Events1
  <2>2. running
    BY <1>0, <1>1, Events1
  <2>3. v \in 0 .. 255 /\ v \notin 32 .. 39 /\ v \notin 40 .. 47
    BY SMT
  <2>6. /\ v \in 32 .. 39 => isr1' \subseteq {v - 32} /\ isr2' = {}
        /\ v \in 40 .. 47 => isr1' \subseteq {Cascade} /\ isr2' \subseteq {v - 40}
    BY <2>3
  <2>4. Len(interrupted) = 0 /\ isr1 = {} /\ isr2 = {}
    BY <2>2, Off
  <2>5. UNCHANGED <<isr1, isr2>>
    BY <1>1 DEF Exception, SoftwareInterrupt, pics
  <2> QED
    <3>1. v \notin 32 .. 47 => isr1' = {} /\ isr2' = {}
      BY <2>4, <2>5
    <3>2. StackInv /\ Len(interrupted) = 0 /\ v \in 0 .. 255 /\ Enters(v)
      BY <1>0, <2>1, <2>3, <2>4
    <3> HIDE DEF Path
    <3> QED
      BY <2>6, <3>1, <3>2, PathFirst, Zenon
<1>2. CASE NMI
  <2>1. Enters(2) /\ UNCHANGED <<isr1, isr2>> /\ 2 \in 0 .. 255
    BY <1>0, <1>2, Events1 DEF NMI, pics
  <2>2. \A k \in 1 .. Len(event) : event[k].nr # 2
    <3>1. DOMAIN event = 1 .. Len(event)
      BY <1>0, LenProperties DEF StackInv, Types
    <3> QED
      BY <1>2, <3>1 DEF NMI
  <2>3. Len(event) = Len(interrupted) /\ Len(interrupted) \in {0, 1, 2}
    BY <1>0, Off DEF StackInv, Types
  <2>4. CASE Len(interrupted) = 0
    <3>1. isr1' = {} /\ isr2' = {}
      BY <2>1, <2>4 DEF PathInv, Path
    <3>2. 2 \notin 32 .. 39 /\ 2 \notin 40 .. 47
      BY SMT
    <3> QED
      BY <1>0, <2>1, <2>4, <3>1, <3>2, PathFirst
  <2>5. CASE Len(interrupted) = 1
    <3>1. Len(interrupted) > 0 /\ Len(interrupted) + 1 = 2 /\ 1 \in 1 .. Len(event)
      BY <2>3, <2>5, SMT
    <3>2. /\ Len(interrupted') = 2 /\ event'[1].nr = 2 /\ interrupted'[1] = now
          /\ event'[2] = event[1] /\ Level(now', 2)
      <4>1. LevelAbove(2)
        BY <1>0, <2>1, Entering
      <4>2. Len(interrupted') = 2
        BY <3>1, <4>1 DEF LevelAbove
      <4> QED
        BY <3>1, <4>1, <4>2 DEF LevelAbove
    <3>3. Level(now, event[1].nr) /\ Serves(now, event[1].nr, isr1, isr2)
      BY <2>5 DEF PathInv, Path
    <3>4. event[1].nr # 2
      BY <2>2, <3>1
    <3> QED
      BY <2>1, <3>2, <3>3, <3>4, SMT DEF Path
  <2>6. Len(interrupted) # 2
    <3>1. Len(interrupted) = 2 => 1 \in 1 .. Len(event) /\ event[1].nr = 2
      BY <2>3 DEF PathInv, Path
    <3> QED
      BY <2>2, <3>1
  <2> QED
    BY <2>3, <2>4, <2>5, <2>6
<1>3. CASE IRQ
  <2> DEFINE a == Acknowledged
  <2>1. /\ Enters(VectorOf(a)) /\ Len(interrupted) = 0 /\ isr1 = {} /\ isr2 = {}
        /\ isr1' = isr1 \cup {IF a < 8 THEN a ELSE Cascade}
        /\ isr2' = isr2 \cup (IF a < 8 THEN {} ELSE {a - 8})
    BY <1>0, <1>3, Events1, Off DEF IRQ, Acknowledge
  <2>2. a \in 0 .. 7 \/ a \in 8 .. 15
    BY <1>0, <1>3, AckOf DEF IRQ
  <2> HIDE DEF a
  <2>3. CASE a \in 0 .. 7
    <3>1. VectorOf(a) = 32 + a
      BY <2>3, Vector
    <3>2. /\ VectorOf(a) \in 0 .. 255 /\ VectorOf(a) \in 32 .. 39 /\ VectorOf(a) \in 32 .. 47
          /\ VectorOf(a) \notin 40 .. 47 /\ VectorOf(a) - 32 = a /\ a < 8
      BY <2>3, <3>1, SMT
    <3> QED
      BY <1>0, <2>1, <3>2, PathFirst
  <2>4. CASE a \in 8 .. 15
    <3>1. VectorOf(a) = 40 + (a - 8)
      BY <2>4, Vector
    <3>2. /\ VectorOf(a) \in 0 .. 255 /\ VectorOf(a) \in 40 .. 47 /\ VectorOf(a) \in 32 .. 47
          /\ VectorOf(a) \notin 32 .. 39 /\ VectorOf(a) - 40 = a - 8 /\ ~(a < 8)
      BY <2>4, <3>1, SMT
    <3> QED
      BY <1>0, <2>1, <3>2, PathFirst
  <2> QED
    BY <2>2, <2>3, <2>4
<1>4. CASE Spurious
  <2>1. cpu.flags = 1 /\ (\/ Enters(39) /\ UNCHANGED isr1
                          \/ Enters(47) /\ isr1' = isr1 \cup {Cascade})
    BY <1>0, <1>4, Events1
  <2>2. Len(interrupted) = 0 /\ isr1 = {} /\ isr2 = {} /\ isr2' = {}
    BY <1>4, <2>1, Off DEF Spurious
  <2>3. /\ 39 \in 0 .. 255 /\ 39 \in 32 .. 39 /\ 39 \notin 40 .. 47 /\ 39 \in 32 .. 47
        /\ 47 \in 0 .. 255 /\ 47 \in 40 .. 47 /\ 47 \notin 32 .. 39 /\ 47 \in 32 .. 47
    BY SMT
  <2>4. CASE Enters(39) /\ UNCHANGED isr1
    BY <1>0, <2>2, <2>3, <2>4, PathFirst
  <2>5. CASE Enters(47) /\ isr1' = isr1 \cup {Cascade}
    BY <1>0, <2>2, <2>3, <2>5, PathFirst
  <2> QED
    BY <2>1, <2>4, <2>5
<1> QED
  BY <1>1, <1>2, <1>3, <1>4 DEF Event1

\* Every step keeps the lines latched and the events counted within their bounds.
LEMMA BoundedNext ==
  ASSUME PathInv, [Next]_vars
  PROVE  Bounded'
<1>0. /\ StackInv /\ irr \subseteq Irqs /\ raises \in 0 .. MaxRaise /\ nmis \in 0 .. MaxNMI
      /\ MaxRaise \in Nat /\ MaxNMI \in Nat
  BY BoundsAssumption DEF PathInv, Bounded
<1>1. ASSUME NEW m \in Nat, NEW x \in 0 .. m, x < m PROVE x + 1 \in 0 .. m
  BY <1>1, SMT
<1>2. CASE Handler1
  BY <1>0, <1>2, Moves DEF Bounded
<1>3. CASE iret
  BY <1>0, <1>3 DEF iret, pics, kernel, Bounded
<1>4. CASE Code1
  <2>1. CASE RaiseLine
    <3>1. /\ raises < MaxRaise /\ raises' = raises + 1 /\ nmis' = nmis
          /\ \E i \in Irqs : irr' = irr \cup {i}
      BY <2>1 DEF RaiseLine, Raise
    <3>2. raises' \in 0 .. MaxRaise
      BY <1>0, <1>1, <3>1
    <3>3. irr' \subseteq Irqs
      BY <1>0, <3>1
    <3> QED
      BY <1>0, <3>1, <3>2, <3>3 DEF Bounded
  <2>2. CASE Instruction \/ force_interrupts_on \/ ToRing3 \/ UNCHANGED vars
    BY <1>0, <2>2 DEF Instruction, force_interrupts_on, ToRing3, vars, pics, kernel, Bounded
  <2> QED
    BY <1>4, <2>1, <2>2 DEF Code1
<1>5. CASE Event1
  <2>1. CASE Exception \/ SoftwareInterrupt
    BY <1>0, <2>1 DEF Exception, SoftwareInterrupt, pics, kernel, Bounded
  <2>2. CASE NMI
    <3>1. nmis < MaxNMI /\ nmis' = nmis + 1 /\ raises' = raises /\ irr' = irr
      BY <2>2 DEF NMI, pics
    <3>2. nmis' \in 0 .. MaxNMI
      BY <1>0, <1>1, <3>1
    <3> QED
      BY <1>0, <3>1, <3>2 DEF Bounded
  <2>3. CASE IRQ
    <3>1. irr' = irr \ {Acknowledged} /\ raises' = raises /\ nmis' = nmis
      BY <2>3 DEF IRQ, Acknowledge, kernel
    <3> QED
      BY <1>0, <3>1 DEF Bounded
  <2>4. CASE Spurious
    <3>1. raises < MaxRaise /\ raises' = raises + 1 /\ nmis' = nmis /\ irr' = irr
      BY <2>4 DEF Spurious
    <3>2. raises' \in 0 .. MaxRaise
      BY <1>0, <1>1, <3>1
    <3> QED
      BY <1>0, <3>1, <3>2 DEF Bounded
  <2> QED
    BY <1>5, <2>1, <2>2, <2>3, <2>4 DEF Event1
<1> QED
  BY <1>2, <1>3, <1>4, <1>5, Steps

-----------------------------------------------------------------------------
(* The theorems *)

\* What the stack and the controllers hold, at every instruction and nesting
\* (idt.s, core/intr.c, core/pic.c, tp2/tp.c, tp5/tp.c).
THEOREM InterruptsInvariant == Spec => []PathInv
<1>1. Init => PathInv
  <2> SUFFICES ASSUME Init PROVE PathInv
    OBVIOUS
  <2>1. StackInv
    BY StackInit
  <2>2. Bounded
    <3>1. 0 \in 0 .. MaxRaise /\ 0 \in 0 .. MaxNMI
      BY BoundsAssumption, SMT
    <3> QED
      BY <3>1 DEF Init, PicInit, Bounded
  <2>3. Len(interrupted) = 0 /\ isr1 = {} /\ isr2 = {}
    BY EmptySeq DEF Init, PicInit
  <2>4. Path(Len(interrupted), now, event, interrupted, isr1, isr2)
    BY <2>3, SMT DEF Path
  <2> QED
    BY <2>1, <2>2, <2>4 DEF PathInv
<1>2. PathInv /\ [Next]_vars => PathInv'
  <2> SUFFICES ASSUME PathInv, [Next]_vars PROVE PathInv'
    OBVIOUS
  <2>1. StackInv' /\ Bounded'
    BY StackNext, BoundedNext DEF PathInv, Bounded
  <2>2. Path(Len(interrupted'), now', event', interrupted', isr1', isr2')
    BY Steps, PathHandler, PathIret, PathCode, PathEvent
  <2> QED
    BY <2>1, <2>2 DEF PathInv
<1> QED
  BY <1>1, <1>2, PTL DEF Spec

\* The processor never runs off the code, and the lines in service are lines.
THEOREM InterruptsTyped == Spec => []TypeOK
<1>1. PathInv => TypeOK
  <2> SUFFICES ASSUME PathInv PROVE TypeOK
    OBVIOUS
  <2>0. /\ cpu \in Cpus /\ cpu.gpr \in Gpr \cup {0} /\ Len(event) = Len(interrupted)
        /\ StackInv /\ Bounded
    BY DEF PathInv, StackInv, Types
  <2>1. cpu.eip # At("lost") /\ cpu.cs \in {0, 3} /\ cpu.flags \in {0, 1}
    BY <2>0 DEF Cpus, Labels, At
  <2>2. isr1 \subseteq 0 .. 7 /\ isr2 \subseteq 0 .. 7
    <3>1. ASSUME NEW c, NEW nr \in Int, Serves(c, nr, isr1, isr2)
          PROVE  isr1 \subseteq 0 .. 7 /\ isr2 \subseteq 0 .. 7
      <4>1. CASE nr \in 32 .. 39
        <5>1. nr - 32 \in 0 .. 7
          BY <4>1, SMT
        <5> QED
          BY <3>1, <4>1, <5>1 DEF Serves
      <4>2. CASE nr \in 40 .. 47
        <5>1. nr - 40 \in 0 .. 7 /\ Cascade \in 0 .. 7
          BY <4>2, SMT DEF Cascade
        <5> QED
          BY <3>1, <4>2, <5>1 DEF Serves
      <4>3. CASE nr \notin 32 .. 47
        BY <3>1, <4>3 DEF Serves
      <4>4. nr \in 32 .. 47 => nr \in 32 .. 39 \/ nr \in 40 .. 47
        BY SMT
      <4> QED
        BY <4>1, <4>2, <4>3, <4>4
    <3>2. CASE Len(interrupted) = 0
      BY <3>2 DEF PathInv, Path
    <3>3. CASE Len(interrupted) = 1
      <4>1. 1 \in 1 .. Len(event) /\ event \in Seq(Events)
        BY <2>0, <3>3, SMT DEF StackInv, Types
      <4>2. event[1].nr \in Int
        <5>1. event[1] \in Events
          BY <4>1, ElementOfSeq
        <5>2. event[1].nr \in 0 .. 255
          BY <5>1 DEF Events
        <5> QED
          BY <5>2, SMT
      <4>3. Serves(now, event[1].nr, isr1, isr2)
        BY <3>3 DEF PathInv, Path
      <4> QED
        BY <3>1, <4>2, <4>3
    <3>4. CASE Len(interrupted) = 2
      <4>1. 2 \in 1 .. Len(event) /\ event \in Seq(Events)
        BY <2>0, <3>4, SMT DEF StackInv, Types
      <4>2. event[2].nr \in Int
        <5>1. event[2] \in Events
          BY <4>1, ElementOfSeq
        <5>2. event[2].nr \in 0 .. 255
          BY <5>1 DEF Events
        <5> QED
          BY <5>2, SMT
      <4>3. Serves(interrupted[1], event[2].nr, isr1, isr2)
        BY <3>4 DEF PathInv, Path
      <4> QED
        BY <3>1, <4>2, <4>3
    <3> QED
      BY <3>2, <3>3, <3>4, Off
  <2> QED
    BY <2>0, <2>1, <2>2 DEF TypeOK, Bounded
<1> QED
  BY <1>1, InterruptsInvariant, PTL

\* The fields of cpu_ctx_t hold the event and the code it interrupted, for every
\* vector, ring and nesting (idt.s, intr.h, tp2/tp.c, tp5/tp.c).
THEOREM ContextsNamed == Spec => []ContextNamed
<1>1. PathInv => ContextNamed
  <2> SUFFICES ASSUME PathInv PROVE ContextNamed
    OBVIOUS
  <2>0. StackInv
    BY DEF PathInv
  <2>1. ASSUME cpu.eip = At("intr_hdlr")
        PROVE  stack = <<Word("gpr", Head(interrupted).cpu.gpr), Word("nr", Head(event).nr),
                         Word("err", Head(event).err)>> \o Frame(Head(interrupted))
    <3>1. cpu.eip[1] = "intr_hdlr"
      BY <2>1 DEF At
    <3>2. Head(event) = e1 /\ Head(interrupted) = i1
      BY <2>0, <3>1, Found, Top DEF StackInv
    <3> QED
      BY <2>0, <3>1, <3>2, Found
  <2>2. ASSUME cpu.eip = At("syscall_handler")
        PROVE  stack = <<Word("gpr", Head(interrupted).cpu.gpr)>> \o Frame(Head(interrupted))
    <3>1. cpu.eip[1] = "syscall_handler"
      BY <2>2 DEF At
    <3>2. ~running
      BY <2>0, <3>1, Bottom
    <3>3. Calling(now, e1, i1) /\ Head(interrupted) = i1
      BY <2>0, <3>1, <3>2, Levels, Top DEF StackInv
    <3> QED
      BY <3>3 DEF Calling, now
  <2>3. ASSUME cpu.eip = At("bp_body")
        PROVE  Read(3, "eip", At("lost")) = Head(interrupted).cpu.eip
    <3> DEFINE x == Word("gpr", i1.cpu.gpr)
               y == Word("ebp", i1.cpu.gpr)
               f == Frame(i1)
    <3>1. cpu.eip[1] = "bp_body"
      BY <2>3 DEF At
    <3>2. ~running
      BY <2>0, <3>1, Bottom
    <3>3. InBody(now, e1, i1) /\ Head(interrupted) = i1 /\ i1 \in Contexts /\ Types
          /\ Len(interrupted) > 0
      BY <2>0, <3>1, <3>2, Levels, Top DEF StackInv
    <3>4. stack = <<x, y>> \o f
      BY <3>3 DEF InBody, now
    <3>5. /\ f \in Seq(Words) /\ x \in Words /\ y \in Words /\ Len(f) >= 3
          /\ f[1] = Word("eip", i1.cpu.eip)
      BY <3>3, Above, FrameOf
    <3> HIDE DEF x, y, f
    <3>6. 3 <= Len(stack) /\ stack[3] = f[1]
      BY <3>4, <3>5, SMT
    <3>7. stack[3].reg = "eip" /\ stack[3].val = i1.cpu.eip
      BY <3>5, <3>6 DEF Word
    <3> QED
      BY <3>3, <3>6, <3>7 DEF Read
  <2> QED
    BY <2>1, <2>2, <2>3 DEF ContextNamed
<1> QED
  BY <1>1, InterruptsInvariant, PTL

\* excp_hdlr is never given a vector without a name (core/excp.c:9-34).
THEOREM NamesIndexed == Spec => []NamesInBounds
<1>1. PathInv => NamesInBounds
  <2> SUFFICES ASSUME PathInv, cpu.eip = At("intr_hdlr")
               PROVE  ctxNr < 20 \/ ctxNr >= NR_EXCP
    BY DEF NamesInBounds
  <2>1. cpu.eip[1] = "intr_hdlr" /\ StackInv
    BY DEF At, PathInv
  <2>2. ctxNr = e1.nr /\ e1.nr \notin Reserved /\ e1.nr \in 0 .. 255
    BY <2>1, Found, Top DEF StackInv, Events
  <2>3. \A n \in 0 .. 255 : n \notin Reserved => n < 20 \/ n >= NR_EXCP
    BY SMT DEF Reserved, NR_EXCP
  <2> QED
    BY <2>2, <2>3
<1> QED
  BY <1>1, InterruptsInvariant, PTL

\* Every handler is called with a context it can use (idt.s, core/intr.c:57-62).
THEOREM HandlersContext == Spec => []HandlerContext
<1>1. ContextNamed /\ NamesInBounds <=> HandlerContext
  BY DEF HandlerContext
<1> QED
  BY <1>1, ContextsNamed, NamesIndexed, PTL

\* When intr_hdlr runs for a line, both controllers had their end of interrupt
\* (idt.s:13-24).
THEOREM LinesRetired == Spec => []LinesEnded
<1>1. PathInv => LinesEnded
  <2> SUFFICES ASSUME PathInv, cpu.eip = At("intr_hdlr"), ctxNr \in 32 .. 47
               PROVE  isr1 = {} /\ isr2 = {}
    BY DEF LinesEnded
  <2>1. cpu.eip[1] = "intr_hdlr" /\ StackInv
    BY DEF At, PathInv
  <2>2. e1.nr \in 32 .. 47 /\ Len(interrupted) > 0
    BY <2>1, Found
  <2>3. e1.nr # 2 /\ Len(interrupted) # 0
    BY <2>2, SMT
  <2>4. Len(interrupted) = 1
    BY <2>3, Off DEF PathInv, Path, e1
  <2>5. Serves(now, e1.nr, isr1, isr2)
    BY <2>4 DEF PathInv, Path, e1
  <2> QED
    BY <2>1, <2>5 DEF Serves, Acking, now
<1> QED
  BY <1>1, InterruptsInvariant, PTL

\* Which steps leave a level.
LEMMA Shrinks ==
  ASSUME PathInv, [Next]_vars, Len(interrupted') < Len(interrupted)
  PROVE  iret
<1>0. StackInv /\ Len(interrupted) \in Nat /\ irr \subseteq Irqs
  BY Bottom DEF PathInv, Bounded
<1>1. CASE Handler1
  <2>1. interrupted' = interrupted
    BY <1>0, <1>1, Moves
  <2> QED
    BY <1>0, <2>1, SMT
<1>2. CASE Code1
  <2>1. interrupted' = interrupted
    BY <1>2 DEF Code1, Instruction, force_interrupts_on, ToRing3, RaiseLine, vars
  <2> QED
    BY <1>0, <2>1, SMT
<1>3. CASE Event1
  <2>1. Len(interrupted') = Len(interrupted) + 1
    BY <1>0, <1>3, Events1 DEF Event1, Enters
  <2> QED
    BY <1>0, <2>1, SMT
<1> QED
  BY <1>1, <1>2, <1>3, Steps

\* An iret gives the code it interrupted everything back (idt.s:44-47).
THEOREM ContextsRestored == Spec => ContextRestored
<1>1. PathInv /\ [Next]_vars
      => [Len(interrupted') < Len(interrupted) =>
             /\ cpu' = Head(interrupted).cpu
             /\ stack' = Head(interrupted).stack]_vars
  <2> SUFFICES ASSUME PathInv, [Next]_vars, Len(interrupted') < Len(interrupted)
               PROVE  cpu' = Head(interrupted).cpu /\ stack' = Head(interrupted).stack
    OBVIOUS
  <2>1. iret /\ StackInv
    BY Shrinks DEF PathInv
  <2>2. /\ Len(interrupted) > 0 /\ cpu' = i1.cpu /\ stack' = i1.stack
    BY <2>1, Returned
  <2>3. Head(interrupted) = i1
    BY <2>1, <2>2, Top DEF StackInv
  <2> QED
    BY <2>2, <2>3
<1> QED
  BY <1>1, InterruptsInvariant, PTL DEF Spec, ContextRestored

\* A step that retires a line is one of the first handler's, and not an event's.
LEMMA Retiring ==
  ASSUME PathInv, [Next]_vars,
         NEW i, (i \in isr1 /\ i \notin isr1') \/ (i \in isr2 /\ i \notin isr2')
  PROVE  /\ ~running
         /\ Len(interrupted) = 1 /\ Head(event) = e1
         /\ Level(now, e1.nr) /\ Serves(now, e1.nr, isr1, isr2)
         /\ \/ cpu.eip[1] = "ack_pic2" /\ UNCHANGED isr1
            \/ cpu.eip[1] = "eoi_pic1" /\ UNCHANGED isr2
<1>0. StackInv
  BY DEF PathInv
<1>1. ~iret /\ ~Code1 /\ ~Event1
  <2> DEFINE Kept == isr1 \subseteq isr1' /\ isr2 \subseteq isr2'
  <2>1. iret => Kept
    BY DEF iret, pics
  <2>2. Code1 => Kept
    <3>1. Instruction \/ force_interrupts_on \/ ToRing3 => UNCHANGED pics
      BY Zenon DEF Instruction, force_interrupts_on, ToRing3
    <3>2. RaiseLine \/ UNCHANGED vars => UNCHANGED <<isr1, isr2>>
      BY DEF RaiseLine, Raise, vars
    <3> QED
      BY <3>1, <3>2 DEF Code1, pics
  <2>3. Exception => Kept
    BY DEF Exception, pics
  <2>4. SoftwareInterrupt => Kept
    BY DEF SoftwareInterrupt, pics
  <2>5. NMI => Kept
    BY DEF NMI, pics
  <2>6. IRQ => Kept
    BY DEF IRQ, Acknowledge
  <2>7. Spurious => Kept
    BY DEF Spurious
  <2>8. ~Kept
    OBVIOUS
  <2> QED
    BY <2>1, <2>2, <2>3, <2>4, <2>5, <2>6, <2>7, <2>8 DEF Event1
<1>2. ~UNCHANGED vars
  BY DEF vars, pics
<1>3. Handler1
  BY <1>1, <1>2, Steps
<1>4. /\ ~running
      /\ \/ cpu.eip[1] = "ack_pic2" /\ UNCHANGED isr1
         \/ cpu.eip[1] = "eoi_pic1" /\ UNCHANGED isr2
  BY <1>0, <1>3, Moves
<1>5. Len(interrupted) > 0 /\ Head(event) = e1
  BY <1>0, <1>4, Levels, Top DEF StackInv
<1>6. Len(interrupted) = 1
  <2>1. Len(interrupted) # 2
    BY <1>4, SMT DEF PathInv, Path, Level, now
  <2>2. Len(interrupted) # 0
    BY <1>5, SMT
  <2> QED
    BY <2>1, <2>2, Off
<1>7. Level(now, e1.nr) /\ Serves(now, e1.nr, isr1, isr2)
  BY <1>6 DEF PathInv, Path, e1
<1> QED
  BY <1>4, <1>5, <1>6, <1>7

\* The slave's lines have vectors behind the master's.
LEMMA SlaveVector ==
  ASSUME NEW v \in 40 .. 47, NEW i, i = v - 40
  PROVE  VectorOf(8 + i) = v
BY SMT DEF VectorOf, IrqBase2

\* A non-specific end of interrupt retires the line of the handler that sends it, on the
\* master and on the slave (idt.s:13-24).
THEOREM EoisExact == Spec => EoiExact
<1>1. PathInv /\ [Next]_vars
      => [/\ \A i \in isr1 \ isr1' :
               VectorOf(i) = Head(event).nr \/ (i = Cascade /\ Head(event).nr >= IrqBase2)
          /\ \A i \in isr2 \ isr2' : VectorOf(8 + i) = Head(event).nr]_vars
  <2> SUFFICES ASSUME PathInv, [Next]_vars
               PROVE  /\ \A i \in isr1 \ isr1' : \/ VectorOf(i) = Head(event).nr
                                                 \/ i = Cascade /\ Head(event).nr >= IrqBase2
                      /\ \A i \in isr2 \ isr2' : VectorOf(8 + i) = Head(event).nr
    OBVIOUS
  <2>1. ASSUME NEW i \in isr1, i \notin isr1'
        PROVE  VectorOf(i) = Head(event).nr \/ (i = Cascade /\ Head(event).nr >= IrqBase2)
    <3>1. cpu.eip[1] = "eoi_pic1" /\ Head(event) = e1 /\ Level(now, e1.nr) /\ Serves(now, e1.nr, isr1, isr2)
      BY <2>1, Retiring
    <3>2. e1.nr \in 32 .. 47
      BY <3>1 DEF Level, now
    <3>3. CASE e1.nr \in 32 .. 39
      <4>1. i = e1.nr - 32
        BY <2>1, <3>1, <3>3 DEF Serves
      <4>2. i \in 0 .. 7 /\ e1.nr = 32 + i
        BY <3>3, <4>1, SMT
      <4> QED
        BY <3>1, <4>2, Vector
    <3>4. CASE e1.nr \in 40 .. 47
      <4>1. i = Cascade
        BY <2>1, <3>1, <3>4 DEF Serves
      <4>2. e1.nr >= IrqBase2
        BY <3>4, SMT DEF IrqBase2
      <4> QED
        BY <3>1, <4>1, <4>2
    <3>5. e1.nr \in 32 .. 39 \/ e1.nr \in 40 .. 47
      BY <3>2, SMT
    <3> QED
      BY <3>3, <3>4, <3>5
  <2>2. ASSUME NEW i \in isr2, i \notin isr2' PROVE VectorOf(8 + i) = Head(event).nr
    <3>1. cpu.eip[1] = "ack_pic2" /\ Head(event) = e1 /\ Level(now, e1.nr) /\ Serves(now, e1.nr, isr1, isr2)
      BY <2>2, Retiring
    <3>2. e1.nr \in 40 .. 47
      BY <3>1 DEF Level, now
    <3>3. i = e1.nr - 40
      BY <2>2, <3>1, <3>2 DEF Serves
    <3> QED
      BY <3>1, <3>2, <3>3, SlaveVector
  <2> QED
    BY <2>1, <2>2
<1> QED
  BY <1>1, InterruptsInvariant, PTL DEF Spec, EoiExact

=============================================================================
