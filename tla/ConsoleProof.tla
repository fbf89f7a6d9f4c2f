----------------------------- MODULE ConsoleProof -----------------------------
(***************************************************************************)
(* The console, for every size of the buffer, length of the messages and   *)
(* number of interrupts: the buffer is never written nor read out of its   *)
(* bounds, and without NMIs what the UART is given are whole messages,     *)
(* main's own in their order, and the last one whole when the kernel halts.*)
(***************************************************************************)
EXTENDS Console, SequenceTheorems, FiniteSetTheorems, TLAPS

Character == (Message \X Nat) \cup {NUL}

\* How far the print of an activation may be: the room in the buffer, and the
\* NULs of the flush, bound its indexes
Bounded(a) ==
    /\ a.at \in {"format", "poll", "send"} => a.todo # << >>
    /\ a.at = "format" => a.sz <= Size(Head(a.todo))
    /\ a.at \in {"poll", "send"} => a.n <= Room /\ a.sz <= a.n
    /\ a.at = "send" => a.sz < a.n
    /\ a.at \in {"flush", "flush send"} => a.n <= NULs
    /\ a.at = "flush send" => a.n > 0

\* main is at the bottom, whoever runs on top of it
BoundsInv ==
    /\ TypeOK
    /\ stack # << >> /\ stack[Len(stack)].kind = "main"
    /\ \A i \in 1 .. Len(stack) : Bounded(stack[i])

-----------------------------------------------------------------------------
(* The stack of activations *)

LEMMA NotOne ==
  ASSUME NEW n \in Nat, n > 0, n # 1
  PROVE  n > 1 /\ n \in 2 .. n
  BY SMT

\* The room, and what it leaves of a message.
LEMMA SizeInRoom ==
  ASSUME NEW m \in Message
  PROVE  Size(m) \in Nat /\ Size(m) <= Room /\ Room \in Nat /\ Room < BUFSZ
  BY BufferAssumption, LengthAssumption, SMT DEF Size, Room

LEMMA Top ==
  ASSUME BoundsInv
  PROVE  /\ stack \in Seq(Activation) /\ stack # << >> /\ Len(stack) \in Nat /\ Len(stack) > 0
         /\ top = stack[1] /\ top \in Activation /\ Bounded(top)
         /\ top.at \in Step /\ top.sz \in Nat /\ top.n \in Nat /\ top.todo \in Seq(Message)
         /\ Tail(stack) \in Seq(Activation)
<1>1. /\ stack \in Seq(Activation) /\ stack # << >>
      /\ \A i \in 1 .. Len(stack) : Bounded(stack[i])
  BY DEF BoundsInv, TypeOK
<1>2. Len(stack) \in Nat /\ Len(stack) > 0
  BY <1>1, SMT
<1>3. top = stack[1] /\ top \in Activation
  BY <1>1, <1>2, SMT DEF top
<1>4. Tail(stack) \in Seq(Activation)
  BY <1>1, HeadTailProperties
<1>5. Bounded(top)
  BY <1>1, <1>2, <1>3
<1> QED
  BY <1>1, <1>2, <1>3, <1>4, <1>5 DEF Activation

\* The message of a print under way.
LEMMA TopMessage ==
  ASSUME BoundsInv, top.at \in {"format", "poll", "send"}
  PROVE  /\ message \in Message /\ top.todo # << >> /\ Tail(top.todo) \in Seq(Message)
         /\ Size(message) \in Nat /\ Size(message) <= Room /\ Room < BUFSZ
<1>1. top.todo \in Seq(Message) /\ top.todo # << >>
  BY Top DEF Bounded
<1>2. message \in Message /\ Tail(top.todo) \in Seq(Message)
  BY <1>1, HeadTailProperties DEF message
<1> QED
  BY <1>1, <1>2, SizeInRoom

\* The activation that runs goes on.
LEMMA Continued ==
  ASSUME BoundsInv, NEW a \in Activation, Continue(a)
  PROVE  /\ stack' \in Seq(Activation) /\ stack' # << >> /\ Len(stack') = Len(stack)
         /\ stack'[1] = a /\ top' = a
         /\ \A i \in 2 .. Len(stack) : stack'[i] = stack[i]
<1> DEFINE t == Tail(stack)
<1>1. /\ stack \in Seq(Activation) /\ Len(stack) \in Nat /\ Len(stack) > 0
      /\ t \in Seq(Activation) /\ Len(t) = Len(stack) - 1
      /\ \A i \in 1 .. Len(t) : t[i] = stack[i + 1]
  BY Top, HeadTailProperties
<1> HIDE DEF t
<1>2. /\ <<a>> \o t \in Seq(Activation) /\ Len(<<a>> \o t) = Len(t) + 1
      /\ (<<a>> \o t)[1] = a /\ \A i \in 1 .. Len(t) : (<<a>> \o t)[i + 1] = t[i]
  BY <1>1, SMT
<1>3. stack' = <<a>> \o t
  BY DEF Continue, t
<1>4. ASSUME NEW i \in 2 .. Len(stack) PROVE stack'[i] = stack[i]
  <2>1. (i - 1) \in 1 .. Len(t) /\ i = (i - 1) + 1
    BY <1>1, SMT
  <2> QED
    BY <1>1, <1>2, <1>3, <2>1
<1>5. stack' # << >> /\ Len(stack') = Len(stack)
  BY <1>1, <1>2, <1>3, SMT
<1>6. top' = a
  BY <1>2, <1>3, <1>5, SMT DEF top
<1> QED
  BY <1>2, <1>3, <1>4, <1>5, <1>6

\* A handler on top of it.
LEMMA Pushed ==
  ASSUME BoundsInv, NEW a \in Activation, Push(a)
  PROVE  /\ stack' \in Seq(Activation) /\ stack' # << >> /\ Len(stack') = Len(stack) + 1
         /\ stack'[1] = a /\ top' = a
         /\ \A i \in 1 .. Len(stack) : stack'[i + 1] = stack[i]
<1>1. stack \in Seq(Activation) /\ Len(stack) \in Nat /\ stack' = <<a>> \o stack
  BY Top DEF Push
<1>2. /\ <<a>> \o stack \in Seq(Activation) /\ Len(<<a>> \o stack) = Len(stack) + 1
      /\ (<<a>> \o stack)[1] = a
      /\ \A i \in 1 .. Len(stack) : (<<a>> \o stack)[i + 1] = stack[i]
  BY <1>1, SMT
<1>3. stack' # << >>
  BY <1>1, <1>2, SMT
<1>4. top' = a
  BY <1>1, <1>2, <1>3, SMT DEF top
<1> QED
  BY <1>1, <1>2, <1>3, <1>4

\* A handler that returns leaves the one below, which is there.
LEMMA Popped ==
  ASSUME BoundsInv, Return
  PROVE  /\ stack' \in Seq(Activation) /\ stack' # << >>
         /\ Len(stack') = Len(stack) - 1 /\ Len(stack) > 1
         /\ top' = stack[2]
         /\ \A i \in 1 .. Len(stack') : stack'[i] = stack[i + 1]
<1>1. stack \in Seq(Activation) /\ Len(stack) \in Nat /\ Len(stack) > 0 /\ stack # << >>
  BY Top
<1>2. Len(stack) > 1
  <2>1. top = stack[1] /\ top.kind # "main"
    BY Top DEF Return
  <2>2. Len(stack) # 1
    BY <2>1 DEF BoundsInv
  <2>3. Len(stack) \in Nat /\ Len(stack) > 0
    BY <1>1
  <2> QED
    BY <2>2, <2>3, NotOne
<1>3. /\ stack' \in Seq(Activation) /\ Len(stack') = Len(stack) - 1
      /\ \A i \in 1 .. Len(stack') : stack'[i] = stack[i + 1]
  BY <1>1, HeadTailProperties DEF Return
<1>4. stack' # << >>
  BY <1>1, <1>2, <1>3, SMT
<1>5. top' = stack[2]
  <2>1. 1 \in 1 .. Len(stack')
    BY <1>1, <1>2, <1>3, SMT
  <2>2. top' = stack'[1]
    BY <1>3, <1>4, SMT DEF top
  <2> QED
    BY <2>1, <2>2, <1>3
<1> QED
  BY <1>1, <1>2, <1>3, <1>4, <1>5

-----------------------------------------------------------------------------
(* Bounds and types *)

Rested == /\ DOMAIN buffer = 0 .. BUFSZ - 1
          /\ \A i \in DOMAIN buffer : buffer[i] \in Character
          /\ traps \in 0 .. MaxTraps /\ nmis \in 0 .. MaxNMI

LEMMA RestedOf == BoundsInv => Rested
  BY DEF BoundsInv, TypeOK, Rested, Character

LEMMA ContinueBounds ==
  ASSUME BoundsInv, NEW a \in Activation, Continue(a), a.kind = top.kind, Bounded(a), Rested'
  PROVE  BoundsInv'
<1>1. /\ stack' \in Seq(Activation) /\ stack' # << >> /\ Len(stack') = Len(stack)
      /\ stack'[1] = a
      /\ \A i \in 2 .. Len(stack) : stack'[i] = stack[i]
  BY Continued
<1>2. Len(stack) \in Nat /\ Len(stack) > 0 /\ top = stack[1]
  BY Top
<1>3. stack'[Len(stack')].kind = "main"
  <2>1. CASE Len(stack) = 1
    BY <1>1, <1>2, <2>1 DEF BoundsInv
  <2>2. CASE Len(stack) # 1
    <3>1. Len(stack) \in 2 .. Len(stack)
      BY <1>2, <2>2, NotOne
    <3> QED
      BY <1>1, <3>1 DEF BoundsInv
  <2> QED
    BY <2>1, <2>2
<1>4. ASSUME NEW i \in 1 .. Len(stack') PROVE Bounded(stack'[i])
  <2>1. i = 1 \/ (i \in 2 .. Len(stack) /\ i \in 1 .. Len(stack))
    BY <1>1, <1>2, SMT
  <2> QED
    BY <1>1, <2>1 DEF BoundsInv
<1> QED
  BY <1>1, <1>3, <1>4 DEF BoundsInv, TypeOK, Rested, Character

LEMMA PushBounds ==
  ASSUME BoundsInv, NEW a \in Activation, Push(a), Bounded(a), Rested'
  PROVE  BoundsInv'
<1>1. /\ stack' \in Seq(Activation) /\ stack' # << >> /\ Len(stack') = Len(stack) + 1
      /\ stack'[1] = a
      /\ \A i \in 1 .. Len(stack) : stack'[i + 1] = stack[i]
  BY Pushed
<1>2. Len(stack) \in Nat /\ Len(stack) > 0
  BY Top
<1>3. stack'[Len(stack')].kind = "main"
  <2>1. Len(stack) \in 1 .. Len(stack)
    BY <1>2, SMT
  <2> QED
    BY <1>1, <2>1 DEF BoundsInv
<1>4. ASSUME NEW i \in 1 .. Len(stack') PROVE Bounded(stack'[i])
  <2>1. i = 1 \/ (i - 1 \in 1 .. Len(stack) /\ i = (i - 1) + 1)
    BY <1>1, <1>2, SMT
  <2> QED
    BY <1>1, <2>1 DEF BoundsInv
<1> QED
  BY <1>1, <1>3, <1>4 DEF BoundsInv, TypeOK, Rested, Character

\* A handler begins with nothing printed.
LEMMA RunBounded ==
  ASSUME NEW k \in Kind, NEW t \in Seq(Message)
  PROVE  Run(k, t) \in Activation /\ Bounded(Run(k, t))
  BY DEF Run, Activation, Step, Bounded

LEMMA InitBounds == Init => BoundsInv
<1> SUFFICES ASSUME Init PROVE BoundsInv
  OBVIOUS
<1> DEFINE todo == <<"release", "text", "halted">>
           a == Run("main", todo)
<1>1. todo \in Seq(Message)
  BY DEF Message
<1>2. a \in Activation /\ Bounded(a) /\ a.kind = "main"
  BY <1>1, RunBounded DEF Kind, Run
<1> HIDE DEF a
<1>3. /\ <<a>> \in Seq(Activation) /\ <<a>> # << >> /\ Len(<<a>>) = 1 /\ <<a>>[1] = a
  BY <1>2, SMT
<1>4. \A i \in 1 .. 1 : i = 1
  BY SMT
<1>5. Rested
  <2>1. 0 \in 0 .. MaxTraps /\ 0 \in 0 .. MaxNMI
    BY BoundsAssumption, SMT
  <2> QED
    BY <2>1 DEF Init, Rested, Character
<1> QED
  BY <1>2, <1>3, <1>4, <1>5 DEF Init, BoundsInv, TypeOK, Rested, Character, a

LEMMA PrintfBounds ==
  ASSUME BoundsInv, Printf
  PROVE  BoundsInv'
<1>1. /\ top \in Activation /\ Bounded(top) /\ top.sz \in Nat /\ top.n \in Nat
      /\ top.todo \in Seq(Message) /\ Rested
  BY Top, RestedOf
<1>2. CASE StartPrint
  <2> DEFINE a == [top EXCEPT !.at = "format", !.sz = 0]
  <2>1. Head(top.todo) \in Message
    BY <1>1, <1>2, HeadTailProperties DEF StartPrint
  <2>2. 0 <= Size(Head(top.todo))
    BY <2>1, SizeInRoom, SMT
  <2>3. a \in Activation /\ Bounded(a) /\ a.kind = top.kind
    BY <1>1, <1>2, <2>2 DEF StartPrint, Activation, Step, Bounded
  <2>4. Continue(a) /\ Rested'
    BY <1>1, <1>2 DEF StartPrint, Rested
  <2> HIDE DEF a
  <2> QED
    BY <2>3, <2>4, ContinueBounds
<1>3. CASE FormatChar
  <2> DEFINE a == [top EXCEPT !.sz = @ + 1]
  <2>1. /\ message \in Message /\ Size(message) \in Nat /\ Size(message) <= Room
        /\ Room < BUFSZ
    BY <1>3, TopMessage DEF FormatChar
  <2>2. top.sz + 1 \in Nat /\ top.sz + 1 <= Size(message)
    BY <1>1, <1>3, <2>1, SMT DEF FormatChar
  <2>3. a \in Activation /\ Bounded(a) /\ a.kind = top.kind
    BY <1>1, <1>3, <2>2 DEF FormatChar, Activation, Bounded, message
  <2>4. <<message, top.sz + 1>> \in Character
    BY <2>1, <2>2 DEF Character
  <2>5. Rested'
    BY <1>1, <1>3, <2>4 DEF FormatChar, Rested
  <2>6. Continue(a)
    BY <1>3 DEF FormatChar
  <2> HIDE DEF a
  <2> QED
    BY <2>3, <2>5, <2>6, ContinueBounds
<1>4. CASE FormatEnd
  <2> DEFINE a == [top EXCEPT !.at = "poll", !.sz = 0, !.n = Count]
  <2>1. /\ top.at = "format" /\ top.todo # << >> /\ top.sz = Size(message)
        /\ Size(message) \in Nat /\ Size(message) <= Room /\ Room < BUFSZ
    BY <1>4, TopMessage DEF FormatEnd
  <2>2. Count \in Nat /\ Count <= Room /\ 0 <= Count
    BY <1>1, <2>1, SMT DEF Count
  <2>3. a \in Activation /\ Bounded(a) /\ a.kind = top.kind
    BY <1>1, <2>1, <2>2 DEF Activation, Step, Bounded
  <2>4. top.sz \in 0 .. BUFSZ - 1
    BY <1>1, <2>1, BufferAssumption, SMT DEF Room
  <2>5. DOMAIN buffer' = 0 .. BUFSZ - 1
    <3>1. DOMAIN buffer' = DOMAIN buffer \cup {top.sz}
      BY <1>4 DEF FormatEnd
    <3> QED
      BY <1>1, <2>4, <3>1 DEF Rested
  <2>6. Rested'
    BY <1>1, <1>4, <2>4, <2>5 DEF FormatEnd, Rested, Character
  <2>7. Continue(a)
    BY <1>4 DEF FormatEnd
  <2> HIDE DEF a
  <2> QED
    BY <2>3, <2>6, <2>7, ContinueBounds
<1>5. CASE Poll
  <2> DEFINE a == [top EXCEPT !.at = "send"]
  <2>1. a \in Activation /\ Bounded(a) /\ a.kind = top.kind
    BY <1>1, <1>5 DEF Poll, Activation, Step, Bounded
  <2>2. Continue(a) /\ Rested'
    BY <1>1, <1>5 DEF Poll, Rested
  <2> HIDE DEF a
  <2> QED
    BY <2>1, <2>2, ContinueBounds
<1>6. CASE Send
  <2> DEFINE a == [top EXCEPT !.at = "poll", !.sz = @ + 1]
  <2>1. top.sz + 1 \in Nat /\ top.sz + 1 <= top.n
    BY <1>1, <1>6, SMT DEF Send, Bounded
  <2>2. a \in Activation /\ Bounded(a) /\ a.kind = top.kind
    BY <1>1, <1>6, <2>1 DEF Send, Activation, Step, Bounded
  <2>3. Continue(a) /\ Rested'
    BY <1>1, <1>6 DEF Send, Rested
  <2> HIDE DEF a
  <2> QED
    BY <2>2, <2>3, ContinueBounds
<1>7. CASE EndPrint
  <2> DEFINE a == [top EXCEPT !.at = "ready", !.todo = Tail(@)]
  <2>1. Tail(top.todo) \in Seq(Message)
    BY <1>7, TopMessage DEF EndPrint
  <2>2. a \in Activation /\ Bounded(a) /\ a.kind = top.kind
    BY <1>1, <2>1 DEF Activation, Step, Bounded
  <2>3. Continue(a) /\ Rested'
    BY <1>1, <1>7 DEF EndPrint, Rested
  <2> HIDE DEF a
  <2> QED
    BY <2>2, <2>3, ContinueBounds
<1> QED
  BY <1>2, <1>3, <1>4, <1>5, <1>6, <1>7 DEF Printf

LEMMA PanicBounds ==
  ASSUME BoundsInv, Panic
  PROVE  BoundsInv'
<1>1. /\ top \in Activation /\ Bounded(top) /\ top.n \in Nat /\ Rested
  BY Top, RestedOf
<1>2. CASE StartFlush
  <2> DEFINE a == [top EXCEPT !.at = "flush", !.n = NULs]
  <2>1. a \in Activation /\ a.at = "flush" /\ a.n = 16 /\ a.kind = top.kind
    BY <1>1 DEF Activation, Step, NULs
  <2>2. Continue(a) /\ Rested'
    BY <1>1, <1>2 DEF StartFlush, Rested
  <2> HIDE DEF a
  <2>3. Bounded(a)
    BY <2>1, SMT DEF Bounded, NULs
  <2> QED
    BY <2>1, <2>2, <2>3, ContinueBounds
<1>3. CASE FlushPoll
  <2> DEFINE a == [top EXCEPT !.at = "flush send"]
  <2>1. a \in Activation /\ Bounded(a) /\ a.kind = top.kind
    BY <1>1, <1>3 DEF FlushPoll, Activation, Step, Bounded
  <2>2. Continue(a) /\ Rested'
    BY <1>1, <1>3 DEF FlushPoll, Rested
  <2> HIDE DEF a
  <2> QED
    BY <2>1, <2>2, ContinueBounds
<1>4. CASE FlushSend
  <2> DEFINE a == [top EXCEPT !.at = "flush", !.n = @ - 1]
  <2>1. top.n - 1 \in Nat /\ top.n - 1 <= NULs
    <3>1. top.n \in Nat /\ top.n > 0 /\ top.n <= 16
      BY <1>1, <1>4 DEF FlushSend, Bounded, NULs
    <3> QED
      BY <3>1, SMT DEF NULs
  <2>2. a \in Activation /\ Bounded(a) /\ a.kind = top.kind
    BY <1>1, <2>1 DEF Activation, Step, Bounded
  <2>3. Continue(a) /\ Rested'
    BY <1>1, <1>4 DEF FlushSend, Rested
  <2> HIDE DEF a
  <2> QED
    BY <2>2, <2>3, ContinueBounds
<1>5. CASE Halt
  <2> DEFINE a == [top EXCEPT !.at = "halt"]
  <2>1. a \in Activation /\ Bounded(a) /\ a.kind = top.kind
    BY <1>1 DEF Activation, Step, Bounded
  <2>2. Continue(a) /\ Rested'
    BY <1>1, <1>5 DEF Halt, Rested
  <2> HIDE DEF a
  <2> QED
    BY <2>1, <2>2, ContinueBounds
<1> QED
  BY <1>2, <1>3, <1>4, <1>5 DEF Panic

LEMMA InterruptBounds ==
  ASSUME BoundsInv, Unsupported \/ SoftwareInterrupt \/ Fault \/ NMI
  PROVE  BoundsInv'
<1> DEFINE panic == Run("panic", <<"unsupported">>)
           trap == Run("trap", <<"event", "irq">>)
           fault == Run("fault", <<"event", "exception", "trace", "fatal">>)
           nmi == Run("nmi", <<"event", "exception", "ignored">>)
<1>1. /\ <<"unsupported">> \in Seq(Message) /\ <<"event", "irq">> \in Seq(Message)
      /\ <<"event", "exception", "trace", "fatal">> \in Seq(Message)
      /\ <<"event", "exception", "ignored">> \in Seq(Message)
  BY DEF Message
<1>2. \A a \in {panic, trap, fault, nmi} : a \in Activation /\ Bounded(a)
  BY <1>1, RunBounded DEF Kind
<1>3. Rested'
  <2>1. traps < MaxTraps => traps + 1 \in 0 .. MaxTraps
    BY RestedOf, BoundsAssumption, SMT DEF Rested
  <2>2. nmis < MaxNMI => nmis + 1 \in 0 .. MaxNMI
    BY RestedOf, BoundsAssumption, SMT DEF Rested
  <2> QED
    BY <2>1, <2>2, RestedOf DEF Rested, Unsupported, SoftwareInterrupt, Fault, NMI
<1>4. Push(panic) \/ Push(trap) \/ Push(fault) \/ Push(nmi)
  BY DEF Unsupported, SoftwareInterrupt, Fault, NMI
<1> HIDE DEF panic, trap, fault, nmi
<1> QED
  BY <1>2, <1>3, <1>4, PushBounds

LEMMA ReturnBounds ==
  ASSUME BoundsInv, Return
  PROVE  BoundsInv'
<1>1. /\ stack' \in Seq(Activation) /\ stack' # << >>
      /\ Len(stack') = Len(stack) - 1 /\ Len(stack) > 1
      /\ \A i \in 1 .. Len(stack') : stack'[i] = stack[i + 1]
  BY Popped
<1>2. Len(stack) \in Nat
  BY Top
<1>3. Len(stack') \in 1 .. Len(stack') /\ Len(stack') + 1 = Len(stack)
  BY <1>1, <1>2, SMT
<1>4. stack'[Len(stack')].kind = "main"
  BY <1>1, <1>3 DEF BoundsInv
<1>5. ASSUME NEW i \in 1 .. Len(stack') PROVE Bounded(stack'[i])
  <2>1. i + 1 \in 1 .. Len(stack)
    BY <1>1, <1>2, SMT
  <2> QED
    BY <1>1, <2>1 DEF BoundsInv
<1> QED
  BY <1>1, <1>4, <1>5 DEF Return, BoundsInv, TypeOK

LEMMA StepBounds == BoundsInv /\ [Next]_vars => BoundsInv'
<1> SUFFICES ASSUME BoundsInv, [Next]_vars PROVE BoundsInv'
  OBVIOUS
<1>1. CASE UNCHANGED vars
  BY <1>1 DEF vars, BoundsInv, TypeOK
<1>2. CASE Transmit
  BY <1>2 DEF Transmit, BoundsInv, TypeOK
<1> QED
  BY <1>1, <1>2, PrintfBounds, PanicBounds, InterruptBounds, ReturnBounds DEF Next, Cpu

\* The inductive invariant holds in every state.
THEOREM BoundsInvariant == Spec => []BoundsInv
  BY InitBounds, StepBounds, PTL DEF Spec

\* The print buffer is never written past its end, for any size of it and any
\* messages, and whatever interrupts, faults and NMIs break into the prints.
THEOREM ConsoleTyped == Spec => []TypeOK
<1>1. BoundsInv => TypeOK
  BY DEF BoundsInv
<1> QED
  BY <1>1, BoundsInvariant, PTL

-----------------------------------------------------------------------------
(* Without NMIs, who runs has the buffer and the transmitter to itself *)

\* What runs on top of a print never returns to it: only traps return, to tp()
Nested ==
    /\ nmis = 0
    /\ \A i \in 1 .. Len(stack) :
          /\ stack[i].kind # "nmi"
          /\ stack[i].kind = "trap" => i < Len(stack) /\ stack[i + 1].at = "ready"

\* The characters of the message under way are in place, and the transmitter that
\* was found empty still is
Placed ==
    /\ top.at = "format" => \A k \in 0 .. top.sz - 1 : buffer[k] = <<message, k + 1>>
    /\ top.at \in {"poll", "send"} =>
          /\ top.n = Size(message)
          /\ \A k \in 0 .. top.n - 1 : buffer[k] = <<message, k + 1>>
    /\ top.at \in {"send", "flush send"} => thr = None

QuietInv == BoundsInv /\ Nested /\ Placed

LEMMA ContinueNested ==
  ASSUME QuietInv, NEW a \in Activation, Continue(a), a.kind = top.kind, nmis' = nmis
  PROVE  Nested' /\ top' = a
<1>1. /\ Len(stack') = Len(stack) /\ stack'[1] = a /\ top' = a
      /\ \A i \in 2 .. Len(stack) : stack'[i] = stack[i]
  BY Continued DEF QuietInv
<1>2. Len(stack) \in Nat /\ Len(stack) > 0 /\ top = stack[1]
  BY Top DEF QuietInv
<1>3. ASSUME NEW i \in 1 .. Len(stack')
      PROVE  /\ stack'[i].kind # "nmi"
             /\ stack'[i].kind = "trap" => i < Len(stack') /\ stack'[i + 1].at = "ready"
  <2>1. i \in 1 .. Len(stack)
    BY <1>1
  <2>2. stack'[i].kind = stack[i].kind
    <3>1. i = 1 \/ i \in 2 .. Len(stack)
      BY <1>2, <2>1, SMT
    <3> QED
      BY <3>1, <1>1, <1>2
  <2>3. i < Len(stack) => stack'[i + 1] = stack[i + 1]
    <3>1. i < Len(stack) => i + 1 \in 2 .. Len(stack)
      BY <1>2, <2>1, SMT
    <3> QED
      BY <3>1, <1>1
  <2> QED
    BY <1>1, <2>1, <2>2, <2>3 DEF QuietInv, Nested
<1> QED
  BY <1>1, <1>3 DEF QuietInv, Nested

LEMMA PushNested ==
  ASSUME QuietInv, NEW a \in Activation, Push(a), a.kind # "nmi",
         a.kind = "trap" => top.at = "ready", nmis' = nmis
  PROVE  Nested' /\ top' = a
<1>1. /\ Len(stack') = Len(stack) + 1 /\ stack'[1] = a /\ top' = a
      /\ \A i \in 1 .. Len(stack) : stack'[i + 1] = stack[i]
  BY Pushed DEF QuietInv
<1>2. Len(stack) \in Nat /\ Len(stack) > 0 /\ top = stack[1]
  BY Top DEF QuietInv
<1>3. ASSUME NEW i \in 1 .. Len(stack')
      PROVE  /\ stack'[i].kind # "nmi"
             /\ stack'[i].kind = "trap" => i < Len(stack') /\ stack'[i + 1].at = "ready"
  <2>1. CASE i = 1
    <3>1. 1 \in 1 .. Len(stack) /\ 1 < Len(stack')
      BY <1>1, <1>2, SMT
    <3>2. stack'[1 + 1] = top
      BY <1>1, <1>2, <3>1
    <3> QED
      BY <1>1, <2>1, <3>1, <3>2
  <2>2. CASE i # 1
    <3> DEFINE j == i - 1
    <3>1. /\ j \in 1 .. Len(stack) /\ i = j + 1
          /\ j < Len(stack) => i < Len(stack') /\ j + 1 \in 1 .. Len(stack)
      BY <1>1, <1>2, <2>2, SMT
    <3> HIDE DEF j
    <3>2. stack'[i] = stack[j] /\ (j < Len(stack) => stack'[i + 1] = stack[j + 1])
      BY <1>1, <3>1
    <3> QED
      BY <3>1, <3>2 DEF QuietInv, Nested
  <2> QED
    BY <2>1, <2>2
<1> QED
  BY <1>1, <1>3 DEF QuietInv, Nested

\* A trap's handler returns to tp(), which is between two prints.
LEMMA ReturnNested ==
  ASSUME QuietInv, Return
  PROVE  Nested' /\ top'.at = "ready"
<1>1. /\ Len(stack') = Len(stack) - 1 /\ Len(stack) > 1 /\ top' = stack[2]
      /\ \A i \in 1 .. Len(stack') : stack'[i] = stack[i + 1]
  BY Popped DEF QuietInv
<1>2. Len(stack) \in Nat /\ top = stack[1] /\ 1 \in 1 .. Len(stack)
  <2>1. Len(stack) \in Nat /\ Len(stack) > 0 /\ top = stack[1]
    BY Top DEF QuietInv
  <2> QED
    BY <2>1, SMT
<1>3. top'.at = "ready"
  <2>1. stack[1].kind = "trap"
    BY <1>2 DEF QuietInv, Nested, Return
  <2> QED
    BY <1>1, <1>2, <2>1 DEF QuietInv, Nested
<1>4. ASSUME NEW i \in 1 .. Len(stack')
      PROVE  /\ stack'[i].kind # "nmi"
             /\ stack'[i].kind = "trap" => i < Len(stack') /\ stack'[i + 1].at = "ready"
  <2>1. /\ i + 1 \in 1 .. Len(stack)
        /\ i + 1 < Len(stack) => i < Len(stack') /\ i + 1 \in 1 .. Len(stack')
    BY <1>1, <1>2, SMT
  <2> QED
    BY <1>1, <2>1 DEF QuietInv, Nested
<1> QED
  BY <1>3, <1>4 DEF Return, QuietInv, Nested

\* An activation that is between prints has placed nothing.
LEMMA ReadyPlaced ==
  ASSUME top'.at \in {"ready", "flush", "halt"}
  PROVE  Placed'
  BY DEF Placed

LEMMA PrintfQuiet ==
  ASSUME QuietInv, BoundsInv', Printf
  PROVE  QuietInv'
<1>1. /\ BoundsInv /\ top \in Activation /\ Bounded(top) /\ top.sz \in Nat /\ top.n \in Nat
      /\ top.todo \in Seq(Message) /\ Rested /\ Placed
  BY Top, RestedOf DEF QuietInv
<1>2. CASE StartPrint
  <2> DEFINE a == [top EXCEPT !.at = "format", !.sz = 0]
  <2>1. a \in Activation /\ a.kind = top.kind /\ a.at = "format" /\ a.sz = 0
    BY <1>1 DEF Activation, Step
  <2>2. Continue(a) /\ nmis' = nmis
    BY <1>2 DEF StartPrint
  <2> HIDE DEF a
  <2>3. Nested' /\ top' = a
    BY <2>1, <2>2, ContinueNested
  <2>4. Placed'
    <3>1. 0 .. 0 - 1 = {}
      BY SMT
    <3> QED
      BY <2>1, <2>3, <3>1 DEF Placed
  <2> QED
    BY <2>3, <2>4 DEF QuietInv
<1>3. CASE FormatChar
  <2> DEFINE a == [top EXCEPT !.sz = @ + 1]
  <2>1. /\ a \in Activation /\ a.kind = top.kind /\ a.at = "format" /\ a.sz = top.sz + 1
        /\ a.todo = top.todo
    BY <1>1, <1>3, SMT DEF FormatChar, Activation
  <2>2. Continue(a) /\ nmis' = nmis /\ buffer' = [buffer EXCEPT ![top.sz] = <<message, top.sz + 1>>]
    BY <1>3 DEF FormatChar
  <2> HIDE DEF a
  <2>3. Nested' /\ top' = a
    BY <2>1, <2>2, ContinueNested
  <2>4. top.sz \in 0 .. BUFSZ - 1 /\ top.sz < BUFSZ
    <3>1. Size(message) <= Room /\ Room < BUFSZ /\ Size(message) \in Nat /\ top.sz < Size(message)
      BY <1>1, <1>3, TopMessage DEF FormatChar
    <3> QED
      BY <1>1, <3>1, BufferAssumption, SMT DEF Room
  <2>5. ASSUME NEW k \in 0 .. a.sz - 1 PROVE buffer'[k] = <<message, k + 1>>
    <3>1. k = top.sz \/ (k \in 0 .. top.sz - 1 /\ k # top.sz /\ k \in 0 .. BUFSZ - 1)
      BY <1>1, <2>1, <2>4, BufferAssumption, SMT
    <3> QED
      BY <1>1, <1>3, <2>2, <2>4, <3>1 DEF FormatChar, Placed, Rested
  <2>6. message' = message
    BY <2>1, <2>3 DEF message
  <2>7. Placed'
    BY <2>1, <2>3, <2>5, <2>6 DEF Placed
  <2> QED
    BY <2>3, <2>7 DEF QuietInv
<1>4. CASE FormatEnd
  <2> DEFINE a == [top EXCEPT !.at = "poll", !.sz = 0, !.n = Count]
  <2>1. /\ a \in Activation /\ a.kind = top.kind /\ a.at = "poll" /\ a.n = top.sz
        /\ a.todo = top.todo
    BY <1>1 DEF Activation, Step, Count
  <2>2. Continue(a) /\ nmis' = nmis /\ top.at = "format" /\ top.sz = Size(message)
    BY <1>4 DEF FormatEnd
  <2> HIDE DEF a
  <2>3. Nested' /\ top' = a
    BY <2>1, <2>2, ContinueNested
  <2>4. message' = message
    BY <2>1, <2>3 DEF message
  <2>5. Size(message') = Size(message)
    BY <2>4 DEF Size
  <2>6. top.sz < BUFSZ
    <3>1. Size(message) <= Room /\ Room < BUFSZ /\ Size(message) \in Nat
      BY <1>1, <2>2, TopMessage
    <3> QED
      BY <1>1, <2>2, <3>1, BufferAssumption, SMT DEF Room
  <2>7. ASSUME NEW k \in 0 .. top.sz - 1 PROVE buffer'[k] = <<message, k + 1>>
    <3>1. k # top.sz /\ k \in 0 .. BUFSZ - 1
      BY <1>1, <2>6, BufferAssumption, SMT
    <3> QED
      BY <1>1, <1>4, <2>2, <3>1 DEF FormatEnd, Placed, Rested
  <2>8. Placed'
    BY <2>1, <2>2, <2>3, <2>4, <2>5, <2>7 DEF Placed
  <2> QED
    BY <2>3, <2>8 DEF QuietInv
<1>5. CASE Poll
  <2> DEFINE a == [top EXCEPT !.at = "send"]
  <2>1. /\ a \in Activation /\ a.kind = top.kind /\ a.at = "send" /\ a.n = top.n
        /\ a.todo = top.todo
    BY <1>1 DEF Activation, Step
  <2>2. /\ Continue(a) /\ nmis' = nmis /\ buffer' = buffer /\ thr' = thr
        /\ top.at = "poll" /\ thr = None
    BY <1>5 DEF Poll, CanSend
  <2> HIDE DEF a
  <2>3. Nested' /\ top' = a
    BY <2>1, <2>2, ContinueNested
  <2>4. message' = message /\ Size(message)' = Size(message)
    BY <2>1, <2>3 DEF message, Size
  <2>5. Placed'
    BY <1>1, <2>1, <2>2, <2>3, <2>4 DEF Placed
  <2> QED
    BY <2>3, <2>5 DEF QuietInv
<1>6. CASE Send
  <2> DEFINE a == [top EXCEPT !.at = "poll", !.sz = @ + 1]
  <2>1. /\ a \in Activation /\ a.kind = top.kind /\ a.at = "poll" /\ a.n = top.n
        /\ a.todo = top.todo
    <3>1. top.sz + 1 \in Nat
      BY <1>1, SMT
    <3> QED
      BY <1>1, <3>1 DEF Activation, Step
  <2>2. Continue(a) /\ nmis' = nmis /\ buffer' = buffer /\ top.at = "send"
    BY <1>6 DEF Send
  <2> HIDE DEF a
  <2>3. Nested' /\ top' = a
    BY <2>1, <2>2, ContinueNested
  <2>4. message' = message /\ Size(message)' = Size(message)
    BY <2>1, <2>3 DEF message, Size
  <2>5. Placed'
    BY <1>1, <2>1, <2>2, <2>3, <2>4 DEF Placed
  <2> QED
    BY <2>3, <2>5 DEF QuietInv
<1>7. CASE EndPrint
  <2> DEFINE a == [top EXCEPT !.at = "ready", !.todo = Tail(@)]
  <2>1. Tail(top.todo) \in Seq(Message)
    BY <1>1, <1>7, TopMessage DEF EndPrint
  <2>2. a \in Activation /\ a.kind = top.kind /\ a.at = "ready"
    BY <1>1, <2>1 DEF Activation, Step
  <2>3. Continue(a) /\ nmis' = nmis
    BY <1>7 DEF EndPrint
  <2> HIDE DEF a
  <2>4. Nested' /\ top' = a
    BY <2>2, <2>3, ContinueNested
  <2> QED
    BY <2>2, <2>4, ReadyPlaced DEF QuietInv
<1> QED
  BY <1>2, <1>3, <1>4, <1>5, <1>6, <1>7 DEF Printf

LEMMA PanicQuiet ==
  ASSUME QuietInv, BoundsInv', Panic
  PROVE  QuietInv'
<1>1. top \in Activation /\ Bounded(top) /\ top.n \in Nat
  BY Top DEF QuietInv
<1> DEFINE start == [top EXCEPT !.at = "flush", !.n = NULs]
           poll == [top EXCEPT !.at = "flush send"]
           send == [top EXCEPT !.at = "flush", !.n = @ - 1]
           halt == [top EXCEPT !.at = "halt"]
<1>2. /\ start \in Activation /\ start.kind = top.kind /\ start.at = "flush"
      /\ poll \in Activation /\ poll.kind = top.kind /\ poll.at = "flush send"
      /\ halt \in Activation /\ halt.kind = top.kind /\ halt.at = "halt"
  BY <1>1 DEF Activation, Step, NULs
<1>3. FlushSend => send \in Activation /\ send.kind = top.kind /\ send.at = "flush"
  <2>1. FlushSend => top.n > 0
    BY <1>1 DEF FlushSend, Bounded
  <2>2. FlushSend => top.n - 1 \in Nat
    BY <1>1, <2>1, SMT
  <2> QED
    BY <1>1, <2>2 DEF Activation, Step
<1>4. nmis' = nmis
  BY DEF Panic, StartFlush, FlushPoll, FlushSend, Halt
<1>5. CASE StartFlush
  <2>1. Continue(start)
    BY <1>5 DEF StartFlush
  <2> HIDE DEF start
  <2> QED
    BY <1>2, <1>4, <2>1, ContinueNested, ReadyPlaced DEF QuietInv
<1>6. CASE FlushPoll
  <2>1. Continue(poll) /\ thr' = None
    BY <1>6 DEF FlushPoll, CanSend
  <2> HIDE DEF poll
  <2>2. Nested' /\ top' = poll
    BY <1>2, <1>4, <2>1, ContinueNested
  <2> QED
    BY <1>2, <2>1, <2>2 DEF QuietInv, Placed
<1>7. CASE FlushSend
  <2>1. Continue(send)
    BY <1>7 DEF FlushSend
  <2> HIDE DEF send
  <2> QED
    BY <1>3, <1>4, <1>7, <2>1, ContinueNested, ReadyPlaced DEF QuietInv
<1>8. CASE Halt
  <2>1. Continue(halt)
    BY <1>8 DEF Halt
  <2> HIDE DEF halt
  <2> QED
    BY <1>2, <1>4, <2>1, ContinueNested, ReadyPlaced DEF QuietInv
<1> QED
  BY <1>5, <1>6, <1>7, <1>8 DEF Panic

LEMMA InterruptQuiet ==
  ASSUME QuietInv, BoundsInv', Unsupported \/ SoftwareInterrupt \/ Fault
  PROVE  QuietInv' /\ top'.at = "ready"
<1> DEFINE panic == Run("panic", <<"unsupported">>)
           trap == Run("trap", <<"event", "irq">>)
           fault == Run("fault", <<"event", "exception", "trace", "fatal">>)
<1>1. /\ <<"unsupported">> \in Seq(Message) /\ <<"event", "irq">> \in Seq(Message)
      /\ <<"event", "exception", "trace", "fatal">> \in Seq(Message)
  BY DEF Message
<1>2. /\ panic \in Activation /\ trap \in Activation /\ fault \in Activation
      /\ panic.at = "ready" /\ trap.at = "ready" /\ fault.at = "ready"
  <2>1. panic \in Activation /\ trap \in Activation /\ fault \in Activation
    BY <1>1, RunBounded DEF Kind
  <2> QED
    BY <2>1 DEF Run
<1>3. nmis' = nmis
  BY DEF Unsupported, SoftwareInterrupt, Fault
<1>4. Push(panic) \/ (Push(trap) /\ top.at = "ready") \/ Push(fault)
  BY DEF Unsupported, SoftwareInterrupt, Fault, inTp
<1>5. panic.kind = "panic" /\ trap.kind = "trap" /\ fault.kind = "fault"
  BY DEF Run
<1> HIDE DEF panic, trap, fault
<1>6. \E a \in {panic, trap, fault} : Nested' /\ top' = a
  BY <1>2, <1>3, <1>4, <1>5, PushNested
<1>7. top'.at = "ready"
  BY <1>2, <1>6
<1> QED
  BY <1>6, <1>7, ReadyPlaced DEF QuietInv

LEMMA StepQuiet ==
  ASSUME MaxNMI = 0, QuietInv, BoundsInv', [Next]_vars
  PROVE  QuietInv'
<1>1. CASE UNCHANGED vars
  <2>1. Nested' /\ Placed'
    BY <1>1 DEF QuietInv, Nested, Placed, vars, top, message, Size
  <2> QED
    BY <2>1 DEF QuietInv
<1>2. CASE Transmit
  <2>1. Nested' /\ Placed'
    BY <1>2 DEF QuietInv, Nested, Placed, Transmit, top, message, Size
  <2> QED
    BY <2>1 DEF QuietInv
<1>3. CASE Return
  BY <1>3, ReturnNested, ReadyPlaced DEF QuietInv
<1>4. ~NMI
  <2>1. ~(0 < 0)
    BY SMT
  <2> QED
    BY <2>1 DEF NMI, QuietInv, Nested
<1> QED
  BY <1>1, <1>2, <1>3, <1>4, PrintfQuiet, PanicQuiet, InterruptQuiet DEF Next, Cpu

LEMMA InitQuiet == Init => QuietInv
<1> SUFFICES ASSUME Init PROVE QuietInv
  OBVIOUS
<1> DEFINE a == Run("main", <<"release", "text", "halted">>)
<1>1. a.kind = "main" /\ a.at = "ready"
  BY DEF Run
<1>2. /\ Len(<<a>>) = 1 /\ <<a>>[1] = a /\ Head(<<a>>) = a /\ \A i \in 1 .. 1 : i = 1
  BY SMT
<1> HIDE DEF a
<1>3. stack = <<a>> /\ nmis = 0
  BY DEF Init, a
<1>4. top = a
  BY <1>2, <1>3 DEF top
<1> QED
  BY <1>1, <1>2, <1>3, <1>4, InitBounds DEF QuietInv, Nested, Placed

-----------------------------------------------------------------------------
(* The refinement of Log *)

\* The first of a sequence, and what follows it, given by its elements.
LEMMA FirstOf ==
  ASSUME NEW n \in Nat, n > 0, NEW f
  PROVE  LET s == [i \in 1 .. n |-> f[i]]
         IN  /\ s # << >> /\ Head(s) = f[1]
             /\ Tail(s) = [i \in 1 .. n - 1 |-> f[i + 1]]
<1> DEFINE s == [i \in 1 .. n |-> f[i]]
           S == {f[i] : i \in 1 .. n}
<1>1. s \in Seq(S) /\ Len(s) = n
  BY SMT
<1>2. s # << >> /\ 1 \in 1 .. n
  BY <1>1, SMT
<1>3. Head(s) = f[1]
  BY <1>1, <1>2, SMT
<1>4. /\ Tail(s) \in Seq(S) /\ Len(Tail(s)) = n - 1
      /\ \A i \in 1 .. n - 1 : Tail(s)[i] = s[i + 1]
  BY <1>1, <1>2, HeadTailProperties
<1>5. DOMAIN Tail(s) = 1 .. n - 1
  BY <1>4, LenProperties
<1>6. \A i \in 1 .. n - 1 : s[i + 1] = f[i + 1]
  <2>1. \A i \in 1 .. n - 1 : i + 1 \in 1 .. n
    BY SMT
  <2> QED
    BY <2>1
<1>7. Tail(s) = [i \in 1 .. n - 1 |-> f[i + 1]]
  <2>1. Tail(s) = [i \in 1 .. n - 1 |-> Tail(s)[i]]
    BY <1>4, <1>5, LenProperties
  <2> HIDE DEF s
  <2> QED
    BY <2>1, <1>4, <1>6
<1> QED
  BY <1>2, <1>3, <1>7

\* A message with nothing left is the empty sequence.
LEMMA NoneLeft ==
  ASSUME NEW f
  PROVE  [i \in 1 .. 0 |-> f[i]] = << >>
  BY SMT

\* A character is never taken for an empty transmitter.
LEMMA CharacterIsOne ==
  ASSUME NEW c \in Character
  PROVE  c # None
  BY DEF Character, NUL, None, Message

\* Giving a character to the empty transmitter puts it out.
LEMMA Emitted ==
  ASSUME thr = None, NEW c \in Character, thr' = c, line' = line
  PROVE  Out' = Append(Out, c)
  BY CharacterIsOne DEF Out

LEMMA StepImplements ==
  ASSUME QuietInv, QuietInv', [Cpu]_vars
  PROVE  L!Next \/ UNCHANGED <<Out, Rest>>
<1>1. /\ BoundsInv /\ top \in Activation /\ Bounded(top) /\ top.sz \in Nat /\ top.n \in Nat
      /\ Rested /\ Placed
  BY Top, RestedOf DEF QuietInv
<1>2. CASE UNCHANGED vars
  BY <1>2 DEF vars, Out, Rest, top
<1>3. CASE StartPrint
  <2> DEFINE a == [top EXCEPT !.at = "format", !.sz = 0]
  <2>1. a \in Activation /\ a.at = "format" /\ Continue(a) /\ top.at = "ready"
    BY <1>1, <1>3 DEF StartPrint, Activation, Step
  <2> HIDE DEF a
  <2>2. top' = a
    BY <1>1, <2>1, Continued
  <2>3. Rest' = << >> /\ Rest = << >>
    BY <2>1, <2>2 DEF Rest
  <2> QED
    BY <1>3, <2>3 DEF StartPrint, Out
<1>4. CASE FormatChar
  <2> DEFINE a == [top EXCEPT !.sz = @ + 1]
  <2>1. top.sz + 1 \in Nat
    BY <1>1, SMT
  <2>2. a \in Activation /\ a.at = "format" /\ Continue(a) /\ top.at = "format"
    BY <1>1, <1>4, <2>1 DEF FormatChar, Activation
  <2> HIDE DEF a
  <2>3. top' = a
    BY <1>1, <2>2, Continued
  <2>4. Rest' = << >> /\ Rest = << >>
    BY <2>2, <2>3 DEF Rest
  <2> QED
    BY <1>4, <2>4 DEF FormatChar, Out
<1>5. CASE FormatEnd
  <2> DEFINE a == [top EXCEPT !.at = "poll", !.sz = 0, !.n = Count]
  <2>1. /\ a \in Activation /\ a.at = "poll" /\ a.sz = 0 /\ a.n = top.sz /\ a.todo = top.todo
        /\ Continue(a) /\ top.at = "format" /\ top.sz = Size(message)
    BY <1>1, <1>5 DEF FormatEnd, Activation, Step, Count
  <2> HIDE DEF a
  <2>2. top' = a
    BY <1>1, <2>1, Continued
  <2>3. message' = message /\ message \in Message /\ Size(message) \in Nat
    BY <1>1, <2>1, <2>2, TopMessage DEF message
  <2>4. \A k \in 0 .. Size(message) - 1 : buffer'[k] = <<message, k + 1>>
    BY <2>1, <2>2, <2>3 DEF QuietInv, Placed
  <2>5. Rest' = [i \in 1 .. a.n - 0 |-> buffer'[0 + i - 1]]
    BY <2>1, <2>2 DEF Rest
  <2>6. Rest' = Text(message)
    <3>1. a.n - 0 = Size(message)
      BY <2>1, <2>3, SMT
    <3>2. ASSUME NEW i \in 1 .. Size(message)
          PROVE  buffer'[0 + i - 1] = <<message, i>>
      <4>1. 0 + i - 1 \in 0 .. Size(message) - 1 /\ (0 + i - 1) + 1 = i
        BY <2>3, SMT
      <4> QED
        BY <2>4, <4>1
    <3> QED
      BY <2>5, <3>1, <3>2 DEF Text
  <2>7. Rest = << >>
    BY <2>1 DEF Rest
  <2>8. Out' = Out
    BY <1>5 DEF FormatEnd, Out
  <2> QED
    BY <2>3, <2>6, <2>7, <2>8 DEF L!Next, L!Begin
<1>6. CASE Poll
  <2> DEFINE a == [top EXCEPT !.at = "send"]
  <2>1. /\ a \in Activation /\ a.at = "send" /\ a.sz = top.sz /\ a.n = top.n
        /\ Continue(a) /\ top.at = "poll" /\ buffer' = buffer
    BY <1>1, <1>6 DEF Poll, Activation, Step
  <2> HIDE DEF a
  <2>2. top' = a
    BY <1>1, <2>1, Continued
  <2>3. Rest' = Rest
    BY <2>1, <2>2 DEF Rest
  <2> QED
    BY <1>6, <2>3 DEF Poll, Out
<1>7. CASE Send
  <2> DEFINE a == [top EXCEPT !.at = "poll", !.sz = @ + 1]
             n == top.n - top.sz
             c == buffer[top.sz]
  <2>1. /\ top.sz < top.n /\ top.n <= Room /\ n \in Nat /\ n > 0 /\ top.sz + 1 \in Nat
        /\ top.sz \in 0 .. BUFSZ - 1
    <3>1. top.sz < top.n /\ top.n <= Room
      BY <1>1, <1>7 DEF Send, Bounded
    <3> QED
      BY <1>1, <3>1, BufferAssumption, SMT DEF Room
  <2>2. /\ a \in Activation /\ a.at = "poll" /\ a.sz = top.sz + 1 /\ a.n = top.n
        /\ Continue(a) /\ top.at = "send" /\ buffer' = buffer
    BY <1>1, <1>7, <2>1 DEF Send, Activation, Step
  <2> HIDE DEF a
  <2>3. top' = a
    BY <1>1, <2>2, Continued
  <2>4. Rest = [i \in 1 .. n |-> buffer[top.sz + i - 1]]
    BY <2>2 DEF Rest
  <2>5. Rest = [i \in 1 .. n |-> Rest[i]]
    BY <2>4
  <2>6. /\ Rest # << >> /\ Head(Rest) = Rest[1]
        /\ Tail(Rest) = [i \in 1 .. n - 1 |-> Rest[i + 1]]
    <3> DEFINE r == Rest
    <3>1. r = [i \in 1 .. n |-> r[i]] /\ n \in Nat /\ n > 0
      BY <2>1, <2>5
    <3> HIDE DEF r, n
    <3>2. /\ r # << >> /\ Head(r) = r[1]
          /\ Tail(r) = [i \in 1 .. n - 1 |-> r[i + 1]]
      BY <3>1, FirstOf
    <3> QED
      BY <3>2 DEF r
  <2>7. Head(Rest) = c
    <3>1. 1 \in 1 .. n /\ top.sz + 1 - 1 = top.sz
      BY <1>1, <2>1, SMT
    <3> QED
      BY <2>4, <2>6, <3>1
  <2>8. Rest' = Tail(Rest)
    <3>1. Rest' = [i \in 1 .. top.n - (top.sz + 1) |-> buffer[(top.sz + 1) + i - 1]]
      BY <2>2, <2>3 DEF Rest
    <3>2. top.n - (top.sz + 1) = n - 1
      BY <1>1, SMT
    <3>3. ASSUME NEW i \in 1 .. n - 1
          PROVE  Rest[i + 1] = buffer[(top.sz + 1) + i - 1]
      <4>1. i + 1 \in 1 .. n /\ top.sz + (i + 1) - 1 = (top.sz + 1) + i - 1
        BY <1>1, <2>1, SMT
      <4> QED
        BY <2>4, <4>1
    <3> HIDE DEF n
    <3> QED
      BY <2>6, <3>1, <3>2, <3>3
  <2>9. Out' = Append(Out, c)
    <3>1. c \in Character /\ thr = None /\ thr' = c /\ line' = line
      BY <1>1, <1>7, <2>1 DEF Send, Rested, Placed
    <3> QED
      BY <3>1, Emitted
  <2> QED
    BY <2>6, <2>7, <2>8, <2>9 DEF L!Next, L!Emit
<1>8. CASE EndPrint
  <2> DEFINE a == [top EXCEPT !.at = "ready", !.todo = Tail(@)]
  <2>1. Tail(top.todo) \in Seq(Message)
    BY <1>1, <1>8, TopMessage DEF EndPrint
  <2>2. a \in Activation /\ a.at = "ready" /\ Continue(a) /\ top.at = "poll" /\ top.sz = top.n
    BY <1>1, <1>8, <2>1 DEF EndPrint, Activation, Step
  <2> HIDE DEF a
  <2>3. top' = a
    BY <1>1, <2>2, Continued
  <2>4. Rest' = << >>
    BY <2>2, <2>3 DEF Rest
  <2>5. Rest = << >>
    <3>1. Rest = [i \in 1 .. top.n - top.sz |-> buffer[top.sz + i - 1]]
      BY <2>2 DEF Rest
    <3>2. top.n - top.sz = 0
      BY <1>1, <2>2, SMT
    <3>3. Rest = [i \in 1 .. 0 |-> Rest[i]]
      BY <3>1, <3>2
    <3> QED
      BY <3>3, NoneLeft
  <2> QED
    BY <1>8, <2>4, <2>5 DEF EndPrint, Out
<1>9. CASE StartFlush
  <2> DEFINE a == [top EXCEPT !.at = "flush", !.n = NULs]
  <2>1. a \in Activation /\ a.at = "flush" /\ a.n = NULs /\ Continue(a) /\ top.at = "ready"
    BY <1>1, <1>9 DEF StartFlush, Activation, Step, NULs
  <2> HIDE DEF a
  <2>2. top' = a
    BY <1>1, <2>1, Continued
  <2>3. Rest' = Flush /\ Rest = << >>
    BY <2>1, <2>2 DEF Rest, Flush
  <2> QED
    BY <1>9, <2>3 DEF StartFlush, Out, L!Next, L!Begin
<1>10. CASE FlushPoll
  <2> DEFINE a == [top EXCEPT !.at = "flush send"]
  <2>1. a \in Activation /\ a.at = "flush send" /\ a.n = top.n /\ Continue(a) /\ top.at = "flush"
    BY <1>1, <1>10 DEF FlushPoll, Activation, Step
  <2> HIDE DEF a
  <2>2. top' = a
    BY <1>1, <2>1, Continued
  <2>3. Rest' = Rest
    BY <2>1, <2>2 DEF Rest
  <2> QED
    BY <1>10, <2>3 DEF FlushPoll, Out
<1>11. CASE FlushSend
  <2> DEFINE a == [top EXCEPT !.at = "flush", !.n = @ - 1]
  <2>1. top.n > 0 /\ top.n - 1 \in Nat
    <3>1. top.n > 0
      BY <1>1, <1>11 DEF FlushSend, Bounded
    <3> QED
      BY <1>1, <3>1, SMT
  <2>2. /\ a \in Activation /\ a.at = "flush" /\ a.n = top.n - 1
        /\ Continue(a) /\ top.at = "flush send"
    BY <1>1, <1>11, <2>1 DEF FlushSend, Activation, Step
  <2> HIDE DEF a
  <2>3. top' = a
    BY <1>1, <2>2, Continued
  <2>4. Rest = [i \in 1 .. top.n |-> NUL] /\ Rest' = [i \in 1 .. top.n - 1 |-> NUL]
    BY <2>2, <2>3 DEF Rest
  <2>5. /\ Rest # << >> /\ Head(Rest) = Rest[1]
        /\ Tail(Rest) = [i \in 1 .. top.n - 1 |-> Rest[i + 1]]
    <3> DEFINE r == Rest
               n == top.n
    <3>1. r = [i \in 1 .. n |-> r[i]] /\ n \in Nat /\ n > 0
      BY <1>1, <2>1, <2>4
    <3> HIDE DEF r, n
    <3>2. /\ r # << >> /\ Head(r) = r[1]
          /\ Tail(r) = [i \in 1 .. n - 1 |-> r[i + 1]]
      BY <3>1, FirstOf
    <3> QED
      BY <3>2 DEF r, n
  <2>6. Head(Rest) = NUL
    <3>1. 1 \in 1 .. top.n
      BY <1>1, <2>1, SMT
    <3> QED
      BY <2>4, <2>5, <3>1
  <2>7. Rest' = Tail(Rest)
    <3>1. \A i \in 1 .. top.n - 1 : i + 1 \in 1 .. top.n
      BY <1>1, SMT
    <3>2. \A i \in 1 .. top.n - 1 : Rest[i + 1] = NUL
      BY <2>4, <3>1
    <3> QED
      BY <2>4, <2>5, <3>2
  <2>8. Out' = Append(Out, NUL)
    <3>1. NUL \in Character /\ thr = None /\ thr' = NUL /\ line' = line
      BY <1>1, <1>11 DEF FlushSend, Placed, Character
    <3> QED
      BY <3>1, Emitted
  <2> QED
    BY <2>5, <2>6, <2>7, <2>8 DEF L!Next, L!Emit
<1>12. CASE Halt
  <2> DEFINE a == [top EXCEPT !.at = "halt"]
  <2>1. a \in Activation /\ a.at = "halt" /\ Continue(a) /\ top.at = "flush" /\ top.n = 0
    BY <1>1, <1>12 DEF Halt, Activation, Step
  <2> HIDE DEF a
  <2>2. top' = a
    BY <1>1, <2>1, Continued
  <2>3. Rest' = << >> /\ Rest = [i \in 1 .. 0 |-> NUL]
    BY <2>1, <2>2 DEF Rest
  <2>4. Rest = << >>
    <3>1. Rest = [i \in 1 .. 0 |-> Rest[i]]
      BY <2>3
    <3> QED
      BY <3>1, NoneLeft
  <2> QED
    BY <1>12, <2>3, <2>4 DEF Halt, Out
<1>13. CASE Unsupported \/ SoftwareInterrupt \/ Fault
  <2>1. top'.at = "ready"
    BY <1>13, InterruptQuiet DEF QuietInv
  <2>2. top.at \in {"ready", "format"} /\ thr' = thr /\ line' = line
    BY <1>13 DEF Unsupported, SoftwareInterrupt, Fault, inTp
  <2> QED
    BY <2>1, <2>2 DEF Rest, Out
<1>14. CASE Return
  <2>1. top'.at = "ready"
    BY <1>14, ReturnNested
  <2>2. top.at = "ready" /\ thr' = thr /\ line' = line
    BY <1>14 DEF Return
  <2> QED
    BY <2>1, <2>2 DEF Rest, Out
<1> QED
  BY <1>2, <1>3, <1>4, <1>5, <1>6, <1>7, <1>8, <1>9, <1>10, <1>11, <1>12, <1>13, <1>14
     DEF Cpu, Printf, Panic

LEMMA TransmitImplements ==
  ASSUME Transmit
  PROVE  UNCHANGED <<Out, Rest>>
  BY DEF Transmit, Out, Rest, top

LEMMA InitImplements == Init => L!Init
<1> SUFFICES ASSUME Init PROVE L!Init
  OBVIOUS
<1> DEFINE a == Run("main", <<"release", "text", "halted">>)
<1>1. Head(<<a>>) = a
  BY SMT
<1>2. a.at = "ready"
  BY DEF Run
<1> HIDE DEF a
<1>3. top.at = "ready"
  BY <1>1, <1>2 DEF Init, top, a
<1> QED
  BY <1>3 DEF Init, Out, Rest, L!Init

\* Without NMIs, the kernel puts whole messages on the line one after the other,
\* each character once, for any buffer and messages, and whatever traps, faults
\* and unsupported conversions there are.  (That a message begun comes out to its
\* end is liveness, and the fair part of ImplementsLog.)
THEOREM MessagesWhole == ASSUME MaxNMI = 0 PROVE Spec => L!Spec
<1> DEFINE LogNext == L!Next \/ UNCHANGED <<Out, Rest>>
<1>1. Init => BoundsInv /\ QuietInv /\ L!Init
  BY InitBounds, InitQuiet, InitImplements
<1>2. QuietInv /\ BoundsInv /\ [Next]_vars => BoundsInv' /\ QuietInv'
  BY StepBounds, StepQuiet
<1>3. QuietInv /\ QuietInv' /\ [Next]_vars => LogNext
  <2> SUFFICES ASSUME QuietInv, QuietInv', [Next]_vars PROVE LogNext
    OBVIOUS
  <2>1. ~NMI
    <3>1. ~(0 < 0)
      BY SMT
    <3> QED
      BY <3>1 DEF NMI, QuietInv, Nested
  <2>2. [Cpu]_vars \/ Transmit
    BY <2>1 DEF Next
  <2> QED
    BY <2>2, StepImplements, TransmitImplements
<1> QED
  BY <1>1, <1>2, <1>3, PTL DEF Spec, L!Spec

-----------------------------------------------------------------------------
(* Without NMIs: what has been printed when the kernel halts, and main's text *)

\* What a handler, or main, may still have to print
Left(kind) ==
    CASE kind = "main"  -> {<<"release", "text", "halted">>, <<"text", "halted">>,
                            <<"halted">>, << >>}
      [] kind = "trap"  -> {<<"event", "irq">>, <<"irq">>, << >>}
      [] kind = "fault" -> {<<"event", "exception", "trace", "fatal">>,
                            <<"exception", "trace", "fatal">>, <<"trace", "fatal">>,
                            <<"fatal">>, << >>}
      [] kind = "panic" -> {<<"unsupported">>, << >>}
      [] OTHER          -> {}

\* The kinds that end in panic, and the last message of each
Final == {"main", "fault", "panic"}
Closing == [k \in Final |-> CASE k = "main"  -> "halted"
                              [] k = "fault" -> "fatal"
                              [] OTHER       -> "unsupported"]

\* main alone prints main's messages, and a trap returns to a tp() that main's
\* last message follows
PlanInv ==
    \A i \in 1 .. Len(stack) :
        /\ stack[i].todo \in Left(stack[i].kind)
        /\ i < Len(stack) => stack[i].kind # "main"
        /\ stack[i].kind = "trap" => stack[i + 1].todo # << >>

\* s ends with the first n characters of m, then z NULs
Ends(s, m, n, z) ==
    /\ n + z <= Len(s)
    /\ \A i \in 1 .. n : s[Len(s) - z - n + i] = <<m, i>>
    /\ \A i \in Len(s) - z + 1 .. Len(s) : s[i] = NUL

Closed(z) == top.kind \in Final /\ Ends(Out, Closing[top.kind], Size(Closing[top.kind]), z)

LastInv ==
    /\ top.at \in {"poll", "send"} => Ends(Out, message, top.sz, 0)
    /\ top.at = "ready" /\ top.todo = << >> /\ top.kind \in Final => Closed(0)
    /\ top.at \in {"flush", "flush send"} => Closed(NULs - top.n)
    /\ top.at = "halt" => Closed(NULs)

\* How many characters main has printed, from where it is
main == stack[Len(stack)]
Before == [l \in 0 .. 3 |-> CASE l = 3 -> 0
                              [] l = 2 -> Size("release")
                              [] l = 1 -> Size("release") + Size("text")
                              [] OTHER -> Size("release") + Size("text") + Size("halted")]
Place(a) == Before[Len(a.todo)] + IF a.at \in {"poll", "send"} THEN a.sz ELSE 0
Printed == Place(main)

\* The characters of main's messages in s are the first n of its text, in order
MineOf(s) == {i \in 1 .. Len(s) : s[i][1] \in {"release", "text", "halted"}}
Turn(s, i) == Cardinality({j \in MineOf(s) : j <= i})
InTurn(s, n) ==
    /\ Cardinality(MineOf(s)) = n
    /\ \A i \in MineOf(s) : Turn(s, i) <= Len(MainText) /\ s[i] = MainText[Turn(s, i)]

\* What is on the line and in the transmitter are characters
Sent == line \in Seq(Character) /\ thr \in Character \cup {None}

OutputInv == QuietInv /\ Sent /\ PlanInv /\ LastInv /\ InTurn(Out, Printed)

-----------------------------------------------------------------------------
(* What a character more does to a sequence of them *)

\* A character more: one longer, the others where they were.
LEMMA Appended ==
  ASSUME NEW s \in Seq(Character), NEW c \in Character
  PROVE  /\ Append(s, c) \in Seq(Character)
         /\ Len(s) \in Nat /\ Len(Append(s, c)) = Len(s) + 1
         /\ Append(s, c)[Len(s) + 1] = c
         /\ \A i \in 1 .. Len(s) : Append(s, c)[i] = s[i]
  BY SMT

\* A message's next character goes on with it...
LEMMA EndsCharacter ==
  ASSUME NEW s \in Seq(Character), NEW m \in Message, NEW n \in Nat, Ends(s, m, n, 0)
  PROVE  Ends(Append(s, <<m, n + 1>>), m, n + 1, 0)
<1> DEFINE c == <<m, n + 1>>
           t == Append(s, c)
<1>1. n + 1 \in Nat /\ c \in Character
  BY DEF Character
<1>2. /\ Len(s) \in Nat /\ Len(t) = Len(s) + 1 /\ t[Len(s) + 1] = c
      /\ \A i \in 1 .. Len(s) : t[i] = s[i]
  BY <1>1, Appended
<1>3. n <= Len(s)
  BY <1>2, SMT DEF Ends
<1> HIDE DEF t
<1>4. (n + 1) + 0 <= Len(t)
  BY <1>2, <1>3, SMT
<1>5. ASSUME NEW i \in 1 .. n + 1 PROVE t[Len(t) - 0 - (n + 1) + i] = <<m, i>>
  <2>1. CASE i = n + 1
    <3>1. Len(t) - 0 - (n + 1) + i = Len(s) + 1
      BY <1>2, <2>1, SMT
    <3> QED
      BY <1>2, <2>1, <3>1
  <2>2. CASE i # n + 1
    <3>1. /\ i \in 1 .. n /\ Len(s) - 0 - n + i \in 1 .. Len(s)
          /\ Len(t) - 0 - (n + 1) + i = Len(s) - 0 - n + i
      BY <1>2, <1>3, <2>2, SMT
    <3> QED
      BY <1>2, <3>1 DEF Ends
  <2> QED
    BY <2>1, <2>2
<1>6. Len(t) - 0 + 1 .. Len(t) = {}
  BY <1>2, SMT
<1> QED
  BY <1>4, <1>5, <1>6 DEF Ends, t

\* ... and a NUL of the flush leaves it where it was.
LEMMA EndsNUL ==
  ASSUME NEW s \in Seq(Character), NEW m, NEW n \in Nat, NEW z \in Nat, Ends(s, m, n, z)
  PROVE  Ends(Append(s, NUL), m, n, z + 1)
<1> DEFINE t == Append(s, NUL)
<1>1. /\ Len(s) \in Nat /\ Len(t) = Len(s) + 1 /\ t[Len(s) + 1] = NUL
      /\ \A i \in 1 .. Len(s) : t[i] = s[i]
  BY Appended DEF Character
<1>2. n + z <= Len(s)
  BY DEF Ends
<1> HIDE DEF t
<1>3. n + (z + 1) <= Len(t)
  BY <1>1, <1>2, SMT
<1>4. ASSUME NEW i \in 1 .. n PROVE t[Len(t) - (z + 1) - n + i] = <<m, i>>
  <2>1. /\ Len(s) - z - n + i \in 1 .. Len(s)
        /\ Len(t) - (z + 1) - n + i = Len(s) - z - n + i
    BY <1>1, <1>2, SMT
  <2> QED
    BY <1>1, <2>1 DEF Ends
<1>5. ASSUME NEW i \in Len(t) - (z + 1) + 1 .. Len(t) PROVE t[i] = NUL
  <2>1. i = Len(s) + 1 \/ (i \in Len(s) - z + 1 .. Len(s) /\ i \in 1 .. Len(s))
    BY <1>1, <1>2, SMT
  <2> QED
    BY <1>1, <2>1 DEF Ends
<1> QED
  BY <1>3, <1>4, <1>5 DEF Ends, t

\* main's characters are finitely many, and those up to one of them are some of them.
LEMMA MineFinite ==
  ASSUME NEW s \in Seq(Character)
  PROVE  /\ IsFiniteSet(MineOf(s)) /\ Cardinality(MineOf(s)) \in Nat
         /\ \A i : Turn(s, i) \in Nat
<1>1. Len(s) \in Nat
  BY LenProperties
<1>2. IsFiniteSet(1 .. Len(s))
  <2>1. 1 \in Int /\ Len(s) \in Int
    BY <1>1, SMT
  <2> QED
    BY <2>1, FS_Interval
<1>3. \A T \in SUBSET (1 .. Len(s)) : IsFiniteSet(T) /\ Cardinality(T) \in Nat
  BY <1>2, FS_Subset, FS_CardinalityType
<1>4. MineOf(s) \in SUBSET (1 .. Len(s))
  BY DEF MineOf
<1>5. ASSUME NEW i PROVE {j \in MineOf(s) : j <= i} \in SUBSET (1 .. Len(s))
  BY <1>4
<1> QED
  BY <1>3, <1>4, <1>5 DEF Turn

\* A character of another message, or a NUL, leaves main's text as it is.
LEMMA OthersTurn ==
  ASSUME NEW s \in Seq(Character), NEW c \in Character, NEW n,
         c[1] \notin {"release", "text", "halted"}, InTurn(s, n)
  PROVE  InTurn(Append(s, c), n)
<1> DEFINE t == Append(s, c)
<1>1. /\ Len(s) \in Nat /\ Len(t) = Len(s) + 1 /\ t[Len(s) + 1] = c
      /\ \A i \in 1 .. Len(s) : t[i] = s[i]
  BY Appended
<1> HIDE DEF t
<1>2. \A i : i \in 1 .. Len(t) <=> i \in 1 .. Len(s) \/ i = Len(s) + 1
  BY <1>1, SMT
<1>3. MineOf(t) = MineOf(s)
  BY <1>1, <1>2 DEF MineOf
<1>4. \A i \in MineOf(t) : t[i] = s[i] /\ Turn(t, i) = Turn(s, i)
  BY <1>1, <1>3 DEF Turn, MineOf
<1> QED
  BY <1>3, <1>4 DEF InTurn, t

\* The character of main's text whose turn it is goes at its end.
LEMMA MainsTurn ==
  ASSUME NEW s \in Seq(Character), NEW c \in Character, NEW n \in Nat,
         c[1] \in {"release", "text", "halted"}, InTurn(s, n),
         n + 1 <= Len(MainText), c = MainText[n + 1]
  PROVE  InTurn(Append(s, c), n + 1)
<1> DEFINE t == Append(s, c)
           l == Len(s) + 1
<1>1. /\ Len(s) \in Nat /\ Len(t) = l /\ t[l] = c
      /\ \A i \in 1 .. Len(s) : t[i] = s[i]
  BY Appended
<1> HIDE DEF t
<1>2. \A i : i \in 1 .. Len(t) <=> i \in 1 .. Len(s) \/ i = l
  BY <1>1, SMT
<1>3. MineOf(t) = MineOf(s) \cup {l}
  BY <1>1, <1>2 DEF MineOf
<1>4. l \notin 1 .. Len(s) /\ \A i \in 1 .. Len(s) : ~(l <= i) /\ i <= l
  BY <1>1, SMT
<1>5. Cardinality(MineOf(t)) = n + 1
  <2>1. l \notin MineOf(s)
    BY <1>4 DEF MineOf
  <2>2. Cardinality(MineOf(s) \cup {l}) = Cardinality(MineOf(s)) + 1
    BY <2>1, MineFinite, FS_AddElement
  <2> QED
    BY <1>3, <2>2 DEF InTurn
<1>6. ASSUME NEW i \in MineOf(t)
      PROVE  Turn(t, i) <= Len(MainText) /\ t[i] = MainText[Turn(t, i)]
  <2>1. CASE i \in MineOf(s)
    <3>1. i \in 1 .. Len(s)
      BY <2>1 DEF MineOf
    <3>2. {j \in MineOf(t) : j <= i} = {j \in MineOf(s) : j <= i}
      BY <1>3, <1>4, <3>1
    <3>3. Turn(t, i) = Turn(s, i)
      BY <3>2 DEF Turn
    <3> QED
      BY <1>1, <2>1, <3>1, <3>3 DEF InTurn
  <2>2. CASE i = l
    <3>1. \A j \in MineOf(t) : j <= l
      <4>1. l <= l
        BY <1>1, SMT
      <4> QED
        BY <1>3, <1>4, <4>1 DEF MineOf
    <3>2. {j \in MineOf(t) : j <= l} = MineOf(t)
      BY <3>1
    <3>3. Turn(t, l) = n + 1
      BY <1>5, <3>2 DEF Turn
    <3> QED
      BY <1>1, <2>2, <3>3
  <2> QED
    BY <1>3, <2>1, <2>2
<1> QED
  BY <1>5, <1>6 DEF InTurn, t

-----------------------------------------------------------------------------
(* The plans *)

\* A message printed, what is left is the rest of the plan.
LEMMA TailLeft ==
  ASSUME NEW k \in Kind, NEW t \in Left(k), t # << >>
  PROVE  Tail(t) \in Left(k)
<1>1. CASE k = "main"
  <2>1. /\ Tail(<<"release", "text", "halted">>) = <<"text", "halted">>
        /\ Tail(<<"text", "halted">>) = <<"halted">> /\ Tail(<<"halted">>) = << >>
    BY SMT
  <2> QED
    BY <1>1, <2>1 DEF Left
<1>2. CASE k = "trap"
  <2>1. Tail(<<"event", "irq">>) = <<"irq">> /\ Tail(<<"irq">>) = << >>
    BY SMT
  <2> QED
    BY <1>2, <2>1 DEF Left
<1>3. CASE k = "fault"
  <2>1. /\ Tail(<<"event", "exception", "trace", "fatal">>) = <<"exception", "trace", "fatal">>
        /\ Tail(<<"exception", "trace", "fatal">>) = <<"trace", "fatal">>
        /\ Tail(<<"trace", "fatal">>) = <<"fatal">> /\ Tail(<<"fatal">>) = << >>
    BY SMT
  <2> QED
    BY <1>3, <2>1 DEF Left
<1>4. CASE k = "panic"
  <2>1. Tail(<<"unsupported">>) = << >>
    BY SMT
  <2> QED
    BY <1>4, <2>1 DEF Left
<1>5. CASE k = "nmi"
  BY <1>5 DEF Left
<1> QED
  BY <1>1, <1>2, <1>3, <1>4, <1>5 DEF Kind

\* The last message of a kind that panics is its closing one.
LEMMA LastLeft ==
  ASSUME NEW k \in Final, NEW t \in Left(k), t # << >>, Tail(t) = << >>
  PROVE  Head(t) = Closing[k] /\ Closing[k] \in Message
<1>1. CASE k = "main"
  <2>1. /\ Tail(<<"release", "text", "halted">>) # << >>
        /\ Tail(<<"text", "halted">>) # << >> /\ Head(<<"halted">>) = "halted"
    BY SMT
  <2> QED
    BY <1>1, <2>1 DEF Left, Closing, Final, Message
<1>2. CASE k = "fault"
  <2>1. /\ Tail(<<"event", "exception", "trace", "fatal">>) # << >>
        /\ Tail(<<"exception", "trace", "fatal">>) # << >>
        /\ Tail(<<"trace", "fatal">>) # << >> /\ Head(<<"fatal">>) = "fatal"
    BY SMT
  <2> QED
    BY <1>2, <2>1 DEF Left, Closing, Final, Message
<1>3. CASE k = "panic"
  <2>1. Head(<<"unsupported">>) = "unsupported"
    BY SMT
  <2> QED
    BY <1>3, <2>1 DEF Left, Closing, Final, Message
<1> QED
  BY <1>1, <1>2, <1>3 DEF Final

\* Only main has main's messages to print.
LEMMA OthersLeft ==
  ASSUME NEW k \in Kind, k # "main", NEW t \in Left(k), t # << >>
  PROVE  Head(t) \notin {"release", "text", "halted"}
<1>1. /\ Head(<<"event", "irq">>) = "event" /\ Head(<<"irq">>) = "irq"
      /\ Head(<<"event", "exception", "trace", "fatal">>) = "event"
      /\ Head(<<"exception", "trace", "fatal">>) = "exception"
      /\ Head(<<"trace", "fatal">>) = "trace" /\ Head(<<"fatal">>) = "fatal"
      /\ Head(<<"unsupported">>) = "unsupported"
  BY SMT
<1> QED
  BY <1>1 DEF Left, Kind

\* The activation that runs goes on with its plan, or with the next message of it.
LEMMA ContinuePlan ==
  ASSUME QuietInv, PlanInv, NEW a \in Activation, Continue(a), a.kind = top.kind,
         a.todo = top.todo \/ (top.todo # << >> /\ a.todo = Tail(top.todo))
  PROVE  /\ PlanInv' /\ top' = a /\ (top.kind = "main" => main' = a)
         /\ (top.kind # "main" => main' = main)
<1>1. /\ Len(stack') = Len(stack) /\ stack'[1] = a /\ top' = a
      /\ \A i \in 2 .. Len(stack) : stack'[i] = stack[i]
  BY Continued DEF QuietInv
<1>2. /\ Len(stack) \in Nat /\ Len(stack) > 0 /\ top = stack[1] /\ top \in Activation
      /\ stack[Len(stack)].kind = "main"
  BY Top DEF QuietInv, BoundsInv
<1>3. a.todo \in Left(a.kind)
  <2>1. 1 \in 1 .. Len(stack)
    BY <1>2, SMT
  <2>2. top.todo \in Left(top.kind) /\ top.kind \in Kind
    BY <1>2, <2>1 DEF PlanInv, Activation
  <2> QED
    BY <2>2, TailLeft
<1>4. ASSUME NEW i \in 1 .. Len(stack')
      PROVE  /\ stack'[i].todo \in Left(stack'[i].kind)
             /\ i < Len(stack') => stack'[i].kind # "main"
             /\ stack'[i].kind = "trap" => stack'[i + 1].todo # << >>
  <2>1. i \in 1 .. Len(stack) /\ (i = 1 \/ i \in 2 .. Len(stack))
    BY <1>1, <1>2, SMT
  <2>2. stack'[i].kind = stack[i].kind /\ stack'[i].todo \in Left(stack'[i].kind)
    BY <1>1, <1>2, <1>3, <2>1 DEF PlanInv
  <2>3. stack'[i].kind = "trap" => stack'[i + 1].todo # << >>
    <3>1. stack[i].kind = "trap" => i + 1 \in 2 .. Len(stack)
      <4>1. stack[i].kind = "trap" => i < Len(stack)
        BY <2>1 DEF QuietInv, Nested
      <4> QED
        BY <1>2, <2>1, <4>1, SMT
    <3> QED
      BY <1>1, <2>1, <2>2, <3>1 DEF PlanInv
  <2> QED
    BY <1>1, <2>1, <2>2, <2>3 DEF PlanInv
<1>5. CASE top.kind = "main"
  <2>1. Len(stack) = 1
    <3> SUFFICES ASSUME Len(stack) # 1 PROVE FALSE
      OBVIOUS
    <3>1. Len(stack) \in Nat /\ Len(stack) > 0
      BY <1>2
    <3>2. 1 \in 1 .. Len(stack) /\ 1 < Len(stack)
      <4>1. Len(stack) > 1
        BY <3>1, NotOne
      <4> QED
        BY <3>1, <4>1, SMT
    <3> QED
      BY <1>2, <1>5, <3>2 DEF PlanInv
  <2> QED
    BY <1>1, <1>4, <1>5, <2>1 DEF PlanInv, main
<1>6. CASE top.kind # "main"
  <2>1. Len(stack) \in 2 .. Len(stack)
    BY <1>2, <1>6, NotOne
  <2> QED
    BY <1>1, <1>4, <1>6, <2>1 DEF PlanInv, main
<1> QED
  BY <1>5, <1>6

\* A handler begins its own plan, on top of main's and the others'.
LEMMA PushPlan ==
  ASSUME QuietInv, PlanInv, NEW a \in Activation, Push(a), a.kind # "main",
         a.todo \in Left(a.kind), a.kind = "trap" => top.todo # << >>
  PROVE  PlanInv' /\ top' = a /\ main' = main
<1>1. /\ Len(stack') = Len(stack) + 1 /\ stack'[1] = a /\ top' = a
      /\ \A i \in 1 .. Len(stack) : stack'[i + 1] = stack[i]
  BY Pushed DEF QuietInv
<1>2. Len(stack) \in Nat /\ Len(stack) > 0 /\ top = stack[1]
  BY Top DEF QuietInv
<1>3. main' = main
  <2>1. Len(stack) \in 1 .. Len(stack)
    BY <1>2, SMT
  <2> QED
    BY <1>1, <2>1 DEF main
<1>4. ASSUME NEW i \in 1 .. Len(stack')
      PROVE  /\ stack'[i].todo \in Left(stack'[i].kind)
             /\ i < Len(stack') => stack'[i].kind # "main"
             /\ stack'[i].kind = "trap" => stack'[i + 1].todo # << >>
  <2>1. CASE i = 1
    <3>1. 1 \in 1 .. Len(stack)
      BY <1>2, SMT
    <3>2. stack'[1 + 1] = top
      BY <1>1, <1>2, <3>1
    <3> QED
      BY <1>1, <2>1, <3>2
  <2>2. CASE i # 1
    <3> DEFINE j == i - 1
    <3>1. /\ j \in 1 .. Len(stack) /\ i = j + 1 /\ (i < Len(stack') => j < Len(stack))
          /\ (j < Len(stack) => j + 1 \in 1 .. Len(stack))
      BY <1>1, <1>2, <2>2, SMT
    <3> HIDE DEF j
    <3>2. stack'[i] = stack[j] /\ (j < Len(stack) => stack'[i + 1] = stack[j + 1])
      BY <1>1, <3>1
    <3>3. stack[j].kind = "trap" => j < Len(stack)
      BY <3>1 DEF QuietInv, Nested
    <3> QED
      BY <3>1, <3>2, <3>3 DEF PlanInv
  <2> QED
    BY <2>1, <2>2
<1> QED
  BY <1>1, <1>3, <1>4 DEF PlanInv

\* A trap's handler returns to a tp() that has messages left.
LEMMA ReturnPlan ==
  ASSUME QuietInv, PlanInv, Return
  PROVE  PlanInv' /\ main' = main /\ top'.at = "ready" /\ top'.todo # << >>
<1>1. /\ Len(stack') = Len(stack) - 1 /\ Len(stack) > 1 /\ top' = stack[2]
      /\ \A i \in 1 .. Len(stack') : stack'[i] = stack[i + 1]
  BY Popped DEF QuietInv
<1>2. Len(stack) \in Nat /\ top = stack[1] /\ 1 \in 1 .. Len(stack)
  <2>1. Len(stack) \in Nat /\ Len(stack) > 0 /\ top = stack[1]
    BY Top DEF QuietInv
  <2> QED
    BY <2>1, SMT
<1>3. main' = main
  <2>1. Len(stack') \in 1 .. Len(stack') /\ Len(stack') + 1 = Len(stack)
    BY <1>1, <1>2, SMT
  <2> QED
    BY <1>1, <2>1 DEF main
<1>4. top'.todo # << >>
  <2>1. stack[1].kind = "trap"
    BY <1>2 DEF QuietInv, Nested, Return
  <2>2. stack[1 + 1].todo # << >>
    BY <1>2, <2>1 DEF PlanInv
  <2> QED
    BY <1>1, <2>2
<1>5. ASSUME NEW i \in 1 .. Len(stack')
      PROVE  /\ stack'[i].todo \in Left(stack'[i].kind)
             /\ i < Len(stack') => stack'[i].kind # "main"
             /\ stack'[i].kind = "trap" => stack'[i + 1].todo # << >>
  <2>1. /\ i + 1 \in 1 .. Len(stack)
        /\ i < Len(stack') => i + 1 < Len(stack)
        /\ i + 1 < Len(stack) => i + 1 \in 1 .. Len(stack')
    BY <1>1, <1>2, SMT
  <2>2. stack[i + 1].kind = "trap" => i + 1 < Len(stack)
    BY <2>1 DEF QuietInv, Nested
  <2> QED
    BY <1>1, <2>1, <2>2 DEF PlanInv
<1> QED
  BY <1>3, <1>4, <1>5, ReturnNested DEF PlanInv

-----------------------------------------------------------------------------
(* main's text, and the turn of each of its characters *)

\* The messages of main one after the other: which character each place holds.
LEMMA MainTextAt ==
  /\ Size("release") \in Nat /\ Size("text") \in Nat /\ Size("halted") \in Nat
  /\ Len(MainText) = Size("release") + Size("text") + Size("halted")
  /\ \A i \in 1 .. Size("release") : MainText[i] = <<"release", i>>
  /\ \A i \in 1 .. Size("text") : MainText[Size("release") + i] = <<"text", i>>
  /\ \A i \in 1 .. Size("halted") :
        MainText[Size("release") + Size("text") + i] = <<"halted", i>>
<1> DEFINE r == Size("release")
           t == Size("text")
           h == Size("halted")
<1>1. r \in Nat /\ t \in Nat /\ h \in Nat
  BY SizeInRoom DEF Message
<1>2. ASSUME NEW m \in Message
      PROVE  /\ Text(m) \in Seq(Character) /\ Len(Text(m)) = Size(m)
             /\ \A i \in 1 .. Size(m) : Text(m)[i] = <<m, i>>
  <2>1. Size(m) \in Nat
    BY SizeInRoom
  <2>2. \A i \in 1 .. Size(m) : <<m, i>> \in Character
    <3>1. \A i \in 1 .. Size(m) : i \in Nat
      BY <2>1, SMT
    <3> QED
      BY <3>1 DEF Character
  <2>3. Text(m) \in [1 .. Size(m) -> Character]
    BY <2>2 DEF Text
  <2>4. Text(m) \in Seq(Character) /\ Len(Text(m)) = Size(m)
    BY <2>1, <2>3, SMT
  <2> QED
    BY <2>4 DEF Text
<1> DEFINE R == Text("release")
           T == Text("text")
           H == Text("halted")
<1>3. /\ R \in Seq(Character) /\ Len(R) = r /\ \A i \in 1 .. r : R[i] = <<"release", i>>
      /\ T \in Seq(Character) /\ Len(T) = t /\ \A i \in 1 .. t : T[i] = <<"text", i>>
      /\ H \in Seq(Character) /\ Len(H) = h /\ \A i \in 1 .. h : H[i] = <<"halted", i>>
  BY <1>2 DEF Message
<1>4. MainText = (R \o T) \o H
  BY DEF MainText
<1> HIDE DEF r, t, h, R, T, H
<1> DEFINE RT == R \o T
<1>5. /\ RT \in Seq(Character) /\ Len(RT) = r + t
      /\ \A i \in 1 .. r + t : RT[i] = IF i <= r THEN R[i] ELSE T[i - r]
  BY <1>3, ConcatProperties
<1>6. MainText = RT \o H
  BY <1>4
<1> HIDE DEF RT
<1>7. /\ Len(MainText) = r + t + h
      /\ \A i \in 1 .. r + t + h :
            MainText[i] = IF i <= r + t THEN RT[i] ELSE H[i - (r + t)]
  <2>1. ASSUME NEW s \in Seq(Character), NEW u \in Seq(Character)
        PROVE  /\ Len(s \o u) = Len(s) + Len(u)
               /\ \A i \in 1 .. Len(s) + Len(u) :
                     (s \o u)[i] = IF i <= Len(s) THEN s[i] ELSE u[i - Len(s)]
    BY ConcatProperties
  <2>2. Len(RT) = r + t /\ Len(H) = h
    BY <1>3, <1>5
  <2>3. /\ Len(MainText) = Len(RT) + Len(H)
        /\ \A i \in 1 .. Len(RT) + Len(H) :
              MainText[i] = IF i <= Len(RT) THEN RT[i] ELSE H[i - Len(RT)]
    BY <1>3, <1>5, <1>6, <2>1
  <2> QED
    BY <2>2, <2>3
<1>8. ASSUME NEW i \in 1 .. r PROVE MainText[i] = <<"release", i>>
  <2>1. i \in 1 .. r + t + h /\ i \in 1 .. r + t /\ i <= r + t /\ i <= r
    BY <1>1, SMT DEF r, t, h
  <2> QED
    BY <1>3, <1>5, <1>7, <2>1
<1>9. ASSUME NEW i \in 1 .. t PROVE MainText[r + i] = <<"text", i>>
  <2>1. /\ r + i \in 1 .. r + t + h /\ r + i \in 1 .. r + t
        /\ r + i <= r + t /\ ~(r + i <= r) /\ (r + i) - r = i
    BY <1>1, SMT DEF r, t, h
  <2> QED
    BY <1>3, <1>5, <1>7, <2>1
<1>10. ASSUME NEW i \in 1 .. h PROVE MainText[r + t + i] = <<"halted", i>>
  <2>1. /\ r + t + i \in 1 .. r + t + h
        /\ ~(r + t + i <= r + t) /\ (r + t + i) - (r + t) = i
    BY <1>1, SMT DEF r, t, h
  <2> QED
    BY <1>3, <1>7, <2>1
<1> QED
  BY <1>1, <1>7, <1>8, <1>9, <1>10 DEF r, t, h

\* Where main is in its text, by the messages it has left.
LEMMA BeforeAt ==
  ASSUME NEW t \in Left("main")
  PROVE  /\ Before[Len(t)] \in Nat
         /\ t # << >> =>
               /\ Head(t) \in {"release", "text", "halted"}
               /\ Before[Len(Tail(t))] = Before[Len(t)] + Size(Head(t))
               /\ Before[Len(t)] + Size(Head(t)) <= Len(MainText)
               /\ \A i \in 1 .. Size(Head(t)) : MainText[Before[Len(t)] + i] = <<Head(t), i>>
<1> DEFINE r == Size("release")
           x == Size("text")
           h == Size("halted")
<1>1. /\ Before[3] = 0 /\ Before[2] = r /\ Before[1] = r + x /\ Before[0] = r + x + h
  BY SMT DEF Before
<1>2. /\ r \in Nat /\ x \in Nat /\ h \in Nat /\ Len(MainText) = r + x + h
      /\ \A i \in 1 .. r : MainText[i] = <<"release", i>>
      /\ \A i \in 1 .. x : MainText[r + i] = <<"text", i>>
      /\ \A i \in 1 .. h : MainText[r + x + i] = <<"halted", i>>
  BY MainTextAt
<1>3. CASE t = <<"release", "text", "halted">>
  <2>1. Len(t) = 3 /\ Head(t) = "release" /\ Len(Tail(t)) = 2
    BY <1>3, SMT
  <2> HIDE DEF r, x, h
  <2>2. 0 \in Nat /\ r = 0 + r /\ 0 + r <= r + x + h /\ \A i \in 1 .. r : 0 + i = i
    BY <1>2, SMT
  <2> QED
    BY <1>1, <1>2, <2>1, <2>2 DEF r
<1>4. CASE t = <<"text", "halted">>
  <2>1. Len(t) = 2 /\ Head(t) = "text" /\ Len(Tail(t)) = 1
    BY <1>4, SMT
  <2> HIDE DEF r, x, h
  <2>2. r + x <= r + x + h
    BY <1>2, SMT
  <2> QED
    BY <1>1, <1>2, <2>1, <2>2 DEF x
<1>5. CASE t = <<"halted">>
  <2>1. Len(t) = 1 /\ Head(t) = "halted" /\ Len(Tail(t)) = 0
    BY <1>5, SMT
  <2> HIDE DEF r, x, h
  <2>2. r + x \in Nat /\ r + x + h <= r + x + h
    BY <1>2, SMT
  <2> QED
    BY <1>1, <1>2, <2>1, <2>2 DEF h
<1>6. CASE t = << >>
  <2>1. Len(t) = 0
    BY <1>6, SMT
  <2> HIDE DEF r, x, h
  <2>2. r + x + h \in Nat
    BY <1>2, SMT
  <2> QED
    BY <1>1, <1>6, <2>1, <2>2
<1> QED
  BY <1>3, <1>4, <1>5, <1>6 DEF Left

-----------------------------------------------------------------------------
(* The steps *)

\* The output is a sequence of characters.
LEMMA OutTyped ==
  ASSUME Sent
  PROVE  Out \in Seq(Character) /\ Len(Out) \in Nat
<1>1. line \in Seq(Character) /\ (thr = None \/ thr \in Character)
  BY DEF Sent
<1>2. Out \in Seq(Character)
  BY <1>1, Appended DEF Out
<1> QED
  BY <1>2, LenProperties

\* Where main is, and what the activation that runs has left.
LEMMA MainPlan ==
  ASSUME QuietInv, PlanInv
  PROVE  /\ main \in Activation /\ main.todo \in Left("main") /\ Printed \in Nat
         /\ top \in Activation /\ top.todo \in Left(top.kind)
         /\ top.kind = "main" => main = top
<1>1. /\ Len(stack) \in Nat /\ Len(stack) > 0 /\ top = stack[1] /\ top \in Activation
      /\ stack \in Seq(Activation) /\ stack[Len(stack)].kind = "main"
  BY Top DEF QuietInv, BoundsInv
<1>2. 1 \in 1 .. Len(stack) /\ Len(stack) \in 1 .. Len(stack)
  BY <1>1, SMT
<1>3. main \in Activation
  BY <1>1, <1>2, ElementOfSeq DEF main
<1>4. main.todo \in Left("main") /\ top.todo \in Left(top.kind)
  BY <1>1, <1>2 DEF PlanInv, main
<1>5. Printed \in Nat
  <2>1. Before[Len(main.todo)] \in Nat
    BY <1>4, BeforeAt
  <2>2. main.sz \in Nat
    BY <1>3 DEF Activation
  <2> QED
    BY <2>1, <2>2, SMT DEF Printed, Place
<1>6. top.kind = "main" => main = top
  <2>1. Len(stack) # 1 => Len(stack) > 1
    BY <1>1, NotOne
  <2>2. top.kind = "main" => ~(1 < Len(stack))
    BY <1>1, <1>2 DEF PlanInv
  <2>3. Len(stack) > 1 => 1 < Len(stack)
    BY <1>1, SMT
  <2> QED
    BY <1>1, <2>1, <2>2, <2>3 DEF main
<1> QED
  BY <1>1, <1>3, <1>4, <1>5, <1>6

\* What the transmitter is given is the message's next character...
LEMMA SendsCharacter ==
  ASSUME QuietInv, Send
  PROVE  /\ Out' = Append(Out, <<message, top.sz + 1>>) /\ thr' \in Character
         /\ message \in Message /\ top.sz + 1 \in 1 .. Size(message)
<1>1. /\ BoundsInv /\ Bounded(top) /\ top.sz \in Nat /\ top.n \in Nat /\ Placed
      /\ top.at = "send"
  BY Top DEF QuietInv, Send
<1>2. message \in Message
  BY <1>1, TopMessage
<1>3. top.sz < top.n /\ top.n = Size(message)
  BY <1>1 DEF Bounded, Placed
<1>4. top.sz \in 0 .. top.n - 1 /\ top.sz + 1 \in 1 .. top.n /\ top.sz + 1 \in Nat
  BY <1>1, <1>3, SMT
<1>5. buffer[top.sz] = <<message, top.sz + 1>>
  BY <1>1, <1>4 DEF Placed
<1>6. <<message, top.sz + 1>> \in Character
  BY <1>2, <1>4 DEF Character
<1>7. thr = None /\ thr' = <<message, top.sz + 1>> /\ line' = line
  BY <1>1, <1>5 DEF Send, Placed
<1> QED
  BY <1>2, <1>3, <1>4, <1>6, <1>7, Emitted

\* ... or a NUL.
LEMMA SendsNUL ==
  ASSUME QuietInv, FlushSend
  PROVE  Out' = Append(Out, NUL) /\ thr' \in Character
<1>1. NUL \in Character /\ thr = None /\ thr' = NUL /\ line' = line
  BY DEF FlushSend, QuietInv, Placed, Character
<1> QED
  BY <1>1, Emitted

\* Every step gives the transmitter and the line characters.
LEMMA StepSent ==
  ASSUME QuietInv, Sent, [Next]_vars
  PROVE  Sent'
<1>1. CASE Transmit
  <2>1. thr \in Character /\ line \in Seq(Character)
    BY <1>1 DEF Transmit, Sent
  <2> QED
    BY <1>1, <2>1, Appended DEF Transmit, Sent
<1>2. CASE Send
  BY <1>2, SendsCharacter DEF Send, Sent
<1>3. CASE FlushSend
  BY <1>3, SendsNUL DEF FlushSend, Sent
<1>4. CASE line' = line /\ thr' = thr
  BY <1>4 DEF Sent
<1> QED
  BY <1>1, <1>2, <1>3, <1>4
     DEF Next, Cpu, Printf, Panic, StartPrint, FormatChar, FormatEnd, Poll, EndPrint, Unsupported,
         StartFlush, FlushPoll, Halt, SoftwareInterrupt, Fault, Return, NMI, vars

\* An activation that goes on where it was, nothing sent, leaves main's text.
LEMMA StaysInTurn ==
  ASSUME QuietInv, PlanInv, InTurn(Out, Printed), NEW a \in Activation, Continue(a),
         a.kind = top.kind, Out' = Out,
         a.todo = top.todo \/ (top.todo # << >> /\ a.todo = Tail(top.todo)),
         top.kind = "main" => Place(a) = Place(top)
  PROVE  PlanInv' /\ top' = a /\ InTurn(Out, Printed)'
<1>1. /\ PlanInv' /\ top' = a /\ (top.kind = "main" => main' = a)
      /\ (top.kind # "main" => main' = main)
  BY ContinuePlan
<1>2. Printed' = Printed
  <2>1. CASE top.kind = "main"
    BY <1>1, <2>1, MainPlan DEF Printed, Place
  <2>2. CASE top.kind # "main"
    BY <1>1, <2>2 DEF Printed, Place
  <2> QED
    BY <2>1, <2>2
<1>3. InTurn(Out, Printed)'
  BY <1>2 DEF InTurn, MineOf, Turn
<1> QED
  BY <1>1, <1>3

\* A step of printf: what it sends goes on with its message, and with main's text if
\* it is main's.
LEMMA PrintfOutput ==
  ASSUME OutputInv, Printf
  PROVE  PlanInv' /\ LastInv' /\ InTurn(Out, Printed)'
<1>1. /\ BoundsInv /\ QuietInv /\ Sent /\ PlanInv /\ LastInv /\ InTurn(Out, Printed)
      /\ top \in Activation /\ Bounded(top) /\ Placed
      /\ top.sz \in Nat /\ top.n \in Nat /\ top.todo \in Seq(Message)
      /\ Out \in Seq(Character) /\ Len(Out) \in Nat
  BY Top, OutTyped DEF OutputInv, QuietInv
<1>3. CASE StartPrint
  <2> DEFINE a == [top EXCEPT !.at = "format", !.sz = 0]
  <2>1. /\ a \in Activation /\ a.kind = top.kind /\ a.at = "format" /\ a.todo = top.todo
        /\ Continue(a) /\ Out' = Out /\ top.at = "ready"
    BY <1>1, <1>3 DEF StartPrint, Activation, Step, Out
  <2> HIDE DEF a
  <2>2. Place(a) = Place(top)
    BY <2>1 DEF Place
  <2>3. PlanInv' /\ top' = a /\ InTurn(Out, Printed)'
    BY <1>1, <2>1, <2>2, StaysInTurn
  <2> QED
    BY <2>1, <2>3 DEF LastInv
<1>4. CASE FormatChar
  <2> DEFINE a == [top EXCEPT !.sz = @ + 1]
  <2>1. top.sz + 1 \in Nat
    BY <1>1, SMT
  <2>2. /\ a \in Activation /\ a.kind = top.kind /\ a.at = "format" /\ a.todo = top.todo
        /\ Continue(a) /\ Out' = Out /\ top.at = "format"
    BY <1>1, <1>4, <2>1 DEF FormatChar, Activation, Out
  <2> HIDE DEF a
  <2>3. Place(a) = Place(top)
    BY <2>2 DEF Place
  <2>4. PlanInv' /\ top' = a /\ InTurn(Out, Printed)'
    BY <1>1, <2>2, <2>3, StaysInTurn
  <2> QED
    BY <2>2, <2>4 DEF LastInv
<1>5. CASE FormatEnd
  <2> DEFINE a == [top EXCEPT !.at = "poll", !.sz = 0, !.n = Count]
  <2>1. /\ a \in Activation /\ a.kind = top.kind /\ a.at = "poll" /\ a.todo = top.todo
        /\ a.sz = 0 /\ Continue(a) /\ Out' = Out /\ top.at = "format"
    BY <1>1, <1>5 DEF FormatEnd, Activation, Step, Count, Out
  <2> HIDE DEF a
  <2>2. Place(a) = Place(top)
    BY <2>1 DEF Place
  <2>3. PlanInv' /\ top' = a /\ InTurn(Out, Printed)'
    BY <1>1, <2>1, <2>2, StaysInTurn
  <2>4. Ends(Out, message, 0, 0)
    <3>1. 0 + 0 <= Len(Out) /\ 1 .. 0 = {} /\ Len(Out) - 0 + 1 .. Len(Out) = {}
      BY <1>1, SMT
    <3> QED
      BY <3>1 DEF Ends
  <2>5. Ends(Out', message', 0, 0)
    BY <2>1, <2>3, <2>4 DEF Ends, message
  <2> QED
    BY <2>1, <2>3, <2>5 DEF LastInv
<1>6. CASE Poll
  <2> DEFINE a == [top EXCEPT !.at = "send"]
  <2>1. /\ a \in Activation /\ a.kind = top.kind /\ a.at = "send" /\ a.todo = top.todo
        /\ a.sz = top.sz /\ Continue(a) /\ Out' = Out /\ top.at = "poll"
    BY <1>1, <1>6 DEF Poll, Activation, Step, Out
  <2> HIDE DEF a
  <2>2. Place(a) = Place(top)
    BY <2>1 DEF Place
  <2>3. PlanInv' /\ top' = a /\ InTurn(Out, Printed)'
    BY <1>1, <2>1, <2>2, StaysInTurn
  <2>4. Ends(Out', message', top.sz, 0)
    BY <1>1, <2>1, <2>3 DEF LastInv, Ends, message
  <2> QED
    BY <2>1, <2>3, <2>4 DEF LastInv
<1>7. CASE Send
  <2> DEFINE a == [top EXCEPT !.at = "poll", !.sz = @ + 1]
             c == <<message, top.sz + 1>>
  <2>1. top.sz + 1 \in Nat
    BY <1>1, SMT
  <2>2. /\ a \in Activation /\ a.kind = top.kind /\ a.at = "poll" /\ a.todo = top.todo
        /\ a.sz = top.sz + 1 /\ Continue(a) /\ top.at = "send"
    BY <1>1, <1>7, <2>1 DEF Send, Activation, Step
  <2> HIDE DEF a
  <2>3. /\ Out' = Append(Out, c) /\ c \in Character /\ message \in Message
        /\ top.sz + 1 \in 1 .. Size(message)
    BY <1>1, <1>7, <2>1, SendsCharacter DEF Character
  <2>4. /\ PlanInv' /\ top' = a /\ (top.kind = "main" => main' = a)
        /\ (top.kind # "main" => main' = main)
    BY <1>1, <2>2, ContinuePlan
  <2>5. top.todo \in Left(top.kind) /\ top.todo # << >> /\ top.kind \in Kind
    BY <1>1, <2>2, MainPlan DEF Bounded, Activation
  <2>6. Ends(Out', message', a.sz, 0)
    <3>1. Ends(Append(Out, c), message, top.sz + 1, 0)
      BY <1>1, <2>2, <2>3, EndsCharacter DEF LastInv
    <3> QED
      BY <2>2, <2>3, <2>4, <3>1 DEF message
  <2>7. InTurn(Out, Printed)'
    <3>1. CASE top.kind = "main"
      <4>1. /\ Before[Len(top.todo)] \in Nat /\ message \in {"release", "text", "halted"}
            /\ Before[Len(top.todo)] + Size(message) <= Len(MainText)
            /\ \A i \in 1 .. Size(message) : MainText[Before[Len(top.todo)] + i] = <<message, i>>
        BY <2>5, <3>1, BeforeAt DEF message
      <4> DEFINE b == Before[Len(top.todo)]
                 n == b + top.sz
      <4>2. Printed = n /\ Printed' = b + (top.sz + 1)
        BY <1>1, <2>2, <2>4, <3>1, MainPlan DEF Printed, Place
      <4>3. Size(message) \in Nat /\ Len(MainText) \in Nat
        BY <2>3, SizeInRoom, MainTextAt, SMT
      <4>4. n \in Nat /\ b + (top.sz + 1) = n + 1 /\ n + 1 <= Len(MainText)
        <5> DEFINE k == top.sz
                   z == Size(message)
                   l == Len(MainText)
        <5>1. b \in Nat /\ k \in Nat /\ z \in Nat /\ l \in Nat /\ b + z <= l /\ k + 1 \in 1 .. z
          BY <1>1, <2>3, <4>1, <4>3
        <5> HIDE DEF b, k, z, l
        <5>2. b + k \in Nat /\ b + (k + 1) = (b + k) + 1 /\ (b + k) + 1 <= l
          BY <5>1, SMT
        <5> QED
          BY <5>2 DEF k, l
      <4> HIDE DEF b
      <4>5. c = MainText[n + 1]
        <5>1. MainText[b + (top.sz + 1)] = c
          BY <2>3, <4>1 DEF b
        <5> QED
          BY <4>4, <5>1
      <4>6. c[1] \in {"release", "text", "halted"}
        BY <4>1
      <4> HIDE DEF n, c
      <4>7. InTurn(Append(Out, c), n + 1)
        BY <1>1, <2>3, <4>2, <4>4, <4>5, <4>6, MainsTurn
      <4>8. Out' = Append(Out, c) /\ Printed' = n + 1
        BY <2>3, <4>2, <4>4
      <4> QED
        BY <4>7, <4>8 DEF InTurn, MineOf, Turn
    <3>2. CASE top.kind # "main"
      <4>1. message \notin {"release", "text", "halted"}
        BY <2>5, <3>2, OthersLeft DEF message
      <4>2. Printed' = Printed
        BY <2>4, <3>2 DEF Printed, Place
      <4>3. c[1] \notin {"release", "text", "halted"}
        BY <4>1
      <4> HIDE DEF c
      <4>4. InTurn(Append(Out, c), Printed)
        BY <1>1, <2>3, <4>3, OthersTurn
      <4> QED
        BY <2>3, <4>2, <4>4 DEF InTurn, MineOf, Turn
    <3> QED
      BY <3>1, <3>2
  <2> QED
    BY <2>2, <2>4, <2>6, <2>7 DEF LastInv
<1>8. CASE EndPrint
  <2> DEFINE a == [top EXCEPT !.at = "ready", !.todo = Tail(@)]
  <2>1. Tail(top.todo) \in Seq(Message) /\ message \in Message /\ top.todo # << >>
    BY <1>1, <1>8, TopMessage DEF EndPrint
  <2>2. /\ a \in Activation /\ a.kind = top.kind /\ a.at = "ready" /\ a.todo = Tail(top.todo)
        /\ Continue(a) /\ Out' = Out /\ top.at = "poll" /\ top.sz = top.n
    BY <1>1, <1>8, <2>1 DEF EndPrint, Activation, Step, Out
  <2> HIDE DEF a
  <2>3. top.todo \in Left(top.kind)
    BY <1>1, MainPlan
  <2>4. top.sz = Size(message)
    BY <1>1, <2>2 DEF Placed
  <2>5. top.kind = "main" => Place(a) = Place(top)
    <3> SUFFICES ASSUME top.kind = "main" PROVE Place(a) = Place(top)
      OBVIOUS
    <3>1. /\ Before[Len(a.todo)] = Before[Len(top.todo)] + Size(message)
          /\ a.todo \in Left("main")
      BY <2>1, <2>2, <2>3, BeforeAt, TailLeft DEF message, Kind
    <3>2. Before[Len(a.todo)] \in Nat
      BY <3>1, BeforeAt
    <3>3. Before[Len(a.todo)] + 0 = Before[Len(a.todo)]
      BY <3>2, SMT
    <3> QED
      BY <2>2, <2>4, <3>1, <3>3 DEF Place
  <2>6. PlanInv' /\ top' = a /\ InTurn(Out, Printed)'
    BY <1>1, <2>1, <2>2, <2>5, StaysInTurn
  <2>7. a.todo = << >> /\ a.kind \in Final => Closed(0)'
    <3> SUFFICES ASSUME a.todo = << >>, a.kind \in Final PROVE Closed(0)'
      OBVIOUS
    <3>1. message = Closing[a.kind]
      BY <2>1, <2>2, <2>3, LastLeft DEF message
    <3>2. Ends(Out, Closing[a.kind], Size(Closing[a.kind]), 0)
      BY <1>1, <2>2, <2>4, <3>1 DEF LastInv
    <3> QED
      BY <2>2, <2>6, <3>2 DEF Closed, Ends, Size
  <2> QED
    BY <2>2, <2>6, <2>7 DEF LastInv
<1> QED
  BY <1>3, <1>4, <1>5, <1>6, <1>7, <1>8 DEF Printf

\* A step of the flush: NULs after the closing message.
LEMMA PanicOutput ==
  ASSUME OutputInv, Panic
  PROVE  PlanInv' /\ LastInv' /\ InTurn(Out, Printed)'
<1>1. /\ BoundsInv /\ QuietInv /\ Sent /\ PlanInv /\ LastInv /\ InTurn(Out, Printed)
      /\ top \in Activation /\ Bounded(top) /\ top.n \in Nat
      /\ Out \in Seq(Character) /\ Len(Out) \in Nat
  BY Top, OutTyped DEF OutputInv, QuietInv
<1>2. CASE StartFlush
  <2> DEFINE a == [top EXCEPT !.at = "flush", !.n = NULs]
  <2>1. /\ a \in Activation /\ a.kind = top.kind /\ a.at = "flush" /\ a.todo = top.todo
        /\ a.n = NULs /\ Continue(a) /\ Out' = Out
        /\ top.at = "ready" /\ top.todo = << >> /\ top.kind \in Final
    BY <1>1, <1>2 DEF StartFlush, Activation, Step, Out, NULs, Final
  <2> HIDE DEF a
  <2>2. Place(a) = Place(top)
    BY <2>1 DEF Place
  <2>3. PlanInv' /\ top' = a /\ InTurn(Out, Printed)'
    BY <1>1, <2>1, <2>2, StaysInTurn
  <2>4. NULs - a.n = 0
    BY <2>1, SMT DEF NULs
  <2>5. Closed(0)'
    BY <1>1, <2>1, <2>3 DEF LastInv, Closed, Ends, Size
  <2> QED
    BY <2>1, <2>3, <2>4, <2>5 DEF LastInv
<1>3. CASE FlushPoll
  <2> DEFINE a == [top EXCEPT !.at = "flush send"]
  <2>1. /\ a \in Activation /\ a.kind = top.kind /\ a.at = "flush send" /\ a.todo = top.todo
        /\ a.n = top.n /\ Continue(a) /\ Out' = Out /\ top.at = "flush"
    BY <1>1, <1>3 DEF FlushPoll, Activation, Step, Out
  <2> HIDE DEF a
  <2>2. Place(a) = Place(top)
    BY <2>1 DEF Place
  <2>3. PlanInv' /\ top' = a /\ InTurn(Out, Printed)'
    BY <1>1, <2>1, <2>2, StaysInTurn
  <2>4. Closed(NULs - top.n)'
    BY <1>1, <2>1, <2>3 DEF LastInv, Closed, Ends, Size
  <2> QED
    BY <2>1, <2>3, <2>4 DEF LastInv
<1>4. CASE FlushSend
  <2> DEFINE a == [top EXCEPT !.at = "flush", !.n = @ - 1]
             m == Closing[top.kind]
             z == NULs - top.n
  <2>1. top.n > 0 /\ top.n <= NULs /\ top.at = "flush send"
    BY <1>1, <1>4 DEF FlushSend, Bounded
  <2>2. top.n - 1 \in Nat /\ z \in Nat /\ NULs - (top.n - 1) = z + 1
    <3>1. top.n \in Nat /\ top.n > 0 /\ top.n <= 16
      BY <1>1, <2>1 DEF NULs
    <3> QED
      BY <3>1, SMT DEF NULs
  <2>3. /\ a \in Activation /\ a.kind = top.kind /\ a.at = "flush" /\ a.todo = top.todo
        /\ a.n = top.n - 1 /\ Continue(a)
    BY <1>1, <1>4, <2>2 DEF FlushSend, Activation, Step
  <2> HIDE DEF a
  <2>4. Out' = Append(Out, NUL)
    BY <1>1, <1>4, SendsNUL
  <2>5. /\ PlanInv' /\ top' = a /\ (top.kind = "main" => main' = a)
        /\ (top.kind # "main" => main' = main)
    BY <1>1, <2>3, ContinuePlan
  <2>6. Printed' = Printed
    <3>1. Place(a) = Place(top)
      BY <2>1, <2>3 DEF Place
    <3>2. CASE top.kind = "main"
      BY <1>1, <2>5, <3>1, <3>2, MainPlan DEF Printed, Place
    <3>3. CASE top.kind # "main"
      BY <2>5, <3>3 DEF Printed, Place
    <3> QED
      BY <3>2, <3>3
  <2>7. InTurn(Out, Printed)'
    <3>1. NUL \in Character /\ NUL[1] \notin {"release", "text", "halted"}
      BY DEF Character, NUL
    <3>2. InTurn(Append(Out, NUL), Printed)
      BY <1>1, <3>1, OthersTurn
    <3> QED
      BY <2>4, <2>6, <3>2 DEF InTurn, MineOf, Turn
  <2>8. Closed(NULs - top.n)'
    <3>1. top.kind \in Final /\ Ends(Out, m, Size(m), z)
      BY <1>1, <2>1 DEF LastInv, Closed
    <3>2. Size(m) \in Nat
      <4>1. m \in Message
        BY <3>1 DEF Final, Closing, Message
      <4> QED
        BY <4>1, SizeInRoom
    <3> HIDE DEF m, z
    <3>3. Ends(Append(Out, NUL), m, Size(m), z + 1)
      BY <1>1, <2>2, <3>1, <3>2, EndsNUL
    <3>4. top'.kind = top.kind /\ NULs - top'.n = z + 1
      BY <2>2, <2>3, <2>5
    <3>5. /\ top'.kind \in Final
          /\ Ends(Out', Closing[top'.kind], Size(Closing[top'.kind]), NULs - top'.n)
      BY <2>4, <3>1, <3>3, <3>4 DEF m
    <3> QED
      BY <3>5 DEF Closed, Ends, Size
  <2> QED
    BY <2>3, <2>5, <2>7, <2>8 DEF LastInv
<1>5. CASE Halt
  <2> DEFINE a == [top EXCEPT !.at = "halt"]
  <2>1. /\ a \in Activation /\ a.kind = top.kind /\ a.at = "halt" /\ a.todo = top.todo
        /\ Continue(a) /\ Out' = Out /\ top.at = "flush" /\ top.n = 0
    BY <1>1, <1>5 DEF Halt, Activation, Step, Out
  <2> HIDE DEF a
  <2>2. Place(a) = Place(top)
    BY <2>1 DEF Place
  <2>3. PlanInv' /\ top' = a /\ InTurn(Out, Printed)'
    BY <1>1, <2>1, <2>2, StaysInTurn
  <2>4. NULs - top.n = NULs
    BY <2>1, SMT DEF NULs
  <2>5. Closed(NULs)'
    BY <1>1, <2>1, <2>3, <2>4 DEF LastInv, Closed, Ends, Size
  <2> QED
    BY <2>1, <2>3, <2>5 DEF LastInv
<1> QED
  BY <1>2, <1>3, <1>4, <1>5 DEF Panic

\* A handler that begins, or returns to tp(), finds what was printed as it was.
LEMMA InterruptOutput ==
  ASSUME OutputInv, Unsupported \/ SoftwareInterrupt \/ Fault \/ Return
  PROVE  PlanInv' /\ LastInv' /\ InTurn(Out, Printed)'
<1> DEFINE panic == Run("panic", <<"unsupported">>)
           trap == Run("trap", <<"event", "irq">>)
           fault == Run("fault", <<"event", "exception", "trace", "fatal">>)
<1>1. QuietInv /\ PlanInv /\ InTurn(Out, Printed)
  BY DEF OutputInv
<1>2. /\ <<"unsupported">> \in Seq(Message) /\ <<"event", "irq">> \in Seq(Message)
      /\ <<"event", "exception", "trace", "fatal">> \in Seq(Message)
      /\ <<"unsupported">> # << >> /\ <<"event", "irq">> # << >>
      /\ <<"event", "exception", "trace", "fatal">> # << >>
  BY DEF Message
<1>3. \A a \in {panic, trap, fault} :
          a \in Activation /\ a.at = "ready" /\ a.todo # << >> /\ a.kind # "main"
          /\ a.todo \in Left(a.kind)
  <2>1. panic \in Activation /\ trap \in Activation /\ fault \in Activation
    BY <1>2, RunBounded DEF Kind
  <2>2. /\ panic.kind = "panic" /\ panic.todo = <<"unsupported">> /\ panic.at = "ready"
        /\ trap.kind = "trap" /\ trap.todo = <<"event", "irq">> /\ trap.at = "ready"
        /\ fault.kind = "fault" /\ fault.todo = <<"event", "exception", "trace", "fatal">>
        /\ fault.at = "ready"
    BY DEF Run
  <2> HIDE DEF panic, trap, fault
  <2>3. panic.todo \in Left("panic") /\ trap.todo \in Left("trap") /\ fault.todo \in Left("fault")
    BY <2>2 DEF Left
  <2> QED
    BY <1>2, <2>1, <2>2, <2>3
<1>4. panic.kind # "trap" /\ fault.kind # "trap"
  BY DEF Run
<1>5. CASE Unsupported \/ SoftwareInterrupt \/ Fault
  <2>1. Push(panic) \/ (Push(trap) /\ top.todo # << >>) \/ Push(fault)
    <3>1. CASE SoftwareInterrupt
      <4>1. Len(top.todo) \in {1, 2}
        BY <3>1 DEF SoftwareInterrupt, inTp
      <4>2. Len(<< >>) = 0
        BY SMT
      <4>3. top.todo # << >>
        BY <4>1, <4>2
      <4> QED
        BY <3>1, <4>3 DEF SoftwareInterrupt
    <3> QED
      BY <1>5, <3>1 DEF Unsupported, Fault
  <2> HIDE DEF panic, trap, fault
  <2>2. PlanInv' /\ main' = main /\ top'.at = "ready" /\ top'.todo # << >>
    BY <1>1, <1>3, <1>4, <2>1, PushPlan
  <2>3. Out' = Out /\ Printed' = Printed
    BY <1>5, <2>2 DEF Unsupported, SoftwareInterrupt, Fault, Out, Printed, Place
  <2> QED
    BY <1>1, <2>2, <2>3 DEF LastInv, InTurn, MineOf, Turn
<1>6. CASE Return
  <2>1. PlanInv' /\ main' = main /\ top'.at = "ready" /\ top'.todo # << >>
    BY <1>1, <1>6, ReturnPlan
  <2>2. Out' = Out /\ Printed' = Printed
    BY <1>6, <2>1 DEF Return, Out, Printed, Place
  <2> QED
    BY <1>1, <2>1, <2>2 DEF LastInv, InTurn, MineOf, Turn
<1> QED
  BY <1>5, <1>6

\* Every step keeps what is known of the output, when no NMI comes.
LEMMA StepOutput ==
  ASSUME MaxNMI = 0, OutputInv, BoundsInv', [Next]_vars
  PROVE  OutputInv'
<1>1. QuietInv /\ Sent /\ PlanInv /\ LastInv /\ InTurn(Out, Printed)
  BY DEF OutputInv
<1>2. QuietInv' /\ Sent'
  BY <1>1, StepQuiet, StepSent
<1>3. CASE UNCHANGED vars \/ Transmit
  <2>1. stack' = stack /\ Out' = Out
    BY <1>3 DEF vars, Transmit, Out
  <2>2. PlanInv'
    BY <1>1, <2>1 DEF PlanInv
  <2>3. LastInv'
    BY <1>1, <2>1 DEF LastInv, Closed, Ends, Size, message, top
  <2>4. InTurn(Out, Printed)'
    BY <1>1, <2>1 DEF InTurn, MineOf, Turn, Printed, Place, main
  <2> QED
    BY <1>2, <2>2, <2>3, <2>4 DEF OutputInv
<1>4. ~NMI
  <2>1. ~(0 < 0)
    BY SMT
  <2> QED
    BY <1>1, <2>1 DEF NMI, QuietInv, Nested
<1> QED
  BY <1>2, <1>3, <1>4, PrintfOutput, PanicOutput, InterruptOutput DEF Next, Cpu, OutputInv

\* Nothing is printed yet.
LEMMA InitOutput == Init => OutputInv
<1> SUFFICES ASSUME Init PROVE OutputInv
  OBVIOUS
<1> DEFINE todo == <<"release", "text", "halted">>
           a == Run("main", todo)
<1>1. a.kind = "main" /\ a.at = "ready" /\ a.todo = todo
  BY DEF Run
<1>2. todo # << >> /\ Len(todo) = 3 /\ todo \in Left("main")
  BY SMT DEF Left
<1>3. Before[3] = 0 /\ 0 + 0 = 0
  BY SMT DEF Before
<1>4. /\ Len(<<a>>) = 1 /\ <<a>>[1] = a /\ Head(<<a>>) = a /\ (\A i \in 1 .. 1 : i = 1)
      /\ ~(1 < 1)
  BY SMT
<1> HIDE DEF a, todo
<1>5. stack = <<a>> /\ thr = None /\ line = << >>
  BY DEF Init, a, todo
<1>6. top = a /\ main = a /\ Out = << >>
  BY <1>4, <1>5 DEF top, main, Out
<1>7. Sent
  BY <1>5 DEF Sent
<1>8. PlanInv
  BY <1>1, <1>2, <1>4, <1>5 DEF PlanInv
<1>9. LastInv
  BY <1>1, <1>2, <1>6 DEF LastInv
<1>10. Printed = 0
  BY <1>1, <1>2, <1>3, <1>6 DEF Printed, Place
<1>11. MineOf(<< >>) = {}
  <2>1. 1 .. Len(<< >>) = {}
    BY SMT
  <2> QED
    BY <2>1 DEF MineOf
<1>12. InTurn(Out, Printed)
  BY <1>6, <1>10, <1>11, FS_EmptySet DEF InTurn
<1> QED
  BY <1>7, <1>8, <1>9, <1>12, InitQuiet DEF OutputInv

\* Halted, the transmitter holds the last NUL, or has sent it too.
LEMMA HaltedLast ==
  ASSUME OutputInv
  PROVE  LastWords
<1> SUFFICES ASSUME top.at = "halt" PROVE LastWords
  BY DEF LastWords
<1> DEFINE m == Closing[top.kind]
           n == Size(m)
<1>1. top.kind \in Final /\ Ends(Out, m, n, NULs) /\ Sent
  BY DEF OutputInv, LastInv, Closed
<1>2. m \in {"halted", "fatal", "unsupported"} /\ m \in Message
  BY <1>1 DEF Final, Closing, Message
<1>3. n \in Nat /\ NULs = 16
  BY <1>2, SizeInRoom DEF NULs
<1> HIDE DEF m, n
<1>4. PICK k \in 0 .. NULs :
        /\ Len(line) \in Nat /\ n <= Len(line) - k
        /\ \A i \in 1 .. n : line[(Len(line) - k) - n + i] = <<m, i>>
        /\ \A i \in (Len(line) - k) + 1 .. Len(line) : line[i] = NUL
  <2>1. CASE thr = None
    <3>1. Out = line /\ Len(line) \in Nat
      BY <1>1, <2>1, OutTyped DEF Out
    <3>2. 16 \in 0 .. 16 /\ n <= Len(line) - 16
      BY <1>1, <1>3, <3>1, SMT DEF Ends
    <3> QED
      BY <1>1, <1>3, <3>1, <3>2 DEF Ends
  <2>2. CASE thr # None
    <3>1. /\ Out = Append(line, thr) /\ line \in Seq(Character) /\ thr \in Character
      BY <1>1, <2>2 DEF Out, Sent
    <3>2. /\ Len(line) \in Nat /\ Len(Out) = Len(line) + 1
          /\ \A i \in 1 .. Len(line) : Out[i] = line[i]
      BY <3>1, Appended
    <3>3. 15 \in 0 .. 16 /\ n <= Len(line) - 15 /\ n + 16 <= Len(Out)
      BY <1>1, <1>3, <3>2, SMT DEF Ends
    <3>4. ASSUME NEW i \in 1 .. n PROVE line[(Len(line) - 15) - n + i] = <<m, i>>
      <4>1. /\ Len(Out) - 16 - n + i = (Len(line) - 15) - n + i
            /\ (Len(line) - 15) - n + i \in 1 .. Len(line)
        BY <1>3, <3>2, <3>3, SMT
      <4> QED
        BY <1>1, <1>3, <3>2, <4>1 DEF Ends
    <3>5. ASSUME NEW i \in (Len(line) - 15) + 1 .. Len(line) PROVE line[i] = NUL
      <4>1. i \in Len(Out) - 16 + 1 .. Len(Out) /\ i \in 1 .. Len(line)
        BY <1>3, <3>2, <3>3, SMT
      <4> QED
        BY <1>1, <1>3, <3>2, <4>1 DEF Ends
    <3> QED
      BY <1>3, <3>2, <3>3, <3>4, <3>5
  <2> QED
    BY <2>1, <2>2
<1> QED
  BY <1>2, <1>4 DEF LastWords, n

\* The invariant of the output holds in every state.
LEMMA OutputInvariant == ASSUME MaxNMI = 0 PROVE Spec => []OutputInv
<1>1. OutputInv /\ BoundsInv /\ [Next]_vars => OutputInv' /\ BoundsInv'
  BY StepBounds, StepOutput
<1>2. Init => OutputInv /\ BoundsInv
  BY InitBounds, InitOutput
<1> QED
  BY <1>1, <1>2, PTL DEF Spec

\* Whenever the kernel halts, by its panic, by a fault's or by an unsupported
\* conversion's, the closing message is complete on the line, and only NULs follow
\* it: for any buffer and messages, and any software interrupts before.
THEOREM LastWordsOut == ASSUME MaxNMI = 0 PROVE Spec => []LastWords
<1>1. OutputInv => LastWords
  BY HaltedLast
<1> QED
  BY <1>1, OutputInvariant, PTL

\* What interrupts and faults print leaves main's own text as main prints it, each
\* character once and in its turn.
THEOREM TextInTurn == ASSUME MaxNMI = 0 PROVE Spec => []TextIntact
<1>1. OutputInv => TextIntact
  <2>1. Mine = MineOf(Out)
    BY DEF Mine, MineOf
  <2> QED
    BY <2>1 DEF OutputInv, InTurn, Turn, TextIntact
<1> QED
  BY <1>1, OutputInvariant, PTL
=============================================================================
