-------------------------------- MODULE Uart --------------------------------
(***************************************************************************)
(* uart_init and uart_read of kernel/core/uart.c, with the serial chip     *)
(* whose registers share eight ports: the last value of the LCR says which *)
(* register a port means.  A 16650 has one more bank than a 16550.         *)
(*                                                                         *)
(* A byte received is named by its rank.  What uart_write and uart_flush   *)
(* do is in Console.                                                       *)
(***************************************************************************)
EXTENDS Naturals, SequencesExt

CONSTANTS
    FcrJunk,    \* what the bits of fcr left alone may hold: of those, a mask
    FifoDepth,  \* the bytes a receive FIFO holds (a bound: 16 in the chips)
    MaxBytes,   \* the bytes the terminal sends (a bound)
    MaxRead     \* n, the size of uart_read's buffer

\* The bits that fcr leaves alone are not its lowest, the enable bit
LineAssumption == FcrJunk \subseteq {j \in Nat : j % 2 = 0} /\ MaxRead \in Nat

VARIABLES
    chip,       \* "16550" or "16650"
    reg,        \* the chip's registers that are written
    rx,         \* the bytes received and not yet read
    arrived,    \* how many bytes the terminal has sent
    sent,       \* what was put on the line
    junk,       \* the bits of fcr that are not set
    step,       \* the write of uart_init that comes next
    pc,         \* "init", "flush", "ready" or "read"
    can,        \* __uart_can_recv was true, and __uart_recv_char follows
    skipped,    \* the bytes of the flush, by rank
    data        \* uart_read's buffer

vars == <<chip, reg, rx, arrived, sent, junk, step, pc, can, skipped, data>>

(* The ports *)
PortOf ==
    [TXRX |-> 0, IER |-> 1, FCR |-> 2, LCR |-> 3,
     DLA_LSB |-> 0, DLA_MSB |-> 1, EFR |-> 2]

\* The register a port means
Selected(port) ==
    CASE port = 0 /\ reg.LCR >= 128 -> "DLA_LSB"
      [] port = 1 /\ reg.LCR >= 128 -> "DLA_MSB"
      [] port = 2 /\ reg.LCR = 191 /\ chip = "16650" -> "EFR"
      [] port = 0 /\ reg.LCR < 128 -> "TXRX"
      [] port = 1 /\ reg.LCR < 128 -> "IER"
      [] port = 2 /\ ~(reg.LCR = 191 /\ chip = "16650") -> "FCR"
      [] port = 3 -> "LCR"

(* The values, as the unions of uart.h lay them out *)
EnableEfr == 191            \* uart_enable_efr_registers: 0xbf
EnableDla == 128            \* uart_enable_dla_registers: 0x80
EfrCtl == 16                \* efr.ctl
EfrAuto == 64 + 128         \* efr.a_rts, efr.a_cts
EightBits == 3              \* lcr.word_len
FcrEnabled(v) == v % 2 = 1

Out(r, v) == [reg |-> r, val |-> v]

\* __uart_fifo_init.  fcr.enable and fcr.dma, bits 0 and 3, are clear; the others
\* are what the stack held.
fifo_init ==
    << Out("LCR", EnableEfr), Out("EFR", EfrCtl), Out("FCR", junk),
       Out("LCR", 0), Out("EFR", EfrAuto) >>

\* __uart_common_init, but for the flush
common_init ==
    << Out("LCR", EnableDla), Out("DLA_LSB", 1), Out("DLA_MSB", 0),
       Out("LCR", EightBits), Out("IER", 0) >>

\* (A definition whose name starts with Bad is a faulty variant of the one that
\* follows, a bug the properties must notice.)
Baduart_init == SelectSeq(fifo_init \o common_init, LAMBDA o : o.reg # "DLA_MSB")
uart_init == fifo_init \o common_init

-----------------------------------------------------------------------------
\* What the firmware and the boot loader left
Init ==
    /\ chip \in {"16550", "16650"}
    /\ reg \in [TXRX : {0}, IER : {0, 1}, FCR : {0, 1}, LCR : {3, 128 + 3},
                DLA_LSB : {1, 12}, DLA_MSB : {0, 9}, EFR : {0}]
    /\ rx = << >> /\ arrived = 0 /\ sent = << >>
    /\ junk \in FcrJunk
    /\ step = 1 /\ pc = "init" /\ can = FALSE
    /\ skipped = {} /\ data = << >>

\* Only a FIFO that is enabled takes the FCR's other bits; a change of the enable bit
\* empties it
StepInit ==
    /\ pc = "init"
    /\ LET o == uart_init[step]
           r == Selected(PortOf[o.reg])
           v == IF r = "FCR" /\ ~FcrEnabled(o.val) THEN 0 ELSE o.val
       IN  /\ reg' = [reg EXCEPT ![r] = v]
           /\ sent' = IF r = "TXRX" THEN Append(sent, o.val) ELSE sent
           /\ rx' = IF r = "FCR" /\ FcrEnabled(reg.FCR) THEN << >> ELSE rx
    /\ step' = step + 1
    /\ pc' = IF step = Len(uart_init) THEN "flush" ELSE pc
    /\ UNCHANGED <<chip, arrived, junk, can, skipped, data>>

\* The terminal sends a byte.  A full FIFO loses it; without one, the byte takes the
\* place of the one not read yet.
Arrive ==
    /\ arrived < MaxBytes
    /\ arrived' = arrived + 1
    /\ rx' = IF ~FcrEnabled(reg.FCR) THEN <<arrived + 1>>
             ELSE IF Len(rx) < FifoDepth THEN Append(rx, arrived + 1) ELSE rx
    /\ UNCHANGED <<chip, reg, sent, junk, step, pc, can, skipped, data>>

Reading == pc \in {"flush", "read"}

\* __uart_recv_char: the port's register, as the LCR selects it
recv_char == IF Selected(PortOf["TXRX"]) = "TXRX" THEN Head(rx) ELSE reg.DLA_LSB

BadCanRecv == rx # << >>
CanRecv == rx # << >> /\ (pc = "read" => Len(data) < MaxRead)

\* while(__uart_can_recv(port) && buf->sz < max)
Poll ==
    /\ Reading /\ ~can
    /\ IF CanRecv THEN can' = TRUE /\ UNCHANGED pc ELSE can' = FALSE /\ pc' = "ready"
    /\ UNCHANGED <<chip, reg, rx, arrived, sent, junk, step, skipped, data>>

\* The byte may have been replaced since it was seen, never removed
Receive ==
    /\ Reading /\ can
    /\ IF pc = "flush" THEN skipped' = skipped \union {recv_char} /\ UNCHANGED data
       ELSE data' = Append(data, recv_char) /\ UNCHANGED skipped
    /\ rx' = Tail(rx)
    /\ can' = FALSE
    /\ UNCHANGED <<chip, reg, arrived, sent, junk, step, pc>>

\* uart_read(data, n), once
Read ==
    /\ pc = "ready" /\ data = << >>
    /\ pc' = "read"
    /\ UNCHANGED <<chip, reg, rx, arrived, sent, junk, step, can, skipped, data>>

Next == StepInit \/ Arrive \/ Poll \/ Receive \/ Read

Spec == Init /\ [][Next]_vars

-----------------------------------------------------------------------------
(* Properties *)

Done == pc # "init"

\* Whatever was left in the chip and on the stack, after uart_init the line runs at
\* 115200 bauds with 8 bits, no parity and 1 stop bit, raises no interrupt, and the
\* FIFO is off.  Nothing was put on it: no value of the divisor is taken for a
\* character, whatever bank the chip was left in.
LineSetUp ==
    /\ Done => /\ reg.DLA_LSB = 1 /\ reg.DLA_MSB = 0
               /\ reg.LCR = 3 /\ reg.IER = 0 /\ ~FcrEnabled(reg.FCR)
    /\ sent = << >>

\* uart_read gives bytes of the terminal, at most n of them, each once and in order,
\* and none that the flush of uart_init has thrown away.
ReadOnce ==
    /\ Len(data) <= MaxRead
    /\ \A i \in 1 .. Len(data) :
          /\ data[i] \in 1 .. arrived \ skipped
          /\ i > 1 => data[i - 1] < data[i]
=============================================================================
