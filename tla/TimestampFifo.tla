---------------------------- MODULE TimestampFifo ----------------------------
(***************************************************************************)
(* The gateware side of the FIFO acquisition: the FIFO every TDC input has *)
(* (hdl/rtl/timestamp_fifo.vhd and its registers, timestamp_fifo_wb.vhd)   *)
(* and the coalesced interrupt it raises.  The interrupt threshold only    *)
(* brings forward what the timer does anyway, so both are one action that  *)
(* may happen at any time while the FIFO holds something.                  *)
(***************************************************************************)
EXTENDS Integers, Sequences

CONSTANTS
  NumChan,     \* FT_NUM_CHANNELS
  Depth,       \* FT_FIFO_MAX, the size of the FIFO; CSR.USEDW is as wide
  Capacity,    \* timestamps in a FIFO that says FULL.  The FIFO itself is not
               \* part of this repository: it may keep one entry free
  MaxTs,       \* bound: timestamps a FIFO ever accepts
  Crowd        \* may pulses come fast enough to fill half of a FIFO?

ASSUME FifoAssumption == /\ NumChan \in Nat \ {0}
                         /\ Depth \in Nat \ {0, 1}
                         /\ Capacity \in {Depth - 1, Depth}
                         /\ MaxTs \in Nat
                         /\ Crowd \in BOOLEAN

VARIABLES
  enable,      \* enable_i, the input's bit of INPUT_ENABLE
  fifo,        \* the FIFO
  made,        \* timestamps the FIFO has accepted
  irq          \* buf_irq_int

fifoVars == <<enable, fifo, made, irq>>

Chan == 0 .. NumChan - 1
Ts(c, n) == <<c, n>>                 \* the n-th timestamp of channel c
Junk == <<0, 0>>                     \* a word that is no timestamp
Stamp == Chan \X (0 .. MaxTs)

FifoInit ==
  /\ enable = [c \in Chan |-> FALSE]
  /\ fifo   = [c \in Chan |-> <<>>]
  /\ made   = [c \in Chan |-> 0]
  /\ irq    = [c \in Chan |-> FALSE]

\* What the driver reads in CSR
Full(c) == Len(fifo[c]) = Capacity
UsedWMut(c) == (Len(fifo[c]) + 1) % Depth
UsedWFallMut(c) == Len(fifo[c]) - 1
UsedW(c) == Len(fifo[c]) % Depth

\* p_fifo_write.  What comes while the FIFO is full is not accepted.
\* Crowd = FALSE is the environment in which interrupts are served before half
\* of the FIFO is filled.
Arrive(c) ==
  /\ enable[c] /\ ~Full(c)
  /\ made[c] < MaxTs
  /\ Crowd \/ Len(fifo[c]) + 1 < Depth \div 2
  /\ fifo' = [fifo EXCEPT ![c] = Append(@, Ts(c, made[c] + 1))]
  /\ made' = [made EXCEPT ![c] = @ + 1]
  /\ UNCHANGED <<enable, irq>>

\* p_coalesce_irq
AssertIrq(c) ==
  /\ enable[c] /\ fifo[c] # <<>> /\ ~irq[c]
  /\ irq' = [irq EXCEPT ![c] = TRUE]
  /\ UNCHANGED <<enable, fifo, made>>

IrqOverMut(c) == ~enable[c] \/ Len(fifo[c]) < Depth \div 2
IrqOver(c) == ~enable[c] \/ fifo[c] = <<>>

DropIrq(c) ==
  /\ irq[c] /\ IrqOver(c)
  /\ irq' = [irq EXCEPT ![c] = FALSE]
  /\ UNCHANGED <<enable, fifo, made>>

\* The word FIFO_R0 .. FIFO_R3 give, and the FIFO after the read of FIFO_R0.
\* An empty FIFO repeats whatever its output register holds.
Output(c) == IF fifo[c] = <<>> THEN Junk ELSE Head(fifo[c])
Popped(c) == IF fifo[c] = <<>> THEN <<>> ELSE Tail(fifo[c])

\* CSR.CLEAR_BUS
ClearBus(c) == fifo' = [fifo EXCEPT ![c] = <<>>]

FifoStep(c) == Arrive(c) \/ AssertIrq(c) \/ DropIrq(c)

\* The gateware is clocked and its timer runs; pulses are up to the environment.
FifoFairness(c) == WF_fifoVars(AssertIrq(c)) /\ WF_fifoVars(DropIrq(c))

FifoTypeOK ==
  /\ enable \in [Chan -> BOOLEAN]
  /\ fifo \in [Chan -> Seq(Stamp)]
  /\ made \in [Chan -> 0 .. MaxTs]
  /\ irq \in [Chan -> BOOLEAN]
=============================================================================
