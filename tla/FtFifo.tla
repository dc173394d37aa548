------------------------------- MODULE FtFifo -------------------------------
(***************************************************************************)
(* The FIFO acquisition as a whole: the interrupt handler of               *)
(* software/kernel/ft-fifo.c running against the gateware of TimestampFifo *)
(* and against user processes that enable and disable inputs               *)
(* (ft_change_flags).                                                      *)
(*                                                                         *)
(* Every access to a device register is a step of its own.  The sources of *)
(* the FIFO interrupts are level triggered, so the ISR of the interrupt    *)
(* controller is the state of the lines and the acknowledge at the end of  *)
(* the handler does not outlive the next clock cycles.  ZIO is modelled    *)
(* from the way the driver uses it; its trigger is armed and disarmed by   *)
(* the handler alone, so only the active block is kept.                    *)
(***************************************************************************)
EXTENDS TimestampFifo, FiniteSets

CONSTANTS
  Redo,        \* the initial value of redo
  MaxEnables,  \* bound: enables ...
  MaxDisables, \* ... and disables of each input by user processes
  MaxFails     \* bound: blocks that ZIO cannot allocate

ASSUME DriverAssumption == /\ Redo \in Nat \ {0}
                           /\ MaxEnables \in Nat
                           /\ MaxDisables \in Nat
                           /\ MaxFails \in Nat

VARIABLES
  hpc,         \* ft_irq_handler_ts_fifo: program counter
  stat,        \* irq_stat
  left,        \* bits of irq_stat still to visit in this pass
  i, n, redo,  \* i, n, redo
  want, got,   \* timestamps to get into the block, and got so far
  block,       \* ZIO: {} or {the data of the active block}
  out,         \* what the reader of each input has received
  received, transferred,    \* st->stats
  upc,         \* ft_change_flags on each input: program counter
  stale,       \* history: inputs emptied between the reads of CSR and the block
  enables, disables, fails  \* how often each bounded event has happened

handlerVars == <<hpc, stat, left, i, n, redo, want, got>>
zioVars  == <<block, out>>
statVars == <<received, transferred>>
userVars == <<upc, enables, disables, stale>>
vars == <<fifoVars, handlerVars, zioVars, statVars, userVars, fails>>

Init ==
  /\ FifoInit
  /\ hpc = "idle" /\ stat = {} /\ left = {}
  /\ i = 0 /\ n = 0 /\ redo = Redo /\ want = 0 /\ got = 0
  /\ block = [c \in Chan |-> {}]
  /\ out = [c \in Chan |-> <<>>]
  /\ received = [c \in Chan |-> 0] /\ transferred = [c \in Chan |-> 0]
  /\ upc = [c \in Chan |-> "idle"]
  /\ enables = [c \in Chan |-> 0] /\ disables = [c \in Chan |-> 0]
  /\ stale = {} /\ fails = 0

-----------------------------------------------------------------------------
(* ft_irq_handler_ts_fifo *)

Goto(from, to) == hpc = from /\ hpc' = to

\* ft_irq_fifo_status.  A line falls a few clock cycles after its reason is
\* gone, which is before the driver's next access.
IrqLines == {c \in Chan : irq[c] /\ ~IrqOver(c)}

Interrupt ==
  /\ IrqLines # {} /\ Goto("idle", "isr")
  /\ UNCHANGED <<fifoVars, stat, left, i, n, redo, want, got, zioVars,
                 statVars, userVars, fails>>

\* The lines may have fallen since: IRQ_NONE.
ReadIsr ==
  /\ IF IrqLines = {} THEN Goto("isr", "idle") ELSE Goto("isr", "scan")
  /\ stat' = IrqLines /\ left' = IrqLines
  /\ redo' = Redo
  /\ UNCHANGED <<fifoVars, i, n, want, got, zioVars, statVars, userVars,
                 fails>>

\* for_each_set_bit, and the read of CSR
NextInput(c) == c \in left /\ \A d \in left : c <= d

SkipEmpty(c) ==
  /\ NextInput(c) /\ UsedW(c) = 0 /\ Goto("scan", "scan")
  /\ left' = left \ {c} /\ i' = c /\ n' = 0
  /\ UNCHANGED <<fifoVars, stat, redo, want, got, zioVars, statVars, userVars,
                 fails>>

ReadCsr(c) ==
  /\ NextInput(c) /\ UsedW(c) # 0
  /\ IF Full(c) THEN Goto("scan", "flush") ELSE Goto("scan", "arm")
  /\ left' = left \ {c} /\ i' = c /\ n' = UsedW(c)
  /\ UNCHANGED <<fifoVars, stat, redo, want, got, zioVars, statVars, userVars,
                 fails>>

\* ft_fifo_flush; the bit of the input stays in irq_stat.
Flush ==
  /\ Goto("flush", "scan")
  /\ ClearBus(i)
  /\ UNCHANGED <<enable, made, irq, stat, left, i, n, redo, want, got,
                 zioVars, statVars, userVars, fails>>

\* ft_readout_fifo_n up to zio_arm_trigger, which allocates a block of n for a
\* channel that is enabled, if it can.
Arm ==
  /\ Goto("arm", "get")
  /\ received' = [received EXCEPT ![i] = @ + n]
  /\ got' = 0
  /\ \/ /\ enable[i]
        /\ block' = [block EXCEPT ![i] = {<<>>}]
        /\ want' = n
        /\ UNCHANGED fails
     \/ /\ want' = 0
        /\ \/ ~enable[i] /\ UNCHANGED fails
           \/ enable[i] /\ fails < MaxFails /\ fails' = fails + 1
        /\ UNCHANGED block
  /\ UNCHANGED <<fifoVars, stat, left, i, n, redo, out, transferred, userVars>>

\* ft_timestamp_get, one of ft_timestamp_get_n.  The handler goes on with the
\* address of the block when ZIO has freed it in the meantime.
Get ==
  /\ got < want /\ Goto("get", "get")
  /\ block' = [block EXCEPT ![i] = {Append(data, Output(i)) : data \in @}]
  /\ fifo' = [fifo EXCEPT ![i] = Popped(i)]
  /\ got' = got + 1
  /\ UNCHANGED <<enable, made, irq, stat, left, i, n, redo, want, out,
                 statVars, userVars, fails>>

\* n < FT_FIFO_MAX / 2
ReadItAllMut == n + 1 < Depth \div 2
ReadItAll == n < Depth \div 2

TransferredMut == n
Transferred == want

\* zio_trigger_data_done hands the active block, if any, to the reader.
DataDone ==
  /\ got = want /\ Goto("get", "scan")
  /\ out' = [out EXCEPT ![i] = IF block[i] = {} THEN @
                               ELSE @ \o CHOOSE data \in block[i] : TRUE]
  /\ block' = [block EXCEPT ![i] = {}]
  /\ transferred' = [transferred EXCEPT ![i] = @ + Transferred]
  /\ IF ReadItAll THEN stat' = stat \ {i} /\ UNCHANGED redo
                  ELSE redo' = redo - 1 /\ UNCHANGED stat
  /\ UNCHANGED <<fifoVars, left, i, n, want, got, received, userVars, fails>>

\* while (irq_stat && redo)
Again ==
  /\ left = {} /\ stat # {} /\ redo # 0 /\ Goto("scan", "scan")
  /\ left' = stat
  /\ UNCHANGED <<fifoVars, stat, i, n, redo, want, got, zioVars, statVars,
                 userVars, fails>>

\* The write of ISR, and the return.
Return ==
  /\ left = {} /\ (stat = {} \/ redo = 0) /\ Goto("scan", "idle")
  /\ UNCHANGED <<fifoVars, stat, left, i, n, redo, want, got, zioVars,
                 statVars, userVars, fails>>

-----------------------------------------------------------------------------
(* ft_change_flags *)

UserGoto(c, from, to) == upc[c] = from /\ upc' = [upc EXCEPT ![c] = to]

EnableInput(c) ==
  /\ ~enable[c] /\ UserGoto(c, "idle", "idle")
  /\ enables[c] < MaxEnables /\ enables' = [enables EXCEPT ![c] = @ + 1]
  /\ enable' = [enable EXCEPT ![c] = TRUE]
  /\ UNCHANGED <<fifo, made, irq, handlerVars, zioVars, statVars, disables,
                 stale, fails>>

DisableInput(c) ==
  /\ enable[c] /\ UserGoto(c, "idle", "abort")
  /\ disables[c] < MaxDisables /\ disables' = [disables EXCEPT ![c] = @ + 1]
  /\ enable' = [enable EXCEPT ![c] = FALSE]
  /\ UNCHANGED <<fifo, made, irq, handlerVars, zioVars, statVars, enables,
                 stale, fails>>

\* zio_trigger_abort_disable frees the active block.
AbortedMut(c) == block
Aborted(c) == [block EXCEPT ![c] = {}]

AbortTrigger(c) ==
  /\ UserGoto(c, "abort", "clear")
  /\ block' = Aborted(c)
  /\ UNCHANGED <<fifoVars, handlerVars, out, statVars, enables, disables,
                 stale, fails>>

ClearFifo(c) ==
  /\ UserGoto(c, "clear", "idle")
  /\ ClearBus(c)
  /\ stale' = IF hpc = "arm" /\ i = c THEN stale \union {c} ELSE stale
  /\ UNCHANGED <<enable, made, irq, handlerVars, zioVars, statVars, enables,
                 disables, fails>>

-----------------------------------------------------------------------------
DriverUnchanged == UNCHANGED <<handlerVars, zioVars, statVars, userVars, fails>>
Handler == \/ Interrupt \/ ReadIsr
           \/ \E c \in Chan : SkipEmpty(c) \/ ReadCsr(c)
           \/ Flush \/ Arm \/ Get \/ DataDone \/ Again \/ Return
Close(c) == AbortTrigger(c) \/ ClearFifo(c)
User == \E c \in Chan : EnableInput(c) \/ DisableInput(c) \/ Close(c)

Next == \/ \E c \in Chan : FifoStep(c) /\ DriverUnchanged
        \/ Handler \/ User

Spec == Init /\ [][Next]_vars

\* The CPU runs the handler, and ft_change_flags once it has been called.
\* Nothing is assumed of pulses, of allocations or of new calls.
Fairness == /\ \A c \in Chan : FifoFairness(c) /\ WF_vars(Close(c))
            /\ WF_vars(Handler)

FairSpec == Spec /\ Fairness

-----------------------------------------------------------------------------
IsBlock(b) == b = {} \/ \E data \in b : data \in Seq(Stamp) /\ b = {data}

\* Registers and variables hold values of their types.  redo is a signed int:
\* nothing in the code keeps it from going below zero.
TypeOK ==
  /\ FifoTypeOK
  /\ hpc \in {"idle", "isr", "scan", "flush", "arm", "get"}
  /\ stat \in SUBSET Chan /\ left \in SUBSET Chan
  /\ i \in Chan /\ n \in Nat /\ redo \in Int /\ want \in Nat /\ got \in Nat
  /\ block = [c \in Chan |-> block[c]]
  /\ \A c \in Chan : IsBlock(block[c])
  /\ out \in [Chan -> Seq(Stamp)]
  /\ received \in [Chan -> Nat] /\ transferred \in [Chan -> Nat]
  /\ upc \in [Chan -> {"idle", "abort", "clear"}]
  /\ enables \in [Chan -> 0 .. MaxEnables]
  /\ disables \in [Chan -> 0 .. MaxDisables]
  /\ stale \in SUBSET Chan
  /\ fails \in 0 .. MaxFails

\* The count the handler has read from CSR still covers what the FIFO holds by
\* the time it reads: as long as its block is alive it never reads an empty
\* FIFO (n in ft_irq_handler_ts_fifo, used by ft_timestamp_get_n).  It does only
\* if the input was closed, and opened again, between the read of CSR and
\* zio_arm_trigger: then it asks for a block of as many as were there before.
CountStaysTrue ==
  hpc = "get" /\ block[i] # {} /\ i \notin stale => Len(fifo[i]) >= want - got

\* A reader sees its own input's timestamps, each at most once and in order,
\* however often the input is closed and opened: no junk, nothing twice, unless
\* the count was stale.
OutIncreasing ==
  \A c \in Chan \ stale : \A k \in DOMAIN out[c] :
     /\ out[c][k][1] = c /\ out[c][k][2] > 0
     /\ k > 1 => out[c][k][2] > out[c][k - 1][2]

\* The attribute "transferred" is the number of timestamps given to the reader.
TransferredIsDelivered == \A c \in Chan : transferred[c] = Len(out[c])

\* The interrupt handler comes to its end.
HandlerEnds == hpc # "idle" ~> hpc = "idle"

Stream == INSTANCE TsStream WITH taken <- made, given <- out

\* Handler and FIFO together implement the stream of accepted timestamps ...
ImplementsStream == Stream!Spec
\* ... and leave nothing behind.
DeliversAll == Stream!FairSpec
=============================================================================
