---------------------------- MODULE TdcDmaChannel ----------------------------
(***************************************************************************)
(* The gateware side of the DMA acquisition: one DMA channel per TDC input *)
(* (hdl/rtl/tdc_dma_channel.vhd).  A channel packs timestamps in bursts,   *)
(* queues them in a FIFO, commits the FIFO to its current DDR buffer and   *)
(* exchanges the current buffer for the next one when it is asked to       *)
(* (CSR.SWITCH_BUFFERS) or when the current one is full.                   *)
(*                                                                         *)
(* One step of a process of the VHDL that changes state is one action; the *)
(* registers the software writes are changed by the actions of the modules *)
(* that extend this one.  The four cycles SER0..SER3 that push the four    *)
(* words of a timestamp are one step, so a FIFO entry is a whole           *)
(* timestamp; DDR addresses count timestamps (16 bytes each).              *)
(***************************************************************************)
EXTENDS Integers, Sequences

CONSTANTS
  NumChan,     \* FT_NUM_CHANNELS: how many inputs the mezzanine has
  BufSize,     \* CUR_SIZE and NEXT_SIZE: timestamps per DDR buffer
  BurstSize,   \* CSR.BURST_SIZE: timestamps per burst to the DDR
  MaxTs,       \* bound: timestamps an input ever produces
  Overfill     \* may pulses come fast enough to fill a DDR buffer?

ASSUME ChanAssumption == NumChan \in Nat \ {0}
ASSUME SizeAssumption == /\ BufSize \in Nat \ {0}
                         /\ BurstSize \in Nat \ {0}
                         /\ MaxTs \in Nat
ASSUME OverfillAssumption == Overfill \in BOOLEAN

VARIABLES
  enable,      \* enable_i, the input's bit of INPUT_ENABLE
  wst,         \* state of the write FSM
  latched,     \* buffer_switch_latched
  cur,         \* CUR_BASE and CUR_SIZE.VALID
  nxt,         \* NEXT_BASE and NEXT_SIZE.VALID
  count,       \* timestamps in the current buffer
  curCount,    \* CUR_COUNT (cur_pos): count of the buffer switched away last
  burst,       \* burst_count
  irqReq,      \* irq_req
  expired,     \* irq_timer has reached CSR.IRQ_TIMEOUT
  overflow,    \* the overflow signal
  made,        \* timestamps the write FSM has taken from the input
  bursts,      \* bursts_in_fifo
  fifo,        \* the 256-word FIFO between the FSM and the DDR master
  dst,         \* dma_state
  wr,          \* dma_addr
  acks,        \* ack_count: writes the DDR has not acknowledged
  done,        \* CSR.DONE
  mem          \* the DDR, one timestamp per address

fsmVars == <<wst, latched, cur, nxt, count, curCount, burst, irqReq, expired,
             overflow, made>>
dmaVars == <<bursts, fifo, dst, wr, acks, done, mem>>
hwVars  == <<enable, fsmVars, dmaVars>>

Chan == 0 .. NumChan - 1
Buf == {0, 1}
\* st->buf_addr[b] of channel c: the buffers lie side by side in the DDR
BufAddr(c, b) == BufSize * (2 * c + b)
Slots(base) == base .. (base + BufSize - 1)
\* The DDR goes on after the last buffer; BurstSize slots are more than the
\* hardware ever reaches.
Addr == 0 .. (2 * NumChan * BufSize + BurstSize)

Ts(c, n) == <<c, n>>                 \* the n-th timestamp of channel c
Junk == <<0, 0>>                     \* a word that is no timestamp
Stamp == Chan \X (0 .. MaxTs)

AddrWord(a) == [kind |-> "addr", val |-> a]
TsWord(t)   == [kind |-> "ts",   val |-> t]
LastWord    == [kind |-> "last", val |-> 0]
Word == [kind : {"addr"}, val : Nat] \cup [kind : {"ts"}, val : Stamp]
          \cup {LastWord}

HeadIs(c, k) == fifo[c] # <<>> /\ Head(fifo[c]).kind = k
Push(c, w) == fifo' = [fifo EXCEPT ![c] = Append(@, w)]
Pop(c) == fifo' = [fifo EXCEPT ![c] = Tail(@)]

IrqLine(c) == expired[c] /\ irqReq[c] /\ enable[c]

(***************************************************************************)
(* After reset and ft_buffer_size_set.                                     *)
(***************************************************************************)
HwInit ==
  /\ enable   = [c \in Chan |-> FALSE]
  /\ wst      = [c \in Chan |-> "IDLE"]
  /\ latched  = [c \in Chan |-> FALSE]
  /\ cur      = [c \in Chan |-> [base |-> BufAddr(c, 0), valid |-> TRUE]]
  /\ nxt      = [c \in Chan |-> [base |-> BufAddr(c, 1), valid |-> TRUE]]
  /\ count    = [c \in Chan |-> 0]
  /\ curCount = [c \in Chan |-> 0]
  /\ burst    = [c \in Chan |-> 0]
  /\ irqReq   = [c \in Chan |-> FALSE]
  /\ expired  = [c \in Chan |-> FALSE]
  /\ overflow = [c \in Chan |-> FALSE]
  /\ made     = [c \in Chan |-> 0]
  /\ bursts   = [c \in Chan |-> 0]
  /\ fifo     = [c \in Chan |-> <<>>]
  /\ dst      = [c \in Chan |-> "WAIT_BURST"]
  /\ wr       = [c \in Chan |-> 0]
  /\ acks     = [c \in Chan |-> 0]
  /\ done     = [c \in Chan |-> FALSE]
  /\ mem      = [a \in Addr |-> Junk]

-----------------------------------------------------------------------------
(* p_write_fsm *)

\* A timestamp is waiting at ts_i.  Overfill = FALSE is the environment in
\* which interrupts are served before 2^20 timestamps pile up in a buffer.
TsValid(c) == /\ enable[c]
              /\ made[c] < MaxTs
              /\ Overfill \/ ~cur[c].valid \/ count[c] + 1 < BufSize

\* IDLE, room in the current buffer: open a burst.  This wins over a latched
\* switch, which then waits for the end of the burst.
OpenBurst(c) ==
  /\ wst[c] = "IDLE" /\ TsValid(c) /\ cur[c].valid /\ count[c] < BufSize
  /\ Push(c, AddrWord(cur[c].base + count[c]))
  /\ wst'      = [wst EXCEPT ![c] = "SER"]
  /\ burst'    = [burst EXCEPT ![c] = 0]
  /\ irqReq'   = [irqReq EXCEPT ![c] = TRUE]
  /\ overflow' = [overflow EXCEPT ![c] = FALSE]
  /\ made'     = [made EXCEPT ![c] = @ + 1]
  /\ UNCHANGED <<enable, latched, cur, nxt, count, curCount, expired,
                 bursts, dst, wr, acks, done, mem>>

\* IDLE, the current buffer is full: the hardware asks itself for a switch.
BufferFull(c) ==
  /\ wst[c] = "IDLE" /\ TsValid(c) /\ cur[c].valid /\ ~(count[c] < BufSize)
  /\ ~latched[c]
  /\ latched'  = [latched EXCEPT ![c] = TRUE]
  /\ overflow' = [overflow EXCEPT ![c] = FALSE]
  /\ UNCHANGED <<enable, wst, cur, nxt, count, curCount, burst, irqReq,
                 expired, made, dmaVars>>

\* IDLE, no valid buffer: the timestamp is taken and dropped.
DropTs(c) ==
  /\ wst[c] = "IDLE" /\ TsValid(c) /\ ~cur[c].valid
  /\ overflow' = [overflow EXCEPT ![c] = TRUE]
  /\ wst' = [wst EXCEPT ![c] = IF latched[c] THEN "SWITCH_BUFFERS" ELSE @]
  /\ made' = [made EXCEPT ![c] = @ + 1]
  /\ UNCHANGED <<enable, latched, cur, nxt, count, curCount, burst, irqReq,
                 expired, dmaVars>>

LeaveIdle(c) ==
  /\ wst[c] = "IDLE" /\ latched[c]
  /\ wst' = [wst EXCEPT ![c] = "SWITCH_BUFFERS"]
  /\ UNCHANGED <<enable, latched, cur, nxt, count, curCount, burst, irqReq,
                 expired, overflow, made, dmaVars>>

\* irq_req falls only when the software had provided a next buffer.
IrqReqAfterSwitch(c) == IF nxt[c].valid THEN FALSE ELSE irqReq[c]

\* cur_pos <= count
CountAtSwitchMut(c) == count[c] + 1
CountAtSwitch(c) == count[c]

SwitchBuffers(c) ==
  /\ wst[c] = "SWITCH_BUFFERS"
  /\ curCount' = [curCount EXCEPT ![c] = CountAtSwitch(c)]
  /\ count'    = [count EXCEPT ![c] = 0]
  /\ cur'      = [cur EXCEPT ![c] = nxt[c]]
  /\ nxt'      = [nxt EXCEPT ![c].valid = FALSE]
  /\ latched'  = [latched EXCEPT ![c] = FALSE]
  /\ irqReq'   = [irqReq EXCEPT ![c] = IrqReqAfterSwitch(c)]
  /\ expired'  = [expired EXCEPT ![c] = @ /\ IrqReqAfterSwitch(c)]
  /\ Push(c, LastWord)
  /\ wst'      = [wst EXCEPT ![c] = "IDLE"]
  /\ UNCHANGED <<enable, burst, overflow, made, bursts, dst, wr, acks, done,
                 mem>>

\* SER0 .. SER3
Serialise(c) ==
  /\ wst[c] = "SER"
  /\ Push(c, TsWord(Ts(c, made[c])))
  /\ count' = [count EXCEPT ![c] = @ + 1]
  /\ burst' = [burst EXCEPT ![c] = @ + 1]
  /\ wst'   = [wst EXCEPT ![c] = "WAIT_NEXT_TS"]
  /\ UNCHANGED <<enable, latched, cur, nxt, curCount, irqReq, expired,
                 overflow, made, bursts, dst, wr, acks, done, mem>>

EndOfBurstMut(c) == ~enable[c] \/ burst[c] = BurstSize
EndOfBurst(c) == ~enable[c] \/ burst[c] = BurstSize \/ latched[c]

CloseBurst(c) ==
  /\ wst[c] = "WAIT_NEXT_TS" /\ EndOfBurst(c)
  /\ bursts' = [bursts EXCEPT ![c] = @ + 1]
  /\ wst'    = [wst EXCEPT ![c] = "IDLE"]
  /\ UNCHANGED <<enable, latched, cur, nxt, count, curCount, burst, irqReq,
                 expired, overflow, made, fifo, dst, wr, acks, done, mem>>

\* The room in the buffer is not looked at here.
NextTs(c) ==
  /\ wst[c] = "WAIT_NEXT_TS" /\ ~EndOfBurst(c) /\ TsValid(c)
  /\ wst'  = [wst EXCEPT ![c] = "SER"]
  /\ made' = [made EXCEPT ![c] = @ + 1]
  /\ UNCHANGED <<enable, latched, cur, nxt, count, curCount, burst, irqReq,
                 expired, overflow, dmaVars>>

\* p_irq_timer
IrqTimer(c) ==
  /\ enable[c] /\ irqReq[c] /\ ~expired[c]
  /\ expired' = [expired EXCEPT ![c] = TRUE]
  /\ UNCHANGED <<enable, wst, latched, cur, nxt, count, curCount, burst,
                 irqReq, overflow, made, dmaVars>>

-----------------------------------------------------------------------------
(* p_wb_master and p_fifo_control *)

StartBurst(c) ==
  /\ dst[c] = "WAIT_BURST" /\ bursts[c] # 0 /\ HeadIs(c, "addr")
  /\ wr'     = [wr EXCEPT ![c] = Head(fifo[c]).val]
  /\ bursts' = [bursts EXCEPT ![c] = @ - 1]
  /\ dst'    = [dst EXCEPT ![c] = "EXECUTE_BURST"]
  /\ Pop(c)
  /\ UNCHANGED <<enable, fsmVars, acks, done, mem>>

WriteTs(c) ==
  /\ dst[c] = "EXECUTE_BURST" /\ HeadIs(c, "ts")
  /\ mem'  = [mem EXCEPT ![wr[c]] = Head(fifo[c]).val]
  /\ wr'   = [wr EXCEPT ![c] = @ + 1]
  /\ acks' = [acks EXCEPT ![c] = @ + 1]
  /\ Pop(c)
  /\ UNCHANGED <<enable, fsmVars, bursts, dst, done>>

EndBurst(c) ==
  /\ dst[c] = "EXECUTE_BURST" /\ (fifo[c] = <<>> \/ HeadIs(c, "addr"))
  /\ dst' = [dst EXCEPT ![c] = "WAIT_ACKS"]
  /\ UNCHANGED <<enable, fsmVars, bursts, fifo, wr, acks, done, mem>>

Acked(c) ==
  /\ dst[c] = "WAIT_ACKS" /\ acks[c] = 0
  /\ dst' = [dst EXCEPT ![c] = "WAIT_BURST"]
  /\ UNCHANGED <<enable, fsmVars, bursts, fifo, wr, acks, done, mem>>

\* CSR.DONE once the marker is seen at the head of the FIFO
DoneAtMarkerMut(c) == dst[c] = "WAIT_BURST"
DoneAtMarker(c) == TRUE

\* The end-of-buffer marker leaves the FIFO whatever the master is doing.  In
\* EXECUTE_BURST its word is strobed like any other: unless the DDR stalls in
\* that cycle it lands in the slot after the last timestamp.
PopLast(c) ==
  /\ HeadIs(c, "last")
  /\ done' = [done EXCEPT ![c] = DoneAtMarker(c)]
  /\ Pop(c)
  /\ \/ UNCHANGED <<mem, acks, wr>>
     \/ /\ dst[c] = "EXECUTE_BURST"
        /\ mem'  = [mem EXCEPT ![wr[c]] = Junk]
        /\ wr'   = [wr EXCEPT ![c] = @ + 1]
        /\ acks' = [acks EXCEPT ![c] = @ + 1]
  /\ UNCHANGED <<enable, fsmVars, bursts, dst>>

\* The DDR controller acknowledges a write.
DdrAck(c) ==
  /\ acks[c] > 0
  /\ acks' = [acks EXCEPT ![c] = @ - 1]
  /\ UNCHANGED <<enable, fsmVars, bursts, fifo, dst, wr, done, mem>>

HwStep(c) ==
  \/ OpenBurst(c) \/ BufferFull(c) \/ DropTs(c) \/ LeaveIdle(c)
  \/ SwitchBuffers(c) \/ Serialise(c) \/ CloseBurst(c) \/ NextTs(c)
  \/ IrqTimer(c)
  \/ StartBurst(c) \/ WriteTs(c) \/ EndBurst(c) \/ Acked(c) \/ PopLast(c)
  \/ DdrAck(c)

\* The gateware is clocked and the DDR answers: only the arrival of pulses is
\* left to the environment.
HwFairness(c) ==
  /\ WF_hwVars(LeaveIdle(c)) /\ WF_hwVars(SwitchBuffers(c))
  /\ WF_hwVars(Serialise(c)) /\ WF_hwVars(CloseBurst(c))
  /\ WF_hwVars(IrqTimer(c))
  /\ WF_hwVars(StartBurst(c)) /\ WF_hwVars(WriteTs(c))
  /\ WF_hwVars(EndBurst(c)) /\ WF_hwVars(Acked(c)) /\ WF_hwVars(PopLast(c))
  /\ WF_hwVars(DdrAck(c))

HwTypeOK ==
  /\ enable \in [Chan -> BOOLEAN]
  /\ wst \in [Chan -> {"IDLE", "SWITCH_BUFFERS", "WAIT_NEXT_TS", "SER"}]
  /\ latched \in [Chan -> BOOLEAN]
  /\ cur \in [Chan -> [base : Nat, valid : BOOLEAN]]
  /\ nxt \in [Chan -> [base : Nat, valid : BOOLEAN]]
  /\ count \in [Chan -> Nat]
  /\ curCount \in [Chan -> Nat]
  /\ burst \in [Chan -> Nat]
  /\ irqReq \in [Chan -> BOOLEAN]
  /\ expired \in [Chan -> BOOLEAN]
  /\ overflow \in [Chan -> BOOLEAN]
  /\ made \in [Chan -> 0 .. MaxTs]
  /\ bursts \in [Chan -> Nat]
  /\ fifo \in [Chan -> Seq(Word)]
  /\ dst \in [Chan -> {"WAIT_BURST", "EXECUTE_BURST", "WAIT_ACKS"}]
  /\ wr \in [Chan -> Nat]
  /\ acks \in [Chan -> Nat]
  /\ done \in [Chan -> BOOLEAN]
  /\ mem \in [Addr -> Stamp]
=============================================================================
