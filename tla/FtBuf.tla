-------------------------------- MODULE FtBuf --------------------------------
(***************************************************************************)
(* The DMA acquisition as a whole: the driver of software/kernel/ft-buf.c  *)
(* running against the gateware of TdcDmaChannel.  Five threads of control *)
(* meet here:                                                              *)
(*                                                                         *)
(*   - the gateware of every input;                                        *)
(*   - the interrupt handler ft_irq_handler_ts_dma;                        *)
(*   - the work item ft_irq_work, which switches the buffers of the inputs *)
(*     that asked for it and queues one DMA transfer for each;             *)
(*   - the DMA engine and its tasklet, which calls ft_dma_complete;        *)
(*   - user processes: sysfs writes that enable and disable an input       *)
(*     (ft_change_flags) or set its coalescing timeout.                    *)
(*                                                                         *)
(* Every access to a device register is a step of its own.  A step of the  *)
(* driver that only touches memory nobody else looks at is merged with the *)
(* register access next to it.  ZIO, the DMA engine and the interrupt      *)
(* controller core are not part of this repository; they are modelled from *)
(* the way the driver uses them.                                           *)
(***************************************************************************)
EXTENDS TdcDmaChannel, FiniteSets

CONSTANTS
  MaxSets,     \* bound: writes to the coalescing timeout
  MaxToggles,  \* bound: enables and disables of an input
  MaxFails,    \* bound: errors from ZIO and from the DMA engine's setup
  QuickTail    \* does ft_dma_complete always return before the interrupt it
               \* has re-enabled is served down to zio_arm_trigger?

ASSUME BoundAssumption == /\ MaxSets \in Nat
                          /\ MaxToggles \in Nat
                          /\ MaxFails \in Nat
                          /\ QuickTail \in BOOLEAN

VARIABLES
  imr,         \* inputs whose DMA interrupt is enabled in EIC_IMR
  irqImr,      \* ft->irq_imr
  hpc, hstat,  \* the handler: program counter, irq_stat
  chanMask,    \* ft->dma_chan_mask
  queued,      \* irq_work is in the workqueue
  wpc,         \* ft_irq_work: program counter
  todo, ch,    \* inputs left to visit and the one being visited
  csr,         \* the value of CSR.DONE in the local variable csr
  transfer,    \* the local variable transfer
  nTransfers,  \* the local variable n_transfers
  pendingDma,  \* ft->pending_dma
  active,      \* st->active_buffer
  nsamples,    \* cset->ti->nsamples
  armed,       \* ZIO: the trigger is armed
  block,       \* ZIO: {} or {the data of the active block}
  dmaq,        \* DMA engine: descriptors submitted and not completed
  issued,      \* DMA engine: dma_async_issue_pending was called
  tail,        \* inputs whose ft_dma_complete has yet to call data_done
  unmapped,    \* transfers ft_irq_work has counted though none was submitted,
               \* because dma_map_sg returned 0
  out,         \* what the reader of each input has received
  user,        \* a write of the coalescing timeout in progress
  closing,     \* inputs that are disabled and not yet aborted
  sets, toggles, fails   \* how often each bounded event has happened

irqVars  == <<imr, irqImr, hpc, hstat, chanMask, queued>>
workVars == <<wpc, todo, ch, csr, transfer, nTransfers, active>>
zioVars  == <<nsamples, armed, block, out>>
dmaEngVars == <<pendingDma, dmaq, issued, tail, unmapped>>
userVars == <<user, closing, sets, toggles>>
vars == <<hwVars, irqVars, workVars, zioVars, dmaEngVars, userVars, fails>>

\* A descriptor: src_addr, the length of the scatter list, and whether ZIO
\* still owns the block the list points to.
Transfer == [chan : Chan, src : Nat, len : Nat, live : BOOLEAN]

NoUser == [pc |-> "idle", chan |-> 0, csr |-> FALSE]

Init ==
  /\ HwInit
  /\ imr = Chan /\ irqImr = {}
  /\ hpc = "idle" /\ hstat = {} /\ chanMask = {} /\ queued = FALSE
  /\ wpc = "idle" /\ todo = {} /\ ch = 0 /\ csr = FALSE /\ transfer = 0
  /\ nTransfers = 0 /\ pendingDma = 0
  /\ active = [c \in Chan |-> 0]
  /\ nsamples = [c \in Chan |-> 0]
  /\ armed = [c \in Chan |-> FALSE]
  /\ block = [c \in Chan |-> {}]
  /\ dmaq = <<>> /\ issued = FALSE /\ tail = {} /\ unmapped = 0
  /\ out = [c \in Chan |-> <<>>]
  /\ user = NoUser /\ closing = {} /\ sets = 0 /\ toggles = 0 /\ fails = 0

-----------------------------------------------------------------------------
(* The interrupt handler *)

\* ft_irq_buff_status: ISR & IMR, which asserts the interrupt when not zero
Raised == {c \in imr : IrqLine(c)}

IrqEntry ==
  /\ hpc = "idle" /\ Raised # {}
  /\ hstat' = Raised
  /\ hpc' = "check"
  /\ UNCHANGED <<hwVars, imr, irqImr, chanMask, queued, workVars, zioVars,
                 dmaEngVars, userVars, fails>>

\* ft_irq_status_is_valid
StatusIsValid == \E c \in hstat : enable[c]

IrqDisableSaveMut == irqImr' = imr /\ imr' = imr
IrqDisableSave == irqImr' = imr /\ imr' = imr \ irqImr'

IrqEnableRestoreMut == imr' = imr /\ irqImr' = {}
IrqEnableRestore == imr' = imr \cup irqImr /\ irqImr' = {}

IrqHandled ==
  /\ hpc = "check" /\ StatusIsValid
  /\ IrqDisableSave
  /\ chanMask' = hstat
  /\ queued' = TRUE
  /\ hpc' = "idle"
  /\ UNCHANGED <<hwVars, hstat, workVars, zioVars, dmaEngVars, userVars,
                 fails>>

IrqNone ==
  /\ hpc = "check" /\ ~StatusIsValid
  /\ hpc' = "idle"
  /\ UNCHANGED <<hwVars, imr, irqImr, hstat, chanMask, queued, workVars,
                 zioVars, dmaEngVars, userVars, fails>>

-----------------------------------------------------------------------------
(* ft_irq_work and ft_dma_config *)

WorkGoto(from, to) == wpc = from /\ wpc' = to

WorkStart ==
  /\ queued /\ WorkGoto("idle", "next")
  /\ queued' = FALSE
  /\ todo' = chanMask
  /\ nTransfers' = 0
  /\ UNCHANGED <<hwVars, imr, irqImr, hpc, hstat, chanMask, ch, csr,
                 transfer, active, zioVars, dmaEngVars, userVars, fails>>

\* for_each_set_bit: the lowest bit first.  The mutated form does not get past
\* the bit it has found.
WorkNextMut ==
  /\ WorkGoto("next", "read")
  /\ \E c \in todo : ch' = c /\ \A d \in todo : c <= d
  /\ UNCHANGED <<hwVars, irqVars, todo, csr, transfer, nTransfers, active,
                 zioVars, dmaEngVars, userVars, fails>>
WorkNext ==
  /\ WorkGoto("next", "read")
  /\ \E c \in todo : /\ \A d \in todo : c <= d
                    /\ ch' = c
                    /\ todo' = todo \ {c}
  /\ UNCHANGED <<hwVars, irqVars, csr, transfer, nTransfers, active,
                 zioVars, dmaEngVars, userVars, fails>>

SwitchRead ==
  /\ WorkGoto("read", "write")
  /\ csr' = done[ch]
  /\ UNCHANGED <<hwVars, irqVars, todo, ch, transfer, nTransfers, active,
                 zioVars, dmaEngVars, userVars, fails>>

\* A write to CSR whose DONE bit is set clears CSR.DONE.
ClearDone(c, bit) == done' = [done EXCEPT ![c] = @ /\ ~bit]

\* DONE goes back to the register as it was read.
SwitchWrite ==
  /\ WorkGoto("write", "spin")
  /\ latched' = [latched EXCEPT ![ch] = TRUE]
  /\ ClearDone(ch, csr)
  /\ UNCHANGED <<enable, wst, cur, nxt, count, curCount, burst, irqReq,
                 expired, overflow, made, bursts, fifo, dst, wr, acks, mem,
                 irqVars, todo, ch, csr, transfer, nTransfers, active,
                 zioVars, dmaEngVars, userVars, fails>>

SwitchSpin ==
  /\ done[ch] /\ WorkGoto("spin", "clear")
  /\ UNCHANGED <<hwVars, irqVars, todo, ch, csr, transfer, nTransfers,
                 active, zioVars, dmaEngVars, userVars, fails>>

SwitchClear ==
  /\ WorkGoto("clear", "base")
  /\ ClearDone(ch, TRUE)
  /\ UNCHANGED <<enable, fsmVars, bursts, fifo, dst, wr, acks, mem, irqVars,
                 todo, ch, csr, transfer, nTransfers, active, zioVars,
                 dmaEngVars, userVars, fails>>

\* The buffer switched away is read out and becomes the next one.
SwitchedAwayMut == 1 - active[ch]
SwitchedAway == active[ch]

OtherBufferMut(b) == b + 1
OtherBuffer(b) == 1 - b

NextBaseMut == BufAddr(ch, 1 - active[ch])
NextBase == BufAddr(ch, active[ch])

SwitchBase ==
  /\ WorkGoto("base", "size")
  /\ transfer' = SwitchedAway
  /\ active' = [active EXCEPT ![ch] = OtherBuffer(@)]
  /\ nxt' = [nxt EXCEPT ![ch].base = NextBase]
  /\ UNCHANGED <<enable, wst, latched, cur, count, curCount, burst, irqReq,
                 expired, overflow, made, dmaVars, irqVars, todo, ch, csr,
                 nTransfers, zioVars, dmaEngVars, userVars, fails>>

SwitchSize ==
  /\ WorkGoto("size", "count")
  /\ nxt' = [nxt EXCEPT ![ch].valid = TRUE]
  /\ UNCHANGED <<enable, wst, latched, cur, count, curCount, burst, irqReq,
                 expired, overflow, made, dmaVars, irqVars, todo, ch, csr,
                 transfer, nTransfers, active, zioVars, dmaEngVars, userVars,
                 fails>>

\* One error more, and on to the next input.
ConfigFails(from) ==
  /\ fails < MaxFails /\ fails' = fails + 1
  /\ WorkGoto(from, "next")

\* ft_buffer_count and dmaengine_slave_config
ReadCount ==
  /\ nsamples' = [nsamples EXCEPT ![ch] = curCount[ch]]
  /\ \/ WorkGoto("count", "arm") /\ UNCHANGED fails
     \/ ConfigFails("count")
  /\ UNCHANGED <<hwVars, irqVars, todo, ch, csr, transfer, nTransfers,
                 active, armed, block, out, dmaEngVars, userVars>>

\* zio_arm_trigger: an armed trigger is left alone; otherwise ZIO allocates a
\* block of nsamples, unless that is zero or the channel is disabled.
Allocates == ~armed[ch] /\ enable[ch] /\ nsamples[ch] > 0

ArmTrigger ==
  /\ wpc = "arm"
  /\ QuickTail => ch \notin tail
  /\ armed' = [armed EXCEPT ![ch] = TRUE]
  /\ \/ /\ Allocates
        /\ block' = [block EXCEPT ![ch] =
                       {[i \in 1 .. nsamples[ch] |-> Junk]}]
        /\ UNCHANGED fails
     \/ ~Allocates /\ UNCHANGED <<block, fails>>
     \/ /\ Allocates
        /\ fails < MaxFails /\ fails' = fails + 1
        /\ UNCHANGED block
  /\ wpc' = "submit"
  /\ UNCHANGED <<hwVars, irqVars, todo, ch, csr, transfer, nTransfers,
                 active, nsamples, out, dmaEngVars, userVars>>

\* zio_cset_can_acquire
CanAcquire(c) == armed[c] /\ block[c] # {}

Submit ==
  /\ CanAcquire(ch) /\ WorkGoto("submit", "next")
  /\ nTransfers' = nTransfers + 1
  /\ \E data \in block[ch] :
       dmaq' = Append(dmaq, [chan |-> ch, src |-> BufAddr(ch, transfer),
                             len |-> Len(data), live |-> TRUE])
  /\ UNCHANGED <<hwVars, irqVars, todo, ch, csr, transfer, active, zioVars,
                 pendingDma, issued, tail, unmapped, userVars, fails>>

\* -EBUSY, or an error of sg_alloc_table_from_block, of prep_slave_sg or of
\* submit: the trigger stays as it is.
SubmitFails ==
  /\ \/ ~CanAcquire(ch) /\ WorkGoto("submit", "next") /\ UNCHANGED fails
     \/ CanAcquire(ch) /\ ConfigFails("submit")
  /\ UNCHANGED <<hwVars, irqVars, todo, ch, csr, transfer, nTransfers,
                 active, zioVars, dmaEngVars, userVars>>

\* dma_map_sg returns 0 when it maps nothing; ft_dma_config then returns that
\* 0, as it does after it has submitted a transfer.
MapFails ==
  /\ CanAcquire(ch) /\ ConfigFails("submit")
  /\ nTransfers' = nTransfers + 1
  /\ unmapped' = unmapped + 1
  /\ UNCHANGED <<hwVars, irqVars, todo, ch, csr, transfer, active, zioVars,
                 pendingDma, dmaq, issued, tail, userVars>>

PendingTransfersMut == Cardinality(chanMask)
PendingTransfers == nTransfers

WorkIssue ==
  /\ todo = {} /\ nTransfers > 0 /\ WorkGoto("next", "idle")
  /\ pendingDma' = PendingTransfers
  /\ issued' = (dmaq # <<>>)
  /\ UNCHANGED <<hwVars, irqVars, todo, ch, csr, transfer, nTransfers,
                 active, zioVars, dmaq, tail, unmapped, userVars, fails>>

WorkNothing ==
  /\ todo = {} /\ nTransfers = 0 /\ WorkGoto("next", "idle")
  /\ IrqEnableRestore
  /\ UNCHANGED <<hwVars, hpc, hstat, chanMask, queued, todo, ch, csr,
                 transfer, nTransfers, active, zioVars, dmaEngVars, userVars,
                 fails>>

-----------------------------------------------------------------------------
(* The DMA engine and ft_dma_complete *)

\* What the engine reads from the DDR.
Fetch(t) == [i \in 1 .. t.len |-> mem[t.src + i - 1]]

\* if (!ft->pending_dma), after the decrement
LastTransferMut == TRUE
LastTransfer == pendingDma - 1 = 0

\* The oldest transfer is over: its data are in the block, if there is still
\* one, and the callback runs up to zio_trigger_data_done.  The DDR controller
\* serves the engine's reads after the writes it has accepted.
DmaComplete ==
  /\ issued /\ dmaq # <<>> /\ tail = {}
  /\ LET t == Head(dmaq) IN
     /\ block' = [block EXCEPT ![t.chan] = IF t.live THEN {Fetch(t)} ELSE @]
     /\ tail' = {t.chan}
  /\ dmaq' = Tail(dmaq)
  /\ issued' = (Len(dmaq) > 1)
  /\ pendingDma' = pendingDma - 1
  /\ IF LastTransfer THEN IrqEnableRestore ELSE UNCHANGED <<imr, irqImr>>
  /\ UNCHANGED <<hwVars, hpc, hstat, chanMask, queued, workVars, nsamples,
                 armed, out, unmapped, userVars, fails>>

\* The block of input c is no longer ZIO's.
Orphan(c) == [i \in DOMAIN dmaq |->
                [dmaq[i] EXCEPT !.live = @ /\ dmaq[i].chan # c]]

\* zio_trigger_data_done: the active block, if any, goes to the reader.
DataDone(c) ==
  /\ c \in tail
  /\ tail' = tail \ {c}
  /\ armed' = [armed EXCEPT ![c] = FALSE]
  /\ block' = [block EXCEPT ![c] = {}]
  /\ out' = [out EXCEPT ![c] = IF block[c] = {} THEN @
                               ELSE @ \o CHOOSE data \in block[c] : TRUE]
  /\ dmaq' = Orphan(c)
  /\ UNCHANGED <<hwVars, irqVars, workVars, nsamples, pendingDma, issued,
                 unmapped, userVars, fails>>

-----------------------------------------------------------------------------
(* User processes *)

\* ft_change_flags, ENABLED.  ZIO holds the lock of the channel until a change
\* of its flags is over.
EnableInput(c) ==
  /\ ~enable[c] /\ c \notin closing /\ toggles < MaxToggles
  /\ toggles' = toggles + 1
  /\ enable' = [enable EXCEPT ![c] = TRUE]
  /\ UNCHANGED <<fsmVars, dmaVars, irqVars, workVars, zioVars, dmaEngVars,
                 user, closing, sets, fails>>

\* ft_change_flags, DISABLED: the input is closed ...
DisableInput(c) ==
  /\ enable[c] /\ toggles < MaxToggles
  /\ toggles' = toggles + 1
  /\ enable'  = [enable EXCEPT ![c] = FALSE]
  /\ expired' = [expired EXCEPT ![c] = FALSE]
  /\ closing' = closing \union {c}
  /\ UNCHANGED <<wst, latched, cur, nxt, count, curCount, burst, irqReq,
                 overflow, made, dmaVars, irqVars, workVars, zioVars,
                 dmaEngVars, user, sets, fails>>

\* ... and zio_trigger_abort_disable disarms the trigger and frees the active
\* block.
AbortDisable(c) ==
  /\ c \in closing
  /\ closing' = closing \ {c}
  /\ armed'   = [armed EXCEPT ![c] = FALSE]
  /\ block'   = [block EXCEPT ![c] = {}]
  /\ dmaq'    = Orphan(c)
  /\ UNCHANGED <<hwVars, irqVars, workVars, nsamples, out, pendingDma, issued,
                 tail, unmapped, user, sets, toggles, fails>>

\* ft_dma_irq_coalescing_timeout_set: CSR is read ...
SetTimeoutRead(c) ==
  /\ user.pc = "idle" /\ sets < MaxSets
  /\ sets' = sets + 1
  /\ user' = [pc |-> "write", chan |-> c, csr |-> done[c]]
  /\ UNCHANGED <<hwVars, irqVars, workVars, zioVars, dmaEngVars, closing,
                 toggles, fails>>

\* ... and written back with another IRQ_TIMEOUT.
SetTimeoutWrite ==
  /\ user.pc = "write"
  /\ ClearDone(user.chan, user.csr)
  /\ user' = NoUser
  /\ UNCHANGED <<enable, fsmVars, bursts, fifo, dst, wr, acks, mem, irqVars,
                 workVars, zioVars, dmaEngVars, closing, sets, toggles, fails>>

-----------------------------------------------------------------------------
DriverUnchanged == UNCHANGED <<irqVars, workVars, zioVars, dmaEngVars,
                               userVars, fails>>
Handler == IrqEntry \/ IrqHandled \/ IrqNone
Work == \/ WorkStart \/ WorkNext \/ SwitchRead \/ SwitchWrite \/ SwitchSpin
        \/ SwitchClear \/ SwitchBase \/ SwitchSize \/ ReadCount \/ ArmTrigger
        \/ Submit \/ SubmitFails \/ MapFails \/ WorkIssue \/ WorkNothing
Engine == DmaComplete \/ \E c \in Chan : DataDone(c)
User == \/ \E c \in Chan : \/ EnableInput(c) \/ DisableInput(c)
                           \/ AbortDisable(c) \/ SetTimeoutRead(c)
        \/ SetTimeoutWrite

Next == \/ \E c \in Chan : HwStep(c) /\ DriverUnchanged
        \/ Handler \/ Work \/ Engine \/ User

Spec == Init /\ [][Next]_vars

\* The handler, the workqueue, the DMA engine and the tasklet are scheduled;
\* a process that has read CSR goes on to write it, one that has closed an
\* input to abort it.  Nothing is assumed of
\* pulses, of errors or of new user requests.
Fairness ==
  /\ \A c \in Chan : HwFairness(c)
  /\ WF_vars(Handler) /\ WF_vars(Work) /\ WF_vars(Engine)
  /\ WF_vars(SetTimeoutWrite)
  /\ \A c \in Chan : WF_vars(AbortDisable(c))

FairSpec == Spec /\ Fairness

-----------------------------------------------------------------------------
IsBlock(b) == b = {} \/ \E d \in b : b = {d} /\ Len(d) \in Nat

DriverTypeOK ==
  /\ imr \in SUBSET Chan /\ irqImr \in SUBSET Chan
  /\ hpc \in {"idle", "check"} /\ hstat \in SUBSET Chan
  /\ chanMask \in SUBSET Chan /\ queued \in BOOLEAN
  /\ wpc \in {"idle", "next", "read", "write", "spin", "clear", "base",
              "size", "count", "arm", "submit"}
  /\ todo \in SUBSET Chan /\ ch \in Chan /\ csr \in BOOLEAN
  /\ transfer \in Buf /\ nTransfers \in Nat /\ pendingDma \in Nat
  /\ active \in [Chan -> Buf]
  /\ nsamples \in [Chan -> Nat]
  /\ armed \in [Chan -> BOOLEAN]
  /\ block = [c \in Chan |-> block[c]]
  /\ \A c \in Chan : IsBlock(block[c])
  /\ dmaq \in Seq(Transfer) /\ issued \in BOOLEAN
  /\ tail \in SUBSET Chan /\ unmapped \in Nat /\ closing \in SUBSET Chan
  /\ user \in [pc : {"idle", "write"}, chan : Chan, csr : BOOLEAN]
  /\ sets \in 0 .. MaxSets /\ toggles \in 0 .. MaxToggles
  /\ fails \in 0 .. MaxFails

\* The registers of the gateware and the variables of the driver hold values
\* of their types; buffers are 0 and 1, counters never go below zero.
TypeOK == HwTypeOK /\ DriverTypeOK

\* From the handler that masks the interrupts to the last transfer of the
\* engine.
InCycle == queued \/ wpc # "idle" \/ issued

\* The DMA interrupts are masked exactly while an acquisition cycle runs, and
\* irq_imr then holds the whole mask: no error of the setup loses an input's
\* interrupt but one.  When dma_map_sg returns 0 they stay masked for good.
\* (ft_irq_disable_save, ft_irq_enable_restore)
MaskIsSaved == IF InCycle \/ unmapped > 0
               THEN imr = {} /\ irqImr = Chan /\ hpc = "idle"
               ELSE imr = Chan /\ irqImr = {}

\* After the work pending_dma counts the transfers the engine still has to
\* complete, so the last ft_dma_complete is the one that restores the
\* interrupts, and those that were counted and never submitted, for which no
\* ft_dma_complete will come.
PendingIsExact == pendingDma = IF wpc = "idle" THEN Len(dmaq) + unmapped ELSE 0

\* The WARN at the top of ft_irq_handler_ts_dma never fires.
NoIrqWhilePending == hpc = "check" => pendingDma = 0 /\ ~issued

\* An input has one scatter list (st->sgt): it is never given a second
\* transfer while one is under way.
OneTransferPerInput ==
  \A i, j \in DOMAIN dmaq : dmaq[i].chan = dmaq[j].chan => i = j

\* The gateware may still write to the buffer at base on behalf of input c:
\* it is the current one, or a burst for it is in the FIFO or in the master.
MayWrite(c, base) ==
  \/ cur[c].valid /\ cur[c].base = base
  \/ \E i \in DOMAIN fifo[c] : fifo[c][i].kind = "addr"
                               /\ fifo[c][i].val \in Slots(base)
  \/ dst[c] = "EXECUTE_BURST" /\ HeadIs(c, "ts") /\ wr[c] \in Slots(base)

\* The double buffer: while a transfer is queued or running the gateware
\* writes elsewhere.
NoOverlap ==
  \A i \in DOMAIN dmaq : \A c \in Chan : ~MayWrite(c, dmaq[i].src)

\* While ft_buffer_switch spins, CSR.DONE is set or still going to be.
DoneWillCome ==
  wpc = "spin" => \/ done[ch] \/ latched[ch] \/ wst[ch] = "SWITCH_BUFFERS"
                  \/ \E i \in DOMAIN fifo[ch] : fifo[ch][i] = LastWord

\* CUR_COUNT is the count of the very buffer ft_buffer_switch returned: all of
\* its first nsamples slots hold consecutive timestamps of the input.
CountMatchesBuffer ==
  wpc = "arm" =>
     \E k \in 0 .. MaxTs : \A i \in 1 .. nsamples[ch] :
        mem[BufAddr(ch, transfer) + i - 1] = Ts(ch, k + i)

\* A reader sees its own input's timestamps, each at most once and in order.
OutIncreasing ==
  \A c \in Chan : \A i \in DOMAIN out[c] :
     /\ out[c][i][1] = c /\ out[c][i][2] > 0
     /\ i > 1 => out[c][i][2] > out[c][i - 1][2]

\* zio_arm_trigger "actually arm'n'fire": it never meets a trigger that is
\* still armed.
ArmFires == [][wpc = "arm" /\ wpc' = "submit" => ~armed[ch]]_vars

\* An acquisition cycle comes to its end and the interrupts are back.
MaskRestored == imr = {} ~> imr = Chan

Stream == INSTANCE TsStream WITH taken <- made, given <- out

\* The driver and the gateware together implement the stream ...
ImplementsStream == Stream!Spec
\* ... and leave nothing behind.
DeliversAll == Stream!FairSpec
=============================================================================
