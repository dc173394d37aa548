# Verification of the FMC TDC 1ns 5cha driver and gateware

TLA+ models of the fmc-tdc repository (`src/`), TLC configurations that check
them on small instances, and TLAPS proofs about them.  Line numbers refer to
the commit in `src/`.

## 1. The system

The FMC TDC mezzanine time-stamps pulses on five inputs.  Its gateware runs in
the FPGA of a SPEC or an SVEC carrier; the Linux driver moves the timestamps to
user space through ZIO.

    ACAM TDC-GPX -> data_engine -> data_formatting -> timestamp_convert_filter
                                                          |
                     +------------------------------------+
                     v                                    v
              timestamp_fifo (FIFO mode)         tdc_dma_channel (DMA mode)
                     |                                    |  two DDR buffers
                     v                                    v  per input
              ft-fifo.c handler       EIC         ft-buf.c handler + work item
                     |                                    |  DMA engine
                     +--------------> ZIO <---------------+
                                       |
                                 fmctdc-lib.c
                                       |
                       fmc-tdc-tstamp, fmc-tdc-perftest, ...

| Component | State it keeps | Operations | What makes it correct |
|---|---|---|---|
| `tdc_dma_channel.vhd` | current/next buffer, counters, burst FIFO, `CSR.DONE`, interrupt request | take a timestamp, open/close a burst, switch buffers, commit to the DDR, raise the interrupt | no timestamp lost or written outside its buffer; DONE after the buffer is complete; an interrupt whenever a buffer is not empty |
| `ft-buf.c` | `irq_imr`, `dma_chan_mask`, `pending_dma`, `active_buffer`, `st->sgt` | handler, `ft_irq_work`, `ft_buffer_switch`, `ft_dma_config`, `ft_dma_complete` | interrupts masked exactly during a cycle and always given back; one transfer per input; the buffer read is not the one written; delivered in order |
| `ft-core.c` (coalescing, termination), `ft-zio.c` | device registers, `ft->lock`, flags of the ZIO objects, offsets | attributes read and written by any number of processes | no update undoes another or the handler's; the registers are what the driver believes |
| `ft-time.c` | TAI counter, `wr_mode` | set/get time, White Rabbit mode, arithmetic | normal form of timestamps; the time changes only while inputs are off |
| `wbgen2_eic_nomask.vhd` | mask, pending | IER, IDR, ISR | level interrupts are not lost |
| `ft-fifo.c`, `timestamp_fifo.vhd` | 64-entry FIFO, coalescing timer | handler loop, flush | the handler ends; every non-empty FIFO is read |
| `ft-core.c` probe/remove, carrier drivers, `acam.c`, `ft-hwmon.c`, `ft-debug.c` | what the driver has acquired, what the registers were left with | initialisation with error paths, removal | everything acquired is released once; nothing uses what is gone; a board without a driver is quiet |
| `fmctdc-lib.c` | file descriptors, a batch being read | open, close, read, fread, flush, settings | no timestamp lost between calls; descriptors closed |
| `tools/*.c` | the last timestamp of each input | readout loops, settings | end when told to; leave the inputs off; report losses and nothing else |
| `timestamp_convert_filter.vhd` | per-input rising edge | width filter, dead time, offsets | only pulses of 100 ns or more, in order |
| `data_engine.vhd`, `data_formatting.vhd`, `start_retrig_ctrl.vhd` | state machine, retrigger counters | ACAM configuration and readout, reconstruction of the UTC second | coarse time is right around the second's boundary |

Hard behaviour: five threads of control meet in DMA mode (gateware, hard
interrupt, high-priority workqueue, DMA tasklet, sysfs writers), they share
device registers that are write-one-to-clear next to read-write fields, and
most of the driver relies on "interrupts are masked meanwhile" instead of a
lock.  Above it, processes share one `INPUT_ENABLE` register that every setting
reads and writes back, one `ft->lock` that only some of them take, and one ZIO
buffer per input that several programs read.  Below it, `ft_probe` has some
twenty steps that can fail, and registers that survive the driver.
`PROJECT.json` lists the hazards one by one, each at its line.

## 2. Modules

| Module | What it models |
|---|---|
| `TdcDmaChannel` | `hdl/rtl/tdc_dma_channel.vhd`: `p_irq_timer`, `p_write_fsm`, the burst counter, the FIFO, `p_wb_master`, `p_fifo_control`, `p_count_acks`, for all inputs |
| `FtBuf` | the driver in DMA mode on top of it: `ft-buf.c`, `ft_change_flags`, `ft_dma_irq_coalescing_timeout_set`; ZIO, the DMA engine and the interrupt controller as the driver uses them |
| `TimestampFifo` | `hdl/rtl/timestamp_fifo.vhd` and its registers in `timestamp_fifo_wb.vhd`, for all inputs |
| `FtFifo` | the driver in FIFO mode on top of it: the handler of `ft-fifo.c` and `ft_change_flags` |
| `TsStream` | the abstract promise of both modes: every timestamp taken is delivered once and in order |
| `TsMath` | the arithmetic of timestamps in `ft-time.c` and `fmctdc-lib-math.c` |
| `FtSysfs` | the attributes: `ft-zio.c`, `ft-time.c`, `ft_enable`, `ft_disable`, `ft_enable_termination`; any number of processes, one register access per step |
| `FmcTdcLib` | `fmctdc-lib.c` on top of it: every call on an open board as a script of accesses, reads and the acquisition |
| `FmcTdcTools`, `MCTools` | the programs of `software/tools`, and the instance TLC runs |
| `FtProbe` | `ft_init`, `ft_probe`, `ft_remove`, `ft_exit`, the carrier drivers, and who runs meanwhile |
| `FtBufProofs`, `FtBufDataProofs`, `FtBufStreamProofs` | theorems about `FtBuf`: cycles and the interrupt mask; what lies in the DDR; what readers get.  Each extends the one before |
| `FtFifoProofs`, `TsMathProofs`, `FtProbeProofs` | theorems about `FtFifo`, `TsMath`, `FtProbe` |
| `FtSysfsProofs` | theorems about `FtSysfs`: what `ft->lock` protects; `INPUT_ENABLE`, which no lock protects; that offset registers are normalized |
| `FmcTdcToolsProofs` | theorems about the library and the programs: the refinement of `FtSysfs`, where the timestamps are, what a failed open leaves, what the programs report missing, what a flush forgets, which inputs are left off, types |

`FmcTdcTools` extends `FmcTdcLib`, which extends `FtSysfs`, which extends
`TsMath`.  How a timestamp gets from the gateware to ZIO is the subject of
`FtBuf` and `FtFifo`; `FmcTdcLib` takes their abstract promise (in order, once,
until the input is closed) as its `Deliver`.

### `TdcDmaChannel`

One action is one step of a VHDL process that changes state.  `wst`, `latched`,
`cur`, `nxt`, `count`, `curCount`, `burst` are the signals `state`,
`buffer_switch_latched`, `cur_*`, `next_*`, `count`, `cur_pos`, `burst_count`;
`SER0..SER3` are one step, so a FIFO entry is a timestamp and an address counts
timestamps.  The FIFO's two tag bits are the word's `kind`: `addr` opens a
burst, `last` is the end-of-buffer marker pushed by `SWITCH_BUFFERS`.  Details
that matter and are kept:

* in `IDLE` a timestamp with room in the buffer wins over a latched switch, and
  the switch then waits for the burst to be closed;
* `WAIT_NEXT_TS` does not compare `count` with `cur_size`;
* a full buffer makes the gateware latch a switch by itself;
* `irq_req` falls at a switch only if the next buffer was valid;
* the marker leaves the FIFO in whatever state the DDR master is, sets DONE at
  once, and in `EXECUTE_BURST` its word is strobed to the DDR like data.

Left out: the depth of the FIFO and the widths of its counters, `irq_timer`'s
value (only "reached"), raw mode, the contents of a timestamp (a stamp is the
input and its ordinal).

### `FtBuf`

`hpc` and `wpc` are the program counters of `ft_irq_handler_ts_dma` and
`ft_irq_work`; every access to a device register is one step, driver memory
nobody else reads changes together with the access next to it.

    IrqEntry IrqHandled IrqNone                 ft_irq_handler_ts_dma
    WorkStart WorkNext ... WorkIssue/Nothing    ft_irq_work
    SwitchRead Write Spin Clear Base Size       ft_buffer_switch
    ReadCount ArmTrigger                        ft_dma_config
    Submit SubmitFails MapFails                 ft_dma_config, its end
    DmaComplete, DataDone                       ft_dma_complete before and from
                                                zio_trigger_data_done
    EnableInput DisableInput AbortDisable       ft_change_flags
    SetTimeoutRead SetTimeoutWrite              ft_dma_irq_coalescing_timeout_set

Disabling an input is two steps: `DisableInput` closes it and `AbortDisable`
aborts the trigger; `closing` holds the inputs in between.

`ft_dma_config` has two kinds of errors behind `zio_arm_trigger`.  Most of them
return a negative number and the input is not counted (`SubmitFails`).  When
`dma_map_sg` maps nothing it returns 0, `ft_zio_block_dma_map_sg` passes that on,
and `ft_dma_config` returns it as its own result, which means success:
`ft_irq_work` counts a transfer nobody has submitted (`MapFails`).  The history
variable `unmapped` counts these.

`sg_alloc_table_from_block` is modelled as it is built for kernels before 5.9,
with 0 for success; from 5.9 on it returns `PTR_ERR` of a valid pointer
(`ft-buf.c:344`), truncated to an `int` that is not 0, and nothing is mapped.

External code, modelled from its use:

* *ZIO*: arming an armed trigger does nothing; otherwise it allocates a block of
  `nsamples`, if that is not zero, the channel is enabled and the allocation
  succeeds;
  `zio_trigger_data_done` hands the block over and disarms;
  `zio_trigger_abort_disable` frees it.
* *DMA engine*: transfers run in the order of submission once issued; the
  callbacks of one channel do not overlap; the DDR controller serves its reads
  after the writes it has already accepted.
* *interrupt controller*: the DMA lines are level interrupts, so ISR & IMR is
  the set of lines that are high and enabled.

Environment assumptions are constants, so that runs can drop them:
`Overfill = FALSE` says that interrupts are served before a buffer (2^20
timestamps in the hardware) fills up; `QuickTail = TRUE` says that
`ft_dma_complete` returns before the interrupt it has re-enabled is served down
to `zio_arm_trigger`.

### `TimestampFifo` and `FtFifo`

`fifo`, `made` and `irq` are the FIFO of an input, the timestamps it has
accepted and `buf_irq_int`.  The threshold of the interrupt only brings forward
what its timer does anyway, so both are one action that may happen whenever the
FIFO is not empty.  The FIFO itself (`wbgen2_fifo_sync`) is not in this
repository: `Capacity` says whether it reports FULL with all its entries in use
or with one left free, and `USEDW` is its length modulo its size because the
register has six bits for 64 entries.  An empty FIFO returns a word that is no
timestamp.  The difference to a reference channel is left out.

    Interrupt ReadIsr                      entry of ft_irq_handler_ts_fifo, ISR
    SkipEmpty ReadCsr Flush Again Return   its loops
    Arm Get DataDone                       ft_readout_fifo_n
    EnableInput DisableInput
    AbortTrigger ClearFifo                 ft_change_flags

`want` is `n` if ZIO had a block and zero if not; `got` is how far
`ft_timestamp_get_n` has come.  The trigger is armed and disarmed by the handler
alone, so ZIO's state is the active block.  `stale` is a history variable: the
inputs whose FIFO was emptied after the handler had read its CSR and before it
has a block, so that the count it works with is no longer true.  `Crowd = FALSE` is the environment
in which a FIFO is served before half of it is filled.

### `TsMath`

`Add`, `Sub` and `ApplyOffset` are `ft_ts_add`, `ft_ts_sub` and
`ft_ts_apply_offset`; `LibSub`, `LibAdd` and `Norm` their counterparts in the
library, where a difference of seconds goes through an `int32_t` (`Int32`).  The
resolution and the width of the seconds are constants: `Frac` 4096, `Coarse`
125 000 000, `Picos` 8000 and `Era` 2^32 on the board, two to four under TLC.
`FromPicos` keeps the division of the code, one tick being `Picos`.

### `FtSysfs`

`req[u]` is the access process `u` is in: where it is in the driver, the
attribute and value, its copy of `INPUT_ENABLE`, and what it will return.
`Access`, `AccessFails` and `Return` are ZIO's end of it.

    Show ShowInvalid Store                     ft_zio_info_get; attributes with one write
    Enable EnRead EnWrite Abort                ft_change_flags, ft_enable, ft_disable
    TermRead TermWrite TermFlag                ft_enable_termination
    OffsetRejected OffsetStore Off...          FT_ATTR_TDC_USER_OFFSET, ft_update_offsets
    Seconds TaiRead Off Start Load On          ft_set_tai_time, ft_set_host_time
    WrRegister WrVariable WrVcxo WrAsk         ft_wr_mode, ft_wr_query

An access that reads is always `Show`; START_UTC takes the low 32 bits of the
seconds it is given (`Era`).  `ft->lock` is taken by offsets and White Rabbit, not
by `INPUT_ENABLE`.  `clash`
remembers that two accesses that read `INPUT_ENABLE` and write it back have
overlapped: what they lose is described under "further behaviour", and the
properties say what holds when they do not.  `SysSpec` lets any process access
any attribute with any value the handlers accept, and is what the proofs are
about; that a step of a program under `FmcTdcTools` is, on these variables, one
of its steps is the theorem `ToolsAreProcesses`.  One process at a time is in the channel's part of `ft_change_flags`
for an input, because ZIO holds the channel's lock.

### `FmcTdcLib`

A call is a record: its `script` of accesses, how far it is (`at`), what they
returned (`res`), what it has read (`buf`, and `acc` across the reads of
`fmctdc_fread`).  `hw`, `zbuf`, `got` and `gone` are where the timestamps of an
input are: in the gateware, in the ZIO buffer, returned by the library,
discarded.  Kept: which errors a call returns and which it ignores, that
`fmctdc_set_buffer_len` refuses short lengths and other buffers than vmalloc and
`fmctdc_get_buffer_len` always fails (`Rejects`), `fmctdc_flush` writing back
the enable flag it has read, the descriptors a failed `fmctdc_open` leaves.  Left
out: names of files, formatting, `fmctdc_init` and the enumeration of boards.

### `FmcTdcTools`

A program is a sequence of calls, with the loop of `fmc-tdc-tstamp` or
`fmc-tdc-perftest` as one entry (`Poll`, `ReadReady`, `LoopReturns`, `LoopEnds`).
`Fatal`, `Printed` and `Aborts` say what a program does with an error or with an
assertion; `Again` are its retries; `Signal` is SIGINT, which ends a `select()`
only if the program is already in it.  `Options` and `Jobs` are constants:
which programs exist, and which pairs run together.  `OptionsAssumption` says
which options the `getopt` loops let through.

### `FtProbe`

`pc` is the statement `ft_probe` or `ft_remove` runs next, `idle` outside;
`ProbeOrder`, `RemoveOrder` and `ExitOrder` are the statement after each one (the
last is the end of `ft_remove`, which is `ft_probe`'s error path too), and
`OnError` where a failed one goes.  `Gives`, `Takes` and `Needs` are what a
statement acquires, releases and uses.  `oops` is set by the first use of
what is not there, and the model stops.  In between run the attributes
(`Opens`, `SetsAttribute`), the hwmon temperature, and in DMA mode the
interrupt, the work item and the completion.  `hw` are the registers that outlive
the driver, `st` the driver's and ZIO's copies.  Left out: allocations the code
does not check (`ioremap`), the serial number, `ft_test_data`.

## 3. Runs

All runs bound the pulses of an input (`MaxTs`), the errors (`MaxFails`) and, in
`FtBuf` and `FtFifo`, the sysfs writes (`MaxSets`, `MaxToggles`, `MaxEnables`,
`MaxDisables`).  Buffers hold two or three timestamps and bursts one or two, so
that within four pulses a burst ends by size, by a switch and by closing the
input, and buffers 0 and 1 are each used twice.  In `tools` the second input has
three pulses: the ZIO buffer of two drops one, and `fmc-tdc-tstamp` sees the
gap.  Deadlock is not checked: once
those are used up, or once all programs have ended, the system may rest.

| Run | Instance | Shows |
|---|---|---|
| `buf_races` | 2 inputs with a pulse each, both opened and one closed, a timeout write, two errors, no `QuickTail` | `NoIrqWhilePending`: the WARN at `ft-buf.c:528` never fires; `MaskIsSaved`, `PendingIsExact`: partial failures do not lose the interrupt mask, except when `dma_map_sg` maps nothing, which masks the inputs for good; `OneTransferPerInput`: cycles do not overlap |
| `buf_data` | 1 input, 4 pulses, opened, closed and opened again | `TypeOK`; `NoOverlap`, `CountMatchesBuffer`, `OutIncreasing`: the double buffer works; `DoneWillCome`: the busy wait ends |
| `buf_live` | 1 input, nothing fails, fairness | `ImplementsStream`, `DeliversAll`: refinement of `TsStream`; `MaskRestored`: every cycle ends; `ArmFires`: the next cycle never meets a trigger that is still armed |
| `fifo_live` | 2 inputs, FIFOs of 8 less than half full, one error, fairness | `ImplementsStream`, `TransferredIsDelivered`, `DeliversAll`, `HandlerEnds` |
| `fifo_close` | 1 input opened three times and closed twice, a FIFO that says FULL at 3 of 4, one error | `TypeOK`, `CountStaysTrue`, `OutIncreasing`: words that are no timestamps are delivered only if the FIFO was emptied between the read of its count and the block |
| `tools` | 2 processes, 2 inputs, 2 and 3 timestamps, one error, 14 pairs of programs, both modes, fairness | `TypeOK`; `OffsetsWhole`, `WrModeMatches`: what `ft->lock` protects; `EnableMatches`, `LoadWhileOff`: what it does not; `Accounted`, `FlushForgets`, `LeakIsOneChannel`: the library loses nothing silently; `MissesAreLosses`, `LeavesInputsOff`, `ProgramsEnd`: the tools |
| `probe` | both carriers, every combination of cards and modes, two lives, any failure | `TypeOK`, `NothingLeaked`, `OopsOnlyIf`, `QuietWithoutDriver`, `BoundWithoutDriver`, `StartsFromItsSettings`, `CellsAreCards` |
| `buf_overfill` | a buffer fills up | finding: `CountMatchesBuffer` fails |
| `buf_lost_done` | a timeout write during a switch | finding: `DoneWillCome` fails |
| `buf_leftover` | one error | finding: `ArmFires` fails |
| `fifo_spin` | 1 input, a FIFO half full | finding: `HandlerEnds` fails |
| `probe_wr` | a second life | finding: `WrModeKnown` fails |

One pulse per input is enough for `buf_races`, which is about cycles and not about
data; that its invariants hold for any number of inputs, pulses and errors, and
when a buffer fills up, is proved.  A FIFO of four has its half at two and can wrap `USEDW`; with
four timestamps per input it fills up, is read in several passes, and `redo` (two
instead of ten) is used up.  A FIFO of eight has room for reads of one to three
below its half.

`tools` pairs programs that set the same thing (offsets, White Rabbit, time),
programs that write the same register (termination of two inputs; a flush and a
termination), programs that change the buffers, a readout of two inputs, a
readout next to non-blocking and blocking reads of the same input, and `example.c` while White Rabbit is
enabled.  Two processes are enough for every race on `INPUT_ENABLE` or the lock,
since each such race is between two accesses; two timestamps suffice for a batch, a gap and
a ZIO buffer that overflows.  Ticks of two fractions and seconds of two ticks
make every carry and borrow happen with the offsets -3, 3 and 9 (refused, the
range being 3).  `OffsetsAreShort` assumes that zero, White Rabbit and user offsets
are shorter than a second, as the ranges of the code and its calibration defaults
are: `FromPicos` leaves a second or more in the ticks.

`probe` gives a device two lives, so that each life but the first begins with the
registers of another, that may have ended in any of the error paths.

Fairness (`Fairness`, `HwFairness`): the gateware is clocked and the DDR
answers, the handler, the workqueue, the DMA engine and its tasklet are
scheduled, and a process inside `ft_dma_irq_coalescing_timeout_set` or `ft_change_flags` finishes.
Nothing is assumed of pulses, of errors or of new requests; fairness is weak
throughout.  In FIFO mode: the interrupt line follows the FIFO, the handler
runs, and `ft_change_flags` finishes once it has begun.  In `FmcTdcTools` a
process that can go on does; weak fairness is enough for the lock because no
program asks for it without end.

Findings, in words:

1. *A full buffer desynchronises the double buffer* (`buf_overfill`).
   `active_buffer` counts the driver's switches only; the gateware's own switch
   makes the driver read one buffer with the count of the other.
2. *Setting the coalescing timeout can hang the work item* (`buf_lost_done`).
   The read-modify-write of CSR writes a DONE it has read back, which clears it.
3. *An error after `zio_arm_trigger`* (`buf_leftover`) leaves the trigger armed
   with a block of the wrong size for the next cycle.
4. *The FIFO handler can stay in its loop* (`fifo_spin`).  An input that was
   read at half or more stays in `irq_stat`; if the next pass finds it empty,
   neither `irq_stat` nor `redo` changes.
5. *White Rabbit survives the driver* (`probe_wr`).  Nothing in `ft_probe`
   writes `WR_CTRL`: a driver that is loaded again believes that White Rabbit is
   off while the gateware uses it, answers ENODEV and lets the time be set.

Further behaviour of the code that the same models reach under other constants
and that no run is kept for:

* *A `dma_map_sg` that maps nothing masks the inputs for good*
  (`ft-buf.c:365-373`, `456-461`, `508-515`).  The transfer is counted and never
  submitted, so `pending_dma` does not come down to 0, or, if it was the only one
  of the cycle, nothing will ever decrement it; `ft_irq_enable_restore` is not
  called, no input raises an interrupt again and no later cycle repairs it.
  `MaskIsSaved` and `PendingIsExact` hold the exception; that no other error has
  this effect is what `buf_races` and the theorems show.
* Without `QuickTail` the next cycle can meet a trigger that is still armed:
  the interrupts come back (`ft-buf.c:400`) before `zio_trigger_data_done`
  (needs a second CPU).
* `ft_change_flags` may clear a FIFO after ISR has been read; the handler then
  stays in its loop as in finding 4 (`FtFifo` with `MaxDisables = 1` and
  fairness).
* A FIFO that uses all its entries reads `USEDW = 0` when full and is skipped
  before FULL is looked at (`ft-fifo.c:132-138`).
* `redo` is decremented per input and tested per pass, so two busy inputs can
  take it from 1 to -1.
* Closing *and opening* an input between the read of `USEDW` and the allocation
  of the block makes the handler deliver words that are no timestamps: the
  inputs in `stale`, which `CountStaysTrue` and `OutIncreasing` of `FtFifo` are not
  about.
* `received` counts again what could not be read for want of a block.
* DONE is set when the last word has been handed to the DDR controller
  (`tdc_dma_channel.vhd:359`), while the register description says that the data
  is in the DDR (`tdc_buffer_control_regs.wb:59`).  Nothing in the model can tell: the
  engine's reads come after the writes it has accepted.
* Accesses that overlap in `INPUT_ENABLE` undo each other (`clash`): a
  termination write that straddles `fmctdc_flush` enables the input again, two
  termination writes lose one, a termination write during `ft_set_tai_time`
  turns the inputs on while the time is loaded.
* `seconds` asks `ft_wr_query` first and writes the time afterwards; White
  Rabbit may be enabled in between.
* Two programs that read one input: `poll` of one promises what the other takes,
  and its `fmctdc_read` then waits in `select` with SIGINT as its only way out;
  a SIGINT that arrives between the test of `stop` and `select` does not end it.
* `fmc-tdc-tstamp -n` never calls `poll`, so `revents` stays empty and nothing is
  ever read.  It disables all inputs at its end, also those it was not asked to
  read; negative channels and any index of `-a` are accepted.
* `fmc-tdc-time wr` waits for the lock whatever the error: `fmctdc_check_wr_mode`
  returns -1 and the comparison with ENOLINK never holds.
* `fmctdc_get_buffer_len` always fails: the path it tests with `access` has 68
  characters and its buffer 64 (`fmctdc-lib.c:616-622`), so that the name it looks
  for does not exist.
* `example.c` aborts in FIFO mode when it reads the coalescing time back (the
  driver returns the threshold), and stops in DMA mode at `fmctdc_check_wr_mode`
  (ENODEV); if it came further it would stop at `fmctdc_get_buffer_len`, and a
  length of 128 would read back as 192.  It never acquires anything.
* The board's sequence numbers have 28 bits.  When they start again both readout
  programs report a gap that is no loss (`fmc-tdc-perftest.c:130`); the model
  assumes that they do not (`SequenceAssumption`).
* `ft_dma_complete` and `ft_irq_work` take `ft->lock`, too (`ft-buf.c:397`, `514`),
  and `ft_zio_conf_channel` takes it without disabling interrupts
  (`ft-zio.c:265`): a completion on the same CPU would spin on a lock that the
  process below it holds.  The lock of `FtSysfs` is one between processes; that
  deadlock is not in the model, and `ProgramsEnd` says nothing of it.
* In DMA mode `fmctdc_flush` leaves timestamps in the DDR, which come out later.
* A failed `fmctdc_open` leaks up to two descriptors of the input it failed at,
  and tests `b->sysbase` after duplicating `devbase` (`fmctdc-lib.c:132`).
  `fmctdc_set_buffer_type` stops half-way at an error; `fmctdc_fread` forgets
  what it has read.  `fmctdc_set_buffer_type_chan` tests `!fd`.
* `process_timestamps` of `fmc-tdc-perftest` tests the sequence number of the
  first timestamp of a batch for each of them, and counts a failed read as a
  sample to come.
* `ft_fmc_slot_is_valid` returns negative errors from a `bool`, so that an invalid
  FRU is taken for a valid one.  Failures of `fmc_slot_get`, of the presence
  test, of the FRU and of the link leave `ret` alone: the device is bound without a
  driver, which `ft_remove` copes with.
* `default_calibration` is copied into a local that is not used
  (`calibration.c:192`); the FRU's year is always 0 because the count
  `fmc_slot_eeprom_read` returns is taken for an error (`calibration.c:54`), so
  `wr_offset` is always overwritten.  A write of the calibration attribute does
  not reach the offset registers.
* `ft_buf_exit` does not wait for the work item and the completions, and writes
  the bits it means to clear to IER (`ft-buf.c:679`); the hwmon device outlives
  `ft` by the time between `kfree` and the release of what `devm_` has
  registered; `ft_hwmon_init` unregisters the wrong device when it has no label.
* An attribute written between `zio_register_device` and the end of `ft_probe` is
  overwritten in the registers and not in ZIO; `ft_zio_init` calls
  `ft_update_offsets` without `ft->lock`.
* A coalescing timeout that is lowered below the running `irq_timer` takes
  effect only after the timer has wrapped.

## 4. Proofs

`FtBufProofs` proves, for any number of inputs, any buffer and burst sizes and
any bounds, under the assumptions on the constants only:

* `TypeCorrect`: `[]TypeOK`
* `MaskNeverLost`: `[]MaskIsSaved`
* `PendingCountsTransfers`: `[]PendingIsExact`, both with the exception of
  `MapFails`: the mask is saved during a cycle, or for good once `unmapped` is
  not 0, and `pending_dma` exceeds the queue by `unmapped`
* `HandlerNeverMeetsDma`: `[]NoIrqWhilePending`
* `ScatterListUsedOnce`: `[]OneTransferPerInput`

None of the properties is inductive alone.  `IInv` adds the phases of a cycle
(`CycleInv`: queued, at work, or transfers running, never two of them; while
the work runs its local `n_transfers` is the length of the engine's queue and
`unmapped`; a cycle begins with an empty queue and `unmapped = 0`) and what the work has visited (`ChanInv`:
inputs still to visit have no transfer).  `Invariance` shows each action
preserves it; steps of the gateware only need types (`HwStepType`).

`FtBufDataProofs` adds, while no buffer fills up before it is switched away
(`~Overfill`, without which `buf_overfill` has a counterexample):

* `BuffersDoNotOverlap`: `[]NoOverlap`
* `CountIsOfTheBuffer`: `[]CountMatchesBuffer`
* `SpinIsAnswered`: `[]DoneWillCome`, if in addition nobody writes the coalescing
  timeout (`MaxSets = 0`; `buf_lost_done` shows why)

Its invariant `DataInv` describes the gateware of each input (`HwData`): the
buffers have room, the burst FIFO holds consecutive timestamps behind the
address of the first one's slot and the marker between those of two buffers, the
DDR master's address is the slot of the next word, and what has left the FIFO is
in its slot.  It ties this to the driver: `Phase` says what each statement of
`ft_buffer_switch` has done to the two bases and to DONE, `Settled` that the other
inputs agree with `active_buffer`, `Asking` that an input the work visits has a
switch that the gateware will answer, and `Driver` that the buffer and the count
the work carries are those of the buffer switched away.  A switch renumbers: the
timestamps of the current buffer become those switched away.  Every other step
of the gateware is a push, a pop or neither on one FIFO, so that each part of
the invariant is shown three times and not once per VHDL state.

`FtBufStreamProofs` follows the data from the DDR to the reader, when in addition
nothing fails (`MaxFails = 0`) and the completion returns before the work arms the
same input again (`QuickTail`):

* `ReaderSeesOrder`: `[]OutIncreasing`
* `TriggerFires`: `ArmFires`, under `[][Stays]_vars`
* `DmaIsAStream`: the refinement of `TsStream`, under `[][Stays]_vars`

After an error the armed trigger of `buf_leftover` breaks the order; `Stays`
(no input is disabled) is needed for the stream because what is under way when
an input is disabled is lost by design.  `ReaderInv` says that no reader
has a timestamp past `Bound`, the last one before the buffer under way;
`StreamInv` that it has all of them, but for one batch that may be in the block
`data_done` is about to hand over.

`FtFifoProofs` proves for any number of inputs, any depth and any bounds:

* `FifoTypeCorrect`: `[]TypeOK`
* `NeverReadsEmpty`: `[]CountStaysTrue`
* `ReaderInOrder`: `[]OutIncreasing`
* under `StayOpen` (no input is closed, and FULL means that every entry is in
  use): `TransferredIsTrue` (`[]TransferredIsDelivered`) and `FifoIsAStream`, the
  refinement of `TsStream`.

The first three hold however often inputs are closed and opened and FIFOs
flushed.  Their invariant `CloseInv` says that an input not in `stale` has in its
FIFO what the handler is about to read (`CountInv`), and that what its reader
has, then the active block, then the FIFO are in order (`InOrder`).  `StayOpen` is
needed for the others: closing an input or flushing a FIFO discards timestamps.
Their invariant `SInv` says where each timestamp is: what input `c` has produced
is, in order and without gaps, what its reader has, then what is in the active
block, then what is in the FIFO (`StreamInv`), and while the handler reads the
FIFO holds at least what is still to read (`ReadInv`).  `StreamSimulation` shows
that an arrival is a `Take`, a `DataDone` with a block a `Deliver`, and every
other step a stutter.

`TsMathProofs` proves, for every resolution and every width of the seconds:
sums, differences and offsets of normalized timestamps are normalized
(`AddIsNormal`, `SubIsNormal`), each undoes the other (`SubUndoesAdd`,
`AddUndoesSub`), `fmctdc_ts_sub` is the distance of two timestamps less than half
an era apart (`LibSubIsDistance`), and `fmctdc_ts_norm` normalizes
(`NormIsNormal`).  The arithmetic of TLC's instance is too small to say so.

`FtSysfsProofs` proves for any number of processes and inputs and any sequence
of accesses, refused ones included (`SysSpec`):

* `SysfsTypes`: `[]TypeInv`, where the offset registers may hold any integers,
  because between two writes they are not those of one timestamp;
* `OffsetsAreWhole`: `[]OffsetsWhole`;
* `WrModesMatch`: `[]WrModeMatches`.

Neither of the last two is inductive: they speak of the moment when the lock is
free.  `LockInv` says what its holder has done so far: `Held` (who is between a
lock and its unlock is the holder), `OffsetsDone` (inputs that nobody is
rewriting have the registers of their offset), `OffsetsSoFar` (at each of the three
writes, those before it are done) and `WrSoFar` (`WR_CTRL` and `wr_mode` differ
only between their two writes).  Steps without the lock are `Quiet`
(`QuietKeeps`); the steps under it are `OffsetSteps` and `WrSteps`.

`FtSysfsProofs` also proves, for `SysSpec`:

* `EnablesMatch`: `[]EnableMatches`
* `LoadsWhileOff`: `LoadWhileOff`

No lock protects `INPUT_ENABLE`.  `IenInv` says what is true as long as no two
accesses to it have overlapped (`~clash`): one process at a time is in one
(`Lone`), its copy is the register's value (`CopyFresh`), and only the input and
the field that process is at may differ between the register and the driver's
flags (`FlagSoFar`, `AcqSoFar`, `TermSoFar`).

Last, for any resolution and any offsets shorter than a second:

* `OffsetsAreNormal`: what `ft_update_offsets` computes from an offset the driver
  accepts is a normalized timestamp;
* `RegistersAreNormal`: `[]Registers`, the offset registers hold one.

A write of one of the three registers does not end with the value of its own
process alone, so the invariant, `BoardInv`, says of every process in the driver
what it is accessing (`Accesses`): at the steps of an offset an offset the handler
has accepted, at those of `INPUT_ENABLE` a flag.

`FtProbeProofs` proves, for any number of lives, any failures and any use in
between, every property the run `probe` checks: `ProbeTypeCorrect`,
`NothingIsLeaked`, `OopsOnlyInWindows`, `QuietWithout`, `BoundWithout`, `StartsFresh`
and `SvecDevices`.  `Owned` is the table of what the driver holds at each
statement: `ft_probe` on its way down and the error path on its way up meet at
the same sets, which is what the labels of the error path are meant to do
(`HeldInv`).  Around it, `WhereInv` relates the statement to what the driver core
believes, `SettingsInv` says which registers already have the driver's values, and
`CycleInv` when interrupts may be enabled.

`FmcTdcToolsProofs` proves, for any number of processes and inputs, any options
the `getopt` loops let through (`OptionsAssumption`), any sequences of calls of the
other programs, any pairs of programs (`JobsAssumption`) and any bounds:

* `ToolsAreProcesses`: `Spec => SysSpec`.  The programs implement the processes
  of `FtSysfs`; nothing is mapped, `FmcTdcTools` adds variables and restricts who
  accesses what, and the theorem says that it adds no step.
* `ToolsKeepTheBoard`: with it, everything proved of `SysSpec` holds under the
  programs: `OffsetsWhole`, `WrModeMatches`, `EnableMatches`, `LoadWhileOff`.
* `TimestampsAreAccounted`: `[]Accounted`.
* `OpenLeaksLittle`: `[]LeakIsOneChannel`.
* `ReportsAreTrue`: `[]MissesAreLosses`.  A number that `fmc-tdc-tstamp` or
  `fmc-tdc-perftest` reports missing never comes later.

The invariant is `ToolInv`.  Its `CallInv` says that a call is the program's
current one, or a read of the readout loop (`CallOf`), that it has as many results
as it has done accesses (`Shape`), that a process is in the driver for the
access its call is at (`ReqOf`), which is what the refinement needs, and that
timestamps are in a call's hands only at its reads (`TakenInv`).  `PlaceInv`
divides the timestamps of an input among the `Places`: the hardware, the ZIO
buffer, each library call and each caller.  A step moves timestamps from one
place to another, splits off the head of one, or discards the contents of one;
`Exchange` says once what moving does to the division, and the actions of the
library are instances of it.  What a program is made of
(`Tstamp`, `Perftest`, `Example`) is shown to be a sequence of well-formed calls for
all options.

For the descriptors, `FdsInv` says that a program has none before it opens the
board, that an unfinished `fmctdc_open` has opened those of inputs before the
one its script is at, and that a failed one keeps some of one input: the
property alone is not inductive, since it says nothing of the calls that have not
failed yet, whose descriptors are the ones the error path closes.

For the reports, `OrderInv` says that what a process has of an input is older than
what its call holds, that older than the ZIO buffer, and that older than the
hardware, each of them rising.  `PrevInv` ties what a program remembers
(`prev`) to what it was given: it is the last timestamp before those a read has
returned and the loop has not looked at (`Unseen`), and `fmc-tdc-perftest`
remembers none of those it skips.  So a number between `prev` and the
new batch, or inside the batch, is older than something the program has and is not
in its hands: by `OrderInv` it is in no buffer any more, and by `PlaceInv` it was
discarded or went to another program (`OlderIsLost`).  From there it never comes
back (`LostStays`), which is why `MissInv` is inductive and the property, without
the order, is not.

The last three are about where in its program a process is.

* `ToolsKeepTypes`: `[]TypeOK`.  That a register is normalized comes from
  `FtSysfsProofs` through the refinement; that a program that has ended has no
  descriptor is `OverInv`, which needs `FdsInv` for a failed `fmctdc_open`.
* `InputsAreOff`: `[]LeavesInputsOff`.  Of the programs, for all options, it is
  shown that every call that turns an input on is followed by the call that turns
  it off (`EndsOff`, `ReadoutEnds`).  `OffInv` then says that an input that a readout
  program has alone is off unless the program has yet to disable it
  (`WillDisable`).  That is inductive only with what a flush is about to write back:
  the flag it has read must be 0 too (`Forgot`), or `fmctdc_flush` of a disabled
  input would enable it after the last call that disables.
* `FlushesForget`: `[]FlushForgets`.  `FifoInv` says that in FIFO mode timestamps are
  in the gateware only for inputs that are enabled or that some process is about to
  clear, `FlushInv` that between the two accesses of a flush the input is off
  (`Closed`) and, when it is to be enabled again, its ZIO buffer empty (`Drained`).
  `IenInv` connects the flag of ZIO, which a flush sets, to `INPUT_ENABLE`, which lets
  timestamps in.

Like the properties, the last two speak of executions without an error so far
(`fails = 0`), of inputs no other program touches (`Alone`) and, as far as the
register is concerned, of those where no two accesses to `INPUT_ENABLE` have
overlapped (`~clash`).  Without these they are false: a read that fails ends the
loop of `fmctdc_flush` with timestamps left, an access that fails does not disable,
and overlapping accesses lose each other's bits.

Only model-checked is liveness, which is out of this prover's reach: `DeliversAll`
(of `FtBuf` and of `FtFifo`), `MaskRestored`, `HandlerEnds`, `ProgramsEnd`.  What a
recursive definition computes for every input would need induction over data,
which is out of its reach as well; no theorem here depends on one.

## 5. Plan

Done: both acquisition modes from the gateware's buffers to the reader, the
attributes, the library, the tools, and the driver's life; theorems for every
invariant and every action property of the passing runs.  Next:

1. The gateware's data path: `TsConvertFilter`, `StartRetrig`, `DataEngine`.
2. A bounded burst FIFO and counters in `TdcDmaChannel`, and the value of
   `irq_timer`.

## 6. Not modelled

The gateware's data path before the timestamp (see the plan); register decoders
generated by wbgen, wiring and top levels, clock and reset management, LEDs,
one-wire and EEPROM access; enumeration of boards in the library,
`fmc-tdc-list` and `fmc-tdc-calibration`, the output of the tools, and the Python
binding and tests: input and output without state of their own that a property
could be about.
