------------------------------ MODULE FtSysfs ------------------------------
(***************************************************************************)
(* The driver's ZIO attributes: ft-zio.c with ft_enable, ft_disable,        *)
(* ft_enable_termination, the coalescing functions of ft-core.c and         *)
(* ft-time.c.  Every process that reads or writes an attribute runs the     *)
(* driver's functions in its own context; one step is one access to a       *)
(* device register, or to a variable of the driver others can see.          *)
(***************************************************************************)
EXTENDS TsMath, FiniteSets, Sequences

CONSTANTS User,        \* processes
          NumChan,     \* FT_NUM_CHANNELS
          Modes,       \* what ft->mode can be: "fifo", "dma"
          ZeroOffset,  \* calib.zero_offset, the same for all inputs
          WrOffset,    \* calib.wr_offset plus the carrier's
          OffsetRange, \* FT_USER_OFFSET_RANGE
          HostTime     \* what getnstimeofday returns

ASSUME SysfsConstants ==
  /\ NumChan \in Nat \ {0} /\ Modes \subseteq {"fifo", "dma"}
  /\ ZeroOffset \in Int /\ WrOffset \in Int /\ OffsetRange \in Nat
  /\ HostTime \in 0 .. Era - 1
  /\ "nobody" \notin User

\* ft_ts_from_picos leaves a second and more in the ticks: each offset is
\* shorter, the user's 10^9 ps by FT_USER_OFFSET_RANGE, the others as the 32-bit
\* picoseconds of the calibration that they are.
ASSUME OffsetsAreShort ==
  LET second == Picos * Coarse
  IN  /\ ZeroOffset < second /\ -ZeroOffset < second
      /\ WrOffset < second /\ -WrOffset < second /\ OffsetRange < second

VARIABLES ien,    \* INPUT_ENABLE: inputs acquired, inputs terminated, the global flag
          tsf,    \* TSF_REG_OFFSET1..3 and the raw mode bit of each input
          tmo,    \* ft->mode, IRQ_TIMEOUT, IRQ_THRESHOLD and the IRQ_TIMEOUT field of
                  \* each CSR
          tai,    \* START_UTC and CURRENT_UTC
          wr,     \* WR_CTRL and ft->wr_mode
          st,     \* per input: ZIO's enable flag, the driver's flags and user offset,
                  \* the ZIO buffer and its settings
          lock,   \* the holder of ft->lock
          req,    \* per process: the attribute access it is in
          clash   \* two accesses that read and write INPUT_ENABLE have overlapped
sysVars == <<ien, tsf, tmo, tai, wr, st, lock, req, clash>>

Chan == 0 .. NumChan - 1
Nobody == "nobody"
Errno == {"none", "EINVAL", "EPERM", "ENODEV", "ENOLINK", "EAGAIN", "EIO"}
BufferTypes == {"kmalloc", "vmalloc"}
Mode == tmo.mode

\* The commands of the "command" attribute.
WrEnable == 0
WrDisable == 1
WrQuery == 2
SetHostTime == 3

SetOf(a, c, v) == [set |-> TRUE, attr |-> a, chan |-> c, val |-> v]
GetOf(a, c) == [set |-> FALSE, attr |-> a, chan |-> c, val |-> 0]
NoIen == [acq |-> {}, term |-> {}, flag |-> FALSE]
IdleReq == [at |-> "idle", acc |-> GetOf("none", 0), ien |-> NoIen, err |-> "none", ret |-> 0]

\* ft_update_offsets: the offset that is in force for a user offset.
HwOffset(user) ==
  LET zero == ApplyOffset(Zero, ZeroOffset)
      white == ApplyOffset(zero, -WrOffset)
  IN  IF user # 0 THEN ApplyOffset(white, user) ELSE white

\* What probing leaves behind.
SysInit ==
  /\ ien = [acq |-> {}, term |-> {}, flag |-> TRUE]
  /\ tsf = [c \in Chan |-> [off |-> HwOffset(0), raw |-> 0]]
  /\ \E m \in Modes :
       tmo = [mode |-> m, timeout |-> 10, threshold |-> 40, csr |-> [c \in Chan |-> 10]]
  /\ tai = [start |-> 0, current |-> 0]
  /\ wr = [ctrl |-> 0, mode |-> 0]
  /\ st = [c \in Chan |-> [enabled |-> 0, terminated |-> 0, user_offset |-> 0,
                           type |-> "vmalloc", prefer_new |-> 0, kb |-> 1]]
  /\ lock = Nobody
  /\ req = [u \in User |-> IdleReq]
  /\ clash = FALSE

-----------------------------------------------------------------------------
At(u, l) == req[u].at = l
Acc(u) == req[u].acc
Ch(u) == req[u].acc.chan
Val(u) == req[u].acc.val
GoTo(u, l) == req' = [req EXCEPT ![u].at = l]
Done(u, e, v) ==
  req' = [req EXCEPT ![u].at = "done", ![u].ien = NoIen, ![u].err = e, ![u].ret = v]
OkGoTo(u, ok, l) == IF ok THEN GoTo(u, l) ELSE Done(u, "none", 0)

\* Steps that read, write or are about to read or write INPUT_ENABLE.
EnableSteps == {"enable", "en_read", "en_write", "abort"}
TimeSteps == {"seconds", "tai_read", "tai_off", "tai_start", "tai_load", "tai_on"}
TermSteps == {"term_read", "term_write", "term_flag"}
IenSteps == EnableSteps \union TimeSteps \union TermSteps

\* Where the access starts: the dispatch of ft_zio_conf_set and
\* ft_zio_conf_channel; ZIO serves its own attributes.
First(a) ==
  IF ~a.set THEN "show" ELSE
  CASE a.attr = "enable" -> "enable"
    [] a.attr = "termination" -> "term_read"
    [] a.attr = "user-offset" -> "offset"
    [] a.attr = "seconds" -> "seconds"
    [] a.attr = "command" -> IF a.val = SetHostTime THEN "tai_read"
                             ELSE IF a.val = WrQuery THEN "query" ELSE "wr"
    [] OTHER -> "store"

AttrName == {"none", "enable", "termination", "user-offset", "seconds", "coarse", "command",
             "raw_readout_mode", "irq_coalescing_time", "current_buffer", "prefer-new",
             "max-buffer-kb", "post-samples", "temperature", "version", "received",
             "transferred", "transfer-mode"}
Attribute == [set : BOOLEAN, attr : AttrName, chan : Chan, val : Int]

\* What ZIO and the dispatch let through; in a flag any number but 0 stands
\* for 1.
Accepts(a) ==
  a.set => /\ a.attr \notin {"none", "temperature", "version", "received", "transferred",
                             "transfer-mode"}
           /\ a.attr = "command" => a.val \in {WrEnable, WrDisable, WrQuery, SetHostTime}
           /\ a.attr \in {"enable", "termination", "raw_readout_mode", "current_buffer"} =>
                a.val \in {0, 1}

\* A process opens and writes, or reads, the file of an attribute.
Access(u, a) ==
  /\ At(u, "idle") /\ Accepts(a)
  /\ req' = [req EXCEPT ![u] = [IdleReq EXCEPT !.at = First(a), !.acc = a]]
  /\ clash' = (clash \/ (/\ First(a) \in IenSteps
                         /\ \E w \in User : req[w].at \in IenSteps))
  /\ UNCHANGED <<ien, tsf, tmo, tai, wr, st, lock>>

\* The file cannot be opened, read or written, or the value is refused.
AccessFails(u, a) ==
  /\ At(u, "idle")
  /\ req' = [req EXCEPT ![u] = [IdleReq EXCEPT !.at = "done", !.acc = a, !.err = "EIO"]]
  /\ UNCHANGED <<ien, tsf, tmo, tai, wr, st, lock, clash>>

\* The process closes the file.
Return(u) ==
  /\ At(u, "done")
  /\ req' = [req EXCEPT ![u] = IdleReq]
  /\ UNCHANGED <<ien, tsf, tmo, tai, wr, st, lock, clash>>

\* ft_irq_coalescing_timeout_get.
TimeoutGet(c) == IF Mode = "fifo" THEN tmo.threshold ELSE tmo.csr[c]

\* ft_zio_info_get, ft_zio_info_channel and ZIO's own attributes: one read.
Shown(a) ==
  CASE a.attr = "enable" -> st[a.chan].enabled
    [] a.attr = "termination" -> st[a.chan].terminated
    [] a.attr = "user-offset" -> st[a.chan].user_offset
    [] a.attr = "irq_coalescing_time" -> TimeoutGet(a.chan)
    [] a.attr = "raw_readout_mode" -> tsf[a.chan].raw
    [] a.attr = "seconds" -> tai.current
    [] a.attr = "current_buffer" -> IF st[a.chan].type = "kmalloc" THEN 0 ELSE 1
    [] a.attr = "prefer-new" -> st[a.chan].prefer_new
    [] a.attr = "max-buffer-kb" -> st[a.chan].kb
    [] OTHER -> 0

Show(u) ==
  /\ At(u, "show")
  /\ Done(u, "none", Shown(Acc(u)))
  /\ UNCHANGED <<ien, tsf, tmo, tai, wr, st, lock, clash>>

\* temperature: the one-wire sensor may not have answered yet.
ShowInvalid(u) ==
  /\ At(u, "show") /\ Acc(u).attr = "temperature"
  /\ Done(u, "EIO", 0)
  /\ UNCHANGED <<ien, tsf, tmo, tai, wr, st, lock, clash>>

-----------------------------------------------------------------------------
\* ZIO takes the channel's lock and calls ft_change_flags if the flag changes.
Enable(u) ==
  /\ At(u, "enable")
  /\ \A w \in User \ {u} :
       (\E l \in EnableSteps \ {"enable"} : At(w, l)) => Ch(w) # Ch(u)
  /\ OkGoTo(u, st[Ch(u)].enabled # Val(u), "en_read")
  /\ st' = [st EXCEPT ![Ch(u)].enabled = Val(u)]
  /\ UNCHANGED <<ien, tsf, tmo, tai, wr, lock, clash>>

ReadInputEnable(u, l, next) ==
  /\ At(u, l)
  /\ req' = [req EXCEPT ![u].at = next, ![u].ien = ien]
  /\ UNCHANGED <<ien, tsf, tmo, tai, wr, st, lock, clash>>

EnRead(u) == ReadInputEnable(u, "en_read", "en_write")

\* The bit of an input in the upper half of INPUT_ENABLE, for ft_enable and
\* ft_disable; the mutated form clears one bit too many.
AcqBitsMut(old, c, on) == IF on = 1 THEN old.acq \union {c} ELSE old.acq \ {c, c + 1}
AcqBits(old, c, on) == IF on = 1 THEN old.acq \union {c} ELSE old.acq \ {c}

EnWrite(u) ==
  /\ At(u, "en_write")
  /\ ien' = [req[u].ien EXCEPT !.acq = AcqBits(req[u].ien, Ch(u), Val(u))]
  /\ OkGoTo(u, Val(u) = 0, "abort")
  /\ UNCHANGED <<tsf, tmo, tai, wr, st, lock, clash>>

\* zio_trigger_abort_disable and the FIFO's CLEAR_BUS (what they do to the
\* data is in FmcTdcLib).
Abort(u) ==
  /\ At(u, "abort")
  /\ Done(u, "none", 0)
  /\ UNCHANGED <<ien, tsf, tmo, tai, wr, st, lock, clash>>

\* ft_enable_termination.
TermRead(u) == ReadInputEnable(u, "term_read", "term_write")

TermWrite(u) ==
  /\ At(u, "term_write")
  /\ ien' = [req[u].ien EXCEPT !.term = IF Val(u) = 1 THEN @ \union {Ch(u)} ELSE @ \ {Ch(u)}]
  /\ GoTo(u, "term_flag")
  /\ UNCHANGED <<tsf, tmo, tai, wr, st, lock, clash>>

TermFlag(u) ==
  /\ At(u, "term_flag")
  /\ st' = [st EXCEPT ![Ch(u)].terminated = Val(u)]
  /\ Done(u, "none", 0)
  /\ UNCHANGED <<ien, tsf, tmo, tai, wr, lock, clash>>

-----------------------------------------------------------------------------
\* The mutated form does not take the lock.
LockFreeMut(u) == TRUE
LockFree(u) == lock = Nobody

OffsetRejected(u) ==
  /\ At(u, "offset") /\ (Val(u) < -OffsetRange \/ Val(u) > OffsetRange)
  /\ Done(u, "EINVAL", 0)
  /\ UNCHANGED <<ien, tsf, tmo, tai, wr, st, lock, clash>>

\* ft_zio_conf_channel, FT_ATTR_TDC_USER_OFFSET: under ft->lock the offset is
\* stored and ft_update_offsets writes three registers.
OffsetStore(u) ==
  /\ At(u, "offset") /\ Val(u) \in -OffsetRange .. OffsetRange
  /\ LockFree(u)
  /\ lock' = u
  /\ st' = [st EXCEPT ![Ch(u)].user_offset = Val(u)]
  /\ GoTo(u, "off_seconds")
  /\ UNCHANGED <<ien, tsf, tmo, tai, wr, clash>>

OffsetWrite(u, l, field, next) ==
  /\ At(u, l)
  /\ tsf' = [tsf EXCEPT ![Ch(u)].off[field] = HwOffset(Val(u))[field]]
  /\ GoTo(u, next)
  /\ UNCHANGED <<ien, tmo, tai, wr, st, lock, clash>>

OffSeconds(u) == OffsetWrite(u, "off_seconds", "seconds", "off_coarse")
OffCoarse(u) == OffsetWrite(u, "off_coarse", "coarse", "off_frac")

OffFrac(u) ==
  /\ At(u, "off_frac")
  /\ tsf' = [tsf EXCEPT ![Ch(u)].off.frac = HwOffset(Val(u)).frac]
  /\ lock' = Nobody
  /\ Done(u, "none", 0)
  /\ UNCHANGED <<ien, tmo, tai, wr, st, clash>>

\* Attributes that take one write: the raw mode bit, the coalescing time (its
\* race with the rest of CSR is in FtBuf), and the settings of the ZIO buffer;
\* "coarse" is kept and never used.  Another allocator means another buffer.
TimeoutSet(c, v) ==
  IF Mode = "fifo" THEN [tmo EXCEPT !.timeout = v] ELSE [tmo EXCEPT !.csr[c] = v]

Store(u) ==
  LET c == Ch(u)
      v == Val(u)
      a == Acc(u).attr
  IN  /\ At(u, "store")
      /\ tsf' = IF a = "raw_readout_mode" THEN [tsf EXCEPT ![c].raw = v] ELSE tsf
      /\ tmo' = IF a = "irq_coalescing_time" THEN TimeoutSet(c, v) ELSE tmo
      /\ st' = CASE a = "prefer-new" -> [st EXCEPT ![c].prefer_new = v]
                 [] a = "max-buffer-kb" -> [st EXCEPT ![c].kb = v]
                 [] a = "current_buffer" ->
                      [st EXCEPT ![c].type = IF v = 0 THEN "kmalloc" ELSE "vmalloc"]
                 [] OTHER -> st
      /\ Done(u, "none", 0)
      /\ UNCHANGED <<ien, tai, wr, lock, clash>>

-----------------------------------------------------------------------------
\* "seconds": refused unless ft_wr_query says that White Rabbit is off.
Seconds(u) ==
  /\ At(u, "seconds")
  /\ IF wr.mode = 1
     THEN Done(u, "EPERM", 0)
     ELSE GoTo(u, "tai_read")
  /\ UNCHANGED <<ien, tsf, tmo, tai, wr, st, lock, clash>>

\* ft_set_tai_time and ft_set_host_time: inputs off, START_UTC, LOAD_UTC,
\* inputs on.
TaiRead(u) == ReadInputEnable(u, "tai_read", "tai_off")

\* The mutated form leaves the inputs on.
FlagDuringLoadMut == TRUE
FlagDuringLoad == FALSE

TaiOff(u) ==
  /\ At(u, "tai_off")
  /\ ien' = [req[u].ien EXCEPT !.flag = FlagDuringLoad]
  /\ GoTo(u, "tai_start")
  /\ UNCHANGED <<tsf, tmo, tai, wr, st, lock, clash>>

TaiStart(u) ==
  /\ At(u, "tai_start")
  /\ tai' = [tai EXCEPT !.start = IF Acc(u).attr = "command" THEN HostTime ELSE Val(u) % Era]
  /\ GoTo(u, "tai_load")
  /\ UNCHANGED <<ien, tsf, tmo, wr, st, lock, clash>>

TaiLoad(u) ==
  /\ At(u, "tai_load")
  /\ tai' = [tai EXCEPT !.current = tai.start]
  /\ GoTo(u, "tai_on")
  /\ UNCHANGED <<ien, tsf, tmo, wr, st, lock, clash>>

TaiOn(u) ==
  /\ At(u, "tai_on")
  /\ ien' = [req[u].ien EXCEPT !.flag = TRUE]
  /\ Done(u, "none", 0)
  /\ UNCHANGED <<tsf, tmo, tai, wr, st, lock, clash>>

\* ft_wr_mode: the register first, then the variable; local timing also gets
\* its VCXO setting back.
WrRegister(u) ==
  /\ At(u, "wr")
  /\ LockFree(u)
  /\ lock' = u
  /\ wr' = [wr EXCEPT !.ctrl = IF Val(u) = WrEnable THEN 1 ELSE 0]
  /\ GoTo(u, "wr_mode")
  /\ UNCHANGED <<ien, tsf, tmo, tai, st, clash>>

WrVariable(u) ==
  /\ At(u, "wr_mode")
  /\ wr' = [wr EXCEPT !.mode = IF Val(u) = WrEnable THEN 1 ELSE 0]
  /\ IF Val(u) = WrEnable THEN lock' = Nobody /\ Done(u, "none", 0)
                          ELSE GoTo(u, "vcxo") /\ UNCHANGED lock
  /\ UNCHANGED <<ien, tsf, tmo, tai, st, clash>>

\* ft_set_vcxo_tune, then the unlock; the mutated form of the unlock forgets it.
UnlockMut == lock
Unlock == Nobody

WrVcxo(u) ==
  /\ At(u, "vcxo")
  /\ lock' = Unlock
  /\ Done(u, "none", 0)
  /\ UNCHANGED <<ien, tsf, tmo, tai, wr, st, clash>>

\* ft_wr_query: the register is read, whatever the link does.
WrAsk(u) ==
  /\ At(u, "query")
  /\ IF wr.mode = 0 THEN Done(u, "ENODEV", 0)
     ELSE \E e \in {"ENOLINK", "EAGAIN", "none"} : Done(u, e, 0)
  /\ UNCHANGED <<ien, tsf, tmo, tai, wr, st, lock, clash>>

\* What the process does in the driver.
AttrStep(u) ==
  \/ Show(u) \/ ShowInvalid(u) \/ Store(u)
  \/ Enable(u) \/ EnRead(u) \/ EnWrite(u)
  \/ TermRead(u) \/ TermWrite(u) \/ TermFlag(u)
  \/ OffsetRejected(u) \/ OffsetStore(u) \/ OffSeconds(u) \/ OffCoarse(u) \/ OffFrac(u)
  \/ Seconds(u) \/ TaiRead(u) \/ TaiOff(u) \/ TaiStart(u) \/ TaiLoad(u) \/ TaiOn(u)
  \/ WrRegister(u) \/ WrVariable(u) \/ WrVcxo(u) \/ WrAsk(u)

SysNext ==
  \E u \in User :
    \/ \E a \in Attribute : Access(u, a) \/ AccessFails(u, a)
    \/ AttrStep(u) \/ Abort(u) \/ Return(u)

SysSpec == SysInit /\ [][SysNext]_sysVars

-----------------------------------------------------------------------------
\* While nobody holds ft->lock the three offset registers of an input are those
\* of its user offset: two processes that set it never leave a mixture behind
\* (ft_zio_conf_channel and ft_update_offsets).
OffsetsWhole ==
  lock = Nobody => \A c \in Chan : tsf[c].off = HwOffset(st[c].user_offset)

\* While nobody holds ft->lock the gateware uses White Rabbit if and only if
\* the driver believes it does, so that ft_wr_query and the refusal to set the
\* time answer for the mode the board is in (ft_wr_mode).
WrModeMatches == lock = Nobody => wr.ctrl = wr.mode

\* INPUT_ENABLE says of every input what ZIO's flag and FT_FLAG_CH_TERMINATED
\* say, and inputs are not globally off, when no access to it is under way and
\* none has overlapped another: each of ft_enable, ft_disable,
\* ft_enable_termination and ft_set_tai_time leaves the bits of the others.
EnableMatches ==
  ~clash /\ (\A u \in User : req[u].at \notin IenSteps) =>
    /\ ien.acq = {c \in Chan : st[c].enabled = 1}
    /\ ien.term = {c \in Chan : st[c].terminated = 1}
    /\ ien.flag

\* "can't change time when inputs are enabled" (ft_set_tai_time): CURRENT_UTC
\* is loaded with the global flag off, unless accesses have overlapped.
LoadWhileOff ==
  [][ (\E u \in User : TaiLoad(u)) => clash \/ ~ien.flag ]_sysVars
=============================================================================
