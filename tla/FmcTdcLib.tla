----------------------------- MODULE FmcTdcLib -----------------------------
(***************************************************************************)
(* The user library fmctdc-lib.c.  A call is a script of attribute accesses *)
(* (FtSysfs) and reads of the data device of an input; between two of them  *)
(* the calls of other processes and the acquisition go on.                  *)
(***************************************************************************)
EXTENDS FtSysfs, SequencesExt

CONSTANTS MaxTs,   \* timestamps of each input
          MaxFails,  \* errors of the system calls
          PerKb    \* timestamps in a KiB of the ZIO buffer: 64

ASSUME LibConstants == MaxTs \in [Chan -> Nat] /\ MaxFails \in Nat /\ PerKb \in Nat \ {0}

VARIABLES hw,    \* per input: timestamps in the FIFO or the DDR
          zbuf,  \* per input: timestamps in the ZIO buffer
          made,  \* per input: how many the gateware has taken
          got,   \* per process and input: timestamps the library has returned
          gone,  \* per input: timestamps that were discarded
          call,  \* per process: the library call it is in
          fds,   \* per process: the descriptors of its board
          fails
dataVars == <<hw, zbuf, made, got, gone>>
libVars == <<sysVars, dataVars, call, fds, fails>>

\* Not accesses but steps of a script: the loop of fmctdc_flush, a read, and
\* the descriptors of fmctdc_open.
Step(k, c, n) == SetOf(k, c, n)
ReadSteps == {"drain", "read", "read_nonblock", "fread"}

Call(fn, script) == [fn |-> fn, script |-> script, at |-> 1, res |-> <<>>,
                     buf |-> <<>>, acc |-> <<>>, err |-> "none"]
NoCall == Call("none", <<>>)

-----------------------------------------------------------------------------
\* The calls.
OnAll(f(_)) == [i \in 1 .. NumChan |-> f(i - 1)]

Open == Call("open", <<GetOf("version", 0)>>
                     \o OnAll(LAMBDA c : GetOf("current_buffer", c))
                     \o OnAll(LAMBDA c : SetOf("post-samples", c, 1))
                     \o OnAll(LAMBDA c : Step("descriptors", c, 0)))
Close == Call("close", <<>>)

Temperature == Call("read_temperature", <<GetOf("temperature", 0)>>)
SetTermination(c, on) == Call("set_termination", <<SetOf("termination", c, on)>>)
GetTermination(c) == Call("get_termination", <<GetOf("termination", c)>>)
StatusGet(c) == Call("status_get", <<GetOf("enable", c)>>)
StatusSet(c, on) == Call("status_set", <<SetOf("enable", c, on)>>)
SetBufferType(t) == Call("set_buffer_type", OnAll(LAMBDA c : SetOf("current_buffer", c, t)))
GetBufferType == Call("get_buffer_type", OnAll(LAMBDA c : GetOf("current_buffer", c)))
GetBufferMode(c) == Call("get_buffer_mode", <<GetOf("prefer-new", c)>>)
SetBufferMode(c, m) == Call("set_buffer_mode", <<SetOf("prefer-new", c, m)>>)

\* The length is rounded up to one KiB more than it needs; see Rejects.
GetBufferLen(c) == Call("get_buffer_len", <<GetOf("max-buffer-kb", c)>>)
SetBufferLen(c, len) ==
  Call("set_buffer_len", <<SetOf("max-buffer-kb", c, len \div PerKb + 1)>>)

SetTime(s) == Call("set_time", <<SetOf("coarse", 0, 0), SetOf("seconds", 0, s % Era)>>)
GetTime == Call("get_time", <<GetOf("seconds", 0), GetOf("coarse", 0)>>)
SetHost == Call("set_host_time", <<SetOf("command", 0, SetHostTime)>>)
WrMode(on) == Call("wr_mode", <<SetOf("command", 0, IF on = 1 THEN WrEnable ELSE WrDisable)>>)
CheckWrMode == Call("check_wr_mode", <<SetOf("command", 0, WrQuery)>>)

\* The value of the last access is the enable status read by the first.
Flush(c) == Call("flush", <<GetOf("enable", c), SetOf("enable", c, 0),
                            Step("drain", c, 100), SetOf("enable", c, 0)>>)
SetOffset(c, ps) == Call("set_offset_user", <<SetOf("user-offset", c, ps)>>)
GetOffset(c) == Call("get_offset_user", <<GetOf("user-offset", c)>>)
CoalescingSet(c, ms) == Call("coalescing_timeout_set", <<SetOf("irq_coalescing_time", c, ms)>>)
CoalescingGet(c) == Call("coalescing_timeout_get", <<GetOf("irq_coalescing_time", c)>>)
TsModeSet(c, m) == Call("ts_mode_set", <<SetOf("raw_readout_mode", c, m)>>)
TsModeGet(c) == Call("ts_mode_get", <<GetOf("raw_readout_mode", c)>>)
Statistics(c) == Call("stats_get", <<GetOf("received", c), GetOf("transferred", c)>>)
TransferMode == Call("transfer_mode", <<GetOf("transfer-mode", 0)>>)

Read(c, n) == Call("read", <<Step("read", c, n)>>)
ReadNonBlock(c, n) == Call("read", <<Step("read_nonblock", c, n)>>)
Fread(c, n) == Call("fread", <<Step("fread", c, n)>>)

-----------------------------------------------------------------------------
LibInit ==
  /\ SysInit
  /\ hw = [c \in Chan |-> <<>>] /\ zbuf = [c \in Chan |-> <<>>]
  /\ made = [c \in Chan |-> 0]
  /\ got = [u \in User |-> [c \in Chan |-> <<>>]] /\ gone = [c \in Chan |-> {}]
  /\ call = [u \in User |-> NoCall]
  /\ fds = [u \in User |-> {}]
  /\ fails = 0

InCall(u) == call[u].fn # "none" /\ call[u].at <= Len(call[u].script) /\ call[u].err = "none"
Ended(u) == call[u].fn # "none" /\ ~InCall(u)
Now(u) == call[u].script[call[u].at]
NextStep(u, v) == call' = [call EXCEPT ![u].at = @ + 1, ![u].res = Append(@, v)]
Fail(u, e) == call' = [call EXCEPT ![u].err = e]

\* Only the vmalloc buffer has max-buffer-kb, and less than 64 timestamps are
\* refused.  fmctdc_get_buffer_len looks for a path its own buffer is too short
\* for, and never finds it.
Rejects(k) ==
  \/ k.fn = "get_buffer_len"
  \/ /\ k.fn = "set_buffer_len"
     /\ st[Head(k.script).chan].type = "vmalloc" => Head(k.script).val < 2

Begin(u, k) ==
  /\ call[u].fn = "none"
  /\ call' = [call EXCEPT ![u] = IF Rejects(k) THEN [k EXCEPT !.err = "EINVAL"] ELSE k]
  /\ fds' = IF k.fn = "close" THEN [fds EXCEPT ![u] = {}] ELSE fds
  /\ UNCHANGED <<sysVars, dataVars, fails>>

\* What fmctdc_flush writes back.
Restore(u) == call[u].res[1]

\* fmctdc_sysfs_get and fmctdc_sysfs_set.
NowSysfs(u) ==
  IF call[u].fn = "flush" /\ call[u].at = 4 THEN [Now(u) EXCEPT !.val = Restore(u)] ELSE Now(u)
OnSysfs(u) == InCall(u) /\ Now(u).attr \notin ReadSteps \union {"descriptors"}

SysfsCall(u) ==
  /\ OnSysfs(u) /\ Access(u, NowSysfs(u))
  /\ UNCHANGED <<dataVars, call, fds, fails>>

SysfsCallFails(u) ==
  /\ OnSysfs(u) /\ AccessFails(u, NowSysfs(u))
  /\ fails < MaxFails /\ fails' = fails + 1
  /\ UNCHANGED <<dataVars, call, fds>>

\* fmctdc_get_buffer_type finds two inputs with different types.
Inconsistent(u) ==
  /\ Acc(u).attr = "current_buffer" /\ ~Acc(u).set
  /\ Ch(u) > 0 /\ req[u].ret # Last(call[u].res)

\* An error ends the call, but fmctdc_open ignores those of post-samples.
SysfsReturn(u) ==
  /\ InCall(u) /\ Return(u)
  /\ IF req[u].err # "none" /\ Acc(u).attr # "post-samples" THEN Fail(u, req[u].err)
     ELSE IF Inconsistent(u) THEN Fail(u, "EINVAL")
     ELSE NextStep(u, req[u].ret)
  /\ UNCHANGED <<dataVars, fds, fails>>

\* The three descriptors of an input.  If one cannot be opened, those of the
\* inputs before are closed.
OpenChannel(u) ==
  /\ InCall(u) /\ Now(u).attr = "descriptors"
  /\ fds' = [fds EXCEPT ![u] = @ \union ({"ctrl", "data", "current"} \X {Now(u).chan})]
  /\ NextStep(u, 0)
  /\ UNCHANGED <<sysVars, dataVars, fails>>

\* The mutated form closes nothing.
ClosesMut(u, i) == {}
Closes(u, i) == {d \in fds[u] : d[2] < i}

OpenChannelFails(u) ==
  /\ InCall(u) /\ Now(u).attr = "descriptors" /\ fails < MaxFails
  /\ \E opened \in {{}, {"ctrl"}, {"ctrl", "data"}} :
       fds' = [fds EXCEPT ![u] = (@ \ Closes(u, Now(u).chan)) \union (opened \X {Now(u).chan})]
  /\ fails' = fails + 1
  /\ Fail(u, "EIO")
  /\ UNCHANGED <<sysVars, dataVars>>

-----------------------------------------------------------------------------
\* Reading: the loop of fmctdc_read over __fmctdc_read, which takes one
\* timestamp at a time, and what fmctdc_fread and fmctdc_flush do with its
\* result.
Reading(u) == InCall(u) /\ Now(u).attr \in ReadSteps
RdChan(u) == Now(u).chan
Buf(u) == call[u].buf
Max0(u) == IF Now(u).attr = "fread" THEN Now(u).val - Len(call[u].acc) ELSE Now(u).val

ReadOne(u) ==
  LET c == RdChan(u) IN
  /\ Reading(u) /\ Len(Buf(u)) < Max0(u) /\ zbuf[c] # <<>>
  /\ call' = [call EXCEPT ![u].buf = Append(@, Head(zbuf[c]))]
  /\ zbuf' = [zbuf EXCEPT ![c] = Tail(@)]
  /\ UNCHANGED <<sysVars, hw, made, got, gone, fds, fails>>

\* fmctdc_read returns what it has, ...
ReadReturns(u) ==
  LET c == RdChan(u)
      all == call[u].acc \o Buf(u)
  IN
  CASE Now(u).attr = "drain" ->
         /\ call' = [call EXCEPT ![u].buf = <<>>]
         /\ gone' = [gone EXCEPT ![c] = @ \union ToSet(Buf(u))]
         /\ UNCHANGED got
    [] Now(u).attr = "fread" /\ Len(all) < Now(u).val ->
         /\ call' = [call EXCEPT ![u].acc = all, ![u].buf = <<>>]
         /\ UNCHANGED <<got, gone>>
    [] OTHER ->
         /\ call' = [call EXCEPT ![u].acc = <<>>, ![u].buf = <<>>,
                                 ![u].at = @ + 1, ![u].res = Append(@, Len(all))]
         /\ got' = [got EXCEPT ![u][c] = @ \o all]
         /\ UNCHANGED gone

\* ... or -1: the flush goes on, fmctdc_fread forgets what it has read before.
ReadReturnsError(u, e) ==
  IF Now(u).attr = "drain" THEN NextStep(u, 0) /\ UNCHANGED gone
  ELSE /\ call' = [call EXCEPT ![u].err = e, ![u].acc = <<>>, ![u].buf = <<>>]
       /\ gone' = [gone EXCEPT ![RdChan(u)] = @ \union ToSet(call[u].acc)]

\* "error but before we got something"; the mutated form returns -1 at once.
KeepsMut(u) == FALSE
Keeps(u) == Buf(u) # <<>>

ReadEnds(u) ==
  /\ Reading(u)
  /\ \/ (Len(Buf(u)) = Max0(u) \/ (Keeps(u) /\ zbuf[RdChan(u)] = <<>>)) /\ ReadReturns(u)
     \/ /\ Len(Buf(u)) < Max0(u) /\ zbuf[RdChan(u)] = <<>> /\ ~Keeps(u)
        /\ Now(u).attr \in {"drain", "read_nonblock"}
        /\ ReadReturnsError(u, "EAGAIN") /\ UNCHANGED got
  /\ UNCHANGED <<sysVars, hw, zbuf, made, fds, fails>>

\* read() fails, or a signal ends select().
ReadFails(u) ==
  /\ Reading(u) /\ Len(Buf(u)) < Max0(u) /\ fails < MaxFails
  /\ fails' = fails + 1
  /\ IF Keeps(u) THEN ReadReturns(u) ELSE ReadReturnsError(u, "EIO") /\ UNCHANGED got
  /\ UNCHANGED <<sysVars, hw, zbuf, made, fds>>

-----------------------------------------------------------------------------
\* The acquisition, as FtBuf and FtFifo do it.
Pulse(c) ==
  /\ c \in ien.acq /\ ien.flag /\ made[c] < MaxTs[c]
  /\ made' = [made EXCEPT ![c] = @ + 1]
  /\ hw' = [hw EXCEPT ![c] = Append(@, made[c] + 1)]
  /\ UNCHANGED <<sysVars, zbuf, got, gone, call, fds, fails>>

\* A block goes to the ZIO buffer; a full buffer drops the new block or its
\* oldest ones.
Deliver(c) ==
  LET all == zbuf[c] \o hw[c]
      cap == st[c].kb * PerKb
      over == IF Len(all) > cap THEN Len(all) - cap ELSE 0
      keep == IF st[c].prefer_new = 1 THEN SubSeq(all, over + 1, Len(all))
              ELSE SubSeq(all, 1, Len(all) - over)
  IN  /\ hw[c] # <<>> /\ st[c].enabled = 1
      /\ zbuf' = [zbuf EXCEPT ![c] = keep]
      /\ gone' = [gone EXCEPT ![c] = @ \union (ToSet(all) \ ToSet(keep))]
      /\ hw' = [hw EXCEPT ![c] = <<>>]
      /\ UNCHANGED <<sysVars, made, got, call, fds, fails>>

\* An interrupt of a closed input, in DMA mode: no block can be allocated.
Discard(c) ==
  /\ Mode = "dma" /\ hw[c] # <<>> /\ st[c].enabled = 0
  /\ gone' = [gone EXCEPT ![c] = @ \union ToSet(hw[c])]
  /\ hw' = [hw EXCEPT ![c] = <<>>]
  /\ UNCHANGED <<sysVars, zbuf, made, got, call, fds, fails>>

\* Closing an input empties its FIFO; the DDR keeps its timestamps.  The
\* mutated form keeps those of the FIFO, too.
ClearsBusMut == FALSE
ClearsBus == Mode = "fifo"

AbortData(u) ==
  LET c == Ch(u) IN
  /\ Abort(u)
  /\ IF ClearsBus
     THEN /\ gone' = [gone EXCEPT ![c] = @ \union ToSet(hw[c])]
          /\ hw' = [hw EXCEPT ![c] = <<>>]
     ELSE UNCHANGED <<hw, gone>>
  /\ UNCHANGED <<zbuf, made, got, call, fds, fails>>

\* Another allocator: the blocks of the old buffer are freed.
NewBuffer(u) ==
  LET c == Ch(u) IN
  /\ Acc(u).attr = "current_buffer" /\ Store(u)
  /\ gone' = [gone EXCEPT ![c] = @ \union ToSet(zbuf[c])]
  /\ zbuf' = [zbuf EXCEPT ![c] = <<>>]
  /\ UNCHANGED <<hw, made, got, call, fds, fails>>

AttrOnly(u) ==
  /\ AttrStep(u) /\ (At(u, "store") => Acc(u).attr # "current_buffer")
  /\ UNCHANGED <<dataVars, call, fds, fails>>

CallStep(u) ==
  \/ SysfsCall(u) \/ SysfsReturn(u) \/ AttrOnly(u) \/ AbortData(u) \/ NewBuffer(u)
  \/ OpenChannel(u) \/ ReadOne(u) \/ ReadEnds(u)
CallFails(u) == SysfsCallFails(u) \/ OpenChannelFails(u) \/ ReadFails(u)

Acquisition == \E c \in Chan : Pulse(c) \/ Deliver(c) \/ Discard(c)
=============================================================================
