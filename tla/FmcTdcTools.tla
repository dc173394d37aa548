---------------------------- MODULE FmcTdcTools ----------------------------
(***************************************************************************)
(* The programs of software/tools on one board.  A program is a sequence of *)
(* library calls (FmcTdcLib), with the readout loop of fmc-tdc-tstamp and   *)
(* fmc-tdc-perftest as one of its entries; what differs is what they do     *)
(* with errors, and with the timestamps.                                    *)
(***************************************************************************)
EXTENDS FmcTdcLib

CONSTANTS Options, \* programs with their options, by name
          Jobs,    \* by ft->mode: what the processes may run, a name for each
          Skip     \* sequence numbers fmc-tdc-perftest does not look at: 10

VARIABLES tool  \* per process: where the program is
vars == <<libVars, tool>>

\* A library call as it begins.  A program opens the board once and leaves the rest
\* to its end.
ScriptStep == [set : BOOLEAN, attr : AttrName \union ReadSteps \union {"descriptors"},
               chan : Chan, val : Int]
CallName ==
  {"none", "loop", "open", "close", "read_temperature", "set_termination", "get_termination",
   "status_get", "status_set", "set_buffer_type", "get_buffer_type", "get_buffer_mode",
   "set_buffer_mode", "get_buffer_len", "set_buffer_len", "set_time", "get_time",
   "set_host_time", "wr_mode", "check_wr_mode", "flush", "set_offset_user", "get_offset_user",
   "coalescing_timeout_set", "coalescing_timeout_get", "ts_mode_set", "ts_mode_get",
   "stats_get", "transfer_mode", "read", "fread"}
LibCall == [fn : CallName, script : Seq(ScriptStep), at : {1}, res : {<<>>}, buf : {<<>>},
            acc : {<<>>}, err : {"none"}]
OnBoard(k) == /\ k.fn \notin {"none", "open", "close", "loop"}
              /\ k.fn = "flush" => k = Flush(k.script[1].chan)

\* What the getopt loops of the readout tools let through; without -c
\* fmc-tdc-tstamp takes all inputs, fmc-tdc-perftest wants one and a number of
\* samples.  The other programs are the calls their options stand for.
TstampOptions(o) ==
  /\ o.chans \in Seq(Chan) /\ Len(o.chans) \in 1 .. NumChan
  /\ o.show \in Nat \ {0} /\ o.samples \in Int /\ o.timeout \in Int /\ o.len \in Int
  /\ o.circ \in {0, 1} /\ o.raw \in {0, 1}
  /\ {o.flush, o.read, o.nblock, o.strict} \subseteq BOOLEAN
PerftestOptions(o) ==
  /\ o.chans \in Seq(Chan) /\ Len(o.chans) = 1
  /\ o.samples \in Nat /\ o.show \in Nat \ {0} /\ ~o.nblock /\ ~o.strict
ToolOptions(o) == o.calls \in Seq(LibCall) /\ \A i \in DOMAIN o.calls : OnBoard(o.calls[i])

ASSUME SkipAssumption == Skip \in Nat

\* The sequence numbers of the board have 28 bits: they do not start again.
ASSUME SequenceAssumption == \A c \in Chan : MaxTs[c] < 2 ^ 28

ASSUME OptionsAssumption ==
  \A x \in DOMAIN Options : LET o == Options[x] IN
    /\ o.prog \in {"tstamp", "perftest", "example", "idle", "tool", "wait-wr"}
    /\ o.prog = "tstamp" => TstampOptions(o)
    /\ o.prog = "perftest" => PerftestOptions(o)
    /\ o.prog \in {"tool", "wait-wr"} => ToolOptions(o)

ASSUME JobsAssumption == \A m \in Modes : Jobs[m] \subseteq [User -> DOMAIN Options]

Loop == Call("loop", <<>>)

\* A loop over some inputs that makes as many calls for each of them.
Each(chans, calls) ==
  LET n == Len(calls[chans[1]])
  IN  [i \in 1 .. n * Len(chans) |-> calls[chans[(i - 1) \div n + 1]][((i - 1) % n) + 1]]
When(b, s) == IF b THEN s ELSE <<>>
OpenBoard(calls) == <<Open>> \o calls

\* The end of fmc-tdc-tstamp; the mutated form leaves the inputs on.
DisableAllMut == <<>>
DisableAll == OnAll(LAMBDA c : StatusSet(c, 0))

\* fmc-tdc-tstamp -c chans -f -o timeout -m mode -l len -r -a.
Tstamp(o) ==
  OpenBoard(
    Each(o.chans, [c \in Chan |-> <<TsModeSet(c, o.raw)>>])
    \o Each(o.chans, [c \in Chan |->
         When(o.flush, <<Flush(c)>>) \o When(o.timeout > 0, <<CoalescingSet(c, o.timeout)>>)
         \o <<SetBufferMode(c, o.circ), SetBufferLen(c, o.len)>>
         \o When(~o.read, <<StatusSet(c, 1)>>)])
    \o <<Loop>> \o When(~o.read, DisableAll) \o <<Close>>)

Perftest(o) ==
  LET c == Head(o.chans)
  IN  OpenBoard(<<Flush(c), StatusSet(c, 1), Loop, StatusSet(c, 0), Close>>)

Example ==
  OpenBoard(
  <<Flush(0), SetTermination(0, 0), GetTermination(0),
    CoalescingSet(0, 50), CoalescingGet(0), WrMode(0), CheckWrMode, SetTime(0), GetTime,
    SetOffset(0, 0), GetOffset(0), SetBufferType(1), GetBufferType,
    SetBufferLen(0, 2 * PerKb), GetBufferLen(0), SetBufferMode(0, 0), GetBufferMode(0),
    StatusSet(0, 1), ReadNonBlock(0, 10), Temperature, Statistics(0), StatusSet(0, 0), Close>>)

\* What the assertions of config() expect to read back.
Asserted == [get_termination |-> 0, coalescing_timeout_get |-> 50, check_wr_mode |-> 0,
             get_offset_user |-> 0, get_buffer_type |-> 1, get_buffer_len |-> 2,
             get_buffer_mode |-> 0]

\* The small tools, after open_board; cleanup() closes the board at exit().
TermSet(c, on) == <<SetTermination(c, on), GetTermination(c)>>
TermGet == OnAll(LAMBDA c : GetTermination(c))
OffsetSet(c, ps) == <<SetOffset(c, ps), GetOffset(c)>>
OffsetGet == OnAll(LAMBDA c : GetOffset(c))
ShowTemperature == <<Temperature>>
TimeGet == <<GetTime, CheckWrMode>>
TimeSet(s) == <<SetTime(s)>>
TimeHost == <<SetHost>>
TimeWr == <<WrMode(1), CheckWrMode>>
TimeLocal == <<WrMode(0)>>

ProgramOf(o) ==
  CASE o.prog = "tstamp" -> Tstamp(o)
    [] o.prog = "perftest" -> Perftest(o)
    [] o.prog = "example" -> Example
    [] o.prog = "idle" -> <<>>
    [] OTHER -> OpenBoard(o.calls)
Programs == [x \in DOMAIN Options |-> ProgramOf(Options[x])]
Program(u) == Programs[tool[u].job]
Job(u) == Options[tool[u].job]

\* Errors that end a program: those of fmctdc_open, all of example.c, and
\* those of the small tools except for what they only show; the readout tools
\* print the others.
Printed == {"get_termination", "get_offset_user", "read_temperature"}
Fatal(u, k) ==
  CASE k.fn = "open" -> TRUE
    [] Job(u).prog = "tool" -> k.fn \notin Printed
    [] OTHER -> Job(u).prog \notin {"tstamp", "perftest"}

Aborts(u, k) ==
  /\ Job(u).prog = "example" /\ k.err = "none" /\ k.fn \in DOMAIN Asserted
  /\ Last(k.res) # Asserted[k.fn]

\* Calls that are made again: "fmc-tdc-time wr" waits for the lock, example.c
\* for a first timestamp.
Again(u, k) ==
  \/ k.fn = "check_wr_mode" /\ k.err # "none" /\ Job(u).prog = "wait-wr"
  \/ k.fn = "read" /\ k.err = "EAGAIN" /\ Job(u).prog = "example"

Init ==
  /\ LibInit
  /\ \E j \in Jobs[Mode] :
       tool = [u \in User |-> [job |-> j[u], pc |-> 1, stop |-> FALSE, ready |-> {}, n |-> 0,
                               prev |-> [c \in Chan |-> 0],
                               missed |-> [c \in Chan |-> {}]]]

-----------------------------------------------------------------------------
Over(u) == tool[u].pc > Len(Program(u))
Current(u) == Program(u)[tool[u].pc]
InLoop(u) == ~Over(u) /\ Current(u).fn = "loop"
Set(u, r) == tool' = [tool EXCEPT ![u] = r]

Starts(u) ==
  /\ ~Over(u) /\ ~InLoop(u)
  /\ Begin(u, Current(u))
  /\ UNCHANGED tool

\* exit() closes what is still open.
Exits(u) ==
  /\ Set(u, [tool[u] EXCEPT !.pc = Len(Program(u)) + 1])
  /\ fds' = [fds EXCEPT ![u] = {}]

Returns(u) ==
  LET k == call[u] IN
  /\ ~Over(u) /\ ~InLoop(u) /\ Ended(u)
  /\ call' = [call EXCEPT ![u] = NoCall]
  /\ IF Again(u, k) THEN UNCHANGED <<tool, fds>>
     ELSE IF (k.err # "none" /\ Fatal(u, k)) \/ Aborts(u, k) \/ tool[u].pc = Len(Program(u))
          THEN Exits(u)
     ELSE Set(u, [tool[u] EXCEPT !.pc = @ + 1]) /\ UNCHANGED fds
  /\ UNCHANGED <<sysVars, dataVars, fails>>

\* SIGINT: it ends the select() of fmctdc_read, if the program is already
\* in it.
Waiting(u) ==
  Reading(u) /\ Now(u).attr = "read" /\ Buf(u) = <<>> /\ zbuf[RdChan(u)] = <<>>

Signal(u) ==
  /\ Job(u).prog \in {"tstamp", "perftest"} /\ ~Over(u) /\ ~tool[u].stop
  /\ Set(u, [tool[u] EXCEPT !.stop = TRUE])
  /\ \/ UNCHANGED <<call, gone>>
     \/ Waiting(u) /\ ReadReturnsError(u, "EIO")
  /\ UNCHANGED <<sysVars, hw, zbuf, made, got, fds, fails>>

\* while ((n < n_samples || n_samples <= 0) && !stop), while (nsamples > 0).
More(u) == Job(u).samples <= 0 \/ tool[u].n < Job(u).samples

LoopEnds(u) ==
  /\ InLoop(u) /\ call[u].fn = "none" /\ tool[u].ready = {}
  /\ tool[u].stop \/ ~More(u)
  /\ Set(u, [tool[u] EXCEPT !.pc = @ + 1])
  /\ UNCHANGED libVars

\* POLLIN.
PollIn(c) == zbuf[c] # <<>>

\* poll() finds inputs with something in their ZIO buffers.  With -n it is not
\* called, and revents stays empty.
Poll(u) ==
  LET ready == {c \in ToSet(Job(u).chans) : PollIn(c)} IN
  /\ InLoop(u) /\ call[u].fn = "none" /\ tool[u].ready = {}
  /\ ~tool[u].stop /\ More(u)
  /\ ~Job(u).nblock /\ ready # {}
  /\ Set(u, [tool[u] EXCEPT !.ready = ready])
  /\ UNCHANGED libVars

\* n_show, or to_read: fmc-tdc-perftest never reads more than it was asked for.
ToRead(u) ==
  IF Job(u).prog = "tstamp" THEN Job(u).show
  ELSE Min({Job(u).show, Job(u).samples - tool[u].n})

ReadReady(u) ==
  /\ InLoop(u) /\ call[u].fn = "none"
  /\ \E c \in tool[u].ready :
       /\ \A d \in tool[u].ready : c <= d
       /\ Begin(u, IF Job(u).nblock THEN ReadNonBlock(c, ToRead(u)) ELSE Read(c, ToRead(u)))
       /\ Set(u, [tool[u] EXCEPT !.ready = @ \ {c}])

\* The numbers a program finds missing between the one it saw last on an input
\* (0 stands for none) and those of a batch; 0 if the order is wrong.
\* tstamp_testing_mode_1 reports the first gap, process_timestamps all gaps, but
\* not in a batch whose first number is too low; neither expects the numbers to
\* start again (SequenceAssumption).  The mutated form expects the same number
\* again.
MissingMut(p, s) ==
  LET seen == <<p>> \o s
      between(i) == IF seen[i] = 0 THEN {}
                    ELSE IF seen[i] < seen[i + 1] THEN seen[i] .. seen[i + 1] - 1 ELSE {0}
  IN  UNION {between(i) : i \in 1 .. Len(s)}
Missing(p, s) ==
  LET seen == <<p>> \o s
      between(i) == IF seen[i] = 0 THEN {}
                    ELSE IF seen[i] < seen[i + 1] THEN seen[i] + 1 .. seen[i + 1] - 1 ELSE {0}
  IN  UNION {between(i) : i \in 1 .. Len(s)}

\* What fmctdc_read has returned is the end of got; a return of -1 is a
\* reason to leave for fmc-tdc-tstamp, and one sample more for fmc-tdc-perftest.
LoopReturns(u) ==
  LET k == call[u]
      t == tool[u]
      c == Head(k.script).chan
      n == IF k.err # "none" THEN -1 ELSE k.res[1]
      s == SubSeq(got[u][c], Len(got[u][c]) - n + 1, Len(got[u][c]))
      skip == Job(u).prog = "perftest" /\ s[1] < Skip
      missing == Missing(t.prev[c], s)
  IN
  /\ InLoop(u) /\ Ended(u)
  /\ call' = [call EXCEPT ![u] = NoCall]
  /\ IF n = -1 /\ Job(u).prog = "tstamp" THEN Set(u, [t EXCEPT !.pc = @ + 1, !.ready = {}])
     ELSE IF n <= 0 \/ skip THEN Set(u, [t EXCEPT !.n = @ + n])
     ELSE Set(u, [t EXCEPT !.n = @ + n, !.prev[c] = Last(s),
                           !.missed[c] = @ \union missing,
                           !.stop = @ \/ (Job(u).strict /\ missing # {})])
  /\ UNCHANGED <<sysVars, dataVars, fds, fails>>

ToolStep(u) ==
  \/ Starts(u) \/ Returns(u) \/ LoopEnds(u) \/ Poll(u) \/ ReadReady(u) \/ LoopReturns(u)
  \/ CallStep(u) /\ UNCHANGED tool

Next ==
  \/ \E u \in User : ToolStep(u) \/ Signal(u) \/ (CallFails(u) /\ UNCHANGED tool)
  \/ Acquisition /\ UNCHANGED tool

\* A process that can go on does, and the kernel's spin locks are fair.
Fairness == \A u \in User : WF_vars(ToolStep(u))
Spec == Init /\ [][Next]_vars
FairSpec == Spec /\ Fairness

-----------------------------------------------------------------------------
\* Timestamps of an input that a library call has taken and not yet returned.
Inflight(u, c) == IF Reading(u) /\ RdChan(u) = c THEN call[u].acc \o Buf(u) ELSE <<>>

\* Where the timestamps of an input can be: in the hardware, in the ZIO buffer,
\* in a library call, or with its caller.
Places == ({Nobody} \X {"hw", "zbuf"}) \union (User \X {"call", "caller"})
Stored(p, c) ==
  CASE p[2] = "hw" -> hw[c]
    [] p[2] = "zbuf" -> zbuf[c]
    [] p[2] = "call" -> Inflight(p[1], c)
    [] p[2] = "caller" -> got[p[1]][c]

\* The inputs a program reads, enables or disables.
Uses == [o \in DOMAIN Options |->
           {x.chan : x \in {x \in UNION {ToSet(k.script) : k \in ToSet(Programs[o])} :
                               x.attr \in ReadSteps \union {"enable"}}}]
Shares(u, c) == c \in Uses[tool[u].job]
Alone(u, c) == \A w \in User \ {u} : ~Shares(w, c)

\* The registers, the descriptors and the places of the programs have their
\* types: the offsets are normalized timestamps, whatever offset is set; a
\* process is in the driver only during a call, and has no descriptor at the end.
TypeOK ==
  /\ ien \in [acq : SUBSET Chan, term : SUBSET Chan, flag : BOOLEAN]
  /\ \A c \in Chan : tsf[c].off \in Time /\ tsf[c].raw \in {0, 1}
  /\ Mode \in Modes /\ wr \in [ctrl : {0, 1}, mode : {0, 1}]
  /\ tai \in [start : 0 .. Era - 1, current : 0 .. Era - 1]
  /\ lock \in User \union {Nobody}
  /\ \A u \in User :
       /\ fds[u] \subseteq {"ctrl", "data", "current"} \X Chan
       /\ tool[u].pc \in 1 .. Len(Program(u)) + 1
       /\ tool[u].ready \subseteq Chan
       /\ call[u].fn = "none" => req[u] = IdleReq
       /\ Over(u) => call[u] = NoCall /\ fds[u] = {}

\* Every timestamp the gateware took is in exactly one place: the hardware, the
\* ZIO buffer, a library call, a caller or the discarded ones; no error path of
\* fmctdc_read, fmctdc_fread or fmctdc_flush loses or repeats one silently.
Accounted ==
  \A c \in Chan : LET s == [p \in Places |-> Stored(p, c)] IN
    /\ 1 .. made[c] = gone[c] \union UNION {ToSet(s[p]) : p \in Places}
    /\ \A p, q \in Places : \A i \in DOMAIN s[p], j \in DOMAIN s[q] :
         s[p][i] = s[q][j] => p = q /\ i = j
    /\ \A p \in Places : ToSet(s[p]) \intersect gone[c] = {}

\* A program reports numbers missing only if they were discarded or went to
\* another program, and never a wrong order: not because it compares batches
\* that were read one after the other (process_timestamps,
\* tstamp_testing_mode_1).
MissesAreLosses ==
  \A u \in User : \A c \in Chan :
    tool[u].missed[c] \subseteq
      gone[c] \union UNION {ToSet(got[w][c] \o Inflight(w, c)) : w \in User \ {u}}

\* Once fmctdc_flush has drained an input that nobody else uses, nothing of the
\* time before is left that could come out after the input is enabled again:
\* "It removes all samples from the channel buffer".  Only in FIFO mode, only
\* if no read has failed (the loop ends at the first error), and only if no
\* other write of INPUT_ENABLE has enabled the input behind its back.
FlushForgets ==
  \A u \in User :
    call[u].fn = "flush" /\ InCall(u) /\ call[u].at = 4 /\ Mode = "fifo" /\ fails = 0 /\ ~clash =>
      LET c == call[u].script[3].chan IN
      Alone(u, c) /\ req[u].at \in {"idle", "enable"} => hw[c] = <<>> /\ zbuf[c] = <<>>

\* When a readout program ends without an error, its inputs that nobody else
\* uses are off in INPUT_ENABLE: no flush, retry or signal leaves one enabled.
LeavesInputsOff ==
  \A u \in User : \A c \in Chan :
    Job(u).prog \in {"tstamp", "perftest"} /\ Over(u) /\ fails = 0 =>
      (Shares(u, c) /\ Alone(u, c) /\ ~clash => c \notin ien.acq)

\* A fmctdc_open that fails leaves at most two descriptors open, of one input.
LeakIsOneChannel ==
  \A u \in User : call[u].fn = "open" /\ call[u].err # "none" =>
    /\ Cardinality(fds[u]) <= 2
    /\ \A d, e \in fds[u] : d[2] = e[2]

\* A readout program that is told to stop ends, if nobody else takes the
\* timestamps that poll() has promised it; so does a program that only sets and
\* gets: ft->lock is never kept, no access waits for a second lock, and the loop
\* of fmctdc_flush comes to an end.
Settles == {o \in DOMAIN Options : Options[o].prog = "tool"
                                   /\ \A k \in ToSet(Programs[o]) : k.fn # "fread"}
MustEnd(u) ==
  \/ tool[u].stop /\ \A c \in Chan : Shares(u, c) => Alone(u, c)
  \/ tool[u].job \in Settles
ProgramsEnd == \A u \in User : MustEnd(u) ~> Over(u)
=============================================================================
