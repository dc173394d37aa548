------------------------------ MODULE MCTools ------------------------------
(***************************************************************************)
(* Small instances of FmcTdcTools: two processes, two inputs.               *)
(***************************************************************************)
EXTENDS FmcTdcTools

CONSTANTS p1, p2

Reader(prog, chans, samples) ==
  [prog |-> prog, chans |-> chans, samples |-> samples, show |-> 2, flush |-> FALSE,
   timeout |-> 0, circ |-> 0, len |-> 2, raw |-> 0, read |-> FALSE, nblock |-> FALSE,
   strict |-> FALSE]
Tool(calls) == [prog |-> "tool", calls |-> calls]
Idle == [prog |-> "idle"]
WaitWr == [prog |-> "wait-wr", calls |-> TimeWr]
Pair(x, y) == (p1 :> x) @@ (p2 :> y)

MCOptions ==
  [idle |-> Idle, wr |-> WaitWr, local |-> Tool(TimeLocal),
   early |-> Tool(OffsetSet(0, -3)), late |-> Tool(OffsetSet(0, 3)),
   far |-> Tool(OffsetSet(0, 9) \o OffsetGet),
   host |-> Tool(TimeHost \o ShowTemperature), time |-> Tool(TimeSet(1) \o TimeGet),
   term0 |-> Tool(TermSet(0, 1)), term1 |-> Tool(TermSet(1, 1) \o TermGet),
   on1 |-> Tool(<<SetTermination(1, 1)>>),
   buffers |-> Tool(<<SetBufferType(0), GetBufferType, SetBufferLen(0, 2), GetBufferLen(0)>>),
   buffer |-> Tool(<<SetBufferType(1), CoalescingSet(0, 5), TsModeSet(0, 1), Statistics(0)>>),
   flush |-> Tool(<<StatusSet(0, 1), Flush(0)>>), fread |-> Tool(<<ReadNonBlock(0, 1), Fread(0, 2)>>),
   tstamp |-> [Reader("tstamp", <<0, 1>>, 2) EXCEPT !.strict = TRUE],
   perftest |-> Reader("perftest", <<0>>, 2),
   example |-> [prog |-> "example"]]

\* With three timestamps a reader sees one after another that a full ZIO buffer
\* has dropped.
MCMaxTs == [c \in Chan |-> IF c = 0 THEN 2 ELSE 3]

\* Two programs that set the same thing or the same register, two that change
\* the buffers, a readout, a readout and a setting, two readouts, the example.
MCJobs ==
  [fifo |-> {Pair("early", "late"), Pair("local", "early"), Pair("local", "wr"),
             Pair("time", "wr"), Pair("host", "time"),
             Pair("term0", "term1"), Pair("far", "host"), Pair("buffers", "buffer"),
             Pair("tstamp", "idle"), Pair("flush", "on1"), Pair("perftest", "fread")},
   dma |-> {Pair("buffers", "buffer"), Pair("flush", "on1"), Pair("example", "wr")}]
=============================================================================
