------------------------- MODULE FmcTdcToolsProofs -------------------------
(***************************************************************************)
(* Proofs about the programs of software/tools, for any options, any       *)
(* number of processes, inputs and timestamps.                             *)
(***************************************************************************)
EXTENDS FmcTdcTools, FtSysfsProofs, SequenceTheorems, FiniteSetTheorems

-----------------------------------------------------------------------------
(* The calls programs are made of *)

\* A call of a program that has its board, and one of a readout program.
InnerCall == {k \in LibCall : /\ k.fn \notin {"none", "open"}
                              /\ k.fn = "flush" => k = Flush(k.script[1].chan)
                              /\ k.fn = "loop" => k = Loop}
ToolCall == {k \in InnerCall : k.fn # "loop"}

\* The readout programs read in their loop, or to drain a buffer.
SettingCall ==
  {k \in ToolCall : \A i \in 1 .. Len(k.script) : k.script[i].attr \notin ReadSteps \ {"drain"}}
ReadoutCall == SettingCall \union {Loop}

\* An access and a step of a script.
LEMMA StepTypes ==
  ASSUME NEW c \in Chan, NEW v \in Int,
         NEW a \in AttrName \union ReadSteps \union {"descriptors"}
  PROVE  SetOf(a, c, v) \in ScriptStep /\ GetOf(a, c) \in ScriptStep
         /\ Step(a, c, v) \in ScriptStep
  BY DEF SetOf, GetOf, Step, ScriptStep

\* What Call puts together.
LEMMA CallFields ==
  ASSUME NEW fn, NEW script
  PROVE  /\ Call(fn, script).fn = fn /\ Call(fn, script).script = script
         /\ Call(fn, script).at = 1 /\ Call(fn, script).err = "none"
         /\ Call(fn, script).res = <<>> /\ Call(fn, script).buf = <<>>
         /\ Call(fn, script).acc = <<>>
  BY DEF Call

\* A call with a script of steps is a call of the library.
LEMMA CallTypes ==
  ASSUME NEW fn \in CallName, NEW script \in Seq(ScriptStep)
  PROVE  Call(fn, script) \in LibCall
  BY DEF Call, LibCall

\* A call of one access or step.
LEMMA OneAccess ==
  ASSUME NEW fn \in CallName, fn \notin {"none", "open", "flush", "loop"},
         NEW s \in ScriptStep
  PROVE  Call(fn, <<s>>) \in ToolCall
<1>1. <<s>> \in Seq(ScriptStep)
  OBVIOUS
<1>2. Call(fn, <<s>>) \in LibCall
  BY <1>1, CallTypes
<1>3. Call(fn, <<s>>).fn = fn
  BY CallFields
<1> HIDE DEF LibCall
<1> QED BY <1>2, <1>3 DEF ToolCall, InnerCall

\* A call of an access per input.
LEMMA AllAccesses ==
  ASSUME NEW fn \in CallName, fn \notin {"none", "open", "flush", "loop"},
         NEW s \in [1 .. NumChan -> ScriptStep]
  PROVE  Call(fn, s) \in ToolCall
<1>1. s \in Seq(ScriptStep)
  BY SysfsConstants
<1>2. Call(fn, s) \in LibCall
  BY <1>1, CallTypes
<1>3. Call(fn, s).fn = fn
  BY CallFields
<1> HIDE DEF LibCall
<1> QED BY <1>2, <1>3 DEF ToolCall, InnerCall

\* The calls on one input.
LEMMA ChannelCalls ==
  ASSUME NEW c \in Chan, NEW v \in Int
  PROVE  /\ SetTermination(c, v) \in ToolCall /\ GetTermination(c) \in ToolCall
         /\ StatusSet(c, v) \in ToolCall /\ CoalescingSet(c, v) \in ToolCall
         /\ CoalescingGet(c) \in ToolCall /\ SetOffset(c, v) \in ToolCall
         /\ GetOffset(c) \in ToolCall /\ GetBufferLen(c) \in ToolCall
         /\ SetBufferMode(c, v) \in ToolCall /\ GetBufferMode(c) \in ToolCall
         /\ TsModeSet(c, v) \in ToolCall
         /\ Read(c, v) \in ToolCall /\ ReadNonBlock(c, v) \in ToolCall
<1>1. \A a \in AttrName \union ReadSteps : SetOf(a, c, v) \in ScriptStep
                     /\ GetOf(a, c) \in ScriptStep /\ Step(a, c, v) \in ScriptStep
  BY StepTypes
<1> HIDE DEF ScriptStep, ToolCall
<1>2. SetTermination(c, v) \in ToolCall /\ GetTermination(c) \in ToolCall
  BY <1>1, OneAccess DEF CallName, SetTermination, GetTermination, AttrName
<1>3. StatusSet(c, v) \in ToolCall
  BY <1>1, OneAccess DEF CallName, StatusSet, AttrName
<1>4. CoalescingSet(c, v) \in ToolCall /\ CoalescingGet(c) \in ToolCall
  BY <1>1, OneAccess DEF CallName, CoalescingSet, CoalescingGet, AttrName
<1>5. SetOffset(c, v) \in ToolCall /\ GetOffset(c) \in ToolCall
  BY <1>1, OneAccess DEF CallName, SetOffset, GetOffset, AttrName
<1>6. GetBufferLen(c) \in ToolCall
  BY <1>1, OneAccess DEF CallName, GetBufferLen, AttrName
<1>7. SetBufferMode(c, v) \in ToolCall /\ GetBufferMode(c) \in ToolCall
  BY <1>1, OneAccess DEF CallName, SetBufferMode, GetBufferMode, AttrName
<1>8. TsModeSet(c, v) \in ToolCall
  BY <1>1, OneAccess DEF CallName, TsModeSet, AttrName
<1>9. Read(c, v) \in ToolCall /\ ReadNonBlock(c, v) \in ToolCall
  BY <1>1, OneAccess DEF CallName, Read, ReadNonBlock, ReadSteps
<1> QED BY <1>2, <1>3, <1>4, <1>5, <1>6, <1>7, <1>8, <1>9

\* A length is rounded to KiB.
LEMMA LengthCall ==
  ASSUME NEW c \in Chan, NEW v \in Int PROVE SetBufferLen(c, v) \in ToolCall
<1>1. v \div PerKb + 1 \in Int
  BY LibConstants
<1>2. SetOf("max-buffer-kb", c, v \div PerKb + 1) \in ScriptStep
  BY <1>1, StepTypes DEF AttrName
<1> QED BY <1>2, OneAccess DEF CallName, SetBufferLen

\* fmctdc_flush.
LEMMA FlushCall ==
  ASSUME NEW c \in Chan
  PROVE  /\ Flush(c) \in ToolCall /\ Flush(c).fn = "flush"
         /\ Flush(c).script = <<GetOf("enable", c), SetOf("enable", c, 0),
                                Step("drain", c, 100), SetOf("enable", c, 0)>>
<1> DEFINE s == <<GetOf("enable", c), SetOf("enable", c, 0),
                  Step("drain", c, 100), SetOf("enable", c, 0)>>
<1>1. GetOf("enable", c) \in ScriptStep /\ SetOf("enable", c, 0) \in ScriptStep
  BY StepTypes DEF AttrName
<1>2. Step("drain", c, 100) \in ScriptStep
  BY StepTypes DEF ReadSteps
<1>3. s \in Seq(ScriptStep)
  BY <1>1, <1>2
<1>4. Flush(c) = Call("flush", s)
  BY DEF Flush
<1>5. s[1].chan = c
  BY DEF GetOf
<1> HIDE DEF s
<1>6. Flush(c) \in LibCall /\ Flush(c).fn = "flush" /\ Flush(c).script = s
  BY <1>3, <1>4, CallTypes, CallFields DEF CallName
<1>7. Flush(c) = Flush(Flush(c).script[1].chan)
  BY <1>5, <1>6
<1> HIDE DEF LibCall
<1>8. Flush(c) \in ToolCall
  BY <1>6, <1>7 DEF ToolCall, InnerCall
<1> QED BY <1>6, <1>8 DEF s

\* The calls on the board, and those on all inputs.
LEMMA BoardCalls ==
  /\ Temperature \in ToolCall /\ GetTime \in ToolCall /\ SetTime(0) \in ToolCall
  /\ WrMode(0) \in ToolCall /\ CheckWrMode \in ToolCall
  /\ SetBufferType(1) \in ToolCall /\ GetBufferType \in ToolCall
  /\ Statistics(0) \in ToolCall
<1>0. \A a \in AttrName, v \in Int : SetOf(a, 0, v) \in ScriptStep /\ GetOf(a, 0) \in ScriptStep
  BY StepTypes, ChanZero
<1>1. Temperature \in ToolCall
  BY <1>0, OneAccess DEF CallName, Temperature, AttrName
<1>2. CheckWrMode \in ToolCall
  BY <1>0, OneAccess DEF CallName, CheckWrMode, AttrName, WrQuery
<1>3. WrMode(0) \in ToolCall
  BY <1>0, OneAccess DEF CallName, WrMode, AttrName, WrDisable
<1>4. ASSUME NEW fn \in CallName, fn \notin {"none", "open", "flush", "loop"},
             NEW s \in ScriptStep, NEW t \in ScriptStep
      PROVE  Call(fn, <<s, t>>) \in ToolCall
  <2>1. <<s, t>> \in Seq(ScriptStep)
    OBVIOUS
  <2>2. Call(fn, <<s, t>>) \in LibCall
    BY <2>1, <1>4, CallTypes
  <2>3. Call(fn, <<s, t>>).fn = fn
    BY CallFields
  <2> HIDE DEF LibCall
  <2> QED BY <1>4, <2>2, <2>3 DEF ToolCall, InnerCall
<1>5. GetTime \in ToolCall
  BY <1>0, <1>4 DEF CallName, GetTime, AttrName
<1>6. SetTime(0) \in ToolCall
  <2>1. 0 % Era \in Int
    BY TsConstants
  <2> QED BY <1>0, <1>4, <2>1 DEF CallName, SetTime, AttrName
<1>7. Statistics(0) \in ToolCall
  BY <1>0, <1>4 DEF CallName, Statistics, AttrName
<1>8. \A i \in 1 .. NumChan : i - 1 \in Chan
  BY SysfsConstants DEF Chan
<1>9. SetBufferType(1) \in ToolCall
  <2>1. \A i \in 1 .. NumChan : SetOf("current_buffer", i - 1, 1) \in ScriptStep
    BY <1>8, StepTypes DEF AttrName
  <2>2. [i \in 1 .. NumChan |-> SetOf("current_buffer", i - 1, 1)] \in [1 .. NumChan -> ScriptStep]
    BY <2>1
  <2> QED BY <2>2, AllAccesses DEF CallName, SetBufferType, OnAll
<1>10. GetBufferType \in ToolCall
  <2>1. \A i \in 1 .. NumChan : GetOf("current_buffer", i - 1) \in ScriptStep
    BY <1>8, StepTypes DEF AttrName
  <2>2. [i \in 1 .. NumChan |-> GetOf("current_buffer", i - 1)] \in [1 .. NumChan -> ScriptStep]
    BY <2>1
  <2> QED BY <2>2, AllAccesses DEF CallName, GetBufferType, OnAll
<1> QED BY <1>1, <1>2, <1>3, <1>5, <1>6, <1>7, <1>9, <1>10

-----------------------------------------------------------------------------
(* The programs *)

\* Quotient and remainder of a position in a loop.
LEMMA Division ==
  ASSUME NEW n \in Nat \ {0}, NEW m \in Nat, NEW i \in 1 .. n * m
  PROVE  (i - 1) \div n + 1 \in 1 .. m /\ ((i - 1) % n) + 1 \in 1 .. n
<1> DEFINE q == (i - 1) \div n
           r == (i - 1) % n
<1>0. i \in Int /\ i - 1 >= 0 /\ i - 1 < n * m
  <2>1. n * m \in Int
    OBVIOUS
  <2> QED BY <2>1
<1>1. q \in Int /\ r \in 0 .. n - 1 /\ i - 1 = n * q + r
  BY <1>0, Z3
<1> HIDE DEF q, r
<1>2. q >= 0
  <2> SUFFICES ASSUME q <= -1 PROVE FALSE
    BY <1>1
  <2>1. n * q <= n * (-1)
    BY <1>1
  <2> QED BY <1>0, <1>1, <2>1
<1>3. q < m
  <2> SUFFICES ASSUME q >= m PROVE FALSE
    BY <1>1
  <2>1. n * q >= n * m
    BY <1>1
  <2> QED BY <1>0, <1>1, <2>1
<1> QED BY <1>1, <1>2, <1>3 DEF q, r

\* A loop over inputs makes the calls of its body.
LEMMA EachType ==
  ASSUME NEW S, NEW chans \in Seq(Chan), Len(chans) >= 1, NEW n \in Nat \ {0},
         NEW calls \in [Chan -> Seq(S)], \A c \in Chan : Len(calls[c]) = n
  PROVE  Each(chans, calls) \in Seq(S)
<1>1. chans[1] \in Chan /\ Len(calls[chans[1]]) = n
  OBVIOUS
<1> DEFINE e == [i \in 1 .. n * Len(chans) |->
                   calls[chans[(i - 1) \div n + 1]][((i - 1) % n) + 1]]
<1>2. Each(chans, calls) = e
  BY <1>1 DEF Each
<1>3. n * Len(chans) \in Nat
  OBVIOUS
<1>4. ASSUME NEW i \in 1 .. n * Len(chans)
      PROVE  calls[chans[(i - 1) \div n + 1]][((i - 1) % n) + 1] \in S
  <2>1. PICK q : q = (i - 1) \div n + 1
    OBVIOUS
  <2>2. PICK r : r = ((i - 1) % n) + 1
    OBVIOUS
  <2>3. q \in 1 .. Len(chans) /\ r \in 1 .. n
    BY <2>1, <2>2, Division
  <2>4. chans[q] \in Chan
    BY <2>3
  <2>5. calls[chans[q]] \in Seq(S) /\ Len(calls[chans[q]]) = n
    BY <2>4
  <2>6. calls[chans[q]][r] \in S
    BY <2>3, <2>5
  <2> QED BY <2>1, <2>2, <2>6
<1>5. PICK m \in Nat : m = n * Len(chans)
  BY <1>3
<1>6. e \in [1 .. m -> S]
  BY <1>4, <1>5
<1> HIDE DEF e
<1> QED BY <1>2, <1>5, <1>6

\* The loop and the end of the board are calls.
LEMMA LoopAndClose ==
  Loop \in InnerCall /\ Loop.fn = "loop" /\ Close \in ToolCall /\ Close.fn = "close"
<1>1. <<>> \in Seq(ScriptStep)
  OBVIOUS
<1>2. Loop \in LibCall /\ Loop.fn = "loop" /\ Close \in LibCall /\ Close.fn = "close"
  BY <1>1, CallTypes, CallFields DEF Loop, Close, CallName
<1> HIDE DEF LibCall
<1> QED BY <1>2 DEF InnerCall, ToolCall

\* Calls of programs without a readout loop, and those of readout programs, are
\* calls of programs.
LEMMA ToolInner ==
  Seq(ToolCall) \subseteq Seq(InnerCall) /\ Seq(SettingCall) \subseteq Seq(ReadoutCall)
  /\ Seq(ReadoutCall) \subseteq Seq(InnerCall)
<1>1. ToolCall \subseteq InnerCall
  BY DEF ToolCall
<1>2. SettingCall \subseteq ToolCall
  BY DEF SettingCall
<1>3. SettingCall \subseteq ReadoutCall
  BY DEF ReadoutCall
<1> HIDE DEF ToolCall, InnerCall, SettingCall
<1>4. ReadoutCall \subseteq InnerCall
  BY <1>1, <1>2, LoopAndClose DEF ReadoutCall
<1> HIDE DEF ReadoutCall
<1> QED BY <1>1, <1>3, <1>4

\* The calls a readout program makes outside of its loop.
LEMMA SettingCalls ==
  ASSUME NEW c \in Chan, NEW v \in Int
  PROVE  /\ StatusSet(c, v) \in SettingCall /\ CoalescingSet(c, v) \in SettingCall
         /\ SetBufferMode(c, v) \in SettingCall /\ TsModeSet(c, v) \in SettingCall
         /\ SetBufferLen(c, v) \in SettingCall /\ Flush(c) \in SettingCall
         /\ Close \in SettingCall
<1>1. ASSUME NEW fn, NEW a \in AttrName, NEW w, Call(fn, <<SetOf(a, c, w)>>) \in ToolCall,
             a \notin ReadSteps
      PROVE  Call(fn, <<SetOf(a, c, w)>>) \in SettingCall
  <2> DEFINE k == Call(fn, <<SetOf(a, c, w)>>)
  <2> PICK x : x = SetOf(a, c, w)
    OBVIOUS
  <2>3. k.script = <<SetOf(a, c, w)>>
    BY CallFields
  <2>4. SetOf(a, c, w).attr = a
    BY DEF SetOf
  <2>1. k.script = <<x>> /\ x.attr = a
    BY <2>3, <2>4
  <2>2. Len(k.script) = 1 /\ k.script[1].attr = a
    <3> HIDE DEF k
    <3> QED BY <2>1
  <2> HIDE DEF k, ToolCall
  <2> QED BY <1>1, <2>2 DEF SettingCall, k
<1>2. StatusSet(c, v) \in SettingCall
  BY <1>1, ChannelCalls DEF StatusSet, AttrName, ReadSteps
<1>3. CoalescingSet(c, v) \in SettingCall
  BY <1>1, ChannelCalls DEF CoalescingSet, AttrName, ReadSteps
<1>4. SetBufferMode(c, v) \in SettingCall
  BY <1>1, ChannelCalls DEF SetBufferMode, AttrName, ReadSteps
<1>5. TsModeSet(c, v) \in SettingCall
  BY <1>1, ChannelCalls DEF TsModeSet, AttrName, ReadSteps
<1>6. SetBufferLen(c, v) \in SettingCall
  BY <1>1, LengthCall DEF SetBufferLen, AttrName, ReadSteps
<1>7. Flush(c) \in SettingCall
  <2> DEFINE k == Flush(c)
  <2>1. k \in ToolCall /\ k.script = <<GetOf("enable", c), SetOf("enable", c, 0),
                                       Step("drain", c, 100), SetOf("enable", c, 0)>>
    BY FlushCall
  <2>2. Len(k.script) = 4 /\ \A i \in 1 .. 4 : k.script[i].attr \in {"enable", "drain"}
    BY <2>1 DEF GetOf, SetOf, Step
  <2>3. {"enable", "drain"} \intersect (ReadSteps \ {"drain"}) = {}
    BY DEF ReadSteps
  <2> HIDE DEF k, ToolCall
  <2> QED BY <2>1, <2>2, <2>3 DEF SettingCall, k
<1>8. Close \in SettingCall
  <2>1. Close \in ToolCall /\ Close.script = <<>>
    BY LoopAndClose, CallFields DEF Close
  <2>2. Len(Close.script) = 0
    BY <2>1
  <2> HIDE DEF ToolCall
  <2> QED BY <2>1, <2>2 DEF SettingCall
<1> QED BY <1>2, <1>3, <1>4, <1>5, <1>6, <1>7, <1>8

\* A program is put together from its parts.
LEMMA TwoParts ==
  ASSUME NEW S, NEW s \in Seq(S), NEW t \in Seq(S)
  PROVE  /\ s \o t \in Seq(S) /\ Len(s \o t) = Len(s) + Len(t)
         /\ \A i \in 1 .. Len(s) + Len(t) :
              (s \o t)[i] = IF i <= Len(s) THEN s[i] ELSE t[i - Len(s)]
  OBVIOUS

\* The four parts of fmc-tdc-tstamp: two loops over inputs, the readout, the end.
LEMMA FourParts ==
  ASSUME NEW S, NEW f \in Seq(S), NEW t \in Seq(S), NEW b \in Seq(S), NEW e \in Seq(S)
  PROVE  /\ f \o t \o b \o e \in Seq(S)
         /\ Len(f \o t \o b \o e) = Len(f) + Len(t) + Len(b) + Len(e)
<1>1. f \o t \in Seq(S) /\ Len(f \o t) = Len(f) + Len(t)
  BY TwoParts, Zenon
<1>2. (f \o t) \o b \in Seq(S) /\ Len((f \o t) \o b) = Len(f \o t) + Len(b)
  BY <1>1, TwoParts, Zenon
<1>3. /\ ((f \o t) \o b) \o e \in Seq(S)
      /\ Len(((f \o t) \o b) \o e) = Len((f \o t) \o b) + Len(e)
  BY <1>2, TwoParts, Zenon
<1> QED BY <1>1, <1>2, <1>3, Zenon

\* The settings of fmc-tdc-tstamp, before its loop.
LEMMA TstampParts ==
  ASSUME NEW o, TstampOptions(o), NEW S,
         \A c \in Chan :
           /\ TsModeSet(c, o.raw) \in S /\ Flush(c) \in S /\ CoalescingSet(c, o.timeout) \in S
           /\ SetBufferMode(c, o.circ) \in S /\ SetBufferLen(c, o.len) \in S
           /\ ~o.read => StatusSet(c, 1) \in S
  PROVE  \E t \in Seq(S) :
           Tstamp(o) = <<Open>> \o (t \o <<Loop>> \o When(~o.read, DisableAll) \o <<Close>>)
<1>0. /\ o.chans \in Seq(Chan) /\ Len(o.chans) >= 1
      /\ o.timeout \in Int /\ o.len \in Int /\ o.circ \in Int /\ o.raw \in Int
      /\ o.flush \in BOOLEAN /\ o.read \in BOOLEAN
  BY SysfsConstants DEF TstampOptions
<1> DEFINE raw == [c \in Chan |-> <<TsModeSet(c, o.raw)>>]
           set(c) == When(o.flush, <<Flush(c)>>)
                     \o When(o.timeout > 0, <<CoalescingSet(c, o.timeout)>>)
                     \o <<SetBufferMode(c, o.circ), SetBufferLen(c, o.len)>>
                     \o When(~o.read, <<StatusSet(c, 1)>>)
           n == (IF o.flush THEN 1 ELSE 0) + (IF o.timeout > 0 THEN 1 ELSE 0) + 2
                + (IF ~o.read THEN 1 ELSE 0)
           settings == [c \in Chan |-> set(c)]
<1>1. Each(o.chans, raw) \in Seq(S)
  <2>1. \A c \in Chan : <<TsModeSet(c, o.raw)>> \in Seq(S)
                        /\ Len(<<TsModeSet(c, o.raw)>>) = 1
    OBVIOUS
  <2>2. raw \in [Chan -> Seq(S)] /\ \A c \in Chan : Len(raw[c]) = 1
    BY <2>1
  <2>3. PICK m \in Nat \ {0} : m = 1
    OBVIOUS
  <2> HIDE DEF raw
  <2>4. \A c \in Chan : Len(raw[c]) = m
    BY <2>2, <2>3
  <2> QED BY <1>0, <2>2, <2>4, EachType
<1>2. Each(o.chans, settings) \in Seq(S)
  <2>1. ASSUME NEW c \in Chan PROVE set(c) \in Seq(S) /\ Len(set(c)) = n
    <3>1. Flush(c) \in S /\ CoalescingSet(c, o.timeout) \in S
          /\ SetBufferMode(c, o.circ) \in S /\ SetBufferLen(c, o.len) \in S
          /\ (~o.read => StatusSet(c, 1) \in S)
      OBVIOUS
    <3>2. /\ \A k \in S : <<k>> \in Seq(S) /\ Len(<<k>>) = 1
          /\ <<>> \in Seq(S) /\ Len(<<>>) = 0
      OBVIOUS
    <3>3. PICK f : f = When(o.flush, <<Flush(c)>>)
      OBVIOUS
    <3>4. PICK t : t = When(o.timeout > 0, <<CoalescingSet(c, o.timeout)>>)
      OBVIOUS
    <3>5. PICK e : e = When(~o.read, <<StatusSet(c, 1)>>)
      OBVIOUS
    <3>6. PICK b : b = <<SetBufferMode(c, o.circ), SetBufferLen(c, o.len)>>
      OBVIOUS
    <3>8. f \in Seq(S) /\ Len(f) = IF o.flush THEN 1 ELSE 0
      BY <3>1, <3>2, <3>3 DEF When
    <3>9. t \in Seq(S) /\ Len(t) = IF o.timeout > 0 THEN 1 ELSE 0
      BY <3>1, <3>2, <3>4 DEF When
    <3>10. e \in Seq(S) /\ Len(e) = IF ~o.read THEN 1 ELSE 0
      BY <3>1, <3>2, <3>5 DEF When
    <3>11. b \in Seq(S) /\ Len(b) = 2
      BY <3>1, <3>6
    <3>7. set(c) = f \o t \o b \o e
      BY <3>3, <3>4, <3>5, <3>6
    <3> HIDE DEF set
    <3>14. /\ f \in Seq(S) /\ t \in Seq(S)
           /\ b \in Seq(S) /\ e \in Seq(S)
      BY <3>8, <3>9, <3>10, <3>11
    <3>15. f \o t \in Seq(S) /\ Len(f \o t) = Len(f) + Len(t)
      BY <3>14, TwoParts, Zenon
    <3>16. (f \o t) \o b \in Seq(S) /\ Len((f \o t) \o b) = Len(f \o t) + Len(b)
      BY <3>14, <3>15, TwoParts, Zenon
    <3>17. /\ ((f \o t) \o b) \o e \in Seq(S)
           /\ Len(((f \o t) \o b) \o e) = Len((f \o t) \o b) + Len(e)
      BY <3>14, <3>16, TwoParts, Zenon
    <3>12. /\ f \o t \o b \o e \in Seq(S)
           /\ Len(f \o t \o b \o e) = Len(f) + Len(t) + Len(b) + Len(e)
      BY <3>15, <3>16, <3>17, Zenon
    <3>13. Len(f \o t \o b \o e) = n
      <4>1. Len(f \o t \o b \o e)
            = (IF o.flush THEN 1 ELSE 0) + (IF o.timeout > 0 THEN 1 ELSE 0) + 2
              + (IF ~o.read THEN 1 ELSE 0)
        BY <3>8, <3>9, <3>10, <3>11, <3>12
      <4> QED BY <4>1
    <3> QED BY <3>7, <3>12, <3>13
  <2>2. n \in Nat \ {0}
    BY <1>0
  <2> HIDE DEF set, n
  <2>3. settings \in [Chan -> Seq(S)] /\ \A c \in Chan : Len(settings[c]) = n
    BY <2>1
  <2> HIDE DEF settings
  <2> QED BY <1>0, <2>2, <2>3, EachType
<1> DEFINE a == Each(o.chans, raw)
           b == Each(o.chans, settings)
<1>3. Tstamp(o) = <<Open>> \o (a \o b \o <<Loop>> \o When(~o.read, DisableAll) \o <<Close>>)
  BY DEF Tstamp, OpenBoard
<1> HIDE DEF a, b
<1>4. a \o b \in Seq(S)
  BY <1>1, <1>2, TwoParts, Zenon DEF a, b
<1> QED BY <1>3, <1>4

\* The loop that ends fmc-tdc-tstamp.
LEMMA DisableAllType ==
  /\ DisableAll \in Seq(SettingCall) /\ Len(DisableAll) = NumChan
  /\ \A i \in 1 .. NumChan : DisableAll[i] = StatusSet(i - 1, 0)
<1>1. \A i \in 1 .. NumChan : i - 1 \in Chan
  BY SysfsConstants DEF Chan
<1>2. \A i \in 1 .. NumChan : StatusSet(i - 1, 0) \in SettingCall
  BY <1>1, SettingCalls
<1> HIDE DEF SettingCall
<1>3. DisableAll = [i \in 1 .. NumChan |-> StatusSet(i - 1, 0)]
  BY DEF DisableAll, OnAll
<1> QED BY <1>2, <1>3, SysfsConstants

\* fmc-tdc-tstamp opens the board and goes on with calls on it.
LEMMA TstampType ==
  ASSUME NEW o, TstampOptions(o)
  PROVE  \E s \in Seq(ReadoutCall) : Tstamp(o) = <<Open>> \o s
<1>0. /\ o.chans \in Seq(Chan) /\ Len(o.chans) >= 1
      /\ o.timeout \in Int /\ o.len \in Int /\ o.circ \in Int /\ o.raw \in Int
      /\ o.flush \in BOOLEAN /\ o.read \in BOOLEAN
  BY SysfsConstants DEF TstampOptions
<1>1. PICK t \in Seq(SettingCall) :
        Tstamp(o) = <<Open>> \o (t \o <<Loop>> \o When(~o.read, DisableAll) \o <<Close>>)
  <2>1. \A c \in Chan :
           /\ TsModeSet(c, o.raw) \in SettingCall /\ Flush(c) \in SettingCall
           /\ CoalescingSet(c, o.timeout) \in SettingCall
           /\ SetBufferMode(c, o.circ) \in SettingCall /\ SetBufferLen(c, o.len) \in SettingCall
           /\ StatusSet(c, 1) \in SettingCall
    BY <1>0, SettingCalls
  <2> QED BY <2>1, TstampParts
<1>2. When(~o.read, DisableAll) \in Seq(SettingCall)
  BY DisableAllType DEF When
<1>3. <<Loop>> \in Seq(ReadoutCall) /\ <<Close>> \in Seq(ReadoutCall)
  <2>1. Loop \in ReadoutCall /\ Close \in ReadoutCall
    BY ChanZero, SettingCalls DEF ReadoutCall
  <2> HIDE DEF ReadoutCall
  <2> QED BY <2>1
<1> PICK w : w = When(~o.read, DisableAll)
  OBVIOUS
<1>4. t \in Seq(ReadoutCall) /\ w \in Seq(ReadoutCall)
  BY <1>2, ToolInner
<1> HIDE DEF ReadoutCall
<1>5. t \o <<Loop>> \in Seq(ReadoutCall)
  BY <1>3, <1>4, TwoParts, Zenon
<1>6. t \o <<Loop>> \o w \in Seq(ReadoutCall)
  BY <1>4, <1>5, TwoParts, Zenon
<1>7. t \o <<Loop>> \o w \o <<Close>> \in Seq(ReadoutCall)
  BY <1>3, <1>6, TwoParts, Zenon
<1> QED BY <1>1, <1>7, Zenon

\* So does fmc-tdc-perftest.
LEMMA PerftestType ==
  ASSUME NEW o, PerftestOptions(o)
  PROVE  \E s \in Seq(ReadoutCall) : Perftest(o) = <<Open>> \o s
<1>1. PICK c \in Chan : c = Head(o.chans)
  BY DEF PerftestOptions
<1>2. /\ Flush(c) \in SettingCall /\ StatusSet(c, 1) \in SettingCall
      /\ StatusSet(c, 0) \in SettingCall /\ Close \in SettingCall
  BY SettingCalls
<1>3. /\ Flush(c) \in ReadoutCall /\ StatusSet(c, 1) \in ReadoutCall
      /\ StatusSet(c, 0) \in ReadoutCall /\ Loop \in ReadoutCall /\ Close \in ReadoutCall
  BY <1>2 DEF ReadoutCall
<1>4. <<Flush(c), StatusSet(c, 1), Loop, StatusSet(c, 0), Close>> \in Seq(ReadoutCall)
  BY <1>3
<1>5. Perftest(o)
      = <<Open>> \o <<Flush(c), StatusSet(c, 1), Loop, StatusSet(c, 0), Close>>
  BY <1>1 DEF Perftest, OpenBoard
<1> QED BY <1>4, <1>5

\* example.c has no readout loop.
LEMMA ExampleType == \E s \in Seq(ToolCall) : Example = <<Open>> \o s
<1>1. /\ Flush(0) \in ToolCall /\ SetTermination(0, 0) \in ToolCall
      /\ GetTermination(0) \in ToolCall /\ CoalescingSet(0, 50) \in ToolCall
      /\ CoalescingGet(0) \in ToolCall /\ SetOffset(0, 0) \in ToolCall
      /\ GetOffset(0) \in ToolCall /\ GetBufferLen(0) \in ToolCall
      /\ SetBufferMode(0, 0) \in ToolCall /\ GetBufferMode(0) \in ToolCall
      /\ StatusSet(0, 1) \in ToolCall /\ StatusSet(0, 0) \in ToolCall
      /\ ReadNonBlock(0, 10) \in ToolCall
  BY ChanZero, FlushCall, ChannelCalls
<1>2. SetBufferLen(0, 2 * PerKb) \in ToolCall
  BY ChanZero, LengthCall, LibConstants
<1> DEFINE s ==
      <<Flush(0), SetTermination(0, 0), GetTermination(0),
        CoalescingSet(0, 50), CoalescingGet(0), WrMode(0), CheckWrMode, SetTime(0), GetTime,
        SetOffset(0, 0), GetOffset(0), SetBufferType(1), GetBufferType,
        SetBufferLen(0, 2 * PerKb), GetBufferLen(0), SetBufferMode(0, 0), GetBufferMode(0),
        StatusSet(0, 1), ReadNonBlock(0, 10), Temperature, Statistics(0), StatusSet(0, 0),
        Close>>
<1>3. s \in Seq(ToolCall)
  BY <1>1, <1>2, BoardCalls, LoopAndClose
<1>4. Example = <<Open>> \o s
  BY DEF Example, OpenBoard
<1> QED BY <1>3, <1>4

\* A program is nothing, or fmctdc_open and calls that do not open again; only the
\* readout programs have a loop.
LEMMA ProgramType ==
  ASSUME NEW x \in DOMAIN Options
  PROVE  \/ Programs[x] = <<>>
         \/ \E s \in Seq(InnerCall) :
              /\ Programs[x] = <<Open>> \o s
              /\ Options[x].prog \notin {"tstamp", "perftest"} => s \in Seq(ToolCall)
              /\ Options[x].prog \in {"tstamp", "perftest"} => s \in Seq(ReadoutCall)
<1> DEFINE o == Options[x]
<1>1. Programs[x] = ProgramOf(o)
  BY DEF Programs
<1>2. /\ o.prog \in {"tstamp", "perftest", "example", "idle", "tool", "wait-wr"}
      /\ o.prog = "tstamp" => TstampOptions(o)
      /\ o.prog = "perftest" => PerftestOptions(o)
      /\ o.prog \in {"tool", "wait-wr"} => ToolOptions(o)
  BY OptionsAssumption
<1> HIDE DEF o
<1>3. CASE o.prog = "tstamp"
  <2>1. ProgramOf(o) = Tstamp(o)
    BY <1>3 DEF ProgramOf
  <2> QED BY <1>1, <1>2, <1>3, <2>1, TstampType, ToolInner DEF o
<1>4. CASE o.prog = "perftest"
  <2>1. ProgramOf(o) = Perftest(o)
    BY <1>4 DEF ProgramOf
  <2> QED BY <1>1, <1>2, <1>4, <2>1, PerftestType, ToolInner DEF o
<1>5. CASE o.prog = "example"
  <2>1. ProgramOf(o) = Example
    BY <1>5 DEF ProgramOf
  <2>2. PICK s \in Seq(ToolCall) : Example = <<Open>> \o s
    BY ExampleType
  <2>3. s \in Seq(InnerCall)
    BY ToolInner
  <2> QED BY <1>1, <1>5, <2>1, <2>2, <2>3 DEF o
<1>6. CASE o.prog = "idle"
  BY <1>1, <1>6 DEF ProgramOf
<1>7. CASE o.prog \in {"tool", "wait-wr"}
  <2>1. ProgramOf(o) = <<Open>> \o o.calls
    BY <1>7 DEF ProgramOf, OpenBoard
  <2>2. o.calls \in Seq(LibCall) /\ \A i \in DOMAIN o.calls : OnBoard(o.calls[i])
    BY <1>2, <1>7 DEF ToolOptions
  <2> DEFINE p == o.calls
  <2>3. p \in Seq(LibCall) /\ \A i \in 1 .. Len(p) : OnBoard(p[i])
    BY <2>2
  <2>4. ASSUME NEW i \in 1 .. Len(p) PROVE p[i] \in ToolCall
    <3>1. p[i] \in LibCall /\ OnBoard(p[i])
      BY <2>3
    <3> HIDE DEF p, LibCall
    <3> QED BY <3>1 DEF OnBoard, ToolCall, InnerCall
  <2> HIDE DEF p, ToolCall
  <2>5. p \in Seq(ToolCall)
    BY <2>3, <2>4
  <2>6. p \in Seq(InnerCall)
    BY <2>5, ToolInner
  <2> QED BY <1>1, <1>7, <2>1, <2>5, <2>6 DEF o, p
<1> QED BY <1>2, <1>3, <1>4, <1>5, <1>6, <1>7

\* fmctdc_open asks for the version and then visits all inputs three times.
LEMMA OpenCall ==
  /\ Open \in LibCall /\ Open.fn = "open" /\ Open.at = 1 /\ Open.err = "none"
  /\ Len(Open.script) = 3 * NumChan + 1
  /\ \A i \in 1 .. Len(Open.script) :
       /\ Open.script[i].attr = "descriptors" <=> i > 2 * NumChan + 1
       /\ i > 2 * NumChan + 1 => Open.script[i].chan = i - 2 * NumChan - 2
       /\ Open.script[i].attr \notin ReadSteps \union {"enable"}
<1> DEFINE a == <<GetOf("version", 0)>>
           b == [i \in 1 .. NumChan |-> GetOf("current_buffer", i - 1)]
           p == [i \in 1 .. NumChan |-> SetOf("post-samples", i - 1, 1)]
           d == [i \in 1 .. NumChan |-> Step("descriptors", i - 1, 0)]
<1>0. NumChan \in Nat \ {0} /\ \A i \in 1 .. NumChan : i - 1 \in Chan
  BY SysfsConstants DEF Chan
<1>1. a \in Seq(ScriptStep) /\ Len(a) = 1 /\ a[1].attr = "version"
  <2>1. GetOf("version", 0) \in ScriptStep
    BY ChanZero, StepTypes DEF AttrName
  <2> QED BY <2>1 DEF GetOf
<1>2. /\ b \in Seq(ScriptStep) /\ Len(b) = NumChan
      /\ \A i \in 1 .. NumChan : b[i].attr = "current_buffer"
  <2>1. \A i \in 1 .. NumChan : GetOf("current_buffer", i - 1) \in ScriptStep
    <3> SUFFICES ASSUME NEW i \in 1 .. NumChan
                 PROVE  GetOf("current_buffer", i - 1) \in ScriptStep
      OBVIOUS
    <3>1. "current_buffer" \in AttrName \union ReadSteps \union {"descriptors"}
      BY DEF AttrName
    <3>2. i - 1 \in Chan /\ 0 \in Int
      BY <1>0
    <3> QED BY <3>1, <3>2, StepTypes
  <2> QED BY <1>0, <2>1 DEF GetOf
<1>3. /\ p \in Seq(ScriptStep) /\ Len(p) = NumChan
      /\ \A i \in 1 .. NumChan : p[i].attr = "post-samples"
  <2>1. \A i \in 1 .. NumChan : SetOf("post-samples", i - 1, 1) \in ScriptStep
    <3> SUFFICES ASSUME NEW i \in 1 .. NumChan
                 PROVE  SetOf("post-samples", i - 1, 1) \in ScriptStep
      OBVIOUS
    <3>1. "post-samples" \in AttrName \union ReadSteps \union {"descriptors"}
      BY DEF AttrName
    <3>2. i - 1 \in Chan /\ 1 \in Int
      BY <1>0
    <3> QED BY <3>1, <3>2, StepTypes
  <2> QED BY <1>0, <2>1 DEF SetOf
<1>4. /\ d \in Seq(ScriptStep) /\ Len(d) = NumChan
      /\ \A i \in 1 .. NumChan : d[i].attr = "descriptors" /\ d[i].chan = i - 1
  <2>1. \A i \in 1 .. NumChan : Step("descriptors", i - 1, 0) \in ScriptStep
    <3> SUFFICES ASSUME NEW i \in 1 .. NumChan
                 PROVE  Step("descriptors", i - 1, 0) \in ScriptStep
      OBVIOUS
    <3>1. "descriptors" \in AttrName \union ReadSteps \union {"descriptors"}
      OBVIOUS
    <3>2. i - 1 \in Chan /\ 0 \in Int
      BY <1>0
    <3> QED BY <3>1, <3>2, StepTypes
  <2> QED BY <1>0, <2>1 DEF Step, SetOf
<1> DEFINE s == a \o b \o p \o d
<1>9. Open = Call("open", s)
  BY DEF Open, OnAll
<1> HIDE DEF a, b, p, d
<1>61. a \in Seq(ScriptStep) /\ b \in Seq(ScriptStep) /\ p \in Seq(ScriptStep)
       /\ d \in Seq(ScriptStep)
  BY <1>1, <1>2, <1>3, <1>4
<1>62. Len(a) = 1 /\ Len(b) = NumChan /\ Len(p) = NumChan /\ Len(d) = NumChan
  BY <1>1, <1>2, <1>3, <1>4
<1>63. /\ a \o b \in Seq(ScriptStep) /\ Len(a \o b) = Len(a) + Len(b)
       /\ \A i \in 1 .. Len(a) + Len(b) :
            (a \o b)[i] = IF i <= Len(a) THEN a[i] ELSE b[i - Len(a)]
  BY <1>61, TwoParts, Zenon
<1>64. PICK ab : ab = a \o b
  OBVIOUS
<1>71. ab \in Seq(ScriptStep) /\ Len(ab) = NumChan + 1
  BY <1>0, <1>62, <1>63, <1>64
<1>65. /\ ab \o p \in Seq(ScriptStep) /\ Len(ab \o p) = Len(ab) + Len(p)
       /\ \A i \in 1 .. Len(ab) + Len(p) :
            (ab \o p)[i] = IF i <= Len(ab) THEN ab[i] ELSE p[i - Len(ab)]
  BY <1>61, <1>71, TwoParts, Zenon
<1>66. PICK abp : abp = ab \o p
  OBVIOUS
<1>72. abp \in Seq(ScriptStep) /\ Len(abp) = 2 * NumChan + 1
  BY <1>0, <1>62, <1>65, <1>66, <1>71
<1>67. /\ abp \o d \in Seq(ScriptStep) /\ Len(abp \o d) = Len(abp) + Len(d)
       /\ \A i \in 1 .. Len(abp) + Len(d) :
            (abp \o d)[i] = IF i <= Len(abp) THEN abp[i] ELSE d[i - Len(abp)]
  BY <1>61, <1>72, TwoParts, Zenon
<1>68. s = abp \o d
  BY <1>64, <1>66
<1> HIDE DEF s
<1>69. Len(ab) = NumChan + 1 /\ Len(abp) = 2 * NumChan + 1
  BY <1>71, <1>72
<1>6. s \in Seq(ScriptStep) /\ Len(s) = 3 * NumChan + 1
  <2>1. Len(s) = Len(abp) + Len(d) /\ s \in Seq(ScriptStep)
    BY <1>67, <1>68, Zenon
  <2> QED BY <1>0, <1>62, <1>69, <2>1
<1>7. \A i \in 1 .. 3 * NumChan + 1 :
        s[i] = IF i <= 1 THEN a[i] ELSE IF i <= NumChan + 1 THEN b[i - 1]
               ELSE IF i <= 2 * NumChan + 1 THEN p[i - NumChan - 1]
               ELSE d[i - 2 * NumChan - 1]
  <2> SUFFICES ASSUME NEW i \in 1 .. 3 * NumChan + 1
               PROVE  s[i] = IF i <= 1 THEN a[i] ELSE IF i <= NumChan + 1 THEN b[i - 1]
                             ELSE IF i <= 2 * NumChan + 1 THEN p[i - NumChan - 1]
                             ELSE d[i - 2 * NumChan - 1]
    OBVIOUS
  <2>1. s[i] = IF i <= 2 * NumChan + 1 THEN abp[i] ELSE d[i - (2 * NumChan + 1)]
    BY <1>0, <1>62, <1>67, <1>68, <1>69
  <2>2. i <= 2 * NumChan + 1 =>
          abp[i] = IF i <= NumChan + 1 THEN ab[i] ELSE p[i - (NumChan + 1)]
    BY <1>0, <1>62, <1>65, <1>66, <1>69
  <2>3. i <= NumChan + 1 => ab[i] = IF i <= 1 THEN a[i] ELSE b[i - 1]
    BY <1>0, <1>62, <1>63, <1>64
  <2>4. i - (2 * NumChan + 1) = i - 2 * NumChan - 1 /\ i - (NumChan + 1) = i - NumChan - 1
    BY <1>0
  <2> QED BY <1>0, <2>1, <2>2, <2>3, <2>4
<1>8. \A i \in 1 .. 3 * NumChan + 1 :
        /\ s[i].attr = "descriptors" <=> i > 2 * NumChan + 1
        /\ i > 2 * NumChan + 1 => s[i].chan = i - 2 * NumChan - 2
        /\ s[i].attr \notin ReadSteps \union {"enable"}
  <2> SUFFICES ASSUME NEW i \in 1 .. 3 * NumChan + 1
               PROVE  /\ s[i].attr = "descriptors" <=> i > 2 * NumChan + 1
                      /\ i > 2 * NumChan + 1 => s[i].chan = i - 2 * NumChan - 2
                      /\ s[i].attr \notin ReadSteps \union {"enable"}
    OBVIOUS
  <2>0. i \in Int
    OBVIOUS
  <2> HIDE DEF s
  <2>1. CASE i <= 1
    <3>1. s[i].attr = "version"
      BY <1>1, <1>7, <2>1
    <3> QED BY <1>0, <2>0, <2>1, <3>1 DEF ReadSteps
  <2>2. CASE i > 1 /\ i <= NumChan + 1
    <3>1. s[i] = b[i - 1] /\ i - 1 \in 1 .. NumChan
      BY <1>0, <1>7, <2>0, <2>2
    <3>2. s[i].attr = "current_buffer"
      BY <1>2, <3>1
    <3> QED BY <1>0, <2>0, <2>2, <3>2 DEF ReadSteps
  <2>3. CASE i > NumChan + 1 /\ i <= 2 * NumChan + 1
    <3>1. s[i] = p[i - NumChan - 1] /\ i - NumChan - 1 \in 1 .. NumChan
      BY <1>0, <1>7, <2>0, <2>3
    <3>2. s[i].attr = "post-samples"
      BY <1>3, <3>1
    <3> QED BY <1>0, <2>0, <2>3, <3>2 DEF ReadSteps
  <2>4. CASE i > 2 * NumChan + 1
    <3>1. s[i] = d[i - 2 * NumChan - 1] /\ i - 2 * NumChan - 1 \in 1 .. NumChan
      BY <1>0, <1>7, <2>0, <2>4
    <3>2. s[i].attr = "descriptors" /\ s[i].chan = i - 2 * NumChan - 1 - 1
      BY <1>4, <3>1
    <3> QED BY <1>0, <2>0, <2>4, <3>2 DEF ReadSteps
  <2> QED BY <1>0, <2>0, <2>1, <2>2, <2>3, <2>4
<1>10. Open \in LibCall /\ Open.fn = "open" /\ Open.at = 1 /\ Open.err = "none"
       /\ Open.script = s
  BY <1>6, <1>9, CallTypes, CallFields DEF CallName
<1> QED BY <1>6, <1>8, <1>10

-----------------------------------------------------------------------------
(* Where a process is *)

CallState == [fn : CallName, script : Seq(ScriptStep), at : Nat, res : Seq(Int),
              buf : Seq(Nat), acc : Seq(Nat), err : Errno]
ToolState == [job : DOMAIN Options, pc : Nat, stop : BOOLEAN, ready : SUBSET Chan, n : Int,
              prev : [Chan -> Nat], missed : [Chan -> SUBSET Nat]]

\* A call has done as many steps as it has results.
Shape(u) ==
  /\ call[u].at \in 1 .. Len(call[u].script) + 1
  /\ Len(call[u].res) = call[u].at - 1
  /\ tool[u].pc \in 1 .. Len(Program(u)) + 1

\* A call is the program's, or a read of its readout loop.
LoopRead(u) ==
  /\ call[u].fn = "read" /\ Len(call[u].script) = 1
  /\ call[u].script[1].attr \in {"read", "read_nonblock"}
CallOf(u) ==
  /\ call[u].fn = "none" => call[u] = NoCall
  /\ call[u].fn # "none" =>
       /\ ~Over(u)
       /\ IF InLoop(u) THEN LoopRead(u)
          ELSE call[u].fn = Current(u).fn /\ call[u].script = Current(u).script

\* Timestamps are taken by the read a call is at, and kept between the reads of
\* fmctdc_fread only.
TakenInv(u) ==
  /\ call[u].buf # <<>> => Reading(u)
  /\ call[u].acc # <<>> => Reading(u) /\ Now(u).attr = "fread"

\* A process is in the driver for the access its call is at.
ReqOf(u) == req[u].at # "idle" => OnSysfs(u) /\ req[u].acc = NowSysfs(u)

\* What the readout loop takes for the result of its read is in got.
Returned(u) ==
  InLoop(u) /\ Ended(u) /\ call[u].err = "none" =>
    call[u].res[1] \in 0 .. Len(got[u][Head(call[u].script).chan])

ProcInv(u) == Shape(u) /\ CallOf(u) /\ TakenInv(u) /\ ReqOf(u) /\ Returned(u)
CallInv ==
  /\ call \in [User -> CallState] /\ tool \in [User -> ToolState]
  /\ \A u \in User : ProcInv(u)

\* Timestamps are numbers.
DataInv ==
  /\ hw \in [Chan -> Seq(Nat)] /\ zbuf \in [Chan -> Seq(Nat)] /\ made \in [Chan -> Nat]
  /\ got \in [User -> [Chan -> Seq(Nat)]] /\ gone \in [Chan -> SUBSET Nat]

\* What a process has in hand.
LEMMA ProcTypes ==
  ASSUME TypeInv, CallInv, NEW u \in User
  PROVE  /\ call[u] \in CallState /\ tool[u] \in ToolState /\ req[u] \in Req
         /\ tool[u].job \in DOMAIN Options /\ ProcInv(u)
<1>1. call[u] \in CallState /\ tool[u] \in ToolState /\ req[u] \in Req
  BY DEF CallInv, TypeInv
<1>2. tool[u].job \in DOMAIN Options
  BY <1>1 DEF ToolState
<1> QED BY <1>1, <1>2 DEF CallInv

\* The call a program is at, and its step.
LEMMA CurrentCall ==
  ASSUME TypeInv, CallInv, NEW u \in User, ~Over(u)
  PROVE  /\ tool[u].pc \in 1 .. Len(Program(u))
         /\ Current(u) \in LibCall /\ Current(u).fn # "none"
         /\ Current(u).fn = "open" => Current(u) = Open /\ tool[u].pc = 1
         /\ Current(u).fn = "flush" => Current(u) = Flush(Current(u).script[1].chan)
         /\ Current(u).fn = "loop" =>
              Current(u) = Loop /\ Options[tool[u].job].prog \in {"tstamp", "perftest"}
<1> DEFINE x == tool[u].job
           p == Programs[x]
           i == tool[u].pc
<1>1. x \in DOMAIN Options /\ i \in 1 .. Len(p) + 1 /\ ~(i > Len(p)) /\ i \in Nat
  BY ProcTypes DEF ProcInv, Shape, Program, Over, ToolState
<1>2. p # <<>>
  BY <1>1
<1>3. PICK s \in Seq(InnerCall) :
        p = <<Open>> \o s /\ (Options[x].prog \notin {"tstamp", "perftest"} => s \in Seq(ToolCall))
  BY <1>1, <1>2, ProgramType
<1>4. Current(u) = p[i]
  BY DEF Current, Program
<1> HIDE DEF x, p, i
<1>5. Len(p) = Len(s) + 1 /\ \A j \in 1 .. Len(p) : p[j] = IF j = 1 THEN Open ELSE s[j - 1]
  BY <1>3
<1>6. i \in 1 .. Len(p)
  BY <1>1, <1>5
<1>7. CASE i = 1
  <2>1. Current(u) = Open
    BY <1>4, <1>5, <1>6, <1>7
  <2> QED BY <1>6, <1>7, <2>1, OpenCall DEF p, i, x, Program
<1>8. CASE i # 1
  <2>1. i - 1 \in 1 .. Len(s) /\ Current(u) = s[i - 1]
    BY <1>4, <1>5, <1>6, <1>8
  <2>2. Current(u) \in InnerCall
    BY <2>1
  <2>3. Options[x].prog \notin {"tstamp", "perftest"} => Current(u) \in ToolCall
    BY <1>3, <2>1
  <2> HIDE DEF LibCall
  <2> QED BY <1>6, <2>2, <2>3 DEF InnerCall, ToolCall, p, i, x, Program
<1> QED BY <1>7, <1>8

\* The step a call is at.
LEMMA NowTypes ==
  ASSUME TypeInv, CallInv, NEW u \in User, InCall(u)
  PROVE  /\ call[u].at \in 1 .. Len(call[u].script) /\ call[u].script \in Seq(ScriptStep)
         /\ Now(u) \in ScriptStep /\ Now(u).chan \in Chan
<1>1. call[u].script \in Seq(ScriptStep) /\ call[u].at \in Nat /\ call[u].at <= Len(call[u].script)
      /\ call[u].at \in 1 .. Len(call[u].script) + 1
  BY ProcTypes DEF ProcInv, Shape, CallState, InCall
<1>2. call[u].at \in 1 .. Len(call[u].script)
  BY <1>1
<1>3. Now(u) \in ScriptStep
  BY <1>1, <1>2 DEF Now
<1> QED BY <1>1, <1>2, <1>3 DEF ScriptStep

\* A readout program reads in its loop, or to drain a buffer.
LEMMA ReadsInLoop ==
  ASSUME TypeInv, CallInv, NEW u \in User, Reading(u), Now(u).attr # "drain",
         Job(u).prog \in {"tstamp", "perftest"}
  PROVE  InLoop(u)
<1> SUFFICES ASSUME ~InLoop(u) PROVE FALSE
  OBVIOUS
<1>1. InCall(u) /\ Now(u).attr \in ReadSteps \ {"drain"}
  BY DEF Reading
<1>2. ~Over(u) /\ call[u].script = Current(u).script
  BY <1>1, ProcTypes DEF ProcInv, CallOf, InCall
<1>3. call[u].at \in 1 .. Len(Current(u).script) /\ Now(u) = Current(u).script[call[u].at]
  BY <1>1, <1>2, NowTypes DEF Now
<1> DEFINE x == tool[u].job
           p == Programs[x]
           i == tool[u].pc
<1>4. /\ x \in DOMAIN Options /\ i \in 1 .. Len(p) /\ Current(u) = p[i]
      /\ Options[x].prog \in {"tstamp", "perftest"}
  BY <1>2, ProcTypes, CurrentCall DEF Current, Program, Job
<1> HIDE DEF x, p, i
<1>5. p # <<>>
  BY <1>4
<1>6. PICK s \in Seq(ReadoutCall) : p = <<Open>> \o s
  BY <1>4, <1>5, ProgramType DEF p
<1>7. Len(p) = Len(s) + 1 /\ \A j \in 1 .. Len(p) : p[j] = IF j = 1 THEN Open ELSE s[j - 1]
  BY <1>6
<1>8. CASE i = 1
  BY <1>1, <1>3, <1>4, <1>7, <1>8, OpenCall
<1>9. CASE i # 1
  <2>1. i - 1 \in 1 .. Len(s) /\ Current(u) = s[i - 1]
    BY <1>4, <1>7, <1>9
  <2>2. Current(u) \in ReadoutCall
    BY <2>1
  <2>3. Current(u) # Loop
    BY <1>2, LoopAndClose DEF InLoop
  <2> QED BY <1>1, <1>3, <2>2, <2>3 DEF ReadoutCall, SettingCall
<1> QED BY <1>8, <1>9

\* What fmctdc_flush writes back is what it has read, and every access of a call
\* is one to an attribute.
LEMMA AccessIsAttribute ==
  ASSUME TypeInv, CallInv, NEW u \in User, OnSysfs(u)
  PROVE  NowSysfs(u) \in Attribute
<1>0. InCall(u) /\ Now(u).attr \notin ReadSteps \union {"descriptors"}
  BY DEF OnSysfs
<1>1. Now(u) \in ScriptStep
  BY <1>0, NowTypes
<1>2. Now(u) \in Attribute
  BY <1>0, <1>1 DEF ScriptStep, Attribute
<1>3. CASE call[u].fn = "flush" /\ call[u].at = 4
  <2>0. call[u] \in CallState /\ Shape(u)
    BY ProcTypes DEF ProcInv
  <2>1. Len(call[u].res) = 3 /\ call[u].res \in Seq(Int)
    BY <1>3, <2>0 DEF Shape, CallState
  <2>2. Restore(u) \in Int
    BY <2>1 DEF Restore
  <2> QED BY <1>2, <1>3, <2>2 DEF NowSysfs, Attribute
<1>4. CASE ~(call[u].fn = "flush" /\ call[u].at = 4)
  BY <1>2, <1>4 DEF NowSysfs
<1> QED BY <1>3, <1>4

\* A step of a program is, on the board, a step of a process on the attributes.
LEMMA StepOnBoard ==
  ASSUME TypeInv, CallInv, [Next]_vars
  PROVE  [SysNext]_sysVars
<1>1. CASE UNCHANGED sysVars
  BY <1>1
<1>2. ASSUME NEW u \in User, CallStep(u) PROVE SysNext \/ UNCHANGED sysVars
  <2>1. CASE SysfsCall(u)
    <3>1. NowSysfs(u) \in Attribute /\ Access(u, NowSysfs(u))
      BY <2>1, AccessIsAttribute DEF SysfsCall
    <3> QED BY <3>1 DEF SysNext
  <2>2. CASE SysfsReturn(u)
    BY <2>2 DEF SysfsReturn, SysNext
  <2>3. CASE AttrOnly(u)
    BY <2>3 DEF AttrOnly, SysNext
  <2>4. CASE AbortData(u)
    BY <2>4 DEF AbortData, SysNext
  <2>5. CASE NewBuffer(u)
    BY <2>5 DEF NewBuffer, AttrStep, SysNext
  <2>6. CASE OpenChannel(u) \/ ReadOne(u) \/ ReadEnds(u)
    BY <2>6 DEF OpenChannel, ReadOne, ReadEnds
  <2> QED BY <1>2, <2>1, <2>2, <2>3, <2>4, <2>5, <2>6 DEF CallStep
<1>3. ASSUME NEW u \in User, CallFails(u) PROVE SysNext \/ UNCHANGED sysVars
  <2>1. CASE SysfsCallFails(u)
    <3>1. NowSysfs(u) \in Attribute /\ AccessFails(u, NowSysfs(u))
      BY <2>1, AccessIsAttribute DEF SysfsCallFails
    <3> QED BY <3>1 DEF SysNext
  <2>2. CASE OpenChannelFails(u) \/ ReadFails(u)
    BY <2>2 DEF OpenChannelFails, ReadFails
  <2> QED BY <1>3, <2>1, <2>2 DEF CallFails
<1>4. ASSUME NEW u \in User, ToolStep(u), ~CallStep(u) PROVE UNCHANGED sysVars
  BY <1>4 DEF ToolStep, Starts, Begin, Returns, LoopEnds, Poll, ReadReady, LoopReturns, libVars
<1>5. ASSUME NEW u \in User, Signal(u) PROVE UNCHANGED sysVars
  BY <1>5 DEF Signal
<1>6. ASSUME Acquisition PROVE UNCHANGED sysVars
  BY <1>6 DEF Acquisition, Pulse, Deliver, Discard
<1> QED BY <1>1, <1>2, <1>3, <1>4, <1>5, <1>6 DEF Next, vars, libVars

-----------------------------------------------------------------------------
(* The calls of a process change in its own steps only *)

\* What a process has done is not changed by the others.
LEMMA BystanderKeepsCall ==
  ASSUME NEW w \in User, ProcInv(w), call'[w] = call[w], tool'[w] = tool[w],
         req'[w] = req[w], got'[w] = got[w]
  PROVE  ProcInv(w)'
<1>1. Shape(w)'
  BY DEF ProcInv, Shape, Program
<1>2. InLoop(w)' = InLoop(w) /\ Over(w)' = Over(w) /\ Current(w)' = Current(w)
  BY DEF InLoop, Over, Current, Program
<1>3. InCall(w)' = InCall(w) /\ Now(w)' = Now(w)
  BY DEF InCall, Now
<1>4. CallOf(w)'
  BY <1>2 DEF ProcInv, CallOf, LoopRead
<1>5. Reading(w)' = Reading(w) /\ OnSysfs(w)' = OnSysfs(w) /\ Ended(w)' = Ended(w)
  BY <1>3 DEF Reading, OnSysfs, Ended
<1>6. TakenInv(w)'
  BY <1>3, <1>5 DEF ProcInv, TakenInv
<1>7. NowSysfs(w)' = NowSysfs(w)
  BY <1>3 DEF NowSysfs, Restore
<1>8. ReqOf(w)'
  BY <1>5, <1>7 DEF ProcInv, ReqOf
<1>9. Returned(w)'
  BY <1>2, <1>5 DEF ProcInv, Returned
<1> QED BY <1>1, <1>4, <1>6, <1>8, <1>9 DEF ProcInv

\* A step of one process keeps the invariant if it does for that process.
LEMMA OwnStep ==
  ASSUME CallInv, NEW u \in User, NEW k \in CallState, NEW t \in ToolState,
         call' = [call EXCEPT ![u] = k], tool' = [tool EXCEPT ![u] = t],
         \A w \in User : w # u => req'[w] = req[w] /\ got'[w] = got[w],
         ProcInv(u)'
  PROVE  CallInv'
<1>1. call' \in [User -> CallState] /\ tool' \in [User -> ToolState]
  BY DEF CallInv
<1>2. ASSUME NEW w \in User, w # u PROVE ProcInv(w)'
  <2>1. call'[w] = call[w] /\ tool'[w] = tool[w]
    BY <1>2 DEF CallInv
  <2> QED BY <1>2, <2>1, BystanderKeepsCall DEF CallInv
<1> QED BY <1>1, <1>2 DEF CallInv

\* A process that is not between the beginning and the end of an access is not
\* in the driver.
LEMMA NotOnSysfs ==
  ASSUME TypeInv, CallInv, NEW u \in User, ~OnSysfs(u)
  PROVE  req[u].at = "idle"
  BY ProcTypes DEF ProcInv, ReqOf

\* Steps in the driver keep what the process asked for.
LEMMA DriverMoves ==
  ASSUME TypeInv, NEW u \in User, AttrStep(u) \/ Abort(u)
  PROVE  /\ req[u].at # "idle" /\ req'[u].acc = req[u].acc
         /\ \A w \in User : w # u => req'[w] = req[w]
<1>0. req \in [User -> Req]
  BY DEF TypeInv
<1>1. ASSUME NEW l \in Labels, GoTo(u, l)
      PROVE req'[u].acc = req[u].acc /\ \A w \in User : w # u => req'[w] = req[w]
  BY <1>0, <1>1, GoToMoves DEF Moved
<1>2. ASSUME NEW e, NEW v, Done(u, e, v)
      PROVE req'[u].acc = req[u].acc /\ \A w \in User : w # u => req'[w] = req[w]
  <2> DEFINE r == [req[u] EXCEPT !.at = "done", !.ien = NoIen, !.err = e, !.ret = v]
  <2>1. req' = [req EXCEPT ![u] = r]
    BY <1>2 DEF Done
  <2>2. r.acc = req[u].acc
    BY <1>0 DEF Req
  <2> HIDE DEF r
  <2> QED BY <1>0, <2>1, <2>2
<1>3. ASSUME NEW l \in Labels, NEW ok \in BOOLEAN, OkGoTo(u, ok, l)
      PROVE req'[u].acc = req[u].acc /\ \A w \in User : w # u => req'[w] = req[w]
  BY <1>1, <1>2, <1>3 DEF OkGoTo
<1>4. ASSUME NEW l, NEW n, l # "idle", ReadInputEnable(u, l, n)
      PROVE  /\ req[u].at # "idle" /\ req'[u].acc = req[u].acc
             /\ \A w \in User : w # u => req'[w] = req[w]
  <2> DEFINE r == [req[u] EXCEPT !.at = n, !.ien = ien]
  <2>1. req' = [req EXCEPT ![u] = r]
    BY <1>4 DEF ReadInputEnable
  <2>2. r.acc = req[u].acc
    BY <1>0 DEF Req
  <2> HIDE DEF r
  <2> QED BY <1>0, <1>4, <2>1, <2>2 DEF ReadInputEnable, At
<1>5. CASE Show(u) \/ ShowInvalid(u) \/ Store(u) \/ Abort(u) \/ TermFlag(u)
  BY <1>2, <1>5 DEF Show, ShowInvalid, Store, Abort, TermFlag, At
<1>6. CASE Enable(u)
  BY <1>3, <1>6, AllLabels DEF Enable, At
<1>7. CASE EnWrite(u)
  BY <1>3, <1>7, AllLabels DEF EnWrite, At
<1>8. CASE EnRead(u) \/ TermRead(u) \/ TaiRead(u)
  BY <1>4, <1>8 DEF EnRead, TermRead, TaiRead
<1>9. CASE TermWrite(u) \/ OffsetStore(u)
  BY <1>1, <1>9, AllLabels DEF TermWrite, OffsetStore, At
<1>10. CASE OffsetRejected(u) \/ OffFrac(u) \/ TaiOn(u) \/ WrVcxo(u)
  BY <1>2, <1>10 DEF OffsetRejected, OffFrac, TaiOn, WrVcxo, At
<1>11. CASE OffSeconds(u) \/ OffCoarse(u)
  BY <1>1, <1>11, AllLabels DEF OffSeconds, OffCoarse, OffsetWrite, At
<1>12. CASE Seconds(u)
  BY <1>1, <1>2, <1>12, AllLabels DEF Seconds, At
<1>13. CASE TaiOff(u) \/ TaiStart(u) \/ TaiLoad(u)
  BY <1>1, <1>13, AllLabels DEF TaiOff, TaiStart, TaiLoad, At
<1>14. CASE WrRegister(u)
  BY <1>1, <1>14, AllLabels DEF WrRegister, At
<1>15. CASE WrVariable(u)
  BY <1>1, <1>2, <1>15, AllLabels DEF WrVariable, At
<1>16. CASE WrAsk(u)
  BY <1>2, <1>16 DEF WrAsk, At
<1> QED BY <1>5, <1>6, <1>7, <1>8, <1>9, <1>10, <1>11, <1>12, <1>13, <1>14, <1>15, <1>16 DEF AttrStep

\* A step in the driver is for the access its call is at.
LEMMA DriverStep ==
  ASSUME TypeInv, CallInv, NEW u \in User, AttrStep(u) \/ Abort(u), UNCHANGED <<call, tool, got>>
  PROVE  CallInv'
<1>1. /\ req[u].at # "idle" /\ req'[u].acc = req[u].acc
      /\ \A w \in User : w # u => req'[w] = req[w]
  BY DriverMoves
<1>2. OnSysfs(u) /\ req[u].acc = NowSysfs(u)
  BY <1>1, ProcTypes DEF ProcInv, ReqOf
<1>3. OnSysfs(u)' = OnSysfs(u) /\ NowSysfs(u)' = NowSysfs(u)
  BY DEF OnSysfs, InCall, Now, NowSysfs, Restore
<1>4. ReqOf(u)'
  BY <1>1, <1>2, <1>3 DEF ReqOf
<1>5. Shape(u)' /\ CallOf(u)' /\ TakenInv(u)' /\ Returned(u)'
  <2>1. Shape(u) /\ CallOf(u) /\ TakenInv(u) /\ Returned(u)
    BY ProcTypes DEF ProcInv
  <2> QED BY <2>1 DEF Shape, Program, CallOf, Over, InLoop, Current, LoopRead, TakenInv, Reading,
                      InCall, Now, Returned, Ended
<1>6. ASSUME NEW w \in User, w # u PROVE ProcInv(w)'
  BY <1>1, <1>6, BystanderKeepsCall DEF CallInv
<1> QED BY <1>4, <1>5, <1>6 DEF CallInv, ProcInv

\* A program stays where it is when its record stays.
LEMMA ToolSame ==
  ASSUME NEW u \in User, tool'[u] = tool[u]
  PROVE  /\ Over(u)' = Over(u) /\ InLoop(u)' = InLoop(u) /\ Current(u)' = Current(u)
         /\ Program(u)' = Program(u)
  BY DEF Over, InLoop, Current, Program

\* A step of a call that leaves the program where it is.
LEMMA OwnCall ==
  ASSUME CallInv, NEW u \in User, NEW k \in CallState, call' = [call EXCEPT ![u] = k],
         UNCHANGED tool, \A w \in User : w # u => req'[w] = req[w] /\ got'[w] = got[w],
         ProcInv(u)'
  PROVE  CallInv'
<1>1. tool' = [tool EXCEPT ![u] = tool[u]] /\ tool[u] \in ToolState
  BY DEF CallInv
<1> QED BY <1>1, OwnStep

\* A library call begins.
LEMMA StartKeeps ==
  ASSUME TypeInv, CallInv, NEW u \in User, Starts(u)
  PROVE  CallInv'
<1> DEFINE cur == Current(u)
           k == IF Rejects(cur) THEN [cur EXCEPT !.err = "EINVAL"] ELSE cur
<1>1. ~Over(u) /\ ~InLoop(u) /\ call[u].fn = "none" /\ UNCHANGED <<tool, req, got>>
      /\ call' = [call EXCEPT ![u] = k]
  BY DEF Starts, Begin, sysVars, dataVars
<1>2. cur \in LibCall /\ cur.fn # "none"
  BY <1>1, CurrentCall
<1>3. /\ k \in CallState /\ k.fn = cur.fn /\ k.script = cur.script /\ k.at = 1
      /\ k.res = <<>> /\ k.buf = <<>> /\ k.acc = <<>>
  <2>1. /\ cur.fn \in CallName /\ cur.script \in Seq(ScriptStep) /\ cur.at = 1 /\ cur.res = <<>>
        /\ cur.buf = <<>> /\ cur.acc = <<>> /\ cur.err = "none"
        /\ cur = [fn |-> cur.fn, script |-> cur.script, at |-> 1, res |-> <<>>, buf |-> <<>>,
                  acc |-> <<>>, err |-> "none"]
    BY <1>2 DEF LibCall
  <2> HIDE DEF cur
  <2>2. k = [cur EXCEPT !.err = "EINVAL"] \/ k = cur
    OBVIOUS
  <2>3. \E e \in {"none", "EINVAL"} :
          k = [fn |-> cur.fn, script |-> cur.script, at |-> 1, res |-> <<>>, buf |-> <<>>,
               acc |-> <<>>, err |-> e]
    BY <2>1, <2>2
  <2>4. <<>> \in Seq(Int) /\ <<>> \in Seq(Nat) /\ {"none", "EINVAL"} \subseteq Errno /\ 1 \in Nat
    BY DEF Errno
  <2> QED BY <2>1, <2>3, <2>4 DEF CallState
<1> HIDE DEF k
<1>4. call'[u] = k
  BY <1>1 DEF CallInv
<1>5. req[u].at = "idle"
  BY <1>1, NotOnSysfs DEF OnSysfs, InCall
<1>6. /\ Over(u)' = Over(u) /\ InLoop(u)' = InLoop(u) /\ Current(u)' = Current(u)
      /\ Program(u)' = Program(u)
  BY <1>1, ToolSame
<1>7. Shape(u)'
  <2>1. tool[u].pc \in 1 .. Len(Program(u)) + 1
    BY ProcTypes DEF ProcInv, Shape
  <2>2. tool'[u].pc \in 1 .. Len(Program(u)') + 1
    BY <1>1, <1>6, <2>1
  <2>3. k.script \in Seq(ScriptStep)
    BY <1>3 DEF CallState
  <2> QED BY <1>3, <1>4, <2>2, <2>3 DEF Shape
<1>8. CallOf(u)'
  BY <1>1, <1>2, <1>3, <1>4, <1>6 DEF CallOf
<1>9. TakenInv(u)' /\ Returned(u)' /\ ReqOf(u)'
  BY <1>1, <1>3, <1>4, <1>5, <1>6 DEF TakenInv, Returned, ReqOf
<1> QED BY <1>1, <1>3, <1>7, <1>8, <1>9, OwnCall DEF ProcInv

\* No call.
LEMMA NoCallTypes ==
  /\ NoCall \in CallState /\ NoCall.fn = "none" /\ NoCall.at = 1 /\ NoCall.script = <<>>
  /\ NoCall.res = <<>> /\ NoCall.buf = <<>> /\ NoCall.acc = <<>>
  BY DEF NoCall, Call, CallState, CallName, Errno

\* A process without a call, wherever its program is.
LEMMA ProcWithoutCall ==
  ASSUME NEW u \in User, NEW t \in ToolState, call'[u] = NoCall, tool'[u] = t,
         t.pc \in 1 .. Len(Programs[t.job]) + 1, req'[u].at = "idle"
  PROVE  ProcInv(u)'
<1>1. Shape(u)'
  BY NoCallTypes DEF Shape, Program
<1>2. CallOf(u)' /\ TakenInv(u)' /\ ReqOf(u)'
  BY NoCallTypes DEF CallOf, TakenInv, ReqOf
<1>3. Returned(u)'
  BY NoCallTypes DEF Returned, Ended
<1> QED BY <1>1, <1>2, <1>3 DEF ProcInv

\* A program is a sequence of calls.
LEMMA ProgramIsSeq ==
  ASSUME TypeInv, CallInv, NEW u \in User
  PROVE  Program(u) \in Seq(InnerCall \union {Open})
<1>1. tool[u].job \in DOMAIN Options
  BY ProcTypes
<1>2. Programs[tool[u].job] = <<>> \/ \E s \in Seq(InnerCall) : Programs[tool[u].job] = <<Open>> \o s
  BY <1>1, ProgramType
<1>3. ASSUME NEW s \in Seq(InnerCall) PROVE <<Open>> \o s \in Seq(InnerCall \union {Open})
  OBVIOUS
<1>4. <<>> \in Seq(InnerCall \union {Open})
  OBVIOUS
<1>5. Programs[tool[u].job] \in Seq(InnerCall \union {Open})
  BY <1>2, <1>3, <1>4, Zenon
<1> QED BY <1>5 DEF Program

\* A library call returns to its program.
LEMMA ReturnKeeps ==
  ASSUME TypeInv, CallInv, NEW u \in User, Returns(u)
  PROVE  CallInv'
<1>1. ~Over(u) /\ Ended(u) /\ call' = [call EXCEPT ![u] = NoCall] /\ UNCHANGED <<req, got>>
  BY DEF Returns, sysVars, dataVars
<1>2. req[u].at = "idle"
  BY <1>1, NotOnSysfs DEF OnSysfs, Ended
<1>3. tool[u] \in ToolState /\ tool \in [User -> ToolState] /\ tool[u].pc \in 1 .. Len(Program(u)) + 1
      /\ ~(tool[u].pc > Len(Program(u)))
  BY <1>1, ProcTypes DEF ProcInv, Shape, CallInv, Over
<1>4. Program(u) \in Seq(InnerCall \union {Open})
  BY ProgramIsSeq
<1>5. Len(Program(u)) \in Nat /\ tool[u].pc \in Nat
  BY <1>3, <1>4 DEF ToolState
<1>6. \E n \in Nat : /\ n \in 1 .. Len(Program(u)) + 1
                     /\ tool' = [tool EXCEPT ![u] = [tool[u] EXCEPT !.pc = n]]
  <2>1. CASE UNCHANGED tool
    <3>1. tool = [tool EXCEPT ![u] = [tool[u] EXCEPT !.pc = tool[u].pc]]
      BY <1>3 DEF ToolState
    <3> QED BY <1>3, <1>5, <2>1, <3>1
  <2>2. CASE tool' = [tool EXCEPT ![u] = [tool[u] EXCEPT !.pc = Len(Program(u)) + 1]]
    <3>1. Len(Program(u)) + 1 \in Nat /\ Len(Program(u)) + 1 \in 1 .. Len(Program(u)) + 1
      BY <1>5
    <3> QED BY <2>2, <3>1
  <2>3. CASE tool' = [tool EXCEPT ![u] = [tool[u] EXCEPT !.pc = @ + 1]]
    <3>1. tool[u].pc + 1 \in Nat /\ tool[u].pc + 1 \in 1 .. Len(Program(u)) + 1
      BY <1>3, <1>5
    <3> QED BY <2>3, <3>1
  <2> QED BY <2>1, <2>2, <2>3 DEF Returns, Exits, Set
<1>7. PICK n \in Nat : /\ n \in 1 .. Len(Program(u)) + 1
                       /\ tool' = [tool EXCEPT ![u] = [tool[u] EXCEPT !.pc = n]]
  BY <1>6
<1> DEFINE t == [tool[u] EXCEPT !.pc = n]
<1>8. t \in ToolState /\ t.pc = n /\ t.job = tool[u].job
  BY <1>3 DEF ToolState
<1>9. tool' = [tool EXCEPT ![u] = t]
  BY <1>7
<1> HIDE DEF t
<1>10. call'[u] = NoCall /\ tool'[u] = t
  BY <1>1, <1>3, <1>9 DEF CallInv
<1>11. t.pc \in 1 .. Len(Programs[t.job]) + 1 /\ req'[u].at = "idle"
  BY <1>1, <1>2, <1>7, <1>8 DEF Program
<1>12. ProcInv(u)'
  BY <1>8, <1>10, <1>11, ProcWithoutCall
<1> QED BY <1>1, <1>8, <1>9, <1>12, NoCallTypes, OwnStep

-----------------------------------------------------------------------------
(* The readout loop *)

\* The smaller of two numbers.
LEMMA MinOfTwo ==
  ASSUME NEW a \in Int, NEW b \in Int
  PROVE  Min({a, b}) \in Int /\ Min({a, b}) <= a /\ Min({a, b}) <= b
<1> DEFINE P(x) == x \in {a, b} /\ \A y \in {a, b} : x <= y
<1>1. \E x : P(x)
  <2>1. CASE a <= b
    <3>1. P(a)
      BY <2>1
    <3> QED BY <3>1
  <2>2. CASE ~(a <= b)
    <3>1. P(b)
      BY <2>2
    <3> QED BY <3>1
  <2> QED BY <2>1, <2>2
<1>2. P(Min({a, b}))
  <2>1. Min({a, b}) = CHOOSE x : P(x)
    BY DEF Min
  <2> HIDE DEF P
  <2> QED BY <1>1, <2>1, Zenon
<1> QED BY <1>2

\* What the loop is in.
LEMMA LoopTypes ==
  ASSUME TypeInv, CallInv, NEW u \in User, InLoop(u)
  PROVE  /\ Job(u).prog \in {"tstamp", "perftest"} /\ ToSet(Job(u).chans) \subseteq Chan
         /\ tool[u].pc \in 1 .. Len(Program(u)) /\ Len(Program(u)) \in Nat
         /\ tool[u] \in ToolState /\ tool[u].n \in Int /\ ToRead(u) \in Int
<1>1. ~Over(u) /\ Current(u).fn = "loop"
  BY DEF InLoop
<1>2. Job(u).prog \in {"tstamp", "perftest"} /\ tool[u].pc \in 1 .. Len(Program(u))
  BY <1>1, CurrentCall DEF Job
<1>3. tool[u].job \in DOMAIN Options /\ tool[u] \in ToolState /\ tool[u].n \in Int
  BY ProcTypes DEF ToolState
<1>4. Program(u) \in Seq(InnerCall \union {Open})
  BY ProgramIsSeq
<1>5. Job(u).prog = "tstamp" => TstampOptions(Job(u))
  BY <1>3, OptionsAssumption DEF Job
<1>6. Job(u).prog = "perftest" => PerftestOptions(Job(u))
  BY <1>3, OptionsAssumption DEF Job
<1>7. Job(u).chans \in Seq(Chan) /\ Job(u).show \in Int
      /\ (Job(u).prog # "tstamp" => Job(u).samples \in Int)
  BY <1>2, <1>5, <1>6 DEF TstampOptions, PerftestOptions
<1>8. ToSet(Job(u).chans) \subseteq Chan
  BY <1>7 DEF ToSet
<1>9. ToRead(u) \in Int
  <2>1. CASE Job(u).prog = "tstamp"
    BY <1>7, <2>1 DEF ToRead
  <2>2. CASE Job(u).prog # "tstamp"
    <3>1. Job(u).samples - tool[u].n \in Int
      BY <1>3, <1>7, <2>2
    <3> QED BY <1>7, <2>2, <3>1, MinOfTwo DEF ToRead
  <2> QED BY <2>1, <2>2
<1> QED BY <1>2, <1>3, <1>4, <1>8, <1>9

\* The loop waits, or ends.
LEMMA LoopMoves ==
  ASSUME TypeInv, CallInv, NEW u \in User, LoopEnds(u) \/ Poll(u)
  PROVE  CallInv'
<1>1. InLoop(u) /\ call[u].fn = "none" /\ UNCHANGED <<call, req, got>>
  BY DEF LoopEnds, Poll, libVars, sysVars, dataVars
<1>2. call[u] = NoCall /\ call' = [call EXCEPT ![u] = NoCall]
  <2>1. call[u] = NoCall
    BY <1>1, ProcTypes DEF ProcInv, CallOf
  <2> QED BY <1>1, <2>1 DEF CallInv
<1>3. req[u].at = "idle"
  BY <1>1, NotOnSysfs DEF OnSysfs, InCall
<1>4. \E n \in Nat, r \in SUBSET Chan :
         /\ n \in 1 .. Len(Program(u)) + 1
         /\ tool' = [tool EXCEPT ![u] = [tool[u] EXCEPT !.pc = n, !.ready = r]]
  <2>1. tool[u] = [tool[u] EXCEPT !.pc = tool[u].pc, !.ready = tool[u].ready]
    BY LoopTypes, <1>1 DEF ToolState
  <2>2. CASE LoopEnds(u)
    <3>1. tool' = [tool EXCEPT ![u] = [tool[u] EXCEPT !.pc = tool[u].pc + 1]]
      BY <2>2 DEF LoopEnds, Set
    <3>2. [tool[u] EXCEPT !.pc = tool[u].pc + 1]
            = [tool[u] EXCEPT !.pc = tool[u].pc + 1, !.ready = tool[u].ready]
      BY LoopTypes, <1>1 DEF ToolState
    <3>3. tool[u].pc + 1 \in Nat /\ tool[u].pc + 1 \in 1 .. Len(Program(u)) + 1
          /\ tool[u].ready \in SUBSET Chan
      BY LoopTypes, <1>1 DEF ToolState
    <3> QED BY <3>1, <3>2, <3>3
  <2>3. CASE Poll(u)
    <3> DEFINE r == {c \in ToSet(Job(u).chans) : PollIn(c)}
    <3>1. tool' = [tool EXCEPT ![u] = [tool[u] EXCEPT !.ready = r]]
      BY <2>3 DEF Poll, Set
    <3>2. r \in SUBSET Chan
      BY LoopTypes, <1>1
    <3> HIDE DEF r
    <3>3. [tool[u] EXCEPT !.ready = r] = [tool[u] EXCEPT !.pc = tool[u].pc, !.ready = r]
      BY LoopTypes, <1>1 DEF ToolState
    <3>4. tool[u].pc \in Nat /\ tool[u].pc \in 1 .. Len(Program(u)) + 1
      BY LoopTypes, <1>1 DEF ToolState
    <3> QED BY <3>1, <3>2, <3>3, <3>4
  <2> QED BY <2>2, <2>3
<1>5. PICK n \in Nat, r \in SUBSET Chan :
         /\ n \in 1 .. Len(Program(u)) + 1
         /\ tool' = [tool EXCEPT ![u] = [tool[u] EXCEPT !.pc = n, !.ready = r]]
  BY <1>4
<1> DEFINE t == [tool[u] EXCEPT !.pc = n, !.ready = r]
<1>6. t \in ToolState /\ t.pc = n /\ t.job = tool[u].job
  BY LoopTypes, <1>1 DEF ToolState
<1>7. tool' = [tool EXCEPT ![u] = t]
  BY <1>5
<1> HIDE DEF t
<1>8. call'[u] = NoCall /\ tool'[u] = t
  BY <1>1, <1>2, <1>7 DEF CallInv
<1>9. t.pc \in 1 .. Len(Programs[t.job]) + 1 /\ req'[u].at = "idle"
  BY <1>1, <1>3, <1>5, <1>6 DEF Program
<1>10. ProcInv(u)'
  BY <1>6, <1>8, <1>9, ProcWithoutCall
<1> QED BY <1>1, <1>2, <1>6, <1>7, <1>10, NoCallTypes, OwnStep

\* The read of a readout loop.
LEMMA LoopReadCall ==
  ASSUME NEW c \in Chan, NEW n \in Int, NEW k \in {Read(c, n), ReadNonBlock(c, n)}
  PROVE  /\ k \in CallState /\ k.fn = "read" /\ Len(k.script) = 1 /\ k.at = 1 /\ k.err = "none"
         /\ k.script[1].attr \in {"read", "read_nonblock"} /\ k.script[1].chan = c
         /\ k.res = <<>> /\ k.buf = <<>> /\ k.acc = <<>> /\ ~Rejects(k)
<1>1. PICK a \in {"read", "read_nonblock"} : k = Call("read", <<Step(a, c, n)>>)
  BY DEF Read, ReadNonBlock
<1>2. Step(a, c, n) \in ScriptStep
  <2>1. a \in AttrName \union ReadSteps \union {"descriptors"}
    BY DEF ReadSteps
  <2> QED BY <2>1, StepTypes
<1>3. Step(a, c, n).attr = a /\ Step(a, c, n).chan = c
  BY DEF Step, SetOf
<1> DEFINE s == <<Step(a, c, n)>>
<1>4. s \in Seq(ScriptStep) /\ Len(s) = 1 /\ s[1] = Step(a, c, n)
  BY <1>2
<1> HIDE DEF s
<1>5. k = [fn |-> "read", script |-> s, at |-> 1, res |-> <<>>, buf |-> <<>>, acc |-> <<>>,
           err |-> "none"]
  BY <1>1 DEF Call, s
<1>6. "read" \in CallName /\ "none" \in Errno /\ <<>> \in Seq(Int) /\ <<>> \in Seq(Nat) /\ 1 \in Nat
  BY DEF CallName, Errno
<1>7. k \in CallState
  BY <1>4, <1>5, <1>6 DEF CallState
<1> QED BY <1>3, <1>4, <1>5, <1>7 DEF Rejects

\* The loop reads an input.
LEMMA ReadyKeeps ==
  ASSUME TypeInv, CallInv, NEW u \in User, ReadReady(u)
  PROVE  CallInv'
<1>1. InLoop(u) /\ call[u].fn = "none" /\ UNCHANGED <<req, got>>
  BY DEF ReadReady, Begin, sysVars, dataVars
<1>2. PICK c \in tool[u].ready :
        /\ Begin(u, IF Job(u).nblock THEN ReadNonBlock(c, ToRead(u)) ELSE Read(c, ToRead(u)))
        /\ Set(u, [tool[u] EXCEPT !.ready = @ \ {c}])
  BY DEF ReadReady
<1>3. c \in Chan /\ ToRead(u) \in Int /\ tool[u] \in ToolState
  BY <1>1, LoopTypes DEF ToolState
<1>4. PICK k \in {Read(c, ToRead(u)), ReadNonBlock(c, ToRead(u))} : Begin(u, k)
  BY <1>2
<1>5. /\ k \in CallState /\ k.fn = "read" /\ Len(k.script) = 1 /\ k.at = 1 /\ k.err = "none"
      /\ k.script[1].attr \in {"read", "read_nonblock"}
      /\ k.res = <<>> /\ k.buf = <<>> /\ k.acc = <<>> /\ ~Rejects(k)
  BY <1>3, LoopReadCall
<1>6. call' = [call EXCEPT ![u] = k]
  BY <1>4, <1>5 DEF Begin
<1> DEFINE t == [tool[u] EXCEPT !.ready = @ \ {c}]
<1>7. t \in ToolState /\ t.pc = tool[u].pc /\ t.job = tool[u].job
  BY <1>3 DEF ToolState
<1>8. tool' = [tool EXCEPT ![u] = t]
  BY <1>2 DEF Set
<1> HIDE DEF t
<1>9. call'[u] = k /\ tool'[u] = t
  BY <1>6, <1>8 DEF CallInv
<1>10. Over(u)' = Over(u) /\ InLoop(u)' = InLoop(u) /\ Program(u)' = Program(u)
  BY <1>7, <1>9 DEF Over, InLoop, Current, Program
<1>11. req[u].at = "idle"
  BY <1>1, NotOnSysfs DEF OnSysfs, InCall
<1>12. Shape(u)'
  <2>1. tool[u].pc \in 1 .. Len(Program(u)) + 1
    BY ProcTypes DEF ProcInv, Shape
  <2>2. tool'[u].pc \in 1 .. Len(Program(u)') + 1
    BY <1>7, <1>9, <1>10, <2>1
  <2> QED BY <1>5, <1>9, <2>2 DEF Shape
<1>13. CallOf(u)'
  <2>1. ~Over(u)' /\ InLoop(u)'
    BY <1>1, <1>10 DEF InLoop
  <2> QED BY <1>5, <1>9, <2>1 DEF CallOf, LoopRead
<1>14. TakenInv(u)' /\ ReqOf(u)'
  BY <1>1, <1>5, <1>9, <1>11 DEF TakenInv, ReqOf
<1>15. Returned(u)'
  BY <1>5, <1>9 DEF Returned, Ended, InCall
<1> QED BY <1>1, <1>5, <1>6, <1>7, <1>8, <1>12, <1>13, <1>14, <1>15, OwnStep DEF ProcInv

\* The numbers missing are numbers.
LEMMA MissingType ==
  ASSUME NEW p \in Nat, NEW s \in Seq(Nat)
  PROVE  Missing(p, s) \in SUBSET Nat
<1> DEFINE seen == <<p>> \o s
           between(i) == IF seen[i] = 0 THEN {}
                         ELSE IF seen[i] < seen[i + 1] THEN seen[i] + 1 .. seen[i + 1] - 1 ELSE {0}
<1>1. ASSUME NEW i \in 1 .. Len(s) PROVE between(i) \subseteq Nat
  <2>1. seen \in Seq(Nat) /\ Len(seen) = Len(s) + 1
    OBVIOUS
  <2>2. seen[i] \in Nat /\ seen[i + 1] \in Nat
    BY <2>1
  <2> HIDE DEF seen
  <2> QED BY <2>2
<1>2. Missing(p, s) = UNION {between(i) : i \in 1 .. Len(s)}
  BY DEF Missing
<1> HIDE DEF between
<1> QED BY <1>1, <1>2

\* The end of a sequence.
LEMMA EndOfSeq ==
  ASSUME NEW q \in Seq(Nat), NEW n \in 1 .. Len(q)
  PROVE  /\ SubSeq(q, Len(q) - n + 1, Len(q)) \in Seq(Nat)
         /\ Len(SubSeq(q, Len(q) - n + 1, Len(q))) = n
         /\ \A i \in 1 .. n : SubSeq(q, Len(q) - n + 1, Len(q))[i] = q[Len(q) - n + i]
<1>1. Len(q) \in Nat
  OBVIOUS
<1>2. Len(q) - n + 1 \in 1 .. Len(q) + 1 /\ Len(q) \in (Len(q) - n + 1) - 1 .. Len(q)
      /\ Len(q) - n + 1 <= Len(q) /\ Len(q) - (Len(q) - n + 1) + 1 = n
  BY <1>1
<1> DEFINE m == Len(q) - n + 1
           e == Len(q)
<1>3. /\ SubSeq(q, m, e) \in Seq(Nat)
      /\ Len(SubSeq(q, m, e)) = IF m <= e THEN e - m + 1 ELSE 0
      /\ \A i \in 1 .. e - m + 1 : SubSeq(q, m, e)[i] = q[m + i - 1]
  <2>1. m \in 1 .. Len(q) + 1 /\ e \in m - 1 .. Len(q)
    BY <1>2
  <2> HIDE DEF m, e
  <2> QED BY <2>1, SubSeqProperties
<1>4. \A i \in 1 .. n : m + i - 1 = Len(q) - n + i
  BY <1>1
<1> QED BY <1>2, <1>3, <1>4

\* What a read of the loop has returned.
LEMMA LoopResult ==
  ASSUME TypeInv, CallInv, DataInv, NEW u \in User, InLoop(u), Ended(u)
  PROVE  /\ Head(call[u].script).chan \in Chan /\ call[u].script[1] \in ScriptStep
         /\ call[u].err = "none" =>
              call[u].res[1] \in 0 .. Len(got[u][Head(call[u].script).chan])
<1>1. LoopRead(u) /\ Returned(u) /\ call[u] \in CallState
  BY ProcTypes DEF ProcInv, CallOf, Ended, InLoop
<1>2. call[u].script \in Seq(ScriptStep) /\ Len(call[u].script) = 1
  BY <1>1 DEF CallState, LoopRead
<1>3. Head(call[u].script) = call[u].script[1] /\ call[u].script[1] \in ScriptStep
  BY <1>2
<1> QED BY <1>1, <1>3 DEF Returned, ScriptStep

\* The loop takes a result.
LEMMA ResultKeeps ==
  ASSUME TypeInv, CallInv, DataInv, NEW u \in User, LoopReturns(u)
  PROVE  CallInv'
<1> DEFINE k == call[u]
           t == tool[u]
           c == Head(k.script).chan
           n == IF k.err # "none" THEN -1 ELSE k.res[1]
           s == SubSeq(got[u][c], Len(got[u][c]) - n + 1, Len(got[u][c]))
           skip == Job(u).prog = "perftest" /\ s[1] < Skip
           missing == Missing(t.prev[c], s)
           stop == t.stop \/ (Job(u).strict /\ missing # {})
           t1 == [t EXCEPT !.pc = @ + 1, !.ready = {}]
           t2 == [t EXCEPT !.n = @ + n]
           t3 == [t EXCEPT !.n = @ + n, !.prev[c] = Last(s), !.missed[c] = @ \union missing,
                           !.stop = @ \/ (Job(u).strict /\ missing # {})]
<1>1. InLoop(u) /\ Ended(u) /\ call' = [call EXCEPT ![u] = NoCall] /\ UNCHANGED <<req, got>>
  BY DEF LoopReturns, sysVars, dataVars
<1>2. \/ Set(u, t1) \/ Set(u, t2) \/ (~(n <= 0) /\ Set(u, t3))
  BY DEF LoopReturns
<1>3. c \in Chan /\ n \in -1 .. Len(got[u][c]) /\ n \in Int
  <2>1. got[u][c] \in Seq(Nat) /\ c \in Chan
    BY <1>1, LoopResult DEF DataInv
  <2>3. k.err = "none" => k.res[1] \in 0 .. Len(got[u][c])
    BY <1>1, LoopResult
  <2> HIDE DEF c
  <2>2. Len(got[u][c]) \in Nat
    BY <2>1
  <2> QED BY <2>1, <2>2, <2>3
<1>4. t \in ToolState /\ t.pc \in 1 .. Len(Program(u)) /\ Len(Program(u)) \in Nat
  BY <1>1, LoopTypes
<1>5. t1 \in ToolState /\ t1.pc = t.pc + 1 /\ t1.job = t.job
  <2>1. t.pc + 1 \in Nat /\ {} \in SUBSET Chan
    BY <1>4 DEF ToolState
  <2> HIDE DEF t
  <2> QED BY <1>4, <2>1 DEF ToolState
<1>6. t2 \in ToolState /\ t2.pc = t.pc /\ t2.job = t.job
  <2>1. t.n + n \in Int
    BY <1>3, <1>4 DEF ToolState
  <2> HIDE DEF t, n
  <2> QED BY <1>4, <2>1 DEF ToolState
<1>7. ASSUME ~(n <= 0) PROVE t3 \in ToolState /\ t3.pc = t.pc /\ t3.job = t.job
  <2>1. got[u][c] \in Seq(Nat) /\ n \in 1 .. Len(got[u][c])
    BY <1>3, <1>7 DEF DataInv
  <2>2. s \in Seq(Nat) /\ Len(s) = n
    <3> HIDE DEF n, c
    <3> QED BY <2>1, EndOfSeq
  <2>3. Last(s) \in Nat
    <3> HIDE DEF s
    <3> QED BY <2>1, <2>2 DEF Last
  <2>4. t.prev \in [Chan -> Nat] /\ t.missed \in [Chan -> SUBSET Nat] /\ t.stop \in BOOLEAN
    BY <1>4 DEF ToolState
  <2>5. missing \in SUBSET Nat
    BY <1>3, <2>2, <2>4, MissingType
  <2> HIDE DEF s, c, n, missing
  <2>6. [t.prev EXCEPT ![c] = Last(s)] \in [Chan -> Nat]
    BY <2>3, <2>4
  <2>7. [t.missed EXCEPT ![c] = @ \union missing] \in [Chan -> SUBSET Nat]
    BY <1>3, <2>4, <2>5
  <2>8. t.n + n \in Int
    BY <1>3, <1>4 DEF ToolState
  <2>9. (t.stop \/ (Job(u).strict /\ missing # {})) \in BOOLEAN
    OBVIOUS
  <2>10. t3 = [t EXCEPT !.n = t.n + n, !.prev = [t.prev EXCEPT ![c] = Last(s)],
                        !.missed = [t.missed EXCEPT ![c] = @ \union missing],
                        !.stop = (t.stop \/ (Job(u).strict /\ missing # {}))]
    BY <1>4 DEF ToolState
  <2> DEFINE p == [t.prev EXCEPT ![c] = Last(s)]
             m == [t.missed EXCEPT ![c] = @ \union missing]
             b == (t.stop \/ (Job(u).strict /\ missing # {}))
             v == t.n + n
  <2>11. t3 = [t EXCEPT !.n = v, !.prev = p, !.missed = m, !.stop = b]
    BY <2>10
  <2>12. p \in [Chan -> Nat] /\ m \in [Chan -> SUBSET Nat] /\ b \in BOOLEAN /\ v \in Int
    BY <2>6, <2>7, <2>8, <2>9
  <2> HIDE DEF p, m, b, v, t3
  <2> QED BY <1>4, <2>11, <2>12 DEF ToolState
<1>8. PICK r \in ToolState : /\ tool' = [tool EXCEPT ![u] = r] /\ r.job = t.job
                             /\ r.pc \in {t.pc, t.pc + 1}
  <2> HIDE DEF t1, t2, t3, n
  <2> QED BY <1>2, <1>5, <1>6, <1>7 DEF Set
<1>9. call'[u] = NoCall /\ tool'[u] = r
  BY <1>1, <1>8 DEF CallInv
<1>10. req'[u].at = "idle"
  BY <1>1, NotOnSysfs DEF OnSysfs, Ended
<1>11. r.pc \in 1 .. Len(Programs[r.job]) + 1
  BY <1>4, <1>8 DEF Program
<1>12. ProcInv(u)'
  BY <1>9, <1>10, <1>11, ProcWithoutCall
<1> QED BY <1>1, <1>8, <1>12, NoCallTypes, OwnStep

\* SIGINT.
LEMMA SignalKeeps ==
  ASSUME TypeInv, CallInv, DataInv, NEW u \in User, Signal(u)
  PROVE  CallInv'
<1> DEFINE t == [tool[u] EXCEPT !.stop = TRUE]
<1>1. tool' = [tool EXCEPT ![u] = t] /\ UNCHANGED <<req, got>>
  BY DEF Signal, Set, sysVars
<1>2. tool[u] \in ToolState /\ call[u] \in CallState /\ ProcInv(u)
  BY ProcTypes
<1>3. t \in ToolState /\ t.pc = tool[u].pc /\ t.job = tool[u].job
  BY <1>2 DEF ToolState
<1> HIDE DEF t
<1>4. tool'[u] = t
  BY <1>1 DEF CallInv
<1>5. /\ Over(u)' = Over(u) /\ InLoop(u)' = InLoop(u) /\ Program(u)' = Program(u)
      /\ Current(u)' = Current(u) /\ tool'[u].pc = tool[u].pc
  BY <1>3, <1>4 DEF Over, InLoop, Current, Program
<1>6. CASE UNCHANGED call
  <2>1. call' = [call EXCEPT ![u] = call[u]]
    BY <1>6 DEF CallInv
  <2>2. InCall(u)' = InCall(u) /\ Now(u)' = Now(u) /\ OnSysfs(u)' = OnSysfs(u)
        /\ NowSysfs(u)' = NowSysfs(u) /\ Reading(u)' = Reading(u) /\ Ended(u)' = Ended(u)
    BY <1>6 DEF InCall, Now, OnSysfs, NowSysfs, Restore, Reading, Ended
  <2>3. Shape(u)' /\ CallOf(u)'
    BY <1>2, <1>5, <1>6 DEF ProcInv, Shape, CallOf, LoopRead
  <2>4. TakenInv(u)' /\ ReqOf(u)' /\ Returned(u)'
    BY <1>1, <1>2, <1>5, <1>6, <2>2 DEF ProcInv, TakenInv, ReqOf, Returned
  <2>5. ProcInv(u)'
    BY <2>3, <2>4 DEF ProcInv
  <2> QED BY <1>1, <1>2, <1>3, <2>1, <2>5, OwnStep
<1>7. CASE Waiting(u) /\ ReadReturnsError(u, "EIO")
  <2> DEFINE k == [call[u] EXCEPT !.err = "EIO", !.acc = <<>>, !.buf = <<>>]
  <2>1. call' = [call EXCEPT ![u] = k] /\ Reading(u)
    BY <1>7 DEF Waiting, ReadReturnsError
  <2>2. /\ k \in CallState /\ k.fn = call[u].fn /\ k.script = call[u].script /\ k.at = call[u].at
        /\ k.res = call[u].res /\ k.err = "EIO" /\ k.buf = <<>> /\ k.acc = <<>>
    <3>1. "EIO" \in Errno /\ <<>> \in Seq(Nat)
      BY DEF Errno
    <3> QED BY <1>2, <3>1 DEF CallState
  <2> HIDE DEF k
  <2>3. call'[u] = k
    BY <2>1 DEF CallInv
  <2>4. Shape(u)' /\ CallOf(u)'
    BY <1>2, <1>5, <2>1, <2>2, <2>3 DEF ProcInv, Shape, CallOf, LoopRead, Reading, InCall
  <2>5. req'[u].at = "idle"
    BY <1>1, <2>1, NotOnSysfs DEF OnSysfs, Reading
  <2>6. TakenInv(u)' /\ ReqOf(u)' /\ Returned(u)'
    BY <2>2, <2>3, <2>5 DEF TakenInv, ReqOf, Returned
  <2>7. ProcInv(u)'
    BY <2>4, <2>6 DEF ProcInv
  <2> QED BY <1>1, <1>3, <2>1, <2>2, <2>7, OwnStep
<1> QED BY <1>6, <1>7 DEF Signal

-----------------------------------------------------------------------------
(* The steps of a call *)

\* A call stays the one its program is at.
LEMMA CallGoesOn ==
  ASSUME TypeInv, CallInv, NEW u \in User, InCall(u), NEW k \in CallState,
         call' = [call EXCEPT ![u] = k], UNCHANGED tool,
         \A w \in User : w # u => req'[w] = req[w] /\ got'[w] = got[w],
         k.fn = call[u].fn, k.script = call[u].script, k.at \in {call[u].at, call[u].at + 1},
         Len(k.res) = k.at - 1, TakenInv(u)', ReqOf(u)', Returned(u)'
  PROVE  CallInv'
<1>1. call'[u] = k
  BY DEF CallInv
<1>2. /\ Over(u)' = Over(u) /\ InLoop(u)' = InLoop(u) /\ Program(u)' = Program(u)
      /\ Current(u)' = Current(u)
  BY ToolSame
<1>3. Shape(u) /\ CallOf(u)
  BY ProcTypes DEF ProcInv
<1>4. call[u].at \in 1 .. Len(call[u].script) /\ Len(call[u].script) \in Nat
  BY NowTypes
<1>5. k.at \in 1 .. Len(k.script) + 1
  <2> DEFINE a == call[u].at
             n == Len(call[u].script)
  <2>1. a \in 1 .. n /\ n \in Nat /\ Len(k.script) = n /\ k.at \in {a, a + 1}
    BY <1>4
  <2> HIDE DEF a, n
  <2> QED BY <2>1
<1>6. Shape(u)'
  BY <1>1, <1>2, <1>3, <1>5 DEF Shape
<1>7. CallOf(u)'
  BY <1>1, <1>2, <1>3 DEF CallOf, LoopRead, InCall
<1> QED BY <1>6, <1>7, OwnCall DEF ProcInv

\* One more result.
LEMMA NextStepTypes ==
  ASSUME TypeInv, CallInv, NEW u \in User, NEW v \in Int, InCall(u), NextStep(u, v)
  PROVE  \E k \in CallState :
           /\ call' = [call EXCEPT ![u] = k] /\ call'[u] = k
           /\ k.fn = call[u].fn /\ k.script = call[u].script /\ k.at = call[u].at + 1
           /\ Len(k.res) = k.at - 1 /\ k.buf = call[u].buf /\ k.acc = call[u].acc
           /\ k.err = call[u].err
<1> DEFINE k == [call[u] EXCEPT !.at = @ + 1, !.res = Append(@, v)]
<1>1. call[u] \in CallState /\ Shape(u)
  BY ProcTypes DEF ProcInv
<1>2. call[u].at + 1 \in Nat /\ Append(call[u].res, v) \in Seq(Int)
      /\ Len(Append(call[u].res, v)) = Len(call[u].res) + 1
  BY <1>1 DEF CallState
<1>3. /\ k \in CallState /\ k.fn = call[u].fn /\ k.script = call[u].script /\ k.at = call[u].at + 1
      /\ k.res = Append(call[u].res, v) /\ k.buf = call[u].buf /\ k.acc = call[u].acc
      /\ k.err = call[u].err
  BY <1>1, <1>2 DEF CallState
<1>4. call' = [call EXCEPT ![u] = k]
  BY DEF NextStep
<1> HIDE DEF k
<1>5. call'[u] = k
  BY <1>4 DEF CallInv
<1>6. Len(k.res) = k.at - 1
  <2>1. Len(call[u].res) = call[u].at - 1 /\ call[u].at \in Nat
    BY <1>1 DEF Shape, CallState
  <2> QED BY <1>2, <1>3, <2>1
<1> QED BY <1>3, <1>4, <1>5, <1>6

\* An error.
LEMMA FailTypes ==
  ASSUME TypeInv, CallInv, NEW u \in User, NEW e \in Errno, e # "none", InCall(u), Fail(u, e)
  PROVE  \E k \in CallState :
           /\ call' = [call EXCEPT ![u] = k] /\ call'[u] = k
           /\ k.fn = call[u].fn /\ k.script = call[u].script /\ k.at = call[u].at
           /\ Len(k.res) = k.at - 1 /\ k.buf = call[u].buf /\ k.acc = call[u].acc /\ k.err = e
<1> DEFINE k == [call[u] EXCEPT !.err = e]
<1>1. call[u] \in CallState /\ Shape(u)
  BY ProcTypes DEF ProcInv
<1>2. /\ k \in CallState /\ k.fn = call[u].fn /\ k.script = call[u].script /\ k.at = call[u].at
      /\ k.res = call[u].res /\ k.buf = call[u].buf /\ k.acc = call[u].acc /\ k.err = e
  BY <1>1 DEF CallState
<1>3. call' = [call EXCEPT ![u] = k]
  BY DEF Fail
<1> HIDE DEF k
<1>4. call'[u] = k /\ Len(k.res) = k.at - 1
  BY <1>1, <1>2, <1>3 DEF CallInv, Shape
<1> QED BY <1>2, <1>3, <1>4

\* A step of the loop takes nothing that is not a read.
LEMMA LoopNow ==
  ASSUME TypeInv, CallInv, NEW u \in User, InCall(u), InLoop(u)
  PROVE  /\ call[u].fn = "read" /\ Len(call[u].script) = 1 /\ call[u].at = 1
         /\ Now(u) = call[u].script[1] /\ Now(u) = Head(call[u].script)
         /\ Now(u).attr \in {"read", "read_nonblock"}
<1>1. LoopRead(u)
  BY ProcTypes DEF ProcInv, CallOf, InCall
<1>2. call[u].at \in 1 .. Len(call[u].script) /\ call[u].script \in Seq(ScriptStep)
  BY NowTypes
<1>3. call[u].at = 1
  BY <1>1, <1>2 DEF LoopRead
<1> QED BY <1>1, <1>2, <1>3 DEF LoopRead, Now

\* An access of a call ends, or something that is not a read.
LEMMA StepEnds ==
  ASSUME TypeInv, CallInv, NEW u \in User, InCall(u), ~Reading(u), UNCHANGED <<tool, got>>,
         \A w \in User : w # u => req'[w] = req[w], req'[u].at = "idle",
         \/ \E v \in Int : NextStep(u, v)
         \/ \E e \in Errno \ {"none"} : Fail(u, e)
  PROVE  CallInv'
<1>1. call[u].buf = <<>> /\ call[u].acc = <<>>
  BY ProcTypes DEF ProcInv, TakenInv
<1>2. PICK k \in CallState :
        /\ call' = [call EXCEPT ![u] = k] /\ call'[u] = k
        /\ k.fn = call[u].fn /\ k.script = call[u].script /\ k.at \in {call[u].at, call[u].at + 1}
        /\ Len(k.res) = k.at - 1 /\ k.buf = call[u].buf /\ k.acc = call[u].acc
  <2>1. CASE \E v \in Int : NextStep(u, v)
    BY <2>1, NextStepTypes
  <2>2. CASE \E e \in Errno \ {"none"} : Fail(u, e)
    BY <2>2, FailTypes
  <2> QED BY <2>1, <2>2
<1>3. TakenInv(u)' /\ ReqOf(u)'
  BY <1>1, <1>2 DEF TakenInv, ReqOf
<1>4. ~InLoop(u)
  BY LoopNow DEF Reading, ReadSteps
<1>5. Returned(u)'
  BY <1>4, ToolSame DEF Returned
<1> QED BY <1>2, <1>3, <1>5, CallGoesOn

\* A call goes to the driver.
LEMMA AccessKeeps ==
  ASSUME TypeInv, CallInv, NEW u \in User, UNCHANGED tool, SysfsCall(u) \/ SysfsCallFails(u)
  PROVE  CallInv'
<1>1. OnSysfs(u) /\ UNCHANGED <<call, got>> /\ NowSysfs(u) \in Attribute
  BY AccessIsAttribute DEF SysfsCall, SysfsCallFails, dataVars
<1>2. /\ req'[u].acc = NowSysfs(u)
      /\ \A w \in User : w # u => req'[w] = req[w]
  <2>1. ASSUME NEW l, NEW e, req' = [req EXCEPT ![u] = [IdleReq EXCEPT !.at = l, !.acc = NowSysfs(u), !.err = e]]
        PROVE  req'[u].acc = NowSysfs(u) /\ \A w \in User : w # u => req'[w] = req[w]
    <3> DEFINE r == [IdleReq EXCEPT !.at = l, !.acc = NowSysfs(u), !.err = e]
    <3>1. r.acc = NowSysfs(u)
      BY DEF IdleReq
    <3> HIDE DEF r
    <3> QED BY <2>1, <3>1 DEF TypeInv, r
  <2>2. ASSUME NEW l, req' = [req EXCEPT ![u] = [IdleReq EXCEPT !.at = l, !.acc = NowSysfs(u)]]
        PROVE  req'[u].acc = NowSysfs(u) /\ \A w \in User : w # u => req'[w] = req[w]
    <3> DEFINE r == [IdleReq EXCEPT !.at = l, !.acc = NowSysfs(u)]
    <3>1. r.acc = NowSysfs(u)
      BY DEF IdleReq
    <3> HIDE DEF r
    <3> QED BY <2>2, <3>1 DEF TypeInv, r
  <2>3. CASE SysfsCall(u)
    BY <2>2, <2>3 DEF SysfsCall, Access
  <2>4. CASE SysfsCallFails(u)
    BY <2>1, <2>4 DEF SysfsCallFails, AccessFails
  <2> QED BY <2>3, <2>4
<1>3. OnSysfs(u)' = OnSysfs(u) /\ NowSysfs(u)' = NowSysfs(u)
  BY <1>1 DEF OnSysfs, InCall, Now, NowSysfs, Restore
<1>4. ReqOf(u)'
  BY <1>1, <1>2, <1>3 DEF ReqOf
<1>5. Shape(u)' /\ CallOf(u)' /\ TakenInv(u)' /\ Returned(u)'
  <2>1. Shape(u) /\ CallOf(u) /\ TakenInv(u) /\ Returned(u)
    BY ProcTypes DEF ProcInv
  <2> QED BY <1>1, <2>1 DEF Shape, Program, CallOf, Over, InLoop, Current, LoopRead, TakenInv, Reading,
                      InCall, Now, Returned, Ended
<1>6. ASSUME NEW w \in User, w # u PROVE ProcInv(w)'
  BY <1>1, <1>2, <1>6, BystanderKeepsCall DEF CallInv
<1> QED BY <1>1, <1>4, <1>5, <1>6 DEF CallInv, ProcInv

\* ... and comes back from it, or opens the descriptors of an input.
LEMMA ComesBack ==
  ASSUME TypeInv, CallInv, NEW u \in User, UNCHANGED tool,
         SysfsReturn(u) \/ OpenChannel(u) \/ OpenChannelFails(u)
  PROVE  CallInv'
<1>0. req[u] \in Req /\ req \in [User -> Req]
  BY DEF TypeInv
<1>1. CASE SysfsReturn(u)
  <2>1. InCall(u) /\ Return(u) /\ UNCHANGED got
    BY <1>1 DEF SysfsReturn, dataVars
  <2>2. OnSysfs(u)
    BY <2>1, ProcTypes DEF ProcInv, ReqOf, Return, At
  <2>3. ~Reading(u)
    BY <2>2 DEF OnSysfs, Reading
  <2>4. req'[u].at = "idle" /\ \A w \in User : w # u => req'[w] = req[w]
    BY <1>0, <2>1 DEF Return, IdleReq
  <2>5. \/ \E v \in Int : NextStep(u, v)
        \/ \E e \in Errno \ {"none"} : Fail(u, e)
    <3>1. req[u].err \in Errno /\ req[u].ret \in Int /\ "EINVAL" \in Errno
      BY <1>0 DEF Req, Errno
    <3> QED BY <1>1, <3>1 DEF SysfsReturn
  <2> QED BY <2>1, <2>3, <2>4, <2>5, StepEnds
<1>2. CASE OpenChannel(u) \/ OpenChannelFails(u)
  <2>1. InCall(u) /\ Now(u).attr = "descriptors" /\ UNCHANGED <<got, req>>
    BY <1>2 DEF OpenChannel, OpenChannelFails, dataVars, sysVars
  <2>2. ~Reading(u) /\ ~OnSysfs(u)
    BY <2>1 DEF Reading, OnSysfs, ReadSteps
  <2>3. req'[u].at = "idle" /\ \A w \in User : w # u => req'[w] = req[w]
    BY <2>1, <2>2, NotOnSysfs
  <2>4. \/ \E v \in Int : NextStep(u, v)
        \/ \E e \in Errno \ {"none"} : Fail(u, e)
    BY <1>2 DEF OpenChannel, OpenChannelFails, Errno
  <2> QED BY <2>1, <2>2, <2>3, <2>4, StepEnds
<1> QED BY <1>1, <1>2

-----------------------------------------------------------------------------
(* Reads *)

\* What a read has in hand.
LEMMA ReadTypes ==
  ASSUME TypeInv, CallInv, DataInv, NEW u \in User, Reading(u)
  PROVE  /\ InCall(u) /\ RdChan(u) \in Chan /\ RdChan(u) = Now(u).chan /\ Now(u) \in ScriptStep
         /\ call[u] \in CallState /\ Buf(u) \in Seq(Nat) /\ call[u].buf = Buf(u)
         /\ call[u].acc \in Seq(Nat)
         /\ (call[u].acc \o Buf(u)) \in Seq(Nat) /\ Len(call[u].acc \o Buf(u)) \in Nat
         /\ Len(call[u].res) = call[u].at - 1 /\ call[u].at \in Nat
         /\ req[u].at = "idle"
         /\ Now(u).attr # "fread" => call[u].acc = <<>>
         /\ zbuf[RdChan(u)] \in Seq(Nat) /\ got[u][RdChan(u)] \in Seq(Nat)
<1>1. InCall(u)
  BY DEF Reading
<1>2. RdChan(u) \in Chan /\ RdChan(u) = Now(u).chan /\ Now(u) \in ScriptStep
  BY <1>1, NowTypes DEF RdChan
<1>3. call[u] \in CallState /\ Shape(u) /\ TakenInv(u)
  BY ProcTypes DEF ProcInv
<1>4. Buf(u) \in Seq(Nat) /\ call[u].acc \in Seq(Nat) /\ Len(call[u].res) = call[u].at - 1
      /\ call[u].at \in Nat
  BY <1>3 DEF CallState, Buf, Shape
<1>5. (call[u].acc \o Buf(u)) \in Seq(Nat) /\ Len(call[u].acc \o Buf(u)) \in Nat
  BY <1>4
<1>6. req[u].at = "idle"
  BY NotOnSysfs DEF OnSysfs, Reading
<1> QED BY <1>1, <1>2, <1>3, <1>4, <1>5, <1>6 DEF TakenInv, DataInv, Buf

\* A read goes on: the call is where it was.
LEMMA ReadGoesOn ==
  ASSUME TypeInv, CallInv, DataInv, NEW u \in User, Reading(u), UNCHANGED <<tool, req, got>>,
         NEW b \in Seq(Nat), NEW a \in Seq(Nat), a # <<>> => Now(u).attr = "fread",
         call' = [call EXCEPT ![u] = [call[u] EXCEPT !.buf = b, !.acc = a]]
  PROVE  CallInv'
<1> DEFINE k == [call[u] EXCEPT !.buf = b, !.acc = a]
<1>1. InCall(u) /\ call[u] \in CallState /\ req[u].at = "idle" /\ Len(call[u].res) = call[u].at - 1
  BY ReadTypes
<1>2. /\ k \in CallState /\ k.fn = call[u].fn /\ k.script = call[u].script /\ k.at = call[u].at
      /\ k.res = call[u].res /\ k.err = call[u].err /\ k.buf = b /\ k.acc = a
  BY <1>1 DEF CallState
<1>3. call' = [call EXCEPT ![u] = k]
  OBVIOUS
<1> HIDE DEF k
<1>4. call'[u] = k
  BY <1>3 DEF CallInv
<1>5. InCall(u)' = InCall(u) /\ Now(u)' = Now(u) /\ Reading(u)' = Reading(u) /\ Ended(u)' = Ended(u)
  BY <1>2, <1>4 DEF InCall, Now, Reading, Ended
<1>6. TakenInv(u)' /\ ReqOf(u)'
  BY <1>1, <1>2, <1>4, <1>5 DEF TakenInv, ReqOf
<1>7. Returned(u)'
  BY <1>1, <1>5 DEF Returned, Ended
<1> QED BY <1>1, <1>2, <1>3, <1>6, <1>7, CallGoesOn

\* A read returns timestamps.
LEMMA ReturnedKeeps ==
  ASSUME TypeInv, CallInv, DataInv, NEW u \in User, Reading(u), UNCHANGED <<tool, req>>,
         ReadReturns(u)
  PROVE  CallInv' /\ \A w \in User : \A d \in Chan :
                       got'[w][d] = IF w = u /\ d = RdChan(u) /\ Now(u).attr # "drain"
                                       /\ ~(Now(u).attr = "fread"
                                            /\ Len(call[u].acc \o Buf(u)) < Now(u).val)
                                    THEN got[w][d] \o (call[u].acc \o Buf(u)) ELSE got[w][d]
<1> DEFINE all == call[u].acc \o Buf(u)
           c == RdChan(u)
<1>0. <<>> \in Seq(Nat)
  OBVIOUS
<1>1. CASE Now(u).attr = "drain"
  <2>1. call' = [call EXCEPT ![u].buf = <<>>] /\ UNCHANGED got
    BY <1>1 DEF ReadReturns
  <2>2. call[u].acc = <<>> /\ call[u] \in CallState
    BY <1>1, ReadTypes
  <2>3. [call[u] EXCEPT !.buf = <<>>] = [call[u] EXCEPT !.buf = <<>>, !.acc = <<>>]
    BY <2>2 DEF CallState
  <2>4. call' = [call EXCEPT ![u] = [call[u] EXCEPT !.buf = <<>>, !.acc = <<>>]]
    BY <2>1, <2>3
  <2> QED BY <1>0, <1>1, <2>1, <2>4, ReadGoesOn
<1>2. CASE Now(u).attr = "fread" /\ Len(all) < Now(u).val
  <2>1. call' = [call EXCEPT ![u] = [call[u] EXCEPT !.acc = all, !.buf = <<>>]] /\ UNCHANGED got
    BY <1>2 DEF ReadReturns
  <2>2. all \in Seq(Nat) /\ call[u] \in CallState
    BY ReadTypes
  <2>3. [call[u] EXCEPT !.acc = all, !.buf = <<>>] = [call[u] EXCEPT !.buf = <<>>, !.acc = all]
    BY <2>2 DEF CallState
  <2>4. call' = [call EXCEPT ![u] = [call[u] EXCEPT !.buf = <<>>, !.acc = all]]
    BY <2>1, <2>3
  <2>5. CallInv'
    <3> HIDE DEF all
    <3> QED BY <1>0, <1>2, <2>1, <2>2, <2>4, ReadGoesOn
  <2> QED BY <1>2, <2>1, <2>5
<1>3. CASE ~(Now(u).attr = "drain") /\ ~(Now(u).attr = "fread" /\ Len(all) < Now(u).val)
  <2> DEFINE k == [call[u] EXCEPT !.acc = <<>>, !.buf = <<>>, !.at = @ + 1, !.res = Append(@, Len(all))]
  <2>1. call' = [call EXCEPT ![u] = k] /\ got' = [got EXCEPT ![u][c] = @ \o all]
    BY <1>3 DEF ReadReturns
  <2>2. /\ call[u] \in CallState /\ all \in Seq(Nat) /\ Len(all) \in Nat /\ c \in Chan
        /\ Len(call[u].res) = call[u].at - 1 /\ call[u].at \in Nat /\ InCall(u)
        /\ req[u].at = "idle" /\ got[u][c] \in Seq(Nat)
    BY ReadTypes
  <2>3. Append(call[u].res, Len(all)) \in Seq(Int) /\ call[u].at + 1 \in Nat
        /\ Len(Append(call[u].res, Len(all))) = Len(call[u].res) + 1
        /\ (Len(call[u].res) = 0 => Append(call[u].res, Len(all))[1] = Len(all))
    <3>1. call[u].res \in Seq(Int) /\ Len(all) \in Int
      BY <2>2 DEF CallState
    <3> HIDE DEF all
    <3> QED BY <2>2, <3>1
  <2>4. /\ k \in CallState /\ k.fn = call[u].fn /\ k.script = call[u].script
        /\ k.at = call[u].at + 1 /\ k.res = Append(call[u].res, Len(all))
        /\ k.err = call[u].err /\ k.buf = <<>> /\ k.acc = <<>>
    <3> HIDE DEF all
    <3> QED BY <1>0, <2>2, <2>3 DEF CallState
  <2>5. got'[u][c] = got[u][c] \o all /\ Len(got[u][c] \o all) = Len(got[u][c]) + Len(all)
        /\ Len(got[u][c]) \in Nat
    <3> HIDE DEF all, c
    <3>1. got'[u][c] = got[u][c] \o all
      BY <2>1, <2>2 DEF DataInv
    <3>2. Len(got[u][c] \o all) = Len(got[u][c]) + Len(all) /\ Len(got[u][c]) \in Nat
      BY <2>2
    <3> QED BY <3>1, <3>2
  <2>6. \A w \in User : w # u => got'[w] = got[w]
    BY <2>1 DEF DataInv
  <2>7. \A d \in Chan : d # c => got'[u][d] = got[u][d]
    BY <2>1, <2>2 DEF DataInv
  <2> HIDE DEF k, all, c
  <2>8. call'[u] = k
    BY <2>1 DEF CallInv
  <2>9. TakenInv(u)' /\ ReqOf(u)'
    BY <2>2, <2>4, <2>8 DEF TakenInv, ReqOf
  <2>10. Returned(u)'
    <3>1. CASE InLoop(u)
      <4>1. call[u].at = 1 /\ Now(u) = Head(call[u].script)
        BY <2>2, <3>1, LoopNow
      <4>2. c = Head(call[u].script).chan
        BY <4>1 DEF c, RdChan
      <4>3. k.res[1] = Len(all)
        BY <2>2, <2>3, <2>4, <4>1
      <4>4. Len(all) \in 0 .. Len(got'[u][c])
        BY <2>2, <2>5
      <4> QED BY <2>4, <2>8, <4>2, <4>3, <4>4 DEF Returned
    <3>2. CASE ~InLoop(u)
      BY <3>2, ToolSame DEF Returned
    <3> QED BY <3>1, <3>2
  <2>11. CallInv'
    <3>1. k.at \in {call[u].at, call[u].at + 1} /\ Len(k.res) = k.at - 1
      BY <2>2, <2>3, <2>4
    <3> QED BY <2>1, <2>2, <2>4, <2>6, <2>9, <2>10, <3>1, CallGoesOn
  <2> QED BY <1>3, <2>2, <2>5, <2>6, <2>7, <2>11 DEF all, c
<1> QED BY <1>1, <1>2, <1>3

\* A read returns an error.
LEMMA ErrorKeeps ==
  ASSUME TypeInv, CallInv, DataInv, NEW u \in User, Reading(u), UNCHANGED <<tool, req, got>>,
         NEW e \in Errno, e # "none", Buf(u) = <<>>, ReadReturnsError(u, e)
  PROVE  CallInv'
<1>0. InCall(u) /\ call[u] \in CallState /\ req[u].at = "idle" /\ Len(call[u].res) = call[u].at - 1
  BY ReadTypes
<1>1. CASE Now(u).attr = "drain"
  <2>1. PICK k \in CallState :
           /\ call' = [call EXCEPT ![u] = k] /\ call'[u] = k
           /\ k.fn = call[u].fn /\ k.script = call[u].script /\ k.at = call[u].at + 1
           /\ Len(k.res) = k.at - 1 /\ k.buf = call[u].buf /\ k.acc = call[u].acc
    <3>1. NextStep(u, 0) /\ 0 \in Int
      BY <1>1 DEF ReadReturnsError
    <3> QED BY <1>0, <3>1, NextStepTypes
  <2>2. k.buf = <<>> /\ k.acc = <<>>
    BY <1>1, <2>1, ReadTypes
  <2>3. TakenInv(u)' /\ ReqOf(u)'
    BY <1>0, <2>1, <2>2 DEF TakenInv, ReqOf
  <2>4. ~InLoop(u)
    BY <1>0, <1>1, LoopNow
  <2>5. Returned(u)'
    BY <2>4, ToolSame DEF Returned
  <2> QED BY <1>0, <2>1, <2>3, <2>5, CallGoesOn
<1>2. CASE Now(u).attr # "drain"
  <2> DEFINE k == [call[u] EXCEPT !.err = e, !.acc = <<>>, !.buf = <<>>]
  <2>1. call' = [call EXCEPT ![u] = k]
    BY <1>2 DEF ReadReturnsError
  <2>2. /\ k \in CallState /\ k.fn = call[u].fn /\ k.script = call[u].script /\ k.at = call[u].at
        /\ k.res = call[u].res /\ k.err = e /\ k.buf = <<>> /\ k.acc = <<>>
    <3>1. <<>> \in Seq(Nat)
      OBVIOUS
    <3> QED BY <1>0, <3>1 DEF CallState
  <2> HIDE DEF k
  <2>3. call'[u] = k
    BY <2>1 DEF CallInv
  <2>4. TakenInv(u)' /\ ReqOf(u)'
    BY <1>0, <2>2, <2>3 DEF TakenInv, ReqOf
  <2>5. Returned(u)'
    BY <2>2, <2>3 DEF Returned
  <2> QED BY <1>0, <2>1, <2>2, <2>4, <2>5, CallGoesOn
<1> QED BY <1>1, <1>2

\* Every step of a read.
LEMMA ReadKeeps ==
  ASSUME TypeInv, CallInv, DataInv, NEW u \in User, UNCHANGED tool,
         ReadOne(u) \/ ReadEnds(u) \/ ReadFails(u)
  PROVE  CallInv'
<1>1. CASE ReadOne(u)
  <2>1. Reading(u) /\ UNCHANGED <<req, got>> /\ zbuf[RdChan(u)] # <<>>
        /\ call' = [call EXCEPT ![u].buf = Append(@, Head(zbuf[RdChan(u)]))]
    BY <1>1 DEF ReadOne, sysVars
  <2>2. /\ call[u] \in CallState /\ call[u].buf \in Seq(Nat) /\ call[u].acc \in Seq(Nat)
        /\ (Now(u).attr # "fread" => call[u].acc = <<>>) /\ zbuf[RdChan(u)] \in Seq(Nat)
    BY <2>1, ReadTypes
  <2>3. Append(call[u].buf, Head(zbuf[RdChan(u)])) \in Seq(Nat)
    BY <2>1, <2>2
  <2> DEFINE b == Append(call[u].buf, Head(zbuf[RdChan(u)]))
  <2>4. [call[u] EXCEPT !.buf = b] = [call[u] EXCEPT !.buf = b, !.acc = call[u].acc]
    BY <2>2 DEF CallState
  <2>5. call' = [call EXCEPT ![u] = [call[u] EXCEPT !.buf = b, !.acc = call[u].acc]]
    BY <2>1, <2>4
  <2> HIDE DEF b
  <2> QED BY <2>1, <2>2, <2>3, <2>5, ReadGoesOn DEF b
<1>2. CASE ReadEnds(u)
  <2>1. Reading(u) /\ UNCHANGED req
    BY <1>2 DEF ReadEnds, sysVars
  <2>2. CASE ReadReturns(u)
    BY <2>1, <2>2, ReturnedKeeps
  <2>3. CASE ~Keeps(u) /\ ReadReturnsError(u, "EAGAIN") /\ UNCHANGED got
    <3>1. Buf(u) = <<>> /\ "EAGAIN" \in Errno
      BY <2>3 DEF Keeps, Errno
    <3> QED BY <2>1, <2>3, <3>1, ErrorKeeps
  <2> QED BY <1>2, <2>2, <2>3 DEF ReadEnds
<1>3. CASE ReadFails(u)
  <2>1. Reading(u) /\ UNCHANGED req
    BY <1>3 DEF ReadFails, sysVars
  <2>2. CASE ReadReturns(u)
    BY <2>1, <2>2, ReturnedKeeps
  <2>3. CASE ~Keeps(u) /\ ReadReturnsError(u, "EIO") /\ UNCHANGED got
    <3>1. Buf(u) = <<>> /\ "EIO" \in Errno
      BY <2>3 DEF Keeps, Errno
    <3> QED BY <2>1, <2>3, <3>1, ErrorKeeps
  <2> QED BY <1>3, <2>2, <2>3 DEF ReadFails
<1> QED BY <1>1, <1>2, <1>3

\* Every step keeps the programs and their calls together.
LEMMA CallsKeep ==
  ASSUME TypeInv, CallInv, DataInv, [Next]_vars
  PROVE  CallInv'
<1>1. ASSUME UNCHANGED <<call, tool, req, got>> PROVE CallInv'
  BY <1>1, BystanderKeepsCall DEF CallInv
<1>2. CASE UNCHANGED vars
  BY <1>1, <1>2 DEF vars, libVars, sysVars, dataVars
<1>3. ASSUME NEW u \in User, CallStep(u), UNCHANGED tool PROVE CallInv'
  <2>1. CASE SysfsCall(u)
    BY <1>3, <2>1, AccessKeeps
  <2>2. CASE SysfsReturn(u) \/ OpenChannel(u)
    BY <1>3, <2>2, ComesBack
  <2>3. CASE AttrOnly(u) \/ AbortData(u) \/ NewBuffer(u)
    BY <1>3, <2>3, DriverStep DEF AttrOnly, AbortData, NewBuffer, AttrStep, dataVars
  <2>4. CASE ReadOne(u) \/ ReadEnds(u)
    BY <1>3, <2>4, ReadKeeps
  <2> QED BY <1>3, <2>1, <2>2, <2>3, <2>4 DEF CallStep
<1>4. ASSUME NEW u \in User, CallFails(u), UNCHANGED tool PROVE CallInv'
  BY <1>4, AccessKeeps, ComesBack, ReadKeeps DEF CallFails
<1>5. ASSUME NEW u \in User, ToolStep(u) PROVE CallInv'
  BY <1>3, <1>5, StartKeeps, ReturnKeeps, LoopMoves, ReadyKeeps, ResultKeeps DEF ToolStep
<1>6. ASSUME NEW u \in User, Signal(u) PROVE CallInv'
  BY <1>6, SignalKeeps
<1>7. ASSUME Acquisition, UNCHANGED tool PROVE CallInv'
  BY <1>1, <1>7 DEF Acquisition, Pulse, Deliver, Discard, sysVars
<1> QED BY <1>2, <1>4, <1>5, <1>6, <1>7 DEF Next

-----------------------------------------------------------------------------
(* Where the timestamps of an input are *)

NoRepeat(s) == \A i, j \in DOMAIN s : s[i] = s[j] => i = j

\* The numbers up to m are in one of the places, or in g.
Divides(S, g, m) ==
  /\ 1 .. m = g \union UNION {S[p] : p \in Places}
  /\ \A p, q \in Places : p # q => S[p] \intersect S[q] = {}
  /\ \A p \in Places : S[p] \intersect g = {}

Parts(c) ==
  /\ \A p \in Places : NoRepeat(Stored(p, c))
  /\ Divides([p \in Places |-> ToSet(Stored(p, c))], gone[c], made[c])
PlaceInv == \A c \in Chan : Parts(c)

\* PlaceInv says what Accounted says.
LEMMA PlacesAccount ==
  ASSUME PlaceInv
  PROVE  Accounted
<1> SUFFICES ASSUME NEW c \in Chan
             PROVE  LET s == [p \in Places |-> Stored(p, c)] IN
                      /\ 1 .. made[c] = gone[c] \union UNION {ToSet(s[p]) : p \in Places}
                      /\ \A p, q \in Places : \A i \in DOMAIN s[p], j \in DOMAIN s[q] :
                           s[p][i] = s[q][j] => p = q /\ i = j
                      /\ \A p \in Places : ToSet(s[p]) \intersect gone[c] = {}
  BY DEF Accounted
<1> DEFINE s == [p \in Places |-> Stored(p, c)]
           S == [p \in Places |-> ToSet(Stored(p, c))]
<1>1. \A p \in Places : NoRepeat(s[p]) /\ S[p] = ToSet(s[p])
  BY DEF PlaceInv, Parts
<1>2. /\ 1 .. made[c] = gone[c] \union UNION {S[p] : p \in Places}
      /\ \A p, q \in Places : p # q => S[p] \intersect S[q] = {}
      /\ \A p \in Places : S[p] \intersect gone[c] = {}
  BY DEF PlaceInv, Parts, Divides
<1> HIDE DEF s, S
<1>3. 1 .. made[c] = gone[c] \union UNION {ToSet(s[p]) : p \in Places}
  BY <1>1, <1>2
<1>4. ASSUME NEW p \in Places, NEW q \in Places, NEW i \in DOMAIN s[p], NEW j \in DOMAIN s[q],
             s[p][i] = s[q][j]
      PROVE  p = q /\ i = j
  <2>1. s[p][i] \in S[p] /\ s[q][j] \in S[q]
    BY <1>1 DEF ToSet
  <2>2. p = q
    BY <1>2, <1>4, <2>1
  <2> QED BY <1>1, <1>4, <2>2 DEF NoRepeat
<1>5. \A p \in Places : ToSet(s[p]) \intersect gone[c] = {}
  BY <1>1, <1>2
<1> QED BY <1>3, <1>4, <1>5 DEF s

\* Two places, or one, exchange what they have, and give some of it up.
LEMMA Exchange ==
  ASSUME NEW S, NEW T, NEW g, NEW h, NEW m, Divides(S, g, m),
         NEW p \in Places, NEW q \in Places,
         \A r \in Places \ {p, q} : T[r] = S[r],
         T[p] \union T[q] \union h = S[p] \union S[q] \union g,
         p # q => T[p] \intersect T[q] = {},
         T[p] \intersect h = {}, T[q] \intersect h = {}
  PROVE  Divides(T, h, m)
<1>1. h \union UNION {T[r] : r \in Places} = g \union UNION {S[r] : r \in Places}
  <2>1. ASSUME NEW x, x \in h \union UNION {T[r] : r \in Places}
        PROVE  x \in g \union UNION {S[r] : r \in Places}
    <3>1. x \in h \/ \E r \in Places : x \in T[r]
      BY <2>1
    <3>2. x \in T[p] \union T[q] \union h \/ \E r \in Places \ {p, q} : x \in S[r]
      BY <3>1
    <3> QED BY <3>2
  <2>2. ASSUME NEW x, x \in g \union UNION {S[r] : r \in Places}
        PROVE  x \in h \union UNION {T[r] : r \in Places}
    <3>1. x \in g \/ \E r \in Places : x \in S[r]
      BY <2>2
    <3>2. x \in S[p] \union S[q] \union g \/ \E r \in Places \ {p, q} : x \in T[r]
      BY <3>1
    <3> QED BY <3>2
  <2> QED BY <2>1, <2>2
<1>2. ASSUME NEW r \in Places, NEW t \in Places, r # t PROVE T[r] \intersect T[t] = {}
  <2>1. \A a \in Places \ {p, q} : T[a] \intersect (S[p] \union S[q] \union g) = {}
    BY DEF Divides
  <2>2. CASE r \in {p, q} /\ t \in {p, q}
    BY <1>2, <2>2
  <2>3. CASE r \notin {p, q} /\ t \in {p, q}
    BY <2>1, <2>3
  <2>4. CASE r \in {p, q} /\ t \notin {p, q}
    BY <2>1, <2>4
  <2>5. CASE r \notin {p, q} /\ t \notin {p, q}
    BY <1>2, <2>5 DEF Divides
  <2> QED BY <2>2, <2>3, <2>4, <2>5
<1>3. ASSUME NEW r \in Places PROVE T[r] \intersect h = {}
  <2>1. CASE r \in {p, q}
    BY <2>1
  <2>2. CASE r \notin {p, q}
    <3>1. S[r] \intersect (S[p] \union S[q] \union g) = {}
      BY <2>2 DEF Divides
    <3> QED BY <2>2, <3>1
  <2> QED BY <2>1, <2>2
<1> QED BY <1>1, <1>2, <1>3 DEF Divides

\* What is in a sequence after the operations of the model.
LEMMA SeqSets ==
  ASSUME NEW a \in Seq(Nat), NEW b \in Seq(Nat), NEW x \in Nat
  PROVE  /\ ToSet(a) = {a[i] : i \in 1 .. Len(a)}
         /\ ToSet(<<>>) = {} /\ NoRepeat(<<>>)
         /\ ToSet(Append(a, x)) = ToSet(a) \union {x}
         /\ NoRepeat(a) /\ x \notin ToSet(a) => NoRepeat(Append(a, x))
         /\ ToSet(a \o b) = ToSet(a) \union ToSet(b)
         /\ NoRepeat(a) /\ NoRepeat(b) /\ ToSet(a) \intersect ToSet(b) = {} => NoRepeat(a \o b)
<1>1. ToSet(a) = {a[i] : i \in 1 .. Len(a)} /\ ToSet(b) = {b[i] : i \in 1 .. Len(b)}
  BY DEF ToSet
<1>2. ToSet(<<>>) = {} /\ NoRepeat(<<>>)
  BY DEF ToSet, NoRepeat
<1>3. /\ Append(a, x) \in Seq(Nat) /\ Len(Append(a, x)) = Len(a) + 1
      /\ \A i \in 1 .. Len(a) + 1 : Append(a, x)[i] = IF i <= Len(a) THEN a[i] ELSE x
  OBVIOUS
<1>4. ToSet(Append(a, x)) = {Append(a, x)[i] : i \in 1 .. Len(a) + 1}
  <2> DEFINE ax == Append(a, x)
  <2>1. ax \in Seq(Nat) /\ Len(ax) = Len(a) + 1
    BY <1>3
  <2> HIDE DEF ax
  <2>2. DOMAIN ax = 1 .. Len(a) + 1
    BY <2>1
  <2>3. ToSet(ax) = {ax[i] : i \in 1 .. Len(a) + 1}
    BY <2>2 DEF ToSet
  <2> QED BY <2>3 DEF ax
<1>5. Len(a) \in Nat /\ Len(b) \in Nat
  OBVIOUS
<1>6. ToSet(Append(a, x)) = ToSet(a) \union {x}
  <2>1. \A i \in 1 .. Len(a) : i \in 1 .. Len(a) + 1 /\ i <= Len(a)
    BY <1>5
  <2>2. \A i \in 1 .. Len(a) + 1 : i \in 1 .. Len(a) \/ ~(i <= Len(a))
    BY <1>5
  <2>3. Len(a) + 1 \in 1 .. Len(a) + 1 /\ ~(Len(a) + 1 <= Len(a))
    BY <1>5
  <2> QED BY <1>1, <1>3, <1>4, <2>1, <2>2, <2>3
<1>7. ASSUME NoRepeat(a), x \notin ToSet(a) PROVE NoRepeat(Append(a, x))
  <2> SUFFICES ASSUME NEW i \in 1 .. Len(a) + 1, NEW j \in 1 .. Len(a) + 1,
                      Append(a, x)[i] = Append(a, x)[j]
               PROVE  i = j
    BY <1>3 DEF NoRepeat
  <2>1. \A k \in 1 .. Len(a) : a[k] # x
    BY <1>1, <1>7
  <2>2. \A k \in 1 .. Len(a), l \in 1 .. Len(a) : a[k] = a[l] => k = l
    BY <1>7 DEF NoRepeat
  <2> QED BY <1>3, <1>5, <2>1, <2>2
<1>8. /\ (a \o b) \in Seq(Nat) /\ Len(a \o b) = Len(a) + Len(b)
      /\ \A i \in 1 .. Len(a) + Len(b) : (a \o b)[i] = IF i <= Len(a) THEN a[i] ELSE b[i - Len(a)]
  OBVIOUS
<1> DEFINE ab == a \o b
<1> HIDE DEF ab
<1>9. ToSet(ab) = {ab[i] : i \in 1 .. Len(a) + Len(b)}
  BY <1>8 DEF ToSet, ab
<1>10. ToSet(ab) = ToSet(a) \union ToSet(b)
  <2>1. \A i \in 1 .. Len(a) : i \in 1 .. Len(a) + Len(b) /\ ab[i] = a[i]
    BY <1>5, <1>8 DEF ab
  <2>2. \A i \in 1 .. Len(b) : i + Len(a) \in 1 .. Len(a) + Len(b) /\ ab[i + Len(a)] = b[i]
    BY <1>5, <1>8 DEF ab
  <2>3. \A i \in 1 .. Len(a) + Len(b) :
           \/ i \in 1 .. Len(a) /\ ab[i] = a[i]
           \/ i - Len(a) \in 1 .. Len(b) /\ ab[i] = b[i - Len(a)]
    BY <1>5, <1>8 DEF ab
  <2>4. ToSet(a) \subseteq ToSet(ab)
    BY <1>1, <1>9, <2>1
  <2>5. ToSet(b) \subseteq ToSet(ab)
    BY <1>1, <1>9, <2>2
  <2>6. ToSet(ab) \subseteq ToSet(a) \union ToSet(b)
    BY <1>1, <1>9, <2>3
  <2> QED BY <2>4, <2>5, <2>6
<1>11. ASSUME NoRepeat(a), NoRepeat(b), ToSet(a) \intersect ToSet(b) = {} PROVE NoRepeat(ab)
  <2> SUFFICES ASSUME NEW i \in 1 .. Len(a) + Len(b), NEW j \in 1 .. Len(a) + Len(b), ab[i] = ab[j]
               PROVE  i = j
    <3>1. ab \in Seq(Nat) /\ Len(ab) = Len(a) + Len(b)
      BY <1>8 DEF ab
    <3>2. DOMAIN ab = 1 .. Len(a) + Len(b)
      BY <3>1
    <3> QED BY <3>2 DEF NoRepeat
  <2>1. \A k \in 1 .. Len(a), l \in 1 .. Len(b) : a[k] # b[l]
    BY <1>1, <1>11
  <2>2. \A k \in 1 .. Len(a), l \in 1 .. Len(a) : a[k] = a[l] => k = l
    BY <1>11 DEF NoRepeat
  <2>3. \A k \in 1 .. Len(b), l \in 1 .. Len(b) : b[k] = b[l] => k = l
    BY <1>11 DEF NoRepeat
  <2>4. \A k \in 1 .. Len(a) + Len(b) :
           \/ k \in 1 .. Len(a) /\ ab[k] = a[k]
           \/ k - Len(a) \in 1 .. Len(b) /\ ab[k] = b[k - Len(a)]
    BY <1>5, <1>8 DEF ab
  <2>5. CASE i \in 1 .. Len(a) /\ ab[i] = a[i] /\ j \in 1 .. Len(a) /\ ab[j] = a[j]
    BY <2>2, <2>5
  <2>6. CASE i - Len(a) \in 1 .. Len(b) /\ ab[i] = b[i - Len(a)]
             /\ j - Len(a) \in 1 .. Len(b) /\ ab[j] = b[j - Len(a)]
    <3>1. i - Len(a) = j - Len(a)
      BY <2>3, <2>6
    <3> QED BY <1>5, <3>1
  <2> QED BY <2>1, <2>4, <2>5, <2>6
<1> QED BY <1>1, <1>2, <1>6, <1>7, <1>10, <1>11 DEF ab

-----------------------------------------------------------------------------
(* What a step does to the places *)

HwPlace == <<Nobody, "hw">>
ZbufPlace == <<Nobody, "zbuf">>
CallPlace(u) == <<u, "call">>
CallerPlace(u) == <<u, "caller">>

\* The places, and what is in them.
LEMMA PlaceNames ==
  /\ HwPlace \in Places /\ ZbufPlace \in Places /\ HwPlace # ZbufPlace
  /\ \A u \in User : /\ CallPlace(u) \in Places /\ CallerPlace(u) \in Places
                     /\ CallPlace(u) # CallerPlace(u) /\ CallPlace(u) # ZbufPlace
  /\ \A c : /\ Stored(HwPlace, c) = hw[c] /\ Stored(ZbufPlace, c) = zbuf[c]
            /\ \A u \in User : /\ Stored(CallPlace(u), c) = Inflight(u, c)
                               /\ Stored(CallerPlace(u), c) = got[u][c]
  /\ \A p \in Places : \/ p = HwPlace \/ p = ZbufPlace
                       \/ \E u \in User : p = CallPlace(u) \/ p = CallerPlace(u)
<1>1. /\ HwPlace \in Places /\ ZbufPlace \in Places /\ HwPlace # ZbufPlace
  BY DEF Places, HwPlace, ZbufPlace
<1>2. \A u \in User : /\ CallPlace(u) \in Places /\ CallerPlace(u) \in Places
                      /\ CallPlace(u) # CallerPlace(u) /\ CallPlace(u) # ZbufPlace
  BY DEF Places, CallPlace, CallerPlace, ZbufPlace
<1>3. \A c : Stored(HwPlace, c) = hw[c] /\ Stored(ZbufPlace, c) = zbuf[c]
  BY DEF Stored, HwPlace, ZbufPlace
<1>4. \A c : \A u \in User : Stored(CallPlace(u), c) = Inflight(u, c)
                             /\ Stored(CallerPlace(u), c) = got[u][c]
  BY DEF Stored, CallPlace, CallerPlace
<1>5. \A p \in Places : \/ p = HwPlace \/ p = ZbufPlace
                        \/ \E u \in User : p = CallPlace(u) \/ p = CallerPlace(u)
  <2> SUFFICES ASSUME NEW p \in Places
               PROVE  \/ p = HwPlace \/ p = ZbufPlace
                      \/ \E u \in User : p = CallPlace(u) \/ p = CallerPlace(u)
    OBVIOUS
  <2>1. CASE p \in {Nobody} \X {"hw", "zbuf"}
    BY <2>1 DEF HwPlace, ZbufPlace
  <2>2. CASE p \in User \X {"call", "caller"}
    BY <2>2 DEF CallPlace, CallerPlace
  <2> QED BY <2>1, <2>2 DEF Places
<1> QED BY <1>1, <1>2, <1>3, <1>4, <1>5

\* ... after a step.
LEMMA StoredNext ==
  \A c : /\ Stored(HwPlace, c)' = hw'[c] /\ Stored(ZbufPlace, c)' = zbuf'[c]
         /\ \A u \in User : /\ Stored(CallPlace(u), c)' = Inflight(u, c)'
                            /\ Stored(CallerPlace(u), c)' = got'[u][c]
<1>1. \A c : Stored(HwPlace, c)' = hw'[c] /\ Stored(ZbufPlace, c)' = zbuf'[c]
  BY DEF Stored, HwPlace, ZbufPlace
<1>2. \A c : \A u \in User : Stored(CallPlace(u), c)' = Inflight(u, c)'
                             /\ Stored(CallerPlace(u), c)' = got'[u][c]
  BY DEF Stored, CallPlace, CallerPlace
<1> QED BY <1>1, <1>2

\* A call has nothing in hand if it is not a read, or has not read yet.
LEMMA NothingInflight ==
  ASSUME NEW u \in User
  PROVE  /\ call[u].buf = <<>> /\ call[u].acc = <<>> => \A c : Inflight(u, c) = <<>>
         /\ call'[u].buf = <<>> /\ call'[u].acc = <<>> => \A c : Inflight(u, c)' = <<>>
         /\ ~Reading(u) => \A c : Inflight(u, c) = <<>>
<1>1. <<>> \o <<>> = <<>>
  OBVIOUS
<1> QED BY <1>1 DEF Inflight, Buf

\* A process that does nothing keeps what it has in hand.
LEMMA SameInflight ==
  ASSUME NEW u \in User, call'[u] = call[u]
  PROVE  \A c : Inflight(u, c)' = Inflight(u, c)
  BY DEF Inflight, Reading, InCall, Now, RdChan, Buf

\* What is in a place is a sequence of numbers.
LEMMA StoredTypes ==
  ASSUME TypeInv, CallInv, DataInv, NEW p \in Places, NEW c \in Chan
  PROVE  Stored(p, c) \in Seq(Nat)
<1>1. CASE p = HwPlace \/ p = ZbufPlace
  BY <1>1, PlaceNames DEF DataInv
<1>2. ASSUME NEW u \in User, p = CallerPlace(u) PROVE Stored(p, c) \in Seq(Nat)
  BY <1>2, PlaceNames DEF DataInv
<1>3. ASSUME NEW u \in User, p = CallPlace(u) PROVE Stored(p, c) \in Seq(Nat)
  <2>1. Inflight(u, c) \in Seq(Nat)
    <3>1. CASE Reading(u)
      BY <3>1, ReadTypes DEF Inflight
    <3>2. CASE ~Reading(u)
      <4>1. Inflight(u, c) = <<>>
        BY <3>2, NothingInflight
      <4> QED BY <4>1
    <3> QED BY <3>1, <3>2
  <2> QED BY <1>3, <2>1, PlaceNames
<1> QED BY <1>1, <1>2, <1>3, PlaceNames

\* A place that nothing is taken from and nothing is put into.
LEMMA StoredSame ==
  ASSUME NEW p \in Places, NEW c,
         p = HwPlace => hw'[c] = hw[c], p = ZbufPlace => zbuf'[c] = zbuf[c],
         \A u \in User : p = CallPlace(u) => Inflight(u, c)' = Inflight(u, c),
         \A u \in User : p = CallerPlace(u) => got'[u][c] = got[u][c]
  PROVE  Stored(p, c)' = Stored(p, c)
<1>1. CASE p = HwPlace \/ p = ZbufPlace
  BY <1>1 DEF Stored, HwPlace, ZbufPlace
<1>2. ASSUME NEW u \in User, p = CallerPlace(u) \/ p = CallPlace(u) PROVE Stored(p, c)' = Stored(p, c)
  BY <1>2 DEF Stored, CallPlace, CallerPlace
<1> QED BY <1>1, <1>2, PlaceNames

\* Nothing moves.
LEMMA PlacesStay ==
  ASSUME PlaceInv, UNCHANGED dataVars, \A u \in User : \A c \in Chan : Inflight(u, c)' = Inflight(u, c)
  PROVE  PlaceInv'
<1> SUFFICES ASSUME NEW c \in Chan PROVE Parts(c)'
  BY DEF PlaceInv
<1>1. \A p \in Places : Stored(p, c)' = Stored(p, c)
  BY StoredSame DEF dataVars
<1>2. [p \in Places |-> ToSet(Stored(p, c))]' = [p \in Places |-> ToSet(Stored(p, c))]
  BY <1>1
<1> QED BY <1>1, <1>2 DEF PlaceInv, Parts, dataVars

\* The timestamps of one input move between two places.
LEMMA PlacesMove ==
  ASSUME PlaceInv, UNCHANGED made, NEW c \in Chan, NEW p \in Places, NEW q \in Places,
         \A d \in Chan : d # c => /\ gone'[d] = gone[d]
                                  /\ \A r \in Places : Stored(r, d)' = Stored(r, d),
         \A r \in Places \ {p, q} : Stored(r, c)' = Stored(r, c),
         NoRepeat(Stored(p, c)'), NoRepeat(Stored(q, c)'),
         ToSet(Stored(p, c)') \union ToSet(Stored(q, c)') \union gone'[c]
           = ToSet(Stored(p, c)) \union ToSet(Stored(q, c)) \union gone[c],
         p # q => ToSet(Stored(p, c)') \intersect ToSet(Stored(q, c)') = {},
         ToSet(Stored(p, c)') \intersect gone'[c] = {},
         ToSet(Stored(q, c)') \intersect gone'[c] = {}
  PROVE  PlaceInv'
<1>1. ASSUME NEW d \in Chan, d # c PROVE Parts(d)'
  <2>1. \A r \in Places : Stored(r, d)' = Stored(r, d)
    BY <1>1
  <2>2. [r \in Places |-> ToSet(Stored(r, d))]' = [r \in Places |-> ToSet(Stored(r, d))]
    BY <2>1
  <2> QED BY <1>1, <2>1, <2>2 DEF PlaceInv, Parts
<1>2. Parts(c)'
  <2> DEFINE S == [r \in Places |-> ToSet(Stored(r, c))]
             T == [r \in Places |-> ToSet(Stored(r, c)')]
  <2>1. \A r \in Places : NoRepeat(Stored(r, c)')
    BY DEF PlaceInv, Parts
  <2>2. Divides(S, gone[c], made[c])
    BY DEF PlaceInv, Parts
  <2>3. \A r \in Places : S[r] = ToSet(Stored(r, c)) /\ T[r] = ToSet(Stored(r, c)')
    OBVIOUS
  <2> HIDE DEF S, T
  <2>4. \A r \in Places \ {p, q} : T[r] = S[r]
    BY <2>3
  <2>5. Divides(T, gone'[c], made[c])
    BY <2>2, <2>3, <2>4, Exchange
  <2> QED BY <2>1, <2>5 DEF Parts, T
<1> QED BY <1>1, <1>2 DEF PlaceInv

\* What the places of an input have to do with each other.
LEMMA ApartFacts ==
  ASSUME PlaceInv, NEW c \in Chan, NEW p \in Places
  PROVE  /\ NoRepeat(Stored(p, c)) /\ ToSet(Stored(p, c)) \intersect gone[c] = {}
         /\ ToSet(Stored(p, c)) \subseteq 1 .. made[c] /\ gone[c] \subseteq 1 .. made[c]
         /\ \A q \in Places : p # q => ToSet(Stored(p, c)) \intersect ToSet(Stored(q, c)) = {}
<1> DEFINE S == [r \in Places |-> ToSet(Stored(r, c))]
<1>1. \A r \in Places : S[r] = ToSet(Stored(r, c))
  OBVIOUS
<1>2. NoRepeat(Stored(p, c)) /\ Divides(S, gone[c], made[c])
  BY DEF PlaceInv, Parts
<1> HIDE DEF S
<1> QED BY <1>1, <1>2 DEF Divides

\* What a process has of an input stays, goes to its caller, is given up, or
\* grows by the first timestamp of the ZIO buffer.
Holds(w, c) == got'[w][c] = got[w][c] /\ Inflight(w, c)' = Inflight(w, c)
HandsOver(w, c) == got'[w][c] = got[w][c] \o Inflight(w, c) /\ Inflight(w, c)' = <<>>
Drops(w, c) ==
  got'[w][c] = got[w][c] /\ Inflight(w, c)' = <<>> /\ ToSet(Inflight(w, c)) \subseteq gone'[c]
Takes(w, c) ==
  got'[w][c] = got[w][c] /\ Inflight(w, c)' = Append(Inflight(w, c), Head(zbuf[c]))

\* What becomes of the timestamps on the board: one more, a block delivered with
\* some dropped at one end, the ZIO buffer or the hardware emptied.
BoardMove(c) ==
  \/ zbuf'[c] = zbuf[c] /\ hw'[c] = Append(hw[c], made[c] + 1)
  \/ /\ hw'[c] = <<>>
     /\ \E m, n \in Int : /\ m >= 1 /\ n <= Len(zbuf[c] \o hw[c])
                          /\ zbuf'[c] = SubSeq(zbuf[c] \o hw[c], m, n)
  \/ zbuf'[c] = <<>> /\ hw'[c] = hw[c]
  \/ zbuf'[c] = zbuf[c] /\ hw'[c] = <<>>

\* A step does one of these to an input.
Moves(c) ==
  /\ gone[c] \subseteq gone'[c]
  /\ \/ /\ zbuf'[c] = zbuf[c] /\ hw'[c] = hw[c]
        /\ \A w \in User : Holds(w, c) \/ HandsOver(w, c) \/ Drops(w, c)
     \/ /\ zbuf[c] # <<>> /\ zbuf'[c] = Tail(zbuf[c]) /\ hw'[c] = hw[c]
        /\ \A w \in User : Holds(w, c) \/ Takes(w, c)
     \/ BoardMove(c) /\ \A w \in User : Holds(w, c)
Kept == DataInv' /\ PlaceInv' /\ \A c \in Chan : Moves(c)

\* A step that leaves all timestamps where they are.
LEMMA NothingMoves ==
  ASSUME UNCHANGED dataVars, \A u \in User : \A c \in Chan : Inflight(u, c)' = Inflight(u, c)
  PROVE  \A c \in Chan : Moves(c)
<1> SUFFICES ASSUME NEW c \in Chan PROVE Moves(c)
  OBVIOUS
<1>1. \A w \in User : Holds(w, c)
  BY DEF Holds, dataVars
<1> QED BY <1>1 DEF Moves, dataVars

\* A step of the acquisition, on one input.
LEMMA BoardMoves ==
  ASSUME NEW c \in Chan, UNCHANGED got,
         \A u \in User : \A d \in Chan : Inflight(u, d)' = Inflight(u, d),
         \A d \in Chan : d # c => hw'[d] = hw[d] /\ zbuf'[d] = zbuf[d] /\ gone'[d] = gone[d],
         gone[c] \subseteq gone'[c], BoardMove(c)
  PROVE  \A d \in Chan : Moves(d)
<1> SUFFICES ASSUME NEW d \in Chan PROVE Moves(d)
  OBVIOUS
<1>1. \A w \in User : Holds(w, d)
  BY DEF Holds
<1> QED BY <1>1 DEF Moves

\* A step of a library call, on one input.
LEMMA CallMoves ==
  ASSUME NEW c \in Chan, NEW u \in User, UNCHANGED hw,
         \A w \in User : \A d \in Chan :
           (w # u \/ d # c) => Inflight(w, d)' = Inflight(w, d) /\ got'[w][d] = got[w][d],
         \A d \in Chan : d # c => zbuf'[d] = zbuf[d] /\ gone'[d] = gone[d],
         gone[c] \subseteq gone'[c],
         \/ zbuf'[c] = zbuf[c] /\ (HandsOver(u, c) \/ Drops(u, c))
         \/ zbuf[c] # <<>> /\ zbuf'[c] = Tail(zbuf[c]) /\ Takes(u, c)
  PROVE  \A d \in Chan : Moves(d)
<1> SUFFICES ASSUME NEW d \in Chan PROVE Moves(d)
  OBVIOUS
<1>1. \A w \in User : w # u \/ d # c => Holds(w, d)
  BY DEF Holds
<1>2. CASE d # c
  BY <1>1, <1>2 DEF Moves
<1>3. CASE d = c
  BY <1>1, <1>3 DEF Moves
<1> QED BY <1>2, <1>3

\* One more at the end of two sequences.
LEMMA AppendLast ==
  ASSUME NEW a \in Seq(Nat), NEW b \in Seq(Nat), NEW x \in Nat
  PROVE  a \o Append(b, x) = Append(a \o b, x)
<1> DEFINE ab == a \o b
           t == Append(b, x)
           l == a \o t
           r == Append(ab, x)
<1>0. PICK n \in Nat : n = Len(a)
  OBVIOUS
<1>00. PICK m \in Nat : m = Len(b)
  OBVIOUS
<1>1. /\ ab \in Seq(Nat) /\ Len(ab) = Len(a) + Len(b)
      /\ \A i \in 1 .. Len(a) + Len(b) : ab[i] = IF i <= Len(a) THEN a[i] ELSE b[i - Len(a)]
  OBVIOUS
<1>2. /\ t \in Seq(Nat) /\ Len(t) = Len(b) + 1
      /\ \A i \in 1 .. Len(b) + 1 : t[i] = IF i <= Len(b) THEN b[i] ELSE x
  OBVIOUS
<1> HIDE DEF t, ab
<1>3. /\ l \in Seq(Nat) /\ Len(l) = Len(a) + Len(t)
      /\ \A i \in 1 .. Len(a) + Len(t) : l[i] = IF i <= Len(a) THEN a[i] ELSE t[i - Len(a)]
  BY <1>2, TwoParts, Zenon
<1>4. /\ r \in Seq(Nat) /\ Len(r) = Len(ab) + 1
      /\ \A i \in 1 .. Len(ab) + 1 : r[i] = IF i <= Len(ab) THEN ab[i] ELSE x
  BY <1>1
<1> HIDE DEF l, r
<1>5. Len(ab) = n + m /\ Len(t) = m + 1 /\ Len(l) = n + (m + 1) /\ Len(r) = (n + m) + 1
  BY <1>0, <1>00, <1>1, <1>2, <1>3, <1>4, Zenon
<1>11. \A i \in 1 .. n + m : ab[i] = IF i <= n THEN a[i] ELSE b[i - n]
  BY <1>0, <1>00, <1>1, Zenon
<1>12. \A i \in 1 .. m + 1 : t[i] = IF i <= m THEN b[i] ELSE x
  BY <1>00, <1>2, Zenon
<1>13. \A i \in 1 .. n + (m + 1) : l[i] = IF i <= n THEN a[i] ELSE t[i - n]
  BY <1>0, <1>3, <1>5, Zenon
<1>14. \A i \in 1 .. (n + m) + 1 : r[i] = IF i <= n + m THEN ab[i] ELSE x
  BY <1>4, <1>5, Zenon
<1>6. ASSUME NEW i \in 1 .. n + m + 1 PROVE l[i] = r[i]
  <2>1. CASE i <= n
    <3>1. l[i] = a[i]
      BY <1>13, <2>1
    <3>2. r[i] = a[i]
      BY <1>11, <1>14, <2>1
    <3> QED BY <3>1, <3>2
  <2>2. CASE i > n /\ i <= n + m
    <3>1. i - n \in 1 .. m
      BY <2>2
    <3>2. l[i] = t[i - n]
      BY <1>13, <2>2
    <3>3. t[i - n] = b[i - n]
      BY <1>12, <3>1
    <3>4. r[i] = b[i - n]
      BY <1>11, <1>14, <2>2
    <3> QED BY <3>2, <3>3, <3>4
  <2>3. CASE i = n + m + 1
    <3>1. i - n = m + 1
      BY <2>3
    <3>2. l[i] = t[m + 1]
      BY <1>13, <2>3, <3>1
    <3>3. r[i] = x
      BY <1>14, <2>3
    <3> QED BY <1>12, <3>2, <3>3
  <2> QED BY <2>1, <2>2, <2>3
<1>7. Len(l) = Len(r) /\ Len(l) = n + m + 1
  BY <1>5
<1>8. \A i \in 1 .. Len(l) : l[i] = r[i]
  BY <1>6, <1>7
<1>9. l = r
  BY <1>3, <1>4, <1>7, <1>8, SeqEqual
<1> QED BY <1>9 DEF l, r, ab, t

\* A pulse adds the next number to those in the hardware.
LEMMA PulsePlaces ==
  ASSUME TypeInv, CallInv, DataInv, PlaceInv, NEW c \in Chan, Pulse(c)
  PROVE  Kept
<1>1. /\ made' = [made EXCEPT ![c] = @ + 1] /\ hw' = [hw EXCEPT ![c] = Append(@, made[c] + 1)]
      /\ UNCHANGED <<zbuf, got, gone, call>>
  BY DEF Pulse
<1>2. made[c] \in Nat /\ made[c] + 1 \in Nat /\ hw[c] \in Seq(Nat)
  BY DEF DataInv
<1>3. Append(hw[c], made[c] + 1) \in Seq(Nat)
  BY <1>2
<1>4. DataInv'
  BY <1>1, <1>2, <1>3 DEF DataInv
<1>5. \A u \in User : \A d \in Chan : Inflight(u, d)' = Inflight(u, d)
  BY <1>1, SameInflight
<1>6. ASSUME NEW d \in Chan, d # c PROVE Parts(d)'
  <2>0. hw'[d] = hw[d] /\ made'[d] = made[d]
    BY <1>1, <1>6 DEF DataInv
  <2>1. \A p \in Places : Stored(p, d)' = Stored(p, d)
    BY <1>1, <1>5, <2>0, StoredSame
  <2>2. [p \in Places |-> ToSet(Stored(p, d))]' = [p \in Places |-> ToSet(Stored(p, d))]
    BY <2>1
  <2> QED BY <1>1, <2>0, <2>1, <2>2 DEF PlaceInv, Parts
<1>7. Parts(c)'
  <2> DEFINE S == [p \in Places |-> ToSet(Stored(p, c))]
             T == [p \in Places |-> ToSet(Stored(p, c)')]
             m == made[c]
  <2>1. \A p \in Places \ {HwPlace} : Stored(p, c)' = Stored(p, c)
    BY <1>1, <1>5, StoredSame
  <2>2. Stored(HwPlace, c)' = Append(hw[c], m + 1) /\ Stored(HwPlace, c) = hw[c]
    <3>1. hw'[c] = Append(hw[c], m + 1)
      BY <1>1 DEF DataInv
    <3> QED BY <3>1, PlaceNames, StoredNext
  <2>3. m + 1 \notin 1 .. m /\ 1 .. (m + 1) = 1 .. m \union {m + 1}
    BY <1>2
  <2>4. ToSet(hw[c]) \subseteq 1 .. m /\ NoRepeat(hw[c])
    BY <2>2, PlaceNames, ApartFacts
  <2>5. ToSet(Stored(HwPlace, c)') = ToSet(hw[c]) \union {m + 1} /\ NoRepeat(Stored(HwPlace, c)')
    BY <1>2, <2>2, <2>3, <2>4, SeqSets
  <2>6. \A p \in Places : S[p] = ToSet(Stored(p, c)) /\ T[p] = ToSet(Stored(p, c)')
    OBVIOUS
  <2>7. Divides(S, gone[c], m)
    BY DEF PlaceInv, Parts
  <2>8. \A p \in Places : NoRepeat(Stored(p, c)')
    BY <2>1, <2>5 DEF PlaceInv, Parts
  <2> HIDE DEF S, T, m
  <2>9. T[HwPlace] = S[HwPlace] \union {m + 1} /\ \A p \in Places \ {HwPlace} : T[p] = S[p]
    <3>1. HwPlace \in Places
      BY PlaceNames
    <3>2. T[HwPlace] = S[HwPlace] \union {m + 1}
      BY <2>2, <2>5, <2>6, <3>1
    <3>3. \A p \in Places \ {HwPlace} : T[p] = S[p]
      BY <2>1, <2>6
    <3> QED BY <3>2, <3>3
  <2>10. gone[c] \subseteq 1 .. m /\ \A p \in Places : S[p] \subseteq 1 .. m
    BY <2>7 DEF Divides
  <2>11. Divides(T, gone[c], m + 1)
    <3>1. 1 .. (m + 1) = gone[c] \union UNION {T[p] : p \in Places}
      <4>0. HwPlace \in Places
        BY PlaceNames
      <4>1. UNION {T[p] : p \in Places} = (UNION {S[p] : p \in Places}) \union {m + 1}
        <5>1. ASSUME NEW x, NEW p \in Places, x \in T[p]
              PROVE  x \in (UNION {S[r] : r \in Places}) \union {m + 1}
          <6>1. x \in S[p] \/ x = m + 1
            <7>1. CASE p = HwPlace
              BY <2>9, <5>1, <7>1
            <7>2. CASE p # HwPlace
              BY <2>9, <5>1, <7>2
            <7> QED BY <7>1, <7>2
          <6> QED BY <6>1
        <5>2. ASSUME NEW x, NEW p \in Places, x \in S[p]
              PROVE  x \in UNION {T[r] : r \in Places}
          <6>1. x \in T[p]
            <7>1. CASE p = HwPlace
              BY <2>9, <5>2, <7>1
            <7>2. CASE p # HwPlace
              BY <2>9, <5>2, <7>2
            <7> QED BY <7>1, <7>2
          <6> QED BY <6>1
        <5>3. m + 1 \in UNION {T[r] : r \in Places}
          BY <2>9, <4>0
        <5> QED BY <5>1, <5>2, <5>3
      <4>2. 1 .. m = gone[c] \union UNION {S[p] : p \in Places}
        BY <2>7 DEF Divides
      <4> QED BY <2>3, <4>1, <4>2
    <3>2. \A p, q \in Places : p # q => T[p] \intersect T[q] = {}
      BY <2>3, <2>7, <2>9, <2>10 DEF Divides
    <3>3. \A p \in Places : T[p] \intersect gone[c] = {}
      BY <2>3, <2>7, <2>9, <2>10 DEF Divides
    <3> QED BY <3>1, <3>2, <3>3 DEF Divides
  <2>12. gone'[c] = gone[c] /\ made'[c] = m + 1
    BY <1>1 DEF DataInv, m
  <2> QED BY <2>8, <2>11, <2>12 DEF Parts, T
<1>8. \A d \in Chan : Moves(d)
  <2>1. BoardMove(c)
    BY <1>1 DEF BoardMove, DataInv
  <2>2. \A d \in Chan : d # c => hw'[d] = hw[d] /\ zbuf'[d] = zbuf[d] /\ gone'[d] = gone[d]
    BY <1>1 DEF DataInv
  <2>3. gone[c] \subseteq gone'[c] /\ got' = got
    BY <1>1
  <2> QED BY <1>5, <2>1, <2>2, <2>3, BoardMoves
<1> QED BY <1>4, <1>6, <1>7, <1>8 DEF PlaceInv, Kept

\* One place of an input gives up what it has.
LEMMA GivesUp ==
  ASSUME TypeInv, CallInv, DataInv, PlaceInv, NEW c \in Chan, NEW p \in Places,
         UNCHANGED made, gone' = [gone EXCEPT ![c] = @ \union ToSet(Stored(p, c))],
         \A r \in Places : \A d \in Chan : (r # p \/ d # c) => Stored(r, d)' = Stored(r, d),
         Stored(p, c)' = <<>>
  PROVE  gone' \in [Chan -> SUBSET Nat] /\ PlaceInv'
<1>1. gone \in [Chan -> SUBSET Nat]
  BY DEF DataInv
<1>2. Stored(p, c) \in Seq(Nat)
  BY StoredTypes
<1>3. ToSet(Stored(p, c)) \subseteq Nat
  BY <1>2 DEF ToSet
<1>4. gone' \in [Chan -> SUBSET Nat] /\ gone'[c] = gone[c] \union ToSet(Stored(p, c))
      /\ \A d \in Chan : d # c => gone'[d] = gone[d]
  BY <1>1, <1>3
<1>5. ToSet(Stored(p, c)') = {} /\ NoRepeat(Stored(p, c)')
  BY SeqSets, <1>2 DEF ToSet, NoRepeat
<1>6. PlaceInv'
  <2>1. ToSet(Stored(p, c)') \union ToSet(Stored(p, c)') \union gone'[c]
           = ToSet(Stored(p, c)) \union ToSet(Stored(p, c)) \union gone[c]
    BY <1>4, <1>5
  <2>2. ToSet(Stored(p, c)') \intersect gone'[c] = {}
    BY <1>5
  <2> QED BY <1>4, <1>5, <2>1, <2>2, PlacesMove
<1> QED BY <1>4, <1>6

\* What is kept of a sequence when a part at one of its ends is dropped.
LEMMA PartOfSeq ==
  ASSUME NEW s \in Seq(Nat), NEW m \in Int, NEW n \in Int, m >= 1, n <= Len(s)
  PROVE  /\ SubSeq(s, m, n) \in Seq(Nat)
         /\ ToSet(SubSeq(s, m, n)) \subseteq ToSet(s)
         /\ NoRepeat(s) => NoRepeat(SubSeq(s, m, n))
         /\ \A i \in DOMAIN SubSeq(s, m, n) :
              i \in Nat /\ i + m - 1 \in DOMAIN s /\ SubSeq(s, m, n)[i] = s[i + m - 1]
<1> DEFINE t == SubSeq(s, m, n)
<1>0. Len(s) \in Nat /\ DOMAIN s = 1 .. Len(s)
  OBVIOUS
<1>1. t \in Seq(Nat) /\ \A i \in DOMAIN t : i \in Nat /\ i + m - 1 \in DOMAIN s /\ t[i] = s[i + m - 1]
  <2>1. CASE m > n
    <3>1. t = <<>>
      BY <2>1, SubSeqEmpty
    <3> QED BY <3>1
  <2>2. CASE m <= n
    <3>1. \A i \in m .. n : s[i] \in Nat
      BY <1>0
    <3>5. SubSeq(s, m, n) \in Seq(Nat)
      BY <3>1, SubSeqProperties
    <3>6. Len(SubSeq(s, m, n)) = IF m <= n THEN n - m + 1 ELSE 0
      BY <3>1, SubSeqProperties
    <3>7. \A i \in 1 .. n - m + 1 : SubSeq(s, m, n)[i] = s[m + i - 1]
      BY <3>1, SubSeqProperties
    <3>2. /\ t \in Seq(Nat) /\ Len(t) = IF m <= n THEN n - m + 1 ELSE 0
          /\ \A i \in 1 .. n - m + 1 : t[i] = s[m + i - 1]
      BY <3>5, <3>6, <3>7, Zenon
    <3> HIDE DEF t
    <3>3. DOMAIN t = 1 .. n - m + 1
      BY <2>2, <3>2
    <3>4. \A i \in 1 .. n - m + 1 : i \in Nat /\ i + m - 1 \in 1 .. Len(s) /\ m + i - 1 = i + m - 1
      BY <1>0, <2>2
    <3> QED BY <1>0, <3>2, <3>3, <3>4
  <2> QED BY <2>1, <2>2
<1> HIDE DEF t
<1>2. ToSet(t) \subseteq ToSet(s)
  BY <1>1 DEF ToSet
<1>3. NoRepeat(s) => NoRepeat(t)
  <2> SUFFICES ASSUME NoRepeat(s), NEW i \in DOMAIN t, NEW j \in DOMAIN t, t[i] = t[j]
               PROVE  i = j
    BY DEF NoRepeat
  <2>1. i + m - 1 = j + m - 1 /\ i \in Nat /\ j \in Nat
    BY <1>1 DEF NoRepeat
  <2> QED BY <2>1
<1> QED BY <1>1, <1>2, <1>3 DEF t

\* A block goes to the ZIO buffer.
LEMMA DeliverPlaces ==
  ASSUME TypeInv, CallInv, DataInv, PlaceInv, NEW c \in Chan, Deliver(c)
  PROVE  Kept
<1> DEFINE all == zbuf[c] \o hw[c]
           cap == st[c].kb * PerKb
           over == IF Len(all) > cap THEN Len(all) - cap ELSE 0
           keep == IF st[c].prefer_new = 1 THEN SubSeq(all, over + 1, Len(all))
                   ELSE SubSeq(all, 1, Len(all) - over)
<1>1. /\ zbuf' = [zbuf EXCEPT ![c] = keep] /\ hw' = [hw EXCEPT ![c] = <<>>]
      /\ gone' = [gone EXCEPT ![c] = @ \union (ToSet(all) \ ToSet(keep))]
      /\ UNCHANGED <<made, got, call>>
  BY DEF Deliver
<1>2. hw[c] \in Seq(Nat) /\ zbuf[c] \in Seq(Nat) /\ gone \in [Chan -> SUBSET Nat]
  BY DEF DataInv
<1>3. all \in Seq(Nat) /\ Len(all) \in Nat
  <2>1. (zbuf[c] \o hw[c]) \in Seq(Nat)
    BY <1>2
  <2> HIDE DEF cap, over, keep
  <2>2. all \in Seq(Nat)
    BY <2>1
  <2> HIDE DEF all
  <2> QED BY <2>2
<1>4. cap \in Int
  BY LibConstants DEF TypeInv, State
<1>5. ToSet(all) = ToSet(zbuf[c]) \union ToSet(hw[c]) /\ NoRepeat(all)
      /\ ToSet(all) \intersect gone[c] = {}
  <2>1. /\ NoRepeat(zbuf[c]) /\ NoRepeat(hw[c]) /\ ToSet(zbuf[c]) \intersect ToSet(hw[c]) = {}
        /\ ToSet(zbuf[c]) \intersect gone[c] = {} /\ ToSet(hw[c]) \intersect gone[c] = {}
    BY PlaceNames, ApartFacts
  <2>2. ToSet(zbuf[c] \o hw[c]) = ToSet(zbuf[c]) \union ToSet(hw[c]) /\ NoRepeat(zbuf[c] \o hw[c])
    BY <1>2, <2>1, SeqSets
  <2> QED BY <2>1, <2>2
<1> HIDE DEF all, cap
<1>6. /\ keep \in Seq(Nat) /\ ToSet(keep) \subseteq ToSet(all) /\ NoRepeat(keep)
      /\ \E m, n \in Int : m >= 1 /\ n <= Len(all) /\ keep = SubSeq(all, m, n)
  <2>1. over \in Nat
    BY <1>3, <1>4
  <2> DEFINE e == Len(all)
             o == over + 1
             l == e - over
  <2>2. e \in Int /\ o \in Int /\ l \in Int /\ o >= 1 /\ 1 >= 1 /\ e <= Len(all) /\ l <= Len(all)
    BY <1>3, <2>1
  <2>3. keep = SubSeq(all, o, e) \/ keep = SubSeq(all, 1, l)
    OBVIOUS
  <2> HIDE DEF over, keep, e, o, l
  <2>4. \A m \in Int, n \in Int : m >= 1 /\ n <= Len(all) =>
          /\ SubSeq(all, m, n) \in Seq(Nat) /\ ToSet(SubSeq(all, m, n)) \subseteq ToSet(all)
          /\ NoRepeat(SubSeq(all, m, n))
    BY <1>3, <1>5, PartOfSeq
  <2>5. /\ SubSeq(all, o, e) \in Seq(Nat) /\ ToSet(SubSeq(all, o, e)) \subseteq ToSet(all)
        /\ NoRepeat(SubSeq(all, o, e))
    BY <2>2, <2>4
  <2>6. /\ SubSeq(all, 1, l) \in Seq(Nat) /\ ToSet(SubSeq(all, 1, l)) \subseteq ToSet(all)
        /\ NoRepeat(SubSeq(all, 1, l))
    <3>1. 1 \in Int
      OBVIOUS
    <3> QED BY <2>2, <2>4, <3>1
  <2>7. \E m, n \in Int : m >= 1 /\ n <= Len(all) /\ keep = SubSeq(all, m, n)
    <3>1. 1 \in Int
      OBVIOUS
    <3> QED BY <2>2, <2>3, <3>1
  <2> QED BY <2>3, <2>5, <2>6, <2>7
<1> HIDE DEF keep
<1>7. ToSet(all) \subseteq Nat
  BY <1>3 DEF ToSet
<1>8. DataInv'
  <2>1. gone' \in [Chan -> SUBSET Nat]
    BY <1>1, <1>2, <1>7
  <2>2. hw' \in [Chan -> Seq(Nat)] /\ zbuf' \in [Chan -> Seq(Nat)]
    BY <1>1, <1>6 DEF DataInv
  <2> QED BY <1>1, <2>1, <2>2 DEF DataInv
<1>9. \A u \in User : \A d \in Chan : Inflight(u, d)' = Inflight(u, d)
  BY <1>1, SameInflight
<1>10. /\ hw'[c] = <<>> /\ zbuf'[c] = keep /\ gone'[c] = gone[c] \union (ToSet(all) \ ToSet(keep))
       /\ \A d \in Chan : d # c => hw'[d] = hw[d] /\ zbuf'[d] = zbuf[d] /\ gone'[d] = gone[d]
  BY <1>1 DEF DataInv
<1>11. PlaceInv'
  <2>1. \A d \in Chan : d # c => /\ gone'[d] = gone[d]
                                 /\ \A r \in Places : Stored(r, d)' = Stored(r, d)
    BY <1>1, <1>9, <1>10, StoredSame
  <2>2. \A r \in Places \ {HwPlace, ZbufPlace} : Stored(r, c)' = Stored(r, c)
    BY <1>1, <1>9, StoredSame
  <2>3. /\ Stored(HwPlace, c)' = <<>> /\ Stored(ZbufPlace, c)' = keep
        /\ Stored(HwPlace, c) = hw[c] /\ Stored(ZbufPlace, c) = zbuf[c]
    BY <1>10, PlaceNames, StoredNext
  <2>4. ToSet(<<>>) = {} /\ NoRepeat(<<>>)
    BY DEF ToSet, NoRepeat
  <2>5. ToSet(Stored(HwPlace, c)') \union ToSet(Stored(ZbufPlace, c)') \union gone'[c]
           = ToSet(Stored(HwPlace, c)) \union ToSet(Stored(ZbufPlace, c)) \union gone[c]
    BY <1>5, <1>6, <1>10, <2>3, <2>4
  <2>6. /\ ToSet(Stored(HwPlace, c)') \intersect ToSet(Stored(ZbufPlace, c)') = {}
        /\ ToSet(Stored(HwPlace, c)') \intersect gone'[c] = {}
        /\ ToSet(Stored(ZbufPlace, c)') \intersect gone'[c] = {}
    BY <1>5, <1>6, <1>10, <2>3, <2>4
  <2>7. NoRepeat(Stored(HwPlace, c)') /\ NoRepeat(Stored(ZbufPlace, c)')
    BY <1>6, <2>3, <2>4
  <2> QED BY <1>1, <2>1, <2>2, <2>5, <2>6, <2>7, PlaceNames, PlacesMove
<1>12. \A d \in Chan : Moves(d)
  <2>1. BoardMove(c)
    BY <1>6, <1>10 DEF BoardMove, all
  <2>2. gone[c] \subseteq gone'[c] /\ got' = got
    BY <1>1, <1>10
  <2> QED BY <1>9, <1>10, <2>1, <2>2, BoardMoves
<1> QED BY <1>8, <1>11, <1>12 DEF Kept

\* The parts of a sequence without repetition are apart.
LEMMA SeqApart ==
  ASSUME NEW a \in Seq(Nat), NEW b \in Seq(Nat), NoRepeat(a \o b)
  PROVE  NoRepeat(a) /\ NoRepeat(b) /\ ToSet(a) \intersect ToSet(b) = {}
<1> DEFINE ab == a \o b
<1>1. Len(a) \in Nat /\ Len(b) \in Nat /\ DOMAIN a = 1 .. Len(a) /\ DOMAIN b = 1 .. Len(b)
  OBVIOUS
<1>2. /\ ab \in Seq(Nat) /\ Len(ab) = Len(a) + Len(b)
      /\ \A i \in 1 .. Len(a) + Len(b) : ab[i] = IF i <= Len(a) THEN a[i] ELSE b[i - Len(a)]
  OBVIOUS
<1> HIDE DEF ab
<1>3. DOMAIN ab = 1 .. Len(a) + Len(b)
  BY <1>2
<1>4. \A i \in 1 .. Len(a) : i \in DOMAIN ab /\ ab[i] = a[i]
  BY <1>1, <1>2, <1>3
<1>5. \A i \in 1 .. Len(b) : i + Len(a) \in DOMAIN ab /\ ab[i + Len(a)] = b[i]
  <2> SUFFICES ASSUME NEW i \in 1 .. Len(b)
               PROVE  i + Len(a) \in DOMAIN ab /\ ab[i + Len(a)] = b[i]
    OBVIOUS
  <2>1. i + Len(a) \in 1 .. Len(a) + Len(b) /\ ~(i + Len(a) <= Len(a)) /\ (i + Len(a)) - Len(a) = i
    BY <1>1
  <2> QED BY <1>2, <1>3, <2>1
<1>6. \A i \in DOMAIN ab, j \in DOMAIN ab : ab[i] = ab[j] => i = j
  BY DEF NoRepeat, ab
<1>7. NoRepeat(a)
  BY <1>1, <1>4, <1>6 DEF NoRepeat
<1>8. NoRepeat(b)
  <2> SUFFICES ASSUME NEW i \in 1 .. Len(b), NEW j \in 1 .. Len(b), b[i] = b[j] PROVE i = j
    BY <1>1 DEF NoRepeat
  <2>1. i + Len(a) = j + Len(a)
    BY <1>5, <1>6
  <2> QED BY <1>1, <2>1
<1>9. ASSUME NEW i \in 1 .. Len(a), NEW j \in 1 .. Len(b), a[i] = b[j] PROVE FALSE
  <2>1. i = j + Len(a)
    BY <1>4, <1>5, <1>6, <1>9
  <2> QED BY <1>1, <2>1
<1>10. ToSet(a) \intersect ToSet(b) = {}
  BY <1>1, <1>9 DEF ToSet
<1> QED BY <1>7, <1>8, <1>10

\* The first of a sequence and the others.
LEMMA HeadAndTail ==
  ASSUME NEW z \in Seq(Nat), z # <<>>, NoRepeat(z)
  PROVE  /\ Head(z) \in Nat /\ Tail(z) \in Seq(Nat) /\ NoRepeat(Tail(z))
         /\ Head(z) \notin ToSet(Tail(z)) /\ ToSet(z) = ToSet(Tail(z)) \union {Head(z)}
<1> DEFINE t == Tail(z)
           h == Head(z)
<1>1. /\ t \in Seq(Nat) /\ h \in Nat /\ Len(t) = Len(z) - 1 /\ Len(z) \in Nat /\ Len(z) >= 1
      /\ h = z[1] /\ DOMAIN z = 1 .. Len(z) /\ \A i \in 1 .. Len(t) : t[i] = z[i + 1]
  BY HeadTailProperties
<1> HIDE DEF t, h
<1>2. DOMAIN t = 1 .. Len(z) - 1
  BY <1>1
<1>3. \A i \in DOMAIN t : i + 1 \in DOMAIN z /\ i \in Nat /\ t[i] = z[i + 1]
  <2> SUFFICES ASSUME NEW i \in 1 .. Len(z) - 1
               PROVE  i + 1 \in DOMAIN z /\ i \in Nat /\ t[i] = z[i + 1]
    BY <1>2
  <2>1. i \in 1 .. Len(t) /\ i + 1 \in 1 .. Len(z) /\ i \in Nat
    BY <1>1
  <2> QED BY <1>1, <2>1
<1>4. \A i \in DOMAIN z : i = 1 \/ (i - 1 \in DOMAIN t /\ z[i] = t[i - 1])
  <2> SUFFICES ASSUME NEW i \in 1 .. Len(z), i # 1 PROVE i - 1 \in DOMAIN t /\ z[i] = t[i - 1]
    BY <1>1
  <2>1. i - 1 \in 1 .. Len(z) - 1 /\ (i - 1) + 1 = i
    BY <1>1
  <2>2. t[i - 1] = z[(i - 1) + 1]
    BY <1>2, <1>3, <2>1
  <2> QED BY <1>2, <2>1, <2>2
<1>5. \A i \in DOMAIN z, j \in DOMAIN z : z[i] = z[j] => i = j
  BY DEF NoRepeat
<1>6. NoRepeat(t)
  <2> SUFFICES ASSUME NEW i \in DOMAIN t, NEW j \in DOMAIN t, t[i] = t[j] PROVE i = j
    BY DEF NoRepeat
  <2>1. i + 1 = j + 1 /\ i \in Nat /\ j \in Nat
    BY <1>3, <1>5
  <2> QED BY <2>1
<1>7. h \notin ToSet(t)
  <2> SUFFICES ASSUME NEW i \in DOMAIN t, t[i] = h PROVE FALSE
    BY DEF ToSet
  <2>1. 1 \in DOMAIN z
    BY <1>1
  <2>2. i + 1 = 1 /\ i \in DOMAIN t
    BY <1>1, <1>3, <1>5, <2>1
  <2> QED BY <1>2, <2>2
<1>8. ToSet(z) = ToSet(t) \union {h}
  <2>1. 1 \in DOMAIN z
    BY <1>1
  <2>2. ToSet(z) \subseteq ToSet(t) \union {h}
    BY <1>1, <1>4 DEF ToSet
  <2>3. ToSet(t) \subseteq ToSet(z)
    BY <1>3 DEF ToSet
  <2>4. h \in ToSet(z)
    BY <1>1, <2>1 DEF ToSet
  <2> QED BY <2>2, <2>3, <2>4
<1> QED BY <1>1, <1>6, <1>7, <1>8 DEF t, h

\* A step of a call that has nothing in hand moves nothing.
LEMMA QuietStep ==
  ASSUME CallInv, DataInv, PlaceInv, NEW u \in User, UNCHANGED dataVars, NEW k,
         call' = [call EXCEPT ![u] = k], k.buf = <<>>, k.acc = <<>>,
         call[u].buf = <<>>, call[u].acc = <<>>
  PROVE  Kept
<1>1. call'[u] = k /\ \A w \in User : w # u => call'[w] = call[w]
  BY DEF CallInv
<1>2. \A w \in User : \A c \in Chan : Inflight(w, c)' = Inflight(w, c)
  <2> SUFFICES ASSUME NEW w \in User, NEW c \in Chan PROVE Inflight(w, c)' = Inflight(w, c)
    OBVIOUS
  <2>1. CASE w = u
    <3>1. Inflight(u, c)' = <<>> /\ Inflight(u, c) = <<>>
      BY <1>1, NothingInflight
    <3> QED BY <2>1, <3>1
  <2>2. CASE w # u
    BY <1>1, <2>2, SameInflight
  <2> QED BY <2>1, <2>2
<1>3. DataInv'
  BY DEF DataInv, dataVars
<1> QED BY <1>2, <1>3, PlacesStay, NothingMoves DEF Kept

\* A step that is not one of a call moves nothing.
LEMMA IdleStep ==
  ASSUME DataInv, PlaceInv, UNCHANGED dataVars, UNCHANGED call
  PROVE  Kept
<1>1. \A w \in User : \A c \in Chan : Inflight(w, c)' = Inflight(w, c)
  BY SameInflight
<1>2. DataInv'
  BY DEF DataInv, dataVars
<1> QED BY <1>1, <1>2, PlacesStay, NothingMoves DEF Kept

\* Other inputs have nothing to do with a read.
LEMMA OtherInputs ==
  ASSUME NEW u \in User, NEW c, c # RdChan(u), call'[u].script = call[u].script,
         call'[u].fn = call[u].fn,
         \/ call'[u].at = call[u].at /\ call'[u].err = call[u].err
         \/ call'[u].buf = <<>> /\ call'[u].acc = <<>>
  PROVE  Inflight(u, c)' = Inflight(u, c)
<1>1. Inflight(u, c) = <<>>
  BY DEF Inflight
<1>2. CASE call'[u].at = call[u].at /\ call'[u].err = call[u].err
  BY <1>1, <1>2 DEF Inflight, RdChan, Now
<1>3. CASE call'[u].buf = <<>> /\ call'[u].acc = <<>>
  <2>1. Inflight(u, c)' = <<>>
    BY <1>3, NothingInflight
  <2> QED BY <1>1, <2>1
<1> QED BY <1>2, <1>3

\* A timestamp is taken from the ZIO buffer.
LEMMA ReadOnePlaces ==
  ASSUME TypeInv, CallInv, DataInv, PlaceInv, NEW u \in User, ReadOne(u)
  PROVE  Kept
<1>0. Reading(u) /\ RdChan(u) \in Chan
  BY ReadTypes DEF ReadOne
<1> PICK c \in Chan : c = RdChan(u)
  BY <1>0
<1> DEFINE z == zbuf[c]
           h == Head(z)
           b == Buf(u)
           a == call[u].acc
           k == [call[u] EXCEPT !.buf = Append(b, h)]
<1>1. /\ Reading(u) /\ z # <<>> /\ call' = [call EXCEPT ![u] = k]
      /\ zbuf' = [zbuf EXCEPT ![c] = Tail(z)] /\ UNCHANGED <<hw, made, got, gone>>
  BY DEF ReadOne, Buf
<1>2. /\ c \in Chan /\ call[u] \in CallState /\ b \in Seq(Nat) /\ a \in Seq(Nat)
      /\ z \in Seq(Nat) /\ (a \o b) \in Seq(Nat)
  BY <1>1, ReadTypes
<1>3. Stored(ZbufPlace, c) = z /\ Stored(CallPlace(u), c) = a \o b
  <2>1. Inflight(u, c) = a \o b
    BY <1>1 DEF Inflight
  <2> QED BY <2>1, PlaceNames
<1> HIDE DEF z, h, a, b
<1>4. /\ NoRepeat(z) /\ NoRepeat(a \o b) /\ ToSet(z) \intersect ToSet(a \o b) = {}
      /\ ToSet(z) \intersect gone[c] = {} /\ ToSet(a \o b) \intersect gone[c] = {}
  <2>0. ZbufPlace \in Places /\ CallPlace(u) \in Places /\ ZbufPlace # CallPlace(u)
    BY PlaceNames
  <2>1. NoRepeat(Stored(ZbufPlace, c)) /\ ToSet(Stored(ZbufPlace, c)) \intersect gone[c] = {}
        /\ ToSet(Stored(ZbufPlace, c)) \intersect ToSet(Stored(CallPlace(u), c)) = {}
    BY <2>0, ApartFacts
  <2>2. NoRepeat(Stored(CallPlace(u), c)) /\ ToSet(Stored(CallPlace(u), c)) \intersect gone[c] = {}
    BY <2>0, ApartFacts
  <2> QED BY <1>3, <2>1, <2>2
<1>5. /\ h \in Nat /\ Tail(z) \in Seq(Nat) /\ NoRepeat(Tail(z)) /\ h \notin ToSet(Tail(z))
      /\ ToSet(z) = ToSet(Tail(z)) \union {h}
  BY <1>1, <1>2, <1>4, HeadAndTail DEF h
<1>6. call'[u] = k /\ \A w \in User : w # u => call'[w] = call[w]
  BY <1>1 DEF CallInv
<1>7. /\ k.fn = call[u].fn /\ k.script = call[u].script /\ k.at = call[u].at /\ k.err = call[u].err
      /\ k.buf = Append(b, h) /\ k.acc = a
  BY <1>2 DEF CallState, a
<1>8. Reading(u)' = Reading(u) /\ RdChan(u)' = c
  BY <1>6, <1>7 DEF Reading, InCall, Now, RdChan
<1> DEFINE n == a \o Append(b, h)
<1>9. Inflight(u, c)' = n
  <2> HIDE DEF k
  <2> QED BY <1>1, <1>6, <1>7, <1>8 DEF Inflight, Buf, n
<1>10. zbuf'[c] = Tail(z) /\ \A d \in Chan : d # c => zbuf'[d] = zbuf[d]
  BY <1>1, <1>2 DEF DataInv
<1>11. \A w \in User : \A d \in Chan : (w # u \/ d # c) => Inflight(w, d)' = Inflight(w, d)
  <2> SUFFICES ASSUME NEW w \in User, NEW d \in Chan, w # u \/ d # c
               PROVE  Inflight(w, d)' = Inflight(w, d)
    OBVIOUS
  <2>1. CASE w # u
    BY <1>6, <2>1, SameInflight
  <2>2. CASE w = u /\ d # c
    <3> HIDE DEF k
    <3> QED BY <1>6, <1>7, <2>2, OtherInputs
  <2> QED BY <2>1, <2>2
<1> HIDE DEF k
<1>12. Append(b, h) \in Seq(Nat) /\ ToSet(Append(b, h)) = ToSet(b) \union {h}
  BY <1>2, <1>5, SeqSets
<1>13. ToSet(a \o b) = ToSet(a) \union ToSet(b) /\ ToSet(n) = ToSet(a) \union ToSet(Append(b, h))
  BY <1>2, <1>12, SeqSets
<1>14. h \notin ToSet(a) /\ h \notin ToSet(b)
  BY <1>4, <1>5, <1>13
<1>15. NoRepeat(a) /\ NoRepeat(b) /\ ToSet(a) \intersect ToSet(b) = {}
  BY <1>2, <1>4, SeqApart
<1>16. NoRepeat(Append(b, h))
  BY <1>2, <1>5, <1>14, <1>15, SeqSets
<1>17. NoRepeat(n)
  <2>1. ToSet(a) \intersect ToSet(Append(b, h)) = {}
    BY <1>12, <1>14, <1>15
  <2> QED BY <1>2, <1>12, <1>15, <1>16, <2>1, SeqSets
<1> HIDE DEF n
<1>18. DataInv'
  BY <1>1, <1>5 DEF DataInv
<1>19. PlaceInv'
  <2>1. \A d \in Chan : d # c => /\ gone'[d] = gone[d]
                                 /\ \A r \in Places : Stored(r, d)' = Stored(r, d)
    BY <1>1, <1>10, <1>11, StoredSame
  <2>2. \A r \in Places \ {ZbufPlace, CallPlace(u)} : Stored(r, c)' = Stored(r, c)
    <3> SUFFICES ASSUME NEW r \in Places, r # ZbufPlace, r # CallPlace(u)
                 PROVE  Stored(r, c)' = Stored(r, c)
      OBVIOUS
    <3>1. \A w \in User : r = CallPlace(w) => Inflight(w, c)' = Inflight(w, c)
      BY <1>2, <1>11
    <3> QED BY <1>1, <3>1, StoredSame
  <2>3. Stored(ZbufPlace, c)' = Tail(z) /\ Stored(CallPlace(u), c)' = n
    BY <1>9, <1>10, StoredNext
  <2>4. ToSet(Tail(z)) \union ToSet(n) = ToSet(z) \union ToSet(a \o b)
    BY <1>5, <1>12, <1>13
  <2>5. ToSet(Tail(z)) \intersect ToSet(n) = {}
    BY <1>4, <1>5, <1>12, <1>13
  <2>6. ToSet(Tail(z)) \intersect gone[c] = {} /\ ToSet(n) \intersect gone[c] = {}
    BY <1>4, <1>5, <1>12, <1>13
  <2>7. ZbufPlace \in Places /\ CallPlace(u) \in Places
    BY PlaceNames
  <2>8. gone'[c] = gone[c] /\ made' = made
    BY <1>1
  <2>9. /\ NoRepeat(Stored(ZbufPlace, c)') /\ NoRepeat(Stored(CallPlace(u), c)')
        /\ ToSet(Stored(ZbufPlace, c)') \union ToSet(Stored(CallPlace(u), c)') \union gone'[c]
             = ToSet(Stored(ZbufPlace, c)) \union ToSet(Stored(CallPlace(u), c)) \union gone[c]
        /\ ToSet(Stored(ZbufPlace, c)') \intersect ToSet(Stored(CallPlace(u), c)') = {}
        /\ ToSet(Stored(ZbufPlace, c)') \intersect gone'[c] = {}
        /\ ToSet(Stored(CallPlace(u), c)') \intersect gone'[c] = {}
    BY <1>3, <1>5, <1>17, <2>3, <2>4, <2>5, <2>6, <2>8
  <2> QED BY <2>1, <2>2, <2>7, <2>8, <2>9, PlacesMove
<1>20. \A d \in Chan : Moves(d)
  <2>1. Takes(u, c)
    <3>1. Inflight(u, c) = a \o b
      BY <1>1 DEF Inflight, a, b
    <3>2. a \o Append(b, h) = Append(a \o b, h)
      BY <1>2, <1>5, AppendLast, Zenon
    <3>4. Inflight(u, c)' = Append(Inflight(u, c), h)
      BY <1>9, <3>1, <3>2 DEF n
    <3>3. got'[u][c] = got[u][c]
      BY <1>1
    <3> QED BY <3>3, <3>4 DEF Takes, h, z
  <2>2. zbuf[c] # <<>> /\ zbuf'[c] = Tail(zbuf[c])
    BY <1>1, <1>10 DEF z
  <2>3. hw' = hw /\ got' = got /\ gone' = gone
    BY <1>1
  <2> QED BY <1>10, <1>11, <2>1, <2>2, <2>3, CallMoves
<1> QED BY <1>18, <1>19, <1>20 DEF Kept

\* A call gives up what it has in hand.
LEMMA CallGivesUp ==
  ASSUME TypeInv, CallInv, DataInv, PlaceInv, NEW u \in User, Reading(u), NEW c \in Chan, c = RdChan(u),
         UNCHANGED <<hw, zbuf, made, got>>, NEW k, call' = [call EXCEPT ![u] = k],
         k.fn = call[u].fn, k.script = call[u].script, k.buf = <<>>, k.acc = <<>>,
         gone' = [gone EXCEPT ![c] = @ \union ToSet(call[u].acc \o Buf(u))]
  PROVE  Kept
<1>1. call'[u] = k /\ \A w \in User : w # u => call'[w] = call[w]
  BY DEF CallInv
<1>2. Stored(CallPlace(u), c) = call[u].acc \o Buf(u) /\ Inflight(u, c) = call[u].acc \o Buf(u)
      /\ CallPlace(u) \in Places
  <2>1. Inflight(u, c) = call[u].acc \o Buf(u)
    BY DEF Inflight
  <2> QED BY <2>1, PlaceNames
<1>3. Inflight(u, c)' = <<>>
  BY <1>1, NothingInflight
<1>4. \A w \in User : \A d \in Chan : (w # u \/ d # c) => Inflight(w, d)' = Inflight(w, d)
  <2> SUFFICES ASSUME NEW w \in User, NEW d \in Chan, w # u \/ d # c
               PROVE  Inflight(w, d)' = Inflight(w, d)
    OBVIOUS
  <2>1. CASE w # u
    BY <1>1, <2>1, SameInflight
  <2>2. CASE w = u /\ d # c
    BY <1>1, <2>2, OtherInputs
  <2> QED BY <2>1, <2>2
<1>5. \A r \in Places : \A d \in Chan : (r # CallPlace(u) \/ d # c) => Stored(r, d)' = Stored(r, d)
  <2> SUFFICES ASSUME NEW r \in Places, NEW d \in Chan, r # CallPlace(u) \/ d # c
               PROVE  Stored(r, d)' = Stored(r, d)
    OBVIOUS
  <2>1. \A w \in User : r = CallPlace(w) => Inflight(w, d)' = Inflight(w, d)
    BY <1>4
  <2> QED BY <2>1, StoredSame
<1>6. Stored(CallPlace(u), c)' = <<>>
  BY <1>3, StoredNext
<1>7. gone' \in [Chan -> SUBSET Nat] /\ PlaceInv'
  BY <1>2, <1>5, <1>6, GivesUp
<1>8. \A d \in Chan : Moves(d)
  <2>1. gone'[c] = gone[c] \union ToSet(Inflight(u, c)) /\ \A d \in Chan : d # c => gone'[d] = gone[d]
    BY <1>2 DEF DataInv
  <2>2. Drops(u, c)
    BY <1>3, <2>1 DEF Drops
  <2> QED BY <1>4, <2>1, <2>2, CallMoves
<1>9. DataInv'
  BY <1>7 DEF DataInv
<1> QED BY <1>7, <1>8, <1>9 DEF Kept

\* A read returns what it has.
LEMMA ReturnedPlaces ==
  ASSUME TypeInv, CallInv, DataInv, PlaceInv, NEW u \in User, Reading(u), ReadReturns(u),
         UNCHANGED <<hw, zbuf, made, tool, req>>
  PROVE  Kept
<1>0. RdChan(u) \in Chan
  BY ReadTypes
<1> PICK c \in Chan : c = RdChan(u)
  BY <1>0
<1> DEFINE a == call[u].acc
           b == Buf(u)
           all == a \o b
<1>1. /\ call[u] \in CallState /\ b \in Seq(Nat) /\ a \in Seq(Nat) /\ call[u].buf = b
      /\ all \in Seq(Nat) /\ (Now(u).attr # "fread" => a = <<>>) /\ got[u][c] \in Seq(Nat)
  BY ReadTypes
<1>2. CASE Now(u).attr = "drain"
  <2> DEFINE k == [call[u] EXCEPT !.buf = <<>>]
  <2>1. call' = [call EXCEPT ![u] = k] /\ UNCHANGED got
        /\ gone' = [gone EXCEPT ![c] = @ \union ToSet(b)]
    BY <1>2 DEF ReadReturns
  <2>2. a = <<>>
    BY <1>1, <1>2
  <2>3. k.fn = call[u].fn /\ k.script = call[u].script /\ k.buf = <<>> /\ k.acc = <<>>
    BY <1>1, <2>2 DEF CallState
  <2>4. ToSet(all) = ToSet(b)
    <3>1. ToSet(a \o b) = ToSet(a) \union ToSet(b) /\ ToSet(a) = {}
      BY <1>1, <2>2, SeqSets
    <3> QED BY <3>1
  <2>5. gone' = [gone EXCEPT ![c] = @ \union ToSet(call[u].acc \o Buf(u))]
    BY <2>1, <2>4
  <2> HIDE DEF k
  <2> QED BY <2>1, <2>3, <2>5, CallGivesUp
<1>3. CASE Now(u).attr = "fread" /\ Len(all) < Now(u).val
  <2> DEFINE k == [call[u] EXCEPT !.acc = all, !.buf = <<>>]
  <2>1. call' = [call EXCEPT ![u] = k] /\ UNCHANGED <<got, gone>>
    BY <1>3 DEF ReadReturns
  <2>2. /\ k.fn = call[u].fn /\ k.script = call[u].script /\ k.buf = <<>> /\ k.acc = all
        /\ k.at = call[u].at /\ k.err = call[u].err
    <3> HIDE DEF all
    <3> QED BY <1>1 DEF CallState
  <2> HIDE DEF k
  <2>3. call'[u] = k /\ \A w \in User : w # u => call'[w] = call[w]
    BY <2>1 DEF CallInv
  <2>4. Reading(u)' /\ RdChan(u)' = c
    BY <2>2, <2>3 DEF Reading, InCall, Now, RdChan
  <2>5. Inflight(u, c)' = Inflight(u, c)
    <3>1. Inflight(u, c) = all
      BY DEF Inflight
    <3>2. Inflight(u, c)' = all \o <<>>
      <4> HIDE DEF all
      <4> QED BY <2>2, <2>3, <2>4 DEF Inflight, Buf
    <3>3. all \o <<>> = all
      <4> HIDE DEF all
      <4> QED BY <1>1
    <3> QED BY <3>1, <3>2, <3>3
  <2>6. \A w \in User : \A d \in Chan : Inflight(w, d)' = Inflight(w, d)
    <3> SUFFICES ASSUME NEW w \in User, NEW d \in Chan PROVE Inflight(w, d)' = Inflight(w, d)
      OBVIOUS
    <3>1. CASE w # u
      BY <2>3, <3>1, SameInflight
    <3>2. CASE w = u /\ d # c
      BY <2>2, <2>3, <3>2, OtherInputs
    <3> QED BY <2>5, <3>1, <3>2
  <2>7. DataInv'
    BY <2>1 DEF DataInv
  <2> QED BY <2>1, <2>6, <2>7, PlacesStay, NothingMoves DEF dataVars, Kept
<1>4. CASE Now(u).attr # "drain" /\ ~(Now(u).attr = "fread" /\ Len(all) < Now(u).val)
  <2> DEFINE k == [call[u] EXCEPT !.acc = <<>>, !.buf = <<>>, !.at = @ + 1, !.res = Append(@, Len(all))]
  <2>1. call' = [call EXCEPT ![u] = k] /\ got' = [got EXCEPT ![u][c] = @ \o all] /\ UNCHANGED gone
    BY <1>4 DEF ReadReturns
  <2>2. k.fn = call[u].fn /\ k.script = call[u].script /\ k.buf = <<>> /\ k.acc = <<>>
    <3> HIDE DEF all
    <3> QED BY <1>1 DEF CallState
  <2> HIDE DEF k
  <2>3. call'[u] = k /\ \A w \in User : w # u => call'[w] = call[w]
    BY <2>1 DEF CallInv
  <2>4. Inflight(u, c)' = <<>> /\ Inflight(u, c) = all
    <3>1. Inflight(u, c)' = <<>>
      BY <2>2, <2>3, NothingInflight
    <3>2. Inflight(u, c) = all
      BY DEF Inflight
    <3> QED BY <3>1, <3>2
  <2> DEFINE g == got[u][c] \o all
  <2>5. g \in Seq(Nat)
    <3> HIDE DEF all
    <3> QED BY <1>1
  <2> HIDE DEF all, a, b
  <2>6. got'[u][c] = g /\ \A w \in User : \A d \in Chan : (w # u \/ d # c) => got'[w][d] = got[w][d]
    BY <2>1 DEF DataInv
  <2>7. DataInv'
    <3> HIDE DEF g
    <3>1. got' = [got EXCEPT ![u] = [got[u] EXCEPT ![c] = g]]
      BY <2>1 DEF g
    <3>2. [got[u] EXCEPT ![c] = g] \in [Chan -> Seq(Nat)]
      BY <2>5 DEF DataInv
    <3>3. got' \in [User -> [Chan -> Seq(Nat)]]
      BY <3>1, <3>2 DEF DataInv
    <3> QED BY <2>1, <3>3 DEF DataInv
  <2>8. \A w \in User : \A d \in Chan : (w # u \/ d # c) => Inflight(w, d)' = Inflight(w, d)
    <3> SUFFICES ASSUME NEW w \in User, NEW d \in Chan, w # u \/ d # c
                 PROVE  Inflight(w, d)' = Inflight(w, d)
      OBVIOUS
    <3>1. CASE w # u
      BY <2>3, <3>1, SameInflight
    <3>2. CASE w = u /\ d # c
      BY <2>2, <2>3, <3>2, OtherInputs
    <3> QED BY <3>1, <3>2
  <2>9. CallPlace(u) \in Places /\ CallerPlace(u) \in Places /\ CallPlace(u) # CallerPlace(u)
    BY PlaceNames
  <2>10. Stored(CallPlace(u), c) = all /\ Stored(CallerPlace(u), c) = got[u][c]
    BY <2>4, PlaceNames
  <2>11. Stored(CallPlace(u), c)' = <<>> /\ Stored(CallerPlace(u), c)' = g
    BY <2>4, <2>6, StoredNext
  <2>12. \A d \in Chan : d # c => /\ gone'[d] = gone[d]
                                  /\ \A r \in Places : Stored(r, d)' = Stored(r, d)
    BY <2>1, <2>6, <2>8, StoredSame
  <2>13. \A r \in Places \ {CallPlace(u), CallerPlace(u)} : Stored(r, c)' = Stored(r, c)
    <3> SUFFICES ASSUME NEW r \in Places, r # CallPlace(u), r # CallerPlace(u)
                 PROVE  Stored(r, c)' = Stored(r, c)
      OBVIOUS
    <3>1. \A w \in User : r = CallPlace(w) => Inflight(w, c)' = Inflight(w, c)
      BY <2>8
    <3>2. \A w \in User : r = CallerPlace(w) => got'[w][c] = got[w][c]
      BY <2>6
    <3> QED BY <3>1, <3>2, StoredSame
  <2>14. NoRepeat(all) /\ ToSet(all) \intersect gone[c] = {}
         /\ ToSet(all) \intersect ToSet(got[u][c]) = {}
    BY <2>9, <2>10, ApartFacts
  <2>15. NoRepeat(got[u][c]) /\ ToSet(got[u][c]) \intersect gone[c] = {}
    BY <2>9, <2>10, ApartFacts
  <2>16. ToSet(g) = ToSet(got[u][c]) \union ToSet(all) /\ NoRepeat(g)
    BY <1>1, <2>14, <2>15, SeqSets
  <2>17. ToSet(<<>>) = {} /\ NoRepeat(<<>>)
    BY DEF ToSet, NoRepeat
  <2>18. /\ NoRepeat(Stored(CallPlace(u), c)') /\ NoRepeat(Stored(CallerPlace(u), c)')
         /\ ToSet(Stored(CallPlace(u), c)') \union ToSet(Stored(CallerPlace(u), c)') \union gone'[c]
              = ToSet(Stored(CallPlace(u), c)) \union ToSet(Stored(CallerPlace(u), c)) \union gone[c]
         /\ ToSet(Stored(CallPlace(u), c)') \intersect ToSet(Stored(CallerPlace(u), c)') = {}
         /\ ToSet(Stored(CallPlace(u), c)') \intersect gone'[c] = {}
         /\ ToSet(Stored(CallerPlace(u), c)') \intersect gone'[c] = {}
    <3> HIDE DEF g
    <3> QED BY <2>1, <2>10, <2>11, <2>14, <2>15, <2>16, <2>17
  <2>19. PlaceInv'
    BY <2>9, <2>12, <2>13, <2>18, PlacesMove
  <2>20. \A d \in Chan : Moves(d)
    <3>1. HandsOver(u, c)
      BY <2>4, <2>6 DEF HandsOver, g
    <3>2. zbuf' = zbuf /\ hw' = hw /\ gone' = gone
      BY <2>1
    <3> QED BY <2>6, <2>8, <3>1, <3>2, CallMoves
  <2> QED BY <2>7, <2>19, <2>20 DEF Kept
<1> QED BY <1>2, <1>3, <1>4

\* A read that returns an error.
LEMMA ErrorPlaces ==
  ASSUME TypeInv, CallInv, DataInv, PlaceInv, NEW u \in User, NEW e \in Errno, Reading(u),
         ReadReturnsError(u, e), Buf(u) = <<>>, UNCHANGED <<hw, zbuf, made, got>>
  PROVE  Kept
<1>0. RdChan(u) \in Chan /\ call[u] \in CallState /\ InCall(u) /\ call[u].buf = <<>>
      /\ call[u].acc \in Seq(Nat) /\ (Now(u).attr # "fread" => call[u].acc = <<>>)
  BY ReadTypes
<1>1. CASE Now(u).attr = "drain"
  <2>1. NextStep(u, 0) /\ UNCHANGED gone /\ 0 \in Int
    BY <1>1 DEF ReadReturnsError
  <2>2. PICK k \in CallState : call' = [call EXCEPT ![u] = k] /\ k.buf = call[u].buf /\ k.acc = call[u].acc
    BY <1>0, <2>1, NextStepTypes
  <2> QED BY <1>0, <1>1, <2>1, <2>2, QuietStep DEF dataVars
<1>2. CASE Now(u).attr # "drain"
  <2> DEFINE k == [call[u] EXCEPT !.err = e, !.acc = <<>>, !.buf = <<>>]
  <2>1. call' = [call EXCEPT ![u] = k]
        /\ gone' = [gone EXCEPT ![RdChan(u)] = @ \union ToSet(call[u].acc)]
    BY <1>2 DEF ReadReturnsError
  <2>2. k.fn = call[u].fn /\ k.script = call[u].script /\ k.buf = <<>> /\ k.acc = <<>>
    BY <1>0 DEF CallState
  <2>3. call[u].acc \o Buf(u) = call[u].acc
    BY <1>0
  <2>4. gone' = [gone EXCEPT ![RdChan(u)] = @ \union ToSet(call[u].acc \o Buf(u))]
    BY <2>1, <2>3
  <2> HIDE DEF k
  <2> QED BY <1>0, <2>1, <2>2, <2>4, CallGivesUp
<1> QED BY <1>1, <1>2

\* A place of an input is emptied.
LEMMA Emptied ==
  ASSUME TypeInv, CallInv, DataInv, PlaceInv, NEW c \in Chan, UNCHANGED <<made, got, call>>,
         \/ /\ hw' = [hw EXCEPT ![c] = <<>>] /\ UNCHANGED zbuf
            /\ gone' = [gone EXCEPT ![c] = @ \union ToSet(hw[c])]
         \/ /\ zbuf' = [zbuf EXCEPT ![c] = <<>>] /\ UNCHANGED hw
            /\ gone' = [gone EXCEPT ![c] = @ \union ToSet(zbuf[c])]
  PROVE  Kept
<1>0. \A w \in User : \A d \in Chan : Inflight(w, d)' = Inflight(w, d)
  BY SameInflight
<1>00. <<>> \in Seq(Nat) /\ hw \in [Chan -> Seq(Nat)] /\ zbuf \in [Chan -> Seq(Nat)]
  BY DEF DataInv
<1>1. CASE /\ hw' = [hw EXCEPT ![c] = <<>>] /\ UNCHANGED zbuf
           /\ gone' = [gone EXCEPT ![c] = @ \union ToSet(hw[c])]
  <2>1. hw'[c] = <<>> /\ (\A d \in Chan : d # c => hw'[d] = hw[d]) /\ hw' \in [Chan -> Seq(Nat)]
    BY <1>00, <1>1
  <2>2. \A r \in Places : \A d \in Chan : (r # HwPlace \/ d # c) => Stored(r, d)' = Stored(r, d)
    BY <1>0, <1>1, <2>1, StoredSame
  <2>3. Stored(HwPlace, c) = hw[c] /\ Stored(HwPlace, c)' = <<>> /\ HwPlace \in Places
    BY <2>1, PlaceNames, StoredNext
  <2>4. gone' \in [Chan -> SUBSET Nat] /\ PlaceInv'
    BY <1>1, <2>2, <2>3, GivesUp
  <2>5. BoardMove(c)
    BY <1>1, <2>1 DEF BoardMove
  <2>6. gone[c] \subseteq gone'[c] /\ \A d \in Chan : d # c => gone'[d] = gone[d]
    BY <1>1 DEF DataInv
  <2>7. \A d \in Chan : Moves(d)
    BY <1>0, <1>1, <2>1, <2>5, <2>6, BoardMoves
  <2>8. DataInv'
    BY <1>1, <2>1, <2>4 DEF DataInv
  <2> QED BY <2>4, <2>7, <2>8 DEF Kept
<1>2. CASE /\ zbuf' = [zbuf EXCEPT ![c] = <<>>] /\ UNCHANGED hw
           /\ gone' = [gone EXCEPT ![c] = @ \union ToSet(zbuf[c])]
  <2>1. zbuf'[c] = <<>> /\ (\A d \in Chan : d # c => zbuf'[d] = zbuf[d]) /\ zbuf' \in [Chan -> Seq(Nat)]
    BY <1>00, <1>2
  <2>2. \A r \in Places : \A d \in Chan : (r # ZbufPlace \/ d # c) => Stored(r, d)' = Stored(r, d)
    BY <1>0, <1>2, <2>1, StoredSame
  <2>3. Stored(ZbufPlace, c) = zbuf[c] /\ Stored(ZbufPlace, c)' = <<>> /\ ZbufPlace \in Places
    BY <2>1, PlaceNames, StoredNext
  <2>4. gone' \in [Chan -> SUBSET Nat] /\ PlaceInv'
    BY <1>2, <2>2, <2>3, GivesUp
  <2>5. BoardMove(c)
    BY <1>2, <2>1 DEF BoardMove
  <2>6. gone[c] \subseteq gone'[c] /\ \A d \in Chan : d # c => gone'[d] = gone[d]
    BY <1>2 DEF DataInv
  <2>7. \A d \in Chan : Moves(d)
    BY <1>0, <1>2, <2>1, <2>5, <2>6, BoardMoves
  <2>8. DataInv'
    BY <1>2, <2>1, <2>4 DEF DataInv
  <2> QED BY <2>4, <2>7, <2>8 DEF Kept
<1> QED BY <1>1, <1>2

\* A call that does not read goes on or fails.
LEMMA QuietMove ==
  ASSUME TypeInv, CallInv, DataInv, PlaceInv, NEW u \in User, InCall(u), ~Reading(u), UNCHANGED dataVars,
         \/ \E v \in Int : NextStep(u, v)
         \/ \E e \in Errno \ {"none"} : Fail(u, e)
  PROVE  Kept
<1>1. call[u].buf = <<>> /\ call[u].acc = <<>>
  BY ProcTypes DEF ProcInv, TakenInv
<1>2. PICK k \in CallState : call' = [call EXCEPT ![u] = k] /\ k.buf = call[u].buf /\ k.acc = call[u].acc
  <2>1. CASE \E v \in Int : NextStep(u, v)
    BY <2>1, NextStepTypes
  <2>2. CASE \E e \in Errno \ {"none"} : Fail(u, e)
    BY <2>2, FailTypes
  <2> QED BY <2>1, <2>2
<1> QED BY <1>1, <1>2, QuietStep

\* Accesses and descriptors have nothing to do with timestamps, except for two.
LEMMA AccessPlaces ==
  ASSUME TypeInv, CallInv, DataInv, PlaceInv, NEW u \in User,
         \/ SysfsCall(u) \/ SysfsCallFails(u) \/ SysfsReturn(u) \/ OpenChannel(u)
         \/ OpenChannelFails(u) \/ AttrOnly(u) \/ AbortData(u) \/ NewBuffer(u)
  PROVE  Kept
<1>1. CASE SysfsCall(u) \/ SysfsCallFails(u) \/ AttrOnly(u)
  BY <1>1, IdleStep DEF SysfsCall, SysfsCallFails, AttrOnly
<1>2. CASE SysfsReturn(u)
  <2>1. InCall(u) /\ Return(u) /\ UNCHANGED dataVars
    BY <1>2 DEF SysfsReturn
  <2>2. ~Reading(u)
    BY <2>1, ProcTypes DEF ProcInv, ReqOf, Return, At, OnSysfs, Reading
  <2>3. \/ \E v \in Int : NextStep(u, v)
        \/ \E e \in Errno \ {"none"} : Fail(u, e)
    <3>1. req[u].err \in Errno /\ req[u].ret \in Int /\ "EINVAL" \in Errno
      BY ProcTypes DEF Req, Errno
    <3> QED BY <1>2, <3>1 DEF SysfsReturn
  <2> QED BY <2>1, <2>2, <2>3, QuietMove
<1>3. CASE OpenChannel(u) \/ OpenChannelFails(u)
  <2>1. InCall(u) /\ Now(u).attr = "descriptors" /\ UNCHANGED dataVars
    BY <1>3 DEF OpenChannel, OpenChannelFails
  <2>2. ~Reading(u)
    BY <2>1 DEF Reading, ReadSteps
  <2>3. \/ \E v \in Int : NextStep(u, v)
        \/ \E e \in Errno \ {"none"} : Fail(u, e)
    BY <1>3 DEF OpenChannel, OpenChannelFails, Errno
  <2> QED BY <2>1, <2>2, <2>3, QuietMove
<1>4. ASSUME NEW c \in Chan, c = Ch(u), AbortData(u) PROVE Kept
  <2>1. CASE ClearsBus
    BY <1>4, <2>1, Emptied DEF AbortData
  <2>2. CASE ~ClearsBus
    BY <1>4, <2>2, IdleStep DEF AbortData, dataVars
  <2> QED BY <2>1, <2>2
<1>5. ASSUME NEW c \in Chan, c = Ch(u), NewBuffer(u) PROVE Kept
  BY <1>5, Emptied DEF NewBuffer
<1>6. Ch(u) \in Chan
  BY AccTypes
<1> QED BY <1>1, <1>2, <1>3, <1>4, <1>5, <1>6

\* Every step keeps every timestamp in one place.
LEMMA PlacesKeep ==
  ASSUME TypeInv, CallInv, DataInv, PlaceInv, [Next]_vars
  PROVE  Kept
<1>1. CASE UNCHANGED vars
  BY <1>1, IdleStep DEF vars, libVars
<1>2. ASSUME NEW u \in User, UNCHANGED tool, ReadOne(u) \/ ReadEnds(u) \/ ReadFails(u)
      PROVE  Kept
  <2>1. CASE ReadOne(u)
    BY <2>1, ReadOnePlaces
  <2>2. CASE ReadEnds(u)
    <3>1. Reading(u) /\ UNCHANGED <<req, hw, zbuf, made>>
      BY <2>2 DEF ReadEnds, sysVars
    <3>2. CASE ReadReturns(u)
      BY <1>2, <3>1, <3>2, ReturnedPlaces
    <3>3. CASE ~Keeps(u) /\ ReadReturnsError(u, "EAGAIN") /\ UNCHANGED got
      <4>1. Buf(u) = <<>> /\ "EAGAIN" \in Errno
        BY <3>3 DEF Keeps, Errno
      <4> QED BY <3>1, <3>3, <4>1, ErrorPlaces
    <3> QED BY <2>2, <3>2, <3>3 DEF ReadEnds
  <2>3. CASE ReadFails(u)
    <3>1. Reading(u) /\ UNCHANGED <<req, hw, zbuf, made>>
      BY <2>3 DEF ReadFails, sysVars
    <3>2. CASE ReadReturns(u)
      BY <1>2, <3>1, <3>2, ReturnedPlaces
    <3>3. CASE ~Keeps(u) /\ ReadReturnsError(u, "EIO") /\ UNCHANGED got
      <4>1. Buf(u) = <<>> /\ "EIO" \in Errno
        BY <3>3 DEF Keeps, Errno
      <4> QED BY <3>1, <3>3, <4>1, ErrorPlaces
    <3> QED BY <2>3, <3>2, <3>3 DEF ReadFails
  <2> QED BY <1>2, <2>1, <2>2, <2>3
<1>3. ASSUME NEW u \in User, UNCHANGED tool, CallStep(u) \/ CallFails(u)
      PROVE  Kept
  BY <1>2, <1>3, AccessPlaces DEF CallStep, CallFails
<1>4. ASSUME NEW u \in User, Starts(u) PROVE Kept
  <2>1. ~Over(u) /\ call[u].fn = "none" /\ UNCHANGED dataVars
        /\ call' = [call EXCEPT ![u] = IF Rejects(Current(u)) THEN [Current(u) EXCEPT !.err = "EINVAL"]
                                       ELSE Current(u)]
    BY <1>4 DEF Starts, Begin
  <2>2. call[u].buf = <<>> /\ call[u].acc = <<>>
    BY <2>1, ProcTypes DEF ProcInv, TakenInv, Reading, InCall
  <2>3. Current(u) \in LibCall
    BY <2>1, CurrentCall
  <2> DEFINE k == IF Rejects(Current(u)) THEN [Current(u) EXCEPT !.err = "EINVAL"] ELSE Current(u)
  <2>4. k.buf = <<>> /\ k.acc = <<>>
    BY <2>3 DEF LibCall
  <2>5. call' = [call EXCEPT ![u] = k]
    BY <2>1
  <2> HIDE DEF k
  <2> QED BY <2>1, <2>2, <2>4, <2>5, QuietStep
<1>5. ASSUME NEW u \in User, Returns(u) \/ LoopReturns(u) PROVE Kept
  <2>1. Ended(u) /\ call' = [call EXCEPT ![u] = NoCall] /\ UNCHANGED dataVars
    BY <1>5 DEF Returns, LoopReturns
  <2>2. call[u].buf = <<>> /\ call[u].acc = <<>>
    BY <2>1, ProcTypes DEF ProcInv, TakenInv, Reading, Ended
  <2> QED BY <2>1, <2>2, NoCallTypes, QuietStep
<1>6. ASSUME NEW u \in User, LoopEnds(u) \/ Poll(u) PROVE Kept
  BY <1>6, IdleStep DEF LoopEnds, Poll, libVars
<1>7. ASSUME NEW u \in User, ReadReady(u) PROVE Kept
  <2>1. InLoop(u) /\ call[u].fn = "none" /\ UNCHANGED dataVars
    BY <1>7 DEF ReadReady, Begin
  <2>2. PICK c \in tool[u].ready :
          Begin(u, IF Job(u).nblock THEN ReadNonBlock(c, ToRead(u)) ELSE Read(c, ToRead(u)))
    BY <1>7 DEF ReadReady
  <2>3. c \in Chan /\ ToRead(u) \in Int
    BY <2>1, LoopTypes DEF ToolState
  <2>4. PICK k \in {Read(c, ToRead(u)), ReadNonBlock(c, ToRead(u))} : Begin(u, k)
    BY <2>2
  <2>5. k.buf = <<>> /\ k.acc = <<>> /\ ~Rejects(k)
    BY <2>3, LoopReadCall
  <2>6. call' = [call EXCEPT ![u] = k]
    BY <2>4, <2>5 DEF Begin
  <2>7. call[u].buf = <<>> /\ call[u].acc = <<>>
    BY <2>1, ProcTypes DEF ProcInv, TakenInv, Reading, InCall
  <2> QED BY <2>1, <2>5, <2>6, <2>7, QuietStep
<1>8. ASSUME NEW u \in User, Signal(u) PROVE Kept
  <2>1. UNCHANGED <<hw, zbuf, made, got>>
    BY <1>8 DEF Signal
  <2>2. CASE UNCHANGED <<call, gone>>
    BY <2>1, <2>2, IdleStep DEF dataVars
  <2>3. CASE Waiting(u) /\ ReadReturnsError(u, "EIO")
    <3>1. Reading(u) /\ Buf(u) = <<>> /\ "EIO" \in Errno
      BY <2>3 DEF Waiting, Errno
    <3> QED BY <2>1, <2>3, <3>1, ErrorPlaces
  <2> QED BY <1>8, <2>2, <2>3 DEF Signal
<1>9. ASSUME NEW u \in User, ToolStep(u) PROVE Kept
  BY <1>3, <1>4, <1>5, <1>6, <1>7, <1>9 DEF ToolStep
<1>10. ASSUME NEW c \in Chan, Discard(c) PROVE Kept
  BY <1>10, Emptied DEF Discard
<1>11. CASE Acquisition
  BY <1>10, <1>11, PulsePlaces, DeliverPlaces DEF Acquisition
<1> QED BY <1>1, <1>3, <1>8, <1>9, <1>11 DEF Next

-----------------------------------------------------------------------------
(* The theorems *)

ToolInv == TypeInv /\ CallInv /\ DataInv /\ PlaceInv

\* At the beginning no program has made a call, and nothing has been taken.
LEMMA ToolInit ==
  ASSUME Init
  PROVE  ToolInv
<1>1. LibInit /\ SysInit
  BY DEF Init, LibInit
<1>2. TypeInv
  BY <1>1, TypeInit
<1>3. PICK j \in Jobs[Mode] :
       tool = [u \in User |-> [job |-> j[u], pc |-> 1, stop |-> FALSE, ready |-> {}, n |-> 0,
                               prev |-> [c \in Chan |-> 0],
                               missed |-> [c \in Chan |-> {}]]]
  BY DEF Init
<1>4. j \in [User -> DOMAIN Options]
  <2>1. Mode \in Modes
    BY <1>2 DEF TypeInv, Mode
  <2> QED BY <1>3, <2>1, JobsAssumption
<1>5. /\ hw = [c \in Chan |-> <<>>] /\ zbuf = [c \in Chan |-> <<>>] /\ made = [c \in Chan |-> 0]
      /\ got = [u \in User |-> [c \in Chan |-> <<>>]] /\ gone = [c \in Chan |-> {}]
      /\ call = [u \in User |-> NoCall] /\ req = [u \in User |-> IdleReq]
  BY <1>1 DEF LibInit, SysInit
<1>6. tool \in [User -> ToolState]
  <2>1. [c \in Chan |-> 0] \in [Chan -> Nat] /\ [c \in Chan |-> {}] \in [Chan -> SUBSET Nat]
    OBVIOUS
  <2>2. \A u \in User : j[u] \in DOMAIN Options
    BY <1>4
  <2> QED BY <1>3, <2>1, <2>2 DEF ToolState
<1>7. CallInv
  <2>1. call \in [User -> CallState]
    BY <1>5, NoCallTypes
  <2>2. ASSUME NEW u \in User PROVE ProcInv(u)
    <3>1. call[u] = NoCall /\ req[u].at = "idle" /\ tool[u].pc = 1 /\ tool[u].job \in DOMAIN Options
      BY <1>3, <1>4, <1>5 DEF IdleReq
    <3>2. Len(Program(u)) \in Nat
      <4>1. Programs[tool[u].job] = <<>> \/ \E s \in Seq(InnerCall) : Programs[tool[u].job] = <<Open>> \o s
        BY <3>1, ProgramType
      <4>2. ASSUME NEW s \in Seq(InnerCall) PROVE Len(<<Open>> \o s) \in Nat
        OBVIOUS
      <4> QED BY <4>1, <4>2 DEF Program
    <3>3. Shape(u)
      BY <3>1, <3>2, NoCallTypes DEF Shape
    <3>4. CallOf(u) /\ TakenInv(u) /\ ReqOf(u)
      BY <3>1, NoCallTypes DEF CallOf, TakenInv, ReqOf
    <3>5. Returned(u)
      BY <3>1, NoCallTypes DEF Returned, Ended
    <3> QED BY <3>3, <3>4, <3>5 DEF ProcInv
  <2> QED BY <1>6, <2>1, <2>2 DEF CallInv
<1>8. DataInv
  <2>1. <<>> \in Seq(Nat) /\ {} \in SUBSET Nat /\ 0 \in Nat
    OBVIOUS
  <2> QED BY <1>5, <2>1 DEF DataInv
<1>9. PlaceInv
  <2> SUFFICES ASSUME NEW c \in Chan PROVE Parts(c)
    BY DEF PlaceInv
  <2>1. ASSUME NEW p \in Places PROVE Stored(p, c) = <<>>
    <3>1. \A u \in User : Inflight(u, c) = <<>>
      BY <1>5, NoCallTypes, NothingInflight
    <3> QED BY <1>5, <3>1, PlaceNames
  <2>2. \A p \in Places : NoRepeat(Stored(p, c)) /\ ToSet(Stored(p, c)) = {}
    BY <2>1 DEF NoRepeat, ToSet
  <2>3. gone[c] = {} /\ made[c] = 0
    BY <1>5
  <2> DEFINE S == [p \in Places |-> ToSet(Stored(p, c))]
  <2>4. \A p \in Places : S[p] = {}
    BY <2>2
  <2> HIDE DEF S
  <2>5. Divides(S, {}, 0)
    BY <2>4 DEF Divides
  <2> QED BY <2>2, <2>3, <2>5 DEF Parts, S
<1> QED BY <1>2, <1>7, <1>8, <1>9 DEF ToolInv

\* Every step keeps the invariant.
LEMMA ToolKeeps ==
  ASSUME ToolInv, [Next]_vars
  PROVE  ToolInv' /\ [SysNext]_sysVars
<1>1. [SysNext]_sysVars
  BY StepOnBoard DEF ToolInv
<1>2. TypeInv'
  BY <1>1, TypeStep DEF ToolInv
<1>3. CallInv'
  BY CallsKeep DEF ToolInv
<1>4. DataInv' /\ PlaceInv'
  BY PlacesKeep DEF ToolInv, Kept
<1> QED BY <1>1, <1>2, <1>3, <1>4 DEF ToolInv

\* The invariant holds.
LEMMA ToolInvHolds == Spec => []ToolInv
<1>1. Init => ToolInv
  BY ToolInit
<1>2. ToolInv /\ [Next]_vars => ToolInv'
  BY ToolKeeps
<1> QED BY <1>1, <1>2, PTL DEF Spec

\* The programs of software/tools implement the processes of FtSysfs: every
\* access that a library call makes, and every step it takes in the driver, is
\* one of a process on the attributes, whatever the options, the errors and the
\* order of the calls.
THEOREM ToolsAreProcesses == Spec => SysSpec
<1>1. Init => SysInit
  BY DEF Init, LibInit
<1>2. ToolInv /\ [Next]_vars => [SysNext]_sysVars
  BY ToolKeeps
<1> QED BY <1>1, <1>2, ToolInvHolds, PTL DEF Spec, SysSpec

\* What is proved of the attributes holds while the programs use them: the
\* offset registers, the White Rabbit mode and INPUT_ENABLE are as the driver
\* says, and CURRENT_UTC is loaded with the inputs off.
THEOREM ToolsKeepTheBoard ==
  Spec => [](OffsetsWhole /\ WrModeMatches /\ EnableMatches) /\ LoadWhileOff
  BY ToolsAreProcesses, OffsetsAreWhole, WrModesMatch, EnablesMatch, LoadsWhileOff, PTL

\* Every timestamp the gateware took is in exactly one place, for any programs,
\* buffers and errors: no error path of fmctdc_read, fmctdc_fread or
\* fmctdc_flush loses or repeats one silently.
THEOREM TimestampsAreAccounted == Spec => []Accounted
<1>1. ToolInv => Accounted
  BY PlacesAccount DEF ToolInv
<1> QED BY <1>1, ToolInvHolds, PTL

-----------------------------------------------------------------------------
(* The order of timestamps *)

Rising(s) == \A i, j \in DOMAIN s : i < j => s[i] < s[j]
Below(A, B) == \A x \in A, y \in B : x < y

\* What keeps a sequence rising.
LEMMA RisingSeqs ==
  ASSUME NEW a \in Seq(Nat), Rising(a)
  PROVE  /\ Rising(<<>>)
         /\ \A x \in Nat : (\A y \in ToSet(a) : y < x) => Rising(Append(a, x))
         /\ \A b \in Seq(Nat) : Rising(b) /\ Below(ToSet(a), ToSet(b)) => Rising(a \o b)
         /\ \A m, n \in Int : m >= 1 /\ n <= Len(a) => Rising(SubSeq(a, m, n))
<1>1. Rising(<<>>)
  BY DEF Rising
<1>2. Len(a) \in Nat /\ DOMAIN a = 1 .. Len(a) /\ \A i \in DOMAIN a : a[i] \in Nat
  OBVIOUS
<1>3. ASSUME NEW x \in Nat, \A y \in ToSet(a) : y < x PROVE Rising(Append(a, x))
  <2> DEFINE t == Append(a, x)
  <2>1. /\ t \in Seq(Nat) /\ Len(t) = Len(a) + 1
        /\ \A i \in 1 .. Len(a) + 1 : t[i] = IF i <= Len(a) THEN a[i] ELSE x
    OBVIOUS
  <2> HIDE DEF t
  <2>2. DOMAIN t = 1 .. Len(a) + 1
    BY <2>1
  <2>3. \A i \in 1 .. Len(a) : a[i] < x
    BY <1>2, <1>3 DEF ToSet
  <2> SUFFICES ASSUME NEW i \in 1 .. Len(a) + 1, NEW j \in 1 .. Len(a) + 1, i < j
               PROVE  t[i] < t[j]
    BY <2>2 DEF Rising, t
  <2>4. i \in 1 .. Len(a) /\ t[i] = a[i]
    BY <1>2, <2>1
  <2>5. CASE j \in 1 .. Len(a)
    <3>1. t[j] = a[j]
      BY <1>2, <2>1, <2>5
    <3> QED BY <1>2, <2>4, <2>5, <3>1 DEF Rising
  <2>6. CASE ~(j <= Len(a))
    <3>1. t[j] = x
      BY <2>1, <2>6
    <3> QED BY <2>3, <2>4, <3>1
  <2> QED BY <1>2, <2>5, <2>6
<1>4. ASSUME NEW b \in Seq(Nat), Rising(b), Below(ToSet(a), ToSet(b)) PROVE Rising(a \o b)
  <2> DEFINE t == a \o b
  <2>1. /\ t \in Seq(Nat) /\ Len(t) = Len(a) + Len(b) /\ Len(b) \in Nat
        /\ \A i \in 1 .. Len(a) + Len(b) : t[i] = IF i <= Len(a) THEN a[i] ELSE b[i - Len(a)]
        /\ DOMAIN b = 1 .. Len(b)
    OBVIOUS
  <2> HIDE DEF t
  <2>2. DOMAIN t = 1 .. Len(a) + Len(b)
    BY <2>1
  <2>3. \A i \in DOMAIN a, j \in DOMAIN b : a[i] < b[j]
    BY <1>4 DEF Below, ToSet
  <2>4. \A i \in 1 .. Len(a) + Len(b) :
           \/ i \in DOMAIN a /\ t[i] = a[i]
           \/ ~(i <= Len(a)) /\ i - Len(a) \in DOMAIN b /\ t[i] = b[i - Len(a)]
    BY <1>2, <2>1
  <2> SUFFICES ASSUME NEW i \in 1 .. Len(a) + Len(b), NEW j \in 1 .. Len(a) + Len(b), i < j
               PROVE  t[i] < t[j]
    BY <2>2 DEF Rising, t
  <2>5. CASE i \in DOMAIN a /\ t[i] = a[i] /\ j \in DOMAIN a /\ t[j] = a[j]
    BY <2>5 DEF Rising
  <2>6. CASE i \in DOMAIN a /\ t[i] = a[i] /\ j - Len(a) \in DOMAIN b /\ t[j] = b[j - Len(a)]
    BY <2>3, <2>6
  <2>7. CASE /\ ~(i <= Len(a)) /\ i - Len(a) \in DOMAIN b /\ t[i] = b[i - Len(a)]
             /\ ~(j <= Len(a)) /\ j - Len(a) \in DOMAIN b /\ t[j] = b[j - Len(a)]
    <3>1. i - Len(a) < j - Len(a)
      BY <1>2
    <3> QED BY <1>4, <2>7, <3>1 DEF Rising
  <2>8. CASE ~(i <= Len(a)) /\ j \in DOMAIN a
    BY <1>2, <2>8
  <2> QED BY <2>4, <2>5, <2>6, <2>7, <2>8
<1>5. ASSUME NEW m \in Int, NEW n \in Int, m >= 1, n <= Len(a) PROVE Rising(SubSeq(a, m, n))
  <2> DEFINE t == SubSeq(a, m, n)
  <2>1. \A i \in DOMAIN t : i \in Nat /\ i + m - 1 \in DOMAIN a /\ t[i] = a[i + m - 1]
    BY <1>5, PartOfSeq
  <2> HIDE DEF t
  <2> SUFFICES ASSUME NEW i \in DOMAIN t, NEW j \in DOMAIN t, i < j PROVE t[i] < t[j]
    BY DEF Rising, t
  <2>2. i + m - 1 < j + m - 1
    BY <1>5, <2>1
  <2> QED BY <2>1, <2>2 DEF Rising
<1> QED BY <1>1, <1>3, <1>4, <1>5

\* A rising sequence repeats nothing, and begins with its least number.
LEMMA RisingHead ==
  ASSUME NEW z \in Seq(Nat), Rising(z), z # <<>>
  PROVE  /\ Head(z) \in Nat /\ Tail(z) \in Seq(Nat) /\ Rising(Tail(z))
         /\ ToSet(z) = ToSet(Tail(z)) \union {Head(z)}
         /\ \A y \in ToSet(Tail(z)) : Head(z) < y
<1>1. Len(z) \in Nat /\ DOMAIN z = 1 .. Len(z) /\ \A i \in DOMAIN z : z[i] \in Nat
  OBVIOUS
<1>2. NoRepeat(z)
  <2> SUFFICES ASSUME NEW i \in DOMAIN z, NEW j \in DOMAIN z, z[i] = z[j], i # j PROVE FALSE
    BY DEF NoRepeat
  <2>1. i < j \/ j < i
    BY <1>1
  <2>2. z[i] < z[j] \/ z[j] < z[i]
    BY <2>1 DEF Rising
  <2> QED BY <1>1, <2>2
<1>3. /\ Head(z) \in Nat /\ Tail(z) \in Seq(Nat)
      /\ ToSet(z) = ToSet(Tail(z)) \union {Head(z)}
  BY <1>2, HeadAndTail
<1> DEFINE t == Tail(z)
<1>4. /\ t \in Seq(Nat) /\ Len(t) = Len(z) - 1 /\ Head(z) = z[1] /\ Len(z) >= 1
      /\ \A i \in 1 .. Len(t) : t[i] = z[i + 1]
  BY HeadTailProperties
<1> HIDE DEF t
<1>5. DOMAIN t = 1 .. Len(z) - 1
  BY <1>4
<1>6. \A i \in DOMAIN t : i \in Nat /\ i + 1 \in DOMAIN z /\ t[i] = z[i + 1] /\ 1 < i + 1
  <2> PICK n \in Nat : n = Len(z)
    BY <1>1
  <2> SUFFICES ASSUME NEW i \in DOMAIN t
               PROVE  i \in Nat /\ i + 1 \in DOMAIN z /\ t[i] = z[i + 1] /\ 1 < i + 1
    OBVIOUS
  <2>1. i \in 1 .. n - 1 /\ Len(t) = n - 1
    BY <1>4, <1>5
  <2>2. i \in Nat /\ i + 1 \in 1 .. n /\ 1 < i + 1
    BY <2>1
  <2> QED BY <1>1, <1>4, <2>1, <2>2, Zenon
<1>7. Rising(t)
  <2> SUFFICES ASSUME NEW i \in DOMAIN t, NEW j \in DOMAIN t, i < j PROVE t[i] < t[j]
    BY DEF Rising
  <2>1. i + 1 < j + 1
    BY <1>6
  <2> QED BY <1>6, <2>1 DEF Rising
<1>8. ASSUME NEW y \in ToSet(t) PROVE Head(z) < y
  <2>1. PICK i \in DOMAIN t : y = t[i]
    BY DEF ToSet
  <2>2. 1 \in DOMAIN z /\ 1 < i + 1 /\ i + 1 \in DOMAIN z /\ y = z[i + 1]
    BY <1>1, <1>4, <1>6, <2>1
  <2> QED BY <1>4, <2>2 DEF Rising
<1> QED BY <1>3, <1>7, <1>8 DEF t

\* A process has timestamps of an input, has some in hand, some are in the ZIO
\* buffer and some in the hardware: each of these are older than the next.
InOrder(g, i, z, h) ==
  /\ Rising(g) /\ Rising(i) /\ Rising(z) /\ Rising(h)
  /\ Below(ToSet(g), ToSet(i) \union ToSet(z) \union ToSet(h))
  /\ Below(ToSet(i), ToSet(z) \union ToSet(h))
  /\ Below(ToSet(z), ToSet(h))

\* What keeps that order.
LEMMA OrderMoves ==
  ASSUME NEW g \in Seq(Nat), NEW i \in Seq(Nat), NEW z \in Seq(Nat), NEW h \in Seq(Nat),
         InOrder(g, i, z, h)
  PROVE  /\ \A x \in Nat : (\A y \in ToSet(g) \union ToSet(i) \union ToSet(z) \union ToSet(h) : y < x)
              => InOrder(g, i, z, Append(h, x))
         /\ \A k \in Seq(Nat) : Rising(k) /\ ToSet(k) \subseteq ToSet(z) \union ToSet(h)
              => InOrder(g, i, k, <<>>)
         /\ InOrder(g, i, <<>>, h)
         /\ z # <<>> => InOrder(g, i, Tail(z), h) /\ InOrder(g, Append(i, Head(z)), Tail(z), h)
         /\ InOrder(g \o i, <<>>, z, h) /\ InOrder(g, <<>>, z, h)
<1>0. /\ Rising(g) /\ Rising(i) /\ Rising(z) /\ Rising(h)
      /\ Below(ToSet(g), ToSet(i) \union ToSet(z) \union ToSet(h))
      /\ Below(ToSet(i), ToSet(z) \union ToSet(h))
      /\ Below(ToSet(z), ToSet(h))
  BY DEF InOrder
<1>1. Rising(<<>>) /\ ToSet(<<>>) = {}
  BY DEF Rising, ToSet
<1>2. ASSUME NEW x \in Nat,
             \A y \in ToSet(g) \union ToSet(i) \union ToSet(z) \union ToSet(h) : y < x
      PROVE  InOrder(g, i, z, Append(h, x))
  <2>1. Rising(Append(h, x)) /\ ToSet(Append(h, x)) = ToSet(h) \union {x}
    BY <1>0, <1>2, RisingSeqs, SeqSets
  <2> QED BY <1>0, <1>2, <2>1 DEF InOrder, Below
<1>3. ASSUME NEW k \in Seq(Nat), Rising(k), ToSet(k) \subseteq ToSet(z) \union ToSet(h)
      PROVE  InOrder(g, i, k, <<>>)
  BY <1>0, <1>1, <1>3 DEF InOrder, Below
<1>4. InOrder(g, i, <<>>, h)
  BY <1>0, <1>1 DEF InOrder, Below
<1>5. ASSUME z # <<>> PROVE InOrder(g, i, Tail(z), h) /\ InOrder(g, Append(i, Head(z)), Tail(z), h)
  <2> DEFINE x == Head(z)
             t == Tail(z)
  <2>1. /\ x \in Nat /\ t \in Seq(Nat) /\ Rising(t) /\ ToSet(z) = ToSet(t) \union {x}
        /\ \A y \in ToSet(t) : x < y
    BY <1>0, <1>5, RisingHead
  <2> HIDE DEF x, t
  <2>2. InOrder(g, i, t, h)
    BY <1>0, <2>1 DEF InOrder, Below
  <2>3. \A y \in ToSet(i) : y < x
    BY <1>0, <2>1 DEF Below
  <2>4. Rising(Append(i, x)) /\ ToSet(Append(i, x)) = ToSet(i) \union {x}
    BY <1>0, <2>1, <2>3, RisingSeqs, SeqSets
  <2>5. InOrder(g, Append(i, x), t, h)
    BY <1>0, <2>1, <2>4 DEF InOrder, Below
  <2> QED BY <2>2, <2>5 DEF x, t
<1>6. InOrder(g \o i, <<>>, z, h) /\ InOrder(g, <<>>, z, h)
  <2>1. ToSet(g \o i) = ToSet(g) \union ToSet(i)
    BY SeqSets
  <2>2. Below(ToSet(g), ToSet(i))
    BY <1>0 DEF Below
  <2>3. Rising(g \o i)
    BY <1>0, <2>2, RisingSeqs
  <2> QED BY <1>0, <1>1, <2>1, <2>3 DEF InOrder, Below
<1> QED BY <1>2, <1>3, <1>4, <1>5, <1>6

\* What a process has of an input is older than what it can still read.
OrderInv ==
  \A u \in User : \A c \in Chan : InOrder(got[u][c], Inflight(u, c), zbuf[c], hw[c])

\* The four places a process can have or get timestamps from.
LEMMA FourPlaces ==
  ASSUME TypeInv, CallInv, DataInv, PlaceInv, NEW u \in User, NEW c \in Chan
  PROVE  /\ got[u][c] \in Seq(Nat) /\ Inflight(u, c) \in Seq(Nat)
         /\ zbuf[c] \in Seq(Nat) /\ hw[c] \in Seq(Nat)
         /\ ToSet(got[u][c]) \union ToSet(Inflight(u, c)) \union ToSet(zbuf[c]) \union ToSet(hw[c])
              \subseteq 1 .. made[c]
         /\ made[c] \in Nat
<1>1. /\ HwPlace \in Places /\ ZbufPlace \in Places
      /\ CallPlace(u) \in Places /\ CallerPlace(u) \in Places
  BY PlaceNames
<1>2. /\ Stored(HwPlace, c) = hw[c] /\ Stored(ZbufPlace, c) = zbuf[c]
      /\ Stored(CallPlace(u), c) = Inflight(u, c) /\ Stored(CallerPlace(u), c) = got[u][c]
  BY PlaceNames
<1>3. \A p \in Places : Stored(p, c) \in Seq(Nat) /\ ToSet(Stored(p, c)) \subseteq 1 .. made[c]
  BY StoredTypes, ApartFacts
<1>4. /\ hw[c] \in Seq(Nat) /\ ToSet(hw[c]) \subseteq 1 .. made[c]
      /\ zbuf[c] \in Seq(Nat) /\ ToSet(zbuf[c]) \subseteq 1 .. made[c]
  BY <1>1, <1>2, <1>3
<1>5. /\ Inflight(u, c) \in Seq(Nat) /\ ToSet(Inflight(u, c)) \subseteq 1 .. made[c]
      /\ got[u][c] \in Seq(Nat) /\ ToSet(got[u][c]) \subseteq 1 .. made[c]
  BY <1>1, <1>2, <1>3
<1> QED BY <1>4, <1>5 DEF DataInv

\* No step puts a timestamp before an older one.
LEMMA OrderKeeps ==
  ASSUME TypeInv, CallInv, DataInv, PlaceInv, OrderInv, \A c \in Chan : Moves(c)
  PROVE  OrderInv'
<1> SUFFICES ASSUME NEW u \in User, NEW c \in Chan
             PROVE  InOrder(got'[u][c], Inflight(u, c)', zbuf'[c], hw'[c])
  BY DEF OrderInv
<1> PICK g \in Seq(Nat) : g = got[u][c]
  BY FourPlaces
<1> PICK i \in Seq(Nat) : i = Inflight(u, c)
  BY FourPlaces
<1> PICK z \in Seq(Nat) : z = zbuf[c]
  BY FourPlaces
<1> PICK h \in Seq(Nat) : h = hw[c]
  BY FourPlaces
<1> PICK m \in Nat : m = made[c]
  BY FourPlaces
<1>1. InOrder(g, i, z, h) /\ Moves(c)
  BY DEF OrderInv
<1>2. ToSet(g) \union ToSet(i) \union ToSet(z) \union ToSet(h) \subseteq 1 .. m
  BY FourPlaces
<1>3. CASE /\ zbuf'[c] = zbuf[c] /\ hw'[c] = hw[c]
           /\ \A w \in User : Holds(w, c) \/ HandsOver(w, c) \/ Drops(w, c)
  <2>1. /\ zbuf'[c] = z /\ hw'[c] = h
        /\ \/ got'[u][c] = g /\ Inflight(u, c)' = i
           \/ got'[u][c] = g \o i /\ Inflight(u, c)' = <<>>
           \/ got'[u][c] = g /\ Inflight(u, c)' = <<>>
    BY <1>3 DEF Holds, HandsOver, Drops
  <2>2. InOrder(g \o i, <<>>, z, h) /\ InOrder(g, <<>>, z, h)
    BY <1>1, OrderMoves
  <2> QED BY <1>1, <2>1, <2>2
<1>4. CASE /\ zbuf[c] # <<>> /\ zbuf'[c] = Tail(zbuf[c]) /\ hw'[c] = hw[c]
           /\ \A w \in User : Holds(w, c) \/ Takes(w, c)
  <2>1. /\ z # <<>> /\ zbuf'[c] = Tail(z) /\ hw'[c] = h /\ got'[u][c] = g
        /\ Inflight(u, c)' = i \/ Inflight(u, c)' = Append(i, Head(z))
    BY <1>4 DEF Holds, Takes
  <2>2. InOrder(g, i, Tail(z), h) /\ InOrder(g, Append(i, Head(z)), Tail(z), h)
    BY <1>1, <2>1, OrderMoves
  <2> QED BY <2>1, <2>2
<1>5. CASE BoardMove(c) /\ \A w \in User : Holds(w, c)
  <2>1. got'[u][c] = g /\ Inflight(u, c)' = i
    BY <1>5 DEF Holds
  <2>2. CASE zbuf'[c] = zbuf[c] /\ hw'[c] = Append(hw[c], made[c] + 1)
    <3>1. m + 1 \in Nat
          /\ \A y \in ToSet(g) \union ToSet(i) \union ToSet(z) \union ToSet(h) : y < m + 1
      BY <1>2
    <3>2. InOrder(g, i, z, Append(h, m + 1))
      BY <1>1, <3>1, OrderMoves
    <3> QED BY <2>1, <2>2, <3>2
  <2>3. CASE /\ hw'[c] = <<>>
             /\ \E a, b \in Int : /\ a >= 1 /\ b <= Len(zbuf[c] \o hw[c])
                                  /\ zbuf'[c] = SubSeq(zbuf[c] \o hw[c], a, b)
    <3>0. (z \o h) \in Seq(Nat)
      OBVIOUS
    <3> PICK all \in Seq(Nat) : all = z \o h
      BY <3>0, Zenon
    <3>1. PICK a \in Int, b \in Int : a >= 1 /\ b <= Len(all) /\ zbuf'[c] = SubSeq(all, a, b)
      BY <2>3
    <3>2. Rising(z) /\ Rising(h) /\ Below(ToSet(z), ToSet(h))
      BY <1>1 DEF InOrder
    <3>3. Rising(all)
      BY <3>2, RisingSeqs
    <3>4. ToSet(all) = ToSet(z) \union ToSet(h)
      BY SeqSets
    <3>5. /\ SubSeq(all, a, b) \in Seq(Nat) /\ Rising(SubSeq(all, a, b))
          /\ ToSet(SubSeq(all, a, b)) \subseteq ToSet(all)
      BY <3>1, <3>3, RisingSeqs, PartOfSeq
    <3> PICK k \in Seq(Nat) : k = SubSeq(all, a, b)
      BY <3>5, Zenon
    <3>6. Rising(k) /\ ToSet(k) \subseteq ToSet(z) \union ToSet(h)
      BY <3>4, <3>5
    <3>7. InOrder(g, i, k, <<>>)
      BY <1>1, <3>6, OrderMoves
    <3> QED BY <2>1, <2>3, <3>1, <3>7
  <2>4. CASE zbuf'[c] = <<>> /\ hw'[c] = hw[c]
    <3>1. InOrder(g, i, <<>>, h)
      BY <1>1, OrderMoves
    <3> QED BY <2>1, <2>4, <3>1
  <2>5. CASE zbuf'[c] = zbuf[c] /\ hw'[c] = <<>>
    <3>1. ToSet(z) \subseteq ToSet(z) \union ToSet(h) /\ Rising(z)
      BY <1>1 DEF InOrder
    <3>2. InOrder(g, i, z, <<>>)
      BY <1>1, <3>1, OrderMoves
    <3> QED BY <2>1, <2>5, <3>2
  <2> QED BY <1>5, <2>2, <2>3, <2>4, <2>5 DEF BoardMove
<1> QED BY <1>1, <1>3, <1>4, <1>5 DEF Moves

\* What a program has not been given of an input: discarded, or with another.
Lost(u, c) ==
  gone[c] \union UNION {ToSet(got[w][c] \o Inflight(w, c)) : w \in User \ {u}}

\* What it has not been given it never gets.
LEMMA LostStays ==
  ASSUME TypeInv, CallInv, DataInv, PlaceInv, NEW u \in User, NEW c \in Chan, Moves(c)
  PROVE  Lost(u, c) \subseteq Lost(u, c)'
<1>1. gone[c] \subseteq gone'[c]
  BY DEF Moves
<1>2. ASSUME NEW w \in User
      PROVE  ToSet(got[w][c] \o Inflight(w, c))
               \subseteq ToSet(got'[w][c] \o Inflight(w, c)') \union gone'[c]
  <2> PICK g \in Seq(Nat) : g = got[w][c]
    BY FourPlaces
  <2> PICK i \in Seq(Nat) : i = Inflight(w, c)
    BY FourPlaces
  <2> PICK z \in Seq(Nat) : z = zbuf[c]
    BY FourPlaces
  <2>0. ToSet(g \o i) = ToSet(g) \union ToSet(i) /\ <<>> \in Seq(Nat)
    BY SeqSets
  <2>00. \A s \in Seq(Nat) : ToSet(g \o s) = ToSet(g) \union ToSet(s)
    BY SeqSets
  <2>1. CASE Holds(w, c)
    BY <2>1 DEF Holds
  <2>2. CASE HandsOver(w, c)
    <3>1. got'[w][c] = g \o i /\ Inflight(w, c)' = <<>> /\ (g \o i) \in Seq(Nat)
      BY <2>2 DEF HandsOver
    <3>2. (g \o i) \o <<>> = g \o i
      BY <3>1
    <3> QED BY <3>1, <3>2
  <2>3. CASE Drops(w, c)
    <3>1. got'[w][c] = g /\ Inflight(w, c)' = <<>> /\ ToSet(i) \subseteq gone'[c]
      BY <2>3 DEF Drops
    <3>2. g \o <<>> = g
      OBVIOUS
    <3> QED BY <2>0, <3>1, <3>2
  <2>4. CASE Takes(w, c) /\ z # <<>>
    <3> PICK x : x = Head(z)
      OBVIOUS
    <3>1. got'[w][c] = g /\ Inflight(w, c)' = Append(i, x) /\ x \in Nat
      BY <2>4 DEF Takes
    <3>2. Append(i, x) \in Seq(Nat) /\ ToSet(Append(i, x)) = ToSet(i) \union {x}
      BY <3>1, SeqSets
    <3> PICK e \in Seq(Nat) : e = Append(i, x)
      BY <3>2, Zenon
    <3>3. ToSet(g \o e) = ToSet(g) \union ToSet(e)
      BY <2>00
    <3>4. got'[w][c] \o Inflight(w, c)' = g \o e
      BY <3>1, Zenon
    <3>5. ToSet(g \o i) \subseteq ToSet(g \o e)
      BY <2>0, <3>2, <3>3
    <3> QED BY <3>4, <3>5
  <2> QED BY <2>1, <2>2, <2>3, <2>4 DEF Moves
<1>3. ASSUME NEW x \in Lost(u, c) PROVE x \in Lost(u, c)'
  <2>1. CASE x \in gone[c]
    BY <1>1, <2>1 DEF Lost
  <2>2. CASE x \notin gone[c]
    <3>1. PICK w \in User \ {u} : x \in ToSet(got[w][c] \o Inflight(w, c))
      BY <2>2 DEF Lost
    <3>2. x \in ToSet(got'[w][c] \o Inflight(w, c)') \union gone'[c]
      BY <1>2, <3>1
    <3> QED BY <3>2 DEF Lost
  <2> QED BY <2>1, <2>2
<1> QED BY <1>3

-----------------------------------------------------------------------------
(* The numbers a program reports missing *)

\* What is missing between two neighbours of a rising sequence is not in it.
LEMMA GapBetween ==
  ASSUME NEW g \in Seq(Nat), Rising(g), NEW l \in Int, l = Len(g),
         NEW h \in 1 .. l, NEW k \in 1 .. l, k = h + 1, NEW x \in Nat, g[h] < x, x < g[k]
  PROVE  x >= 1 /\ x \notin ToSet(g) /\ x < g[l]
<1>0. l \in 1 .. l /\ k \in Int /\ h \in Int
  OBVIOUS
<1>1. DOMAIN g = 1 .. l
  OBVIOUS
<1>2. \A i \in 1 .. l : g[i] \in Nat
  OBVIOUS
<1>3. \A i, j \in 1 .. l : i < j => g[i] < g[j]
  BY <1>1 DEF Rising
<1> HIDE DEF Rising
<1>4. g[h] \in Nat /\ g[k] \in Nat /\ g[l] \in Nat
  BY <1>0, <1>2
<1>5. x >= 1
  BY <1>4
<1>6. x \notin ToSet(g)
  <2> SUFFICES ASSUME NEW j \in 1 .. l, x = g[j] PROVE FALSE
    BY <1>1 DEF ToSet
  <2>0. j \in Int
    OBVIOUS
  <2>1. j < h \/ j = h \/ j = k \/ j > k
    BY <1>0, <2>0
  <2>2. j < h => g[j] < g[h]
    BY <1>3, Zenon
  <2>3. j > k => g[k] < g[j]
    <3>1. j > k => k < j
      BY <1>0, <2>0
    <3> QED BY <1>3, <3>1, Zenon
  <2> QED BY <1>4, <2>1, <2>2, <2>3
<1>7. x < g[l]
  <2>1. k = l \/ k < l
    BY <1>0
  <2>2. k < l => g[k] < g[l]
    BY <1>0, <1>3, Zenon
  <2> QED BY <1>4, <2>1, <2>2
<1> QED BY <1>5, <1>6, <1>7

\* The numbers between two others.
LEMMA StrictlyBetween ==
  ASSUME NEW a \in Nat, NEW b \in Nat, NEW x \in a + 1 .. b - 1
  PROVE  x \in Nat /\ a < x /\ x < b
OBVIOUS

\* The numbers of a batch, with the one before it.
LEMMA SeenNumbers ==
  ASSUME NEW p \in Nat, NEW s \in Seq(Nat)
  PROVE  (<<p>> \o s)[1] = p /\ \A i \in 1 .. Len(s) : (<<p>> \o s)[i + 1] = s[i]
<1> PICK n \in Nat : n = Len(s)
  OBVIOUS
<1> DEFINE seen == <<p>> \o s
<1>1. \A i \in 1 .. n : i + 1 \in 1 .. 1 + n /\ ~(i + 1 <= 1) /\ (i + 1) - 1 = i
  OBVIOUS
<1>2. 1 \in 1 .. 1 + n /\ 1 <= 1
  OBVIOUS
<1>3. \A q \in Seq(Nat) : \A i \in 1 .. Len(q) + Len(s) :
        (q \o s)[i] = IF i <= Len(q) THEN q[i] ELSE s[i - Len(q)]
  OBVIOUS
<1>4. <<p>> \in Seq(Nat) /\ Len(<<p>>) = 1 /\ <<p>>[1] = p
  OBVIOUS
<1> PICK q \in Seq(Nat) : q = <<p>>
  BY <1>4, Zenon
<1>5. Len(q) = 1 /\ q[1] = p /\ seen = q \o s
  BY <1>4, Zenon
<1> HIDE DEF seen
<1>6. \A i \in 1 .. 1 + n : seen[i] = IF i <= 1 THEN q[i] ELSE s[i - 1]
  BY <1>3, <1>5, Zenon
<1>7. seen[1] = p /\ \A i \in 1 .. n : seen[i + 1] = s[i]
  BY <1>1, <1>2, <1>5, <1>6, Zenon
<1> QED BY <1>7 DEF seen

\* What is missing between the elements of a rising sequence is not among them.
LEMMA MissingGaps ==
  ASSUME NEW g \in Seq(Nat), Rising(g), NEW n \in 1 .. Len(g), NEW p \in Nat,
         p # 0 => Len(g) - n \in DOMAIN g /\ p = g[Len(g) - n]
  PROVE  \A x \in Missing(p, SubSeq(g, Len(g) - n + 1, Len(g))) :
           x \in Nat /\ x >= 1 /\ x \notin ToSet(g) /\ x < g[Len(g)]
<1> PICK s \in Seq(Nat) : s = SubSeq(g, Len(g) - n + 1, Len(g))
  BY EndOfSeq
<1> PICK l \in Nat : l = Len(g)
  OBVIOUS
<1>0. Len(s) = n /\ \A i \in 1 .. n : s[i] = g[l - n + i]
  BY EndOfSeq
<1> SUFFICES \A x \in Missing(p, s) : x \in Nat /\ x >= 1 /\ x \notin ToSet(g) /\ x < g[l]
  BY Zenon
<1>1. Missing(p, s) =
        UNION {IF (<<p>> \o s)[i] = 0 THEN {}
               ELSE IF (<<p>> \o s)[i] < (<<p>> \o s)[i + 1]
                    THEN (<<p>> \o s)[i] + 1 .. (<<p>> \o s)[i + 1] - 1 ELSE {0} : i \in 1 .. n}
  BY <1>0 DEF Missing
<1>2. (<<p>> \o s)[1] = p /\ \A i \in 1 .. n : (<<p>> \o s)[i + 1] = s[i]
  <2>1. (<<p>> \o s)[1] = p /\ \A i \in 1 .. Len(s) : (<<p>> \o s)[i + 1] = s[i]
    BY SeenNumbers
  <2> QED BY <1>0, <2>1, Zenon
<1> PICK seen : seen = <<p>> \o s
  OBVIOUS
<1>3. seen[1] = p /\ \A i \in 1 .. n : seen[i + 1] = s[i]
  BY <1>2, Zenon
<1>4. Missing(p, s) =
        UNION {IF seen[i] = 0 THEN {}
               ELSE IF seen[i] < seen[i + 1] THEN seen[i] + 1 .. seen[i + 1] - 1 ELSE {0} :
                 i \in 1 .. n}
  BY <1>1, Zenon
<1>5. l \in Nat /\ n \in Nat /\ DOMAIN g = 1 .. l /\ \A i \in 1 .. l : g[i] \in Nat
  OBVIOUS
<1>6. ASSUME NEW j \in 1 .. n, seen[j] # 0
      PROVE  l - n + j \in 2 .. l /\ seen[j] = g[l - n + j - 1] /\ seen[j + 1] = g[l - n + j]
  <2>1. seen[j + 1] = g[l - n + j]
    BY <1>0, <1>3
  <2>2. CASE j = 1
    <3>1. p # 0 /\ l - n \in 1 .. l /\ p = g[l - n]
      BY <1>3, <1>5, <1>6, <2>2
    <3>2. l - n + j - 1 = l - n /\ l - n + j \in 2 .. l
      BY <1>5, <2>2, <3>1
    <3> QED BY <1>3, <2>1, <2>2, <3>1, <3>2
  <2>3. CASE j # 1
    <3>1. j - 1 \in 1 .. n /\ (j - 1) + 1 = j /\ l - n + (j - 1) = l - n + j - 1
          /\ l - n + j \in 2 .. l
      BY <1>5, <2>3
    <3>2. seen[j] = s[j - 1] /\ s[j - 1] = g[l - n + (j - 1)]
      BY <1>0, <1>3, <3>1
    <3> QED BY <2>1, <3>1, <3>2
  <2> QED BY <2>2, <2>3
<1>7. ASSUME NEW j \in 1 .. n, seen[j] # 0
      PROVE  \A x \in IF seen[j] < seen[j + 1] THEN seen[j] + 1 .. seen[j + 1] - 1 ELSE {0} :
               x \in Nat /\ x >= 1 /\ x \notin ToSet(g) /\ x < g[l]
  <2> PICK k \in 2 .. l : k = l - n + j
    BY <1>6, <1>7
  <2>0. k - 1 \in 1 .. l /\ k \in 1 .. l
    BY <1>5
  <2> PICK h \in 1 .. l : h = k - 1
    BY <2>0, Zenon
  <2>00. k = h + 1 /\ h < k
    BY <1>5
  <2> PICK a \in Nat, b \in Nat : a = g[h] /\ b = g[k]
    BY <1>5, <2>0
  <2>1. seen[j] = a /\ seen[j + 1] = b
    <3>1. k - 1 = l - n + j - 1
      BY <1>5
    <3> QED BY <1>6, <1>7, <3>1, Zenon
  <2>2. a < b
    <3>1. \A i, m \in 1 .. l : i < m => g[i] < g[m]
      BY <1>5 DEF Rising
    <3> QED BY <2>0, <2>00, <3>1, Zenon
  <2>3. ASSUME NEW x \in a + 1 .. b - 1
        PROVE  x \in Nat /\ x >= 1 /\ x \notin ToSet(g) /\ x < g[l]
    <3>1. x \in Nat /\ a < x /\ x < b
      BY StrictlyBetween
    <3>2. a = g[h] /\ b = g[k] /\ l \in Int /\ l = Len(g) /\ Rising(g)
      OBVIOUS
    <3>3. g[h] < x /\ x < g[k]
      BY <3>1, <3>2, Zenon
    <3> QED BY <2>0, <2>00, <3>1, <3>2, <3>3, GapBetween, Zenon
  <2> QED BY <2>1, <2>2, <2>3, Zenon
<1> QED BY <1>4, <1>7, Zenon

-----------------------------------------------------------------------------
(* What a program has seen last *)

\* What the read of a loop has put into got, and the loop has not looked at.
Unseen(u, c) ==
  IF InLoop(u) /\ Ended(u) /\ call[u].err = "none" /\ call[u].script[1].chan = c
  THEN call[u].res[1] ELSE 0

\* The number a readout program saw last on an input is the last one it was
\* given of it, and fmc-tdc-perftest has skipped the first ones.
PrevInv(u, c) ==
  LET p == tool[u].prev[c]
      n == Len(got[u][c]) - Unseen(u, c)
  IN  p # 0 => /\ Job(u).prog \in {"tstamp", "perftest"}
               /\ n \in DOMAIN got[u][c] /\ p = got[u][c][n]
               /\ Job(u).prog = "perftest" => p >= Skip

\* What it reports missing it never gets.
MissInv == \A u \in User : \A c \in Chan : PrevInv(u, c) /\ tool[u].missed[c] \subseteq Lost(u, c)

\* A step that brings a program nothing.
LEMMA PrevStays ==
  ASSUME NEW u \in User, NEW c \in Chan, PrevInv(u, c), got'[u][c] = got[u][c],
         tool'[u].prev = tool[u].prev, tool'[u].job = tool[u].job, Unseen(u, c)' = Unseen(u, c)
  PROVE  PrevInv(u, c)'
  BY DEF PrevInv, Job

\* The step a readout loop is at, while it reads and when it has read.
LEMMA LoopCall ==
  ASSUME TypeInv, CallInv, NEW u \in User, InLoop(u), call[u].fn # "none"
  PROVE  /\ Len(call[u].script) = 1 /\ call[u].script[1] = Head(call[u].script)
         /\ call[u].script[1].chan \in Chan /\ call[u].res \in Seq(Int)
         /\ InCall(u) => /\ Reading(u) /\ Now(u) = call[u].script[1] /\ call[u].res = <<>>
                         /\ Now(u).attr \in {"read", "read_nonblock"}
         /\ Ended(u) /\ call[u].err = "none" =>
              call[u].res[1] \in 0 .. Len(got[u][call[u].script[1].chan])
<1>1. LoopRead(u) /\ call[u] \in CallState /\ Shape(u) /\ Returned(u)
  BY ProcTypes DEF ProcInv, CallOf
<1>2. /\ call[u].script \in Seq(ScriptStep) /\ Len(call[u].script) = 1
      /\ call[u].script[1].attr \in {"read", "read_nonblock"} /\ call[u].res \in Seq(Int)
      /\ call[u].at \in 1 .. 2 /\ Len(call[u].res) = call[u].at - 1
  BY <1>1 DEF LoopRead, CallState, Shape
<1>3. call[u].script[1] \in ScriptStep /\ call[u].script[1] = Head(call[u].script)
  BY <1>2
<1>4. call[u].script[1].chan \in Chan
  BY <1>3 DEF ScriptStep
<1>5. InCall(u) => call[u].at = 1 /\ Len(call[u].res) = 0
  BY <1>2 DEF InCall
<1>6. InCall(u) => /\ Reading(u) /\ Now(u) = call[u].script[1] /\ call[u].res = <<>>
                   /\ Now(u).attr \in {"read", "read_nonblock"}
  BY <1>2, <1>5 DEF Reading, Now, ReadSteps
<1>7. Ended(u) /\ call[u].err = "none" =>
        call[u].res[1] \in 0 .. Len(got[u][call[u].script[1].chan])
  BY <1>1, <1>3 DEF Returned
<1> QED BY <1>2, <1>3, <1>4, <1>6, <1>7

\* A read of the loop returns: what it adds to got the loop has not seen.
LEMMA LoopReadReturns ==
  ASSUME TypeInv, CallInv, DataInv, NEW u \in User, NEW c \in Chan, PrevInv(u, c),
         InLoop(u), InCall(u), ReadReturns(u), UNCHANGED tool
  PROVE  PrevInv(u, c)'
<1> DEFINE d == call[u].script[1].chan
           a == call[u].acc \o Buf(u)
           k == [call[u] EXCEPT !.acc = <<>>, !.buf = <<>>, !.at = @ + 1,
                                !.res = Append(@, Len(a))]
<1>1. /\ Reading(u) /\ Now(u) = call[u].script[1] /\ call[u].res = <<>> /\ call[u].fn # "none"
      /\ Now(u).attr \in {"read", "read_nonblock"} /\ d \in Chan
  BY LoopCall DEF InCall
<1>2. /\ a \in Seq(Nat) /\ call[u] \in CallState /\ RdChan(u) = d /\ got[u][d] \in Seq(Nat)
  BY <1>1, ReadTypes
<1>3. call' = [call EXCEPT ![u] = k] /\ got' = [got EXCEPT ![u][d] = @ \o a]
  BY <1>1, <1>2 DEF ReadReturns
<1>4. Unseen(u, c) = 0
  BY DEF Unseen, Ended
<1> HIDE DEF a
<1>5. k.script = call[u].script /\ k.res = Append(call[u].res, Len(a))
  BY <1>2 DEF CallState
<1>6. k.res[1] = Len(a)
  BY <1>1, <1>2, <1>5
<1> HIDE DEF k
<1>7. call'[u] = k
  BY <1>3 DEF CallInv
<1>8. InLoop(u)' = InLoop(u) /\ Job(u)' = Job(u)
  BY DEF InLoop, Over, Current, Program, Job
<1>9. PICK n \in Nat : n = Len(a)
  BY <1>2
<1> SUFFICES ASSUME tool[u].prev[c] # 0 PROVE PrevInv(u, c)'
  BY DEF PrevInv
<1>10. CASE c # d
  <2>1. got'[u][c] = got[u][c]
    BY <1>3, <1>10 DEF DataInv
  <2>2. Unseen(u, c)' = 0
    <3>1. call'[u].script[1].chan # c
      BY <1>5, <1>7, <1>10
    <3> QED BY <3>1 DEF Unseen
  <2> QED BY <1>4, <2>1, <2>2, PrevStays
<1>11. CASE c = d
  <2> PICK g \in Seq(Nat) : g = got[u][c]
    BY <1>2, <1>11
  <2> PICK l \in Nat : l = Len(g)
    OBVIOUS
  <2>1. got'[u][c] = g \o a
    BY <1>2, <1>3, <1>11 DEF DataInv
  <2>2. /\ Len(got[u][c]) - Unseen(u, c) = l
        /\ l \in DOMAIN g /\ tool[u].prev[c] = g[l]
        /\ Job(u).prog \in {"tstamp", "perftest"} /\ (Job(u).prog = "perftest" => g[l] >= Skip)
    <3>1. Len(got[u][c]) - Unseen(u, c) = l
      BY <1>4
    <3> QED BY <3>1 DEF PrevInv
  <2>3. Len(g \o a) = l + n /\ l \in DOMAIN (g \o a) /\ (g \o a)[l] = g[l]
    BY <1>2, <1>9, <2>2
  <2>5. Ended(u)' /\ call'[u].err = "none"
    <3>1. k.fn = call[u].fn /\ k.err = call[u].err /\ k.at = call[u].at + 1 /\ call[u].at \in Nat
      BY <1>2 DEF CallState, k
    <3>2. call[u].at = 1 \/ call[u].at > 1
      BY <1>2, ProcTypes DEF CallState, ProcInv, Shape
    <3>3. Len(call[u].script) = 1
      BY <1>1, LoopCall
    <3>4. ~(k.at <= Len(k.script))
      BY <1>5, <3>1, <3>2, <3>3
    <3> QED BY <1>1, <1>7, <3>1, <3>4 DEF Ended, InCall
  <2>6. Unseen(u, c)' = n
    <3>1. call'[u].script[1].chan = c
      BY <1>5, <1>7, <1>11
    <3> QED BY <1>6, <1>7, <1>8, <1>9, <2>5, <3>1 DEF Unseen
  <2>7. Len(got'[u][c]) - Unseen(u, c)' = l
    <3>1. (l + n) - n = l
      OBVIOUS
    <3> QED BY <2>1, <2>3, <2>6, <3>1, Zenon
  <2>8. tool'[u].prev[c] = g[l]
    BY <2>2
  <2> QED BY <1>8, <2>1, <2>2, <2>3, <2>7, <2>8 DEF PrevInv
<1> QED BY <1>10, <1>11

\* A step of a call brings a program only what its loop has not seen.
LEMMA CallPrev ==
  ASSUME TypeInv, CallInv, DataInv, NEW u \in User, NEW c \in Chan, PrevInv(u, c),
         CallStep(u) \/ CallFails(u), UNCHANGED tool
  PROVE  PrevInv(u, c)'
<1>0. InLoop(u)' = InLoop(u) /\ Job(u)' = Job(u) /\ call \in [User -> CallState]
  BY DEF InLoop, Over, Current, Program, Job, CallInv
<1>1. CASE UNCHANGED <<call, got>>
  <2>1. Unseen(u, c)' = Unseen(u, c)
    BY <1>0, <1>1 DEF Unseen, Ended, InCall
  <2> QED BY <1>1, <2>1, PrevStays
<1> SUFFICES ASSUME tool[u].prev[c] # 0 PROVE PrevInv(u, c)'
  BY DEF PrevInv
<1>2. CASE ReadReturns(u) /\ InLoop(u) /\ Reading(u)
  BY <1>2, LoopReadReturns DEF Reading
<1>3. CASE UNCHANGED got /\ ~InLoop(u)
  <2>1. Unseen(u, c)' = Unseen(u, c)
    BY <1>0, <1>3 DEF Unseen
  <2> QED BY <1>3, <2>1, PrevStays
<1>4. CASE ReadReturns(u) /\ ~InLoop(u) /\ Reading(u)
  <2>1. Now(u).attr = "drain"
    BY <1>4, ReadsInLoop DEF PrevInv
  <2> QED BY <1>3, <1>4, <2>1 DEF ReadReturns
<1>5. CASE InLoop(u) /\ InCall(u) /\ ReadOne(u)
  <2>1. UNCHANGED got
    BY <1>5 DEF ReadOne
  <2>2. Unseen(u, c) = 0
    BY <1>5 DEF Unseen, Ended
  <2> DEFINE k == [call[u] EXCEPT !.buf = Append(@, Head(zbuf[RdChan(u)]))]
  <2>3. call'[u] = k
    BY <1>0, <1>5 DEF ReadOne
  <2>4. k.fn = call[u].fn /\ k.at = call[u].at /\ k.script = call[u].script /\ k.err = call[u].err
    BY <1>0 DEF CallState
  <2> HIDE DEF k
  <2>5. ~Ended(u)'
    BY <1>5, <2>3, <2>4 DEF Ended, InCall
  <2>6. Unseen(u, c)' = 0
    BY <2>5 DEF Unseen
  <2> QED BY <2>1, <2>2, <2>6, PrevStays
<1>6. ASSUME InLoop(u), Reading(u), UNCHANGED got, NEW e \in {"EAGAIN", "EIO"},
             ReadReturnsError(u, e)
      PROVE  PrevInv(u, c)'
  <2>1. Unseen(u, c) = 0
    BY <1>6 DEF Unseen, Ended, Reading
  <2> DEFINE k == [call[u] EXCEPT !.err = e, !.acc = <<>>, !.buf = <<>>]
  <2>2. Now(u).attr # "drain"
    BY <1>6, LoopCall DEF Reading, InCall
  <2>3. call'[u] = k
    BY <1>0, <1>6, <2>2 DEF ReadReturnsError
  <2>4. k.err = e /\ e # "none"
    BY <1>0 DEF CallState
  <2> HIDE DEF k
  <2>5. Unseen(u, c)' = 0
    BY <2>3, <2>4 DEF Unseen
  <2> QED BY <1>6, <2>1, <2>5, PrevStays
<1>7. CASE SysfsCall(u) \/ SysfsCallFails(u) \/ AttrOnly(u) \/ AbortData(u) \/ NewBuffer(u)
  BY <1>1, <1>7 DEF SysfsCall, SysfsCallFails, AttrOnly, AbortData, NewBuffer, dataVars
<1>8. CASE SysfsReturn(u) \/ OpenChannel(u) \/ OpenChannelFails(u)
  <2>1. UNCHANGED got /\ InCall(u)
    BY <1>8 DEF SysfsReturn, OpenChannel, OpenChannelFails, dataVars
  <2>2. Now(u).attr \notin {"read", "read_nonblock"}
    <3>1. CASE SysfsReturn(u)
      <4>1. OnSysfs(u)
        BY <3>1, ProcTypes DEF ProcInv, ReqOf, SysfsReturn, Return, At
      <4> QED BY <4>1 DEF OnSysfs, ReadSteps
    <3> QED BY <1>8, <3>1 DEF OpenChannel, OpenChannelFails
  <2>3. ~InLoop(u)
    BY <2>1, <2>2, LoopCall DEF InCall
  <2> QED BY <1>3, <2>1, <2>3
<1>9. CASE ReadOne(u)
  <2>1. UNCHANGED got /\ InCall(u)
    BY <1>9 DEF ReadOne, Reading
  <2> QED BY <1>3, <1>5, <1>9, <2>1
<1>10. CASE ReadEnds(u) \/ ReadFails(u)
  <2>1. Reading(u)
    BY <1>10 DEF ReadEnds, ReadFails
  <2>2. \/ ReadReturns(u)
        \/ UNCHANGED got /\ \E e \in {"EAGAIN", "EIO"} : ReadReturnsError(u, e)
    BY <1>10 DEF ReadEnds, ReadFails
  <2> QED BY <1>2, <1>3, <1>4, <1>6, <2>1, <2>2
<1> QED BY <1>7, <1>8, <1>9, <1>10 DEF CallStep, CallFails

\* What is older than the last timestamp a program has is with another program,
\* or discarded, unless the program has it.
LEMMA OlderIsLost ==
  ASSUME TypeInv, CallInv, DataInv, PlaceInv, OrderInv, NEW u \in User, NEW c \in Chan,
         Inflight(u, c) = <<>>, NEW l \in DOMAIN got[u][c], NEW x \in Nat, x >= 1,
         x \notin ToSet(got[u][c]), x < got[u][c][l]
  PROVE  x \in Lost(u, c)
<1> PICK g \in Seq(Nat) : g = got[u][c]
  BY FourPlaces
<1> PICK m \in Nat : m = made[c]
  BY FourPlaces
<1> PICK y \in Nat : y = g[l]
  OBVIOUS
<1>1. y \in ToSet(g) /\ ToSet(g) \subseteq 1 .. m /\ x < y
  BY FourPlaces DEF ToSet
<1>2. x \in 1 .. m
  BY <1>1
<1>3. \A z \in ToSet(zbuf[c]) \union ToSet(hw[c]) : y < z
  <2>1. InOrder(g, Inflight(u, c), zbuf[c], hw[c])
    BY DEF OrderInv
  <2> QED BY <1>1, <2>1 DEF InOrder, Below
<1>4. x \notin ToSet(zbuf[c]) /\ x \notin ToSet(hw[c])
  BY <1>1, <1>3
<1> SUFFICES ASSUME x \notin gone[c] PROVE x \in Lost(u, c)
  BY DEF Lost
<1>5. PICK p \in Places : x \in ToSet(Stored(p, c))
  <2> DEFINE S == [p \in Places |-> ToSet(Stored(p, c))]
  <2>1. Divides(S, gone[c], m)
    BY DEF PlaceInv, Parts
  <2>2. \E p \in Places : x \in S[p]
    <3> HIDE DEF S
    <3> QED BY <1>2, <2>1 DEF Divides
  <2> QED BY <2>2
<1>6. PICK w \in User : p = CallPlace(w) \/ p = CallerPlace(w)
  <2>1. p # HwPlace /\ p # ZbufPlace
    BY <1>4, <1>5, PlaceNames
  <2> QED BY <2>1, PlaceNames
<1>7. x \in ToSet(got[w][c]) \/ x \in ToSet(Inflight(w, c))
  BY <1>5, <1>6, PlaceNames
<1>8. ToSet(got[w][c] \o Inflight(w, c)) = ToSet(got[w][c]) \union ToSet(Inflight(w, c))
  <2>1. got[w][c] \in Seq(Nat) /\ Inflight(w, c) \in Seq(Nat)
    BY FourPlaces
  <2> QED BY <2>1, SeqSets
<1>9. w # u
  BY <1>7 DEF ToSet
<1> QED BY <1>7, <1>8, <1>9 DEF Lost

\* A step of one process is none of another's.
LEMMA OthersStand ==
  ASSUME CallInv, DataInv, NEW w \in User, NEW u \in User, w # u,
         ToolStep(w) \/ Signal(w) \/ (CallFails(w) /\ UNCHANGED tool)
  PROVE  call'[u] = call[u] /\ tool'[u] = tool[u] /\ got'[u] = got[u]
<1>0. /\ tool \in [User -> ToolState] /\ call \in [User -> CallState]
      /\ got \in [User -> [Chan -> Seq(Nat)]]
  BY DEF CallInv, DataInv
<1>1. \A r : Set(w, r) => tool'[u] = tool[u]
  BY <1>0 DEF Set
<1>2. ASSUME NEW k, call' = [call EXCEPT ![w] = k] PROVE call'[u] = call[u]
  BY <1>0, <1>2
<1>3. ASSUME ReadReturns(w) PROVE call'[u] = call[u] /\ got'[u] = got[u]
  BY <1>0, <1>3 DEF ReadReturns
<1>4. ASSUME NEW e, ReadReturnsError(w, e) PROVE call'[u] = call[u]
  BY <1>0, <1>4 DEF ReadReturnsError, NextStep
<1>5. CASE (CallStep(w) \/ CallFails(w)) /\ UNCHANGED tool
  <2>1. CASE SysfsCall(w) \/ SysfsCallFails(w) \/ AttrOnly(w) \/ AbortData(w) \/ NewBuffer(w)
    BY <1>5, <2>1 DEF SysfsCall, SysfsCallFails, AttrOnly, AbortData, NewBuffer, dataVars
  <2>2. CASE SysfsReturn(w) \/ OpenChannel(w) \/ OpenChannelFails(w)
    BY <1>0, <1>5, <2>2 DEF SysfsReturn, OpenChannel, OpenChannelFails, NextStep, Fail, dataVars
  <2>3. CASE ReadOne(w)
    BY <1>0, <1>5, <2>3 DEF ReadOne
  <2>4. CASE ReadEnds(w) \/ ReadFails(w)
    <3>1. \/ ReadReturns(w)
          \/ UNCHANGED got /\ \E e \in {"EAGAIN", "EIO"} : ReadReturnsError(w, e)
      BY <2>4 DEF ReadEnds, ReadFails
    <3> QED BY <1>3, <1>4, <1>5, <3>1
  <2> QED BY <1>5, <2>1, <2>2, <2>3, <2>4 DEF CallStep, CallFails
<1>6. CASE Starts(w) \/ ReadReady(w)
  <2>1. UNCHANGED got /\ tool'[u] = tool[u] /\ \E k : call' = [call EXCEPT ![w] = k]
    BY <1>1, <1>6 DEF Starts, ReadReady, Begin, dataVars
  <2> QED BY <1>2, <2>1
<1>7. CASE Returns(w)
  BY <1>0, <1>1, <1>7 DEF Returns, Exits, dataVars
<1>8. CASE LoopEnds(w) \/ Poll(w)
  BY <1>1, <1>8 DEF LoopEnds, Poll, libVars, dataVars
<1>9. CASE LoopReturns(w)
  BY <1>0, <1>1, <1>9 DEF LoopReturns, dataVars
<1>10. CASE Signal(w)
  <2>1. UNCHANGED got /\ tool'[u] = tool[u]
    BY <1>1, <1>10 DEF Signal
  <2>2. UNCHANGED call \/ ReadReturnsError(w, "EIO")
    BY <1>10 DEF Signal
  <2> QED BY <1>4, <2>1, <2>2
<1> QED BY <1>5, <1>6, <1>7, <1>8, <1>9, <1>10 DEF ToolStep

\* Below or equal.
LEMMA AtMost ==
  ASSUME NEW x \in Nat, NEW y \in Nat, x < y \/ x = y
  PROVE  x <= y
OBVIOUS

\* No number is below one that is below it.
LEMMA NoCircle ==
  ASSUME NEW x \in Nat, NEW y \in Nat, NEW z \in Nat, x < y, y < z
  PROVE  ~(x >= z)
OBVIOUS

\* The loop looks at what it has read.
LEMMA LoopSees ==
  ASSUME TypeInv, CallInv, DataInv, PlaceInv, OrderInv, NEW u \in User, LoopReturns(u),
         NEW c \in Chan, PrevInv(u, c)
  PROVE  PrevInv(u, c)' /\ tool'[u].missed[c] \subseteq tool[u].missed[c] \union Lost(u, c)
<1> DEFINE k == call[u]
           t == tool[u]
           d == Head(k.script).chan
           n == IF k.err # "none" THEN -1 ELSE k.res[1]
           s == SubSeq(got[u][d], Len(got[u][d]) - n + 1, Len(got[u][d]))
           skip == Job(u).prog = "perftest" /\ s[1] < Skip
           missing == Missing(t.prev[d], s)
           t1 == [t EXCEPT !.pc = @ + 1, !.ready = {}]
           t2 == [t EXCEPT !.n = @ + n]
           t3 == [t EXCEPT !.n = @ + n, !.prev[d] = Last(s), !.missed[d] = @ \union missing,
                           !.stop = @ \/ (Job(u).strict /\ missing # {})]
<1>1. /\ InLoop(u) /\ Ended(u) /\ k.fn # "none" /\ call' = [call EXCEPT ![u] = NoCall]
      /\ UNCHANGED got
  BY DEF LoopReturns, dataVars, Ended
<1>2. \/ n <= 0 /\ Set(u, t1)
      \/ (n <= 0 \/ skip) /\ Set(u, t2)
      \/ ~(n <= 0) /\ ~skip /\ Set(u, t3)
  <2>1. \/ n = -1 /\ Set(u, t1)
        \/ (n <= 0 \/ skip) /\ Set(u, t2)
        \/ ~(n <= 0) /\ ~skip /\ Set(u, t3)
    BY Zenon DEF LoopReturns
  <2>2. n = -1 => n <= 0
    <3> HIDE DEF n
    <3> QED OBVIOUS
  <2> QED BY <2>1, <2>2, Zenon
<1>3. /\ t \in ToolState /\ call'[u] = NoCall /\ NoCall.fn = "none"
      /\ \A r : Set(u, r) => tool'[u] = r
  BY <1>1, ProcTypes, NoCallTypes DEF CallInv, Set
<1>4. /\ d \in Chan /\ k.script[1].chan = d
      /\ k.err = "none" => n = k.res[1] /\ n \in 0 .. Len(got[u][d])
      /\ k.err # "none" => n <= 0
  BY <1>1, LoopCall
<1>5. Unseen(u, c)' = 0
  BY <1>3 DEF Unseen, Ended
<1>6. t.prev \in [Chan -> Nat] /\ t.missed \in [Chan -> SUBSET Nat]
  BY <1>3 DEF ToolState
<1>7. /\ t1.prev = t.prev /\ t1.missed = t.missed /\ t1.job = t.job
      /\ t2.prev = t.prev /\ t2.missed = t.missed /\ t2.job = t.job
  <2> HIDE DEF t, n
  <2> QED BY <1>3 DEF ToolState
<1>8. /\ t3.prev = [t.prev EXCEPT ![d] = Last(s)] /\ t3.job = t.job
      /\ t3.missed = [t.missed EXCEPT ![d] = @ \union missing]
  <2> HIDE DEF t, n, d, s, missing
  <2> QED BY <1>3 DEF ToolState
<1> HIDE DEF t1, t2, t3
<1>9. ASSUME tool'[u].prev[c] = t.prev[c], tool'[u].missed[c] = t.missed[c], tool'[u].job = t.job,
             t.prev[c] = 0 \/ Unseen(u, c) = 0
      PROVE  PrevInv(u, c)' /\ tool'[u].missed[c] \subseteq tool[u].missed[c] \union Lost(u, c)
  <2>1. CASE t.prev[c] = 0
    BY <1>9, <2>1 DEF PrevInv
  <2>2. CASE Unseen(u, c) = 0
    BY <1>1, <1>5, <1>9, <2>2 DEF PrevInv, Job
  <2> QED BY <1>9, <2>1, <2>2
<1>10. CASE c # d
  <2>1. Unseen(u, c) = 0
    BY <1>4, <1>10 DEF Unseen
  <2>2. /\ tool'[u].prev[c] = t.prev[c] /\ tool'[u].missed[c] = t.missed[c]
        /\ tool'[u].job = t.job
    <3> HIDE DEF t, n, d, s, missing, skip
    <3> QED BY <1>2, <1>3, <1>6, <1>7, <1>8, <1>10
  <2> QED BY <1>9, <2>1, <2>2
<1>11. CASE c = d /\ n <= 0
  <2>1. Unseen(u, c) = 0
    <3>1. k.err = "none" => k.res[1] = 0
      <4>1. Len(got[u][d]) \in Nat
        BY <1>4 DEF DataInv
      <4> QED BY <1>4, <1>11, <4>1
    <3> QED BY <3>1 DEF Unseen
  <2>2. /\ tool'[u].prev[c] = t.prev[c] /\ tool'[u].missed[c] = t.missed[c]
        /\ tool'[u].job = t.job
    <3> HIDE DEF t, n, d, s, missing, skip
    <3> QED BY <1>2, <1>3, <1>7, <1>11
  <2> QED BY <1>9, <2>1, <2>2
<1>12. CASE c = d /\ ~(n <= 0)
  <2> PICK g \in Seq(Nat) : g = got[u][c]
    BY FourPlaces
  <2> PICK l \in Nat : l = Len(g)
    OBVIOUS
  <2>1. n \in 1 .. l /\ k.err = "none" /\ n = k.res[1]
    <3> HIDE DEF n, k
    <3> QED BY <1>4, <1>12
  <2> PICK q \in 1 .. l : q = n
    BY <2>1
  <2>2. Unseen(u, c) = q
    BY <1>1, <1>4, <1>12, <2>1 DEF Unseen
  <2>3. s = SubSeq(g, l - q + 1, l)
    BY <1>12
  <2> HIDE DEF n, s, k, d
  <2>4. s \in Seq(Nat) /\ Len(s) = q /\ \A i \in 1 .. q : s[i] = g[l - q + i]
    BY <2>3, EndOfSeq
  <2>5. Rising(g) /\ \A i, j \in 1 .. l : i < j => g[i] < g[j]
    <3>1. Rising(g)
      BY DEF OrderInv, InOrder
    <3> QED BY <3>1 DEF Rising
  <2>6. l \in 1 .. l /\ l - q + 1 \in 1 .. l /\ q \in 1 .. q /\ 1 \in 1 .. q /\ l - q + q = l
    OBVIOUS
  <2>7. \A i \in 1 .. l : g[i] \in Nat
    OBVIOUS
  <2>8. s[1] = g[l - q + 1] /\ Last(s) = g[l] /\ s[1] \in Nat /\ g[l] \in Nat
    <3>1. Last(s) = s[q]
      BY <2>4 DEF Last
    <3>2. s[1] = g[l - q + 1] /\ s[q] = g[l - q + q]
      BY <2>4, <2>6, Zenon
    <3> QED BY <2>6, <2>7, <3>1, <3>2
  <2>9. s[1] <= g[l]
    <3>1. l - q + 1 = l \/ l - q + 1 < l
      OBVIOUS
    <3>2. l - q + 1 < l => g[l - q + 1] < g[l]
      BY <2>5, <2>6, Zenon
    <3> PICK v \in Nat, y \in Nat : v = s[1] /\ y = g[l]
      BY <2>8, Zenon
    <3>3. v < y \/ v = y
      BY <2>8, <3>1, <3>2, Zenon
    <3> QED BY <3>3, AtMost, Zenon
  <2> PICK p \in Nat : p = t.prev[c]
    BY <1>6
  <2>11. p # 0 => /\ l - q \in DOMAIN g /\ p = g[l - q]
                  /\ Job(u).prog = "perftest" => p >= Skip
    BY <2>2 DEF PrevInv
  <2>12. \A x \in Missing(p, s) : x \in Nat /\ x >= 1 /\ x \notin ToSet(g) /\ x < g[l]
    <3>1. p # 0 => l - q \in DOMAIN g /\ p = g[l - q]
      BY <2>11
    <3>2. Rising(g) /\ l \in Int /\ l = Len(g) /\ q \in 1 .. l /\ p \in Nat
      BY <2>5
    <3>3. n \in 1 .. Len(g)
      BY <2>1
    <3> QED BY <2>3, <3>1, <3>2, MissingGaps
  <2>13. CASE skip
    <3>1. p = 0
      <4> SUFFICES ASSUME p # 0 PROVE FALSE
        OBVIOUS
      <4> PICK b \in 1 .. l : b = l - q
        BY <2>11
      <4>1. b < l - q + 1
        OBVIOUS
      <4>2. g[b] < s[1]
        BY <2>5, <2>6, <2>8, <4>1, Zenon
      <4>3. g[b] >= Skip /\ g[b] \in Nat
        BY <2>7, <2>11, <2>13 DEF skip
      <4>4. s[1] < Skip /\ Skip \in Nat
        BY <2>13, SkipAssumption DEF skip
      <4> PICK v \in Nat, y \in Nat, z \in Nat : v = g[b] /\ y = s[1] /\ z = Skip
        BY <2>8, <4>3, <4>4, Zenon
      <4>5. v < y /\ v >= z /\ y < z
        BY <4>2, <4>3, <4>4, Zenon
      <4> QED BY <4>5, NoCircle, Zenon
    <3>2. /\ tool'[u].prev[c] = t.prev[c] /\ tool'[u].missed[c] = t.missed[c]
          /\ tool'[u].job = t.job
      <4> HIDE DEF t, missing, skip
      <4> QED BY <1>2, <1>3, <1>7, <1>12, <2>13
    <3> QED BY <1>9, <3>1, <3>2
  <2>14. CASE ~skip
    <3>1. tool'[u] = t3
      <4> HIDE DEF t, missing, skip
      <4> QED BY <1>2, <1>3, <1>12, <2>14
    <3>2. /\ tool'[u].prev[c] = g[l] /\ tool'[u].job = t.job
          /\ tool'[u].missed[c] = t.missed[c] \union Missing(t.prev[c], s)
      <4>1. t3.prev[c] = Last(s) /\ t3.missed[c] = t.missed[c] \union missing
        <5> HIDE DEF t, missing, skip
        <5> QED BY <1>6, <1>8, <1>12
      <4> HIDE DEF t
      <4> QED BY <1>8, <1>12, <2>8, <3>1, <4>1 DEF missing
    <3>3. Job(u)' = Job(u) /\ Job(u).prog \in {"tstamp", "perftest"}
      BY <1>1, <3>2, LoopTypes DEF Job
    <3>4. Job(u).prog = "perftest" => g[l] >= Skip
      <4>1. Job(u).prog = "perftest" => ~(s[1] < Skip)
        BY <2>14 DEF skip
      <4> QED BY <2>8, <2>9, <4>1, SkipAssumption
    <3>5. PrevInv(u, c)'
      <4>1. Len(got'[u][c]) - Unseen(u, c)' = l /\ got'[u][c] = g /\ l \in DOMAIN g
        BY <1>1, <1>5, <2>6
      <4> QED BY <3>2, <3>3, <3>4, <4>1 DEF PrevInv
    <3>6. Inflight(u, c) = <<>>
      BY <1>1 DEF Inflight, Reading, Ended
    <3>7. ASSUME NEW x \in Missing(t.prev[c], s) PROVE x \in Lost(u, c)
      <4>3. x \in Nat /\ x >= 1 /\ x \notin ToSet(g) /\ x < g[l]
        BY <2>12, Zenon
      <4>4. l \in DOMAIN g
        BY <2>6
      <4> QED BY <3>6, <4>3, <4>4, OlderIsLost
    <3> QED BY <3>2, <3>5, <3>7
  <2> QED BY <2>13, <2>14
<1> QED BY <1>10, <1>11, <1>12

\* Every step keeps what the programs have seen.
LEMMA PrevKeeps ==
  ASSUME TypeInv, CallInv, DataInv, PlaceInv, OrderInv, [Next]_vars,
         NEW u \in User, NEW c \in Chan, PrevInv(u, c)
  PROVE  PrevInv(u, c)' /\ tool'[u].missed[c] \subseteq tool[u].missed[c] \union Lost(u, c)
<1>0. tool \in [User -> ToolState] /\ call \in [User -> CallState] /\ tool[u] \in ToolState
      /\ NoCall.fn = "none"
  BY NoCallTypes DEF CallInv
<1>1. ASSUME call'[u] = call[u], tool'[u] = tool[u], got'[u][c] = got[u][c]
      PROVE  PrevInv(u, c)' /\ tool'[u].missed[c] \subseteq tool[u].missed[c] \union Lost(u, c)
  <2>1. Unseen(u, c)' = Unseen(u, c)
    BY <1>1 DEF Unseen, InLoop, Over, Current, Program, Ended, InCall
  <2> QED BY <1>1, <2>1, PrevStays
<1>2. ASSUME Unseen(u, c) = 0, Unseen(u, c)' = 0, got'[u][c] = got[u][c],
             tool'[u].prev = tool[u].prev, tool'[u].missed = tool[u].missed,
             tool'[u].job = tool[u].job
      PROVE  PrevInv(u, c)' /\ tool'[u].missed[c] \subseteq tool[u].missed[c] \union Lost(u, c)
  BY <1>2, PrevStays
<1>3. CASE UNCHANGED vars
  BY <1>1, <1>3 DEF vars, libVars, dataVars
<1>4. CASE Acquisition /\ UNCHANGED tool
  <2>1. UNCHANGED <<call, got>>
    BY <1>4 DEF Acquisition, Pulse, Deliver, Discard
  <2> QED BY <1>1, <1>4, <2>1
<1>5. ASSUME CallStep(u) \/ CallFails(u), UNCHANGED tool
      PROVE  PrevInv(u, c)' /\ tool'[u].missed[c] \subseteq tool[u].missed[c] \union Lost(u, c)
  BY <1>5, CallPrev
<1>6. ASSUME Starts(u)
      PROVE  PrevInv(u, c)' /\ tool'[u].missed[c] \subseteq tool[u].missed[c] \union Lost(u, c)
  <2>1. ~InLoop(u) /\ UNCHANGED <<tool, got>>
    BY <1>6 DEF Starts, Begin, dataVars
  <2>2. Unseen(u, c) = 0 /\ Unseen(u, c)' = 0
    BY <2>1 DEF Unseen, InLoop, Over, Current, Program
  <2> QED BY <1>2, <2>1, <2>2
<1>7. ASSUME Returns(u)
      PROVE  PrevInv(u, c)' /\ tool'[u].missed[c] \subseteq tool[u].missed[c] \union Lost(u, c)
  <2>1. ~InLoop(u) /\ UNCHANGED got /\ call'[u] = NoCall
    BY <1>0, <1>7 DEF Returns, dataVars
  <2>2. Unseen(u, c) = 0 /\ Unseen(u, c)' = 0
    BY <1>0, <2>1 DEF Unseen, Ended
  <2>3. /\ tool'[u].prev = tool[u].prev /\ tool'[u].missed = tool[u].missed
        /\ tool'[u].job = tool[u].job
    <3>1. \A i : LET r == [tool[u] EXCEPT !.pc = i] IN
                   r.prev = tool[u].prev /\ r.missed = tool[u].missed /\ r.job = tool[u].job
      BY <1>0 DEF ToolState
    <3>2. UNCHANGED tool \/ \E i : tool' = [tool EXCEPT ![u] = [tool[u] EXCEPT !.pc = i]]
      BY <1>7 DEF Returns, Exits, Set
    <3>3. ASSUME NEW i, tool' = [tool EXCEPT ![u] = [tool[u] EXCEPT !.pc = i]]
          PROVE  /\ tool'[u].prev = tool[u].prev /\ tool'[u].missed = tool[u].missed
                 /\ tool'[u].job = tool[u].job
      <4>1. tool'[u] = [tool[u] EXCEPT !.pc = i]
        BY <1>0, <3>3
      <4> QED BY <3>1, <4>1
    <3> QED BY <3>2, <3>3
  <2> QED BY <1>2, <2>1, <2>2, <2>3
<1>8. ASSUME LoopEnds(u) \/ Poll(u)
      PROVE  PrevInv(u, c)' /\ tool'[u].missed[c] \subseteq tool[u].missed[c] \union Lost(u, c)
  <2>1. call[u].fn = "none" /\ UNCHANGED <<call, got>>
    BY <1>8 DEF LoopEnds, Poll, libVars, dataVars
  <2>2. Unseen(u, c) = 0 /\ Unseen(u, c)' = 0
    BY <2>1 DEF Unseen, Ended
  <2>3. /\ tool'[u].prev = tool[u].prev /\ tool'[u].missed = tool[u].missed
        /\ tool'[u].job = tool[u].job
    BY <1>0, <1>8 DEF LoopEnds, Poll, Set, ToolState
  <2> QED BY <1>2, <2>1, <2>2, <2>3
<1>9. ASSUME ReadReady(u)
      PROVE  PrevInv(u, c)' /\ tool'[u].missed[c] \subseteq tool[u].missed[c] \union Lost(u, c)
  <2>1. call[u].fn = "none" /\ InLoop(u) /\ UNCHANGED got
    BY <1>9 DEF ReadReady, Begin, dataVars
  <2>2. PICK d \in tool[u].ready :
          /\ Begin(u, IF Job(u).nblock THEN ReadNonBlock(d, ToRead(u)) ELSE Read(d, ToRead(u)))
          /\ Set(u, [tool[u] EXCEPT !.ready = @ \ {d}])
    BY <1>9 DEF ReadReady
  <2>3. d \in Chan /\ ToRead(u) \in Int
    BY <2>1, LoopTypes DEF ToolState
  <2>4. PICK k \in {Read(d, ToRead(u)), ReadNonBlock(d, ToRead(u))} : Begin(u, k)
    BY <2>2
  <2>5. ~Rejects(k) /\ k.fn = "read" /\ k.at = 1 /\ Len(k.script) = 1 /\ k.err = "none"
    BY <2>3, LoopReadCall
  <2>6. call'[u] = k
    BY <1>0, <2>4, <2>5 DEF Begin
  <2>7. Unseen(u, c) = 0 /\ Unseen(u, c)' = 0
    BY <2>1, <2>5, <2>6 DEF Unseen, Ended, InCall
  <2>8. /\ tool'[u].prev = tool[u].prev /\ tool'[u].missed = tool[u].missed
        /\ tool'[u].job = tool[u].job
    BY <1>0, <2>2 DEF Set, ToolState
  <2> QED BY <1>2, <2>1, <2>7, <2>8
<1>10. ASSUME LoopReturns(u)
       PROVE  PrevInv(u, c)' /\ tool'[u].missed[c] \subseteq tool[u].missed[c] \union Lost(u, c)
  BY <1>10, LoopSees
<1>11. ASSUME Signal(u)
       PROVE  PrevInv(u, c)' /\ tool'[u].missed[c] \subseteq tool[u].missed[c] \union Lost(u, c)
  <2> DEFINE t == [tool[u] EXCEPT !.stop = TRUE]
  <2>1. UNCHANGED got /\ tool'[u] = t
    BY <1>0, <1>11 DEF Signal, Set
  <2>2. t.prev = tool[u].prev /\ t.missed = tool[u].missed /\ t.job = tool[u].job /\ t.pc = tool[u].pc
    BY <1>0 DEF ToolState
  <2> HIDE DEF t
  <2>3. InLoop(u)' = InLoop(u)
    BY <2>1, <2>2 DEF InLoop, Over, Current, Program
  <2>4. CASE UNCHANGED call
    <3>1. Unseen(u, c)' = Unseen(u, c)
      BY <2>3, <2>4 DEF Unseen, Ended, InCall
    <3> QED BY <2>1, <2>2, <3>1, PrevStays
  <2>5. CASE Waiting(u) /\ ReadReturnsError(u, "EIO")
    <3> DEFINE k == [call[u] EXCEPT !.err = "EIO", !.acc = <<>>, !.buf = <<>>]
    <3>1. call'[u] = k
      BY <1>0, <2>5 DEF Waiting, ReadReturnsError
    <3>2. k.err = "EIO"
      BY <1>0 DEF CallState
    <3> HIDE DEF k
    <3>3. Unseen(u, c) = 0 /\ Unseen(u, c)' = 0
      BY <2>5, <3>1, <3>2 DEF Unseen, Ended, Waiting, Reading
    <3> QED BY <1>2, <2>1, <2>2, <3>3
  <2> QED BY <1>11, <2>4, <2>5 DEF Signal
<1>12. ASSUME NEW w \in User, w # u,
              ToolStep(w) \/ Signal(w) \/ (CallFails(w) /\ UNCHANGED tool)
       PROVE  PrevInv(u, c)' /\ tool'[u].missed[c] \subseteq tool[u].missed[c] \union Lost(u, c)
  <2>1. call'[u] = call[u] /\ tool'[u] = tool[u] /\ got'[u] = got[u]
    BY <1>12, OthersStand
  <2> QED BY <1>1, <2>1
<1> QED BY <1>3, <1>4, <1>5, <1>6, <1>7, <1>8, <1>9, <1>10, <1>11, <1>12 DEF Next, ToolStep

\* At the beginning nothing has been taken, seen or missed.
LEMMA MissInit ==
  ASSUME Init
  PROVE  OrderInv /\ MissInv
<1>1. /\ hw = [c \in Chan |-> <<>>] /\ zbuf = [c \in Chan |-> <<>>]
      /\ got = [u \in User |-> [c \in Chan |-> <<>>]]
      /\ call = [u \in User |-> NoCall]
  BY DEF Init, LibInit
<1>2. \A u \in User : \A c \in Chan : tool[u].prev[c] = 0 /\ tool[u].missed[c] = {}
  BY DEF Init
<1>3. \A u \in User : \A c \in Chan : Inflight(u, c) = <<>>
  BY <1>1, NoCallTypes, NothingInflight
<1>4. InOrder(<<>>, <<>>, <<>>, <<>>)
  BY DEF InOrder, Rising, Below, ToSet
<1>5. OrderInv
  BY <1>1, <1>3, <1>4 DEF OrderInv
<1>6. MissInv
  BY <1>2 DEF MissInv, PrevInv
<1> QED BY <1>5, <1>6

\* Every step keeps the order, and what the programs know of it.
LEMMA MissKeeps ==
  ASSUME ToolInv, OrderInv, MissInv, [Next]_vars
  PROVE  OrderInv' /\ MissInv'
<1>1. TypeInv /\ CallInv /\ DataInv /\ PlaceInv
  BY DEF ToolInv
<1>2. \A c \in Chan : Moves(c)
  BY <1>1, PlacesKeep DEF Kept
<1>3. OrderInv'
  BY <1>1, <1>2, OrderKeeps
<1>4. MissInv'
  <2> SUFFICES ASSUME NEW u \in User, NEW c \in Chan
               PROVE  PrevInv(u, c)' /\ tool'[u].missed[c] \subseteq Lost(u, c)'
    BY DEF MissInv
  <2>1. PrevInv(u, c) /\ tool[u].missed[c] \subseteq Lost(u, c)
    BY DEF MissInv
  <2>2. PrevInv(u, c)' /\ tool'[u].missed[c] \subseteq tool[u].missed[c] \union Lost(u, c)
    BY <1>1, <2>1, PrevKeeps
  <2>3. Lost(u, c) \subseteq Lost(u, c)'
    BY <1>1, <1>2, LostStays
  <2> QED BY <2>1, <2>2, <2>3
<1> QED BY <1>3, <1>4

\* What fmc-tdc-tstamp and fmc-tdc-perftest report missing was discarded or
\* went to another program: none of it comes later, and no read returns
\* timestamps out of order, however the batches of a readout fall.
THEOREM ReportsAreTrue == Spec => []MissesAreLosses
<1>1. Init => ToolInv /\ OrderInv /\ MissInv
  BY ToolInit, MissInit
<1>2. ToolInv /\ OrderInv /\ MissInv /\ [Next]_vars => ToolInv' /\ OrderInv' /\ MissInv'
  BY ToolKeeps, MissKeeps
<1>3. MissInv => MissesAreLosses
  BY DEF MissInv, MissesAreLosses, Lost
<1> QED BY <1>1, <1>2, <1>3, PTL DEF Spec

-----------------------------------------------------------------------------
(* The descriptors of a board *)

\* A program that has a call begins with fmctdc_open.
LEMMA FirstCall ==
  ASSUME TypeInv, CallInv, NEW u \in User, ~Over(u), tool[u].pc = 1
  PROVE  Current(u).fn = "open"
<1> DEFINE x == tool[u].job
           p == Programs[x]
<1>1. x \in DOMAIN Options /\ 1 \in 1 .. Len(p) + 1 /\ ~(1 > Len(p))
  BY ProcTypes DEF ProcInv, Shape, Program, Over
<1>5. p # <<>>
  BY <1>1
<1>2. PICK s \in Seq(InnerCall) : p = <<Open>> \o s
  BY <1>1, <1>5, ProgramType
<1>3. Current(u) = p[1]
  BY DEF Current, Program
<1> HIDE DEF p, x
<1>4. p[1] = Open
  BY <1>2
<1> QED BY <1>3, <1>4, OpenCall

\* fmctdc_open comes first, and is none of the reads.
LEMMA OpenIsFirst ==
  ASSUME TypeInv, CallInv, NEW u \in User, call[u].fn = "open"
  PROVE  /\ tool[u].pc = 1 /\ ~Over(u) /\ ~InLoop(u)
         /\ call[u].script = Open.script /\ ~Reading(u)
<1>1. ~Over(u) /\ ~InLoop(u) /\ call[u].fn = Current(u).fn /\ call[u].script = Current(u).script
  <2>1. CallOf(u)
    BY ProcTypes DEF ProcInv
  <2>2. ~Over(u) /\ IF InLoop(u) THEN LoopRead(u)
                    ELSE call[u].fn = Current(u).fn /\ call[u].script = Current(u).script
    BY <2>1 DEF CallOf
  <2>3. ~InLoop(u)
    BY <2>2 DEF LoopRead
  <2> QED BY <2>2, <2>3
<1>2. Current(u) = Open /\ tool[u].pc = 1
  BY <1>1, CurrentCall
<1>3. ~Reading(u)
  <2>1. SUFFICES ASSUME Reading(u) PROVE FALSE
    OBVIOUS
  <2>2. InCall(u) /\ Now(u).attr \in ReadSteps
    BY <2>1 DEF Reading
  <2>3. call[u].at \in 1 .. Len(Open.script) /\ Now(u) = Open.script[call[u].at]
    BY <1>1, <1>2, <2>2, NowTypes DEF Now
  <2> QED BY <2>2, <2>3, OpenCall
<1> QED BY <1>1, <1>2, <1>3

\* A program has no descriptors before it opens the board; fmctdc_open opens those
\* of one input after the other, and an error leaves some of one input.
Descriptors == {"ctrl", "data", "current"}
OpenInv(u) ==
  /\ fds[u] \subseteq Descriptors \X Chan
  /\ tool[u].pc = 1 /\ call[u].fn = "none" => fds[u] = {}
  /\ call[u].fn = "open" /\ call[u].err = "none" =>
       \A d \in fds[u] : d[2] < call[u].at - 2 * NumChan - 2
  /\ call[u].fn = "open" /\ call[u].err # "none" =>
       \E c \in Chan : fds[u] \subseteq {"ctrl", "data"} \X {c}
FdsInv == fds \in [User -> SUBSET (Descriptors \X Chan)] /\ \A u \in User : OpenInv(u)

\* Before the descriptors of the first input there are none.
LEMMA NothingOpened ==
  ASSUME TypeInv, CallInv, FdsInv, NEW u \in User, call[u].fn = "open", InCall(u),
         Now(u).attr # "descriptors"
  PROVE  fds[u] = {}
<1>0. NumChan \in Nat \ {0}
  BY SysfsConstants
<1>1. call[u].at \in 1 .. Len(Open.script) /\ Now(u) = Open.script[call[u].at]
  BY OpenIsFirst, NowTypes DEF Now
<1>2. ~(call[u].at > 2 * NumChan + 1) /\ call[u].at \in Int
  <2>1. Len(Open.script) \in Nat
    BY <1>0, OpenCall
  <2> QED BY <1>1, <2>1, OpenCall
<1>3. ASSUME NEW d \in fds[u] PROVE FALSE
  <2>1. d[2] \in Chan /\ d[2] < call[u].at - 2 * NumChan - 2
    BY <1>3 DEF FdsInv, OpenInv, InCall
  <2>2. d[2] \in Nat
    BY <2>1 DEF Chan
  <2> QED BY <1>0, <1>2, <2>1, <2>2
<1> QED BY <1>3

\* An error leaves at most two descriptors, of one input.
LEMMA LeakIsSmall ==
  ASSUME FdsInv
  PROVE  LeakIsOneChannel
<1> SUFFICES ASSUME NEW u \in User, call[u].fn = "open", call[u].err # "none"
             PROVE  /\ Cardinality(fds[u]) <= 2
                    /\ \A d, e \in fds[u] : d[2] = e[2]
  BY DEF LeakIsOneChannel
<1>1. PICK c \in Chan : fds[u] \subseteq {"ctrl", "data"} \X {c}
  BY DEF FdsInv, OpenInv
<1>2. \A d, e \in fds[u] : d[2] = e[2]
  BY <1>1
<1> DEFINE T == {<<"ctrl", c>>} \union {<<"data", c>>}
<1>3. fds[u] \in SUBSET T
  BY <1>1
<1>4. IsFiniteSet({<<"ctrl", c>>}) /\ Cardinality({<<"ctrl", c>>}) = 1
  BY FS_Singleton
<1>5. IsFiniteSet(T) /\ Cardinality(T) \in {1, 2}
  <2> DEFINE S == {<<"ctrl", c>>}
             x == <<"data", c>>
  <2>1. IsFiniteSet(S) /\ Cardinality(S) = 1 /\ T = S \cup {x}
    BY <1>4
  <2> HIDE DEF S, x, T
  <2>2. IsFiniteSet(S \cup {x})
        /\ Cardinality(S \cup {x}) = IF x \in S THEN Cardinality(S) ELSE Cardinality(S) + 1
    BY <2>1, FS_AddElement
  <2> QED BY <2>1, <2>2
<1> HIDE DEF T
<1>6. IsFiniteSet(fds[u]) /\ Cardinality(fds[u]) <= Cardinality(T)
  BY <1>3, <1>5, FS_Subset
<1>7. Cardinality(fds[u]) \in Nat
  BY <1>6, FS_CardinalityType
<1> QED BY <1>2, <1>5, <1>6, <1>7

\* A process keeps its descriptors while others, or the gateware, do something.
LEMMA OthersKeepFds ==
  ASSUME FdsInv, NEW u \in User, NEW f, fds' = [fds EXCEPT ![u] = f],
         f \subseteq Descriptors \X Chan,
         \A w \in User : w # u => call'[w] = call[w] /\ tool'[w] = tool[w],
         OpenInv(u)'
  PROVE  FdsInv'
<1>1. fds' \in [User -> SUBSET (Descriptors \X Chan)]
  BY DEF FdsInv
<1>2. ASSUME NEW w \in User, w # u PROVE OpenInv(w)'
  <2>1. fds'[w] = fds[w] /\ call'[w] = call[w] /\ tool'[w] = tool[w] /\ OpenInv(w)
    BY <1>2 DEF FdsInv
  <2> QED BY <2>1 DEF OpenInv
<1> QED BY <1>1, <1>2 DEF FdsInv

\* The same if the process itself opens and closes nothing, and is not in
\* fmctdc_open afterwards.
LEMMA NoOpenKeepsFds ==
  ASSUME FdsInv, NEW u \in User, UNCHANGED fds,
         \A w \in User : w # u => call'[w] = call[w] /\ tool'[w] = tool[w],
         call'[u].fn # "open", tool'[u].pc = 1 /\ call'[u].fn = "none" => fds[u] = {}
  PROVE  FdsInv'
<1>1. fds' = [fds EXCEPT ![u] = fds[u]] /\ fds[u] \subseteq Descriptors \X Chan
  BY DEF FdsInv
<1>2. OpenInv(u)'
  BY <1>1 DEF OpenInv, FdsInv
<1> QED BY <1>1, <1>2, OthersKeepFds

\* And if no process does anything with its call.
LEMMA IdleKeepsFds ==
  ASSUME FdsInv, UNCHANGED <<fds, call>>, \A u \in User : tool'[u].pc = tool[u].pc
  PROVE  FdsInv'
<1>1. ASSUME NEW u \in User PROVE OpenInv(u)'
  <2>1. OpenInv(u)
    BY DEF FdsInv
  <2> QED BY <2>1 DEF OpenInv
<1> QED BY <1>1 DEF FdsInv

\* A read stays the call it is, whatever it returns.
LEMMA ReadKeepsName ==
  ASSUME NEW u \in User, call[u] \in CallState,
         \/ ReadOne(u) \/ ReadReturns(u) \/ \E e \in Errno : ReadReturnsError(u, e)
  PROVE  \E k : call' = [call EXCEPT ![u] = k] /\ k.fn = call[u].fn
<1>1. ASSUME NEW b PROVE [call[u] EXCEPT !.buf = b].fn = call[u].fn
  BY DEF CallState
<1>2. ASSUME NEW b, NEW a
      PROVE  [call[u] EXCEPT !.acc = a, !.buf = b].fn = call[u].fn
  BY DEF CallState
<1>3. ASSUME NEW b, NEW a, NEW i, NEW r
      PROVE  [call[u] EXCEPT !.acc = a, !.buf = b, !.at = i, !.res = r].fn = call[u].fn
  BY DEF CallState
<1>4. ASSUME NEW b, NEW a, NEW e
      PROVE  [call[u] EXCEPT !.err = e, !.acc = a, !.buf = b].fn = call[u].fn
  BY DEF CallState
<1>5. ASSUME NEW i, NEW r PROVE [call[u] EXCEPT !.at = i, !.res = r].fn = call[u].fn
  BY DEF CallState
<1>6. CASE ReadOne(u)
  <2> DEFINE k == [call[u] EXCEPT !.buf = Append(@, Head(zbuf[RdChan(u)]))]
  <2>1. call' = [call EXCEPT ![u] = k]
    BY <1>6 DEF ReadOne
  <2>2. k.fn = call[u].fn
    BY <1>1
  <2> HIDE DEF k
  <2> QED BY <2>1, <2>2
<1>7. CASE ReadReturns(u)
  <2> DEFINE all == call[u].acc \o Buf(u)
             k1 == [call[u] EXCEPT !.buf = <<>>]
             k2 == [call[u] EXCEPT !.acc = all, !.buf = <<>>]
             k3 == [call[u] EXCEPT !.acc = <<>>, !.buf = <<>>, !.at = @ + 1,
                                   !.res = Append(@, Len(all))]
  <2>1. \/ call' = [call EXCEPT ![u] = k1] \/ call' = [call EXCEPT ![u] = k2]
        \/ call' = [call EXCEPT ![u] = k3]
    BY <1>7 DEF ReadReturns
  <2>2. k1.fn = call[u].fn /\ k2.fn = call[u].fn /\ k3.fn = call[u].fn
    BY <1>1, <1>2, <1>3
  <2> HIDE DEF k1, k2, k3
  <2> QED BY <2>1, <2>2
<1>8. ASSUME NEW e \in Errno, ReadReturnsError(u, e)
      PROVE  \E k : call' = [call EXCEPT ![u] = k] /\ k.fn = call[u].fn
  <2> DEFINE k1 == [call[u] EXCEPT !.at = @ + 1, !.res = Append(@, 0)]
             k2 == [call[u] EXCEPT !.err = e, !.acc = <<>>, !.buf = <<>>]
  <2>1. call' = [call EXCEPT ![u] = k1] \/ call' = [call EXCEPT ![u] = k2]
    BY <1>8 DEF ReadReturnsError, NextStep
  <2>2. k1.fn = call[u].fn /\ k2.fn = call[u].fn
    BY <1>4, <1>5
  <2> HIDE DEF k1, k2
  <2> QED BY <2>1, <2>2
<1> QED BY <1>6, <1>7, <1>8

\* The steps of a call and their errors; SIGINT.
LEMMA CallKeepsFds ==
  ASSUME TypeInv, CallInv, CallInv', FdsInv, NEW u \in User, CallStep(u) \/ CallFails(u),
         UNCHANGED tool
  PROVE  FdsInv'
<1>0. call \in [User -> CallState] /\ OpenInv(u) /\ NumChan \in Nat \ {0}
  BY SysfsConstants DEF CallInv, FdsInv
<1>1. CASE UNCHANGED <<call, fds>>
  BY <1>1, IdleKeepsFds
<1>2. CASE SysfsReturn(u)
  <2>1. InCall(u) /\ Return(u) /\ UNCHANGED fds
    BY <1>2 DEF SysfsReturn
  <2>2. OnSysfs(u)
    BY <2>1, ProcTypes DEF ProcInv, ReqOf, Return, At
  <2>3. \E k : /\ call' = [call EXCEPT ![u] = k] /\ k.fn = call[u].fn
               /\ k.err = "none" => k.at \in {call[u].at, call[u].at + 1}
    <3>1. ASSUME NEW v, NextStep(u, v)
          PROVE  \E k : /\ call' = [call EXCEPT ![u] = k] /\ k.fn = call[u].fn
                        /\ k.err = "none" => k.at \in {call[u].at, call[u].at + 1}
      <4> DEFINE k == [call[u] EXCEPT !.at = @ + 1, !.res = Append(@, v)]
      <4>1. k.fn = call[u].fn /\ k.at = call[u].at + 1
        BY <1>0 DEF CallState
      <4>2. call' = [call EXCEPT ![u] = k]
        BY <3>1 DEF NextStep
      <4> HIDE DEF k
      <4> QED BY <4>1, <4>2
    <3>2. ASSUME NEW e, Fail(u, e)
          PROVE  \E k : /\ call' = [call EXCEPT ![u] = k] /\ k.fn = call[u].fn
                        /\ k.err = "none" => k.at \in {call[u].at, call[u].at + 1}
      <4> DEFINE k == [call[u] EXCEPT !.err = e]
      <4>1. k.fn = call[u].fn /\ k.at = call[u].at
        BY <1>0 DEF CallState
      <4>2. call' = [call EXCEPT ![u] = k]
        BY <3>2 DEF Fail
      <4> HIDE DEF k
      <4> QED BY <4>1, <4>2
    <3> QED BY <1>2, <3>1, <3>2 DEF SysfsReturn
  <2>4. PICK k : /\ call' = [call EXCEPT ![u] = k] /\ k.fn = call[u].fn
                 /\ k.err = "none" => k.at \in {call[u].at, call[u].at + 1}
    BY <2>3
  <2>5. call'[u] = k /\ \A w \in User : w # u => call'[w] = call[w]
    BY <1>0, <2>4
  <2>6. CASE call[u].fn = "open"
    <3>1. fds[u] = {}
      BY <2>1, <2>2, <2>6, NothingOpened DEF OnSysfs
    <3>2. fds' = [fds EXCEPT ![u] = {}] /\ fds'[u] = {}
      BY <2>1, <3>1 DEF FdsInv
    <3>3. OpenInv(u)'
      <4>1. 0 \in Chan
        BY ChanZero
      <4> QED BY <3>2, <4>1 DEF OpenInv
    <3> QED BY <2>5, <3>2, <3>3, OthersKeepFds
  <2>7. CASE call[u].fn # "open"
    <3>1. call'[u].fn # "open" /\ call'[u].fn # "none"
      BY <2>1, <2>4, <2>5, <2>7 DEF InCall
    <3> QED BY <2>1, <2>5, <3>1, NoOpenKeepsFds
  <2> QED BY <2>6, <2>7
<1>3. CASE OpenChannel(u)
  <2> DEFINE k == [call[u] EXCEPT !.at = @ + 1, !.res = Append(@, 0)]
             c == Now(u).chan
             f == fds[u] \union ({"ctrl", "data", "current"} \X {c})
  <2>1. InCall(u) /\ Now(u).attr = "descriptors" /\ call' = [call EXCEPT ![u] = k]
        /\ fds' = [fds EXCEPT ![u] = f]
    BY <1>3 DEF OpenChannel, NextStep
  <2>2. k.fn = call[u].fn /\ k.at = call[u].at + 1 /\ k.err = call[u].err /\ call[u].at \in Nat
    BY <1>0 DEF CallState
  <2>3. c \in Chan
    BY <2>1, NowTypes
  <2>4. f \subseteq Descriptors \X Chan
    BY <2>3 DEF FdsInv, Descriptors
  <2>5. call'[u].fn = call[u].fn /\ call'[u].at = call[u].at + 1 /\ call'[u].err = "none"
        /\ \A w \in User : w # u => call'[w] = call[w]
    BY <1>0, <2>1, <2>2 DEF InCall
  <2>6. fds'[u] = f
    BY <2>1 DEF FdsInv
  <2>7. call[u].fn = "open" => \A d \in f : d[2] < call[u].at + 1 - 2 * NumChan - 2
    <3> SUFFICES ASSUME call[u].fn = "open", NEW d \in f
                 PROVE  d[2] < call[u].at + 1 - 2 * NumChan - 2
      OBVIOUS
    <3>1. CASE d \in fds[u]
      <4>1. d[2] < call[u].at - 2 * NumChan - 2 /\ d[2] \in Nat
        BY <1>0, <2>1, <3>1 DEF OpenInv, InCall, Chan
      <4> QED BY <1>0, <2>2, <4>1
    <3>2. CASE d \notin fds[u]
      <4>1. d[2] = c
        BY <3>2
      <4>2. call[u].at \in 1 .. Len(Open.script) /\ Now(u) = Open.script[call[u].at]
        BY <2>1, OpenIsFirst, NowTypes DEF Now
      <4>3. c = call[u].at - 2 * NumChan - 2
        BY <2>1, <4>2, OpenCall
      <4> QED BY <1>0, <2>2, <4>1, <4>3
    <3> QED BY <3>1, <3>2
  <2> HIDE DEF f, k, c
  <2>8. OpenInv(u)'
    <3>1. fds'[u] \subseteq Descriptors \X Chan
      BY <2>4, <2>6
    <3>2. call'[u].fn # "none" /\ call'[u].err = "none"
      BY <2>1, <2>5 DEF InCall
    <3>3. call'[u].fn = "open" => \A d \in fds'[u] : d[2] < call'[u].at - 2 * NumChan - 2
      <4> SUFFICES ASSUME call[u].fn = "open", NEW d \in f
                   PROVE  d[2] < call'[u].at - 2 * NumChan - 2
        BY <2>5, <2>6
      <4>1. d[2] < call[u].at + 1 - 2 * NumChan - 2
        BY <2>7
      <4>2. call'[u].at = call[u].at + 1
        BY <2>5, Zenon
      <4>3. d[2] \in Nat
        BY <2>4 DEF Chan
      <4> QED BY <1>0, <2>2, <4>1, <4>2, <4>3
    <3> QED BY <3>1, <3>2, <3>3 DEF OpenInv
  <2> QED BY <2>1, <2>4, <2>5, <2>8, OthersKeepFds
<1>4. CASE OpenChannelFails(u)
  <2> DEFINE k == [call[u] EXCEPT !.err = "EIO"]
             c == Now(u).chan
  <2>1. InCall(u) /\ Now(u).attr = "descriptors" /\ call' = [call EXCEPT ![u] = k]
    BY <1>4 DEF OpenChannelFails, Fail
  <2>2. PICK opened \in {{}, {"ctrl"}, {"ctrl", "data"}} :
          fds' = [fds EXCEPT ![u] = (@ \ Closes(u, Now(u).chan)) \union (opened \X {Now(u).chan})]
    BY <1>4 DEF OpenChannelFails
  <2> DEFINE f == (fds[u] \ Closes(u, c)) \union (opened \X {c})
  <2>3. fds' = [fds EXCEPT ![u] = f]
    BY <2>2
  <2>4. k.fn = call[u].fn /\ k.err = "EIO" /\ call[u].at \in Nat
    BY <1>0 DEF CallState
  <2>5. c \in Chan
    BY <2>1, NowTypes
  <2>6. f \subseteq Descriptors \X Chan
    BY <2>5 DEF FdsInv, Descriptors
  <2>7. call'[u].fn = call[u].fn /\ call'[u].err = "EIO" /\ call'[u].fn # "none"
        /\ \A w \in User : w # u => call'[w] = call[w]
    BY <1>0, <2>1, <2>4 DEF InCall
  <2>8. fds'[u] = f
    BY <2>3 DEF FdsInv
  <2>9. call[u].fn = "open" => f \subseteq {"ctrl", "data"} \X {c}
    <3> SUFFICES ASSUME call[u].fn = "open" PROVE f \subseteq {"ctrl", "data"} \X {c}
      OBVIOUS
    <3>2. call[u].at \in 1 .. Len(Open.script) /\ Now(u) = Open.script[call[u].at]
      BY <2>1, OpenIsFirst, NowTypes DEF Now
    <3>3. c = call[u].at - 2 * NumChan - 2
      BY <2>1, <3>2, OpenCall
    <3>4. \A d \in fds[u] : d[2] < c
      BY <1>0, <2>1, <3>3 DEF OpenInv, InCall
    <3>5. fds[u] \ Closes(u, c) = {}
      BY <3>4 DEF Closes
    <3> QED BY <3>5
  <2> HIDE DEF f, k, c
  <2>10. OpenInv(u)'
    BY <2>5, <2>6, <2>7, <2>8, <2>9 DEF OpenInv
  <2> QED BY <2>3, <2>6, <2>7, <2>10, OthersKeepFds
<1>5. CASE Reading(u) /\ (ReadOne(u) \/ ReadEnds(u) \/ ReadFails(u))
  <2>1. call[u].fn # "open" /\ InCall(u) /\ UNCHANGED fds
    BY <1>5, OpenIsFirst DEF Reading, ReadOne, ReadEnds, ReadFails
  <2>2. PICK k : call' = [call EXCEPT ![u] = k] /\ k.fn = call[u].fn
    <3>1. ReadOne(u) \/ ReadReturns(u) \/ \E e \in Errno : ReadReturnsError(u, e)
      BY <1>5 DEF ReadEnds, ReadFails, Errno
    <3> QED BY <1>0, <3>1, ReadKeepsName
  <2>3. call'[u].fn = call[u].fn /\ call'[u].fn # "none" /\ \A w \in User : w # u => call'[w] = call[w]
    BY <1>0, <2>1, <2>2 DEF InCall
  <2> QED BY <2>1, <2>3, NoOpenKeepsFds
<1> QED BY <1>1, <1>2, <1>3, <1>4, <1>5
      DEF CallStep, CallFails, SysfsCall, SysfsCallFails, AttrOnly, AbortData, NewBuffer,
          ReadOne, ReadEnds, ReadFails

\* Every step keeps what is said about descriptors.
LEMMA FdsKeep ==
  ASSUME TypeInv, CallInv, CallInv', FdsInv, [Next]_vars
  PROVE  FdsInv'
<1>0. call \in [User -> CallState] /\ tool \in [User -> ToolState]
  BY DEF CallInv
<1>1. ASSUME UNCHANGED <<call, fds, tool>> PROVE FdsInv'
  BY <1>1, IdleKeepsFds
<1>2. ASSUME NEW u \in User, CallStep(u) \/ CallFails(u), UNCHANGED tool PROVE FdsInv'
  BY <1>2, CallKeepsFds
<1>3. ASSUME NEW u \in User, Starts(u) PROVE FdsInv'
  <2> DEFINE cur == Current(u)
             k == IF Rejects(cur) THEN [cur EXCEPT !.err = "EINVAL"] ELSE cur
  <2>1. ~Over(u) /\ call[u].fn = "none" /\ UNCHANGED tool /\ call' = [call EXCEPT ![u] = k]
        /\ fds' = IF cur.fn = "close" THEN [fds EXCEPT ![u] = {}] ELSE fds
    BY <1>3 DEF Starts, Begin
  <2>2. cur \in LibCall /\ cur.fn # "none" /\ (cur.fn = "open" => cur = Open /\ tool[u].pc = 1)
    BY <2>1, CurrentCall
  <2>3. k.fn = cur.fn /\ (cur.fn = "open" => k = Open)
    <3>1. cur.fn = "open" => ~Rejects(cur)
      BY DEF Rejects
    <3> QED BY <2>2, <3>1 DEF LibCall
  <2> HIDE DEF k, cur
  <2>4. call'[u] = k /\ \A w \in User : w # u => call'[w] = call[w]
    BY <1>0, <2>1
  <2>5. CASE cur.fn = "open"
    <3>1. fds[u] = {} /\ fds' = [fds EXCEPT ![u] = {}]
      BY <2>1, <2>2, <2>5 DEF FdsInv, OpenInv
    <3>2. fds'[u] = {}
      BY <3>1 DEF FdsInv
    <3>3. OpenInv(u)'
      BY <2>3, <2>4, <2>5, <3>2, OpenCall DEF OpenInv
    <3> QED BY <2>1, <2>4, <3>1, <3>3, OthersKeepFds
  <2>6. CASE cur.fn = "close"
    <3>1. fds' = [fds EXCEPT ![u] = {}]
      BY <2>1, <2>6
    <3>2. fds'[u] = {}
      BY <3>1 DEF FdsInv
    <3>3. OpenInv(u)'
      BY <2>3, <2>4, <2>6, <3>2 DEF OpenInv
    <3> QED BY <2>1, <2>4, <3>1, <3>3, OthersKeepFds
  <2>7. CASE cur.fn \notin {"open", "close"}
    BY <2>1, <2>2, <2>3, <2>4, <2>7, NoOpenKeepsFds
  <2> QED BY <2>5, <2>6, <2>7
<1>4. ASSUME NEW u \in User, Returns(u) PROVE FdsInv'
  <2>1. ~Over(u) /\ call' = [call EXCEPT ![u] = NoCall] /\ Ended(u) /\ ~InLoop(u)
    BY <1>4 DEF Returns
  <2>2. call'[u].fn = "none" /\ \A w \in User : w # u => call'[w] = call[w]
    BY <1>0, <2>1, NoCallTypes
  <2>3. CASE Exits(u)
    <3>1. /\ fds' = [fds EXCEPT ![u] = {}]
          /\ tool' = [tool EXCEPT ![u] = [tool[u] EXCEPT !.pc = Len(Program(u)) + 1]]
      BY <2>3 DEF Exits, Set
    <3>2. fds'[u] = {} /\ \A w \in User : w # u => tool'[w] = tool[w]
      BY <1>0, <3>1 DEF FdsInv
    <3>3. OpenInv(u)'
      BY <2>2, <3>2 DEF OpenInv
    <3> QED BY <2>2, <3>1, <3>2, <3>3, OthersKeepFds
  <2>4. CASE UNCHANGED <<tool, fds>> /\ Again(u, call[u])
    <3>1. tool'[u].pc # 1
      <4>1. CallOf(u)
        BY ProcTypes DEF ProcInv
      <4>2. call[u].fn = Current(u).fn
        BY <2>1, <4>1 DEF CallOf, Ended
      <4> QED BY <2>1, <2>4, <4>2, FirstCall DEF Again
    <3> QED BY <2>2, <2>4, <3>1, NoOpenKeepsFds
  <2>5. CASE Set(u, [tool[u] EXCEPT !.pc = @ + 1]) /\ UNCHANGED fds
    <3>1. tool' = [tool EXCEPT ![u] = [tool[u] EXCEPT !.pc = @ + 1]]
      BY <2>5 DEF Set
    <3>2. tool'[u].pc = tool[u].pc + 1 /\ \A w \in User : w # u => tool'[w] = tool[w]
      BY <1>0, <3>1 DEF ToolState
    <3>3. tool[u].pc \in 1 .. Len(Program(u))
      BY <2>1, CurrentCall
    <3>4. tool'[u].pc # 1
      BY <3>2, <3>3
    <3> QED BY <2>2, <2>5, <3>2, <3>4, NoOpenKeepsFds
  <2> QED BY <1>4, <2>3, <2>4, <2>5 DEF Returns
<1>5. ASSUME NEW u \in User, InLoop(u) PROVE tool[u].pc # 1 /\ tool[u].pc \in Nat \ {0}
  <2>1. ~Over(u) /\ Current(u).fn = "loop"
    BY <1>5 DEF InLoop
  <2> QED BY <2>1, FirstCall, CurrentCall
<1>6. ASSUME NEW u \in User, LoopEnds(u) \/ Poll(u) PROVE FdsInv'
  <2>1. InLoop(u) /\ UNCHANGED <<call, fds>> /\ call[u].fn = "none"
    BY <1>6 DEF LoopEnds, Poll, libVars
  <2>2. \E r : tool' = [tool EXCEPT ![u] = r] /\ r.pc \in {tool[u].pc, tool[u].pc + 1}
    <3>1. CASE LoopEnds(u)
      <4> DEFINE r == [tool[u] EXCEPT !.pc = @ + 1]
      <4>1. tool' = [tool EXCEPT ![u] = r] /\ r.pc = tool[u].pc + 1
        BY <1>0, <3>1 DEF LoopEnds, Set, ToolState
      <4> HIDE DEF r
      <4> QED BY <4>1
    <3>2. CASE Poll(u)
      <4> DEFINE r == [tool[u] EXCEPT !.ready = {c \in ToSet(Job(u).chans) : PollIn(c)}]
      <4>1. tool' = [tool EXCEPT ![u] = r] /\ r.pc = tool[u].pc
        BY <1>0, <3>2 DEF Poll, Set, ToolState
      <4> HIDE DEF r
      <4> QED BY <4>1
    <3> QED BY <1>6, <3>1, <3>2
  <2>3. PICK r : tool' = [tool EXCEPT ![u] = r] /\ r.pc \in {tool[u].pc, tool[u].pc + 1}
    BY <2>2
  <2>4. tool'[u].pc # 1 /\ \A w \in User : w # u => tool'[w] = tool[w]
    BY <1>0, <1>5, <2>1, <2>3
  <2> QED BY <2>1, <2>4, NoOpenKeepsFds
<1>7. ASSUME NEW u \in User, ReadReady(u) PROVE FdsInv'
  <2>1. InLoop(u)
    BY <1>7 DEF ReadReady
  <2>2. PICK c \in tool[u].ready :
          /\ Begin(u, IF Job(u).nblock THEN ReadNonBlock(c, ToRead(u)) ELSE Read(c, ToRead(u)))
          /\ Set(u, [tool[u] EXCEPT !.ready = @ \ {c}])
    BY <1>7 DEF ReadReady
  <2>3. c \in Chan /\ ToRead(u) \in Int
    BY <2>1, LoopTypes DEF ToolState
  <2>4. PICK k \in {Read(c, ToRead(u)), ReadNonBlock(c, ToRead(u))} : Begin(u, k)
    BY <2>2
  <2>5. k.fn = "read" /\ ~Rejects(k)
    BY <2>3, LoopReadCall
  <2>6. call' = [call EXCEPT ![u] = k] /\ UNCHANGED fds
    BY <2>4, <2>5 DEF Begin
  <2>7. tool' = [tool EXCEPT ![u] = [tool[u] EXCEPT !.ready = @ \ {c}]]
    BY <2>2 DEF Set
  <2>8. call'[u].fn = "read" /\ \A w \in User : w # u => call'[w] = call[w] /\ tool'[w] = tool[w]
    BY <1>0, <2>5, <2>6, <2>7
  <2> QED BY <2>6, <2>8, NoOpenKeepsFds
<1>8. ASSUME NEW u \in User, LoopReturns(u) PROVE FdsInv'
  <2>1. InLoop(u) /\ call' = [call EXCEPT ![u] = NoCall] /\ UNCHANGED fds
    BY <1>8 DEF LoopReturns
  <2>2. \E r : tool' = [tool EXCEPT ![u] = r] /\ r.pc \in {tool[u].pc, tool[u].pc + 1}
    <3> DEFINE k == call[u]
               t == tool[u]
               c == Head(k.script).chan
               n == IF k.err # "none" THEN -1 ELSE k.res[1]
               s == SubSeq(got[u][c], Len(got[u][c]) - n + 1, Len(got[u][c]))
               missing == Missing(t.prev[c], s)
               t1 == [t EXCEPT !.pc = @ + 1, !.ready = {}]
               t2 == [t EXCEPT !.n = @ + n]
               t3 == [t EXCEPT !.n = @ + n, !.prev[c] = Last(s), !.missed[c] = @ \union missing,
                               !.stop = @ \/ (Job(u).strict /\ missing # {})]
    <3>1. Set(u, t1) \/ Set(u, t2) \/ Set(u, t3)
      BY <1>8 DEF LoopReturns
    <3>2. t1.pc = t.pc + 1 /\ t2.pc = t.pc /\ t3.pc = t.pc
      <4> HIDE DEF n, s, c, missing
      <4> QED BY <1>0 DEF ToolState
    <3> HIDE DEF t1, t2, t3
    <3> QED BY <3>1, <3>2 DEF Set
  <2>3. PICK r : tool' = [tool EXCEPT ![u] = r] /\ r.pc \in {tool[u].pc, tool[u].pc + 1}
    BY <2>2
  <2>4. tool'[u].pc # 1 /\ \A w \in User : w # u => tool'[w] = tool[w]
    BY <1>0, <1>5, <2>1, <2>3
  <2>5. call'[u].fn = "none" /\ \A w \in User : w # u => call'[w] = call[w]
    BY <1>0, <2>1, NoCallTypes
  <2> QED BY <2>1, <2>4, <2>5, NoOpenKeepsFds
<1>9. ASSUME NEW u \in User, Signal(u) PROVE FdsInv'
  <2>1. tool' = [tool EXCEPT ![u] = [tool[u] EXCEPT !.stop = TRUE]] /\ UNCHANGED fds
    BY <1>9 DEF Signal, Set
  <2>2. \A w \in User : tool'[w].pc = tool[w].pc
    BY <1>0, <2>1 DEF ToolState
  <2>3. CASE UNCHANGED call
    BY <2>1, <2>2, <2>3, IdleKeepsFds
  <2>4. CASE Waiting(u) /\ ReadReturnsError(u, "EIO")
    <3>1. call[u].fn # "open" /\ call[u].fn # "none"
      BY <2>4, OpenIsFirst DEF Waiting, Reading, InCall
    <3>2. PICK k : call' = [call EXCEPT ![u] = k] /\ k.fn = call[u].fn
      <4>1. "EIO" \in Errno
        BY DEF Errno
      <4> QED BY <1>0, <2>4, <4>1, ReadKeepsName
    <3>3. call'[u].fn = call[u].fn
          /\ \A w \in User : w # u => call'[w] = call[w] /\ tool'[w] = tool[w]
      BY <1>0, <2>1, <3>2
    <3> QED BY <2>1, <3>1, <3>3, NoOpenKeepsFds
  <2> QED BY <1>9, <2>3, <2>4 DEF Signal
<1>10. ASSUME NEW u \in User, ToolStep(u) PROVE FdsInv'
  BY <1>2, <1>3, <1>4, <1>6, <1>7, <1>8, <1>10 DEF ToolStep
<1>11. CASE Acquisition /\ UNCHANGED tool
  BY <1>1, <1>11 DEF Acquisition, Pulse, Deliver, Discard
<1> QED BY <1>1, <1>2, <1>9, <1>10, <1>11 DEF Next, vars, libVars

\* At the beginning no board is open.
LEMMA FdsInit ==
  ASSUME Init
  PROVE  FdsInv
<1>1. fds = [u \in User |-> {}] /\ call = [u \in User |-> NoCall]
  BY DEF Init, LibInit
<1> QED BY <1>1, NoCallTypes DEF FdsInv, OpenInv

\* A fmctdc_open that fails leaves at most two descriptors open, of one input,
\* wherever it fails and whatever the other processes do.
THEOREM OpenLeaksLittle == Spec => []LeakIsOneChannel
<1>1. Init => ToolInv /\ FdsInv
  BY ToolInit, FdsInit
<1>2. ToolInv /\ FdsInv /\ [Next]_vars => ToolInv' /\ FdsInv'
  BY ToolKeeps, FdsKeep DEF ToolInv
<1>3. FdsInv => LeakIsOneChannel
  BY LeakIsSmall
<1> QED BY <1>1, <1>2, <1>3, PTL DEF Spec

-----------------------------------------------------------------------------
(* What a readout program enables, it disables *)

\* A program of a call, some others, the loop, some others and a last one.
FiveParts(p, a, t, b, w, e) ==
  /\ Len(p) = Len(t) + Len(w) + 3
  /\ p[1] = a /\ p[Len(t) + 2] = b /\ p[Len(p)] = e
  /\ \A i \in 1 .. Len(t) : p[i + 1] = t[i]
  /\ \A i \in 1 .. Len(w) : p[Len(t) + 2 + i] = w[i]
LEMMA PartsOfFive ==
  ASSUME NEW S, NEW a \in S, NEW t \in Seq(S), NEW b \in S, NEW w \in Seq(S), NEW e \in S
  PROVE  LET p == <<a>> \o (t \o <<b>> \o w \o <<e>>)
         IN  p \in Seq(S) /\ FiveParts(p, a, t, b, w, e)
<1> PICK p : p = <<a>> \o (t \o <<b>> \o w \o <<e>>)
  OBVIOUS
<1>1. /\ <<a>> \in Seq(S) /\ Len(<<a>>) = 1 /\ <<a>>[1] = a
      /\ <<b>> \in Seq(S) /\ Len(<<b>>) = 1 /\ <<b>>[1] = b
      /\ <<e>> \in Seq(S) /\ Len(<<e>>) = 1 /\ <<e>>[1] = e
  OBVIOUS
<1> PICK n \in Nat : n = Len(t)
  OBVIOUS
<1> PICK m \in Nat : m = Len(w)
  OBVIOUS
<1>2. PICK x : x = t \o <<b>>
  OBVIOUS
<1>3. x \in Seq(S) /\ Len(x) = n + 1
      /\ \A i \in 1 .. n + 1 : x[i] = IF i <= n THEN t[i] ELSE b
  <2>1. /\ t \o <<b>> \in Seq(S) /\ Len(t \o <<b>>) = Len(t) + Len(<<b>>)
        /\ \A i \in 1 .. Len(t) + Len(<<b>>) :
             (t \o <<b>>)[i] = IF i <= Len(t) THEN t[i] ELSE <<b>>[i - Len(t)]
    BY <1>1, TwoParts, Zenon
  <2>2. \A i \in 1 .. n + 1 : ~(i <= n) => i - n = 1
    OBVIOUS
  <2> QED BY <1>1, <1>2, <2>1, <2>2
<1>4. PICK y : y = x \o w
  OBVIOUS
<1>5. y \in Seq(S) /\ Len(y) = n + 1 + m
      /\ \A i \in 1 .. n + 1 + m : y[i] = IF i <= n + 1 THEN x[i] ELSE w[i - (n + 1)]
  <2>1. /\ x \o w \in Seq(S) /\ Len(x \o w) = Len(x) + Len(w)
        /\ \A i \in 1 .. Len(x) + Len(w) :
             (x \o w)[i] = IF i <= Len(x) THEN x[i] ELSE w[i - Len(x)]
    <3>1. x \in Seq(S)
      BY <1>3
    <3> QED BY <3>1, TwoParts, Zenon
  <2> QED BY <1>3, <1>4, <2>1
<1>6. PICK z : z = y \o <<e>>
  OBVIOUS
<1>7. z \in Seq(S) /\ Len(z) = n + m + 2
      /\ \A i \in 1 .. n + m + 2 : z[i] = IF i <= n + m + 1 THEN y[i] ELSE e
  <2>1. /\ y \o <<e>> \in Seq(S) /\ Len(y \o <<e>>) = Len(y) + Len(<<e>>)
        /\ \A i \in 1 .. Len(y) + Len(<<e>>) :
             (y \o <<e>>)[i] = IF i <= Len(y) THEN y[i] ELSE <<e>>[i - Len(y)]
    <3>1. y \in Seq(S) /\ <<e>> \in Seq(S)
      BY <1>1, <1>5
    <3> QED BY <3>1, TwoParts, Zenon
  <2>2. \A i \in 1 .. n + m + 2 : ~(i <= n + m + 1) => i - (n + 1 + m) = 1
    OBVIOUS
  <2> QED BY <1>1, <1>5, <1>6, <2>1, <2>2
<1>8. p = <<a>> \o z
  BY <1>2, <1>4, <1>6
<1>9. p \in Seq(S) /\ Len(p) = n + m + 3
      /\ \A i \in 1 .. n + m + 3 : p[i] = IF i <= 1 THEN a ELSE z[i - 1]
  <2>1. /\ <<a>> \o z \in Seq(S) /\ Len(<<a>> \o z) = Len(<<a>>) + Len(z)
        /\ \A i \in 1 .. Len(<<a>>) + Len(z) :
             (<<a>> \o z)[i] = IF i <= Len(<<a>>) THEN <<a>>[i] ELSE z[i - Len(<<a>>)]
    <3>1. z \in Seq(S) /\ <<a>> \in Seq(S)
      BY <1>1, <1>7
    <3> QED BY <3>1, TwoParts, Zenon
  <2>2. \A i \in 1 .. n + m + 3 : i <= 1 => i = 1
    OBVIOUS
  <2> QED BY <1>1, <1>7, <1>8, <2>1, <2>2
<1>10. p[1] = a
  BY <1>9
<1>11. p[n + 2] = b
  <2>1. PICK j \in Nat : j = n + 1
    OBVIOUS
  <2>2. /\ j \in 1 .. n + 1 /\ j \in 1 .. n + 1 + m /\ j \in 1 .. n + m + 2
        /\ j \in 1 .. n + m + 1 /\ j + 1 \in 1 .. n + m + 3
        /\ j + 1 - 1 = j /\ n + 2 = j + 1 /\ ~(j + 1 <= 1) /\ ~(j <= n)
    BY <2>1
  <2>3. p[j + 1] = z[j]
    BY <1>9, <2>2
  <2>4. z[j] = y[j]
    BY <1>7, <2>2
  <2>5. y[j] = x[j] /\ x[j] = b
    BY <1>3, <1>5, <2>2
  <2> QED BY <2>2, <2>3, <2>4, <2>5
<1>12. p[n + m + 3] = e
  <2>1. PICK j \in Nat : j = n + m + 2
    OBVIOUS
  <2>2. /\ j \in 1 .. n + m + 2 /\ j + 1 \in 1 .. n + m + 3
        /\ j + 1 - 1 = j /\ n + m + 3 = j + 1 /\ ~(j + 1 <= 1) /\ ~(j <= n + m + 1)
    BY <2>1
  <2>3. p[j + 1] = z[j]
    BY <1>9, <2>2
  <2>4. z[j] = e
    BY <1>7, <2>2
  <2> QED BY <2>2, <2>3, <2>4
<1>13. ASSUME NEW i \in 1 .. n PROVE p[i + 1] = t[i]
  <2>1. i \in 1 .. n + 1 /\ i \in 1 .. n + m + 1 /\ i + 1 \in 1 .. n + m + 3 /\ i + 1 - 1 = i
    OBVIOUS
  <2>2. p[i + 1] = z[i]
    BY <1>9, <2>1
  <2>3. z[i] = y[i]
    BY <1>7, <2>1
  <2>4. y[i] = x[i] /\ x[i] = t[i]
    BY <1>3, <1>5, <2>1
  <2> QED BY <2>2, <2>3, <2>4
<1>14. ASSUME NEW i \in 1 .. m PROVE p[n + 2 + i] = w[i]
  <2>1. PICK j \in Nat : j = n + 1 + i
    OBVIOUS
  <2>2. /\ j \in 1 .. n + 1 + m /\ j \in 1 .. n + m + 1 /\ j \in 1 .. n + m + 2
        /\ j + 1 \in 1 .. n + m + 3 /\ j + 1 - 1 = j /\ j - (n + 1) = i /\ ~(j <= n + 1)
        /\ n + 2 + i = j + 1
    BY <2>1
  <2>3. p[j + 1] = z[j]
    BY <1>9, <2>2
  <2>4. z[j] = y[j]
    BY <1>7, <2>2
  <2>5. y[j] = w[i]
    BY <1>5, <2>2
  <2> QED BY <2>2, <2>3, <2>4, <2>5
<1>15. p \in Seq(S) /\ FiveParts(p, a, t, b, w, e)
  BY <1>9, <1>10, <1>11, <1>12, <1>13, <1>14 DEF FiveParts
<1> QED BY <1>15

\* A call that may enable an input, and programs that disable what they have
\* enabled.
TurnsOn(k, c) ==
  \E j \in 1 .. Len(k.script) :
    /\ k.script[j].attr = "enable" /\ k.script[j].set
    /\ k.script[j].val # 0 /\ k.script[j].chan = c
QuietCall == {k \in SettingCall : \A c \in Chan : ~TurnsOn(k, c)}
EndsOff(p) ==
  \A i \in 1 .. Len(p), c \in Chan :
    TurnsOn(p[i], c) => \E j \in i + 1 .. Len(p) : p[j] = StatusSet(c, 0)

\* A readout program enables with fmctdc_channel_status_set only.
LEMMA QuietCalls ==
  ASSUME NEW c \in Chan, NEW v \in Int
  PROVE  /\ StatusSet(c, 0) \in QuietCall /\ CoalescingSet(c, v) \in QuietCall
         /\ SetBufferMode(c, v) \in QuietCall /\ TsModeSet(c, v) \in QuietCall
         /\ SetBufferLen(c, v) \in QuietCall /\ Flush(c) \in QuietCall
         /\ \A d \in Chan : ~TurnsOn(Loop, d) /\ ~TurnsOn(Close, d) /\ ~TurnsOn(Open, d)
<1>1. ASSUME NEW fn, NEW a, NEW w, Call(fn, <<SetOf(a, c, w)>>) \in SettingCall,
             a # "enable" \/ w = 0
      PROVE  Call(fn, <<SetOf(a, c, w)>>) \in QuietCall
  <2>1. Call(fn, <<SetOf(a, c, w)>>).script = <<SetOf(a, c, w)>>
    BY CallFields
  <2> PICK k : k = Call(fn, <<SetOf(a, c, w)>>)
    OBVIOUS
  <2>2. Len(k.script) = 1 /\ k.script[1].attr = a /\ k.script[1].val = w
    <3>1. PICK x : x = SetOf(a, c, w)
      OBVIOUS
    <3>2. x.attr = a /\ x.val = w
      BY <3>1 DEF SetOf
    <3>3. k.script = <<x>>
      BY <2>1, <3>1
    <3> QED BY <3>2, <3>3
  <2> HIDE DEF SettingCall
  <2> QED BY <1>1, <2>2 DEF QuietCall, TurnsOn
<1>2. StatusSet(c, 0) \in QuietCall
  BY <1>1, SettingCalls DEF StatusSet
<1>3. CoalescingSet(c, v) \in QuietCall
  BY <1>1, SettingCalls DEF CoalescingSet
<1>4. SetBufferMode(c, v) \in QuietCall
  BY <1>1, SettingCalls DEF SetBufferMode
<1>5. TsModeSet(c, v) \in QuietCall
  BY <1>1, SettingCalls DEF TsModeSet
<1>6. SetBufferLen(c, v) \in QuietCall
  BY <1>1, SettingCalls DEF SetBufferLen
<1>7. Flush(c) \in QuietCall
  <2>1. PICK k : k = Flush(c)
    OBVIOUS
  <2>2. k.script = <<GetOf("enable", c), SetOf("enable", c, 0),
                     Step("drain", c, 100), SetOf("enable", c, 0)>>
    BY <2>1, FlushCall
  <2>3. Len(k.script) = 4 /\ \A i \in 1 .. 4 : k.script[i].val = 0 \/ k.script[i].attr = "drain"
    BY <2>2 DEF GetOf, SetOf, Step
  <2>4. k \in SettingCall
    BY <2>1, SettingCalls
  <2> HIDE DEF SettingCall
  <2> QED BY <2>1, <2>3, <2>4 DEF QuietCall, TurnsOn
<1>8. ASSUME NEW d \in Chan PROVE ~TurnsOn(Loop, d) /\ ~TurnsOn(Close, d)
  <2>1. Loop.script = <<>> /\ Close.script = <<>>
    BY CallFields DEF Loop, Close
  <2>2. Len(Loop.script) = 0 /\ Len(Close.script) = 0
    BY <2>1
  <2> QED BY <2>2 DEF TurnsOn
<1>9. ASSUME NEW d \in Chan PROVE ~TurnsOn(Open, d)
  BY OpenCall DEF TurnsOn
<1> QED BY <1>2, <1>3, <1>4, <1>5, <1>6, <1>7, <1>8, <1>9

\* A readout program ends with fmctdc_close, and before that it disables what it
\* has enabled.
LEMMA ReadoutEnds ==
  ASSUME NEW x \in DOMAIN Options, Options[x].prog \in {"tstamp", "perftest"}
  PROVE  /\ Programs[x] \in Seq(InnerCall \union {Open}) /\ Len(Programs[x]) > 0
         /\ Programs[x][1] = Open
         /\ Programs[x][Len(Programs[x])] = Close
         /\ EndsOff(Programs[x])
<1> DEFINE o == Options[x]
           S == InnerCall \union {Open}
<1>1. Programs[x] = ProgramOf(o)
  BY DEF Programs
<1>2. /\ o.prog = "tstamp" => TstampOptions(o)
      /\ o.prog = "perftest" => PerftestOptions(o)
  BY OptionsAssumption
<1>3. Seq(QuietCall) \subseteq Seq(SettingCall) /\ Seq(SettingCall) \subseteq Seq(S)
      /\ Open \in S /\ Loop \in S /\ Close \in S
  <2>1. QuietCall \subseteq SettingCall
    BY DEF QuietCall
  <2>2. SettingCall \subseteq InnerCall
    BY DEF SettingCall, ToolCall
  <2> HIDE DEF QuietCall, SettingCall, InnerCall
  <2>3. Close \in SettingCall
    BY ChanZero, SettingCalls
  <2> QED BY <2>1, <2>2, <2>3, LoopAndClose
<1>4. \A d \in Chan : ~TurnsOn(Loop, d) /\ ~TurnsOn(Close, d) /\ ~TurnsOn(Open, d)
  BY ChanZero, QuietCalls
<1> HIDE DEF o, S
<1>5. CASE o.prog = "tstamp"
  <2>0. TstampOptions(o) /\ Programs[x] = Tstamp(o)
    BY <1>1, <1>2, <1>5 DEF ProgramOf
  <2>1. o.timeout \in Int /\ o.len \in Int /\ o.circ \in Int /\ o.raw \in Int
        /\ o.read \in BOOLEAN
    BY <2>0 DEF TstampOptions
  <2>2. ASSUME NEW T, \A c \in Chan :
                 /\ TsModeSet(c, o.raw) \in T /\ Flush(c) \in T /\ CoalescingSet(c, o.timeout) \in T
                 /\ SetBufferMode(c, o.circ) \in T /\ SetBufferLen(c, o.len) \in T
                 /\ ~o.read => StatusSet(c, 1) \in T
        PROVE  \E t \in Seq(T) :
                 Tstamp(o) = <<Open>> \o (t \o <<Loop>> \o When(~o.read, DisableAll) \o <<Close>>)
    BY <2>0, <2>2, TstampParts
  <2> PICK w : w = When(~o.read, DisableAll)
    OBVIOUS
  <2>3. CASE o.read
    <3>1. \A c \in Chan :
            /\ TsModeSet(c, o.raw) \in QuietCall /\ Flush(c) \in QuietCall
            /\ CoalescingSet(c, o.timeout) \in QuietCall
            /\ SetBufferMode(c, o.circ) \in QuietCall /\ SetBufferLen(c, o.len) \in QuietCall
            /\ ~o.read => StatusSet(c, 1) \in QuietCall
      BY <2>1, <2>3, QuietCalls
    <3>2. PICK t \in Seq(QuietCall) :
            Programs[x] = <<Open>> \o (t \o <<Loop>> \o w \o <<Close>>)
      BY <2>0, <2>2, <3>1
    <3>3. w = <<>>
      BY <2>3 DEF When
    <3>4. t \in Seq(S) /\ w \in Seq(S) /\ Len(w) = 0
      <4>1. t \in Seq(S)
        BY <1>3
      <4>2. <<>> \in Seq(S) /\ Len(<<>>) = 0
        OBVIOUS
      <4> QED BY <3>3, <4>1, <4>2
    <3>5. PICK p : p = Programs[x]
      OBVIOUS
    <3>6. /\ p \in Seq(S) /\ Len(p) = Len(t) + Len(w) + 3
          /\ p[1] = Open /\ p[Len(t) + 2] = Loop /\ p[Len(p)] = Close
          /\ \A i \in 1 .. Len(t) : p[i + 1] = t[i]
      <4>1. t \in Seq(S) /\ w \in Seq(S) /\ Open \in S /\ Loop \in S /\ Close \in S
        BY <1>3, <3>4
      <4>2. p = <<Open>> \o (t \o <<Loop>> \o w \o <<Close>>)
        BY <3>2, <3>5
      <4>3. p \in Seq(S) /\ FiveParts(p, Open, t, Loop, w, Close)
        <5>1. LET q == <<Open>> \o (t \o <<Loop>> \o w \o <<Close>>)
              IN  q \in Seq(S) /\ FiveParts(q, Open, t, Loop, w, Close)
          BY <4>1, PartsOfFive, Zenon
        <5> QED BY <4>2, <5>1, Zenon
      <4> QED BY <4>3 DEF FiveParts
    <3>7. ASSUME NEW i \in 1 .. Len(p), NEW c \in Chan PROVE ~TurnsOn(p[i], c)
      <4>1. PICK n \in Nat : n = Len(t)
        OBVIOUS
      <4>4. Len(p) = n + 3
        BY <3>4, <3>6, <4>1
      <4>2. i = 1 \/ i - 1 \in 1 .. n \/ i = n + 2 \/ i = n + 3
        <5>1. i \in 1 .. n + 3
          BY <4>4
        <5> QED BY <5>1
      <4>3. CASE i - 1 \in 1 .. n
        <5>1. p[i] = t[i - 1]
          BY <3>6, <4>1, <4>3
        <5>2. t[i - 1] \in QuietCall
          BY <4>1, <4>3
        <5> QED BY <5>1, <5>2 DEF QuietCall
      <4> QED BY <1>4, <3>6, <4>1, <4>2, <4>3, <4>4
    <3>8. EndsOff(p)
      BY <3>7 DEF EndsOff
    <3>9. Len(p) > 0
      BY <3>4, <3>6
    <3> QED BY <3>5, <3>6, <3>8, <3>9 DEF S
  <2>4. CASE ~o.read
    <3>1. \A c \in Chan :
            /\ TsModeSet(c, o.raw) \in SettingCall /\ Flush(c) \in SettingCall
            /\ CoalescingSet(c, o.timeout) \in SettingCall
            /\ SetBufferMode(c, o.circ) \in SettingCall /\ SetBufferLen(c, o.len) \in SettingCall
            /\ ~o.read => StatusSet(c, 1) \in SettingCall
      BY <2>1, SettingCalls
    <3>2. PICK t \in Seq(SettingCall) :
            Programs[x] = <<Open>> \o (t \o <<Loop>> \o w \o <<Close>>)
      BY <2>0, <2>2, <3>1
    <3>3. w = DisableAll
      BY <2>4 DEF When
    <3>31. w \in Seq(SettingCall) /\ Len(w) = NumChan
           /\ \A i \in 1 .. NumChan : w[i] = StatusSet(i - 1, 0)
      BY <3>3, DisableAllType
    <3>4. t \in Seq(S) /\ w \in Seq(S)
      BY <1>3, <3>31
    <3>5. PICK p : p = Programs[x]
      OBVIOUS
    <3>6. /\ p \in Seq(S) /\ Len(p) = Len(t) + Len(w) + 3
          /\ p[1] = Open /\ p[Len(t) + 2] = Loop /\ p[Len(p)] = Close
          /\ \A i \in 1 .. Len(w) : p[Len(t) + 2 + i] = w[i]
      <4>1. t \in Seq(S) /\ w \in Seq(S) /\ Open \in S /\ Loop \in S /\ Close \in S
        BY <1>3, <3>4
      <4>2. p = <<Open>> \o (t \o <<Loop>> \o w \o <<Close>>)
        BY <3>2, <3>5
      <4>3. p \in Seq(S) /\ FiveParts(p, Open, t, Loop, w, Close)
        <5>1. LET q == <<Open>> \o (t \o <<Loop>> \o w \o <<Close>>)
              IN  q \in Seq(S) /\ FiveParts(q, Open, t, Loop, w, Close)
          BY <4>1, PartsOfFive, Zenon
        <5> QED BY <4>2, <5>1, Zenon
      <4> QED BY <4>3 DEF FiveParts
    <3>7. PICK n \in Nat : n = Len(t)
      OBVIOUS
    <3>8. NumChan \in Nat \ {0}
      BY SysfsConstants
    <3>9. Len(p) = n + NumChan + 3
      BY <3>31, <3>6, <3>7, <3>8
    <3>10. ASSUME NEW i \in 1 .. NumChan PROVE p[n + 2 + i] = StatusSet(i - 1, 0)
      BY <3>31, <3>6, <3>7, <3>8
    <3>11. ASSUME NEW i \in 1 .. Len(p), NEW c \in Chan, TurnsOn(p[i], c)
           PROVE  \E j \in i + 1 .. Len(p) : p[j] = StatusSet(c, 0)
      <4>1. CASE i <= n + 1
        <5>1. c \in Nat /\ c < NumChan
          BY <3>8 DEF Chan
        <5>2. c + 1 \in 1 .. NumChan /\ n + 2 + (c + 1) \in i + 1 .. Len(p) /\ c + 1 - 1 = c
          BY <3>8, <3>9, <4>1, <5>1
        <5>3. p[n + 2 + (c + 1)] = StatusSet(c, 0)
          <6>1. PICK k \in 1 .. NumChan : k = c + 1
            BY <5>2
          <6>2. p[n + 2 + k] = StatusSet(k - 1, 0) /\ k - 1 = c
            BY <3>10, <5>1, <6>1
          <6> QED BY <6>1, <6>2
        <5> QED BY <5>2, <5>3
      <4>2. CASE i = n + 2
        BY <1>4, <3>6, <3>7, <3>11, <4>2
      <4>3. CASE i = n + NumChan + 3
        BY <1>4, <3>6, <3>9, <3>11, <4>3
      <4>4. CASE i - (n + 2) \in 1 .. NumChan
        <5>1. PICK k \in 1 .. NumChan : i = n + 2 + k
          BY <4>4
        <5>2. p[i] = StatusSet(k - 1, 0)
          BY <3>10, <5>1
        <5>3. k - 1 \in Chan
          BY <3>8 DEF Chan
        <5>4. StatusSet(k - 1, 0) \in QuietCall
          BY <5>3, QuietCalls
        <5> QED BY <3>11, <5>2, <5>4 DEF QuietCall
      <4> QED BY <3>8, <3>9, <4>1, <4>2, <4>3, <4>4
    <3>12. EndsOff(p)
      BY <3>11 DEF EndsOff
    <3>13. Len(p) > 0
      BY <3>8, <3>9
    <3> QED BY <3>5, <3>6, <3>12, <3>13 DEF S
  <2> QED BY <2>1, <2>3, <2>4
<1>6. CASE o.prog = "perftest"
  <2>0. PerftestOptions(o) /\ Programs[x] = Perftest(o)
    BY <1>1, <1>2, <1>6 DEF ProgramOf
  <2>1. PICK c \in Chan : c = Head(o.chans)
    BY <2>0 DEF PerftestOptions
  <2>2. PICK s : s = <<Flush(c), StatusSet(c, 1), Loop, StatusSet(c, 0), Close>>
    OBVIOUS
  <2>3. PICK p : p = Programs[x]
    OBVIOUS
  <2>4. Flush(c) \in S /\ StatusSet(c, 1) \in S /\ StatusSet(c, 0) \in S
    <3>1. Flush(c) \in SettingCall /\ StatusSet(c, 1) \in SettingCall
          /\ StatusSet(c, 0) \in SettingCall
      BY SettingCalls
    <3>2. SettingCall \subseteq S
      BY DEF SettingCall, ToolCall, S
    <3> QED BY <3>1, <3>2
  <2>5. Flush(c) \in QuietCall /\ StatusSet(c, 0) \in QuietCall
    BY QuietCalls
  <2>6. /\ p \in Seq(S) /\ Len(p) = 6 /\ p[1] = Open /\ p[2] = Flush(c)
        /\ p[3] = StatusSet(c, 1) /\ p[4] = Loop /\ p[5] = StatusSet(c, 0) /\ p[6] = Close
    <3>1. /\ s \in Seq(S) /\ Len(s) = 5 /\ s[1] = Flush(c) /\ s[2] = StatusSet(c, 1)
          /\ s[3] = Loop /\ s[4] = StatusSet(c, 0) /\ s[5] = Close
      BY <1>3, <2>2, <2>4
    <3>2. p = <<Open>> \o s
      BY <2>0, <2>1, <2>2, <2>3 DEF Perftest, OpenBoard
    <3>3. <<Open>> \in Seq(S) /\ Len(<<Open>>) = 1 /\ <<Open>>[1] = Open
      BY <1>3
    <3>4. /\ <<Open>> \o s \in Seq(S) /\ Len(<<Open>> \o s) = Len(<<Open>>) + Len(s)
          /\ \A i \in 1 .. Len(<<Open>>) + Len(s) :
               (<<Open>> \o s)[i] = IF i <= Len(<<Open>>) THEN <<Open>>[i] ELSE s[i - Len(<<Open>>)]
      <4>1. s \in Seq(S) /\ <<Open>> \in Seq(S)
        BY <3>1, <3>3
      <4> QED BY <4>1, TwoParts, Zenon
    <3>5. p \in Seq(S) /\ Len(p) = 6
          /\ \A i \in 1 .. 6 : p[i] = IF i <= 1 THEN <<Open>>[i] ELSE s[i - 1]
      BY <3>1, <3>2, <3>3, <3>4
    <3> QED BY <3>1, <3>3, <3>5
  <2>7. ASSUME NEW d \in Chan, TurnsOn(StatusSet(c, 1), d) PROVE d = c
    <3>1. StatusSet(c, 1).script = <<SetOf("enable", c, 1)>>
      BY CallFields DEF StatusSet
    <3>2. PICK y : y = SetOf("enable", c, 1)
      OBVIOUS
    <3>3. y.chan = c
      BY <3>2 DEF SetOf
    <3>4. PICK r : r = StatusSet(c, 1).script
      OBVIOUS
    <3>5. Len(r) = 1 /\ r[1] = y
      BY <3>1, <3>2, <3>4
    <3> QED BY <2>7, <3>3, <3>4, <3>5 DEF TurnsOn
  <2>8. ASSUME NEW i \in 1 .. 6, NEW d \in Chan, TurnsOn(p[i], d) PROVE i = 3
    BY <1>4, <2>5, <2>6, <2>8 DEF QuietCall
  <2>9. ASSUME NEW i \in 1 .. 6, NEW d \in Chan, TurnsOn(p[i], d)
        PROVE  \E j \in i + 1 .. 6 : p[j] = StatusSet(d, 0)
    <3>1. i = 3
      BY <2>8, <2>9
    <3>2. d = c
      BY <2>6, <2>7, <2>9, <3>1
    <3> QED BY <2>6, <3>1, <3>2
  <2>10. EndsOff(p)
    BY <2>6, <2>9 DEF EndsOff
  <2> QED BY <2>3, <2>6, <2>10 DEF S
<1> QED BY <1>5, <1>6 DEF o

-----------------------------------------------------------------------------
(* The end of a program *)

\* What the readout loop does with the result of its read.
LEMMA ResultSets ==
  ASSUME CallInv, NEW u \in User, LoopReturns(u)
  PROVE  /\ InLoop(u) /\ tool'[u].job = tool[u].job
         /\ tool'[u].pc \in {tool[u].pc, tool[u].pc + 1}
<1>0. tool \in [User -> ToolState] /\ tool[u] \in ToolState
  BY DEF CallInv
<1>1. ASSUME NEW t, Set(u, t) PROVE tool'[u] = t
  BY <1>0, <1>1 DEF Set
<1> DEFINE k == call[u]
           t == tool[u]
           c == Head(k.script).chan
           n == IF k.err # "none" THEN -1 ELSE k.res[1]
           s == SubSeq(got[u][c], Len(got[u][c]) - n + 1, Len(got[u][c]))
           skip == Job(u).prog = "perftest" /\ s[1] < Skip
           missing == Missing(t.prev[c], s)
           a == [t EXCEPT !.pc = @ + 1, !.ready = {}]
           b == [t EXCEPT !.n = @ + n]
           d == [t EXCEPT !.n = @ + n, !.prev[c] = Last(s), !.missed[c] = @ \union missing,
                          !.stop = @ \/ (Job(u).strict /\ missing # {})]
<1>2. InLoop(u) /\ (Set(u, a) \/ Set(u, b) \/ Set(u, d))
  BY DEF LoopReturns
<1>3. a.job = t.job /\ a.pc = t.pc + 1
  BY <1>0 DEF ToolState
<1>4. b.job = t.job /\ b.pc = t.pc
  BY <1>0 DEF ToolState
<1>5. d.job = t.job /\ d.pc = t.pc
  <2> HIDE DEF c, n, s, skip, missing
  <2> QED BY <1>0 DEF ToolState
<1> HIDE DEF a, b, d
<1> QED BY <1>1, <1>2, <1>3, <1>4, <1>5

\* A program stays what it is, and goes on when a call or the loop ends.
LEMMA ToolMoves ==
  ASSUME ToolInv, [Next]_vars, NEW u \in User
  PROVE  /\ tool'[u].job = tool[u].job
         /\ tool'[u].pc = tool[u].pc \/ Returns(u) \/ LoopEnds(u) \/ LoopReturns(u)
<1>0. CallInv /\ DataInv /\ tool \in [User -> ToolState]
  BY DEF ToolInv, CallInv
<1>1. CASE UNCHANGED vars \/ (Acquisition /\ UNCHANGED tool)
  BY <1>1 DEF vars
<1>2. ASSUME NEW w \in User, ToolStep(w) \/ Signal(w) \/ (CallFails(w) /\ UNCHANGED tool)
      PROVE  /\ tool'[u].job = tool[u].job
             /\ tool'[u].pc = tool[u].pc \/ Returns(u) \/ LoopEnds(u) \/ LoopReturns(u)
  <2>1. CASE w # u
    BY <1>0, <1>2, <2>1, OthersStand
  <2>2. CASE w = u
    <3>0. tool[u] \in ToolState
      BY <1>0
    <3>1. ASSUME NEW t, Set(u, t) PROVE tool'[u] = t
      BY <1>0, <3>1 DEF Set
    <3>2. CASE UNCHANGED tool
      BY <3>2
    <3>3. CASE Returns(u)
      <4>1. UNCHANGED tool \/ \E n : Set(u, [tool[u] EXCEPT !.pc = n])
        BY <3>3 DEF Returns, Exits
      <4>2. ASSUME NEW n PROVE [tool[u] EXCEPT !.pc = n].job = tool[u].job
        BY <3>0 DEF ToolState
      <4> QED BY <3>1, <3>3, <4>1, <4>2
    <3>4. CASE LoopEnds(u)
      <4>1. Set(u, [tool[u] EXCEPT !.pc = @ + 1])
        BY <3>4 DEF LoopEnds
      <4>2. [tool[u] EXCEPT !.pc = @ + 1].job = tool[u].job
        BY <3>0 DEF ToolState
      <4> QED BY <3>1, <3>4, <4>1, <4>2
    <3>5. CASE Poll(u) \/ ReadReady(u)
      <4>1. \E r : Set(u, [tool[u] EXCEPT !.ready = r])
        BY <3>5 DEF Poll, ReadReady
      <4>2. ASSUME NEW r PROVE [tool[u] EXCEPT !.ready = r].job = tool[u].job
                               /\ [tool[u] EXCEPT !.ready = r].pc = tool[u].pc
        BY <3>0 DEF ToolState
      <4> QED BY <3>1, <4>1, <4>2
    <3>6. CASE Signal(u)
      <4>1. Set(u, [tool[u] EXCEPT !.stop = TRUE])
        BY <3>6 DEF Signal
      <4>2. [tool[u] EXCEPT !.stop = TRUE].job = tool[u].job
            /\ [tool[u] EXCEPT !.stop = TRUE].pc = tool[u].pc
        BY <3>0 DEF ToolState
      <4> QED BY <3>1, <4>1, <4>2
    <3>7. CASE LoopReturns(u)
      BY <1>0, <3>7, ResultSets
    <3>8. CASE Starts(u)
      BY <3>2, <3>8 DEF Starts
    <3>9. ToolStep(u) \/ Signal(u) \/ UNCHANGED tool
      BY <1>2, <2>2
    <3>10. CASE ToolStep(u)
      BY <3>2, <3>3, <3>4, <3>5, <3>7, <3>8, <3>10 DEF ToolStep
    <3> QED BY <3>2, <3>6, <3>9, <3>10
  <2> QED BY <2>1, <2>2
<1> QED BY <1>1, <1>2 DEF Next

\* The readout loop is not the end of a program.
LEMMA LoopNotLast ==
  ASSUME TypeInv, CallInv, NEW u \in User, InLoop(u)
  PROVE  /\ tool[u].pc \in Nat /\ Len(Program(u)) \in Nat /\ tool[u].pc < Len(Program(u))
         /\ Job(u).prog \in {"tstamp", "perftest"}
<1>1. /\ Job(u).prog \in {"tstamp", "perftest"} /\ Len(Program(u)) \in Nat
      /\ tool[u].pc \in 1 .. Len(Program(u))
  BY LoopTypes
<1>2. tool[u].job \in DOMAIN Options
  BY ProcTypes
<1>3. Program(u)[Len(Program(u))] = Close
  BY <1>1, <1>2, ReadoutEnds DEF Program, Job
<1>4. Close.fn = "close"
  BY LoopAndClose
<1>5. tool[u].pc # Len(Program(u))
  BY <1>3, <1>4 DEF InLoop, Current
<1> QED BY <1>1, <1>5

\* At its end a program has no descriptors: exit() closes them, whatever has
\* failed.
OverInv == \A u \in User : Over(u) => fds[u] = {}

\* The others leave the descriptors of a program that has ended alone.
LEMMA OverKeeps ==
  ASSUME ToolInv, FdsInv, OverInv, [Next]_vars
  PROVE  OverInv'
<1> SUFFICES ASSUME NEW u \in User, Over(u)' PROVE fds'[u] = {}
  BY DEF OverInv
<1>0. TypeInv /\ CallInv /\ DataInv /\ fds \in [User -> SUBSET (Descriptors \X Chan)]
      /\ call \in [User -> CallState] /\ tool[u].pc \in 1 .. Len(Program(u)) + 1
  BY ProcTypes DEF ToolInv, FdsInv, CallInv, ProcInv, Shape
<1>1. Program(u)' = Program(u)
  BY ToolMoves DEF Program
<1>2. Len(Program(u)) \in Nat
  <2>1. Program(u) \in Seq(InnerCall \union {Open})
    BY <1>0, ProgramIsSeq
  <2> HIDE DEF InnerCall
  <2> QED BY <2>1
<1>3. CASE Over(u)
  <2>1. call[u] = NoCall /\ call[u].fn = "none" /\ ~InLoop(u)
    BY <1>0, <1>3, ProcTypes, NoCallTypes DEF ProcInv, CallOf, InLoop
  <2>2. fds[u] = {}
    BY <1>3 DEF OverInv
  <2>3. ASSUME NEW w \in User, w # u, NEW d, fds' = [fds EXCEPT ![w] = d] PROVE fds'[u] = fds[u]
    BY <1>0, <2>3
  <2>4. ASSUME NEW w \in User, CallStep(w) \/ CallFails(w) PROVE fds'[u] = fds[u]
    <3>1. UNCHANGED fds \/ OpenChannel(w) \/ OpenChannelFails(w)
      BY <2>4 DEF CallStep, CallFails, SysfsCall, SysfsReturn, AttrOnly, AbortData, NewBuffer,
                  ReadOne, ReadEnds, SysfsCallFails, ReadFails
    <3>2. ASSUME OpenChannel(w) \/ OpenChannelFails(w)
          PROVE  w # u /\ \E d : fds' = [fds EXCEPT ![w] = d]
      BY <2>1, <3>2 DEF OpenChannel, OpenChannelFails, InCall
    <3> QED BY <2>3, <3>1, <3>2
  <2>5. ASSUME NEW w \in User, ToolStep(w), ~CallStep(w) PROVE fds'[u] = {}
    <3>1. UNCHANGED fds \/ fds' = [fds EXCEPT ![w] = {}]
      BY <2>5 DEF ToolStep, Starts, Begin, Returns, Exits, LoopEnds, Poll, ReadReady, LoopReturns,
                  libVars
    <3> QED BY <1>0, <2>2, <3>1
  <2>6. CASE UNCHANGED vars \/ Acquisition \/ \E w \in User : Signal(w)
    BY <2>2, <2>6 DEF vars, libVars, Acquisition, Pulse, Deliver, Discard, Signal
  <2> QED BY <2>2, <2>4, <2>5, <2>6 DEF Next
<1>4. CASE ~Over(u)
  <2>1. tool'[u].pc # tool[u].pc
    BY <1>1, <1>3, <1>4 DEF Over
  <2>2. tool[u].pc \in 1 .. Len(Program(u)) /\ ~(tool[u].pc + 1 > Len(Program(u)) + 1)
    BY <1>0, <1>2, <1>4 DEF Over
  <2>3. tool \in [User -> ToolState] /\ tool[u] \in ToolState
    BY <1>0 DEF CallInv
  <2>4. ASSUME tool'[u].pc = tool[u].pc + 1, tool[u].pc # Len(Program(u)) PROVE FALSE
    BY <1>1, <1>2, <2>2, <2>4 DEF Over
  <2>5. CASE Returns(u)
    <3>1. CASE Exits(u)
      BY <1>0, <3>1 DEF Exits
    <3>2. CASE UNCHANGED tool
      BY <2>1, <3>2
    <3>3. CASE tool[u].pc # Len(Program(u)) /\ Set(u, [tool[u] EXCEPT !.pc = @ + 1])
      <4>1. tool'[u].pc = tool[u].pc + 1
        BY <2>3, <3>3 DEF Set, ToolState
      <4> QED BY <2>4, <3>3, <4>1
    <3> QED BY <2>5, <3>1, <3>2, <3>3 DEF Returns
  <2>6. CASE LoopEnds(u) \/ LoopReturns(u)
    <3>1. InLoop(u)
      BY <2>6 DEF LoopEnds, LoopReturns
    <3>2. tool[u].pc < Len(Program(u)) /\ tool[u].pc \in Nat
      BY <1>0, <3>1, LoopNotLast
    <3>3. tool'[u].pc = tool[u].pc + 1
      <4>1. CASE LoopEnds(u)
        BY <2>3, <4>1 DEF LoopEnds, Set, ToolState
      <4>2. CASE LoopReturns(u)
        BY <1>0, <2>1, <4>2, ResultSets
      <4> QED BY <2>6, <4>1, <4>2
    <3> QED BY <2>4, <3>2, <3>3
  <2> QED BY <2>1, <2>5, <2>6, ToolMoves
<1> QED BY <1>3, <1>4

\* What is proved of the board and of the programs is the type invariant.
LEMMA TypesOfAll ==
  ASSUME ToolInv, FdsInv, OverInv, Accesses, Registers
  PROVE  TypeOK
<1>1. TypeInv /\ CallInv
  BY DEF ToolInv
<1>2. ien \in [acq : SUBSET Chan, term : SUBSET Chan, flag : BOOLEAN]
      /\ wr \in [ctrl : {0, 1}, mode : {0, 1}] /\ lock \in User \union {Nobody}
  BY <1>1 DEF TypeInv, Ien
<1>3. Mode \in Modes
  BY <1>1 DEF TypeInv, Mode
<1>4. \A c \in Chan : tsf[c].off \in Time /\ tsf[c].raw \in {0, 1}
  BY DEF Registers
<1>5. tai \in [start : 0 .. Era - 1, current : 0 .. Era - 1]
  BY DEF Registers
<1>6. ASSUME NEW u \in User
      PROVE  /\ fds[u] \subseteq {"ctrl", "data", "current"} \X Chan
             /\ tool[u].pc \in 1 .. Len(Program(u)) + 1
             /\ tool[u].ready \subseteq Chan
             /\ call[u].fn = "none" => req[u] = IdleReq
             /\ Over(u) => call[u] = NoCall /\ fds[u] = {}
  <2>1. fds[u] \subseteq {"ctrl", "data", "current"} \X Chan
    BY DEF FdsInv, Descriptors
  <2>2. ProcInv(u) /\ tool[u] \in ToolState
    BY <1>1, ProcTypes
  <2>3. tool[u].pc \in 1 .. Len(Program(u)) + 1
    BY <2>2 DEF ProcInv, Shape
  <2>4. tool[u].ready \subseteq Chan
    BY <2>2 DEF ToolState
  <2>5. ASSUME call[u].fn = "none" PROVE req[u] = IdleReq
    <3>1. req[u].at = "idle"
      BY <2>2, <2>5 DEF ProcInv, ReqOf, OnSysfs, InCall
    <3> QED BY <3>1 DEF Accesses, AccessOf
  <2>6. ASSUME Over(u) PROVE call[u] = NoCall /\ fds[u] = {}
    BY <2>2, <2>6 DEF ProcInv, CallOf, OverInv
  <2> QED BY <2>1, <2>3, <2>4, <2>5, <2>6
<1> QED BY <1>2, <1>3, <1>4, <1>5, <1>6 DEF TypeOK

\* The registers, the descriptors and the places of the programs keep their
\* types, for any options, any offsets and any number of programs: the offset
\* registers hold normalized timestamps, a process is in the driver only during a
\* call, and a program that has ended has neither a call nor a descriptor.
THEOREM ToolsKeepTypes == Spec => []TypeOK
<1>1. Init => ToolInv /\ FdsInv /\ OverInv /\ BoardInv
  <2> SUFFICES ASSUME Init PROVE ToolInv /\ FdsInv /\ OverInv /\ BoardInv
    OBVIOUS
  <2>1. ToolInv /\ FdsInv
    BY ToolInit, FdsInit
  <2>2. OverInv
    BY DEF Init, LibInit, OverInv
  <2>3. SysInit
    BY DEF Init, LibInit
  <2>4. BoardInv
    BY <2>3, TypeInit, RegistersInit DEF BoardInv
  <2> QED BY <2>1, <2>2, <2>4
<1>2. ToolInv /\ FdsInv /\ OverInv /\ BoardInv /\ [Next]_vars
      => ToolInv' /\ FdsInv' /\ OverInv' /\ BoardInv'
  BY ToolKeeps, FdsKeep, OverKeeps, BoardStep DEF ToolInv
<1>3. ToolInv /\ FdsInv /\ OverInv /\ BoardInv => TypeOK
  BY TypesOfAll DEF BoardInv
<1> QED BY <1>1, <1>2, <1>3, PTL DEF Spec

-----------------------------------------------------------------------------
(* Who switches an input *)

\* ZIO's flag of an input changes in Enable only.
LEMMA FlagChanges ==
  ASSUME TypeInv, [SysNext]_sysVars, NEW c \in Chan
  PROVE  \/ st'[c].enabled = st[c].enabled
         \/ \E w \in User : Enable(w) /\ Ch(w) = c /\ st'[c].enabled = Val(w)
<1>0. st \in [Chan -> State]
  BY DEF TypeInv
<1>1. ASSUME NEW w \in User, Enable(w)
      PROVE  \/ st'[c].enabled = st[c].enabled
             \/ Enable(w) /\ Ch(w) = c /\ st'[c].enabled = Val(w)
  <2>1. Ch(w) \in Chan
    BY AccTypes
  <2>2. st' = [st EXCEPT ![Ch(w)].enabled = Val(w)]
    BY <1>1 DEF Enable
  <2>3. CASE Ch(w) = c
    <3>1. st'[c].enabled = Val(w)
      BY <1>0, <2>1, <2>2, <2>3 DEF State
    <3> QED BY <1>1, <2>3, <3>1
  <2>4. CASE Ch(w) # c
    BY <1>0, <2>1, <2>2, <2>4
  <2> QED BY <2>3, <2>4
<1>2. ASSUME NEW w \in User, Store(w) PROVE st'[c].enabled = st[c].enabled
  <2>1. Ch(w) \in Chan
    BY AccTypes
  <2> PICK d \in Chan : d = Ch(w)
    BY <2>1
  <2>2. \/ st' = st
        \/ \E v : st' = [st EXCEPT ![d].prefer_new = v]
        \/ \E v : st' = [st EXCEPT ![d].kb = v]
        \/ \E v : st' = [st EXCEPT ![d].type = v]
    BY <1>2 DEF Store
  <2>3. ASSUME NEW v, st' = [st EXCEPT ![d].prefer_new = v] PROVE st'[c].enabled = st[c].enabled
    BY <1>0, <2>3 DEF State
  <2>4. ASSUME NEW v, st' = [st EXCEPT ![d].kb = v] PROVE st'[c].enabled = st[c].enabled
    BY <1>0, <2>4 DEF State
  <2>5. ASSUME NEW v, st' = [st EXCEPT ![d].type = v] PROVE st'[c].enabled = st[c].enabled
    BY <1>0, <2>5 DEF State
  <2> QED BY <2>2, <2>3, <2>4, <2>5
<1>3. ASSUME NEW w \in User, TermFlag(w) \/ OffsetStore(w) PROVE st'[c].enabled = st[c].enabled
  <2>1. Ch(w) \in Chan
    BY AccTypes
  <2> PICK d \in Chan : d = Ch(w)
    BY <2>1
  <2>2. \/ \E v : st' = [st EXCEPT ![d].terminated = v]
        \/ \E v : st' = [st EXCEPT ![d].user_offset = v]
    BY <1>3 DEF TermFlag, OffsetStore
  <2>3. ASSUME NEW v, st' = [st EXCEPT ![d].terminated = v] PROVE st'[c].enabled = st[c].enabled
    BY <1>0, <2>3 DEF State
  <2>4. ASSUME NEW v, st' = [st EXCEPT ![d].user_offset = v] PROVE st'[c].enabled = st[c].enabled
    BY <1>0, <2>4 DEF State
  <2> QED BY <2>2, <2>3, <2>4
<1>4. CASE UNCHANGED st
  BY <1>4
<1>5. CASE UNCHANGED sysVars
  BY <1>5 DEF sysVars
<1>6. ASSUME NEW w \in User, AttrStep(w) \/ Abort(w) \/ Return(w)
      PROVE  UNCHANGED st \/ Enable(w) \/ Store(w) \/ TermFlag(w) \/ OffsetStore(w)
  BY <1>6 DEF AttrStep, Abort, Return, Show, ShowInvalid, EnRead, EnWrite,
       ReadInputEnable, TermRead, TermWrite, OffsetRejected, OffSeconds,
       OffCoarse, OffFrac, OffsetWrite, Seconds, TaiRead, TaiOff, TaiStart, TaiLoad, TaiOn,
       WrRegister, WrVariable, WrVcxo, WrAsk
<1>7. ASSUME NEW w \in User, NEW a \in Attribute, Access(w, a) \/ AccessFails(w, a)
      PROVE  UNCHANGED st
  BY <1>7 DEF Access, AccessFails
<1> QED BY <1>1, <1>2, <1>3, <1>4, <1>5, <1>6, <1>7 DEF SysNext

\* An access is under way for a step of the program's own call.
LEMMA AccessIsNow ==
  ASSUME TypeInv, CallInv, NEW w \in User, req[w].at # "idle"
  PROVE  /\ InCall(w) /\ OnSysfs(w) /\ ~Reading(w) /\ ~InLoop(w) /\ ~Over(w)
         /\ call[w].fn = Current(w).fn /\ call[w].script = Current(w).script
         /\ req[w].acc = NowSysfs(w)
         /\ Acc(w).set = Now(w).set /\ Acc(w).attr = Now(w).attr /\ Ch(w) = Now(w).chan
         /\ (call[w].fn = "flush" /\ call[w].at = 4) \/ Val(w) = Now(w).val
<1>1. OnSysfs(w) /\ req[w].acc = NowSysfs(w)
  BY ProcTypes DEF ProcInv, ReqOf
<1>2. InCall(w) /\ ~Reading(w)
  BY <1>1 DEF OnSysfs, Reading
<1>3. ~InLoop(w)
  BY <1>2, LoopNow DEF Reading, ReadSteps
<1>4. CallOf(w) /\ call[w].fn # "none"
  BY <1>2, ProcTypes DEF ProcInv, InCall
<1>5. Now(w) \in ScriptStep
  BY <1>2, NowTypes
<1>6. /\ NowSysfs(w).set = Now(w).set /\ NowSysfs(w).attr = Now(w).attr
      /\ NowSysfs(w).chan = Now(w).chan
      /\ (call[w].fn = "flush" /\ call[w].at = 4) \/ NowSysfs(w).val = Now(w).val
  BY <1>5 DEF NowSysfs, ScriptStep
<1> QED BY <1>1, <1>2, <1>3, <1>4, <1>6 DEF CallOf, Acc, Ch, Val

\* A step of a program is in the script of one of its calls.
LEMMA StepIsUsed ==
  ASSUME TypeInv, CallInv, NEW w \in User, ~Over(w),
         NEW i \in 1 .. Len(Current(w).script),
         Current(w).script[i].attr \in ReadSteps \union {"enable"}
  PROVE  Current(w).script[i].chan \in Uses[tool[w].job]
<1>1. /\ tool[w].pc \in 1 .. Len(Program(w)) /\ Current(w) \in LibCall
      /\ tool[w].job \in DOMAIN Options
  BY CurrentCall, ProcTypes
<1>2. Current(w).script \in Seq(ScriptStep)
  BY <1>1 DEF LibCall
<1>3. PICK k : k = Current(w)
  OBVIOUS
<1>4. k \in ToSet(Programs[tool[w].job])
  <2>1. Program(w) \in Seq(InnerCall \union {Open})
    BY ProgramIsSeq
  <2>2. k = Program(w)[tool[w].pc] /\ tool[w].pc \in DOMAIN Program(w)
    <3> HIDE DEF InnerCall
    <3> QED BY <1>1, <1>3, <2>1 DEF Current
  <2> QED BY <2>2 DEF ToSet, Program
<1>5. PICK x : x = k.script[i]
  OBVIOUS
<1>6. x \in ToSet(k.script) /\ x.attr \in ReadSteps \union {"enable"}
  BY <1>2, <1>3, <1>5 DEF ToSet
<1>7. x \in UNION {ToSet(q.script) : q \in ToSet(Programs[tool[w].job])}
  BY <1>4, <1>6
<1>8. x.chan \in {y.chan : y \in {y \in UNION {ToSet(q.script) : q \in ToSet(Programs[tool[w].job])} :
                               y.attr \in ReadSteps \union {"enable"}}}
  BY <1>6, <1>7
<1> QED BY <1>1, <1>3, <1>5, <1>8 DEF Uses

\* Only programs that use an input switch it.
LEMMA SwitchIsUsed ==
  ASSUME TypeInv, CallInv, Accesses, NEW w \in User, req[w].at \in EnableSteps
  PROVE  /\ Acc(w).attr = "enable" /\ Acc(w).set /\ Ch(w) \in Uses[tool[w].job]
<1>1. req[w].at \notin {"idle", "done", "show"}
  BY DEF EnableSteps
<1>2. Acc(w).attr = "enable" /\ Acc(w).set
  BY <1>1 DEF Accesses, AccessOf, Acc
<1>3. /\ InCall(w) /\ ~Over(w) /\ call[w].script = Current(w).script
      /\ Now(w).attr = "enable" /\ Ch(w) = Now(w).chan
  BY <1>1, <1>2, AccessIsNow
<1>4. call[w].at \in 1 .. Len(call[w].script)
  BY <1>3, NowTypes
<1>5. Now(w) = Current(w).script[call[w].at]
  BY <1>3 DEF Now
<1> QED BY <1>2, <1>3, <1>4, <1>5, StepIsUsed

\* Nobody else switches an input that only one program uses.
LEMMA AloneSwitches ==
  ASSUME TypeInv, CallInv, Accesses, NEW u \in User, NEW c \in Chan, Alone(u, c),
         NEW w \in User, req[w].at \in EnableSteps, Ch(w) = c
  PROVE  w = u
  BY SwitchIsUsed DEF Alone, Shares

\* Programs use what they use.
LEMMA AloneStays ==
  ASSUME ToolInv, [Next]_vars, NEW u \in User, NEW c \in Chan
  PROVE  Alone(u, c)' <=> Alone(u, c)
<1>1. \A w \in User : tool'[w].job = tool[w].job
  BY ToolMoves
<1> QED BY <1>1 DEF Alone, Shares

\* A process makes its steps itself.
LEMMA OwnOrNot ==
  ASSUME ToolInv, [Next]_vars, NEW u \in User
  PROVE  \/ /\ call'[u] = call[u] /\ tool'[u] = tool[u] /\ req'[u] = req[u]
            /\ \A c \in Chan : Alone(u, c) /\ Accesses => st'[c].enabled = st[c].enabled
         \/ ToolStep(u) \/ Signal(u) \/ (CallFails(u) /\ UNCHANGED tool)
<1>0. TypeInv /\ CallInv /\ DataInv /\ req \in [User -> Req]
  BY DEF ToolInv, TypeInv
<1>1. CASE UNCHANGED vars \/ (Acquisition /\ UNCHANGED tool)
  BY <1>1 DEF vars, libVars, sysVars, Acquisition, Pulse, Deliver, Discard
<1>2. ASSUME NEW w \in User, w # u,
             ToolStep(w) \/ Signal(w) \/ (CallFails(w) /\ UNCHANGED tool)
      PROVE  /\ call'[u] = call[u] /\ tool'[u] = tool[u] /\ req'[u] = req[u]
             /\ \A c \in Chan : Alone(u, c) /\ Accesses => st'[c].enabled = st[c].enabled
  <2>1. call'[u] = call[u] /\ tool'[u] = tool[u]
    BY <1>0, <1>2, OthersStand
  <2>2. ASSUME NEW a, Access(w, a) \/ AccessFails(w, a) PROVE req'[u] = req[u] /\ UNCHANGED st
    BY <1>0, <1>2, <2>2 DEF Access, AccessFails
  <2>3. ASSUME Return(w) PROVE req'[u] = req[u] /\ UNCHANGED st
    BY <1>0, <1>2, <2>3 DEF Return
  <2>4. ASSUME AttrStep(w) \/ Abort(w)
        PROVE  /\ req'[u] = req[u]
               /\ \A c \in Chan : Alone(u, c) /\ Accesses => st'[c].enabled = st[c].enabled
    <3>1. req'[u] = req[u]
      BY <1>0, <1>2, <2>4, DriverMoves
    <3>2. ASSUME NEW c \in Chan, Alone(u, c), Accesses, st'[c].enabled # st[c].enabled PROVE FALSE
      <4>1. SysNext
        BY <2>4 DEF SysNext
      <4>2. PICK v \in User : Enable(v) /\ Ch(v) = c
        BY <1>0, <3>2, <4>1, FlagChanges
      <4>3. v = u
        <5>1. req[v].at \in EnableSteps
          BY <4>2 DEF Enable, At, EnableSteps
        <5> QED BY <1>0, <3>2, <4>2, <5>1, AloneSwitches
      <4>4. req'[u] # req[u]
        <5>1. \E l \in {"en_read", "done"} : req'[u].at = l
          BY <1>0, <4>2, <4>3, OkGoToMoves, AllLabels DEF Enable, Moved
        <5> QED BY <4>2, <4>3, <5>1 DEF Enable, At
      <4> QED BY <3>1, <4>4
    <3> QED BY <3>1, <3>2
  <2>5. UNCHANGED sysVars \/ AttrStep(w) \/ Abort(w) \/ Return(w)
        \/ \E a : Access(w, a) \/ AccessFails(w, a)
    <3>1. CASE CallStep(w)
      BY <3>1 DEF CallStep, SysfsCall, SysfsReturn, AttrOnly, AbortData, NewBuffer, AttrStep,
                  OpenChannel, ReadOne, ReadEnds
    <3>2. CASE CallFails(w)
      BY <3>2 DEF CallFails, SysfsCallFails, OpenChannelFails, ReadFails
    <3>3. CASE ToolStep(w) /\ ~CallStep(w)
      BY <3>3 DEF ToolStep, Starts, Begin, Returns, LoopEnds, Poll, ReadReady, LoopReturns, libVars
    <3>4. CASE Signal(w)
      BY <3>4 DEF Signal
    <3> QED BY <1>2, <3>1, <3>2, <3>3, <3>4
  <2>6. CASE UNCHANGED sysVars
    BY <2>1, <2>6 DEF sysVars
  <2> QED BY <2>1, <2>2, <2>3, <2>4, <2>5, <2>6
<1> QED BY <1>1, <1>2 DEF Next

-----------------------------------------------------------------------------
(* A readout program leaves its inputs off *)

\* No error so far, and none now.
LEMMA FailsGrow ==
  ASSUME fails \in Nat, [Next]_vars
  PROVE  /\ fails' \in Nat
         /\ fails' = 0 => fails = 0 /\ \A w \in User : ~CallFails(w)
<1>1. CASE \E w \in User : CallFails(w)
  <2>1. fails' = fails + 1
    BY <1>1 DEF CallFails, SysfsCallFails, OpenChannelFails, ReadFails
  <2> QED BY <2>1
<1>2. CASE ~\E w \in User : CallFails(w)
  <2>1. ASSUME NEW w \in User, CallStep(w) PROVE UNCHANGED fails
    BY <2>1 DEF CallStep, SysfsCall, SysfsReturn, AttrOnly, AbortData, NewBuffer, OpenChannel,
                ReadOne, ReadEnds
  <2>2. ASSUME NEW w \in User, ToolStep(w) \/ Signal(w), ~CallStep(w) PROVE UNCHANGED fails
    BY <2>2 DEF ToolStep, Starts, Begin, Returns, LoopEnds, Poll, ReadReady, LoopReturns, libVars,
                Signal
  <2>3. ASSUME UNCHANGED vars \/ Acquisition PROVE UNCHANGED fails
    BY <2>3 DEF vars, libVars, Acquisition, Pulse, Deliver, Discard
  <2>4. UNCHANGED fails
    BY <1>2, <2>1, <2>2, <2>3 DEF Next
  <2> QED BY <1>2, <2>4
<1> QED BY <1>1, <1>2

Readout(u) == Job(u).prog \in {"tstamp", "perftest"}
Flushing(u, c) == call[u].fn = "flush" /\ InCall(u) /\ call[u].script[1].chan = c

\* What a flush writes back, as far as it knows.
Forgot(u, c) ==
  Flushing(u, c) => /\ call[u].at >= 2 => Restore(u) = 0
                    /\ call[u].at = 1 /\ req[u].at = "done" => req[u].ret = 0

\* A program that has yet to disable an input.
Later(u, c) == \E j \in tool[u].pc + 1 .. Len(Program(u)) : Program(u)[j] = StatusSet(c, 0)
AtDisable(u, c) ==
  /\ ~Over(u) /\ Current(u) = StatusSet(c, 0)
  /\ \/ call[u].fn = "none"
     \/ call[u].at = 1 /\ call[u].err = "none" /\ req[u].at \in {"idle", "enable"}
WillDisable(u, c) == Later(u, c) \/ AtDisable(u, c)

\* Without errors, an input that a readout program has alone is off unless the
\* program has yet to disable it; nor does a flush enable it again then.
OffInv(u, c) ==
  /\ tool[u].pc = 1 => st[c].enabled = 0
  /\ ~WillDisable(u, c) => st[c].enabled = 0 /\ Forgot(u, c)
ReadoutInv ==
  /\ fails \in Nat
  /\ fails = 0 => \A u \in User, c \in Chan : Readout(u) /\ Alone(u, c) => OffInv(u, c)

\* The call that disables an input.
LEMMA DisableCall ==
  ASSUME NEW c \in Chan
  PROVE  /\ StatusSet(c, 0).fn = "status_set" /\ StatusSet(c, 0).err = "none"
         /\ Len(StatusSet(c, 0).script) = 1 /\ ~Rejects(StatusSet(c, 0))
         /\ StatusSet(c, 0).script[1].attr = "enable" /\ StatusSet(c, 0).script[1].set
         /\ StatusSet(c, 0).script[1].chan = c /\ StatusSet(c, 0).script[1].val = 0
<1> PICK x : x = SetOf("enable", c, 0)
  OBVIOUS
<1>1. x.attr = "enable" /\ x.set /\ x.chan = c /\ x.val = 0
  BY DEF SetOf
<1>2. StatusSet(c, 0) = Call("status_set", <<x>>)
  BY DEF StatusSet
<1> PICK k : k = StatusSet(c, 0)
  OBVIOUS
<1>3. k.fn = "status_set" /\ k.err = "none" /\ k.script = <<x>>
  BY <1>2, CallFields
<1>4. Len(k.script) = 1 /\ k.script[1] = x
  BY <1>3
<1>5. ~Rejects(k)
  BY <1>3 DEF Rejects
<1> QED BY <1>1, <1>3, <1>4, <1>5

\* ... while it is under way.
LEMMA DisableNow ==
  ASSUME TypeInv, CallInv, NEW u \in User, NEW c \in Chan, AtDisable(u, c), call[u].fn # "none"
  PROVE  /\ call[u].fn = "status_set" /\ InCall(u) /\ ~Reading(u) /\ OnSysfs(u) /\ ~InLoop(u)
         /\ Now(u).attr = "enable" /\ Now(u).set /\ Now(u).chan = c /\ Now(u).val = 0
<1>1. ~Over(u) /\ Current(u) = StatusSet(c, 0) /\ call[u].at = 1 /\ call[u].err = "none"
  BY DEF AtDisable
<1>2. ~InLoop(u)
  BY <1>1, DisableCall DEF InLoop
<1>3. call[u].fn = "status_set" /\ call[u].script = StatusSet(c, 0).script
  BY <1>1, <1>2, DisableCall, ProcTypes DEF ProcInv, CallOf
<1>4. InCall(u) /\ Now(u) = StatusSet(c, 0).script[1]
  BY <1>1, <1>3, DisableCall DEF InCall, Now
<1>5. Now(u).attr = "enable" /\ Now(u).set /\ Now(u).chan = c /\ Now(u).val = 0
  BY <1>4, DisableCall
<1> QED BY <1>2, <1>3, <1>4, <1>5 DEF OnSysfs, Reading, ReadSteps

\* The steps of a flush.
LEMMA FlushNow ==
  ASSUME TypeInv, CallInv, NEW u \in User, NEW c \in Chan, Flushing(u, c)
  PROVE  /\ ~Over(u) /\ ~InLoop(u) /\ call[u].at \in 1 .. 4 /\ call[u].script = Flush(c).script
         /\ call[u].at = 1 => Now(u) = GetOf("enable", c)
         /\ call[u].at = 2 => Now(u) = SetOf("enable", c, 0)
         /\ call[u].at = 3 => Now(u) = Step("drain", c, 100)
         /\ call[u].at = 4 => Now(u) = SetOf("enable", c, 0)
         /\ Now(u).chan = c
<1>1. InCall(u) /\ call[u].fn = "flush" /\ call[u].script[1].chan = c
  BY DEF Flushing
<1>2. ~InLoop(u)
  BY <1>1, LoopNow
<1>3. ~Over(u) /\ call[u].fn = Current(u).fn /\ call[u].script = Current(u).script
  BY <1>1, <1>2, ProcTypes DEF ProcInv, CallOf
<1>4. Current(u) = Flush(Current(u).script[1].chan)
  BY <1>1, <1>3, CurrentCall
<1>5. Current(u) = Flush(c)
  BY <1>1, <1>3, <1>4
<1>6. PICK s : s = call[u].script
  OBVIOUS
<1>7. s = <<GetOf("enable", c), SetOf("enable", c, 0), Step("drain", c, 100), SetOf("enable", c, 0)>>
  BY <1>3, <1>5, <1>6, FlushCall
<1>8. Len(s) = 4 /\ s[1] = GetOf("enable", c) /\ s[2] = SetOf("enable", c, 0)
      /\ s[3] = Step("drain", c, 100) /\ s[4] = SetOf("enable", c, 0)
  BY <1>7
<1>9. call[u].at \in 1 .. 4
  BY <1>1, <1>6, <1>8, NowTypes
<1>10. \A i \in 1 .. 4 : s[i].chan = c
  BY <1>8 DEF GetOf, SetOf, Step
<1> QED BY <1>2, <1>3, <1>5, <1>6, <1>8, <1>9, <1>10 DEF Now

\* What is enabled by a program that is alone on an input is to be disabled.
LEMMA EnableIsAnnounced ==
  ASSUME TypeInv, CallInv, Accesses, NEW u \in User, NEW c \in Chan, Readout(u),
         Enable(u), Ch(u) = c, Val(u) # 0, Forgot(u, c)
  PROVE  Later(u, c) /\ tool[u].pc # 1
<1>1. req[u].at = "enable" /\ req[u].at \in EnableSteps /\ req[u].at # "idle"
  BY DEF Enable, At, EnableSteps
<1>2. Acc(u).attr = "enable" /\ Acc(u).set
  BY <1>1, SwitchIsUsed
<1>3. /\ InCall(u) /\ ~Over(u) /\ ~InLoop(u) /\ call[u].fn = Current(u).fn
      /\ call[u].script = Current(u).script /\ req[u].acc = NowSysfs(u)
      /\ Now(u).attr = "enable" /\ Now(u).set /\ Now(u).chan = c
      /\ (call[u].fn = "flush" /\ call[u].at = 4) \/ Val(u) = Now(u).val
  BY <1>1, <1>2, AccessIsNow
<1>4. call[u].at \in 1 .. Len(call[u].script) /\ Now(u) \in ScriptStep
  BY <1>3, NowTypes
<1>5. /\ tool[u].job \in DOMAIN Options /\ tool[u].pc \in 1 .. Len(Program(u))
      /\ Current(u).fn = "open" => Current(u) = Open
      /\ Current(u).fn = "flush" => Current(u) = Flush(Current(u).script[1].chan)
  BY <1>3, ProcTypes, CurrentCall
<1>6. EndsOff(Program(u)) /\ Program(u)[1] = Open
  BY <1>5, ReadoutEnds DEF Program, Readout, Job
<1>7. tool[u].pc # 1
  <2>1. Current(u) # Open
    BY <1>3, <1>4, OpenCall DEF Now
  <2> QED BY <1>6, <2>1 DEF Current
<1>8. ~(call[u].fn = "flush" /\ call[u].at = 4)
  <2> SUFFICES ASSUME call[u].fn = "flush", call[u].at = 4 PROVE FALSE
    OBVIOUS
  <2>1. PICK d : d = call[u].script[1].chan
    OBVIOUS
  <2>2. d \in Chan
    <3>1. call[u].script \in Seq(ScriptStep) /\ 1 \in 1 .. Len(call[u].script)
      BY <1>3, <1>4, NowTypes
    <3>2. PICK s \in Seq(ScriptStep) : s = call[u].script
      BY <3>1
    <3>3. s[1] \in ScriptStep
      BY <3>1, <3>2
    <3> QED BY <2>1, <3>2, <3>3 DEF ScriptStep
  <2>3. Flushing(u, d)
    BY <1>3, <2>1 DEF Flushing
  <2>4. d = c
    BY <1>3, <2>2, <2>3, FlushNow
  <2>5. Restore(u) = 0
    BY <2>3, <2>4 DEF Forgot
  <2>6. NowSysfs(u).val = Restore(u)
    BY <1>4 DEF NowSysfs, ScriptStep
  <2> QED BY <1>3, <2>5, <2>6 DEF Val
<1>9. TurnsOn(Current(u), c)
  <2>1. Now(u).val # 0 /\ Now(u) = Current(u).script[call[u].at]
    BY <1>3, <1>8 DEF Now
  <2> QED BY <1>3, <1>4, <2>1 DEF TurnsOn
<1>10. Later(u, c)
  BY <1>5, <1>6, <1>9 DEF EndsOff, Current, Later
<1> QED BY <1>7, <1>10

\* An access of the program begins, or goes on in the driver.
LEMMA OffInDriver ==
  ASSUME ToolInv, Accesses, NEW u \in User, NEW c \in Chan, Readout(u), Alone(u, c), OffInv(u, c),
         SysfsCall(u) \/ AttrStep(u) \/ Abort(u), UNCHANGED <<call, tool>>
  PROVE  OffInv(u, c)'
<1>0. /\ TypeInv /\ CallInv /\ req \in [User -> Req] /\ req[u] \in Req /\ st \in [Chan -> State]
  BY DEF ToolInv, TypeInv
<1>1. /\ Later(u, c)' = Later(u, c) /\ tool'[u].pc = tool[u].pc /\ call'[u] = call[u]
      /\ Over(u)' = Over(u) /\ Current(u)' = Current(u) /\ Now(u)' = Now(u)
      /\ Flushing(u, c)' = Flushing(u, c) /\ Restore(u)' = Restore(u)
  BY DEF Later, Program, Over, Current, Now, Flushing, InCall, Restore
<1>2. ASSUME SysfsCall(u) PROVE OffInv(u, c)'
  <2>1. OnSysfs(u) /\ Access(u, NowSysfs(u)) /\ req[u].at = "idle"
    BY <1>2 DEF SysfsCall, Access, At
  <2>2. UNCHANGED st
    BY <2>1 DEF Access
  <2>3. req'[u].at = First(NowSysfs(u))
    <3> DEFINE r == [IdleReq EXCEPT !.at = First(NowSysfs(u)), !.acc = NowSysfs(u)]
    <3>1. r.at = First(NowSysfs(u))
      BY DEF IdleReq
    <3>2. req' = [req EXCEPT ![u] = r]
      BY <2>1 DEF Access
    <3> HIDE DEF r
    <3> QED BY <1>0, <3>1, <3>2
  <2>4. req'[u].at # "done"
    <3>1. NowSysfs(u) \in Attribute
      BY <1>0, <2>1, AccessIsAttribute
    <3>2. First(NowSysfs(u)) \in FirstLabels
      BY <3>1, FirstSays
    <3> QED BY <2>3, <3>2 DEF FirstLabels
  <2>5. AtDisable(u, c) => AtDisable(u, c)'
    <3> SUFFICES ASSUME AtDisable(u, c) PROVE AtDisable(u, c)'
      OBVIOUS
    <3>1. call[u].fn # "none"
      BY <2>1 DEF OnSysfs, InCall
    <3>2. call[u].fn = "status_set" /\ Now(u).attr = "enable" /\ Now(u).set
      BY <1>0, <3>1, DisableNow
    <3>3. NowSysfs(u) = Now(u)
      BY <3>2 DEF NowSysfs
    <3>4. First(NowSysfs(u)) = "enable"
      BY <3>2, <3>3 DEF First
    <3> QED BY <1>1, <2>3, <3>1, <3>4 DEF AtDisable
  <2>6. Forgot(u, c) => Forgot(u, c)'
    BY <1>1, <2>4 DEF Forgot
  <2> QED BY <1>1, <2>2, <2>5, <2>6 DEF OffInv, WillDisable
<1>3. ASSUME AttrStep(u) \/ Abort(u) PROVE OffInv(u, c)'
  <2>0. req[u].at # "idle" /\ SysNext
    BY <1>0, <1>3, DriverMoves DEF SysNext
  <2>1. req[u].at = "enable" => Enable(u)
    BY <1>3 DEF AttrStep, Abort, At, Show, ShowInvalid, Store, EnRead, EnWrite,
       ReadInputEnable, TermRead, TermWrite, TermFlag, OffsetRejected, OffsetStore, OffSeconds,
       OffCoarse, OffFrac, OffsetWrite, Seconds, TaiRead, TaiOff, TaiStart, TaiLoad, TaiOn,
       WrRegister, WrVariable, WrVcxo, WrAsk
  <2>2. ASSUME Forgot(u, c), st'[c].enabled # st[c].enabled
        PROVE  /\ st'[c].enabled # 0 => Later(u, c)
               /\ st'[c].enabled # 0 => tool[u].pc # 1
    <3>1. PICK w \in User : Enable(w) /\ Ch(w) = c /\ st'[c].enabled = Val(w)
      BY <1>0, <2>0, <2>2, FlagChanges
    <3>2. w = u
      <4>1. req[w].at \in EnableSteps
        BY <3>1 DEF Enable, At, EnableSteps
      <4> QED BY <1>0, <3>1, <4>1, AloneSwitches
    <3>3. st'[c].enabled # 0 => Val(u) # 0
      BY <3>1, <3>2
    <3> QED BY <1>0, <2>2, <3>1, <3>2, <3>3, EnableIsAnnounced
  <2>3. ASSUME tool[u].pc = 1, st'[c].enabled # st[c].enabled PROVE FALSE
    <3>1. PICK w \in User : Enable(w) /\ Ch(w) = c
      BY <1>0, <2>0, <2>3, FlagChanges
    <3>2. req[w].at \in EnableSteps /\ req[w].at # "idle"
      BY <3>1 DEF Enable, At, EnableSteps
    <3>3. w = u
      BY <1>0, <3>1, <3>2, AloneSwitches
    <3>4. Acc(u).attr = "enable" /\ Now(u).attr = "enable" /\ InCall(u) /\ ~Over(u)
          /\ call[u].script = Current(u).script
      BY <1>0, <3>2, <3>3, SwitchIsUsed, AccessIsNow
    <3>5. call[u].at \in 1 .. Len(Current(u).script) /\ Now(u) = Current(u).script[call[u].at]
      BY <1>0, <3>4, NowTypes DEF Now
    <3>6. Current(u) = Open
      <4>1. Program(u)[1] = Open
        BY <1>0, ProcTypes, ReadoutEnds DEF Program, Readout, Job
      <4> QED BY <2>3, <4>1 DEF Current
    <3> QED BY <3>4, <3>5, <3>6, OpenCall
  <2>4. ASSUME AtDisable(u, c), ~AtDisable(u, c)' PROVE st'[c].enabled = 0 /\ ~Flushing(u, c)
    <3>1. InCall(u) /\ call[u].fn # "none"
      BY <1>0, <2>0, AccessIsNow DEF InCall
    <3>2. req[u].at = "enable"
      BY <2>0, <2>4, <3>1 DEF AtDisable
    <3>3. Enable(u)
      BY <2>1, <3>2
    <3>4. call[u].fn = "status_set" /\ Now(u).chan = c /\ Now(u).val = 0
      BY <1>0, <2>4, <3>1, DisableNow
    <3>5. Ch(u) = c /\ Val(u) = 0
      BY <1>0, <2>0, <3>4, AccessIsNow
    <3>6. st' = [st EXCEPT ![c].enabled = 0]
      BY <3>3, <3>5 DEF Enable
    <3>7. st'[c].enabled = 0
      BY <1>0, <3>6 DEF State
    <3> QED BY <3>4, <3>7 DEF Flushing
  <2>5. ASSUME Forgot(u, c), st[c].enabled = 0 PROVE Forgot(u, c)'
    <3> SUFFICES ASSUME Flushing(u, c), call[u].at = 1, req'[u].at = "done"
                 PROVE  req'[u].ret = 0
      BY <1>1, <2>5 DEF Forgot
    <3>1. Now(u) = GetOf("enable", c)
      BY <1>0, FlushNow
    <3>2. ~Now(u).set /\ Now(u).attr = "enable" /\ Now(u).chan = c
      BY <3>1 DEF GetOf
    <3>3. ~Acc(u).set /\ Acc(u).attr = "enable" /\ Acc(u).chan = c
      BY <1>0, <2>0, <3>2, AccessIsNow DEF Ch, Acc
    <3>4. req[u].at \in {"done", "show"}
      BY <2>0, <3>3 DEF Accesses, AccessOf, Acc
    <3>5. Show(u)
      BY <1>3, <3>3, <3>4 DEF AttrStep, Abort, At, Show, ShowInvalid, Store, Enable, EnRead, EnWrite,
         ReadInputEnable, TermRead, TermWrite, TermFlag, OffsetRejected, OffsetStore, OffSeconds,
         OffCoarse, OffFrac, OffsetWrite, Seconds, TaiRead, TaiOff, TaiStart, TaiLoad, TaiOn,
         WrRegister, WrVariable, WrVcxo, WrAsk
    <3>6. Shown(Acc(u)) = 0
      BY <2>5, <3>3 DEF Shown
    <3>7. Done(u, "none", 0)
      BY <3>5, <3>6 DEF Show
    <3> DEFINE r == [req[u] EXCEPT !.at = "done", !.ien = NoIen, !.err = "none", !.ret = 0]
    <3>8. req' = [req EXCEPT ![u] = r]
      BY <3>7 DEF Done
    <3>9. r.ret = 0
      BY <1>0 DEF Req
    <3> HIDE DEF r
    <3> QED BY <1>0, <3>8, <3>9
  <2>6. tool[u].pc = 1 => st'[c].enabled = 0
    BY <2>3 DEF OffInv
  <2>7. ASSUME ~WillDisable(u, c)' PROVE st'[c].enabled = 0 /\ Forgot(u, c)'
    <3>1. CASE AtDisable(u, c)
      BY <1>1, <2>4, <2>7, <3>1 DEF WillDisable, Forgot
    <3>2. CASE ~AtDisable(u, c)
      <4>1. ~Later(u, c) /\ st[c].enabled = 0 /\ Forgot(u, c)
        BY <1>1, <2>7, <3>2 DEF WillDisable, OffInv
      <4> QED BY <2>2, <2>5, <4>1
    <3> QED BY <3>1, <3>2
  <2> QED BY <1>1, <2>6, <2>7 DEF OffInv
<1> QED BY <1>2, <1>3

\* A step of the call ends.
LEMMA OffInCall ==
  ASSUME ToolInv, Accesses, NEW u \in User, NEW c \in Chan, Readout(u), OffInv(u, c),
         InCall(u), ~AtDisable(u, c), tool'[u].pc = tool[u].pc, tool'[u].job = tool[u].job,
         UNCHANGED st, req'[u].at = "idle",
         call'[u].fn = call[u].fn, call'[u].script = call[u].script,
         \/ call'[u].at = call[u].at /\ call'[u].res = call[u].res
         \/ call'[u].err # "none"
         \/ /\ call'[u].at = call[u].at + 1
            /\ \E v \in Int : /\ call'[u].res = Append(call[u].res, v)
                              /\ req[u].at = "done" => v = req[u].ret
                              /\ call[u].at = 1 /\ Flushing(u, c) => req[u].at = "done"
  PROVE  OffInv(u, c)'
<1>0. CallInv /\ TypeInv /\ call[u] \in CallState /\ Shape(u)
  BY ProcTypes DEF ToolInv, ProcInv
<1>1. /\ Later(u, c)' = Later(u, c) /\ Over(u)' = Over(u) /\ Current(u)' = Current(u)
  BY DEF Later, Program, Over, Current
<1>2. ASSUME Forgot(u, c) PROVE Forgot(u, c)'
  <2> SUFFICES ASSUME Flushing(u, c)' PROVE call'[u].at >= 2 => Restore(u)' = 0
    BY DEF Forgot
  <2>1. Flushing(u, c) /\ call'[u].err = "none"
    BY DEF Flushing, InCall
  <2>2. CASE call'[u].at = call[u].at /\ call'[u].res = call[u].res
    BY <1>2, <2>1, <2>2 DEF Forgot, Restore
  <2>3. CASE call'[u].at = call[u].at + 1
    <3>1. PICK v \in Int : /\ call'[u].res = Append(call[u].res, v)
                           /\ req[u].at = "done" => v = req[u].ret
                           /\ call[u].at = 1 => req[u].at = "done"
      <4>1. call[u].at \in Nat
        BY <1>0 DEF CallState
      <4> QED BY <2>1, <2>3, <4>1 DEF Flushing
    <3>2. PICK s \in Seq(Int) : s = call[u].res
      BY <1>0 DEF CallState
    <3>3. call[u].at \in Nat /\ call[u].at >= 1 /\ Len(s) = call[u].at - 1
      BY <1>0, <2>1, <3>2, FlushNow DEF Shape
    <3>4. CASE call[u].at = 1
      <4>1. v = 0
        BY <1>2, <2>1, <3>1, <3>4 DEF Forgot
      <4>2. Append(s, v)[1] = v
        BY <3>2, <3>3, <3>4
      <4> QED BY <3>1, <3>2, <4>1, <4>2 DEF Restore
    <3>5. CASE call[u].at # 1
      <4>1. call[u].at >= 2 /\ Len(s) >= 1
        BY <3>3, <3>5
      <4>2. Append(s, v)[1] = s[1]
        BY <3>2, <4>1
      <4>3. s[1] = 0
        BY <1>2, <2>1, <3>2, <4>1 DEF Forgot, Restore
      <4> QED BY <3>1, <3>2, <4>2, <4>3 DEF Restore
    <3> QED BY <3>4, <3>5
  <2> QED BY <2>1, <2>2, <2>3
<1> QED BY <1>1, <1>2 DEF OffInv, WillDisable

\* Between two calls of the program.
LEMMA OffBetween ==
  ASSUME ToolInv, NEW u \in User, NEW c \in Chan, OffInv(u, c), ~AtDisable(u, c),
         UNCHANGED st, call'[u].fn # "flush", tool'[u].job = tool[u].job,
         \/ tool'[u].pc = tool[u].pc
         \/ ~Over(u) /\ tool'[u].pc = tool[u].pc + 1 /\ call'[u].fn = "none"
  PROVE  OffInv(u, c)'
<1>0. /\ tool[u].pc \in 1 .. Len(Program(u)) + 1 /\ Program(u)' = Program(u)
      /\ tool[u].job \in DOMAIN Options
  BY ProcTypes DEF ToolInv, ProcInv, Shape, Program
<1> PICK p : p = Program(u)
  OBVIOUS
<1>1. Len(p) \in Nat
  <2>1. Program(u) \in Seq(InnerCall \union {Open})
    BY ProgramIsSeq DEF ToolInv
  <2> HIDE DEF InnerCall
  <2> QED BY <2>1
<1> PICK i \in Nat : i = tool[u].pc
  BY <1>0, <1>1
<1>2. Forgot(u, c)' /\ ~Flushing(u, c)'
  BY DEF Forgot, Flushing
<1>3. tool'[u].pc = 1 => st'[c].enabled = 0
  BY <1>0 DEF OffInv
<1>4. ASSUME ~WillDisable(u, c)' PROVE st'[c].enabled = 0
  <2>1. CASE tool'[u].pc = tool[u].pc
    <3>1. ~Later(u, c)
      BY <1>0, <1>4, <2>1 DEF WillDisable, Later
    <3> QED BY <3>1 DEF WillDisable, OffInv
  <2>2. CASE ~Over(u) /\ tool'[u].pc = tool[u].pc + 1 /\ call'[u].fn = "none"
    <3>1. ASSUME NEW j \in i + 1 .. Len(p), p[j] = StatusSet(c, 0) PROVE FALSE
      <4>1. CASE j = i + 1
        <5>1. ~(i + 1 > Len(p))
          BY <1>1, <4>1
        <5>2. AtDisable(u, c)'
          BY <1>0, <2>2, <3>1, <4>1, <5>1 DEF AtDisable, Over, Current
        <5> QED BY <1>4, <5>2 DEF WillDisable
      <4>2. CASE j # i + 1
        <5>1. j \in (i + 1) + 1 .. Len(p)
          BY <1>1, <4>2
        <5>2. Later(u, c)'
          BY <1>0, <2>2, <3>1, <5>1 DEF Later
        <5> QED BY <1>4, <5>2 DEF WillDisable
      <4> QED BY <4>1, <4>2
    <3>2. ~Later(u, c)
      BY <3>1 DEF Later
    <3> QED BY <3>2 DEF WillDisable, OffInv
  <2> QED BY <2>1, <2>2
<1> QED BY <1>2, <1>3, <1>4 DEF OffInv

\* The call that disables an input does nothing but an access to an attribute.
LEMMA NotAtDisable ==
  ASSUME TypeInv, CallInv, NEW u \in User, NEW c \in Chan,
         \/ Ended(u)
         \/ InLoop(u)
         \/ Reading(u)
         \/ InCall(u) /\ Now(u).attr = "descriptors"
         \/ InCall(u) /\ req[u].at = "done"
  PROVE  ~AtDisable(u, c)
<1> SUFFICES ASSUME AtDisable(u, c) PROVE FALSE
  OBVIOUS
<1>1. ~InLoop(u)
  BY DisableCall DEF AtDisable, InLoop
<1>2. call[u].fn # "none"
  BY <1>1 DEF Ended, Reading, InCall
<1>3. InCall(u) /\ ~Reading(u) /\ Now(u).attr = "enable"
  BY <1>2, DisableNow
<1>4. req[u].at \in {"idle", "enable"}
  BY <1>2 DEF AtDisable
<1> QED BY <1>1, <1>3, <1>4 DEF Ended

\* A call stays where it is, ends with an error, or takes its next step.
Proceeds(u) ==
  /\ call'[u].fn = call[u].fn /\ call'[u].script = call[u].script
  /\ \/ call'[u].at = call[u].at /\ call'[u].res = call[u].res
     \/ call'[u].err # "none"
     \/ \E v \in Int : call'[u].at = call[u].at + 1 /\ call'[u].res = Append(call[u].res, v)

\* A step of a call that is not in the driver.
LEMMA OffWhenRead ==
  ASSUME ToolInv, Accesses, NEW u \in User, NEW c \in Chan, Readout(u), OffInv(u, c),
         \/ Reading(u)
         \/ InCall(u) /\ Now(u).attr = "descriptors",
         tool'[u].pc = tool[u].pc, tool'[u].job = tool[u].job, UNCHANGED sysVars,
         Proceeds(u)
  PROVE  OffInv(u, c)'
<1>0. TypeInv /\ CallInv
  BY DEF ToolInv
<1>1. InCall(u) /\ ~OnSysfs(u) /\ ~AtDisable(u, c)
  BY <1>0, NotAtDisable DEF Reading, OnSysfs
<1>2. req[u].at = "idle" /\ req'[u].at = "idle" /\ UNCHANGED st
  BY <1>0, <1>1, NotOnSysfs DEF sysVars
<1>3. call[u].at = 1 /\ Flushing(u, c) => FALSE
  BY <1>0, <1>1, FlushNow DEF OnSysfs, GetOf, Reading, ReadSteps
<1> QED BY <1>1, <1>2, <1>3, OffInCall DEF Proceeds

\* What a read does to the call.
LEMMA ReadProceeds ==
  ASSUME TypeInv, CallInv, DataInv, NEW u \in User, Reading(u),
         \/ ReadOne(u) \/ ReadReturns(u)
         \/ ReadReturnsError(u, "EAGAIN") \/ ReadReturnsError(u, "EIO")
  PROVE  Proceeds(u)
<1>0. call \in [User -> CallState] /\ call[u] \in CallState
  BY DEF CallInv
<1>1. Len(call[u].acc \o Buf(u)) \in Int
  BY ReadTypes
<1>2. CASE ReadOne(u)
  BY <1>0, <1>2 DEF ReadOne, CallState, Proceeds
<1>3. CASE ReadReturns(u)
  <2> PICK all : all = call[u].acc \o Buf(u)
    OBVIOUS
  <2>1. \/ call' = [call EXCEPT ![u].buf = <<>>]
        \/ call' = [call EXCEPT ![u].acc = all, ![u].buf = <<>>]
        \/ call' = [call EXCEPT ![u].acc = <<>>, ![u].buf = <<>>,
                                ![u].at = @ + 1, ![u].res = Append(@, Len(all))]
    BY <1>3 DEF ReadReturns
  <2>2. CASE call' = [call EXCEPT ![u].buf = <<>>]
    BY <1>0, <2>2 DEF CallState, Proceeds
  <2>3. CASE call' = [call EXCEPT ![u].acc = all, ![u].buf = <<>>]
    BY <1>0, <2>3 DEF CallState, Proceeds
  <2>4. CASE call' = [call EXCEPT ![u].acc = <<>>, ![u].buf = <<>>,
                                  ![u].at = @ + 1, ![u].res = Append(@, Len(all))]
    <3>1. /\ call'[u].fn = call[u].fn /\ call'[u].script = call[u].script
          /\ call'[u].at = call[u].at + 1 /\ call'[u].res = Append(call[u].res, Len(all))
      BY <1>0, <2>4 DEF CallState
    <3> QED BY <1>1, <3>1 DEF Proceeds
  <2> QED BY <2>1, <2>2, <2>3, <2>4
<1>4. CASE ReadReturnsError(u, "EAGAIN") \/ ReadReturnsError(u, "EIO")
  <2>0. PICK e \in {"EAGAIN", "EIO"} : ReadReturnsError(u, e)
    BY <1>4
  <2>1. \/ call' = [call EXCEPT ![u].err = e, ![u].acc = <<>>, ![u].buf = <<>>]
        \/ call' = [call EXCEPT ![u].at = @ + 1, ![u].res = Append(@, 0)]
    BY <2>0 DEF ReadReturnsError, NextStep
  <2>2. CASE call' = [call EXCEPT ![u].err = e, ![u].acc = <<>>, ![u].buf = <<>>]
    BY <1>0, <2>2 DEF CallState, Proceeds
  <2>3. CASE call' = [call EXCEPT ![u].at = @ + 1, ![u].res = Append(@, 0)]
    <3>1. /\ call'[u].fn = call[u].fn /\ call'[u].script = call[u].script
          /\ call'[u].at = call[u].at + 1 /\ call'[u].res = Append(call[u].res, 0)
      BY <1>0, <2>3 DEF CallState
    <3> QED BY <3>1 DEF Proceeds
  <2> QED BY <2>1, <2>2, <2>3
<1> QED BY <1>2, <1>3, <1>4

\* A step of a library call.
LEMMA OffInCallStep ==
  ASSUME ToolInv, Accesses, NEW u \in User, NEW c \in Chan, Readout(u), Alone(u, c), OffInv(u, c),
         CallStep(u), UNCHANGED tool
  PROVE  OffInv(u, c)'
<1>0. /\ TypeInv /\ CallInv /\ DataInv /\ req \in [User -> Req] /\ req[u] \in Req
      /\ call \in [User -> CallState] /\ call[u] \in CallState
  BY DEF ToolInv, TypeInv, CallInv
<1>1. CASE SysfsCall(u) \/ AttrOnly(u) \/ AbortData(u) \/ NewBuffer(u)
  <2>1. (SysfsCall(u) \/ AttrStep(u) \/ Abort(u)) /\ UNCHANGED call
    BY <1>1 DEF SysfsCall, AttrOnly, AbortData, NewBuffer, AttrStep
  <2> QED BY <2>1, OffInDriver
<1>2. CASE SysfsReturn(u)
  <2>1. InCall(u) /\ req[u].at = "done" /\ UNCHANGED st
    BY <1>2 DEF SysfsReturn, Return, At
  <2>2. req'[u] = IdleReq /\ req'[u].at = "idle"
    BY <1>0, <1>2 DEF SysfsReturn, Return, IdleReq
  <2>3. ~AtDisable(u, c)
    BY <1>0, <2>1, NotAtDisable
  <2>4. \/ \E e : e # "none" /\ Fail(u, e)
        \/ NextStep(u, req[u].ret)
    BY <1>2 DEF SysfsReturn
  <2>5. call'[u].fn = call[u].fn /\ call'[u].script = call[u].script
    BY <1>0, <2>4 DEF Fail, NextStep, CallState
  <2>6. req[u].ret \in Int
    BY <1>0 DEF Req
  <2>7. \/ call'[u].err # "none"
        \/ /\ call'[u].at = call[u].at + 1 /\ call'[u].res = Append(call[u].res, req[u].ret)
    BY <1>0, <2>4 DEF Fail, NextStep, CallState
  <2> QED BY <2>1, <2>2, <2>3, <2>5, <2>6, <2>7, OffInCall
<1>3. CASE OpenChannel(u)
  <2>1. InCall(u) /\ Now(u).attr = "descriptors" /\ NextStep(u, 0) /\ UNCHANGED sysVars
    BY <1>3 DEF OpenChannel
  <2>2. /\ call'[u].fn = call[u].fn /\ call'[u].script = call[u].script
        /\ call'[u].at = call[u].at + 1 /\ call'[u].res = Append(call[u].res, 0)
    BY <1>0, <2>1 DEF NextStep, CallState
  <2>3. Proceeds(u)
    BY <2>2 DEF Proceeds
  <2> QED BY <2>1, <2>3, OffWhenRead
<1>4. CASE ReadOne(u) \/ ReadEnds(u)
  <2>1. Reading(u) /\ UNCHANGED sysVars
    BY <1>4 DEF ReadOne, ReadEnds
  <2>2. ReadOne(u) \/ ReadReturns(u) \/ ReadReturnsError(u, "EAGAIN")
    BY <1>4 DEF ReadEnds
  <2>3. Proceeds(u)
    BY <1>0, <2>1, <2>2, ReadProceeds
  <2> QED BY <2>1, <2>3, OffWhenRead
<1> QED BY <1>1, <1>2, <1>3, <1>4 DEF CallStep

\* A call begins.
LEMMA OffAtStart ==
  ASSUME ToolInv, NEW u \in User, NEW c \in Chan, OffInv(u, c), Starts(u)
  PROVE  OffInv(u, c)'
<1>0. TypeInv /\ CallInv /\ call \in [User -> CallState]
  BY DEF ToolInv, CallInv
<1> PICK k : k = Current(u)
  OBVIOUS
<1>1. ~Over(u) /\ Begin(u, k) /\ UNCHANGED tool
  BY DEF Starts
<1>2. call[u].fn = "none" /\ UNCHANGED sysVars
  BY <1>1 DEF Begin
<1>3. req[u].at = "idle" /\ req'[u] = req[u] /\ UNCHANGED st
  BY <1>0, <1>2, NotOnSysfs DEF OnSysfs, InCall, sysVars
<1>4. k \in LibCall /\ k.at = 1 /\ k.err = "none"
  BY <1>0, <1>1, CurrentCall DEF LibCall
<1>5. call'[u] = IF Rejects(k) THEN [k EXCEPT !.err = "EINVAL"] ELSE k
  BY <1>0, <1>1 DEF Begin
<1>6. call'[u].at = 1
  BY <1>4, <1>5 DEF LibCall
<1>7. /\ Later(u, c)' = Later(u, c) /\ Over(u)' = Over(u) /\ Current(u)' = Current(u)
      /\ tool'[u] = tool[u]
  BY <1>1 DEF Later, Program, Over, Current
<1>8. AtDisable(u, c) => AtDisable(u, c)'
  <2> SUFFICES ASSUME AtDisable(u, c) PROVE AtDisable(u, c)'
    OBVIOUS
  <2>1. k = StatusSet(c, 0)
    BY DEF AtDisable
  <2>2. call'[u] = k
    BY <1>5, <2>1, DisableCall
  <2> QED BY <1>1, <1>3, <1>4, <1>7, <2>1, <2>2 DEF AtDisable
<1>9. Forgot(u, c)'
  BY <1>3, <1>6 DEF Forgot
<1> QED BY <1>3, <1>7, <1>8, <1>9 DEF OffInv, WillDisable

\* A call returns to the program.
LEMMA OffAtReturn ==
  ASSUME ToolInv, NEW u \in User, NEW c \in Chan, Readout(u), OffInv(u, c), Returns(u),
         tool'[u].job = tool[u].job
  PROVE  OffInv(u, c)'
<1>0. /\ TypeInv /\ CallInv /\ call \in [User -> CallState] /\ tool \in [User -> ToolState]
      /\ tool[u].job \in DOMAIN Options /\ tool[u].pc \in 1 .. Len(Program(u)) + 1
      /\ tool[u].pc \in Nat
  BY ProcTypes DEF ToolInv, CallInv, ProcInv, Shape, ToolState
<1>1. ~Over(u) /\ ~InLoop(u) /\ Ended(u) /\ call' = [call EXCEPT ![u] = NoCall] /\ UNCHANGED st
  BY DEF Returns, sysVars
<1>2. ~AtDisable(u, c)
  BY <1>0, <1>1, NotAtDisable
<1>3. call'[u].fn = "none"
  BY <1>0, <1>1, NoCallTypes
<1>4. CASE UNCHANGED tool
  BY <1>1, <1>2, <1>3, <1>4, OffBetween
<1>5. CASE Set(u, [tool[u] EXCEPT !.pc = @ + 1])
  <2>1. tool'[u].pc = tool[u].pc + 1
    BY <1>0, <1>5 DEF Set, ToolState
  <2> QED BY <1>1, <1>2, <1>3, <2>1, OffBetween
<1>6. ASSUME Exits(u),
             \/ call[u].err # "none" /\ Fatal(u, call[u])
             \/ Aborts(u, call[u])
             \/ tool[u].pc = Len(Program(u))
      PROVE  OffInv(u, c)'
  <2>1. st[c].enabled = 0
    <3>1. CASE Fatal(u, call[u])
      <4>1. call[u].fn = "open"
        BY <3>1 DEF Fatal, Readout
      <4>2. tool[u].pc = 1
        BY <1>0, <4>1, OpenIsFirst
      <4> QED BY <4>2 DEF OffInv
    <3>2. CASE Aborts(u, call[u])
      BY <3>2 DEF Aborts, Readout
    <3>3. CASE tool[u].pc = Len(Program(u))
      <4>1. ~Later(u, c)
        BY <1>0, <3>3 DEF Later
      <4> QED BY <1>2, <4>1 DEF OffInv, WillDisable
    <3> QED BY <1>6, <3>1, <3>2, <3>3
  <2>2. ~Flushing(u, c)'
    BY <1>3 DEF Flushing
  <2>3. Forgot(u, c)'
    BY <2>2 DEF Forgot
  <2> QED BY <1>1, <2>1, <2>3 DEF OffInv
<1> QED BY <1>4, <1>5, <1>6 DEF Returns

\* The program goes on in its readout loop.
LEMMA OffInLoop ==
  ASSUME ToolInv, NEW u \in User, NEW c \in Chan, OffInv(u, c),
         LoopEnds(u) \/ Poll(u) \/ ReadReady(u) \/ LoopReturns(u), tool'[u].job = tool[u].job
  PROVE  OffInv(u, c)'
<1>0. /\ TypeInv /\ CallInv /\ call \in [User -> CallState] /\ tool \in [User -> ToolState]
      /\ tool[u] \in ToolState
  BY DEF ToolInv, CallInv
<1>1. InLoop(u) /\ ~Over(u) /\ UNCHANGED st
  BY DEF LoopEnds, Poll, ReadReady, LoopReturns, libVars, sysVars, InLoop, Begin
<1>2. ~AtDisable(u, c)
  BY <1>0, <1>1, NotAtDisable
<1>3. CASE LoopEnds(u)
  <2>1. call'[u].fn = "none" /\ tool'[u].pc = tool[u].pc + 1
    BY <1>0, <1>3 DEF LoopEnds, Set, libVars, ToolState
  <2> QED BY <1>1, <1>2, <2>1, OffBetween
<1>4. CASE Poll(u)
  <2>1. call'[u].fn = "none" /\ tool'[u].pc = tool[u].pc
    BY <1>0, <1>4 DEF Poll, Set, libVars, ToolState
  <2> QED BY <1>1, <1>2, <2>1, OffBetween
<1>5. CASE ReadReady(u)
  <2>1. PICK d, n : /\ Begin(u, IF Job(u).nblock THEN ReadNonBlock(d, n) ELSE Read(d, n))
                    /\ Set(u, [tool[u] EXCEPT !.ready = @ \ {d}])
    BY <1>5 DEF ReadReady
  <2>2. tool'[u].pc = tool[u].pc
    BY <1>0, <2>1 DEF Set, ToolState
  <2> PICK k : k = IF Job(u).nblock THEN ReadNonBlock(d, n) ELSE Read(d, n)
    OBVIOUS
  <2>3. k.fn = "read"
    BY DEF ReadNonBlock, Read, Call
  <2>4. call'[u] = IF Rejects(k) THEN [k EXCEPT !.err = "EINVAL"] ELSE k
    BY <1>0, <2>1 DEF Begin
  <2>5. ~Rejects(k)
    BY <2>3 DEF Rejects
  <2>6. call'[u].fn = "read"
    BY <2>3, <2>4, <2>5
  <2> QED BY <1>1, <1>2, <2>2, <2>6, OffBetween
<1>6. CASE LoopReturns(u)
  <2>1. call'[u].fn = "none"
    BY <1>0, <1>6, NoCallTypes DEF LoopReturns
  <2>2. tool'[u].pc = tool[u].pc \/ tool'[u].pc = tool[u].pc + 1
    <3> DEFINE k == call[u]
               t == tool[u]
               d == Head(k.script).chan
               n == IF k.err # "none" THEN -1 ELSE k.res[1]
               s == SubSeq(got[u][d], Len(got[u][d]) - n + 1, Len(got[u][d]))
               missing == Missing(t.prev[d], s)
               t1 == [t EXCEPT !.pc = @ + 1, !.ready = {}]
               t2 == [t EXCEPT !.n = @ + n]
               t3 == [t EXCEPT !.n = @ + n, !.prev[d] = Last(s),
                               !.missed[d] = @ \union missing,
                               !.stop = @ \/ (Job(u).strict /\ missing # {})]
    <3>1. Set(u, t1) \/ Set(u, t2) \/ Set(u, t3)
      BY <1>6 DEF LoopReturns
    <3>2. t1.pc = t.pc + 1 /\ t2.pc = t.pc
      BY <1>0 DEF ToolState
    <3>3. t3.pc = t.pc
      BY <1>0 DEF ToolState
    <3> HIDE DEF t1, t2, t3
    <3>4. tool'[u] = t1 \/ tool'[u] = t2 \/ tool'[u] = t3
      BY <1>0, <3>1 DEF Set
    <3> QED BY <3>2, <3>3, <3>4
  <2> QED BY <1>1, <1>2, <2>1, <2>2, OffBetween
<1> QED BY <1>3, <1>4, <1>5, <1>6

\* A signal.
LEMMA OffAtSignal ==
  ASSUME ToolInv, Accesses, NEW u \in User, NEW c \in Chan, Readout(u), OffInv(u, c), Signal(u)
  PROVE  OffInv(u, c)'
<1>0. /\ TypeInv /\ CallInv /\ DataInv /\ call \in [User -> CallState]
      /\ tool \in [User -> ToolState] /\ tool[u] \in ToolState
  BY DEF ToolInv, CallInv
<1>1. /\ tool' = [tool EXCEPT ![u] = [tool[u] EXCEPT !.stop = TRUE]] /\ UNCHANGED sysVars
      /\ UNCHANGED call \/ (Reading(u) /\ ReadReturnsError(u, "EIO"))
  BY DEF Signal, Set, Waiting
<1>2. tool'[u].pc = tool[u].pc /\ tool'[u].job = tool[u].job
  BY <1>0, <1>1 DEF ToolState
<1>3. CASE UNCHANGED call
  <2>1. /\ Later(u, c)' = Later(u, c) /\ Over(u)' = Over(u) /\ Current(u)' = Current(u)
        /\ Flushing(u, c)' = Flushing(u, c) /\ Restore(u)' = Restore(u)
        /\ UNCHANGED st /\ UNCHANGED req
    BY <1>1, <1>2, <1>3 DEF Later, Program, Over, Current, Flushing, InCall, Restore, sysVars
  <2> QED BY <1>2, <1>3, <2>1 DEF OffInv, WillDisable, AtDisable, Forgot
<1>4. CASE Reading(u) /\ ReadReturnsError(u, "EIO")
  <2>1. Proceeds(u)
    BY <1>0, <1>4, ReadProceeds
  <2> QED BY <1>1, <1>2, <1>4, <2>1, OffWhenRead
<1> QED BY <1>1, <1>3, <1>4

\* A program keeps its inputs off, or announces that it will.
LEMMA ReadoutKeeps ==
  ASSUME ToolInv, Accesses, ReadoutInv, [Next]_vars
  PROVE  ReadoutInv'
<1>1. fails' \in Nat
  BY FailsGrow DEF ReadoutInv
<1>2. ASSUME fails' = 0, NEW u \in User, NEW c \in Chan, Readout(u)', Alone(u, c)'
      PROVE  OffInv(u, c)'
  <2>1. tool'[u].job = tool[u].job
    BY ToolMoves
  <2>2. Readout(u) /\ Alone(u, c)
    BY <1>2, <2>1, AloneStays DEF Readout, Job
  <2>3. fails = 0 /\ ~CallFails(u)
    BY <1>2, FailsGrow DEF ReadoutInv
  <2>4. OffInv(u, c)
    BY <2>2, <2>3 DEF ReadoutInv
  <2>5. CASE /\ call'[u] = call[u] /\ tool'[u] = tool[u] /\ req'[u] = req[u]
             /\ st'[c].enabled = st[c].enabled
    <3>1. /\ Later(u, c)' = Later(u, c) /\ Over(u)' = Over(u) /\ Current(u)' = Current(u)
          /\ Flushing(u, c)' = Flushing(u, c) /\ Restore(u)' = Restore(u)
      BY <2>5 DEF Later, Program, Over, Current, Flushing, InCall, Restore
    <3> QED BY <2>4, <2>5, <3>1 DEF OffInv, WillDisable, AtDisable, Forgot
  <2>6. CASE ToolStep(u)
    <3>1. CASE Starts(u)
      BY <2>4, <3>1, OffAtStart
    <3>2. CASE Returns(u)
      BY <2>1, <2>2, <2>4, <3>2, OffAtReturn
    <3>3. CASE LoopEnds(u) \/ Poll(u) \/ ReadReady(u) \/ LoopReturns(u)
      BY <2>1, <2>4, <3>3, OffInLoop
    <3>4. CASE CallStep(u) /\ UNCHANGED tool
      BY <2>2, <2>4, <3>4, OffInCallStep
    <3> QED BY <2>6, <3>1, <3>2, <3>3, <3>4 DEF ToolStep
  <2>7. CASE Signal(u)
    BY <2>2, <2>4, <2>7, OffAtSignal
  <2> QED BY <2>2, <2>3, <2>5, <2>6, <2>7, OwnOrNot
<1> QED BY <1>1, <1>2 DEF ReadoutInv

\* Nothing is enabled at the beginning.
LEMMA ReadoutInit ==
  ASSUME Init
  PROVE  ReadoutInv
<1>1. fails = 0 /\ \A u \in User : call[u] = NoCall /\ call[u].fn = "none"
  BY NoCallTypes DEF Init, LibInit
<1>2. \A c \in Chan : st[c].enabled = 0
  BY DEF Init, LibInit, SysInit
<1>3. \A u \in User, c \in Chan : Forgot(u, c)
  BY <1>1 DEF Forgot, Flushing
<1> QED BY <1>1, <1>2, <1>3 DEF ReadoutInv, OffInv

\* A program that has ended has nothing left to disable, and makes no access.
LEMMA OffAtTheEnd ==
  ASSUME ToolInv, Accesses, IenInv, ReadoutInv
  PROVE  LeavesInputsOff
<1> SUFFICES ASSUME NEW u \in User, NEW c \in Chan, Readout(u), Over(u), fails = 0,
                    Alone(u, c), ~clash
             PROVE  c \notin ien.acq
  BY DEF LeavesInputsOff, Readout
<1>0. TypeInv /\ CallInv /\ tool[u].pc \in 1 .. Len(Program(u)) + 1
  BY ProcTypes DEF ToolInv, ProcInv, Shape
<1>1. st[c].enabled = 0
  <2>1. OffInv(u, c)
    BY DEF ReadoutInv
  <2>2. ~AtDisable(u, c)
    BY DEF AtDisable
  <2>3. ~Later(u, c)
    <3>1. Len(Program(u)) \in Nat
      <4>1. Program(u) \in Seq(InnerCall \union {Open})
        BY <1>0, ProgramIsSeq
      <4> HIDE DEF InnerCall
      <4> QED BY <4>1
    <3> QED BY <1>0, <3>1 DEF Later, Over
  <2> QED BY <2>1, <2>2, <2>3 DEF OffInv, WillDisable
<1>2. ASSUME NEW w \in User, Switches(w, c) PROVE FALSE
  <2>1. req[w].at \in EnableSteps /\ req[w].at # "idle" /\ Ch(w) = c
    BY <1>2 DEF Switches, SwitchSteps, EnableSteps
  <2>2. w = u
    BY <1>0, <2>1, AloneSwitches
  <2>3. ~Over(u)
    BY <1>0, <2>1, <2>2, AccessIsNow
  <2> QED BY <2>3
<1>3. AcqSoFar
  BY DEF IenInv, IenParts
<1> QED BY <1>1, <1>2, <1>3 DEF AcqSoFar

\* A readout program that ends without an error has switched its inputs off,
\* whatever its options and whatever the other programs do: DisableAll comes
\* after the last call that enables, a flush in between restores what it found,
\* and the bit of an input is the program's own.
THEOREM InputsAreOff == Spec => []LeavesInputsOff
<1>1. Init => ToolInv /\ BoardInv /\ IenInv /\ ReadoutInv
  <2> SUFFICES ASSUME Init PROVE ToolInv /\ BoardInv /\ IenInv /\ ReadoutInv
    OBVIOUS
  <2>1. ToolInv /\ ReadoutInv
    BY ToolInit, ReadoutInit
  <2>2. SysInit
    BY DEF Init, LibInit
  <2>3. BoardInv /\ IenInv
    BY <2>2, TypeInit, RegistersInit, IenInit DEF BoardInv
  <2> QED BY <2>1, <2>3
<1>2. ToolInv /\ BoardInv /\ IenInv /\ ReadoutInv /\ [Next]_vars
      => ToolInv' /\ BoardInv' /\ IenInv' /\ ReadoutInv'
  <2> SUFFICES ASSUME ToolInv, BoardInv, IenInv, ReadoutInv, [Next]_vars
               PROVE  ToolInv' /\ BoardInv' /\ IenInv' /\ ReadoutInv'
    OBVIOUS
  <2>1. ToolInv' /\ [SysNext]_sysVars
    BY ToolKeeps
  <2>2. BoardInv' /\ IenInv'
    BY <2>1, BoardStep, IenStep
  <2>3. ReadoutInv'
    BY ReadoutKeeps DEF BoardInv
  <2> QED BY <2>1, <2>2, <2>3
<1>3. ToolInv /\ BoardInv /\ IenInv /\ ReadoutInv => LeavesInputsOff
  BY OffAtTheEnd DEF BoardInv
<1> QED BY <1>1, <1>2, <1>3, PTL DEF Spec

-----------------------------------------------------------------------------
(* A flush forgets *)

\* What has stayed in the FIFO of an input was taken while it was enabled; it is
\* to be cleared when the input is disabled.
AbortsOn(u, c) == At(u, "abort") /\ Ch(u) = c
FifoInv ==
  Mode = "fifo" /\ ~clash =>
    \A c \in Chan : hw[c] # <<>> => c \in ien.acq \/ \E w \in User : AbortsOn(w, c)

\* The driver does not change between FIFO and DMA.
LEMMA ModeStays ==
  ASSUME TypeInv, [SysNext]_sysVars
  PROVE  Mode' = Mode
<1>1. ASSUME NEW w \in User, Store(w) PROVE Mode' = Mode
  <2>1. tmo' = tmo \/ \E c, v : tmo' = [tmo EXCEPT !.timeout = v] \/ tmo' = [tmo EXCEPT !.csr[c] = v]
    BY <1>1 DEF Store, TimeoutSet
  <2> QED BY <2>1 DEF Mode, TypeInv
<1>2. ASSUME UNCHANGED tmo PROVE Mode' = Mode
  BY <1>2 DEF Mode
<1>3. ASSUME NEW w \in User, AttrStep(w) \/ Abort(w) \/ Return(w)
      PROVE  UNCHANGED tmo \/ Store(w)
  BY <1>3 DEF AttrStep, Abort, Return, Show, ShowInvalid, Enable, EnRead, EnWrite,
       ReadInputEnable, TermRead, TermWrite, TermFlag, OffsetRejected, OffsetStore, OffSeconds,
       OffCoarse, OffFrac, OffsetWrite, Seconds, TaiRead, TaiOff, TaiStart, TaiLoad, TaiOn,
       WrRegister, WrVariable, WrVcxo, WrAsk
<1>4. ASSUME NEW w \in User, NEW a \in Attribute, Access(w, a) \/ AccessFails(w, a)
      PROVE  UNCHANGED tmo
  BY <1>4 DEF Access, AccessFails
<1>5. CASE UNCHANGED sysVars
  BY <1>2, <1>5 DEF sysVars
<1> QED BY <1>1, <1>2, <1>3, <1>4, <1>5 DEF SysNext

\* An input whose bit is cleared is about to be cleaned up.
LEMMA ClearedIsCleaned ==
  ASSUME IenInv, Accesses, [SysNext]_sysVars, ~clash, NEW c \in Chan,
         c \in ien.acq, c \notin ien'.acq
  PROVE  \E w \in User : AbortsOn(w, c)'
<1>0. /\ TypeInv /\ IenParts /\ ien \in Ien /\ req \in [User -> Req]
  BY DEF IenInv, TypeInv
<1>1. ASSUME NEW w \in User, TermWrite(w) \/ TaiOff(w) \/ TaiOn(w) PROVE FALSE
  <2>1. req[w].ien.acq = ien.acq
    BY <1>0, <1>1 DEF TermWrite, TaiOff, TaiOn, At, IenParts, CopyFresh, CopySteps, LoadSteps
  <2>2. req[w].ien \in Ien
    BY <1>0, AccTypes
  <2>3. \E v : ien' = [req[w].ien EXCEPT !.term = v] \/ ien' = [req[w].ien EXCEPT !.flag = v]
    BY <1>1 DEF TermWrite, TaiOff, TaiOn
  <2>4. ien'.acq = req[w].ien.acq
    BY <2>2, <2>3 DEF Ien
  <2> QED BY <2>1, <2>4
<1>2. ASSUME NEW w \in User, EnWrite(w) PROVE AbortsOn(w, c)'
  <2>1. req[w].ien = ien /\ req[w].at = "en_write"
    BY <1>0, <1>2 DEF EnWrite, At, IenParts, CopyFresh, CopySteps
  <2>2. Val(w) \in {0, 1}
    BY <1>0, <2>1 DEF Accesses, AccessOf, Accepts, EnableSteps, Val
  <2>3. ien'.acq = AcqBits(ien, Ch(w), Val(w))
    BY <1>0, <1>2, <2>1 DEF EnWrite, Ien
  <2>4. Val(w) = 0 /\ Ch(w) = c
    BY <2>2, <2>3 DEF AcqBits
  <2>5. GoTo(w, "abort")
    BY <1>2, <2>4 DEF EnWrite, OkGoTo
  <2>6. req'[w].at = "abort" /\ req'[w].acc = req[w].acc
    BY <1>0, <2>5, GoToMoves, AllLabels DEF Moved
  <2> QED BY <2>4, <2>6 DEF AbortsOn, At, Ch
<1>3. ASSUME NEW w \in User, AttrStep(w) \/ Abort(w) \/ Return(w)
      PROVE  UNCHANGED ien \/ EnWrite(w) \/ TermWrite(w) \/ TaiOff(w) \/ TaiOn(w)
  BY <1>3 DEF AttrStep, Abort, Return, Show, ShowInvalid, Store, Enable, EnRead,
       ReadInputEnable, TermRead, TermFlag, OffsetRejected, OffsetStore, OffSeconds,
       OffCoarse, OffFrac, OffsetWrite, Seconds, TaiRead, TaiStart, TaiLoad,
       WrRegister, WrVariable, WrVcxo, WrAsk
<1>4. ASSUME NEW w \in User, NEW a \in Attribute, Access(w, a) \/ AccessFails(w, a)
      PROVE  UNCHANGED ien
  BY <1>4 DEF Access, AccessFails
<1>5. CASE UNCHANGED sysVars
  BY <1>5 DEF sysVars
<1> QED BY <1>1, <1>2, <1>3, <1>4, <1>5 DEF SysNext

\* Steps of a program that leave the board's timestamps where they are.
LEMMA BoardStands ==
  ASSUME NEW u \in User,
         \/ Starts(u) \/ Returns(u) \/ LoopEnds(u) \/ Poll(u) \/ ReadReady(u) \/ LoopReturns(u)
         \/ Signal(u) \/ SysfsCall(u) \/ SysfsReturn(u) \/ AttrOnly(u) \/ OpenChannel(u)
         \/ ReadEnds(u) \/ CallFails(u)
  PROVE  UNCHANGED hw /\ UNCHANGED zbuf
BY DEF Starts, Begin, Returns, LoopEnds, Poll, ReadReady, LoopReturns, Signal, SysfsCall,
       SysfsReturn, AttrOnly, OpenChannel, ReadEnds, CallFails, SysfsCallFails, OpenChannelFails,
       ReadFails, libVars, dataVars

\* What a step does to the FIFO of an input, and who fills its ZIO buffer.
LEMMA BoardChanges ==
  ASSUME TypeInv, CallInv, DataInv, [Next]_vars, NEW c \in Chan
  PROVE  /\ hw'[c] = hw[c] \/ hw'[c] = <<>> \/ (c \in ien.acq /\ UNCHANGED sysVars)
         /\ zbuf[c] = <<>> => zbuf'[c] = <<>> \/ st[c].enabled = 1
<1>0. hw \in [Chan -> Seq(Nat)] /\ zbuf \in [Chan -> Seq(Nat)]
  BY DEF DataInv
<1>1. CASE UNCHANGED hw /\ UNCHANGED zbuf
  BY <1>1
<1>2. ASSUME NEW w \in User, AbortData(w) PROVE hw'[c] \in {hw[c], <<>>} /\ UNCHANGED zbuf
  BY <1>0, <1>2, AccTypes DEF AbortData
<1>3. ASSUME NEW w \in User, NewBuffer(w) PROVE UNCHANGED hw /\ zbuf'[c] \in {zbuf[c], <<>>}
  BY <1>0, <1>3, AccTypes DEF NewBuffer
<1>4. ASSUME NEW w \in User, ReadOne(w)
      PROVE  UNCHANGED hw /\ (zbuf[c] = <<>> => zbuf'[c] = <<>>)
  <2>1. PICK d : d = RdChan(w)
    OBVIOUS
  <2>2. zbuf[d] # <<>> /\ zbuf' = [zbuf EXCEPT ![d] = Tail(@)] /\ UNCHANGED hw
    BY <1>4, <2>1 DEF ReadOne
  <2> QED BY <1>0, <2>2
<1>5. ASSUME NEW d \in Chan, Pulse(d)
      PROVE  /\ hw'[c] = hw[c] \/ (c \in ien.acq /\ UNCHANGED sysVars)
             /\ UNCHANGED zbuf
  BY <1>0, <1>5 DEF Pulse
<1>6. ASSUME NEW d \in Chan, Deliver(d)
      PROVE  hw'[c] \in {hw[c], <<>>} /\ (zbuf'[c] = zbuf[c] \/ st[c].enabled = 1)
  <2>1. PICK keep : zbuf' = [zbuf EXCEPT ![d] = keep]
    BY <1>6 DEF Deliver
  <2>2. hw' = [hw EXCEPT ![d] = <<>>] /\ st[d].enabled = 1
    BY <1>6 DEF Deliver
  <2> QED BY <1>0, <2>1, <2>2
<1>7. ASSUME NEW d \in Chan, Discard(d) PROVE hw'[c] \in {hw[c], <<>>} /\ UNCHANGED zbuf
  BY <1>0, <1>7 DEF Discard
<1>8. CASE UNCHANGED vars
  BY <1>1, <1>8 DEF vars, libVars, dataVars
<1>9. CASE Acquisition
  BY <1>5, <1>6, <1>7, <1>9 DEF Acquisition
<1>10. ASSUME NEW w \in User, ToolStep(w) \/ Signal(w) \/ CallFails(w)
       PROVE  \/ UNCHANGED hw /\ UNCHANGED zbuf
              \/ AbortData(w) \/ NewBuffer(w) \/ ReadOne(w)
  BY <1>10, BoardStands DEF ToolStep, CallStep
<1>11. ASSUME NEW w \in User, ToolStep(w) \/ Signal(w) \/ CallFails(w)
       PROVE  /\ hw'[c] = hw[c] \/ hw'[c] = <<>>
              /\ zbuf[c] = <<>> => zbuf'[c] = <<>>
  BY <1>2, <1>3, <1>4, <1>10, <1>11
<1> QED BY <1>8, <1>9, <1>11 DEF Next

\* A process that is to clean up an input leaves nothing in its FIFO.
LEMMA AbortCleans ==
  ASSUME ToolInv, [Next]_vars, NEW w \in User, NEW c \in Chan, AbortsOn(w, c),
         ~AbortsOn(w, c)', Mode = "fifo"
  PROVE  hw'[c] = <<>>
<1>0. TypeInv /\ CallInv /\ DataInv /\ hw \in [Chan -> Seq(Nat)]
  BY DEF ToolInv, DataInv
<1>1. req[w].at = "abort" /\ req[w].at # "idle" /\ Ch(w) = c
  BY DEF AbortsOn, At
<1>2. InCall(w) /\ OnSysfs(w) /\ ~Reading(w) /\ ~InLoop(w) /\ call[w].fn # "none"
  BY <1>0, <1>1, AccessIsNow DEF InCall
<1>3. req'[w] # req[w]
  BY DEF AbortsOn, At, Ch
<1>4. ~Signal(w)
  BY <1>0, <1>3 DEF Signal, sysVars
<1>5. ~CallFails(w)
  BY <1>1, <1>2 DEF CallFails, SysfsCallFails, AccessFails, OpenChannelFails, ReadFails, At,
                    OnSysfs, Reading
<1>6. ToolStep(w)
  BY <1>3, <1>4, <1>5, OwnOrNot
<1>7. CallStep(w)
  BY <1>2, <1>6 DEF ToolStep, Starts, Begin, Returns, Ended, LoopEnds, Poll, ReadReady, LoopReturns
<1>8. ~SysfsCall(w) /\ ~SysfsReturn(w) /\ ~OpenChannel(w) /\ ~ReadOne(w) /\ ~ReadEnds(w)
  BY <1>1, <1>2 DEF SysfsCall, Access, At, SysfsReturn, Return, OpenChannel, OnSysfs, ReadOne,
                    ReadEnds
<1>9. ~AttrOnly(w) /\ ~NewBuffer(w)
  BY <1>1 DEF AttrOnly, NewBuffer, AttrStep, At, Show, ShowInvalid, Store, Enable, EnRead, EnWrite,
     ReadInputEnable, TermRead, TermWrite, TermFlag, OffsetRejected, OffsetStore, OffSeconds,
     OffCoarse, OffFrac, OffsetWrite, Seconds, TaiRead, TaiOff, TaiStart, TaiLoad, TaiOn,
     WrRegister, WrVariable, WrVcxo, WrAsk
<1>10. AbortData(w)
  BY <1>7, <1>8, <1>9 DEF CallStep
<1>11. hw' = [hw EXCEPT ![c] = <<>>]
  BY <1>1, <1>10 DEF AbortData, ClearsBus
<1> QED BY <1>0, <1>11

\* The FIFO of an input that is off is empty, or to be cleared.
LEMMA FifoKeeps ==
  ASSUME ToolInv, Accesses, IenInv, FifoInv, [Next]_vars
  PROVE  FifoInv'
<1>0. TypeInv /\ CallInv /\ DataInv
  BY DEF ToolInv
<1>1. [SysNext]_sysVars
  BY ToolKeeps
<1> SUFFICES ASSUME Mode' = "fifo", ~clash', NEW c \in Chan, hw'[c] # <<>>
             PROVE  c \in ien'.acq \/ \E w \in User : AbortsOn(w, c)'
  BY DEF FifoInv
<1>2. Mode = "fifo" /\ ~clash
  BY <1>0, <1>1, ModeStays, ClashStays
<1>3. CASE c \in ien.acq
  BY <1>1, <1>2, <1>3, ClearedIsCleaned
<1>4. CASE c \notin ien.acq
  <2>1. hw'[c] = hw[c]
    BY <1>0, <1>4, BoardChanges
  <2>2. PICK w \in User : AbortsOn(w, c)
    BY <1>2, <1>4, <2>1 DEF FifoInv
  <2>3. AbortsOn(w, c)'
    BY <1>2, <2>2, AbortCleans
  <2> QED BY <2>3
<1> QED BY <1>3, <1>4

\* The beginning: nothing is taken, nothing is switched.
LEMMA FifoInit ==
  ASSUME Init
  PROVE  FifoInv
<1>1. \A c \in Chan : hw[c] = <<>>
  BY DEF Init, LibInit
<1> QED BY <1>1 DEF FifoInv

\* Between the two accesses of a flush that disable and enable again, the input
\* is off; when it is to be enabled again, its ZIO buffer is empty.
Closed(u) ==
  \/ call[u].at = 2 /\ req[u].at \notin {"idle", "enable"}
  \/ call[u].at = 3
  \/ call[u].at = 4 /\ req[u].at \in {"idle", "enable"}
Drained(u) == call[u].at = 4 /\ req[u].at \in {"idle", "enable"}
FlushOf(u, c) ==
  Flushing(u, c) /\ Alone(u, c) =>
    /\ Closed(u) => st[c].enabled = 0
    /\ Drained(u) => zbuf[c] = <<>>
FlushInv == fails = 0 => \A u \in User, c \in Chan : FlushOf(u, c)

\* A process in the driver stays there until its access is done.
LEMMA StaysInDriver ==
  ASSUME TypeInv, NEW u \in User, AttrStep(u) \/ Abort(u)
  PROVE  req'[u].at \notin {"idle", "enable"}
<1>0. req \in [User -> Req]
  BY DEF TypeInv
<1>1. ASSUME NEW l, l \notin {"idle", "enable"}, GoTo(u, l)
      PROVE  req'[u].at \notin {"idle", "enable"}
  BY <1>0, <1>1 DEF GoTo, Req
<1>2. ASSUME NEW e, NEW v, Done(u, e, v) PROVE req'[u].at \notin {"idle", "enable"}
  <2> DEFINE r == [req[u] EXCEPT !.at = "done", !.ien = NoIen, !.err = e, !.ret = v]
  <2>1. req' = [req EXCEPT ![u] = r]
    BY <1>2 DEF Done
  <2>2. r.at = "done"
    BY <1>0 DEF Req
  <2> HIDE DEF r
  <2> QED BY <1>0, <2>1, <2>2
<1>3. ASSUME NEW ok \in BOOLEAN, NEW l, l \notin {"idle", "enable"}, OkGoTo(u, ok, l)
      PROVE  req'[u].at \notin {"idle", "enable"}
  BY <1>1, <1>2, <1>3 DEF OkGoTo
<1>4. ASSUME NEW l, NEW n, n \notin {"idle", "enable"}, ReadInputEnable(u, l, n)
      PROVE  req'[u].at \notin {"idle", "enable"}
  <2> DEFINE r == [req[u] EXCEPT !.at = n, !.ien = ien]
  <2>1. req' = [req EXCEPT ![u] = r]
    BY <1>4 DEF ReadInputEnable
  <2>2. r.at = n
    BY <1>0 DEF Req
  <2> HIDE DEF r
  <2> QED BY <1>0, <1>4, <2>1, <2>2
<1>5. CASE Show(u) \/ ShowInvalid(u) \/ Store(u) \/ OffsetRejected(u) \/ TermFlag(u) \/ OffFrac(u)
           \/ TaiOn(u) \/ WrVcxo(u) \/ WrAsk(u) \/ Abort(u)
  <2>1. \E e, v : Done(u, e, v)
    BY <1>5 DEF Show, ShowInvalid, Store, OffsetRejected, TermFlag, OffFrac, TaiOn, WrVcxo, WrAsk,
                Abort
  <2> QED BY <1>2, <2>1
<1>6. CASE Enable(u) \/ EnWrite(u)
  BY <1>3, <1>6 DEF Enable, EnWrite
<1>7. CASE EnRead(u) \/ TermRead(u) \/ TaiRead(u)
  BY <1>4, <1>7 DEF EnRead, TermRead, TaiRead
<1>8. CASE TermWrite(u) \/ OffsetStore(u) \/ OffSeconds(u) \/ OffCoarse(u) \/ TaiOff(u)
           \/ TaiStart(u) \/ TaiLoad(u) \/ WrRegister(u)
  BY <1>1, <1>8 DEF TermWrite, OffsetStore, OffSeconds, OffCoarse, OffsetWrite, TaiOff, TaiStart,
                    TaiLoad, WrRegister
<1>9. CASE Seconds(u) \/ WrVariable(u)
  BY <1>1, <1>2, <1>9 DEF Seconds, WrVariable
<1> QED BY <1>5, <1>6, <1>7, <1>8, <1>9 DEF AttrStep

\* What is off stays off while its program does not enable it.
LEMMA StaysOff ==
  ASSUME ToolInv, Accesses, [Next]_vars, NEW u \in User, NEW c \in Chan, Alone(u, c),
         st[c].enabled = 0, ~(Enable(u) /\ Val(u) # 0)
  PROVE  st'[c].enabled = 0
<1>0. TypeInv /\ CallInv /\ [SysNext]_sysVars
  BY ToolKeeps DEF ToolInv
<1> SUFFICES ASSUME st'[c].enabled # st[c].enabled PROVE st'[c].enabled = 0
  OBVIOUS
<1>1. PICK w \in User : Enable(w) /\ Ch(w) = c /\ st'[c].enabled = Val(w)
  BY <1>0, FlagChanges
<1>2. req[w].at \in EnableSteps
  BY <1>1 DEF Enable, At, EnableSteps
<1>3. w = u
  BY <1>0, <1>1, <1>2, AloneSwitches
<1> QED BY <1>1, <1>3

\* A flush that does not go on with its script.
LEMMA FlushWaits ==
  ASSUME ToolInv, Accesses, [Next]_vars, NEW u \in User, NEW c \in Chan, FlushOf(u, c),
         Flushing(u, c) /\ Alone(u, c) => st[c].enabled = 0 \/ ~Closed(u)',
         ~(Enable(u) /\ Val(u) # 0),
         call'[u].fn = call[u].fn, call'[u].script = call[u].script, call'[u].err = call[u].err,
         call'[u].at = call[u].at, Drained(u)' => Drained(u)
  PROVE  FlushOf(u, c)'
<1> SUFFICES ASSUME Flushing(u, c)', Alone(u, c)'
             PROVE  /\ Closed(u)' => st'[c].enabled = 0
                    /\ Drained(u)' => zbuf'[c] = <<>>
  BY DEF FlushOf
<1>0. TypeInv /\ CallInv /\ DataInv
  BY DEF ToolInv
<1>1. Flushing(u, c) /\ Alone(u, c)
  BY AloneStays DEF Flushing, InCall
<1>2. ASSUME Closed(u)' PROVE st'[c].enabled = 0
  BY <1>1, <1>2, StaysOff
<1>3. ASSUME Drained(u)' PROVE zbuf'[c] = <<>>
  <2>1. Drained(u) /\ Closed(u)
    BY <1>3 DEF Drained, Closed
  <2>2. st[c].enabled = 0 /\ zbuf[c] = <<>>
    BY <1>1, <2>1 DEF FlushOf
  <2> QED BY <1>0, <2>2, BoardChanges
<1> QED BY <1>2, <1>3

\* An access of a flush begins.
LEMMA FlushAccess ==
  ASSUME ToolInv, Accesses, [Next]_vars, NEW u \in User, NEW c \in Chan, FlushOf(u, c), SysfsCall(u)
  PROVE  FlushOf(u, c)'
<1>0. TypeInv /\ CallInv /\ req \in [User -> Req]
  BY DEF ToolInv, TypeInv
<1>1. OnSysfs(u) /\ Access(u, NowSysfs(u)) /\ req[u].at = "idle" /\ UNCHANGED call
  BY DEF SysfsCall, Access, At
<1>2. req'[u].at = First(NowSysfs(u))
  <2> DEFINE r == [IdleReq EXCEPT !.at = First(NowSysfs(u)), !.acc = NowSysfs(u)]
  <2>1. r.at = First(NowSysfs(u))
    BY DEF IdleReq
  <2>2. req' = [req EXCEPT ![u] = r]
    BY <1>1 DEF Access
  <2> HIDE DEF r
  <2> QED BY <1>0, <2>1, <2>2
<1>3. ~Enable(u)
  BY <1>1 DEF Enable, At
<1>4. Drained(u)' => Drained(u)
  BY <1>1 DEF Drained
<1>5. ASSUME Flushing(u, c), Alone(u, c) PROVE st[c].enabled = 0 \/ ~Closed(u)'
  <2>1. /\ call[u].at \in 1 .. 4
        /\ call[u].at = 2 => Now(u) = SetOf("enable", c, 0)
        /\ call[u].at = 3 => Now(u) = Step("drain", c, 100)
    BY <1>0, <1>5, FlushNow
  <2>2. call[u].at # 3
    BY <1>1, <2>1 DEF OnSysfs, Step, SetOf, ReadSteps
  <2>3. ASSUME call[u].at = 2 PROVE req'[u].at = "enable"
    <3>1. NowSysfs(u) = SetOf("enable", c, 0)
      BY <2>1, <2>3 DEF NowSysfs
    <3>2. First(SetOf("enable", c, 0)) = "enable"
      BY DEF First, SetOf
    <3> QED BY <1>2, <3>1, <3>2
  <2>4. ASSUME call[u].at = 4 PROVE st[c].enabled = 0
    BY <1>1, <1>5, <2>4 DEF FlushOf, Closed
  <2> QED BY <1>1, <2>1, <2>2, <2>3, <2>4 DEF Closed
<1> QED BY <1>1, <1>3, <1>4, <1>5, FlushWaits

\* A step of a flush in the driver.
LEMMA FlushInDriver ==
  ASSUME ToolInv, Accesses, [Next]_vars, NEW u \in User, NEW c \in Chan, FlushOf(u, c),
         AttrStep(u) \/ Abort(u), UNCHANGED call
  PROVE  FlushOf(u, c)'
<1>0. TypeInv /\ CallInv /\ st \in [Chan -> State]
  BY DEF ToolInv, TypeInv
<1>1. req[u].at # "idle" /\ req'[u].at \notin {"idle", "enable"}
  BY <1>0, DriverMoves, StaysInDriver
<1> SUFFICES ASSUME Flushing(u, c), Alone(u, c), Closed(u)' \/ Drained(u)'
             PROVE  ~Drained(u)' /\ st'[c].enabled = 0
  BY AloneStays DEF FlushOf, Flushing, InCall
<1>2. call[u].at \in 1 .. 4 /\ call[u].fn = "flush"
      /\ (call[u].at = 2 => Now(u) = SetOf("enable", c, 0))
      /\ (call[u].at = 3 => Now(u) = Step("drain", c, 100))
  BY <1>0, FlushNow DEF Flushing
<1>3. call[u].at # 3
  BY <1>0, <1>1, <1>2, AccessIsNow DEF OnSysfs, Step, SetOf, ReadSteps
<1>4. ~Drained(u)' /\ call[u].at = 2
  BY <1>1, <1>3 DEF Drained, Closed
<1>5. Now(u).val = 0 /\ Now(u).chan = c
  BY <1>2, <1>4 DEF SetOf
<1>6. Val(u) = 0 /\ Ch(u) = c
  BY <1>0, <1>1, <1>4, <1>5, AccessIsNow
<1>7. CASE req[u].at = "enable"
  <2>1. Enable(u)
    BY <1>7 DEF AttrStep, Abort, At, Show, ShowInvalid, Store, EnRead, EnWrite,
       ReadInputEnable, TermRead, TermWrite, TermFlag, OffsetRejected, OffsetStore, OffSeconds,
       OffCoarse, OffFrac, OffsetWrite, Seconds, TaiRead, TaiOff, TaiStart, TaiLoad, TaiOn,
       WrRegister, WrVariable, WrVcxo, WrAsk
  <2>2. st' = [st EXCEPT ![c].enabled = 0]
    BY <1>6, <2>1 DEF Enable
  <2>3. st'[c].enabled = 0
    BY <1>0, <2>2 DEF State
  <2> QED BY <1>4, <2>3
<1>8. CASE req[u].at # "enable"
  <2>1. st[c].enabled = 0
    BY <1>1, <1>4, <1>8 DEF Closed, FlushOf
  <2>2. ~Enable(u)
    BY <1>8 DEF Enable, At
  <2> QED BY <1>4, <2>1, <2>2, StaysOff
<1> QED BY <1>7, <1>8

\* The script of a flush goes on: the input is off before its second access ends,
\* and drained before its fourth begins.
LEMMA FlushNext ==
  ASSUME ToolInv, NEW u \in User, NEW c \in Chan, FlushOf(u, c), Alone(u, c)' <=> Alone(u, c),
         UNCHANGED <<st, zbuf>>, req'[u].at = "idle",
         call'[u].fn = call[u].fn, call'[u].script = call[u].script,
         call'[u].at = call[u].at + 1,
         Flushing(u, c) /\ call[u].at = 2 => req[u].at = "done",
         Flushing(u, c) /\ call[u].at = 3 => zbuf[c] = <<>>,
         InCall(u)
  PROVE  FlushOf(u, c)'
<1>0. TypeInv /\ CallInv
  BY DEF ToolInv
<1> SUFFICES ASSUME Flushing(u, c)', Alone(u, c)
             PROVE  /\ Closed(u)' => st'[c].enabled = 0
                    /\ Drained(u)' => zbuf'[c] = <<>>
  BY DEF FlushOf
<1>1. Flushing(u, c)
  BY DEF Flushing
<1>2. call[u].at \in 1 .. 4
  BY <1>0, <1>1, FlushNow
<1>3. ASSUME Closed(u)' PROVE st'[c].enabled = 0
  <2>1. call[u].at = 2 \/ call[u].at = 3
    BY <1>2, <1>3 DEF Closed
  <2> QED BY <1>1, <2>1 DEF Closed, FlushOf
<1>4. ASSUME Drained(u)' PROVE zbuf'[c] = <<>>
  BY <1>1, <1>2, <1>4 DEF Drained
<1> QED BY <1>3, <1>4

\* A step of a flush outside the driver.
LEMMA FlushSteps ==
  ASSUME ToolInv, Accesses, [Next]_vars, NEW u \in User, NEW c \in Chan, FlushOf(u, c),
         SysfsReturn(u) \/ OpenChannel(u) \/ ReadOne(u) \/ ReadEnds(u)
  PROVE  FlushOf(u, c)'
<1>0. /\ TypeInv /\ CallInv /\ DataInv /\ call \in [User -> CallState] /\ call[u] \in CallState
      /\ req \in [User -> Req]
  BY DEF ToolInv, CallInv, TypeInv
<1>1. Alone(u, c)' <=> Alone(u, c)
  BY AloneStays
<1>2. CASE ~Flushing(u, c)' \/ ~Alone(u, c)
  BY <1>1, <1>2 DEF FlushOf
<1>3. ASSUME SysfsReturn(u), Flushing(u, c)' PROVE FlushOf(u, c)'
  <2>1. InCall(u) /\ req[u].at = "done" /\ UNCHANGED <<st, zbuf>>
    BY <1>3 DEF SysfsReturn, Return, At, dataVars
  <2>2. req'[u].at = "idle"
    BY <1>0, <1>3 DEF SysfsReturn, Return, IdleReq
  <2>3. NextStep(u, req[u].ret)
    <3>1. ASSUME NEW e, e # "none", Fail(u, e) PROVE FALSE
      <4>1. call'[u].err = e
        BY <1>0, <3>1 DEF Fail, CallState
      <4> QED BY <1>3, <3>1, <4>1 DEF Flushing, InCall
    <3> QED BY <1>3, <3>1 DEF SysfsReturn
  <2>4. /\ call'[u].fn = call[u].fn /\ call'[u].script = call[u].script
        /\ call'[u].at = call[u].at + 1
    BY <1>0, <2>3 DEF NextStep, CallState
  <2>5. ~(Flushing(u, c) /\ call[u].at = 3)
    BY <1>0, <2>1, FlushNow, AccessIsNow DEF OnSysfs, Step, SetOf, ReadSteps
  <2> QED BY <1>1, <2>1, <2>2, <2>4, <2>5, FlushNext
<1>4. ASSUME \/ Reading(u)
             \/ InCall(u) /\ Now(u).attr = "descriptors",
             Flushing(u, c)
      PROVE  call[u].at = 3 /\ Now(u).attr = "drain" /\ Now(u).chan = c
  BY <1>0, <1>4, FlushNow DEF Reading, ReadSteps, GetOf, SetOf, Step
<1>5. CASE OpenChannel(u)
  <2>1. call'[u].fn = call[u].fn /\ call'[u].script = call[u].script
        /\ InCall(u) /\ Now(u).attr = "descriptors" /\ call'[u].at = call[u].at + 1
        /\ UNCHANGED <<st, zbuf, req>>
    BY <1>0, <1>5 DEF OpenChannel, NextStep, CallState, sysVars, dataVars
  <2>2. ~Flushing(u, c)
    BY <1>4, <2>1
  <2>3. ~Flushing(u, c)' \/ FlushOf(u, c)'
    BY <1>0, <2>1, <2>2 DEF Flushing, InCall
  <2> QED BY <2>3 DEF FlushOf
<1>6. ASSUME ReadOne(u) \/ ReadEnds(u), Flushing(u, c)' PROVE FlushOf(u, c)'
  <2>1. Reading(u) /\ InCall(u) /\ UNCHANGED sysVars
    BY <1>6 DEF ReadOne, ReadEnds, Reading
  <2>2. ReadOne(u) \/ ReadReturns(u) \/ ReadReturnsError(u, "EAGAIN")
    BY <1>6 DEF ReadEnds
  <2>3. Proceeds(u)
    BY <1>0, <2>1, <2>2, ReadProceeds
  <2>4. Flushing(u, c)
    BY <1>6, <2>1, <2>3 DEF Flushing, Proceeds
  <2>5. call[u].at = 3 /\ Now(u).attr = "drain" /\ RdChan(u) = c
    BY <1>4, <2>1, <2>4 DEF RdChan
  <2>6. req[u].at = "idle" /\ req'[u].at = "idle" /\ UNCHANGED st
    BY <1>0, <2>1, ReadTypes DEF sysVars
  <2>7. CASE ReadOne(u) \/ ReadReturns(u)
    <3>1. /\ call'[u].at = call[u].at
      BY <1>0, <2>5, <2>7 DEF ReadOne, ReadReturns, CallState
    <3>2. ~Drained(u)' /\ Closed(u)
      BY <2>5, <3>1 DEF Drained, Closed
    <3>3. Alone(u, c) => st[c].enabled = 0
      BY <2>4, <3>2 DEF FlushOf
    <3> QED BY <1>1, <2>6, <3>2, <3>3 DEF FlushOf
  <2>8. CASE ReadEnds(u) /\ ReadReturnsError(u, "EAGAIN") /\ ~ReadReturns(u)
    <3>1. zbuf[c] = <<>> /\ UNCHANGED zbuf
      BY <2>5, <2>8 DEF ReadEnds
    <3>2. NextStep(u, 0)
      BY <2>5, <2>8 DEF ReadReturnsError
    <3>3. /\ call'[u].fn = call[u].fn /\ call'[u].script = call[u].script
          /\ call'[u].at = call[u].at + 1
      BY <1>0, <3>2 DEF NextStep, CallState
    <3> QED BY <1>1, <2>1, <2>5, <2>6, <3>1, <3>3, FlushNext
  <2> QED BY <1>6, <2>7, <2>8 DEF ReadEnds
<1> QED BY <1>2, <1>3, <1>5, <1>6

\* A program outside a flush, or at its beginning.
LEMMA NotInFlush ==
  ASSUME ToolInv, NEW u \in User, NEW c \in Chan,
         Starts(u) \/ Returns(u) \/ LoopEnds(u) \/ Poll(u) \/ ReadReady(u) \/ LoopReturns(u)
  PROVE  FlushOf(u, c)'
<1>0. TypeInv /\ CallInv /\ call \in [User -> CallState]
  BY DEF ToolInv, CallInv
<1>1. CASE call'[u].fn # "flush"
  BY <1>1 DEF FlushOf, Flushing
<1>2. CASE Starts(u)
  <2> PICK k : k = Current(u)
    OBVIOUS
  <2>1. ~Over(u) /\ Begin(u, k)
    BY <1>2 DEF Starts
  <2>2. k \in LibCall /\ k.at = 1
    BY <1>0, <2>1, CurrentCall DEF LibCall
  <2>3. call'[u] = IF Rejects(k) THEN [k EXCEPT !.err = "EINVAL"] ELSE k
    BY <1>0, <2>1 DEF Begin
  <2>4. call'[u].at = 1
    BY <2>2, <2>3 DEF LibCall
  <2> QED BY <2>4 DEF FlushOf, Closed, Drained
<1>3. CASE Returns(u) \/ LoopReturns(u)
  <2>1. call'[u].fn = "none"
    BY <1>0, <1>3, NoCallTypes DEF Returns, LoopReturns
  <2> QED BY <1>1, <2>1
<1>4. CASE LoopEnds(u) \/ Poll(u)
  <2>1. call'[u].fn = "none"
    BY <1>4 DEF LoopEnds, Poll, libVars
  <2> QED BY <1>1, <2>1
<1>5. CASE ReadReady(u)
  <2>1. PICK d, n : Begin(u, IF Job(u).nblock THEN ReadNonBlock(d, n) ELSE Read(d, n))
    BY <1>5 DEF ReadReady
  <2> PICK k : k = IF Job(u).nblock THEN ReadNonBlock(d, n) ELSE Read(d, n)
    OBVIOUS
  <2>2. k.fn = "read"
    BY DEF ReadNonBlock, Read, Call
  <2>3. call'[u] = IF Rejects(k) THEN [k EXCEPT !.err = "EINVAL"] ELSE k
    BY <1>0, <2>1 DEF Begin
  <2>4. ~Rejects(k)
    BY <2>2 DEF Rejects
  <2> QED BY <1>1, <2>2, <2>3, <2>4
<1> QED BY <1>2, <1>3, <1>4, <1>5

\* A signal does not disturb a flush.
LEMMA FlushAtSignal ==
  ASSUME ToolInv, Accesses, [Next]_vars, NEW u \in User, NEW c \in Chan, FlushOf(u, c), Signal(u)
  PROVE  FlushOf(u, c)'
<1>0. TypeInv /\ CallInv /\ call \in [User -> CallState]
  BY DEF ToolInv, CallInv
<1>1. UNCHANGED sysVars /\ UNCHANGED zbuf
  BY DEF Signal
<1>2. CASE UNCHANGED call
  <2>1. /\ Flushing(u, c)' = Flushing(u, c) /\ Closed(u)' = Closed(u) /\ Drained(u)' = Drained(u)
        /\ UNCHANGED st
    BY <1>1, <1>2 DEF Flushing, InCall, Closed, Drained, sysVars
  <2> QED BY <1>1, <2>1, AloneStays DEF FlushOf
<1>3. CASE Waiting(u) /\ ReadReturnsError(u, "EIO")
  <2>1. \E s : call' = [call EXCEPT ![u].err = "EIO", ![u].acc = s, ![u].buf = s]
    BY <1>3 DEF Waiting, ReadReturnsError
  <2>2. call'[u].err = "EIO"
    BY <1>0, <2>1 DEF CallState
  <2> QED BY <2>2 DEF FlushOf, Flushing, InCall
<1> QED BY <1>2, <1>3 DEF Signal

\* Every step keeps what a flush has done.
LEMMA FlushKeeps ==
  ASSUME ToolInv, Accesses, fails \in Nat, FlushInv, [Next]_vars
  PROVE  FlushInv'
<1> SUFFICES ASSUME fails' = 0, NEW u \in User, NEW c \in Chan PROVE FlushOf(u, c)'
  BY DEF FlushInv
<1>0. TypeInv /\ CallInv /\ DataInv
  BY DEF ToolInv
<1>1. fails = 0 /\ ~CallFails(u)
  BY FailsGrow
<1>2. FlushOf(u, c)
  BY <1>1 DEF FlushInv
<1>3. CASE /\ call'[u] = call[u] /\ tool'[u] = tool[u] /\ req'[u] = req[u]
           /\ \A d \in Chan : Alone(u, d) /\ Accesses => st'[d].enabled = st[d].enabled
  <2>1. /\ Flushing(u, c)' = Flushing(u, c) /\ Closed(u)' = Closed(u) /\ Drained(u)' = Drained(u)
    BY <1>3 DEF Flushing, InCall, Closed, Drained
  <2>2. Alone(u, c)' <=> Alone(u, c)
    BY AloneStays
  <2> SUFFICES ASSUME Flushing(u, c), Alone(u, c)
               PROVE  /\ Closed(u) => st'[c].enabled = 0
                      /\ Drained(u) => zbuf'[c] = <<>>
    BY <2>1, <2>2 DEF FlushOf
  <2>3. Closed(u) => st[c].enabled = 0 /\ st'[c].enabled = 0
    BY <1>2, <1>3 DEF FlushOf
  <2>4. ASSUME Drained(u) PROVE zbuf'[c] = <<>>
    <3>1. st[c].enabled = 0 /\ zbuf[c] = <<>>
      BY <1>2, <2>3, <2>4 DEF FlushOf, Drained, Closed
    <3> QED BY <1>0, <3>1, BoardChanges
  <2> QED BY <2>3, <2>4
<1>4. CASE ToolStep(u)
  <2>1. CASE CallStep(u)
    <3>1. CASE SysfsCall(u)
      BY <1>2, <3>1, FlushAccess
    <3>2. CASE AttrOnly(u) \/ AbortData(u) \/ NewBuffer(u)
      <4>1. (AttrStep(u) \/ Abort(u)) /\ UNCHANGED call
        BY <3>2 DEF AttrOnly, AbortData, NewBuffer, AttrStep
      <4> QED BY <1>2, <4>1, FlushInDriver
    <3>3. CASE SysfsReturn(u) \/ OpenChannel(u) \/ ReadOne(u) \/ ReadEnds(u)
      BY <1>2, <3>3, FlushSteps
    <3> QED BY <2>1, <3>1, <3>2, <3>3 DEF CallStep
  <2>2. CASE Starts(u) \/ Returns(u) \/ LoopEnds(u) \/ Poll(u) \/ ReadReady(u) \/ LoopReturns(u)
    BY <2>2, NotInFlush
  <2> QED BY <1>4, <2>1, <2>2 DEF ToolStep
<1>5. CASE Signal(u)
  BY <1>2, <1>5, FlushAtSignal
<1> QED BY <1>1, <1>3, <1>4, <1>5, OwnOrNot

\* At the beginning nobody flushes.
LEMMA FlushInit ==
  ASSUME Init
  PROVE  FlushInv
<1>1. \A u \in User : call[u] = NoCall /\ call[u].fn = "none"
  BY NoCallTypes DEF Init, LibInit
<1> QED BY <1>1 DEF FlushInv, FlushOf, Flushing

\* When the last access of a flush begins, nothing is left of the input.
LEMMA NothingIsLeft ==
  ASSUME ToolInv, Accesses, IenInv, FifoInv, FlushInv
  PROVE  FlushForgets
<1>0. TypeInv /\ CallInv
  BY DEF ToolInv
<1> SUFFICES ASSUME NEW u \in User, call[u].fn = "flush", InCall(u), call[u].at = 4,
                    Mode = "fifo", fails = 0, ~clash, Alone(u, call[u].script[3].chan),
                    req[u].at \in {"idle", "enable"}
             PROVE  hw[call[u].script[3].chan] = <<>> /\ zbuf[call[u].script[3].chan] = <<>>
  BY DEF FlushForgets
<1>1. PICK c : c = call[u].script[1].chan
  OBVIOUS
<1>2. c \in Chan
  <2>1. PICK s \in Seq(ScriptStep) : s = call[u].script
    BY <1>0, NowTypes
  <2>2. 1 \in 1 .. Len(s)
    BY <1>0, <2>1, NowTypes
  <2>3. s[1] \in ScriptStep
    BY <2>1, <2>2
  <2> QED BY <1>1, <2>1, <2>3 DEF ScriptStep
<1>3. Flushing(u, c) /\ call[u].script = Flush(c).script
  BY <1>0, <1>1, <1>2, FlushNow DEF Flushing
<1>4. call[u].script[3].chan = c
  <2>1. PICK x : x = Step("drain", c, 100)
    OBVIOUS
  <2>2. PICK s : s = Flush(c).script
    OBVIOUS
  <2>3. s = <<GetOf("enable", c), SetOf("enable", c, 0), x, SetOf("enable", c, 0)>>
    BY <1>2, <2>1, <2>2, FlushCall
  <2>4. s[3] = x /\ x.chan = c
    BY <2>1, <2>3 DEF Step, SetOf
  <2> QED BY <1>3, <2>2, <2>4
<1>5. FlushOf(u, c) /\ Alone(u, c)
  BY <1>2, <1>4 DEF FlushInv
<1>6. st[c].enabled = 0 /\ zbuf[c] = <<>>
  BY <1>3, <1>5 DEF FlushOf, Closed, Drained
<1>7. ASSUME NEW w \in User, req[w].at \in EnableSteps \ {"enable"}, Ch(w) = c PROVE FALSE
  <2>1. w = u
    BY <1>0, <1>2, <1>5, <1>7, AloneSwitches
  <2> QED BY <1>7, <2>1 DEF EnableSteps
<1>8. \A w \in User : ~Switches(w, c) /\ ~AbortsOn(w, c)
  BY <1>7 DEF Switches, SwitchSteps, AbortsOn, At, EnableSteps
<1>9. c \notin ien.acq
  BY <1>2, <1>6, <1>8 DEF IenInv, IenParts, AcqSoFar
<1>10. hw[c] = <<>>
  BY <1>2, <1>8, <1>9 DEF FifoInv
<1> QED BY <1>4, <1>6, <1>10

\* fmctdc_flush empties an input that only its program uses, whatever the other
\* programs do: from the access that disables it on, nothing enters the FIFO and
\* nothing leaves it for the ZIO buffer, ft_disable clears the one and the loop of
\* reads the other, until the input is enabled again.  In FIFO mode, before the
\* first error and before two accesses to INPUT_ENABLE overlap, as FlushForgets
\* says.
THEOREM FlushesForget == Spec => []FlushForgets
<1> DEFINE FlushesInv ==
      ToolInv /\ BoardInv /\ IenInv /\ FifoInv /\ FlushInv /\ fails \in Nat
<1>1. Init => FlushesInv
  <2> SUFFICES ASSUME Init PROVE FlushesInv
    OBVIOUS
  <2>1. SysInit /\ fails \in Nat
    BY DEF Init, LibInit
  <2>2. BoardInv /\ IenInv
    BY <2>1, TypeInit, RegistersInit, IenInit DEF BoardInv
  <2> QED BY <2>1, <2>2, ToolInit, FifoInit, FlushInit
<1>2. FlushesInv /\ [Next]_vars => FlushesInv'
  <2> SUFFICES ASSUME FlushesInv, [Next]_vars PROVE FlushesInv'
    OBVIOUS
  <2>1. ToolInv' /\ [SysNext]_sysVars
    BY ToolKeeps
  <2>2. BoardInv' /\ IenInv'
    BY <2>1, BoardStep, IenStep
  <2>3. Accesses
    BY DEF BoardInv
  <2>4. FifoInv'
    BY <2>3, FifoKeeps
  <2>5. FlushInv'
    BY <2>3, FlushKeeps
  <2>6. fails' \in Nat
    BY FailsGrow
  <2> QED BY <2>1, <2>2, <2>4, <2>5, <2>6
<1>3. FlushesInv => FlushForgets
  BY NothingIsLeft DEF BoardInv
<1> HIDE DEF FlushesInv
<1> QED BY <1>1, <1>2, <1>3, PTL DEF Spec
=============================================================================
