-------------------------- MODULE FtBufStreamProofs --------------------------
(***************************************************************************)
(* What the readers of the DMA acquisition get.  FtBufDataProofs says what *)
(* lies in the DDR; here it is followed from there, through the transfer,  *)
(* the block of ZIO and data_done, to the reader.                          *)
(*                                                                         *)
(* The timestamps of an input are numbered as they are made.  Away is how  *)
(* many of them have left the gateware's current buffer; those of the      *)
(* buffer switched away last are Carried from the exchange of the buffers  *)
(* to the end of the transfer; Bound is how many lie before them.  The     *)
(* reader never has a timestamp past Bound (ReaderInv), and if no input is *)
(* disabled it has them all, the last batch of them perhaps in the block   *)
(* data_done is about to hand over (StreamInv).                            *)
(*                                                                         *)
(* Hypotheses, besides ~Overfill of FtBufDataProofs:                       *)
(*                                                                         *)
(*   MaxFails = 0   no error of ZIO or of the DMA engine: after one the    *)
(*                  trigger stays armed and its block, if it has one, goes *)
(*                  with a later transfer;                                 *)
(*   QuickTail      ft_dma_complete returns before the work arms the       *)
(*                  trigger of its input again;                            *)
(*   [][Stays]_vars for the stream only: what is under way when an input   *)
(*                  is disabled is lost.                                   *)
(***************************************************************************)
EXTENDS FtBufDataProofs

-----------------------------------------------------------------------------
(* Definitions *)

\* m timestamps of input c after the first lo.
Batch(c, lo, m) == [i \in 1 .. m |-> Ts(c, lo + i)]

\* Timestamps of input c, each newer than the one before it, none past b.
Rising(s, c, b) ==
  \A i \in DOMAIN s : /\ s[i] = Ts(c, s[i][2])
                      /\ s[i][2] \in 1 .. b
                      /\ i > 1 => s[i - 1][2] < s[i][2]

\* A transfer of input c is with the DMA engine.
InEngine(c) == \E i \in DOMAIN dmaq : dmaq[i].chan = c

\* The buffer switched away has not been transferred yet.
Carried(c) ==
  \/ At(c, "spin") /\ cur[c].base # BufAddr(c, active[c])
  \/ c = ch /\ wpc \in {"clear", "base", "size", "count", "arm", "submit"}
  \/ InEngine(c)

\* The timestamps whose buffer has been transferred, or never will be.
Bound(c) == Away(c) - (IF Carried(c) THEN curCount[c] ELSE 0)

\* What the reader of input c has, and what data_done is going to give it.
Delivered(c) ==
  IF c \in tail /\ block[c] # {}
  THEN \E lo, m \in Nat : /\ Rising(out[c], c, lo)
                          /\ block[c] = {Batch(c, lo, m)}
                          /\ lo + m <= Bound(c)
  ELSE Rising(out[c], c, Bound(c))

\* An active block belongs to an armed trigger, and is about to be submitted,
\* in the engine or on its way to the reader.
Block(c) ==
  /\ block[c] # {} => armed[c] /\ (c \in tail \/ InEngine(c) \/ At(c, "submit"))
  /\ At(c, "submit") => /\ c \notin tail
                        /\ \A data \in block[c] : Len(data) = curCount[c]

\* The engine reads a whole buffer, into a block if there is one.
Engaged ==
  \A i \in DOMAIN dmaq : LET c == dmaq[i].chan
                         IN  /\ c \notin tail
                             /\ dmaq[i].len = curCount[c]
                             /\ dmaq[i].live <=> block[c] # {}

ReaderInv == /\ out \in [Chan -> Seq(Stamp)]
             /\ Engaged
             /\ \A c \in Chan : Delivered(c) /\ Block(c)

\* Inputs are not disabled.
Stays == \A c \in Chan : enable[c] => enable'[c]

\* The inputs the work visits are enabled.
Visited ==
  /\ hpc = "check" => \A c \in hstat : enable[c]
  /\ queued => \A c \in chanMask : enable[c]
  /\ wpc # "idle" => \A c \in todo : enable[c]
  /\ wpc \notin {"idle", "next"} => enable[ch]

\* The reader has every timestamp up to Bound, and an armed trigger its block.
Complete(c) ==
  /\ IF c \in tail
     THEN \E lo, m \in Nat : /\ out[c] = Batch(c, 0, lo)
                             /\ block[c] = {Batch(c, lo, m)}
                             /\ m > 0 /\ lo + m = Bound(c)
     ELSE out[c] = Batch(c, 0, Bound(c))
  /\ armed[c] <=> block[c] # {}
  /\ At(c, "submit") \/ InEngine(c) => block[c] # {}
  /\ Carried(c) => curCount[c] > 0

StreamInv == Visited /\ closing = {} /\ \A c \in Chan : Complete(c)

-----------------------------------------------------------------------------
(* Sequences of timestamps *)

\* A batch is a sequence of timestamps.
LEMMA BatchFacts ==
  ASSUME NEW c \in Chan, NEW lo \in Nat, NEW m \in Nat, lo + m <= MaxTs
  PROVE  /\ Batch(c, lo, m) \in Seq(Stamp)
         /\ Len(Batch(c, lo, m)) = m
         /\ DOMAIN Batch(c, lo, m) = 1 .. m
         /\ \A i \in 1 .. m : Batch(c, lo, m)[i] = Ts(c, lo + i)
<1>1. \A i \in 1 .. m : Ts(c, lo + i) \in Stamp
  <2> SUFFICES ASSUME NEW i \in 1 .. m PROVE Ts(c, lo + i) \in Stamp
    OBVIOUS
  <2>1. lo + i \in 0 .. MaxTs
    BY SizeAssumption
  <2> QED BY <2>1 DEF Ts, Stamp
<1> QED BY <1>1 DEF Batch

\* Timestamps behind others.
LEMMA ConcatFacts ==
  ASSUME NEW s \in Seq(Stamp), NEW t \in Seq(Stamp)
  PROVE  /\ s \o t \in Seq(Stamp)
         /\ Len(s) \in Nat /\ Len(t) \in Nat
         /\ DOMAIN s = 1 .. Len(s)
         /\ DOMAIN (s \o t) = 1 .. Len(s) + Len(t)
         /\ \A i \in 1 .. Len(s) : (s \o t)[i] = s[i]
         /\ \A i \in 1 .. Len(t) : (s \o t)[Len(s) + i] = t[i]
<1>1. /\ s \o t \in Seq(Stamp) /\ Len(s \o t) = Len(s) + Len(t)
      /\ Len(s) \in Nat /\ Len(t) \in Nat
  OBVIOUS
<1>2. DOMAIN s = 1 .. Len(s) /\ DOMAIN (s \o t) = 1 .. Len(s \o t)
  BY <1>1
<1>3. ASSUME NEW i \in 1 .. Len(s) PROVE (s \o t)[i] = s[i]
  BY <1>1
<1>4. ASSUME NEW i \in 1 .. Len(t) PROVE (s \o t)[Len(s) + i] = t[i]
  BY <1>1
<1> QED BY <1>1, <1>2, <1>3, <1>4

\* A bound may be raised.
LEMMA RisingUp ==
  ASSUME NEW s, NEW c \in Chan, NEW a \in Nat, NEW b \in Nat, a <= b,
         Rising(s, c, a)
  PROVE  Rising(s, c, b)
<1>1. \A k \in 1 .. a : k \in 1 .. b
  OBVIOUS
<1> QED BY <1>1 DEF Rising

\* The next batch keeps the reader's sequence rising.
LEMMA RisingBatch ==
  ASSUME NEW c \in Chan, NEW lo \in Nat, NEW m \in Nat, lo + m <= MaxTs,
         NEW s \in Seq(Stamp), Rising(s, c, lo)
  PROVE  /\ s \o Batch(c, lo, m) \in Seq(Stamp)
         /\ Rising(s \o Batch(c, lo, m), c, lo + m)
<1> DEFINE t == Batch(c, lo, m)
           r == s \o t
           n == Len(s)
<1>1. /\ t \in Seq(Stamp) /\ Len(t) = m
      /\ \A i \in 1 .. m : t[i] = Ts(c, lo + i)
  BY BatchFacts
<1> HIDE DEF t
<1>2. /\ r \in Seq(Stamp) /\ n \in Nat /\ DOMAIN s = 1 .. n
      /\ DOMAIN r = 1 .. n + m
      /\ \A i \in 1 .. n : r[i] = s[i]
      /\ \A i \in 1 .. m : r[n + i] = Ts(c, lo + i)
  <2>1. /\ s \o t \in Seq(Stamp) /\ Len(s) \in Nat
        /\ DOMAIN s = 1 .. Len(s) /\ DOMAIN (s \o t) = 1 .. Len(s) + m
        /\ \A i \in 1 .. Len(s) : (s \o t)[i] = s[i]
        /\ \A i \in 1 .. m : (s \o t)[Len(s) + i] = t[i]
    <3>1. /\ s \o t \in Seq(Stamp) /\ Len(s) \in Nat
          /\ DOMAIN s = 1 .. Len(s) /\ DOMAIN (s \o t) = 1 .. Len(s) + Len(t)
          /\ \A i \in 1 .. Len(s) : (s \o t)[i] = s[i]
          /\ \A i \in 1 .. Len(t) : (s \o t)[Len(s) + i] = t[i]
      BY <1>1, ConcatFacts
    <3> QED BY <1>1, <3>1
  <2> QED BY <1>1, <2>1
<1> HIDE DEF n, r
<1>3. \A k : Ts(c, k)[2] = k
  BY DEF Ts
<1>4. ASSUME NEW i \in DOMAIN r
      PROVE  /\ r[i] = Ts(c, r[i][2])
             /\ r[i][2] \in 1 .. lo + m
             /\ i > 1 => r[i - 1][2] < r[i][2]
  <2>1. CASE i \in 1 .. n
    <3>1. /\ s[i] = Ts(c, s[i][2]) /\ s[i][2] \in 1 .. lo
          /\ i > 1 => s[i - 1][2] < s[i][2]
      BY <1>2, <2>1 DEF Rising
    <3>2. i > 1 => i - 1 \in 1 .. n
      BY <1>2, <2>1
    <3>3. \A k \in 1 .. lo : k \in 1 .. lo + m
      OBVIOUS
    <3> QED BY <1>2, <2>1, <3>1, <3>2, <3>3
  <2>2. CASE i \notin 1 .. n
    <3> DEFINE j == i - n
    <3>1. j \in 1 .. m /\ i = n + j
      BY <1>2, <2>2
    <3>2. r[i] = Ts(c, lo + j) /\ r[i][2] = lo + j
      BY <1>2, <1>3, <3>1
    <3>3. lo + j \in 1 .. lo + m
      BY <3>1
    <3>4. CASE j = 1 /\ i > 1
      <4>1. n \in 1 .. n /\ i - 1 = n
        BY <1>2, <3>1, <3>4
      <4>2. s[n][2] \in 1 .. lo /\ r[n] = s[n]
        BY <1>2, <4>1 DEF Rising
      <4>3. r[i - 1][2] < lo + j
        BY <3>4, <4>1, <4>2
      <4> QED BY <3>2, <3>3, <4>3
    <3>5. CASE j > 1
      <4>1. j - 1 \in 1 .. m /\ i - 1 = n + (j - 1)
        BY <1>2, <3>1, <3>5
      <4>2. r[i - 1][2] = lo + (j - 1)
        BY <1>2, <1>3, <4>1
      <4>3. lo + (j - 1) < lo + j
        BY <3>1
      <4> QED BY <3>2, <3>3, <4>2, <4>3
    <3>6. j = 1 \/ j > 1
      BY <3>1
    <3> QED BY <3>2, <3>3, <3>4, <3>5, <3>6
  <2> QED BY <2>1, <2>2
<1>5. Rising(r, c, lo + m)
  BY <1>4 DEF Rising
<1> QED BY <1>2, <1>5 DEF r, t

\* Two consecutive batches make one.
LEMMA BatchConcat ==
  ASSUME NEW c \in Chan, NEW lo \in Nat, NEW m \in Nat, lo + m <= MaxTs
  PROVE  Batch(c, 0, lo) \o Batch(c, lo, m) = Batch(c, 0, lo + m)
<1> DEFINE s == Batch(c, 0, lo)
           t == Batch(c, lo, m)
           r == Batch(c, 0, lo + m)
<1>0. 0 \in Nat /\ 0 + lo <= MaxTs /\ lo + m \in Nat /\ 0 + (lo + m) <= MaxTs
  BY SizeAssumption
<1>1. /\ s \in Seq(Stamp) /\ Len(s) = lo
      /\ \A i \in 1 .. lo : s[i] = Ts(c, 0 + i)
  BY <1>0, BatchFacts
<1>2. /\ t \in Seq(Stamp) /\ Len(t) = m
      /\ \A i \in 1 .. m : t[i] = Ts(c, lo + i)
  BY BatchFacts
<1>3. /\ r \in Seq(Stamp) /\ DOMAIN r = 1 .. lo + m
      /\ \A i \in 1 .. lo + m : r[i] = Ts(c, 0 + i)
  BY <1>0, BatchFacts
<1> HIDE DEF s, t, r
<1>4. /\ s \o t \in Seq(Stamp)
      /\ DOMAIN (s \o t) = 1 .. lo + m
      /\ \A i \in 1 .. lo : (s \o t)[i] = s[i]
      /\ \A i \in 1 .. m : (s \o t)[lo + i] = t[i]
  <2>1. /\ s \o t \in Seq(Stamp)
        /\ DOMAIN (s \o t) = 1 .. Len(s) + Len(t)
        /\ \A i \in 1 .. Len(s) : (s \o t)[i] = s[i]
        /\ \A i \in 1 .. Len(t) : (s \o t)[Len(s) + i] = t[i]
    BY <1>1, <1>2, ConcatFacts
  <2> QED BY <1>1, <1>2, <2>1
<1>5. ASSUME NEW i \in 1 .. lo + m PROVE (s \o t)[i] = r[i]
  <2>1. CASE i \in 1 .. lo
    BY <1>1, <1>3, <1>4, <2>1
  <2>2. CASE i \notin 1 .. lo
    <3>1. i - lo \in 1 .. m /\ i = lo + (i - lo)
      BY <2>2
    <3>2. (s \o t)[i] = Ts(c, lo + (i - lo))
      BY <1>2, <1>4, <3>1
    <3>3. lo + (i - lo) = 0 + i
      OBVIOUS
    <3> QED BY <1>3, <3>2, <3>3
  <2> QED BY <2>1, <2>2
<1>6. s \o t = r
  BY <1>3, <1>4, <1>5
<1> QED BY <1>6 DEF s, t, r

-----------------------------------------------------------------------------
(* What has been transferred *)

\* The bound is a number of timestamps.
LEMMA BoundFacts ==
  ASSUME NEW c \in Chan, HwTypeOK, HwData(c)
  PROVE  /\ Away(c) \in 0 .. MaxTs /\ Away(c) <= made[c]
         /\ curCount[c] \in Nat
         /\ Bound(c) \in 0 .. MaxTs /\ Bound(c) <= Away(c)
         /\ Carried(c) => Bound(c) + curCount[c] = Away(c)
         /\ ~Carried(c) => Bound(c) = Away(c)
<1>1. /\ Away(c) \in Int /\ count[c] \in Nat /\ curCount[c] \in Nat
      /\ made[c] \in 0 .. MaxTs /\ MaxTs \in Nat
  BY Numbers, SizeAssumption DEF HwTypeOK
<1>2. curCount[c] <= Away(c)
  BY DEF HwData, Room
<1>3. Away(c) <= made[c]
  BY <1>1 DEF Away
<1>4. /\ Carried(c) => Bound(c) = Away(c) - curCount[c]
      /\ ~Carried(c) => Bound(c) = Away(c) - 0
  BY DEF Bound
<1> HIDE DEF Away, Bound, Carried
<1> QED BY <1>1, <1>2, <1>3, <1>4

\* A step of a channel that is not the exchange of its buffers switches nothing
\* away.
LEMMA AwayStays ==
  ASSUME NEW c \in Chan, HwTypeOK, HwData(c), ~Overfill, HwStep(c),
         ~SwitchBuffers(c)
  PROVE  /\ Away(c)' = Away(c) /\ cur'[c] = cur[c]
         /\ curCount'[c] = curCount[c]
<1> USE DEF HwTypeOK, Away
<1>0. count[c] \in Nat /\ made[c] \in Nat /\ cur[c].valid
  BY Numbers DEF HwData, Room
<1>1. CASE OpenBurst(c)
  BY <1>0, <1>1 DEF OpenBurst
<1>2. CASE BufferFull(c)
  BY <1>2 DEF BufferFull, dmaVars
<1>3. ~DropTs(c)
  BY <1>0 DEF DropTs
<1>4. CASE LeaveIdle(c)
  BY <1>4 DEF LeaveIdle, dmaVars
<1>5. CASE Serialise(c)
  BY <1>0, <1>5 DEF Serialise
<1>6. CASE CloseBurst(c)
  BY <1>6 DEF CloseBurst
<1>7. CASE NextTs(c)
  BY <1>0, <1>7 DEF NextTs, dmaVars
<1>8. CASE IrqTimer(c)
  BY <1>8 DEF IrqTimer, dmaVars
<1>9. CASE StartBurst(c) \/ WriteTs(c) \/ EndBurst(c) \/ Acked(c) \/ PopLast(c)
           \/ DdrAck(c)
  BY <1>9 DEF StartBurst, WriteTs, EndBurst, Acked, PopLast, DdrAck, fsmVars
<1> QED BY <1>1, <1>2, <1>3, <1>4, <1>5, <1>6, <1>7, <1>8, <1>9 DEF HwStep

\* The exchange of the buffers: what was in the current buffer is carried from
\* then on, and none of it is past the bound.
LEMMA SwitchBound ==
  ASSUME NEW c \in Chan, IInv, DataInv, SwitchBuffers(c), DriverUnchanged
  PROVE  /\ Bound(c)' = Bound(c) /\ ~Carried(c) /\ Carried(c)'
         /\ curCount'[c] > 0
<1>0. /\ TypeOK /\ HwTypeOK /\ HwData(c) /\ Phase(c)
      /\ active[c] \in Buf /\ active' = active /\ wpc' = wpc /\ ch' = ch
      /\ dmaq' = dmaq
  BY DEF IInv, TypeOK, DriverTypeOK, DataInv, DriverUnchanged, workVars,
         dmaEngVars
<1>1. wst[c] = "SWITCH_BUFFERS"
  BY DEF SwitchBuffers
<1>2. At(c, "spin") /\ Asked(c) /\ irqReq[c] /\ nxt[c].base = Other(c)
  BY <1>0, <1>1, WhoSwitches
<1>3. /\ cur[c].base = BufAddr(c, active[c])
      /\ Other(c) # cur[c].base
  <2>1. cur[c].base = BufAddr(c, active[c])
    BY <1>2 DEF Asked, Current
  <2>2. cur[c].base \in Nat /\ Other(c) \in Nat /\ Apart(cur[c].base, Other(c))
    BY <1>0, Numbers
  <2> QED BY <2>1, <2>2, SizeAssumption DEF Apart
<1>4. ~InEngine(c)
  BY <1>2 DEF IInv, ChanInv, InEngine, At
<1>5. ~Carried(c)
  BY <1>2, <1>3, <1>4 DEF Carried, At
<1>6. /\ cur'[c] = nxt[c] /\ count'[c] = 0 /\ curCount'[c] = count[c]
      /\ wst'[c] = "IDLE" /\ made'[c] = made[c]
  BY <1>0 DEF SwitchBuffers, CountAtSwitch, HwTypeOK
<1>7. Carried(c)'
  BY <1>0, <1>2, <1>3, <1>6 DEF Carried, At, BufAddr
<1>8. count[c] \in Nat /\ made[c] \in Nat /\ (count[c] > 0)
  BY <1>0, <1>1, <1>2, Numbers DEF HwData, Room
<1>9. Away(c) = made[c] - count[c] /\ Away(c)' = made[c]
  BY <1>1, <1>6, <1>8 DEF Away
<1>10. Bound(c) = made[c] - count[c]
  BY <1>5, <1>8, <1>9 DEF Bound
<1>11. Bound(c)' = made[c] - count[c]
  BY <1>6, <1>7, <1>8, <1>9 DEF Bound
<1> QED BY <1>5, <1>6, <1>7, <1>8, <1>10, <1>11

\* A step of the gateware moves no bound.
LEMMA HwBound ==
  ASSUME IInv, DataInv, ~Overfill, NEW c \in Chan, HwStep(c), DriverUnchanged,
         NEW d \in Chan
  PROVE  /\ Bound(d)' = Bound(d)
         /\ Carried(d) => Carried(d)' /\ curCount'[d] = curCount[d]
         /\ Carried(d)' /\ ~Carried(d) => curCount'[d] > 0
<1>0. /\ HwTypeOK /\ HwData(c) /\ active' = active /\ wpc' = wpc /\ ch' = ch
      /\ dmaq' = dmaq
  BY DEF IInv, TypeOK, DataInv, DriverUnchanged, workVars, dmaEngVars
<1>1. CASE d = c /\ SwitchBuffers(c)
  BY <1>1, SwitchBound
<1>2. CASE d # c \/ ~SwitchBuffers(c)
  <2>1. Away(d)' = Away(d) /\ cur'[d] = cur[d] /\ curCount'[d] = curCount[d]
    <3>1. CASE d = c
      BY <1>0, <1>2, <3>1, AwayStays
    <3>2. CASE d # c
      <4>1. View(d)' = View(d)
        BY <1>0, <3>2, OtherChannels
      <4> QED BY <4>1 DEF View, Away
    <3> QED BY <3>1, <3>2
  <2>2. Carried(d)' <=> Carried(d)
    BY <1>0, <2>1 DEF Carried, At, InEngine, BufAddr
  <2> QED BY <2>1, <2>2 DEF Bound
<1> QED BY <1>1, <1>2

\* A step of the driver moves the bound when a buffer is carried no more.
LEMMA DriverBound ==
  ASSUME IInv, DataInv, HwSame, NEW c \in Chan,
         Carried(c)' => Carried(c)
  PROVE  /\ Bound(c)' \in 0 .. MaxTs /\ Bound(c) <= Bound(c)'
         /\ Carried(c) => Carried(c)' \/ Bound(c)' = Bound(c) + curCount[c]
         /\ (Carried(c) => Carried(c)') => Bound(c)' = Bound(c)
<1>1. /\ HwTypeOK /\ HwData(c) /\ Away(c)' = Away(c)
      /\ curCount' = curCount
  BY DEF IInv, TypeOK, DataInv, HwSame, Away
<1>2. /\ Away(c) \in 0 .. MaxTs /\ curCount[c] \in Nat
      /\ Bound(c) \in 0 .. MaxTs /\ Bound(c) <= Away(c)
      /\ Carried(c) => Bound(c) + curCount[c] = Away(c)
      /\ ~Carried(c) => Bound(c) = Away(c)
  BY <1>1, BoundFacts
<1>3. ASSUME Carried(c)' PROVE Bound(c)' = Bound(c)
  BY <1>1, <1>3 DEF Bound
<1>4. ASSUME ~Carried(c)' PROVE Bound(c)' = Away(c)
  <2>1. Bound(c)' = Away(c) - 0
    BY <1>1, <1>4 DEF Bound
  <2> QED BY <1>2, <2>1
<1> HIDE DEF Bound, Carried, Away
<1> QED BY <1>2, <1>3, <1>4

-----------------------------------------------------------------------------
(* What the reader gets *)

\* A descriptor.
LEMMA InQueue ==
  ASSUME IInv, NEW i \in DOMAIN dmaq
  PROVE  /\ dmaq[i].chan \in Chan /\ dmaq[i].src \in Nat
         /\ dmaq[i].len \in Nat /\ dmaq[i].live \in BOOLEAN
<1>1. dmaq[i] \in Transfer
  BY DEF IInv, TypeOK, DriverTypeOK
<1> QED BY <1>1 DEF Transfer

\* A step that leaves the blocks, the engine and the reader alone.
LEMMA ReaderFrame ==
  ASSUME IInv, DataInv, ReaderInv,
         UNCHANGED <<out, block, tail, armed, dmaq>>,
         \A c \in Chan : /\ Bound(c)' \in Nat /\ Bound(c) <= Bound(c)'
                         /\ InEngine(c) => curCount'[c] = curCount[c]
                         /\ At(c, "submit")' => /\ At(c, "submit")
                                                /\ curCount'[c] = curCount[c]
                         /\ At(c, "submit") /\ block[c] # {}
                              => At(c, "submit")'
  PROVE  ReaderInv'
<1>1. ASSUME NEW c \in Chan PROVE Delivered(c)'
  <2>1. /\ Bound(c) \in Nat /\ Bound(c)' \in Nat /\ Bound(c) <= Bound(c)'
    <3>1. Bound(c) \in 0 .. MaxTs
      BY BoundFacts DEF IInv, TypeOK, DataInv
    <3> QED BY <3>1
  <2>2. Delivered(c)
    BY DEF ReaderInv
  <2>3. CASE c \in tail /\ block[c] # {}
    <3>1. PICK lo \in Nat, m \in Nat : /\ Rising(out[c], c, lo)
                                       /\ block[c] = {Batch(c, lo, m)}
                                       /\ lo + m <= Bound(c)
      BY <2>2, <2>3 DEF Delivered
    <3>2. lo + m <= Bound(c)'
      BY <2>1, <3>1
    <3> QED BY <2>3, <3>1, <3>2 DEF Delivered
  <2>4. CASE ~(c \in tail /\ block[c] # {})
    <3>1. Rising(out[c], c, Bound(c))
      BY <2>2, <2>4 DEF Delivered
    <3>2. Rising(out[c], c, Bound(c)')
      BY <2>1, <3>1, RisingUp
    <3> QED BY <2>4, <3>2 DEF Delivered
  <2> QED BY <2>3, <2>4
<1>2. ASSUME NEW c \in Chan PROVE Block(c)'
  BY DEF ReaderInv, Block, InEngine
<1>3. Engaged'
  <2> SUFFICES ASSUME NEW i \in DOMAIN dmaq
               PROVE  LET c == dmaq[i].chan
                      IN  /\ c \notin tail
                          /\ dmaq[i].len = curCount'[c]
                          /\ dmaq[i].live <=> block[c] # {}
    BY DEF Engaged
  <2>1. dmaq[i].chan \in Chan
    BY InQueue
  <2> QED BY <2>1 DEF ReaderInv, Engaged, InEngine
<1> QED BY <1>1, <1>2, <1>3 DEF ReaderInv

\* A step of the gateware.
LEMMA HwReader ==
  ASSUME IInv, DataInv, ReaderInv, ~Overfill,
         NEW c \in Chan, HwStep(c), DriverUnchanged
  PROVE  ReaderInv'
<1>1. UNCHANGED <<out, block, tail, armed, dmaq, wpc, ch>>
  BY DEF DriverUnchanged, zioVars, dmaEngVars, workVars
<1>2. ASSUME NEW d \in Chan
      PROVE  /\ Bound(d)' \in Nat /\ Bound(d) <= Bound(d)'
             /\ InEngine(d) => curCount'[d] = curCount[d]
             /\ At(d, "submit") => curCount'[d] = curCount[d]
  <2>1. /\ Bound(d)' = Bound(d)
        /\ Carried(d) => curCount'[d] = curCount[d]
    BY HwBound
  <2>2. Bound(d) \in 0 .. MaxTs
    BY BoundFacts DEF IInv, TypeOK, DataInv
  <2>3. InEngine(d) \/ At(d, "submit") => Carried(d)
    BY DEF Carried, At
  <2>4. Bound(d)' \in Nat /\ Bound(d) <= Bound(d)'
    BY <2>1, <2>2
  <2> QED BY <2>1, <2>3, <2>4
<1> QED BY <1>1, <1>2, ReaderFrame DEF At

\* Nothing fails.
LEMMA NoFails == ASSUME IInv, MaxFails = 0 PROVE ~(fails < MaxFails)
<1>1. fails \in 0 .. MaxFails
  BY DEF IInv, TypeOK, DriverTypeOK
<1> QED BY <1>1

\* The steps of the driver that concern neither the blocks nor the engine.
QuietStep ==
  \/ Handler
  \/ WorkStart \/ WorkNext \/ SwitchRead \/ SwitchWrite \/ SwitchSpin
  \/ SwitchClear \/ SwitchBase \/ SwitchSize \/ ReadCount
  \/ WorkIssue \/ WorkNothing
  \/ \E c \in Chan : EnableInput(c) \/ DisableInput(c) \/ SetTimeoutRead(c)
  \/ SetTimeoutWrite

\* They carry the buffer switched away along.
LEMMA QuietCarries ==
  ASSUME IInv, DataInv, MaxFails = 0, QuietStep
  PROVE  /\ HwSame /\ UNCHANGED <<out, block, tail, armed, dmaq>>
         /\ (wpc # "submit" /\ wpc' # "submit") \/ UNCHANGED <<wpc, ch>>
         /\ \A c \in Chan : Carried(c)' <=> Carried(c)
<1> USE DEF hwVars, fsmVars, dmaVars, irqVars, zioVars, dmaEngVars, userVars
<1>0. ch \in Chan /\ Phase(ch) /\ HwTypeOK /\ HwData(ch) /\ active[ch] \in Buf
      /\ active \in [Chan -> Buf]
  BY DEF IInv, TypeOK, DriverTypeOK, DataInv
<1>1. HwSame /\ UNCHANGED <<out, block, tail, armed, dmaq>>
  BY DEF QuietStep, Handler, IrqEntry, IrqHandled, IrqNone, WorkStart, WorkNext,
         SwitchRead, SwitchWrite, SwitchSpin, SwitchClear, SwitchBase,
         SwitchSize, ReadCount, WorkIssue, WorkNothing, EnableInput, DisableInput,
         SetTimeoutRead, SetTimeoutWrite, HwSame
<1>2. cur' = cur
  BY <1>1 DEF HwSame
<1>3. CASE Handler \/ SetTimeoutWrite
           \/ \E c \in Chan : \/ EnableInput(c) \/ DisableInput(c)
                               \/ SetTimeoutRead(c)
  <2>1. UNCHANGED <<wpc, ch, active>>
    BY <1>3 DEF Handler, IrqEntry, IrqHandled, IrqNone, workVars,
                SetTimeoutWrite, EnableInput, DisableInput, SetTimeoutRead
  <2> QED BY <1>1, <1>2, <2>1 DEF Carried, At, InEngine, BufAddr
<1>4. CASE WorkStart \/ WorkNext \/ SwitchRead \/ WorkIssue \/ WorkNothing
  <2>1. /\ wpc \in {"idle", "next", "read"}
        /\ wpc' \in {"idle", "next", "read", "write"}
    BY <1>4 DEF WorkStart, WorkNext, SwitchRead, WorkIssue, WorkNothing,
                WorkGoto
  <2> QED BY <1>1, <2>1 DEF Carried, At, InEngine
<1>5. CASE SwitchWrite
  <2>1. wpc = "write" /\ wpc' = "spin" /\ ch' = ch /\ active' = active
    BY <1>5 DEF SwitchWrite, WorkGoto
  <2>2. cur[ch].base = BufAddr(ch, active[ch])
    BY <1>0, <2>1 DEF Phase, Settled, Current
  <2>3. \A c \in Chan : Carried(c)' <=> Carried(c)
    BY <1>1, <1>2, <2>1, <2>2 DEF Carried, At, InEngine, BufAddr
  <2> QED BY <1>1, <2>1, <2>3
<1>6. CASE SwitchSpin
  <2>1. wpc = "spin" /\ wpc' = "clear" /\ ch' = ch /\ done[ch]
    BY <1>6 DEF SwitchSpin, WorkGoto
  <2>2. cur[ch].base = BufAddr(ch, 1 - active[ch])
    BY <1>0, <2>1 DEF Phase, At, Spinning, Asked, Switched, Current
  <2>3. cur[ch].base # BufAddr(ch, active[ch])
    <3>1. 1 - active[ch] \in Buf /\ 1 - (1 - active[ch]) = active[ch]
      BY <1>0 DEF Buf
    <3>2. Other(ch) = BufAddr(ch, 1 - (1 - active[ch]))
      BY <1>0, <2>2, <3>1, OwnBuffers DEF HwData
    <3>3. cur[ch].base \in Nat /\ Other(ch) \in Nat
          /\ Apart(cur[ch].base, Other(ch))
      BY <1>0, Numbers
    <3>4. cur[ch].base # Other(ch)
      BY <3>3, SizeAssumption DEF Apart
    <3> QED BY <3>1, <3>2, <3>4
  <2>4. \A c \in Chan : Carried(c)' <=> Carried(c)
    BY <1>1, <1>2, <2>1, <2>3 DEF Carried, At, InEngine
  <2> QED BY <1>1, <2>1, <2>4
<1>7. CASE SwitchClear \/ SwitchBase \/ SwitchSize \/ ReadCount
  <2>1. /\ wpc \in {"clear", "base", "size", "count"} /\ ch' = ch
        /\ wpc' \in {"base", "size", "count", "arm"}
    BY <1>7, NoFails DEF SwitchClear, SwitchBase, SwitchSize, ReadCount,
                         WorkGoto, ConfigFails
  <2> QED BY <1>1, <2>1 DEF Carried, At, InEngine
<1> QED BY <1>3, <1>4, <1>5, <1>6, <1>7 DEF QuietStep

\* A quiet step of the driver.
LEMMA QuietReader ==
  ASSUME IInv, DataInv, ReaderInv, MaxFails = 0, QuietStep
  PROVE  ReaderInv'
<1>1. /\ HwSame /\ UNCHANGED <<out, block, tail, armed, dmaq>>
      /\ (wpc # "submit" /\ wpc' # "submit") \/ UNCHANGED <<wpc, ch>>
      /\ \A c \in Chan : Carried(c)' <=> Carried(c)
  BY QuietCarries
<1>2. \A c \in Chan : Bound(c)' \in Nat /\ Bound(c) <= Bound(c)'
  <2> SUFFICES ASSUME NEW c \in Chan
               PROVE  Bound(c)' \in Nat /\ Bound(c) <= Bound(c)'
    OBVIOUS
  <2>1. Bound(c)' \in 0 .. MaxTs /\ Bound(c) <= Bound(c)'
    BY <1>1, DriverBound
  <2> QED BY <2>1
<1>3. curCount' = curCount
  BY <1>1 DEF HwSame
<1> QED BY <1>1, <1>2, <1>3, ReaderFrame DEF At

\* zio_arm_trigger meets an input without a block.
LEMMA ArmEmpty ==
  ASSUME IInv, ReaderInv, wpc = "arm", ch \notin tail
  PROVE  ~InEngine(ch) /\ block[ch] = {}
<1>1. ~InEngine(ch)
  BY DEF IInv, ChanInv, InEngine
<1>2. Block(ch)
  BY DEF IInv, TypeOK, DriverTypeOK, ReaderInv
<1> QED BY <1>1, <1>2 DEF Block, At

\* zio_arm_trigger: the trigger is armed, with a block for the whole buffer.
LEMMA ArmReader ==
  ASSUME IInv, DataInv, ReaderInv, MaxFails = 0, QuickTail,
         ArmTrigger
  PROVE  ReaderInv'
<1>0. /\ ch \in Chan /\ armed \in [Chan -> BOOLEAN]
      /\ block = [c \in Chan |-> block[c]] /\ nsamples[ch] \in Nat
      /\ nsamples[ch] = curCount[ch]
  BY DEF IInv, TypeOK, DriverTypeOK, DataInv, Driver, ArmTrigger
<1>1. /\ wpc = "arm" /\ wpc' = "submit" /\ ch' = ch /\ ch \notin tail
      /\ armed' = [armed EXCEPT ![ch] = TRUE]
      /\ UNCHANGED <<out, tail, dmaq>>
      /\ \/ block' = [block EXCEPT ![ch] = {[i \in 1 .. nsamples[ch] |-> Junk]}]
         \/ block' = block
  BY NoFails DEF ArmTrigger, dmaEngVars
<1>2. HwSame
  BY DEF ArmTrigger, HwSame, hwVars, fsmVars, dmaVars
<1>3. ~InEngine(ch) /\ block[ch] = {}
  BY <1>1, ArmEmpty
<1>4. /\ armed'[ch] = TRUE
      /\ \A data \in block'[ch] : Len(data) = curCount[ch]
      /\ \A c \in Chan : c # ch => armed'[c] = armed[c] /\ block'[c] = block[c]
  <2>1. Len([i \in 1 .. nsamples[ch] |-> Junk]) = nsamples[ch]
    BY <1>0
  <2> QED BY <1>0, <1>1, <1>3, <2>1
<1>5. ASSUME NEW c \in Chan PROVE Bound(c)' = Bound(c)
  <2>1. Carried(c)' <=> Carried(c)
    BY <1>1 DEF Carried, At, InEngine
  <2> QED BY <1>2, <2>1, DriverBound
<1>6. ASSUME NEW c \in Chan PROVE Delivered(c)'
  <2>1. Delivered(c)
    BY DEF ReaderInv
  <2>2. CASE c = ch
    BY <1>1, <1>5, <2>1, <2>2 DEF Delivered
  <2>3. CASE c # ch
    BY <1>1, <1>4, <1>5, <2>1, <2>3 DEF Delivered
  <2> QED BY <2>2, <2>3
<1>7. ASSUME NEW c \in Chan PROVE Block(c)'
  <2>1. Block(c)
    BY DEF ReaderInv
  <2>2. curCount' = curCount
    BY <1>2 DEF HwSame
  <2> QED BY <1>1, <1>4, <2>1, <2>2 DEF Block, At, InEngine
<1>8. Engaged'
  <2> SUFFICES ASSUME NEW i \in DOMAIN dmaq
               PROVE  LET c == dmaq[i].chan
                      IN  /\ c \notin tail
                          /\ dmaq[i].len = curCount[c]
                          /\ dmaq[i].live <=> block'[c] # {}
    BY <1>1, <1>2 DEF Engaged, HwSame
  <2>1. dmaq[i].chan \in Chan /\ dmaq[i].chan # ch
    BY <1>3, InQueue DEF InEngine
  <2> QED BY <1>4, <2>1 DEF ReaderInv, Engaged
<1>9. out' \in [Chan -> Seq(Stamp)]
  BY <1>1 DEF ReaderInv
<1> QED BY <1>6, <1>7, <1>8, <1>9 DEF ReaderInv

\* One transfer more, for the whole buffer.
LEMMA SubmitFacts ==
  ASSUME IInv, DataInv, ReaderInv, Submit
  PROVE  /\ ch \in Chan /\ wpc = "submit" /\ wpc' = "next" /\ block[ch] # {}
         /\ ch \notin tail
         /\ HwSame /\ UNCHANGED <<out, block, tail, armed, ch>>
         /\ DOMAIN dmaq' = 1 .. Len(dmaq) + 1
         /\ \A i \in 1 .. Len(dmaq) : i \in DOMAIN dmaq /\ dmaq'[i] = dmaq[i]
         /\ LET t == dmaq'[Len(dmaq) + 1]
            IN  t.chan = ch /\ t.len = curCount[ch] /\ t.live = TRUE
         /\ Len(dmaq) \in Nat
         /\ \A c \in Chan : /\ InEngine(c)' <=> InEngine(c) \/ c = ch
                            /\ Carried(c)' <=> Carried(c)
                            /\ Bound(c)' = Bound(c)
<1>0. /\ ch \in Chan /\ dmaq \in Seq(Transfer) /\ wpc = "submit"
      /\ wpc' = "next" /\ block[ch] # {}
      /\ UNCHANGED <<out, block, tail, armed, ch>>
  BY DEF IInv, TypeOK, DriverTypeOK, Submit, WorkGoto, CanAcquire, zioVars
<1>1. HwSame
  BY DEF Submit, HwSame, hwVars, fsmVars, dmaVars
<1>2. ch \notin tail /\ \A data \in block[ch] : Len(data) = curCount[ch]
  BY <1>0 DEF ReaderInv, Block, At
<1>3. PICK t : /\ dmaq' = Append(dmaq, t) /\ t.chan = ch
               /\ t.len = curCount[ch] /\ t.live = TRUE
  BY <1>2 DEF Submit
<1>4. /\ Len(dmaq) \in Nat /\ DOMAIN dmaq = 1 .. Len(dmaq)
      /\ DOMAIN dmaq' = 1 .. Len(dmaq) + 1
      /\ \A i \in 1 .. Len(dmaq) : dmaq'[i] = dmaq[i]
      /\ dmaq'[Len(dmaq) + 1] = t
  BY <1>0, <1>3
<1>5. ASSUME NEW c \in Chan
      PROVE  InEngine(c)' <=> InEngine(c) \/ c = ch
  <2>1. InEngine(c) => InEngine(c)'
    BY <1>4 DEF InEngine
  <2>2. c = ch => InEngine(c)'
    <3>1. Len(dmaq) + 1 \in DOMAIN dmaq'
      BY <1>4
    <3> QED BY <1>3, <1>4, <3>1 DEF InEngine
  <2>3. ASSUME NEW i \in DOMAIN dmaq', dmaq'[i].chan = c, c # ch
        PROVE  i \in DOMAIN dmaq /\ dmaq[i].chan = c
    BY <1>3, <1>4, <2>3
  <2> QED BY <2>1, <2>2, <2>3 DEF InEngine
<1>6. ASSUME NEW c \in Chan
      PROVE  (Carried(c)' <=> Carried(c)) /\ Bound(c)' = Bound(c)
  <2>1. Carried(c)' <=> Carried(c)
    BY <1>0, <1>5 DEF Carried, At
  <2>2. Bound(c)' = Bound(c)
    BY <1>1, <2>1, DriverBound
  <2> QED BY <2>1, <2>2
<1> QED BY <1>0, <1>1, <1>2, <1>3, <1>4, <1>5, <1>6

\* The transfer of a whole buffer is submitted.
LEMMA SubmitReader ==
  ASSUME IInv, DataInv, ReaderInv, Submit
  PROVE  ReaderInv'
<1> DEFINE n == Len(dmaq)
           t == dmaq'[n + 1]
<1>1. /\ ch \in Chan /\ wpc = "submit" /\ wpc' = "next" /\ block[ch] # {}
      /\ ch \notin tail
      /\ HwSame /\ UNCHANGED <<out, block, tail, armed, ch>>
      /\ n \in Nat /\ DOMAIN dmaq' = 1 .. n + 1
      /\ \A i \in 1 .. n : i \in DOMAIN dmaq /\ dmaq'[i] = dmaq[i]
      /\ t.chan = ch /\ t.len = curCount[ch] /\ t.live = TRUE
      /\ \A c \in Chan : /\ InEngine(c)' <=> InEngine(c) \/ c = ch
                         /\ Bound(c)' = Bound(c)
  BY SubmitFacts
<1>2. ASSUME NEW c \in Chan PROVE Delivered(c)'
  BY <1>1 DEF ReaderInv, Delivered
<1>3. ASSUME NEW c \in Chan PROVE Block(c)'
  <2>1. Block(c)
    BY DEF ReaderInv
  <2> QED BY <1>1, <2>1 DEF Block, At
<1>4. Engaged'
  <2> SUFFICES ASSUME NEW i \in DOMAIN dmaq'
               PROVE  LET c == dmaq'[i].chan
                      IN  /\ c \notin tail
                          /\ dmaq'[i].len = curCount[c]
                          /\ dmaq'[i].live <=> block[c] # {}
    BY <1>1 DEF Engaged, HwSame
  <2>1. CASE i \in 1 .. n
    BY <1>1, <2>1 DEF ReaderInv, Engaged
  <2>2. CASE i = n + 1
    BY <1>1, <2>2
  <2> QED BY <1>1, <2>1, <2>2
<1>5. out' \in [Chan -> Seq(Stamp)]
  BY <1>1 DEF ReaderInv
<1> QED BY <1>2, <1>3, <1>4, <1>5 DEF ReaderInv

\* Without errors, whatever is to be transferred can be mapped.
LEMMA AlwaysMaps == ASSUME IInv, MaxFails = 0 PROVE ~MapFails
BY NoFails DEF MapFails, ConfigFails

\* A transfer that cannot be submitted has no block to read into.
LEMMA NoSubmitReader ==
  ASSUME IInv, DataInv, ReaderInv, MaxFails = 0, SubmitFails
  PROVE  ReaderInv'
<1>0. /\ ch \in Chan /\ wpc = "submit" /\ wpc' = "next" /\ ch' = ch
      /\ UNCHANGED <<out, block, tail, armed, dmaq>> /\ ~CanAcquire(ch)
  BY NoFails DEF IInv, TypeOK, DriverTypeOK, SubmitFails, WorkGoto, ConfigFails,
                 zioVars, dmaEngVars
<1>1. HwSame
  BY DEF SubmitFails, HwSame, hwVars, fsmVars, dmaVars
<1>2. block[ch] = {}
  BY <1>0 DEF CanAcquire, ReaderInv, Block
<1>3. ASSUME NEW c \in Chan PROVE Bound(c)' \in Nat /\ Bound(c) <= Bound(c)'
  <2>1. Carried(c)' => Carried(c)
    BY <1>0 DEF Carried, At, InEngine
  <2>2. Bound(c)' \in 0 .. MaxTs /\ Bound(c) <= Bound(c)'
    BY <1>1, <2>1, DriverBound
  <2> QED BY <2>2
<1>4. curCount' = curCount
  BY <1>1 DEF HwSame
<1> QED BY <1>0, <1>2, <1>3, <1>4, ReaderFrame DEF At

\* What the engine reads: the buffer that was switched away last.
LEMMA FetchedBatch ==
  ASSUME IInv, DataInv, ReaderInv, NEW i \in DOMAIN dmaq
  PROVE  LET c == dmaq[i].chan
             lo == Away(c) - curCount[c]
         IN  /\ lo \in 0 .. MaxTs /\ curCount[c] \in Nat
             /\ lo + curCount[c] = Away(c) /\ Away(c) <= MaxTs
             /\ Fetch(dmaq[i]) = Batch(c, lo, curCount[c])
<1> DEFINE c == dmaq[i].chan
           m == curCount[c]
           lo == Away(c) - m
<1>1. /\ c \in Chan /\ active[c] \in Buf /\ HwTypeOK /\ HwData(c) /\ Phase(c)
  <2>1. c \in Chan
    BY InQueue
  <2> QED BY <2>1 DEF IInv, TypeOK, DriverTypeOK, DataInv
<1>2. c # ch \/ wpc \notin {"spin", "clear", "base", "size"}
  BY DEF IInv, ChanInv
<1>3. cur[c].base = BufAddr(c, active[c]) /\ NoLast(fifo[c])
  BY <1>1, <1>2 DEF Phase, Settled, Current
<1>4. /\ lo \in 0 .. MaxTs /\ Away(c) \in 0 .. MaxTs
      /\ \A k \in 1 .. m : mem[BufAddr(c, 1 - active[c]) + k - 1]
                             = Ts(c, lo + k)
  BY <1>1, <1>3, BufferHolds
<1>5. m \in Nat
  BY <1>1, Numbers
<1>6. dmaq[i].len = m /\ dmaq[i].src = BufAddr(c, 1 - active[c])
  BY DEF ReaderInv, Engaged, DataInv, Driver
<1>7. Fetch(dmaq[i]) = Batch(c, lo, m)
  BY <1>4, <1>6 DEF Fetch, Batch
<1>8. lo + m = Away(c)
  <2> HIDE DEF m
  <2>1. lo = Away(c) - m /\ Away(c) \in Nat /\ m \in Nat
    BY <1>4, <1>5 DEF lo
  <2> HIDE DEF lo
  <2> QED BY <2>1
<1>9. Away(c) <= MaxTs
  BY <1>4
<1> QED BY <1>4, <1>5, <1>7, <1>8, <1>9

\* What ft_dma_complete finds: a whole buffer in the active block, if any.
LEMMA CompleteFacts ==
  ASSUME IInv, DataInv, ReaderInv, DmaComplete, NEW d, d = dmaq[1].chan
  PROVE  /\ d \in Chan /\ tail = {} /\ tail' = {d} /\ wpc = "idle"
         /\ HwSame /\ UNCHANGED <<out, armed, wpc, ch>>
         /\ \A i \in DOMAIN dmaq' : /\ i + 1 \in DOMAIN dmaq
                                    /\ dmaq'[i] = dmaq[i + 1]
                                    /\ dmaq'[i].chan # d
         /\ InEngine(d)
         /\ \A c \in Chan : /\ InEngine(c)' <=> InEngine(c) /\ c # d
                            /\ Carried(c)' => Carried(c)
                            /\ Bound(c) \in Nat /\ Bound(c)' \in Nat
                            /\ Bound(c) <= Bound(c)'
                            /\ c # d => /\ Bound(c)' = Bound(c)
                                        /\ block'[c] = block[c]
         /\ curCount[d] \in Nat /\ Bound(d)' = Bound(d) + curCount[d]
         /\ IF block[d] = {}
            THEN block'[d] = {}
            ELSE block'[d] = {Batch(d, Bound(d), curCount[d])}
<1> DEFINE t == dmaq[1]
<1>0. /\ dmaq \in Seq(Transfer) /\ dmaq # <<>> /\ tail = {}
      /\ block = [c \in Chan |-> block[c]]
      /\ UNCHANGED <<out, armed, wpc, ch>> /\ dmaq' = Tail(dmaq)
      /\ wpc = "idle"
  BY DEF IInv, TypeOK, DriverTypeOK, CycleInv, DmaComplete, workVars
<1>1. /\ Len(dmaq) \in Nat /\ DOMAIN dmaq = 1 .. Len(dmaq)
      /\ DOMAIN dmaq' = 1 .. Len(dmaq) - 1
      /\ \A i \in 1 .. Len(dmaq) - 1 : dmaq'[i] = dmaq[i + 1]
      /\ 1 \in DOMAIN dmaq /\ Head(dmaq) = t /\ t.chan = d
  BY <1>0, TailFacts
<1>2. /\ d \in Chan
      /\ block' = [block EXCEPT ![d] = IF t.live THEN {Fetch(t)} ELSE @]
      /\ tail' = {d}
  BY <1>1, InQueue DEF DmaComplete
<1>3. HwSame
  BY DEF DmaComplete, HwSame, hwVars, fsmVars, dmaVars
<1>4. \A i \in DOMAIN dmaq' : /\ i + 1 \in DOMAIN dmaq /\ i + 1 # 1
                              /\ dmaq'[i] = dmaq[i + 1]
  BY <1>1
<1>5. \A i \in DOMAIN dmaq' : dmaq'[i].chan # d
  BY <1>1, <1>4 DEF IInv, ChanInv, OneTransferPerInput
<1>6. ASSUME NEW c \in Chan
      PROVE  /\ InEngine(c)' <=> InEngine(c) /\ c # d
             /\ InEngine(d)
  <2>1. InEngine(d)
    BY <1>1 DEF InEngine
  <2>2. InEngine(c)' => InEngine(c) /\ c # d
    BY <1>4, <1>5 DEF InEngine
  <2>3. ASSUME NEW i \in DOMAIN dmaq, dmaq[i].chan = c, c # d
        PROVE  InEngine(c)'
    <3>1. i # 1
      BY <2>3
    <3>2. i - 1 \in DOMAIN dmaq' /\ (i - 1) + 1 = i
      BY <1>1, <3>1
    <3>3. dmaq'[i - 1] = dmaq[i]
      BY <1>4, <3>2
    <3> QED BY <2>3, <3>2, <3>3 DEF InEngine
  <2> QED BY <2>1, <2>2, <2>3 DEF InEngine
<1>7. \A c \in Chan : Carried(c) <=> InEngine(c)
  BY <1>0 DEF Carried, At
<1>8. \A c \in Chan : Carried(c)' <=> InEngine(c)'
  BY <1>0 DEF Carried, At
<1>9. ASSUME NEW c \in Chan
      PROVE  /\ Bound(c) \in Nat /\ Bound(c)' \in Nat /\ Bound(c) <= Bound(c)'
             /\ c # d => Bound(c)' = Bound(c)
             /\ c = d => Bound(c)' = Bound(c) + curCount[c]
  <2>1. /\ Bound(c)' \in 0 .. MaxTs /\ Bound(c) <= Bound(c)'
        /\ Carried(c) => Carried(c)' \/ Bound(c)' = Bound(c) + curCount[c]
        /\ (Carried(c) => Carried(c)') => Bound(c)' = Bound(c)
    BY <1>3, <1>6, <1>7, <1>8, DriverBound
  <2>2. Bound(c) \in 0 .. MaxTs
    BY BoundFacts DEF IInv, TypeOK, DataInv
  <2> QED BY <1>6, <1>7, <1>8, <2>1, <2>2
<1>10. \A c \in Chan : c # d => block'[c] = block[c]
  BY <1>0, <1>2
<1>11. /\ t.live => block'[d] = {Fetch(t)} /\ block[d] # {}
       /\ ~t.live => block'[d] = {} /\ block[d] = {}
  <2>1. t.live <=> block[d] # {}
    BY <1>1 DEF ReaderInv, Engaged
  <2> QED BY <1>0, <1>2, <2>1
<1>12. /\ Bound(d) \in Nat /\ curCount[d] \in Nat
       /\ Fetch(t) = Batch(d, Bound(d), curCount[d])
  <2>1. /\ curCount[d] \in Nat
        /\ Away(d) - curCount[d] \in 0 .. MaxTs
        /\ Fetch(t) = Batch(d, Away(d) - curCount[d], curCount[d])
    BY <1>1, FetchedBatch
  <2>2. Bound(d) = Away(d) - curCount[d]
    BY <1>2, <1>6, <1>7 DEF Bound
  <2> QED BY <2>1, <2>2
<1> QED BY <1>0, <1>2, <1>3, <1>4, <1>5, <1>6, <1>7, <1>8, <1>9, <1>10,
          <1>11, <1>12

\* ft_dma_complete, up to zio_trigger_data_done.
LEMMA CompleteReader ==
  ASSUME IInv, DataInv, ReaderInv, DmaComplete
  PROVE  ReaderInv'
<1>0. PICK d : d = dmaq[1].chan
  OBVIOUS
<1>1. /\ d \in Chan /\ tail = {} /\ tail' = {d} /\ wpc = "idle"
      /\ HwSame /\ UNCHANGED <<out, armed, wpc, ch>>
      /\ \A i \in DOMAIN dmaq' : /\ i + 1 \in DOMAIN dmaq
                                 /\ dmaq'[i] = dmaq[i + 1]
                                 /\ dmaq'[i].chan # d
      /\ InEngine(d)
      /\ \A c \in Chan : /\ InEngine(c)' <=> InEngine(c) /\ c # d
                         /\ Bound(c) \in Nat /\ Bound(c)' \in Nat
                         /\ Bound(c) <= Bound(c)'
                         /\ c # d => block'[c] = block[c]
      /\ curCount[d] \in Nat /\ Bound(d)' = Bound(d) + curCount[d]
      /\ IF block[d] = {}
         THEN block'[d] = {}
         ELSE block'[d] = {Batch(d, Bound(d), curCount[d])}
  BY <1>0, CompleteFacts
<1>2. ASSUME NEW c \in Chan PROVE Delivered(c)'
  <2>1. Rising(out[c], c, Bound(c))
    BY <1>1 DEF ReaderInv, Delivered
  <2>2. CASE c = d /\ block[d] # {}
    <3>1. /\ Bound(c)' = Bound(c) + curCount[c] /\ Bound(c)' \in Nat
          /\ block'[c] = {Batch(c, Bound(c), curCount[c])}
          /\ Bound(c) \in Nat /\ curCount[c] \in Nat
      BY <1>1, <2>2
    <3>2. Bound(c) + curCount[c] <= Bound(c)'
      BY <3>1
    <3> QED BY <1>1, <2>1, <2>2, <3>1, <3>2 DEF Delivered
  <2>3. CASE c # d \/ block[d] = {}
    <3>1. ~(c \in tail' /\ block'[c] # {})
      BY <1>1, <2>3
    <3>2. Rising(out[c], c, Bound(c)')
      BY <1>1, <2>1, RisingUp
    <3> QED BY <1>1, <3>1, <3>2 DEF Delivered
  <2> QED BY <2>2, <2>3
<1>3. ASSUME NEW c \in Chan PROVE Block(c)'
  <2>1. Block(c)
    BY DEF ReaderInv
  <2> QED BY <1>1, <2>1 DEF Block, At
<1>4. Engaged'
  <2> SUFFICES ASSUME NEW i \in DOMAIN dmaq'
               PROVE  LET c == dmaq'[i].chan
                      IN  /\ c \notin tail'
                          /\ dmaq'[i].len = curCount[c]
                          /\ dmaq'[i].live <=> block'[c] # {}
    BY <1>1 DEF Engaged, HwSame
  <2>1. /\ dmaq'[i] = dmaq[i + 1] /\ i + 1 \in DOMAIN dmaq
        /\ dmaq'[i].chan # d
    BY <1>1
  <2>2. dmaq'[i].chan \in Chan
    BY <2>1, InQueue
  <2>3. /\ dmaq[i + 1].len = curCount[dmaq[i + 1].chan]
        /\ dmaq[i + 1].live <=> block[dmaq[i + 1].chan] # {}
    BY <2>1 DEF ReaderInv, Engaged
  <2>4. block'[dmaq'[i].chan] = block[dmaq'[i].chan]
    BY <1>1, <2>1, <2>2
  <2> QED BY <1>1, <2>1, <2>2, <2>3, <2>4
<1>5. out' \in [Chan -> Seq(Stamp)]
  BY <1>1 DEF ReaderInv
<1> QED BY <1>2, <1>3, <1>4, <1>5 DEF ReaderInv

\* Taking an input's block away from the engine.
LEMMA OrphanReader ==
  ASSUME IInv, DataInv, ReaderInv, NEW c \in Chan, dmaq' = Orphan(c), HwSame,
         block' = [block EXCEPT ![c] = {}],
         armed' = [armed EXCEPT ![c] = FALSE],
         tail' \subseteq tail, UNCHANGED <<wpc, ch, active>>,
         \A d \in Chan : d # c => (d \in tail' <=> d \in tail)
  PROVE  /\ Engaged' /\ \A d \in Chan : Block(d)'
         /\ \A d \in Chan : d # c /\ out'[d] = out[d] => Delivered(d)'
         /\ \A d \in Chan : /\ Bound(d)' = Bound(d)
                            /\ InEngine(d)' <=> InEngine(d)
                            /\ Carried(d)' <=> Carried(d)
<1>0. /\ dmaq \in Seq(Transfer) /\ armed \in [Chan -> BOOLEAN]
      /\ block = [d \in Chan |-> block[d]]
  BY DEF IInv, TypeOK, DriverTypeOK
<1>1. /\ DOMAIN dmaq' = DOMAIN dmaq
      /\ \A i \in DOMAIN dmaq :
            /\ dmaq'[i].chan = dmaq[i].chan /\ dmaq'[i].len = dmaq[i].len
            /\ dmaq'[i].live <=> dmaq[i].live /\ dmaq[i].chan # c
  <2>1. \A i \in DOMAIN dmaq : dmaq[i] \in Transfer
    BY <1>0
  <2> QED BY <2>1 DEF Orphan, Transfer
<1>2. /\ block'[c] = {}
      /\ \A d \in Chan : d # c => block'[d] = block[d] /\ armed'[d] = armed[d]
  BY <1>0
<1>3. \A d \in Chan : InEngine(d)' <=> InEngine(d)
  BY <1>1 DEF InEngine
<1>4. ASSUME NEW d \in Chan
      PROVE  Bound(d)' = Bound(d) /\ (Carried(d)' <=> Carried(d))
  <2>1. Carried(d)' <=> Carried(d)
    BY <1>3 DEF Carried, At, HwSame, BufAddr
  <2> QED BY <2>1, DriverBound
<1>5. Engaged'
  <2> SUFFICES ASSUME NEW i \in DOMAIN dmaq'
               PROVE  LET d == dmaq'[i].chan
                      IN  /\ d \notin tail'
                          /\ dmaq'[i].len = curCount[d]
                          /\ dmaq'[i].live <=> block'[d] # {}
    BY DEF Engaged, HwSame
  <2>1. dmaq'[i].chan \in Chan /\ dmaq'[i].chan = dmaq[i].chan
    BY <1>1, InQueue
  <2>2. /\ dmaq[i].chan \notin tail /\ dmaq[i].len = curCount[dmaq[i].chan]
        /\ dmaq[i].live <=> block[dmaq[i].chan] # {}
    BY <1>1 DEF ReaderInv, Engaged
  <2>3. /\ dmaq'[i].len = dmaq[i].len
        /\ dmaq'[i].live <=> dmaq[i].live /\ dmaq[i].chan # c
    BY <1>1
  <2>4. CASE dmaq[i].chan = c
    BY <1>2, <2>1, <2>2, <2>3, <2>4
  <2>5. CASE dmaq[i].chan # c
    <3>1. block'[dmaq[i].chan] = block[dmaq[i].chan]
      BY <1>2, <2>1, <2>5
    <3> QED BY <2>1, <2>2, <2>3, <2>5, <3>1
  <2> QED BY <2>4, <2>5
<1>6. ASSUME NEW d \in Chan PROVE Block(d)'
  <2>1. Block(d)
    BY DEF ReaderInv
  <2>2. curCount' = curCount
    BY DEF HwSame
  <2> QED BY <1>2, <1>3, <2>1, <2>2 DEF Block, At
<1>7. ASSUME NEW d \in Chan, d # c, out'[d] = out[d] PROVE Delivered(d)'
  BY <1>2, <1>4, <1>7 DEF ReaderInv, Delivered
<1> QED BY <1>3, <1>4, <1>5, <1>6, <1>7

\* The numbers of a batch on its way to the reader.
LEMMA BatchBound ==
  ASSUME IInv, DataInv, ReaderInv, NEW c \in Chan, c \in tail, block[c] # {}
  PROVE  \E lo, m \in Nat : /\ Rising(out[c], c, lo)
                            /\ block[c] = {Batch(c, lo, m)}
                            /\ lo + m <= Bound(c) /\ lo <= Bound(c)
                            /\ Bound(c) \in 0 .. MaxTs /\ lo + m <= MaxTs
<1>1. PICK lo \in Nat, m \in Nat : /\ Rising(out[c], c, lo)
                                   /\ block[c] = {Batch(c, lo, m)}
                                   /\ lo + m <= Bound(c)
  BY DEF ReaderInv, Delivered
<1>2. Bound(c) \in 0 .. MaxTs
  BY BoundFacts DEF IInv, TypeOK, DataInv
<1>3. lo <= Bound(c) /\ lo + m <= MaxTs
  BY <1>1, <1>2, SizeAssumption
<1> QED BY <1>1, <1>2, <1>3

\* zio_trigger_data_done hands the block over.
LEMMA DoneReader ==
  ASSUME IInv, DataInv, ReaderInv, NEW c \in Chan, DataDone(c)
  PROVE  ReaderInv'
<1>0. /\ c \in tail /\ tail' = tail \ {c} /\ UNCHANGED <<wpc, ch, active>>
      /\ HwSame
  BY DEF DataDone, HwSame, hwVars, fsmVars, dmaVars, workVars
<1>1. /\ Engaged' /\ \A d \in Chan : Block(d)'
      /\ \A d \in Chan : d # c /\ out'[d] = out[d] => Delivered(d)'
      /\ Bound(c)' = Bound(c)
  BY <1>0, OrphanReader DEF DataDone
<1>2. out \in [Chan -> Seq(Stamp)] /\ Delivered(c)
  BY DEF ReaderInv
<1>3. CASE block[c] = {}
  <2>1. out' = out
    BY <1>2, <1>3 DEF DataDone
  <2>2. Delivered(c)'
    BY <1>0, <1>1, <1>2, <1>3, <2>1 DEF Delivered
  <2> QED BY <1>1, <1>2, <2>1, <2>2 DEF ReaderInv
<1>4. CASE block[c] # {}
  <2>1. PICK lo \in Nat, m \in Nat :
               /\ Rising(out[c], c, lo)
               /\ block[c] = {Batch(c, lo, m)}
               /\ lo + m <= Bound(c) /\ Bound(c) \in 0 .. MaxTs
               /\ lo + m <= MaxTs
    BY <1>0, <1>4, BatchBound
  <2>2. (CHOOSE data \in block[c] : TRUE) = Batch(c, lo, m)
    BY <2>1
  <2>3. out' = [out EXCEPT ![c] = out[c] \o Batch(c, lo, m)]
    BY <1>4, <2>2 DEF DataDone
  <2>4. /\ out[c] \o Batch(c, lo, m) \in Seq(Stamp)
        /\ Rising(out[c] \o Batch(c, lo, m), c, lo + m)
    BY <1>2, <2>1, RisingBatch
  <2>5. Rising(out'[c], c, Bound(c)')
    <3>1. lo + m \in Nat /\ Bound(c) \in Nat
      BY <2>1
    <3>2. Rising(out[c] \o Batch(c, lo, m), c, Bound(c))
      BY <2>1, <2>4, <3>1, RisingUp
    <3> QED BY <1>1, <1>2, <2>3, <3>2
  <2>6. Delivered(c)'
    BY <1>0, <2>5 DEF Delivered
  <2>7. out' \in [Chan -> Seq(Stamp)]
        /\ \A d \in Chan : d # c => out'[d] = out[d]
    BY <1>2, <2>3, <2>4
  <2> QED BY <1>1, <2>6, <2>7 DEF ReaderInv
<1> QED BY <1>3, <1>4

\* zio_trigger_abort_disable drops the block.
LEMMA AbortReader ==
  ASSUME IInv, DataInv, ReaderInv, NEW c \in Chan, AbortDisable(c)
  PROVE  ReaderInv'
<1>0. /\ tail' = tail /\ out' = out /\ UNCHANGED <<wpc, ch, active>> /\ HwSame
  BY DEF AbortDisable, HwSame, hwVars, fsmVars, dmaVars, workVars
<1>1. /\ Engaged' /\ \A d \in Chan : Block(d)'
      /\ \A d \in Chan : d # c /\ out'[d] = out[d] => Delivered(d)'
      /\ Bound(c)' = Bound(c)
  BY <1>0, OrphanReader DEF AbortDisable
<1>2. Rising(out[c], c, Bound(c))
  <2>1. CASE c \in tail /\ block[c] # {}
    <3>1. PICK lo \in Nat : /\ Rising(out[c], c, lo)
                            /\ lo <= Bound(c) /\ Bound(c) \in 0 .. MaxTs
      BY <2>1, BatchBound
    <3>2. Bound(c) \in Nat
      BY <3>1
    <3> QED BY <3>1, <3>2, RisingUp
  <2>2. CASE ~(c \in tail /\ block[c] # {})
    BY <2>2 DEF ReaderInv, Delivered
  <2> QED BY <2>1, <2>2
<1>3. block'[c] = {}
  BY DEF AbortDisable, IInv, TypeOK, DriverTypeOK
<1>4. Delivered(c)'
  BY <1>0, <1>1, <1>2, <1>3 DEF Delivered
<1>5. out' \in [Chan -> Seq(Stamp)]
  BY <1>0 DEF ReaderInv
<1> QED BY <1>0, <1>1, <1>4, <1>5 DEF ReaderInv

\* The initial state.
LEMMA ReaderInit == Init => ReaderInv
<1> SUFFICES ASSUME Init PROVE ReaderInv
  OBVIOUS
<1>1. /\ out = [c \in Chan |-> <<>>] /\ dmaq = <<>> /\ tail = {}
      /\ block = [c \in Chan |-> {}] /\ wpc = "idle"
  BY DEF Init
<1>2. ASSUME NEW c \in Chan PROVE Delivered(c) /\ Block(c)
  <2>1. Rising(out[c], c, Bound(c))
    BY <1>1 DEF Rising
  <2> QED BY <1>1, <2>1 DEF Delivered, Block, At
<1>3. Engaged
  BY <1>1 DEF Engaged
<1>4. out \in [Chan -> Seq(Stamp)]
  BY <1>1
<1> QED BY <1>2, <1>3, <1>4 DEF ReaderInv

\* Every step keeps the reader's invariant.
LEMMA ReaderStep ==
  ASSUME IInv, DataInv, ReaderInv, ~Overfill, MaxFails = 0, QuickTail,
         [Next]_vars
  PROVE  ReaderInv'
<1>1. ASSUME NEW c \in Chan, HwStep(c), DriverUnchanged
      PROVE  ReaderInv'
  BY <1>1, HwReader
<1>2. CASE QuietStep
  BY <1>2, QuietReader
<1>3. CASE ArmTrigger
  BY <1>3, ArmReader
<1>4. CASE Submit
  BY <1>4, SubmitReader
<1>5. CASE SubmitFails
  BY <1>5, NoSubmitReader
<1>6. CASE DmaComplete
  BY <1>6, CompleteReader
<1>7. ASSUME NEW c \in Chan, DataDone(c) PROVE ReaderInv'
  BY <1>7, DoneReader
<1>8. ASSUME NEW c \in Chan, AbortDisable(c) PROVE ReaderInv'
  BY <1>8, AbortReader
<1>9. CASE UNCHANGED vars
  <2>1. UNCHANGED <<out, block, tail, armed, dmaq, wpc, ch, active>> /\ HwSame
    BY <1>9 DEF vars, zioVars, dmaEngVars, workVars, hwVars, fsmVars, dmaVars,
                HwSame
  <2>2. ASSUME NEW c \in Chan
        PROVE  Bound(c)' \in Nat /\ Bound(c) <= Bound(c)'
    <3>1. Carried(c)' <=> Carried(c)
      BY <2>1 DEF Carried, At, InEngine, HwSame, BufAddr
    <3>2. Bound(c)' \in 0 .. MaxTs /\ Bound(c) <= Bound(c)'
      BY <2>1, <3>1, DriverBound
    <3> QED BY <3>2
  <2>3. curCount' = curCount
    BY <2>1 DEF HwSame
  <2> QED BY <2>1, <2>2, <2>3, ReaderFrame DEF At
<1> QED BY <1>1, <1>2, <1>3, <1>4, <1>5, <1>6, <1>7, <1>8, <1>9, AlwaysMaps
        DEF Next, Work, Engine, User, QuietStep

\* The reader's invariant holds in every reachable state.
LEMMA ReaderInvariance ==
  ASSUME ~Overfill, MaxFails = 0, QuickTail
  PROVE  Spec => []ReaderInv
<1>1. IInv /\ DataInv /\ ReaderInv /\ [Next]_vars => ReaderInv'
  BY ReaderStep
<1> QED BY <1>1, ReaderInit, Invariance, DataInvariance, PTL DEF Spec

\* A reader sees its own input's timestamps, each at most once and in order,
\* whatever inputs are enabled and disabled meanwhile.
THEOREM ReaderSeesOrder ==
  ASSUME ~Overfill, MaxFails = 0, QuickTail
  PROVE  Spec => []OutIncreasing
<1>1. IInv /\ DataInv /\ ReaderInv => OutIncreasing
  <2> SUFFICES ASSUME IInv, DataInv, ReaderInv, NEW c \in Chan
               PROVE  \A i \in DOMAIN out[c] :
                         /\ out[c][i][1] = c /\ out[c][i][2] > 0
                         /\ i > 1 => out[c][i][2] > out[c][i - 1][2]
    BY DEF OutIncreasing
  <2>1. \E b \in Nat : Rising(out[c], c, b)
    <3>1. CASE c \in tail /\ block[c] # {}
      BY <3>1 DEF ReaderInv, Delivered
    <3>2. CASE ~(c \in tail /\ block[c] # {})
      <4>1. Bound(c) \in 0 .. MaxTs
        BY BoundFacts DEF IInv, TypeOK, DataInv
      <4>2. Bound(c) \in Nat
        BY <4>1
      <4> QED BY <3>2, <4>2 DEF ReaderInv, Delivered
    <3> QED BY <3>1, <3>2
  <2>2. PICK b \in Nat : Rising(out[c], c, b)
    BY <2>1
  <2>3. out[c] \in Seq(Stamp)
    BY DEF ReaderInv
  <2> SUFFICES ASSUME NEW i \in DOMAIN out[c]
               PROVE  /\ out[c][i][1] = c /\ out[c][i][2] > 0
                      /\ i > 1 => out[c][i][2] > out[c][i - 1][2]
    OBVIOUS
  <2>4. /\ out[c][i] = Ts(c, out[c][i][2]) /\ out[c][i][2] \in 1 .. b
        /\ i > 1 => out[c][i - 1][2] < out[c][i][2]
    BY <2>2 DEF Rising
  <2>5. out[c][i][1] = c
    BY <2>4 DEF Ts
  <2>6. i > 1 => out[c][i - 1][2] \in 1 .. b
    <3>1. i > 1 => i - 1 \in DOMAIN out[c]
      BY <2>3
    <3> QED BY <2>2, <3>1 DEF Rising
  <2> QED BY <2>4, <2>5, <2>6
<1> QED BY <1>1, Invariance, DataInvariance, ReaderInvariance, PTL

-----------------------------------------------------------------------------
(* Nothing is lost *)

\* The inputs the work is going to visit have their interrupt raised, and stay
\* enabled.
LEMMA VisitedStep ==
  ASSUME IInv, Visited, Stays, [Next]_vars
  PROVE  Visited'
<1> USE DEF irqVars, workVars
<1>0. /\ hstat \in SUBSET Chan /\ chanMask \in SUBSET Chan
      /\ todo \in SUBSET Chan /\ ch \in Chan
  BY DEF IInv, TypeOK, DriverTypeOK
<1>1. CASE UNCHANGED <<hpc, hstat, queued, chanMask, wpc, todo, ch>>
  BY <1>0, <1>1 DEF Visited, Stays
<1>2. CASE IrqEntry
  <2>1. /\ hstat' = Raised
        /\ UNCHANGED <<queued, chanMask, wpc, todo, ch, enable>>
    BY <1>2 DEF IrqEntry, hwVars
  <2>2. \A c \in Raised : enable[c]
    BY DEF Raised, IrqLine
  <2> QED BY <2>1, <2>2 DEF Visited
<1>3. CASE IrqHandled
  <2>1. /\ hpc = "check" /\ hpc' = "idle" /\ chanMask' = hstat
        /\ UNCHANGED <<wpc, todo, ch>>
    BY <1>3 DEF IrqHandled
  <2> QED BY <1>0, <2>1 DEF Visited, Stays
<1>4. CASE IrqNone
  <2>1. hpc' = "idle" /\ UNCHANGED <<queued, chanMask, wpc, todo, ch>>
    BY <1>4 DEF IrqNone
  <2> QED BY <1>0, <2>1 DEF Visited, Stays
<1>5. CASE WorkStart
  <2>1. /\ queued /\ ~queued' /\ wpc' = "next" /\ todo' = chanMask
        /\ UNCHANGED <<hpc, hstat>>
    BY <1>5 DEF WorkStart, WorkGoto
  <2> QED BY <1>0, <2>1 DEF Visited, Stays
<1>6. CASE WorkNext
  <2>1. /\ wpc = "next" /\ ch' \in todo /\ todo' \subseteq todo
        /\ UNCHANGED <<hpc, hstat, queued, chanMask>>
    BY <1>6 DEF WorkNext, WorkGoto
  <2> QED BY <1>0, <2>1 DEF Visited, Stays
<1>7. CASE SwitchRead \/ SwitchWrite \/ SwitchSpin \/ SwitchClear \/ SwitchBase
           \/ SwitchSize \/ ReadCount \/ ArmTrigger \/ Submit \/ SubmitFails
           \/ MapFails
  <2>1. /\ wpc \notin {"idle", "next"}
        /\ UNCHANGED <<hpc, hstat, queued, chanMask, todo, ch>>
    BY <1>7 DEF SwitchRead, SwitchWrite, SwitchSpin, SwitchClear, SwitchBase,
                SwitchSize, ReadCount, ArmTrigger, Submit, SubmitFails,
                MapFails, WorkGoto, ConfigFails
  <2> QED BY <1>0, <2>1 DEF Visited, Stays
<1>8. CASE WorkIssue \/ WorkNothing
  <2>1. wpc' = "idle" /\ UNCHANGED <<hpc, hstat, queued, chanMask>>
    BY <1>8 DEF WorkIssue, WorkNothing, WorkGoto
  <2> QED BY <1>0, <2>1 DEF Visited, Stays
<1>9. CASE Engine \/ User \/ \E c \in Chan : HwStep(c) /\ DriverUnchanged
  BY <1>1, <1>9 DEF Engine, DmaComplete, DataDone, User, EnableInput,
                    DisableInput, AbortDisable, SetTimeoutRead,
                    SetTimeoutWrite,
                    DriverUnchanged
<1> QED BY <1>1, <1>2, <1>3, <1>4, <1>5, <1>6, <1>7, <1>8, <1>9
        DEF Next, Handler, Work, vars

\* A step that leaves the blocks, the engine and the reader alone.
LEMMA CompleteFrame ==
  ASSUME NEW c \in Chan, Complete(c),
         UNCHANGED <<out, block, tail, armed, dmaq>>,
         Bound(c)' = Bound(c),
         At(c, "submit")' => At(c, "submit"),
         Carried(c)' => IF Carried(c) THEN curCount'[c] = curCount[c]
                        ELSE curCount'[c] > 0
  PROVE  Complete(c)'
<1>1. InEngine(c)' <=> InEngine(c)
  BY DEF InEngine
<1> HIDE DEF Bound, Carried, InEngine, At
<1> QED BY <1>1 DEF Complete

\* A step of the gateware.
LEMMA HwComplete ==
  ASSUME IInv, DataInv, ~Overfill, NEW c \in Chan, HwStep(c), DriverUnchanged,
         NEW d \in Chan, Complete(d)
  PROVE  Complete(d)'
<1>1. UNCHANGED <<out, block, tail, armed, dmaq, wpc, ch>>
  BY DEF DriverUnchanged, zioVars, dmaEngVars, workVars
<1>2. /\ Bound(d)' = Bound(d)
      /\ Carried(d) => Carried(d)' /\ curCount'[d] = curCount[d]
      /\ Carried(d)' /\ ~Carried(d) => curCount'[d] > 0
  BY HwBound
<1>3. At(d, "submit")' <=> At(d, "submit")
  BY <1>1 DEF At
<1> QED BY <1>1, <1>2, <1>3, CompleteFrame

\* A quiet step of the driver.
LEMMA QuietComplete ==
  ASSUME IInv, DataInv, MaxFails = 0, QuietStep, NEW c \in Chan, Complete(c)
  PROVE  Complete(c)'
<1>1. /\ HwSame /\ UNCHANGED <<out, block, tail, armed, dmaq>>
      /\ (wpc # "submit" /\ wpc' # "submit") \/ UNCHANGED <<wpc, ch>>
      /\ Carried(c)' <=> Carried(c)
  BY QuietCarries
<1>2. Bound(c)' = Bound(c)
  BY <1>1, DriverBound
<1>3. At(c, "submit")' => At(c, "submit")
  BY <1>1 DEF At
<1>4. curCount' = curCount
  BY <1>1 DEF HwSame
<1> QED BY <1>1, <1>2, <1>3, <1>4, CompleteFrame

\* zio_arm_trigger finds the trigger at rest and a buffer that is not empty.
LEMMA ArmAllocates ==
  ASSUME IInv, DataInv, ReaderInv, StreamInv, wpc = "arm", ch \notin tail
  PROVE  ch \in Chan /\ ~armed[ch] /\ Allocates
<1>1. ch \in Chan /\ nsamples[ch] = curCount[ch]
  BY DEF IInv, TypeOK, DriverTypeOK, DataInv, Driver
<1>2. block[ch] = {}
  BY ArmEmpty
<1>3. Carried(ch)
  BY DEF Carried
<1>4. enable[ch]
  BY DEF StreamInv, Visited
<1> QED BY <1>1, <1>2, <1>3, <1>4 DEF StreamInv, Complete, Allocates

\* zio_arm_trigger.
LEMMA ArmComplete ==
  ASSUME IInv, DataInv, ReaderInv, StreamInv, MaxFails = 0, QuickTail,
         ArmTrigger, NEW c \in Chan
  PROVE  Complete(c)'
<1>1. /\ wpc = "arm" /\ wpc' = "submit" /\ ch' = ch /\ ch \notin tail
      /\ armed' = [armed EXCEPT ![ch] = TRUE]
      /\ UNCHANGED <<out, tail, dmaq>>
  BY DEF ArmTrigger, dmaEngVars
<1>2. ch \in Chan /\ Allocates
  BY <1>1, ArmAllocates
<1>3. block' = [block EXCEPT ![ch] = {[i \in 1 .. nsamples[ch] |-> Junk]}]
  BY <1>2, NoFails DEF ArmTrigger
<1>4. HwSame
  BY DEF ArmTrigger, HwSame, hwVars, fsmVars, dmaVars
<1>5. /\ InEngine(c)' <=> InEngine(c)
      /\ Carried(c)' <=> Carried(c)
  BY <1>1 DEF Carried, At, InEngine
<1>6. Bound(c)' = Bound(c) /\ curCount'[c] = curCount[c]
  BY <1>4, <1>5, DriverBound DEF HwSame
<1>7. Complete(c)
  BY DEF StreamInv
<1>8. /\ armed \in [Chan -> BOOLEAN] /\ block = [d \in Chan |-> block[d]]
  BY DEF IInv, TypeOK, DriverTypeOK
<1>9. /\ c = ch => armed'[c] /\ block'[c] # {}
      /\ c # ch => (armed'[c] <=> armed[c]) /\ block'[c] = block[c]
                   /\ ~At(c, "submit")'
  BY <1>1, <1>2, <1>3, <1>8 DEF At
<1> HIDE DEF Bound, Carried, InEngine, At
<1> QED BY <1>1, <1>5, <1>6, <1>7, <1>9 DEF Complete

\* Submitting the transfer.
LEMMA SubmitComplete ==
  ASSUME IInv, DataInv, ReaderInv, Submit, NEW c \in Chan, Complete(c)
  PROVE  Complete(c)'
<1>1. /\ wpc' = "next" /\ block[ch] # {}
      /\ HwSame /\ UNCHANGED <<out, block, tail, armed>>
      /\ InEngine(c)' <=> InEngine(c) \/ c = ch
      /\ Carried(c)' <=> Carried(c)
      /\ Bound(c)' = Bound(c)
  BY SubmitFacts
<1>2. ~At(c, "submit")'
  BY <1>1 DEF At
<1>3. curCount' = curCount
  BY <1>1 DEF HwSame
<1> HIDE DEF Bound, Carried, InEngine, At
<1> QED BY <1>1, <1>2, <1>3 DEF Complete

\* The transfer never fails to be submitted.
LEMMA AlwaysSubmits ==
  ASSUME IInv, StreamInv, MaxFails = 0
  PROVE  ~SubmitFails
<1> SUFFICES ASSUME SubmitFails PROVE FALSE
  OBVIOUS
<1>1. ch \in Chan /\ wpc = "submit" /\ ~CanAcquire(ch)
  BY NoFails DEF IInv, TypeOK, DriverTypeOK, SubmitFails, WorkGoto, ConfigFails
<1> QED BY <1>1 DEF StreamInv, Complete, At, CanAcquire

\* The transfer is over.
LEMMA DmaCompletes ==
  ASSUME IInv, DataInv, ReaderInv, DmaComplete, NEW c \in Chan, Complete(c)
  PROVE  Complete(c)'
<1>0. PICK d : d = dmaq[1].chan
  OBVIOUS
<1>1. /\ d \in Chan /\ tail = {} /\ tail' = {d} /\ wpc = "idle"
      /\ HwSame /\ UNCHANGED <<out, armed, wpc, ch>>
      /\ InEngine(d)
      /\ InEngine(c)' <=> InEngine(c) /\ c # d
      /\ Carried(c)' => Carried(c)
      /\ Bound(c) \in Nat
      /\ c # d => Bound(c)' = Bound(c) /\ block'[c] = block[c]
      /\ curCount[d] \in Nat /\ Bound(d)' = Bound(d) + curCount[d]
      /\ IF block[d] = {}
         THEN block'[d] = {}
         ELSE block'[d] = {Batch(d, Bound(d), curCount[d])}
  BY <1>0, CompleteFacts
<1>2. curCount' = curCount /\ ~At(c, "submit")'
  BY <1>1 DEF HwSame, At
<1>3. CASE c # d
  <2>1. (c \in tail' <=> c \in tail) /\ (InEngine(c)' <=> InEngine(c))
    BY <1>1, <1>3
  <2> HIDE DEF Bound, Carried, InEngine, At
  <2> QED BY <1>1, <1>2, <1>3, <2>1 DEF Complete
<1>4. CASE c = d
  <2>1. Carried(c)
    BY <1>1, <1>4 DEF Carried
  <2>2. /\ out[c] = Batch(c, 0, Bound(c)) /\ block[c] # {} /\ armed[c]
        /\ curCount[c] > 0
    BY <1>1, <1>4, <2>1 DEF Complete
  <2>3. block'[c] = {Batch(c, Bound(c), curCount[c])}
    BY <1>1, <1>4, <2>2
  <2>4. \E lo, m \in Nat : /\ out'[c] = Batch(c, 0, lo)
                           /\ block'[c] = {Batch(c, lo, m)}
                           /\ m > 0 /\ lo + m = Bound(c)'
    BY <1>1, <1>4, <2>2, <2>3
  <2>5. c \in tail' /\ armed'[c] /\ block'[c] # {} /\ curCount'[c] > 0
    BY <1>1, <1>2, <1>4, <2>2, <2>3
  <2> HIDE DEF Bound, Carried, InEngine, At
  <2> QED BY <2>4, <2>5 DEF Complete
<1> QED BY <1>3, <1>4

\* What data_done hands over: the timestamps that follow those the reader has.
LEMMA DoneBatch ==
  ASSUME IInv, DataInv, NEW c \in Chan, Complete(c), c \in tail
  PROVE  \E lo, m \in Nat :
           /\ m > 0 /\ lo + m = Bound(c) /\ Bound(c) \in 0 .. MaxTs
           /\ out[c] = Batch(c, 0, lo) /\ block[c] = {Batch(c, lo, m)}
           /\ Batch(c, 0, lo) \o Batch(c, lo, m) = Batch(c, 0, Bound(c))
           /\ Len(out[c]) = lo
<1>1. PICK lo \in Nat, m \in Nat : /\ out[c] = Batch(c, 0, lo)
                                   /\ block[c] = {Batch(c, lo, m)}
                                   /\ m > 0 /\ lo + m = Bound(c)
  BY DEF Complete
<1>2. Bound(c) \in 0 .. MaxTs
  BY BoundFacts DEF IInv, TypeOK, DataInv
<1>3. lo + m <= MaxTs /\ 0 + lo <= MaxTs /\ 0 \in Nat
  BY <1>1, <1>2, SizeAssumption
<1>4. Batch(c, 0, lo) \o Batch(c, lo, m) = Batch(c, 0, Bound(c))
  <2>1. Batch(c, 0, lo) \o Batch(c, lo, m) = Batch(c, 0, lo + m)
    BY <1>3, BatchConcat
  <2> QED BY <1>1, <2>1
<1>5. Len(out[c]) = lo
  <2>1. Len(Batch(c, 0, lo)) = lo
    BY <1>3, BatchFacts
  <2> QED BY <1>1, <2>1
<1> QED BY <1>1, <1>2, <1>4, <1>5, Zenon

\* zio_trigger_data_done hands it over.
LEMMA DoneGives ==
  ASSUME IInv, DataInv, ReaderInv, NEW c \in Chan, Complete(c), DataDone(c)
  PROVE  /\ out' = [out EXCEPT ![c] = Batch(c, 0, Bound(c))]
         /\ out \in [Chan -> Seq(Stamp)]
         /\ Bound(c) \in Len(out[c]) + 1 .. made[c]
<1>1. PICK lo \in Nat, m \in Nat :
           /\ m > 0 /\ lo + m = Bound(c) /\ Bound(c) \in 0 .. MaxTs
           /\ out[c] = Batch(c, 0, lo) /\ block[c] = {Batch(c, lo, m)}
           /\ Batch(c, 0, lo) \o Batch(c, lo, m) = Batch(c, 0, Bound(c))
           /\ Len(out[c]) = lo
  BY DoneBatch DEF DataDone
<1>2. (CHOOSE data \in block[c] : TRUE) = Batch(c, lo, m)
  BY <1>1
<1>3. out \in [Chan -> Seq(Stamp)]
  BY DEF ReaderInv
<1>4. out' = [out EXCEPT ![c] = Batch(c, 0, Bound(c))]
  BY <1>1, <1>2, <1>3 DEF DataDone
<1>5. Away(c) <= made[c] /\ Bound(c) <= Away(c) /\ Away(c) \in 0 .. MaxTs
  BY BoundFacts DEF IInv, TypeOK, DataInv
<1>6. made[c] \in 0 .. MaxTs
  BY DEF IInv, TypeOK, HwTypeOK
<1> HIDE DEF Bound, Away
<1>7. Bound(c) \in Len(out[c]) + 1 .. made[c]
  BY <1>1, <1>5, <1>6
<1> QED BY <1>3, <1>4, <1>7

\* The end of ft_dma_complete.
LEMMA DoneComplete ==
  ASSUME IInv, DataInv, ReaderInv, NEW c \in Chan, DataDone(c),
         \A d \in Chan : Complete(d), NEW d \in Chan
  PROVE  Complete(d)'
<1>0. /\ c \in tail /\ tail' = tail \ {c} /\ UNCHANGED <<wpc, ch, active>>
      /\ HwSame /\ dmaq' = Orphan(c)
      /\ block' = [block EXCEPT ![c] = {}]
      /\ armed' = [armed EXCEPT ![c] = FALSE]
  BY DEF DataDone, HwSame, hwVars, fsmVars, dmaVars, workVars
<1>1. /\ Bound(d)' = Bound(d)
      /\ InEngine(d)' <=> InEngine(d)
      /\ Carried(d)' <=> Carried(d)
  BY <1>0, OrphanReader
<1>2. /\ out' = [out EXCEPT ![c] = Batch(c, 0, Bound(c))]
      /\ out \in [Chan -> Seq(Stamp)]
  BY DoneGives
<1>3. /\ armed \in [Chan -> BOOLEAN] /\ block = [e \in Chan |-> block[e]]
  BY DEF IInv, TypeOK, DriverTypeOK
<1>4. (At(d, "submit")' <=> At(d, "submit")) /\ curCount'[d] = curCount[d]
  BY <1>0 DEF At, HwSame
<1>5. CASE d = c
  <2>1. ~InEngine(c) /\ ~At(c, "submit")
    BY <1>0 DEF ReaderInv, Engaged, Block, InEngine
  <2>2. out'[c] = Batch(c, 0, Bound(c)) /\ ~armed'[c] /\ block'[c] = {}
    BY <1>0, <1>2, <1>3
  <2> HIDE DEF Bound, Carried, InEngine, At
  <2> QED BY <1>0, <1>1, <1>4, <1>5, <2>1, <2>2 DEF Complete
<1>6. CASE d # c
  <2>1. /\ out'[d] = out[d] /\ (armed'[d] <=> armed[d]) /\ block'[d] = block[d]
        /\ d \in tail' <=> d \in tail
    BY <1>0, <1>2, <1>3, <1>6
  <2> HIDE DEF Bound, Carried, InEngine, At
  <2> QED BY <1>1, <1>4, <2>1 DEF Complete
<1> QED BY <1>5, <1>6

\* The initial state.
LEMMA StreamInit == Init => StreamInv
<1> SUFFICES ASSUME Init PROVE StreamInv
  OBVIOUS
<1>1. /\ out = [c \in Chan |-> <<>>] /\ dmaq = <<>> /\ tail = {}
      /\ block = [c \in Chan |-> {}] /\ armed = [c \in Chan |-> FALSE]
      /\ wpc = "idle" /\ hpc = "idle" /\ queued = FALSE
      /\ made = [c \in Chan |-> 0] /\ count = [c \in Chan |-> 0]
      /\ wst = [c \in Chan |-> "IDLE"]
  BY DEF Init, HwInit
<1>2. Visited
  BY <1>1 DEF Visited
<1>3. ASSUME NEW c \in Chan PROVE Complete(c)
  <2>1. ~InEngine(c) /\ ~At(c, "submit") /\ ~Carried(c)
    BY <1>1 DEF Carried, InEngine, At
  <2>2. Bound(c) = 0
    BY <1>1, <2>1 DEF Bound, Away
  <2>3. out[c] = Batch(c, 0, 0)
    BY <1>1 DEF Batch
  <2>4. out[c] = Batch(c, 0, Bound(c))
    BY <2>2, <2>3
  <2> HIDE DEF Bound, Carried, InEngine, At
  <2> QED BY <1>1, <2>1, <2>4 DEF Complete
<1>4. closing = {}
  BY DEF Init
<1> QED BY <1>2, <1>3, <1>4 DEF StreamInv

\* As long as inputs are not disabled, every step keeps the stream invariant.
LEMMA StreamStep ==
  ASSUME IInv, DataInv, ReaderInv, StreamInv, Stays, ~Overfill, MaxFails = 0,
         QuickTail, [Next]_vars
  PROVE  StreamInv'
<1> USE DEF StreamInv
<1>1. Visited'
  BY VisitedStep
<1>2. ASSUME NEW c \in Chan, HwStep(c), DriverUnchanged, NEW d \in Chan
      PROVE  Complete(d)'
  BY <1>2, HwComplete
<1>3. ASSUME QuietStep, NEW c \in Chan PROVE Complete(c)'
  BY <1>3, QuietComplete
<1>4. ASSUME ArmTrigger, NEW c \in Chan PROVE Complete(c)'
  BY <1>4, ArmComplete
<1>5. ASSUME Submit, NEW c \in Chan PROVE Complete(c)'
  BY <1>5, SubmitComplete
<1>6. ~SubmitFails /\ ~MapFails
  BY AlwaysSubmits, AlwaysMaps
<1>7. ASSUME DmaComplete, NEW c \in Chan PROVE Complete(c)'
  BY <1>7, DmaCompletes
<1>8. ASSUME NEW c \in Chan, DataDone(c), NEW d \in Chan PROVE Complete(d)'
  BY <1>8, DoneComplete
<1>9. ASSUME NEW c \in Chan PROVE ~DisableInput(c) /\ ~AbortDisable(c)
  <2>1. enable \in [Chan -> BOOLEAN]
    BY DEF IInv, TypeOK, HwTypeOK
  <2> QED BY <2>1 DEF Stays, DisableInput, AbortDisable
<1>10. ASSUME UNCHANGED vars, NEW c \in Chan PROVE Complete(c)'
  <2>1. UNCHANGED <<out, block, tail, armed, dmaq, wpc, ch, active>> /\ HwSame
    BY <1>10 DEF vars, zioVars, dmaEngVars, workVars, hwVars, fsmVars, dmaVars,
                HwSame
  <2>2. Carried(c)' <=> Carried(c)
    BY <2>1 DEF Carried, At, InEngine, HwSame, BufAddr
  <2>3. Bound(c)' = Bound(c)
    BY <2>1, <2>2, DriverBound
  <2>4. (At(c, "submit")' <=> At(c, "submit")) /\ curCount'[c] = curCount[c]
    BY <2>1 DEF At, HwSame
  <2> QED BY <2>1, <2>2, <2>3, <2>4, CompleteFrame
<1>11. closing' = {}
  BY <1>9, <1>6 DEF Next, DriverUnchanged, Handler, IrqEntry, IrqHandled, IrqNone,
     Work, WorkStart, WorkNext, SwitchRead, SwitchWrite, SwitchSpin,
     SwitchClear, SwitchBase, SwitchSize, ReadCount, ArmTrigger, Submit,
     WorkIssue, WorkNothing, Engine, DmaComplete, DataDone, User, EnableInput,
     SetTimeoutRead, SetTimeoutWrite, userVars, vars
<1> QED BY <1>1, <1>2, <1>3, <1>4, <1>5, <1>6, <1>7, <1>8, <1>9, <1>10, <1>11
        DEF Next, Work, Engine, User, QuietStep

\* The stream invariant holds as long as no input is disabled.
LEMMA StreamInvariance ==
  ASSUME ~Overfill, MaxFails = 0, QuickTail
  PROVE  Spec /\ [][Stays]_vars => []StreamInv
<1>1. IInv /\ DataInv /\ ReaderInv /\ StreamInv /\ [Next]_vars /\ [Stays]_vars
        => StreamInv'
  <2> SUFFICES ASSUME IInv, DataInv, ReaderInv, StreamInv, [Next]_vars,
                      [Stays]_vars
               PROVE  StreamInv'
    OBVIOUS
  <2>1. Stays
    BY DEF Stays, vars, hwVars
  <2> QED BY <2>1, StreamStep
<1> QED BY <1>1, StreamInit, Invariance, DataInvariance, ReaderInvariance, PTL
        DEF Spec

-----------------------------------------------------------------------------
(* Refinement *)

\* A step of the gateware takes one timestamp, or none.
LEMMA HwTakes ==
  ASSUME HwTypeOK, NEW c \in Chan, HwStep(c), out' = out
  PROVE  Stream!Take(c) \/ UNCHANGED <<made, out>>
<1>1. CASE OpenBurst(c)
  BY <1>1 DEF OpenBurst, TsValid, Stream!Take
<1>2. CASE DropTs(c)
  BY <1>2 DEF DropTs, TsValid, Stream!Take
<1>3. CASE NextTs(c)
  BY <1>3 DEF NextTs, TsValid, Stream!Take
<1>4. CASE BufferFull(c) \/ LeaveIdle(c) \/ SwitchBuffers(c) \/ Serialise(c)
           \/ CloseBurst(c) \/ IrqTimer(c)
  BY <1>4 DEF BufferFull, LeaveIdle, SwitchBuffers, Serialise, CloseBurst,
              IrqTimer
<1>5. CASE StartBurst(c) \/ WriteTs(c) \/ EndBurst(c) \/ Acked(c) \/ PopLast(c)
           \/ DdrAck(c)
  BY <1>5 DEF StartBurst, WriteTs, EndBurst, Acked, PopLast, DdrAck, fsmVars
<1> QED BY <1>1, <1>2, <1>3, <1>4, <1>5 DEF HwStep

\* Every step of driver and gateware is a step of the stream, or none.
LEMMA StreamSimulation ==
  ASSUME IInv, DataInv, ReaderInv, StreamInv, Stays, [Next]_vars
  PROVE  [Stream!Next]_<<made, out>>
<1> USE DEF zioVars, hwVars, fsmVars
<1>1. ASSUME NEW c \in Chan, HwStep(c), DriverUnchanged
      PROVE  [Stream!Next]_<<made, out>>
  <2>1. HwTypeOK /\ out' = out
    BY <1>1 DEF IInv, TypeOK, DriverUnchanged
  <2> QED BY <1>1, <2>1, HwTakes DEF Stream!Next
<1>2. ASSUME NEW c \in Chan, DataDone(c)
      PROVE  [Stream!Next]_<<made, out>>
  <2>1. /\ out' = [out EXCEPT ![c] = Batch(c, 0, Bound(c))]
        /\ Bound(c) \in Len(out[c]) + 1 .. made[c]
    BY <1>2, DoneGives DEF StreamInv
  <2>2. Batch(c, 0, Bound(c)) = Stream!Stamps(c, Bound(c))
    <3> DEFINE b == Bound(c)
    <3>1. \A i \in 1 .. b : 0 + i = i
      OBVIOUS
    <3> HIDE DEF b
    <3> QED BY <3>1 DEF Batch, Ts, Stream!Stamps, b
  <2>3. made' = made
    BY <1>2 DEF DataDone
  <2>4. Stream!Deliver(c)
    BY <2>1, <2>2, <2>3 DEF Stream!Deliver
  <2> QED BY <2>4 DEF Stream!Next
<1>3. CASE Handler \/ Work \/ DmaComplete \/ User
  BY <1>3 DEF Handler, IrqEntry, IrqHandled, IrqNone, Work, WorkStart,
              WorkNext, SwitchRead, SwitchWrite, SwitchSpin, SwitchClear,
              SwitchBase, SwitchSize, ReadCount, ArmTrigger, Submit,
              SubmitFails, MapFails, WorkIssue, WorkNothing, DmaComplete,
              User, EnableInput, DisableInput, AbortDisable, SetTimeoutRead, SetTimeoutWrite
<1>4. CASE UNCHANGED vars
  BY <1>4 DEF vars
<1> QED BY <1>1, <1>2, <1>3, <1>4 DEF Next, Engine

\* As long as no input is disabled, driver and gateware together are a stream:
\* what an input produces reaches its reader in order, nothing missing and
\* nothing twice, through however many switches of its buffers.
THEOREM DmaIsAStream ==
  ASSUME ~Overfill, MaxFails = 0, QuickTail
  PROVE  Spec /\ [][Stays]_vars => ImplementsStream
<1>1. Init => Stream!Init
  BY DEF Init, HwInit, Stream!Init
<1>2. IInv /\ DataInv /\ ReaderInv /\ StreamInv /\ [Next]_vars /\ [Stays]_vars
        => [Stream!Next]_<<made, out>>
  <2> SUFFICES ASSUME IInv, DataInv, ReaderInv, StreamInv, [Next]_vars,
                      [Stays]_vars
               PROVE  [Stream!Next]_<<made, out>>
    OBVIOUS
  <2>1. Stays
    BY DEF Stays, vars, hwVars
  <2> QED BY <2>1, StreamSimulation
<1> QED BY <1>1, <1>2, Invariance, DataInvariance, ReaderInvariance,
           StreamInvariance, PTL
        DEF Spec, ImplementsStream, Stream!Spec

\* zio_arm_trigger never meets an armed trigger then.
THEOREM TriggerFires ==
  ASSUME ~Overfill, MaxFails = 0, QuickTail
  PROVE  Spec /\ [][Stays]_vars => ArmFires
<1>1. IInv /\ DataInv /\ ReaderInv /\ StreamInv /\ [Next]_vars
        => [wpc = "arm" /\ wpc' = "submit" => ~armed[ch]]_vars
  <2> SUFFICES ASSUME IInv, DataInv, ReaderInv, StreamInv, Next,
                      wpc = "arm", wpc' = "submit"
               PROVE  ~armed[ch]
    OBVIOUS
  <2>1. ArmTrigger
    BY DEF Next, Handler, IrqEntry, IrqHandled, IrqNone, Work, WorkStart,
           WorkNext, SwitchRead, SwitchWrite, SwitchSpin, SwitchClear,
           SwitchBase, SwitchSize, ReadCount, Submit, SubmitFails, MapFails, WorkIssue,
           WorkNothing, ConfigFails, WorkGoto, Engine, DmaComplete, DataDone,
           User, EnableInput, DisableInput, AbortDisable, SetTimeoutRead,
           SetTimeoutWrite,
           DriverUnchanged, workVars
  <2>2. ch \notin tail
    BY <2>1 DEF ArmTrigger
  <2> QED BY <2>2, ArmAllocates
<1> QED BY <1>1, Invariance, DataInvariance, ReaderInvariance,
           StreamInvariance, PTL DEF Spec, ArmFires
==============================================================================
