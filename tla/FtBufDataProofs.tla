-------------------------- MODULE FtBufDataProofs --------------------------
(***************************************************************************)
(* What FtBuf promises about the data: the gateware never writes to a      *)
(* buffer that the DMA engine reads (BuffersDoNotOverlap), the count       *)
(* ft_buffer_count reads belongs to the buffer ft_buffer_switch returned,  *)
(* with every timestamp in its slot (CountIsOfTheBuffer), and the busy     *)
(* wait of ft_buffer_switch is answered (SpinIsAnswered).                  *)
(*                                                                         *)
(* The hypothesis ~Overfill says that the work visits an input before its  *)
(* buffer is full; run buf_overfill shows what happens otherwise.          *)
(*                                                                         *)
(* The invariant DataInv adds to IInv of FtBufProofs, for each input,      *)
(*   HwData, what the gateware keeps: the buffers are not full (Room), the *)
(*     FIFO holds consecutive timestamps behind the address of the first   *)
(*     one's slot, with the marker between the two buffers (WordsOK), the  *)
(*     DDR master's address is the slot of the next word (AddressOK), and  *)
(*     what left the FIFO is in its slot (CellsOK);                        *)
(*   Phase, where ft_buffer_switch is with the two base registers and      *)
(*     CSR.DONE, and Settled at every input it is not at;                  *)
(* and Asking (an input the work visits has raised its interrupt, so that  *)
(* the gateware answers a switch) and Driver (the buffer and the count the *)
(* work carries).  A switch renumbers: the current buffer's timestamps     *)
(* become those switched away, so count moves to curCount and the base to  *)
(* Other; WhoSwitches and ThreeKinds reduce every other step to a push, a  *)
(* pop or nothing on one input's FIFO.                                     *)
(***************************************************************************)
EXTENDS FtBufProofs

-----------------------------------------------------------------------------
(* Stamps, words and slots *)

\* The timestamps that went into buffers switched away (their last number).
Away(c) == made[c] - count[c] - (IF wst[c] = "SER" THEN 1 ELSE 0)

\* The buffer that is not the current one.
Other(c) == BufAddr(c, 0) + BufAddr(c, 1) - cur[c].base

\* Where timestamp n of an input belongs: in the current buffer at base when it
\* is newer than the last switch (away), else in the m words switched away.
Slot(n, away, m, base, other) ==
  IF n > away THEN base + (n - away) - 1 ELSE other + m - (away - n) - 1

NumOf(w) == w.val[2]

NoLast(f) == \A i \in DOMAIN f : f[i].kind # "last"
LastAfter(f, i) == \E j \in DOMAIN f : i < j /\ f[j].kind = "last"

\* A word of the FIFO against the one behind it.
NextWord(v, w, away, m, base, other) ==
  /\ v.kind = "addr" => /\ w.kind = "ts"
                        /\ v.val = Slot(NumOf(w), away, m, base, other)
  /\ v.kind = "ts" =>
       \/ w.kind = "ts" /\ NumOf(w) = NumOf(v) + 1 /\ NumOf(v) # away
       \/ w.kind = "addr"
       \/ w.kind = "last" /\ NumOf(v) = away
  /\ v.kind = "last" => w.kind = "addr"

\* The word the write FSM left last, n timestamps being in the current buffer.
Newest(w, away, n, base, s) ==
  /\ w.kind = "addr" => s = "SER" /\ w.val = base + n
  /\ w.kind = "ts" => NumOf(w) = away + n
  /\ w.kind = "last" => n = 0 /\ s \notin {"SER", "WAIT_NEXT_TS"}

\* Every timestamp in the FIFO is one of the two buffers', and the marker is
\* behind those of the buffer switched away.
Stamps(c, f, away, n, m) ==
  \A i \in DOMAIN f : f[i].kind = "ts" =>
     /\ f[i] = TsWord(Ts(c, NumOf(f[i])))
     /\ NumOf(f[i]) \in away - m + 1 .. away + n
     /\ NumOf(f[i]) <= away <=> LastAfter(f, i)

Neighbours(f, away, m, base, other) ==
  \A i \in DOMAIN f :
     i < Len(f) => NextWord(f[i], f[i + 1], away, m, base, other)

OneMarker(f) ==
  \A i, j \in DOMAIN f : f[i].kind = "last" /\ f[j].kind = "last" => i = j

\* The FIFO of input c: bursts of consecutive timestamps behind the address of
\* their first slot, and the marker between the two buffers.
Words(c, f, away, n, m, base, other, s) ==
  /\ Stamps(c, f, away, n, m)
  /\ Neighbours(f, away, m, base, other)
  /\ f # <<>> => Newest(f[Len(f)], away, n, base, s)
  /\ OneMarker(f)

\* The DDR master in a burst: dma_addr is the slot of what comes next.
Address(f, e, a, away, n, m, base, other, s) ==
  e = "EXECUTE_BURST" =>
    /\ f = <<>> => \/ a = base + n
                   \/ n = 0 /\ s \notin {"SER", "WAIT_NEXT_TS"}
    /\ f # <<>> /\ Head(f).kind = "ts" =>
         a = Slot(NumOf(Head(f)), away, m, base, other)
    /\ f # <<>> /\ Head(f).kind = "last" => a = other + m

\* What has left the FIFO is in its slot.
Cells(c, f, ddr, away, n, m, base, other) ==
  \A k \in away - m + 1 .. away + n :
     \/ \E i \in DOMAIN f : f[i] = TsWord(Ts(c, k))
     \/ ddr[Slot(k, away, m, base, other)] = Ts(c, k)

\* Neither buffer is full, and the current one is one of the input's two.
Room(c) ==
  /\ count[c] + (IF wst[c] = "SER" THEN 1 ELSE 0) < BufSize
  /\ curCount[c] < BufSize
  /\ curCount[c] <= Away(c)
  /\ cur[c].valid
  /\ cur[c].base \in {BufAddr(c, 0), BufAddr(c, 1)}
  /\ irqReq[c] => count[c] > 0 \/ wst[c] = "SER"

WordsOK(c) == Words(c, fifo[c], Away(c), count[c], curCount[c],
                    cur[c].base, Other(c), wst[c])
AddressOK(c) == Address(fifo[c], dst[c], wr[c], Away(c), count[c], curCount[c],
                        cur[c].base, Other(c), wst[c])
CellsOK(c) == Cells(c, fifo[c], mem, Away(c), count[c], curCount[c],
                    cur[c].base, Other(c))

HwData(c) == Room(c) /\ WordsOK(c) /\ AddressOK(c) /\ CellsOK(c)

-----------------------------------------------------------------------------
(* The two buffers and the driver *)

Current(c, b, v) ==
  /\ cur[c].base = BufAddr(c, b)
  /\ nxt[c].valid = v
  /\ v => nxt[c].base = BufAddr(c, 1 - b)

\* No switch is under way at the gateware.
Quiet(c) == ~latched[c] /\ wst[c] # "SWITCH_BUFFERS"

\* The driver is not at this input: active_buffer is the current buffer.
Settled(c) == /\ Current(c, active[c], TRUE) /\ Quiet(c)
              /\ ~done[c] /\ NoLast(fifo[c])

\* ft_buffer_switch is at this input.
Asked(c) == /\ Current(c, active[c], TRUE) /\ latched[c] /\ irqReq[c]
            /\ ~done[c] /\ NoLast(fifo[c])
Switched(c) == Current(c, 1 - active[c], FALSE) /\ Quiet(c)

Spinning(c) == \/ Asked(c)
               \/ /\ Switched(c)
                  /\ done[c] => NoLast(fifo[c])
                  /\ MaxSets = 0 => done[c] \/ ~NoLast(fifo[c])
Sizing(c) == /\ cur[c].base = BufAddr(c, active[c])
             /\ nxt[c].base = BufAddr(c, 1 - active[c]) /\ ~nxt[c].valid
             /\ Quiet(c) /\ ~done[c] /\ NoLast(fifo[c])

At(c, l) == c = ch /\ wpc = l
Phase(c) ==
  /\ At(c, "spin") => Spinning(c)
  /\ At(c, "clear") => Switched(c) /\ NoLast(fifo[c])
  /\ At(c, "base") => Switched(c) /\ ~done[c] /\ NoLast(fifo[c])
  /\ At(c, "size") => Sizing(c)
  /\ c # ch \/ wpc \notin {"spin", "clear", "base", "size"} => Settled(c)

\* The inputs the work visits have asked for it.
Asking ==
  /\ hpc = "check" => \A c \in hstat : irqReq[c]
  /\ queued => \A c \in chanMask : irqReq[c]
  /\ wpc # "idle" => \A c \in todo : irqReq[c]
  /\ wpc \in {"read", "write"} => irqReq[ch]

\* What the driver remembers of the buffer it was given.
Driver ==
  /\ wpc = "write" => ~csr
  /\ MaxSets = 0 => user.pc = "idle"
  /\ wpc \in {"size", "count", "arm", "submit"} => transfer = 1 - active[ch]
  /\ wpc \in {"arm", "submit"} => nsamples[ch] = curCount[ch]
  /\ \A i \in DOMAIN dmaq :
        dmaq[i].src = BufAddr(dmaq[i].chan, 1 - active[dmaq[i].chan])

DataInv == /\ \A c \in Chan : HwData(c) /\ Phase(c)
           /\ Asking /\ Driver
-----------------------------------------------------------------------------
(* Queues of words *)

\* What a queue holds after a word is added.
LEMMA AppendFacts ==
  ASSUME NEW f \in Seq(Word), NEW w \in Word
  PROVE  /\ Append(f, w) \in Seq(Word) /\ Append(f, w) # <<>>
         /\ Len(f) \in Nat /\ DOMAIN f = 1 .. Len(f)
         /\ DOMAIN Append(f, w) = 1 .. Len(f) + 1
         /\ Len(Append(f, w)) = Len(f) + 1
         /\ \A i \in 1 .. Len(f) : Append(f, w)[i] = f[i]
         /\ Append(f, w)[Len(f) + 1] = w
         /\ f = <<>> => Head(Append(f, w)) = w
         /\ f # <<>> => Len(f) > 0 /\ Head(f) = f[1]
                        /\ Head(Append(f, w)) = f[1]
  OBVIOUS

\* The three kinds of words.
LEMMA Kinds ==
  /\ \A w \in Word : /\ w.kind \in {"addr", "ts", "last"}
                     /\ w.kind = "last" <=> w = LastWord
                     /\ w.kind = "addr" => w.val \in Nat
                     /\ w.kind = "ts" => w.val \in Stamp /\ NumOf(w) \in Nat
  /\ \A a \in Nat : AddrWord(a) \in Word /\ AddrWord(a).kind = "addr"
                    /\ AddrWord(a).val = a
  /\ \A t \in Stamp : TsWord(t) \in Word /\ TsWord(t).kind = "ts"
                      /\ TsWord(t).val = t
  /\ LastWord \in Word /\ LastWord.kind = "last"
<1>1. \A w \in Word : w.kind = "ts" => w.val \in Stamp
  BY DEF Word, LastWord
<1>2. \A t \in Stamp : t[2] \in Nat
  BY SizeAssumption DEF Stamp
<1> QED BY <1>1, <1>2 DEF Word, LastWord, AddrWord, TsWord, NumOf

\* A marker behind position i, after a word is added.
LEMMA LastAfterAppend ==
  ASSUME NEW f \in Seq(Word), NEW w \in Word, NEW i \in DOMAIN f
  PROVE  LastAfter(Append(f, w), i) <=> LastAfter(f, i) \/ w.kind = "last"
<1> DEFINE g == Append(f, w)
<1>1. /\ Len(f) \in Nat
      /\ DOMAIN f = 1 .. Len(f) /\ DOMAIN g = 1 .. Len(f) + 1
      /\ \A j \in 1 .. Len(f) : g[j] = f[j]
      /\ g[Len(f) + 1] = w
  BY AppendFacts
<1> HIDE DEF g
<1>2. ASSUME LastAfter(g, i) PROVE LastAfter(f, i) \/ w.kind = "last"
  <2>1. PICK j \in DOMAIN g : i < j /\ g[j].kind = "last"
    BY <1>2 DEF LastAfter
  <2>2. CASE j = Len(f) + 1
    BY <1>1, <2>1, <2>2
  <2>3. CASE j \in DOMAIN f
    BY <1>1, <2>1, <2>3 DEF LastAfter
  <2> QED BY <1>1, <2>1, <2>2, <2>3
<1>3. ASSUME LastAfter(f, i) PROVE LastAfter(g, i)
  <2>1. PICK j \in DOMAIN f : i < j /\ f[j].kind = "last"
    BY <1>3 DEF LastAfter
  <2>2. j \in DOMAIN g /\ g[j].kind = "last"
    BY <1>1, <2>1
  <2> QED BY <2>1, <2>2 DEF LastAfter
<1>4. ASSUME w.kind = "last" PROVE LastAfter(g, i)
  <2>1. Len(f) + 1 \in DOMAIN g /\ i < Len(f) + 1
    BY <1>1
  <2> QED BY <1>1, <1>4, <2>1 DEF LastAfter
<1> QED BY <1>2, <1>3, <1>4 DEF g

\* The write FSM adds an address or a timestamp.
LEMMA WordsAppend ==
  ASSUME NEW c, NEW f \in Seq(Word), NEW w \in Word, NEW away \in Int,
         NEW n \in Nat, NEW k \in Nat, NEW m \in Nat, NEW base, NEW other,
         NEW s, NEW t,
         Words(c, f, away, n, m, base, other, s),
         n <= k, w.kind # "last",
         f # <<>> => NextWord(f[Len(f)], w, away, m, base, other),
         Newest(w, away, k, base, t),
         w.kind = "ts" => w = TsWord(Ts(c, NumOf(w))) /\ k > 0
  PROVE  Words(c, Append(f, w), away, k, m, base, other, t)
<1> DEFINE g == Append(f, w)
<1>1. /\ g \in Seq(Word) /\ g # <<>> /\ Len(f) \in Nat
      /\ DOMAIN f = 1 .. Len(f) /\ DOMAIN g = 1 .. Len(f) + 1
      /\ Len(g) = Len(f) + 1
      /\ \A i \in 1 .. Len(f) : g[i] = f[i]
      /\ g[Len(f) + 1] = w
  BY AppendFacts
<1>2. \A i \in DOMAIN f : LastAfter(g, i) <=> LastAfter(f, i)
  BY LastAfterAppend
<1> HIDE DEF g
<1>3. Stamps(c, g, away, k, m)
  <2> SUFFICES ASSUME NEW i \in DOMAIN g, g[i].kind = "ts"
               PROVE  /\ g[i] = TsWord(Ts(c, NumOf(g[i])))
                      /\ NumOf(g[i]) \in away - m + 1 .. away + k
                      /\ NumOf(g[i]) <= away <=> LastAfter(g, i)
    BY DEF Stamps
  <2>1. CASE i \in DOMAIN f
    <3>1. g[i] = f[i]
      BY <1>1, <2>1
    <3>2. /\ f[i] = TsWord(Ts(c, NumOf(f[i])))
          /\ NumOf(f[i]) \in away - m + 1 .. away + n
          /\ NumOf(f[i]) <= away <=> LastAfter(f, i)
      BY <2>1, <3>1 DEF Words, Stamps
    <3> QED BY <1>2, <2>1, <3>1, <3>2
  <2>2. CASE i = Len(f) + 1
    <3>1. g[i] = w /\ ~LastAfter(g, i)
      BY <1>1, <2>2 DEF LastAfter
    <3>2. NumOf(w) = away + k /\ w = TsWord(Ts(c, NumOf(w))) /\ k > 0
      BY <3>1 DEF Newest
    <3> QED BY <3>1, <3>2
  <2> QED BY <1>1, <2>1, <2>2
<1>4. Neighbours(g, away, m, base, other)
  <2> SUFFICES ASSUME NEW i \in DOMAIN g, i < Len(g)
               PROVE  NextWord(g[i], g[i + 1], away, m, base, other)
    BY DEF Neighbours
  <2>1. i \in DOMAIN f /\ g[i] = f[i]
    BY <1>1
  <2>2. CASE i < Len(f)
    BY <1>1, <2>1, <2>2 DEF Words, Neighbours
  <2>3. CASE i = Len(f)
    BY <1>1, <2>1, <2>3
  <2> QED BY <1>1, <2>1, <2>2, <2>3
<1>5. Newest(g[Len(g)], away, k, base, t)
  BY <1>1
<1>6. OneMarker(g)
  BY <1>1 DEF Words, OneMarker
<1> QED BY <1>3, <1>4, <1>5, <1>6 DEF Words, g

\* OpenBurst: the address of the slot that comes next.
LEMMA WordsOpen ==
  ASSUME NEW c, NEW f \in Seq(Word), NEW away \in Int, NEW n \in Nat,
         NEW m \in Nat, NEW base \in Nat, NEW other,
         Words(c, f, away, n, m, base, other, "IDLE")
  PROVE  Words(c, Append(f, AddrWord(base + n)), away, n, m, base, other, "SER")
<1> DEFINE w == AddrWord(base + n)
<1>1. w \in Word /\ w.kind = "addr" /\ w.val = base + n
  BY Kinds
<1> HIDE DEF w
<1>2. ASSUME f # <<>> PROVE NextWord(f[Len(f)], w, away, m, base, other)
  BY <1>1, <1>2 DEF Words, Newest, NextWord
<1>3. Newest(w, away, n, base, "SER")
  BY <1>1 DEF Newest
<1>4. Words(c, Append(f, w), away, n, m, base, other, "SER")
  BY <1>1, <1>2, <1>3, WordsAppend
<1> QED BY <1>4 DEF w

\* Serialise: the next timestamp of the burst.
LEMMA WordsSerialise ==
  ASSUME NEW c, NEW f \in Seq(Word), NEW away \in Int, NEW n \in Nat,
         NEW m \in Nat, NEW base \in Nat, NEW other,
         Ts(c, away + n + 1) \in Stamp,
         Words(c, f, away, n, m, base, other, "SER")
  PROVE  Words(c, Append(f, TsWord(Ts(c, away + n + 1))), away, n + 1, m, base,
               other, "WAIT_NEXT_TS")
<1> DEFINE w == TsWord(Ts(c, away + n + 1))
<1>1. /\ w \in Word /\ w.kind = "ts" /\ NumOf(w) = away + n + 1
      /\ w = TsWord(Ts(c, NumOf(w)))
  <2>1. w \in Word /\ w.kind = "ts" /\ w.val = Ts(c, away + n + 1)
    BY Kinds
  <2>2. NumOf(w) = away + n + 1
    BY <2>1 DEF NumOf, Ts
  <2> QED BY <2>1, <2>2
<1> HIDE DEF w
<1>2. ASSUME f # <<>> PROVE NextWord(f[Len(f)], w, away, m, base, other)
  <2>1. Len(f) \in DOMAIN f /\ f[Len(f)] \in Word
    BY <1>2
  <2>2. Newest(f[Len(f)], away, n, base, "SER")
    BY <1>2 DEF Words
  <2>3. CASE f[Len(f)].kind = "addr"
    BY <1>1, <2>2, <2>3 DEF NextWord, Newest, Slot
  <2>4. CASE f[Len(f)].kind = "ts"
    <3>1. NumOf(f[Len(f)]) = away + n
      BY <2>2, <2>4 DEF Newest
    <3>2. ~LastAfter(f, Len(f))
      BY <2>1 DEF LastAfter
    <3>3. NumOf(f[Len(f)]) # away
      BY <2>1, <2>4, <3>2 DEF Words, Stamps
    <3> QED BY <1>1, <2>4, <3>1, <3>3 DEF NextWord
  <2> QED BY <2>1, <2>2, <2>3, <2>4, Kinds DEF Newest
<1>3. Newest(w, away, n + 1, base, "WAIT_NEXT_TS")
  BY <1>1 DEF Newest
<1>4. Words(c, Append(f, w), away, n + 1, m, base, other, "WAIT_NEXT_TS")
  BY <1>1, <1>2, <1>3, WordsAppend
<1> QED BY <1>4 DEF w

\* The states of the write FSM between which the FIFO stays as it is.
LEMMA WordsState ==
  ASSUME NEW c, NEW f \in Seq(Word), NEW away, NEW n, NEW m, NEW base,
         NEW other, NEW s, NEW t,
         Words(c, f, away, n, m, base, other, s),
         s # "SER", t = "SER" => s = "WAIT_NEXT_TS", t # "WAIT_NEXT_TS"
  PROVE  Words(c, f, away, n, m, base, other, t)
<1>1. f # <<>> => Newest(f[Len(f)], away, n, base, t)
  BY DEF Words, Newest
<1> QED BY <1>1 DEF Words

\* SwitchBuffers: the buffers change places, and the marker goes behind the
\* timestamps of the one switched away.
LEMMA WordsSwitch ==
  ASSUME NEW c, NEW f \in Seq(Word), NEW away \in Int, NEW n \in Nat,
         NEW m \in Nat, NEW base \in Nat, NEW other \in Int,
         NoLast(f),
         Words(c, f, away, n, m, base, other, "SWITCH_BUFFERS")
  PROVE  Words(c, Append(f, LastWord), away + n, 0, n, other, base, "IDLE")
<1> DEFINE w == LastWord
           g == Append(f, w)
<1>w. w \in Word /\ w.kind = "last"
  BY Kinds
<1> HIDE DEF w
<1>1. /\ g \in Seq(Word) /\ g # <<>> /\ Len(f) \in Nat
      /\ DOMAIN f = 1 .. Len(f) /\ DOMAIN g = 1 .. Len(f) + 1
      /\ Len(g) = Len(f) + 1
      /\ \A i \in 1 .. Len(f) : g[i] = f[i]
      /\ g[Len(f) + 1] = w
  BY <1>w, AppendFacts
<1>2. \A i \in DOMAIN f : LastAfter(g, i)
  BY <1>w, LastAfterAppend
<1> HIDE DEF g
<1>o. \A i \in DOMAIN f : f[i].kind = "ts" =>
         /\ f[i] = TsWord(Ts(c, NumOf(f[i])))
         /\ NumOf(f[i]) \in away + 1 .. away + n
  <2> SUFFICES ASSUME NEW i \in DOMAIN f, f[i].kind = "ts"
               PROVE  /\ f[i] = TsWord(Ts(c, NumOf(f[i])))
                      /\ NumOf(f[i]) \in away + 1 .. away + n
    OBVIOUS
  <2>1. ~LastAfter(f, i)
    BY DEF LastAfter, NoLast
  <2> QED BY <2>1 DEF Words, Stamps
<1>3. Stamps(c, g, away + n, 0, n)
  <2> SUFFICES ASSUME NEW i \in DOMAIN g, g[i].kind = "ts"
               PROVE  /\ g[i] = TsWord(Ts(c, NumOf(g[i])))
                      /\ NumOf(g[i]) \in (away + n) - n + 1 .. (away + n) + 0
                      /\ NumOf(g[i]) <= away + n <=> LastAfter(g, i)
    BY DEF Stamps
  <2>1. i \in DOMAIN f /\ g[i] = f[i]
    BY <1>w, <1>1
  <2> QED BY <1>o, <1>2, <2>1
<1>4. Neighbours(g, away + n, n, other, base)
  <2> SUFFICES ASSUME NEW i \in DOMAIN g, i < Len(g)
               PROVE  NextWord(g[i], g[i + 1], away + n, n, other, base)
    BY DEF Neighbours
  <2>1. i \in DOMAIN f /\ g[i] = f[i] /\ f # <<>> /\ f[i] \in Word
    BY <1>1
  <2>n. f[i].kind # "last"
    BY <2>1 DEF NoLast
  <2>2. CASE i < Len(f)
    <3>1. NextWord(f[i], f[i + 1], away, m, base, other)
      BY <2>1, <2>2 DEF Words, Neighbours
    <3>2. i + 1 \in DOMAIN f /\ g[i + 1] = f[i + 1]
      BY <1>1, <2>2
    <3>3. f[i + 1].kind # "last"
      BY <3>2 DEF NoLast
    <3>4. CASE f[i].kind = "addr"
      <4>1. /\ f[i + 1].kind = "ts"
            /\ f[i].val = Slot(NumOf(f[i + 1]), away, m, base, other)
        BY <3>1, <3>4 DEF NextWord
      <4>2. NumOf(f[i + 1]) \in away + 1 .. away + n
        BY <1>o, <3>2, <4>1
      <4>3. Slot(NumOf(f[i + 1]), away, m, base, other)
              = Slot(NumOf(f[i + 1]), away + n, n, other, base)
        BY <4>2 DEF Slot
      <4> QED BY <2>1, <3>2, <3>4, <4>1, <4>3 DEF NextWord
    <3>5. CASE f[i].kind = "ts"
      <4>1. CASE f[i + 1].kind = "addr"
        BY <2>1, <3>2, <3>5, <4>1 DEF NextWord
      <4>2. CASE f[i + 1].kind = "ts"
        <5>1. NumOf(f[i + 1]) = NumOf(f[i]) + 1
          BY <3>1, <3>5, <4>2 DEF NextWord
        <5>2. /\ NumOf(f[i]) \in away + 1 .. away + n
              /\ NumOf(f[i + 1]) \in away + 1 .. away + n
          BY <1>o, <2>1, <3>2, <3>5, <4>2
        <5>3. NumOf(f[i]) # away + n
          BY <5>1, <5>2
        <5> QED BY <2>1, <3>2, <3>5, <4>2, <5>1, <5>3 DEF NextWord
      <4> QED BY <3>1, <3>3, <3>5, <4>1, <4>2 DEF NextWord
    <3> QED BY <2>1, <2>n, <3>4, <3>5, Kinds
  <2>3. CASE i = Len(f)
    <3>1. Newest(f[i], away, n, base, "SWITCH_BUFFERS")
      BY <2>1, <2>3 DEF Words
    <3>2. f[i].kind = "ts" /\ NumOf(f[i]) = away + n
      BY <2>1, <2>n, <3>1, Kinds DEF Newest
    <3> QED BY <1>w, <1>1, <2>1, <2>3, <3>2 DEF NextWord
  <2> QED BY <1>1, <2>1, <2>2, <2>3
<1>5. Newest(g[Len(g)], away + n, 0, other, "IDLE")
  BY <1>w, <1>1 DEF Newest
<1>6. OneMarker(g)
  BY <1>1 DEF NoLast, OneMarker
<1> QED BY <1>3, <1>4, <1>5, <1>6 DEF Words, g, w

\* What a queue holds after its head has left.
LEMMA PopFacts ==
  ASSUME NEW f \in Seq(Word), f # <<>>
  PROVE  /\ Len(f) \in Nat /\ Len(f) > 0 /\ DOMAIN f = 1 .. Len(f)
         /\ Tail(f) \in Seq(Word) /\ Head(f) = f[1] /\ f[1] \in Word
         /\ Len(Tail(f)) = Len(f) - 1
         /\ DOMAIN Tail(f) = 1 .. Len(f) - 1
         /\ \A i \in 1 .. Len(f) - 1 : Tail(f)[i] = f[i + 1]
         /\ Tail(f) = <<>> <=> Len(f) = 1
         /\ Tail(f) # <<>> => Head(Tail(f)) = f[2]
                              /\ Tail(f)[Len(Tail(f))] = f[Len(f)]
<1>1. /\ Len(f) \in Nat /\ Len(f) > 0 /\ DOMAIN f = 1 .. Len(f)
      /\ Tail(f) \in Seq(Word)
      /\ Len(Tail(f)) = Len(f) - 1
      /\ DOMAIN Tail(f) = 1 .. Len(f) - 1
      /\ \A i \in 1 .. Len(f) - 1 : Tail(f)[i] = f[i + 1]
      /\ Tail(f) = <<>> <=> Len(f) = 1
  BY TailFacts
<1>2. Head(f) = f[1] /\ f[1] \in Word
  OBVIOUS
<1>3. Tail(f) # <<>> => Head(Tail(f)) = Tail(f)[1]
  BY <1>1
<1>4. ASSUME Tail(f) # <<>>
      PROVE  Head(Tail(f)) = f[2] /\ Tail(f)[Len(Tail(f))] = f[Len(f)]
  <2>1. Len(f) > 1
    BY <1>1, <1>4
  <2> QED BY <1>1, <1>3, <1>4, <2>1
<1> QED BY <1>1, <1>2, <1>4

\* The DDR master takes a word.
LEMMA WordsPop ==
  ASSUME NEW c, NEW f \in Seq(Word), f # <<>>, NEW away, NEW n, NEW m,
         NEW base, NEW other, NEW s,
         Words(c, f, away, n, m, base, other, s)
  PROVE  Words(c, Tail(f), away, n, m, base, other, s)
<1> DEFINE g == Tail(f)
<1>1. /\ Len(f) \in Nat /\ Len(f) > 0 /\ DOMAIN f = 1 .. Len(f)
      /\ Len(g) = Len(f) - 1 /\ DOMAIN g = 1 .. Len(f) - 1
      /\ \A i \in 1 .. Len(f) - 1 : g[i] = f[i + 1]
      /\ g # <<>> => g[Len(g)] = f[Len(f)]
  BY PopFacts
<1> HIDE DEF g
<1>2. ASSUME NEW i \in DOMAIN g
      PROVE  LastAfter(g, i) <=> LastAfter(f, i + 1)
  <2>1. ASSUME LastAfter(g, i) PROVE LastAfter(f, i + 1)
    <3>1. PICK j \in DOMAIN g : i < j /\ g[j].kind = "last"
      BY <2>1 DEF LastAfter
    <3>2. j + 1 \in DOMAIN f /\ i + 1 < j + 1 /\ f[j + 1].kind = "last"
      BY <1>1, <3>1
    <3> QED BY <3>2 DEF LastAfter
  <2>2. ASSUME LastAfter(f, i + 1) PROVE LastAfter(g, i)
    <3>1. PICK j \in DOMAIN f : i + 1 < j /\ f[j].kind = "last"
      BY <2>2 DEF LastAfter
    <3>2. j - 1 \in DOMAIN g /\ i < j - 1 /\ g[j - 1] = f[j]
      <4>1. j - 1 \in 1 .. Len(f) - 1 /\ i < j - 1 /\ (j - 1) + 1 = j
        BY <1>1, <3>1
      <4> QED BY <1>1, <4>1
    <3> QED BY <3>1, <3>2 DEF LastAfter
  <2> QED BY <2>1, <2>2
<1>3. Stamps(c, g, away, n, m)
  <2> SUFFICES ASSUME NEW i \in DOMAIN g, g[i].kind = "ts"
               PROVE  /\ g[i] = TsWord(Ts(c, NumOf(g[i])))
                      /\ NumOf(g[i]) \in away - m + 1 .. away + n
                      /\ NumOf(g[i]) <= away <=> LastAfter(g, i)
    BY DEF Stamps
  <2>1. i + 1 \in DOMAIN f /\ g[i] = f[i + 1]
    BY <1>1
  <2> QED BY <1>2, <2>1 DEF Words, Stamps
<1>4. Neighbours(g, away, m, base, other)
  <2> SUFFICES ASSUME NEW i \in DOMAIN g, i < Len(g)
               PROVE  NextWord(g[i], g[i + 1], away, m, base, other)
    BY DEF Neighbours
  <2>1. /\ i + 1 \in DOMAIN f /\ i + 1 < Len(f)
        /\ g[i] = f[i + 1] /\ g[i + 1] = f[(i + 1) + 1]
    BY <1>1
  <2> QED BY <2>1 DEF Words, Neighbours
<1>5. g # <<>> => Newest(g[Len(g)], away, n, base, s)
  BY <1>1 DEF Words
<1>6. OneMarker(g)
  <2> SUFFICES ASSUME NEW i \in DOMAIN g, NEW j \in DOMAIN g,
                      g[i].kind = "last", g[j].kind = "last"
               PROVE  i = j
    BY DEF OneMarker
  <2>1. /\ i + 1 \in DOMAIN f /\ j + 1 \in DOMAIN f
        /\ g[i] = f[i + 1] /\ g[j] = f[j + 1]
    BY <1>1
  <2>2. i + 1 = j + 1
    BY <2>1 DEF Words, OneMarker
  <2> QED BY <1>1, <2>2
<1> QED BY <1>3, <1>4, <1>5, <1>6 DEF Words, g
-----------------------------------------------------------------------------
(* dma_addr *)

\* The head of a queue against the word behind it.
LEMMA FirstTwo ==
  ASSUME NEW c, NEW f \in Seq(Word), NEW away, NEW n, NEW m, NEW base,
         NEW other, NEW s, Len(f) # 1, f # <<>>,
         Words(c, f, away, n, m, base, other, s)
  PROVE  NextWord(f[1], f[2], away, m, base, other)
<1>1. 1 \in DOMAIN f /\ 1 < Len(f)
  BY PopFacts
<1>2. NextWord(f[1], f[1 + 1], away, m, base, other)
  BY <1>1, Zenon DEF Words, Neighbours
<1>3. 1 + 1 = 2
  OBVIOUS
<1> QED BY <1>2, <1>3, Zenon

\* OpenBurst adds an address: the head stays, or is the address.
LEMMA AddressOpen ==
  ASSUME NEW f \in Seq(Word), NEW w \in Word, w.kind = "addr",
         NEW e, NEW a, NEW away, NEW n, NEW m, NEW base, NEW other, NEW s,
         NEW t,
         Address(f, e, a, away, n, m, base, other, s)
  PROVE  Address(Append(f, w), e, a, away, n, m, base, other, t)
<1> DEFINE g == Append(f, w)
<1>1. g # <<>> /\ IF f = <<>> THEN Head(g) = w ELSE Head(g) = Head(f)
  BY AppendFacts
<1> HIDE DEF g
<1>2. Address(g, e, a, away, n, m, base, other, t)
  BY <1>1 DEF Address
<1> QED BY <1>2 DEF g

\* Serialise adds a timestamp: when the master is in an empty burst it is just
\* there.
LEMMA AddressSerialise ==
  ASSUME NEW f \in Seq(Word), NEW w \in Word, w.kind = "ts",
         NEW e, NEW a, NEW away \in Int, NEW n \in Nat, NEW m, NEW base \in Nat,
         NEW other,
         NumOf(w) = away + n + 1,
         Address(f, e, a, away, n, m, base, other, "SER")
  PROVE  Address(Append(f, w), e, a, away, n + 1, m, base, other,
                 "WAIT_NEXT_TS")
<1> DEFINE g == Append(f, w)
<1>1. g # <<>> /\ IF f = <<>> THEN Head(g) = w ELSE Head(g) = Head(f)
  BY AppendFacts
<1> HIDE DEF g
<1>2. Slot(NumOf(w), away, m, base, other) = base + n
  BY DEF Slot
<1>3. Address(g, e, a, away, n + 1, m, base, other, "WAIT_NEXT_TS")
  BY <1>1, <1>2 DEF Address
<1> QED BY <1>3 DEF g

\* Between the states of the write FSM dma_addr stays right.
LEMMA AddressState ==
  ASSUME NEW f, NEW e, NEW a, NEW away, NEW n, NEW m, NEW base,
         NEW other, NEW s, NEW t,
         Address(f, e, a, away, n, m, base, other, s),
         t = "SER" => s = "WAIT_NEXT_TS", t # "WAIT_NEXT_TS"
  PROVE  Address(f, e, a, away, n, m, base, other, t)
  BY DEF Address

\* SwitchBuffers: the master's next word is a timestamp of the buffer switched
\* away, or the marker behind its last.
LEMMA AddressSwitch ==
  ASSUME NEW c, NEW f \in Seq(Word), NEW e, NEW a, NEW away \in Int,
         NEW n \in Nat, NEW m \in Nat, NEW base \in Nat, NEW other \in Int,
         n > 0, NoLast(f),
         Words(c, f, away, n, m, base, other, "SWITCH_BUFFERS"),
         Address(f, e, a, away, n, m, base, other, "SWITCH_BUFFERS")
  PROVE  Address(Append(f, LastWord), e, a, away + n, 0, n, other, base, "IDLE")
<1> DEFINE w == LastWord
           g == Append(f, w)
<1>w. w \in Word /\ w.kind = "last"
  BY Kinds
<1> HIDE DEF w
<1>1. g # <<>> /\ IF f = <<>> THEN Head(g) = w ELSE Head(g) = Head(f)
  BY <1>w, AppendFacts
<1> HIDE DEF g
<1>2. ASSUME f # <<>>
      PROVE  /\ Head(f).kind # "last"
             /\ Head(f).kind = "ts" =>
                  Slot(NumOf(Head(f)), away, m, base, other)
                    = Slot(NumOf(Head(f)), away + n, n, other, base)
  <2>1. 1 \in DOMAIN f /\ Head(f) = f[1]
    BY <1>2
  <2>2. Head(f).kind # "last" /\ ~LastAfter(f, 1)
    BY <2>1 DEF NoLast, LastAfter
  <2>3. ASSUME Head(f).kind = "ts"
        PROVE  NumOf(Head(f)) \in away + 1 .. away + n
    BY <2>1, <2>2, <2>3 DEF Words, Stamps
  <2> QED BY <2>2, <2>3 DEF Slot
<1>3. Address(g, e, a, away + n, 0, n, other, base, "IDLE")
  BY <1>w, <1>1, <1>2 DEF Address
<1> QED BY <1>3 DEF g, w

\* StartBurst: the address of a burst is the slot of its first timestamp.
LEMMA AddressStart ==
  ASSUME NEW c, NEW f \in Seq(Word), f # <<>>, Head(f).kind = "addr",
         NEW away, NEW n, NEW m, NEW base, NEW other, NEW s,
         Words(c, f, away, n, m, base, other, s)
  PROVE  Address(Tail(f), "EXECUTE_BURST", Head(f).val, away, n, m, base,
                 other, s)
<1> DEFINE g == Tail(f)
<1>1. /\ Len(f) \in Nat /\ Len(f) > 0 /\ DOMAIN f = 1 .. Len(f)
      /\ Head(f) = f[1]
      /\ g = <<>> <=> Len(f) = 1
      /\ g # <<>> => Head(g) = f[2]
  BY PopFacts
<1> HIDE DEF g
<1>2. CASE g = <<>>
  BY <1>1, <1>2 DEF Words, Newest, Address, g
<1>3. CASE g # <<>>
  <2>1. NextWord(f[1], f[2], away, m, base, other)
    BY <1>1, <1>3, FirstTwo
  <2> QED BY <1>1, <1>3, <2>1 DEF NextWord, Address, g
<1> QED BY <1>2, <1>3

\* WriteTs: the next timestamp goes one slot further, and behind the last one
\* of the buffer switched away comes the marker.
LEMMA AddressWrite ==
  ASSUME NEW c, NEW f \in Seq(Word), f # <<>>, Head(f).kind = "ts",
         NEW away \in Int, NEW n \in Nat, NEW m \in Nat, NEW base \in Nat,
         NEW other \in Int, NEW s, NEW a,
         Words(c, f, away, n, m, base, other, s),
         a = Slot(NumOf(Head(f)), away, m, base, other)
  PROVE  Address(Tail(f), "EXECUTE_BURST", a + 1, away, n, m, base, other, s)
<1> DEFINE g == Tail(f)
           k == NumOf(f[1])
<1>1. /\ Len(f) \in Nat /\ Len(f) > 0 /\ DOMAIN f = 1 .. Len(f)
      /\ Head(f) = f[1]
      /\ g = <<>> <=> Len(f) = 1
      /\ g # <<>> => Head(g) = f[2]
  BY PopFacts
<1>k. k \in away - m + 1 .. away + n /\ (k <= away <=> LastAfter(f, 1))
  BY <1>1 DEF Words, Stamps
<1>a. a = Slot(k, away, m, base, other)
  BY <1>1
<1>i. f[1].kind = "ts"
  BY <1>1
<1> HIDE DEF g, k
<1>2. CASE g = <<>>
  <2>1. k = away + n
    BY <1>1, <1>i, <1>2 DEF Words, Newest, k
  <2>2. ~LastAfter(f, 1)
    BY <1>1, <1>2 DEF LastAfter
  <2>3. a + 1 = base + n
    BY <1>a, <1>k, <2>1, <2>2 DEF Slot
  <2> QED BY <1>2, <2>3 DEF Address, g
<1>3. CASE g # <<>>
  <2>1. NextWord(f[1], f[2], away, m, base, other)
    BY <1>1, <1>3, FirstTwo
  <2>2. ASSUME Head(g).kind = "ts"
        PROVE  a + 1 = Slot(NumOf(Head(g)), away, m, base, other)
    <3>1. NumOf(Head(g)) = k + 1 /\ k # away
      BY <1>1, <1>3, <1>i, <2>1, <2>2 DEF NextWord, k
    <3> QED BY <1>a, <1>k, <3>1 DEF Slot
  <2>3. ASSUME Head(g).kind = "last"
        PROVE  a + 1 = other + m
    <3>1. k = away
      BY <1>1, <1>3, <1>i, <2>1, <2>3 DEF NextWord, k
    <3> QED BY <1>a, <3>1 DEF Slot
  <2> QED BY <1>3, <2>2, <2>3 DEF Address, g
<1> QED BY <1>2, <1>3

\* PopLast: what comes behind the marker is a burst of its own.
LEMMA AddressLast ==
  ASSUME NEW c, NEW f \in Seq(Word), f # <<>>, Head(f).kind = "last",
         NEW e, NEW a, NEW away, NEW n, NEW m, NEW base, NEW other, NEW s,
         Words(c, f, away, n, m, base, other, s)
  PROVE  Address(Tail(f), e, a, away, n, m, base, other, s)
<1> DEFINE g == Tail(f)
<1>1. /\ Len(f) \in Nat /\ Len(f) > 0 /\ DOMAIN f = 1 .. Len(f)
      /\ Head(f) = f[1]
      /\ g = <<>> <=> Len(f) = 1
      /\ g # <<>> => Head(g) = f[2]
  BY PopFacts
<1> HIDE DEF g
<1>2. CASE g = <<>>
  BY <1>1, <1>2 DEF Words, Newest, Address, g
<1>3. CASE g # <<>>
  <2>1. NextWord(f[1], f[2], away, m, base, other)
    BY <1>1, <1>3, FirstTwo
  <2> QED BY <1>1, <1>3, <2>1 DEF NextWord, Address, g
<1> QED BY <1>2, <1>3

-----------------------------------------------------------------------------
(* The cells of the DDR *)

\* Two buffers do not overlap.
Apart(x, y) == x + BufSize <= y \/ y + BufSize <= x

\* A timestamp of the current buffer is among its first n slots, one of the
\* buffer switched away among its first m; no two share a slot.
LEMMA SlotFacts ==
  ASSUME NEW away \in Int, NEW n \in Nat, NEW m \in Nat, NEW base \in Nat,
         NEW other \in Nat, n < BufSize, m < BufSize, Apart(base, other)
  PROVE  /\ \A k \in away - m + 1 .. away + n :
               /\ k > away =>
                    Slot(k, away, m, base, other) \in base .. base + n - 1
               /\ k <= away =>
                    Slot(k, away, m, base, other) \in other .. other + m - 1
               /\ Slot(k, away, m, base, other) # other + m
         /\ \A k, l \in away - m + 1 .. away + n :
               Slot(k, away, m, base, other) = Slot(l, away, m, base, other)
                 => k = l
<1>1. BufSize \in Nat
  BY SizeAssumption
<1>2. \A k \in away - m + 1 .. away + n :
         /\ k > away =>
              Slot(k, away, m, base, other) \in base .. base + n - 1
         /\ k <= away =>
              Slot(k, away, m, base, other) \in other .. other + m - 1
         /\ Slot(k, away, m, base, other) # other + m
  BY <1>1 DEF Slot, Apart
<1>3. ASSUME NEW k \in away - m + 1 .. away + n,
             NEW l \in away - m + 1 .. away + n,
             Slot(k, away, m, base, other) = Slot(l, away, m, base, other)
      PROVE  k = l
  BY <1>1, <1>3 DEF Slot, Apart
<1> QED BY <1>2, <1>3

\* A word is added that is no timestamp.
LEMMA CellsAppend ==
  ASSUME NEW c, NEW f \in Seq(Word), NEW w \in Word, NEW ddr, NEW away,
         NEW n, NEW m, NEW base, NEW other,
         Cells(c, f, ddr, away, n, m, base, other)
  PROVE  Cells(c, Append(f, w), ddr, away, n, m, base, other)
<1>1. \A i \in DOMAIN f : i \in DOMAIN Append(f, w) /\ Append(f, w)[i] = f[i]
  BY AppendFacts
<1> QED BY <1>1 DEF Cells

\* Serialise: the new timestamp is in the FIFO.
LEMMA CellsSerialise ==
  ASSUME NEW c, NEW f \in Seq(Word), NEW ddr, NEW away \in Int,
         NEW n \in Nat, NEW m \in Nat, NEW base, NEW other,
         TsWord(Ts(c, away + n + 1)) \in Word,
         Cells(c, f, ddr, away, n, m, base, other)
  PROVE  Cells(c, Append(f, TsWord(Ts(c, away + n + 1))), ddr, away, n + 1, m,
               base, other)
<1> DEFINE w == TsWord(Ts(c, away + n + 1))
           g == Append(f, w)
<1>1. /\ Len(f) \in Nat /\ DOMAIN f = 1 .. Len(f)
      /\ DOMAIN g = 1 .. Len(f) + 1
      /\ \A i \in 1 .. Len(f) : g[i] = f[i]
      /\ g[Len(f) + 1] = w
  BY AppendFacts
<1>2. Len(f) + 1 \in DOMAIN g /\ g[Len(f) + 1] = TsWord(Ts(c, away + n + 1))
  BY <1>1
<1> HIDE DEF g, w
<1>3. ASSUME NEW k \in away - m + 1 .. away + (n + 1)
      PROVE  \/ \E i \in DOMAIN g : g[i] = TsWord(Ts(c, k))
             \/ ddr[Slot(k, away, m, base, other)] = Ts(c, k)
  <2>1. CASE k = away + n + 1
    BY <1>2, <2>1
  <2>2. CASE k # away + n + 1
    <3>1. k \in away - m + 1 .. away + n
      BY <2>2
    <3>2. CASE \E i \in DOMAIN f : f[i] = TsWord(Ts(c, k))
      <4>1. PICK i \in DOMAIN f : f[i] = TsWord(Ts(c, k))
        BY <3>2
      <4>2. i \in DOMAIN g /\ g[i] = TsWord(Ts(c, k))
        BY <1>1, <4>1
      <4> QED BY <4>2
    <3> QED BY <3>1, <3>2 DEF Cells
  <2> QED BY <2>1, <2>2
<1> QED BY <1>3 DEF Cells, g, w

\* SwitchBuffers: only the buffer switched away holds timestamps, in the slots
\* they had.
LEMMA CellsSwitch ==
  ASSUME NEW c, NEW f \in Seq(Word), NEW ddr, NEW away \in Int,
         NEW n \in Nat, NEW m \in Nat, NEW base \in Nat, NEW other \in Int,
         Cells(c, f, ddr, away, n, m, base, other)
  PROVE  Cells(c, Append(f, LastWord), ddr, away + n, 0, n, other, base)
<1>1. Cells(c, Append(f, LastWord), ddr, away, n, m, base, other)
  BY CellsAppend, Kinds
<1>2. \A k \in (away + n) - n + 1 .. (away + n) + 0 :
         /\ k \in away - m + 1 .. away + n
         /\ Slot(k, away, m, base, other) = Slot(k, away + n, n, other, base)
  BY DEF Slot
<1> QED BY <1>1, <1>2 DEF Cells

\* The DDR master takes a word that is no timestamp.
LEMMA CellsPop ==
  ASSUME NEW c, NEW f \in Seq(Word), f # <<>>, Head(f).kind # "ts",
         NEW ddr, NEW away, NEW n, NEW m, NEW base, NEW other,
         Cells(c, f, ddr, away, n, m, base, other)
  PROVE  Cells(c, Tail(f), ddr, away, n, m, base, other)
<1> DEFINE g == Tail(f)
<1>1. /\ Len(f) \in Nat /\ Len(f) > 0 /\ DOMAIN f = 1 .. Len(f)
      /\ Head(f) = f[1]
      /\ DOMAIN g = 1 .. Len(f) - 1
      /\ \A i \in 1 .. Len(f) - 1 : g[i] = f[i + 1]
  BY PopFacts
<1> HIDE DEF g
<1>2. ASSUME NEW k, NEW i \in DOMAIN f, f[i] = TsWord(Ts(c, k))
      PROVE  \E j \in DOMAIN g : g[j] = TsWord(Ts(c, k))
  <2>1. i # 1
    BY <1>1, <1>2 DEF TsWord
  <2>2. i - 1 \in 1 .. Len(f) - 1 /\ (i - 1) + 1 = i
    BY <1>1, <2>1
  <2>3. i - 1 \in DOMAIN g /\ g[i - 1] = f[i]
    BY <1>1, <2>2
  <2> QED BY <1>2, <2>3
<1>3. Cells(c, g, ddr, away, n, m, base, other)
  BY <1>2 DEF Cells
<1> QED BY <1>3 DEF g

\* WriteTs: the timestamp at the head goes to its slot, and no other is there.
LEMMA CellsWrite ==
  ASSUME NEW c, NEW f \in Seq(Word), f # <<>>, Head(f).kind = "ts",
         NEW ddr, NEW a \in DOMAIN ddr, NEW away \in Int, NEW n \in Nat,
         NEW m \in Nat, NEW base \in Nat, NEW other \in Nat, NEW s,
         n < BufSize, m < BufSize, Apart(base, other),
         Words(c, f, away, n, m, base, other, s),
         a = Slot(NumOf(Head(f)), away, m, base, other),
         Cells(c, f, ddr, away, n, m, base, other)
  PROVE  Cells(c, Tail(f), [ddr EXCEPT ![a] = Head(f).val], away, n, m, base,
               other)
<1> DEFINE g == Tail(f)
           h == NumOf(f[1])
           d == [ddr EXCEPT ![a] = Head(f).val]
<1>1. /\ Len(f) \in Nat /\ Len(f) > 0 /\ DOMAIN f = 1 .. Len(f)
      /\ Head(f) = f[1]
      /\ DOMAIN g = 1 .. Len(f) - 1
      /\ \A i \in 1 .. Len(f) - 1 : g[i] = f[i + 1]
  BY PopFacts
<1>h. f[1] = TsWord(Ts(c, h)) /\ h \in away - m + 1 .. away + n
  BY <1>1 DEF Words, Stamps
<1>v. Head(f).val = Ts(c, h)
  <2>1. f[1].val = Ts(c, h)
    <3> HIDE DEF h
    <3> QED BY <1>h DEF TsWord
  <2> QED BY <1>1, <2>1
<1>a. a = Slot(h, away, m, base, other)
  BY <1>1
<1>d. d[a] = Ts(c, h) /\ \A x \in DOMAIN ddr : x # a => d[x] = ddr[x]
  BY <1>v
<1>x. \A x : x # a => d[x] = ddr[x]
  OBVIOUS
<1> HIDE DEF g, h, d
<1>2. ASSUME NEW k \in away - m + 1 .. away + n
      PROVE  \/ \E j \in DOMAIN g : g[j] = TsWord(Ts(c, k))
             \/ d[Slot(k, away, m, base, other)] = Ts(c, k)
  <2>1. CASE k = h
    BY <1>a, <1>d, <2>1
  <2>2. CASE k # h
    <3>1. Slot(k, away, m, base, other) = Slot(h, away, m, base, other) => k = h
      BY <1>h, SlotFacts
    <3>s. Slot(k, away, m, base, other) # a
      BY <1>a, <2>2, <3>1
    <3>2. CASE \E i \in DOMAIN f : f[i] = TsWord(Ts(c, k))
      <4>1. PICK i \in DOMAIN f : f[i] = TsWord(Ts(c, k))
        BY <3>2
      <4>2. i # 1
        BY <1>h, <2>2, <4>1 DEF TsWord, Ts
      <4>3. i - 1 \in 1 .. Len(f) - 1 /\ (i - 1) + 1 = i
        BY <1>1, <4>2
      <4>4. i - 1 \in DOMAIN g /\ g[i - 1] = TsWord(Ts(c, k))
        BY <1>1, <4>1, <4>3
      <4> QED BY <4>4
    <3>3. CASE ddr[Slot(k, away, m, base, other)] = Ts(c, k)
      BY <1>x, <3>s, <3>3
    <3> QED BY <3>2, <3>3 DEF Cells
  <2> QED BY <2>1, <2>2
<1> QED BY <1>2 DEF Cells, g, d

\* A write to none of the slots.
LEMMA CellsElsewhere ==
  ASSUME NEW c, NEW f, NEW ddr, NEW away, NEW n, NEW m, NEW base, NEW other,
         NEW a, NEW v,
         \A k \in away - m + 1 .. away + n : Slot(k, away, m, base, other) # a,
         Cells(c, f, ddr, away, n, m, base, other)
  PROVE  Cells(c, f, [ddr EXCEPT ![a] = v], away, n, m, base, other)
<1> DEFINE d == [ddr EXCEPT ![a] = v]
<1>1. \A x : x # a => d[x] = ddr[x]
  OBVIOUS
<1> HIDE DEF d
<1>2. Cells(c, f, d, away, n, m, base, other)
  BY <1>1 DEF Cells
<1> QED BY <1>2 DEF d
-----------------------------------------------------------------------------
(* The layout of the DDR *)

\* Buffers lie side by side, in the address range of the DDR.
LEMMA Layout ==
  /\ \A c \in Chan, b \in Buf : /\ BufAddr(c, b) \in Nat
                                /\ BufAddr(c, b) .. BufAddr(c, b) + BufSize - 1
                                     \subseteq Addr
  /\ \A c, d \in Chan, a, b \in Buf :
        c # d \/ a # b => Apart(BufAddr(c, a), BufAddr(d, b))
<1>1. \A x, y \in Nat : x < y => BufSize * x + BufSize <= BufSize * y
  <2> SUFFICES ASSUME NEW x \in Nat, NEW y \in Nat, x < y
               PROVE  BufSize * x + BufSize <= BufSize * y
    OBVIOUS
  <2>1. y - x - 1 \in Nat /\ BufSize \in Nat
    BY SizeAssumption
  <2>2. \A p, q \in Nat : p * q >= 0
    BY Z3
  <2>3. BufSize * (y - x - 1) >= 0
    BY <2>1, <2>2
  <2>4. BufSize * (y - x - 1) = BufSize * y - BufSize * x - BufSize
    BY <2>1, Z3
  <2>5. BufSize * x \in Nat /\ BufSize * y \in Nat
    BY <2>1, Z3
  <2> QED BY <2>1, <2>3, <2>4, <2>5
<1>2. \A c \in Chan, b \in Buf : 2 * c + b \in Nat /\ 2 * c + b < 2 * NumChan
  BY ChanAssumption DEF Chan, Buf
<1>3. BufSize * (2 * NumChan) = 2 * NumChan * BufSize
  BY ChanAssumption, SizeAssumption, Z3
<1>4. 2 * NumChan * BufSize \in Nat
  BY ChanAssumption, SizeAssumption, Z3
<1>5. ASSUME NEW c \in Chan, NEW b \in Buf
      PROVE  /\ BufAddr(c, b) \in Nat
             /\ BufAddr(c, b) .. BufAddr(c, b) + BufSize - 1 \subseteq Addr
  <2>1. BufAddr(c, b) \in Nat
    BY BufAddrNat
  <2>2. BufAddr(c, b) + BufSize <= BufSize * (2 * NumChan)
    BY <1>1, <1>2, ChanAssumption DEF BufAddr
  <2> QED BY <1>3, <1>4, <2>1, <2>2, SizeAssumption DEF Addr
<1>6. ASSUME NEW c \in Chan, NEW d \in Chan, NEW a \in Buf, NEW b \in Buf,
             c # d \/ a # b
      PROVE  Apart(BufAddr(c, a), BufAddr(d, b))
  <2> DEFINE x == 2 * c + a
             y == 2 * d + b
  <2>1. x \in Nat /\ y \in Nat
    BY <1>2
  <2>2. x < y \/ y < x
    BY <1>6, ChanAssumption DEF Chan, Buf
  <2>3. BufAddr(c, a) = BufSize * x /\ BufAddr(d, b) = BufSize * y
    BY DEF BufAddr
  <2> HIDE DEF x, y
  <2> QED BY <1>1, <2>1, <2>2, <2>3 DEF Apart
<1> QED BY <1>5, <1>6

\* Addresses of two inputs, or of an input's two buffers, are different.
LEMMA OwnBuffers ==
  ASSUME NEW c \in Chan, HwTypeOK, Room(c)
  PROVE  /\ cur[c].base \in Nat /\ Other(c) \in Nat
         /\ Apart(cur[c].base, Other(c))
         /\ Other(c) \in {BufAddr(c, 0), BufAddr(c, 1)}
         /\ \A b \in Buf : cur[c].base = BufAddr(c, b)
                             <=> Other(c) = BufAddr(c, 1 - b)
         /\ cur[c].base .. cur[c].base + BufSize - 1 \subseteq Addr
         /\ Other(c) .. Other(c) + BufSize - 1 \subseteq Addr
         /\ \A d \in Chan, b \in Buf :
               c # d => /\ Apart(cur[c].base, BufAddr(d, b))
                        /\ Apart(Other(c), BufAddr(d, b))
<1> DEFINE a0 == BufAddr(c, 0)
           a1 == BufAddr(c, 1)
<1>1. 0 \in Buf /\ 1 \in Buf /\ \A b \in Buf : b = 0 \/ b = 1
  BY DEF Buf
<1>2. a0 \in Nat /\ a1 \in Nat /\ Apart(a0, a1) /\ Apart(a1, a0)
  BY <1>1, Layout
<1>3. /\ a0 .. a0 + BufSize - 1 \subseteq Addr
      /\ a1 .. a1 + BufSize - 1 \subseteq Addr
  BY <1>1, Layout
<1>4. \A d \in Chan, b \in Buf :
        c # d => Apart(a0, BufAddr(d, b)) /\ Apart(a1, BufAddr(d, b))
  BY <1>1, Layout
<1>5. cur[c].base \in {a0, a1} /\ Other(c) = a0 + a1 - cur[c].base
  BY DEF Room, Other
<1>6. BufSize \in Nat /\ BufSize > 0
  BY SizeAssumption
<1>7. BufAddr(c, 1 - 0) = a1 /\ BufAddr(c, 1 - 1) = a0
  <2>1. 1 - 0 = 1 /\ 1 - 1 = 0
    OBVIOUS
  <2> QED BY <2>1
<1>8. a0 # a1
  BY <1>2, <1>6 DEF Apart
<1>9. BufAddr(c, 0) = a0 /\ BufAddr(c, 1) = a1
  OBVIOUS
<1> HIDE DEF a0, a1
<1>10. \/ cur[c].base = a0 /\ Other(c) = a1
       \/ cur[c].base = a1 /\ Other(c) = a0
  BY <1>2, <1>5
<1>11. \A b \in Buf : cur[c].base = BufAddr(c, b)
                         <=> Other(c) = BufAddr(c, 1 - b)
  BY <1>1, <1>7, <1>8, <1>9, <1>10
<1> QED BY <1>2, <1>3, <1>4, <1>9, <1>10, <1>11

-----------------------------------------------------------------------------
(* The gateware *)

\* What the invariant looks at in the channel of input c.
View(c) == <<wst[c], cur[c], count[c], curCount[c], made[c], irqReq[c], fifo[c],
             dst[c], wr[c]>>

\* An input whose channel does nothing.
LEMMA HwFrame ==
  ASSUME NEW c \in Chan, HwData(c), View(c)' = View(c)
  PROVE  /\ Room(c)' /\ WordsOK(c)' /\ AddressOK(c)'
         /\ mem' = mem => CellsOK(c)'
<1>1. /\ wst'[c] = wst[c] /\ cur'[c] = cur[c] /\ count'[c] = count[c]
      /\ curCount'[c] = curCount[c] /\ made'[c] = made[c]
      /\ irqReq'[c] = irqReq[c] /\ fifo'[c] = fifo[c] /\ dst'[c] = dst[c]
      /\ wr'[c] = wr[c]
  BY DEF View
<1>2. Away(c)' = Away(c) /\ Other(c)' = Other(c)
  BY <1>1 DEF Away, Other
<1> QED BY <1>1, <1>2 DEF HwData, Room, WordsOK, AddressOK, CellsOK

\* The numbers of an input.
LEMMA Numbers ==
  ASSUME NEW c \in Chan, HwTypeOK, HwData(c)
  PROVE  /\ Away(c) \in Int /\ count[c] \in Nat /\ curCount[c] \in Nat
         /\ made[c] \in Nat /\ wr[c] \in Nat
         /\ count[c] < BufSize /\ curCount[c] < BufSize
         /\ fifo[c] \in Seq(Word) /\ BufSize \in Nat
         /\ cur[c].base \in Nat /\ Other(c) \in Nat
         /\ Apart(cur[c].base, Other(c))
<1>1. /\ count[c] \in Nat /\ curCount[c] \in Nat /\ made[c] \in Nat
      /\ wr[c] \in Nat
      /\ fifo[c] \in Seq(Word)
  BY SizeAssumption DEF HwTypeOK
<1>2. Away(c) \in Int
  BY <1>1 DEF Away
<1>3. count[c] < BufSize /\ curCount[c] < BufSize /\ BufSize \in Nat
  BY <1>1, SizeAssumption DEF HwData, Room
<1> QED BY <1>1, <1>2, <1>3, OwnBuffers DEF HwData

\* OpenBurst.
LEMMA OpenData == ASSUME NEW c \in Chan, HwTypeOK, HwData(c), ~Overfill,
                         OpenBurst(c)
                  PROVE  HwData(c)'
<1> DEFINE w == AddrWord(cur[c].base + count[c])
<1>1. /\ wst[c] = "IDLE" /\ wst'[c] = "SER" /\ made'[c] = made[c] + 1
      /\ fifo'[c] = Append(fifo[c], w) /\ irqReq'[c] = TRUE
      /\ UNCHANGED <<cur, count, curCount, dst, wr, mem>>
      /\ count[c] + 1 < BufSize
  BY DEF HwTypeOK, OpenBurst, Push, TsValid
<1>2. /\ Away(c) \in Int /\ count[c] \in Nat /\ curCount[c] \in Nat
      /\ made[c] \in Nat /\ fifo[c] \in Seq(Word) /\ cur[c].base \in Nat
      /\ Other(c) \in Nat
  BY Numbers
<1>3. Away(c)' = Away(c) /\ Other(c)' = Other(c)
  BY <1>1, <1>2 DEF Away, Other
<1>w. w \in Word /\ w.kind = "addr"
  BY <1>2, Kinds
<1>4. Room(c)'
  BY <1>1, <1>2, <1>3 DEF HwData, Room
<1>5. WordsOK(c)'
  <2>1. Words(c, fifo[c], Away(c), count[c], curCount[c], cur[c].base, Other(c),
              "IDLE")
    BY <1>1 DEF HwData, WordsOK
  <2>2. Words(c, Append(fifo[c], w), Away(c), count[c], curCount[c],
              cur[c].base, Other(c), "SER")
    BY <1>2, <2>1, WordsOpen
  <2> HIDE DEF w
  <2> QED BY <1>1, <1>3, <2>2 DEF WordsOK
<1> HIDE DEF w
<1>6. AddressOK(c)'
  BY <1>1, <1>2, <1>3, <1>w, AddressOpen DEF HwData, AddressOK
<1>7. CellsOK(c)'
  BY <1>1, <1>2, <1>3, <1>w, CellsAppend DEF HwData, CellsOK
<1> QED BY <1>4, <1>5, <1>6, <1>7 DEF HwData

\* Serialise.
LEMMA SerialiseData == ASSUME NEW c \in Chan, HwTypeOK, HwData(c), Serialise(c)
                       PROVE  HwData(c)'
<1> DEFINE w == TsWord(Ts(c, made[c]))
<1>1. /\ wst[c] = "SER" /\ wst'[c] = "WAIT_NEXT_TS" /\ count'[c] = count[c] + 1
      /\ fifo'[c] = Append(fifo[c], w)
      /\ UNCHANGED <<cur, curCount, dst, wr, mem, made, irqReq>>
  BY DEF HwTypeOK, Serialise, Push
<1>2. /\ Away(c) \in Int /\ count[c] \in Nat /\ curCount[c] \in Nat
      /\ made[c] \in Nat /\ fifo[c] \in Seq(Word) /\ cur[c].base \in Nat
      /\ Other(c) \in Nat /\ BufSize \in Nat
  BY Numbers
<1>3. /\ Away(c)' = Away(c) /\ Other(c)' = Other(c)
      /\ made[c] = Away(c) + count[c] + 1
  <2>1. Away(c) = made[c] - count[c] - 1 /\ Away(c)' = made[c]' - count[c]' - 0
    BY <1>1 DEF Away
  <2> QED BY <1>1, <1>2, <2>1 DEF Other
<1>s. Ts(c, made[c]) \in Stamp
  BY SizeAssumption DEF HwTypeOK, Ts, Stamp
<1>w. w \in Word /\ w.kind = "ts" /\ NumOf(w) = made[c]
  <2>1. w \in Word /\ w.kind = "ts" /\ w.val = Ts(c, made[c])
    BY <1>s, Kinds
  <2>2. NumOf(w) = made[c]
    BY <2>1 DEF NumOf, Ts
  <2> QED BY <2>1, <2>2
<1>4. Room(c)'
  BY <1>1, <1>2, <1>3 DEF HwData, Room
<1>e. w = TsWord(Ts(c, Away(c) + count[c] + 1))
  BY <1>3
<1>5. WordsOK(c)'
  <2>1. Words(c, fifo[c], Away(c), count[c], curCount[c], cur[c].base, Other(c),
              "SER")
    BY <1>1 DEF HwData, WordsOK
  <2>2. Ts(c, Away(c) + count[c] + 1) \in Stamp
    BY <1>3, <1>s
  <2>3. Words(c, Append(fifo[c], TsWord(Ts(c, Away(c) + count[c] + 1))),
              Away(c), count[c] + 1, curCount[c], cur[c].base, Other(c),
              "WAIT_NEXT_TS")
    BY <1>2, <2>1, <2>2, WordsSerialise
  <2> HIDE DEF w
  <2> QED BY <1>1, <1>3, <1>e, <2>3 DEF WordsOK
<1>7. CellsOK(c)'
  BY <1>1, <1>2, <1>3, <1>w, CellsSerialise DEF HwData, CellsOK
<1> HIDE DEF w
<1>6. AddressOK(c)'
  <2>1. Address(fifo[c], dst[c], wr[c], Away(c), count[c], curCount[c],
                cur[c].base, Other(c), "SER")
    BY <1>1 DEF HwData, AddressOK
  <2>2. NumOf(w) = Away(c) + count[c] + 1
    BY <1>3, <1>w
  <2>3. Address(Append(fifo[c], w), dst[c], wr[c], Away(c), count[c] + 1,
                curCount[c], cur[c].base, Other(c), "WAIT_NEXT_TS")
    BY <1>2, <1>w, <2>1, <2>2, AddressSerialise
  <2> QED BY <1>1, <1>3, <2>3 DEF AddressOK
<1> QED BY <1>4, <1>5, <1>6, <1>7 DEF HwData

\* The steps of the write FSM that leave the FIFO and the buffers alone, and
\* p_irq_timer.
LEMMA StateData == ASSUME NEW c \in Chan, HwTypeOK, HwData(c), ~Overfill,
                          \/ LeaveIdle(c) \/ CloseBurst(c) \/ NextTs(c)
                          \/ IrqTimer(c)
                   PROVE  HwData(c)'
<1>1. /\ \/ wst'[c] = wst[c] /\ made'[c] = made[c]
         \/ /\ wst[c] = "WAIT_NEXT_TS" /\ wst'[c] = "SER"
            /\ made'[c] = made[c] + 1 /\ count[c] + 1 < BufSize
         \/ /\ wst[c] # "SER" /\ wst'[c] \notin {"SER", "WAIT_NEXT_TS"}
            /\ made'[c] = made[c]
      /\ wst'[c] = "SER" /\ wst[c] # "SER" => wst[c] = "WAIT_NEXT_TS"
      /\ UNCHANGED <<cur, count, curCount, fifo, dst, wr, mem, irqReq>>
  <2>1. CASE LeaveIdle(c)
    BY <2>1 DEF LeaveIdle, dmaVars, HwTypeOK
  <2>2. CASE CloseBurst(c)
    BY <2>2 DEF CloseBurst, HwTypeOK
  <2>3. CASE NextTs(c)
    BY <2>3 DEF NextTs, TsValid, dmaVars, HwTypeOK, HwData, Room
  <2>4. CASE IrqTimer(c)
    BY <2>4 DEF IrqTimer, dmaVars
  <2> QED BY <2>1, <2>2, <2>3, <2>4
<1>2. /\ Away(c) \in Int /\ count[c] \in Nat /\ curCount[c] \in Nat
      /\ made[c] \in Nat /\ fifo[c] \in Seq(Word) /\ cur[c].base \in Nat
      /\ Other(c) \in Nat /\ BufSize \in Nat
  BY Numbers
<1>3. Away(c)' = Away(c) /\ Other(c)' = Other(c)
  <2>1. (made[c] - count[c] - (IF wst[c] = "SER" THEN 1 ELSE 0))'
           = made[c] - count[c] - (IF wst[c] = "SER" THEN 1 ELSE 0)
    <3>1. CASE wst'[c] = wst[c] /\ made'[c] = made[c]
      BY <1>1, <3>1
    <3>2. CASE /\ wst[c] = "WAIT_NEXT_TS" /\ wst'[c] = "SER"
               /\ made'[c] = made[c] + 1
      <4>1. made'[c] - count[c] - 1 = made[c] - count[c] - 0
        BY <1>2, <3>2
      <4>2. wst[c] # "SER" /\ count' = count
        BY <1>1, <3>2
      <4> QED BY <3>2, <4>1, <4>2
    <3>3. CASE wst[c] # "SER" /\ wst'[c] # "SER" /\ made'[c] = made[c]
      BY <1>1, <3>3
    <3> QED BY <1>1, <3>1, <3>2, <3>3
  <2> QED BY <1>1, <2>1 DEF Away, Other
<1>4. Room(c)'
  <2>1. irqReq[c] => count[c] > 0 \/ wst'[c] = "SER"
    BY <1>1 DEF HwData, Room
  <2> QED BY <1>1, <1>2, <1>3, <2>1 DEF HwData, Room
<1>5. WordsOK(c)'
  <2>1. CASE wst'[c] = wst[c]
    BY <1>1, <1>3, <2>1 DEF HwData, WordsOK
  <2>2. CASE wst'[c] # wst[c]
    BY <1>1, <1>2, <1>3, <2>2, WordsState DEF HwData, WordsOK
  <2> QED BY <2>1, <2>2
<1>6. AddressOK(c)'
  <2>1. CASE wst'[c] = wst[c]
    BY <1>1, <1>3, <2>1 DEF HwData, AddressOK
  <2>2. CASE wst'[c] # wst[c]
    BY <1>1, <1>2, <1>3, <2>2, AddressState DEF HwData, AddressOK
  <2> QED BY <2>1, <2>2
<1>7. CellsOK(c)'
  BY <1>1, <1>3 DEF HwData, CellsOK
<1> QED BY <1>4, <1>5, <1>6, <1>7 DEF HwData

\* SwitchBuffers, asked for by the driver, which provided the other buffer.
LEMMA SwitchData ==
  ASSUME NEW c \in Chan, HwTypeOK, HwData(c), SwitchBuffers(c),
         irqReq[c], nxt[c].valid, nxt[c].base = Other(c), NoLast(fifo[c])
  PROVE  HwData(c)'
<1>1. /\ wst[c] = "SWITCH_BUFFERS" /\ wst'[c] = "IDLE"
      /\ curCount'[c] = count[c] /\ count'[c] = 0
      /\ cur'[c] = nxt[c] /\ irqReq'[c] = FALSE
      /\ fifo'[c] = Append(fifo[c], LastWord)
      /\ UNCHANGED <<dst, wr, mem, made>>
  BY DEF HwTypeOK, SwitchBuffers, Push, CountAtSwitch, IrqReqAfterSwitch
<1>2. /\ Away(c) \in Int /\ count[c] \in Nat /\ curCount[c] \in Nat
      /\ made[c] \in Nat /\ fifo[c] \in Seq(Word) /\ cur[c].base \in Nat
      /\ Other(c) \in Nat /\ BufSize \in Nat /\ count[c] < BufSize
  BY Numbers
<1>3. /\ Other(c) \in {BufAddr(c, 0), BufAddr(c, 1)}
      /\ BufAddr(c, 0) \in Nat /\ BufAddr(c, 1) \in Nat
  BY OwnBuffers, BufAddrNat DEF HwData, Buf
<1>4. /\ cur'[c].base = Other(c) /\ cur'[c].valid
      /\ Other(c)' = cur[c].base
  <2>1. cur'[c].base = Other(c) /\ cur'[c].valid
    BY <1>1
  <2>2. Other(c)' = BufAddr(c, 0) + BufAddr(c, 1) - cur'[c].base
    BY DEF Other, BufAddr
  <2>3. Other(c) = BufAddr(c, 0) + BufAddr(c, 1) - cur[c].base
    BY DEF Other
  <2> QED BY <1>2, <1>3, <2>1, <2>2, <2>3
<1>5. Away(c) = made[c] - count[c] /\ Away(c)' = Away(c) + count[c]
  <2>1. Away(c) = made[c] - count[c] - 0 /\ Away(c)' = made[c] - 0 - 0
    BY <1>1 DEF Away
  <2> QED BY <1>2, <2>1
<1>6. Away(c) >= 0 /\ count[c] > 0
  BY <1>1, <1>2 DEF HwData, Room
<1>7. Room(c)'
  <2>1. /\ count'[c] + (IF wst'[c] = "SER" THEN 1 ELSE 0) < BufSize
        /\ curCount'[c] < BufSize
        /\ curCount'[c] <= Away(c)'
    BY <1>1, <1>2, <1>5, <1>6
  <2>2. /\ cur'[c].valid /\ cur'[c].base \in {BufAddr(c, 0), BufAddr(c, 1)}
        /\ ~irqReq'[c]
    BY <1>1, <1>3, <1>4
  <2> QED BY <2>1, <2>2 DEF Room, BufAddr
<1>8. WordsOK(c)'
  <2>1. Words(c, fifo[c], Away(c), count[c], curCount[c], cur[c].base, Other(c),
              "SWITCH_BUFFERS")
    BY <1>1 DEF HwData, WordsOK
  <2>2. Words(c, Append(fifo[c], LastWord), Away(c) + count[c], 0, count[c],
              Other(c), cur[c].base, "IDLE")
    BY <1>2, <2>1, WordsSwitch
  <2> QED BY <1>1, <1>4, <1>5, <2>2 DEF WordsOK
<1>9. AddressOK(c)'
  <2>1. /\ Words(c, fifo[c], Away(c), count[c], curCount[c], cur[c].base,
                 Other(c), "SWITCH_BUFFERS")
        /\ Address(fifo[c], dst[c], wr[c], Away(c), count[c], curCount[c],
                   cur[c].base, Other(c), "SWITCH_BUFFERS")
    BY <1>1 DEF HwData, WordsOK, AddressOK
  <2>2. Address(Append(fifo[c], LastWord), dst[c], wr[c], Away(c) + count[c], 0,
                count[c], Other(c), cur[c].base, "IDLE")
    BY <1>2, <1>6, <2>1, AddressSwitch
  <2> QED BY <1>1, <1>4, <1>5, <2>2 DEF AddressOK
<1>10. CellsOK(c)'
  <2>1. Cells(c, fifo[c], mem, Away(c), count[c], curCount[c], cur[c].base,
              Other(c))
    BY DEF HwData, CellsOK
  <2>2. Cells(c, Append(fifo[c], LastWord), mem, Away(c) + count[c], 0,
              count[c], Other(c), cur[c].base)
    BY <1>2, <2>1, CellsSwitch
  <2> QED BY <1>1, <1>4, <1>5, <2>2 DEF CellsOK
<1> QED BY <1>7, <1>8, <1>9, <1>10 DEF HwData

\* The steps of the DDR master that leave the FIFO alone.
LEMMA MasterData == ASSUME NEW c \in Chan, HwTypeOK, HwData(c),
                           EndBurst(c) \/ Acked(c) \/ DdrAck(c)
                    PROVE  HwData(c)'
<1>1. /\ dst'[c] = dst[c] \/ dst'[c] # "EXECUTE_BURST"
      /\ UNCHANGED <<wst, cur, count, curCount, made, irqReq, fifo, wr, mem>>
  BY DEF HwTypeOK, EndBurst, Acked, DdrAck, fsmVars
<1>2. Away(c)' = Away(c) /\ Other(c)' = Other(c)
  BY <1>1 DEF Away, Other
<1>3. AddressOK(c)'
  BY <1>1, <1>2 DEF HwData, AddressOK, Address
<1>4. Room(c)' /\ WordsOK(c)' /\ CellsOK(c)'
  BY <1>1, <1>2 DEF HwData, Room, WordsOK, CellsOK
<1> QED BY <1>3, <1>4 DEF HwData

\* StartBurst.
LEMMA StartData == ASSUME NEW c \in Chan, HwTypeOK, HwData(c), StartBurst(c)
                   PROVE  HwData(c)'
<1>1. /\ fifo[c] # <<>> /\ Head(fifo[c]).kind = "addr"
      /\ wr'[c] = Head(fifo[c]).val /\ dst'[c] = "EXECUTE_BURST"
      /\ fifo'[c] = Tail(fifo[c])
      /\ UNCHANGED <<wst, cur, count, curCount, made, irqReq, mem>>
  BY DEF HwTypeOK, StartBurst, Pop, HeadIs, fsmVars
<1>2. fifo[c] \in Seq(Word)
  BY Numbers
<1>3. Away(c)' = Away(c) /\ Other(c)' = Other(c)
  BY <1>1 DEF Away, Other
<1>w. Words(c, fifo[c], Away(c), count[c], curCount[c], cur[c].base, Other(c),
            wst[c])
  BY DEF HwData, WordsOK
<1>4. Room(c)'
  BY <1>1, <1>3 DEF HwData, Room
<1>5. WordsOK(c)'
  <2>1. Words(c, Tail(fifo[c]), Away(c), count[c], curCount[c], cur[c].base,
              Other(c), wst[c])
    BY <1>1, <1>2, <1>w, WordsPop
  <2> QED BY <1>1, <1>3, <2>1 DEF WordsOK
<1>6. AddressOK(c)'
  <2>1. Address(Tail(fifo[c]), "EXECUTE_BURST", Head(fifo[c]).val, Away(c),
                count[c], curCount[c], cur[c].base, Other(c), wst[c])
    BY <1>1, <1>2, <1>w, AddressStart
  <2> QED BY <1>1, <1>3, <2>1 DEF AddressOK
<1>7. CellsOK(c)'
  <2>1. Cells(c, fifo[c], mem, Away(c), count[c], curCount[c], cur[c].base,
              Other(c))
    BY DEF HwData, CellsOK
  <2>2. Cells(c, Tail(fifo[c]), mem, Away(c), count[c], curCount[c],
              cur[c].base, Other(c))
    BY <1>1, <1>2, <2>1, CellsPop
  <2> QED BY <1>1, <1>3, <2>2 DEF CellsOK
<1> QED BY <1>4, <1>5, <1>6, <1>7 DEF HwData

\* The head of the FIFO of a burst is going to a slot of its input.
LEMMA WriteSlot ==
  ASSUME NEW c \in Chan, HwTypeOK, HwData(c), dst[c] = "EXECUTE_BURST",
         fifo[c] # <<>>, Head(fifo[c]).kind \in {"ts", "last"}
  PROVE  /\ wr[c] \in Addr
         /\ \/ wr[c] \in cur[c].base .. cur[c].base + BufSize - 1
            \/ wr[c] \in Other(c) .. Other(c) + BufSize - 1
         /\ Head(fifo[c]).kind = "ts" =>
              wr[c] = Slot(NumOf(Head(fifo[c])), Away(c), curCount[c],
                           cur[c].base, Other(c))
         /\ Head(fifo[c]).kind = "last" => wr[c] = Other(c) + curCount[c]
<1>1. /\ Away(c) \in Int /\ count[c] \in Nat /\ curCount[c] \in Nat
      /\ count[c] < BufSize /\ curCount[c] < BufSize
      /\ fifo[c] \in Seq(Word) /\ BufSize \in Nat
      /\ cur[c].base \in Nat /\ Other(c) \in Nat
      /\ Apart(cur[c].base, Other(c))
  BY Numbers
<1>2. /\ Head(fifo[c]).kind = "ts" =>
           wr[c] = Slot(NumOf(Head(fifo[c])), Away(c), curCount[c],
                        cur[c].base, Other(c))
      /\ Head(fifo[c]).kind = "last" => wr[c] = Other(c) + curCount[c]
  BY DEF HwData, AddressOK, Address
<1>3. /\ cur[c].base .. cur[c].base + BufSize - 1 \subseteq Addr
      /\ Other(c) .. Other(c) + BufSize - 1 \subseteq Addr
  BY OwnBuffers DEF HwData
<1>4. CASE Head(fifo[c]).kind = "ts"
  <2> DEFINE k == NumOf(Head(fifo[c]))
  <2>1. k \in Away(c) - curCount[c] + 1 .. Away(c) + count[c]
    BY <1>1, <1>4, PopFacts DEF HwData, WordsOK, Words, Stamps
  <2>2. wr[c] = Slot(k, Away(c), curCount[c], cur[c].base, Other(c))
    BY <1>2, <1>4
  <2> HIDE DEF k
  <2>3. /\ k > Away(c) => wr[c] \in cur[c].base .. cur[c].base + count[c] - 1
        /\ k <= Away(c) => wr[c] \in Other(c) .. Other(c) + curCount[c] - 1
    <3> DEFINE aw == Away(c)  n == count[c]  m == curCount[c]
               x == cur[c].base  y == Other(c)
    <3>1. /\ aw \in Int /\ n \in Nat /\ m \in Nat /\ x \in Nat /\ y \in Nat
          /\ n < BufSize /\ m < BufSize /\ Apart(x, y)
          /\ k \in aw - m + 1 .. aw + n /\ wr[c] = Slot(k, aw, m, x, y)
      BY <1>1, <2>1, <2>2
    <3> HIDE DEF aw, n, m, x, y
    <3>3. \A j \in aw - m + 1 .. aw + n :
             /\ j > aw => Slot(j, aw, m, x, y) \in x .. x + n - 1
             /\ j <= aw => Slot(j, aw, m, x, y) \in y .. y + m - 1
      BY <3>1, SlotFacts
    <3>2. /\ k > aw => wr[c] \in x .. x + n - 1
          /\ k <= aw => wr[c] \in y .. y + m - 1
      BY <3>1, <3>3, Zenon
    <3> QED BY <3>2 DEF aw, n, m, x, y
  <2>4. k > Away(c) \/ k <= Away(c)
    BY <1>1, <2>1
  <2>5. ASSUME NEW x \in Nat, NEW j \in Nat, j < BufSize
        PROVE  x .. x + j - 1 \subseteq x .. x + BufSize - 1
    BY <1>1, <2>5
  <2>6. \/ wr[c] \in cur[c].base .. cur[c].base + BufSize - 1
        \/ wr[c] \in Other(c) .. Other(c) + BufSize - 1
    BY <1>1, <2>3, <2>4, <2>5
  <2> QED BY <1>2, <1>3, <2>6
<1>5. CASE Head(fifo[c]).kind = "last"
  <2>1. wr[c] \in Other(c) .. Other(c) + BufSize - 1
    BY <1>1, <1>2, <1>5
  <2> QED BY <1>2, <1>3, <2>1
<1> QED BY <1>4, <1>5

\* WriteTs.
LEMMA WriteData == ASSUME NEW c \in Chan, HwTypeOK, HwData(c), WriteTs(c)
                   PROVE  HwData(c)'
<1>1. /\ fifo[c] # <<>> /\ Head(fifo[c]).kind = "ts"
      /\ dst[c] = "EXECUTE_BURST" /\ wr'[c] = wr[c] + 1
      /\ mem' = [mem EXCEPT ![wr[c]] = Head(fifo[c]).val]
      /\ fifo'[c] = Tail(fifo[c])
      /\ UNCHANGED <<wst, cur, count, curCount, made, irqReq, dst>>
  BY DEF HwTypeOK, WriteTs, Pop, HeadIs, fsmVars
<1>2. /\ Away(c) \in Int /\ count[c] \in Nat /\ curCount[c] \in Nat
      /\ count[c] < BufSize /\ curCount[c] < BufSize
      /\ fifo[c] \in Seq(Word)
      /\ cur[c].base \in Nat /\ Other(c) \in Nat
      /\ Apart(cur[c].base, Other(c))
  BY Numbers
<1>3. Away(c)' = Away(c) /\ Other(c)' = Other(c)
  BY <1>1 DEF Away, Other
<1>w. Words(c, fifo[c], Away(c), count[c], curCount[c], cur[c].base, Other(c),
            wst[c])
  BY DEF HwData, WordsOK
<1>a. /\ wr[c] \in DOMAIN mem
      /\ wr[c] = Slot(NumOf(Head(fifo[c])), Away(c), curCount[c], cur[c].base,
                      Other(c))
  BY <1>1, WriteSlot DEF HwTypeOK
<1>4. Room(c)'
  BY <1>1, <1>3 DEF HwData, Room
<1>5. WordsOK(c)'
  <2>1. Words(c, Tail(fifo[c]), Away(c), count[c], curCount[c], cur[c].base,
              Other(c), wst[c])
    BY <1>1, <1>2, <1>w, WordsPop
  <2> QED BY <1>1, <1>3, <2>1 DEF WordsOK
<1>6. AddressOK(c)'
  <2>1. Address(Tail(fifo[c]), "EXECUTE_BURST", wr[c] + 1, Away(c), count[c],
                curCount[c], cur[c].base, Other(c), wst[c])
    BY <1>1, <1>2, <1>w, <1>a, AddressWrite
  <2> QED BY <1>1, <1>3, <2>1 DEF AddressOK
<1>7. CellsOK(c)'
  <2>1. Cells(c, fifo[c], mem, Away(c), count[c], curCount[c], cur[c].base,
              Other(c))
    BY DEF HwData, CellsOK
  <2>2. Cells(c, Tail(fifo[c]), [mem EXCEPT ![wr[c]] = Head(fifo[c]).val],
              Away(c), count[c], curCount[c], cur[c].base, Other(c))
    BY <1>1, <1>2, <1>w, <1>a, <2>1, CellsWrite
  <2> QED BY <1>1, <1>3, <2>2 DEF CellsOK
<1> QED BY <1>4, <1>5, <1>6, <1>7 DEF HwData

\* PopLast: when the marker's word goes to the DDR, it goes behind the last
\* timestamp of the buffer switched away.
LEMMA LastData == ASSUME NEW c \in Chan, HwTypeOK, HwData(c), PopLast(c)
                  PROVE  HwData(c)'
<1>1. /\ fifo[c] # <<>> /\ Head(fifo[c]).kind = "last"
      /\ \/ mem' = mem
         \/ dst[c] = "EXECUTE_BURST" /\ mem' = [mem EXCEPT ![wr[c]] = Junk]
      /\ fifo'[c] = Tail(fifo[c])
      /\ UNCHANGED <<wst, cur, count, curCount, made, irqReq, dst>>
  BY DEF HwTypeOK, PopLast, Pop, HeadIs, fsmVars
<1>2. /\ Away(c) \in Int /\ count[c] \in Nat /\ curCount[c] \in Nat
      /\ count[c] < BufSize /\ curCount[c] < BufSize
      /\ fifo[c] \in Seq(Word)
      /\ cur[c].base \in Nat /\ Other(c) \in Nat
      /\ Apart(cur[c].base, Other(c))
  BY Numbers
<1>3. Away(c)' = Away(c) /\ Other(c)' = Other(c)
  BY <1>1 DEF Away, Other
<1>w. Words(c, fifo[c], Away(c), count[c], curCount[c], cur[c].base, Other(c),
            wst[c])
  BY DEF HwData, WordsOK
<1>4. Room(c)'
  BY <1>1, <1>3 DEF HwData, Room
<1>5. WordsOK(c)'
  <2>1. Words(c, Tail(fifo[c]), Away(c), count[c], curCount[c], cur[c].base,
              Other(c), wst[c])
    BY <1>1, <1>2, <1>w, WordsPop
  <2> QED BY <1>1, <1>3, <2>1 DEF WordsOK
<1>6. AddressOK(c)'
  <2>1. Address(Tail(fifo[c]), dst[c], wr'[c], Away(c), count[c],
                curCount[c], cur[c].base, Other(c), wst[c])
    BY <1>1, <1>2, <1>w, AddressLast
  <2> QED BY <1>1, <1>3, <2>1 DEF AddressOK
<1>7. CellsOK(c)'
  <2>1. Cells(c, fifo[c], mem, Away(c), count[c], curCount[c], cur[c].base,
              Other(c))
    BY DEF HwData, CellsOK
  <2>2. Cells(c, Tail(fifo[c]), mem, Away(c), count[c], curCount[c],
              cur[c].base, Other(c))
    BY <1>1, <1>2, <2>1, CellsPop
  <2>3. CASE mem' = mem
    BY <1>1, <1>3, <2>2, <2>3 DEF CellsOK
  <2>4. CASE dst[c] = "EXECUTE_BURST" /\ mem' = [mem EXCEPT ![wr[c]] = Junk]
    <3>1. wr[c] = Other(c) + curCount[c]
      BY <1>1, <2>4, WriteSlot
    <3>2. \A k \in Away(c) - curCount[c] + 1 .. Away(c) + count[c] :
             Slot(k, Away(c), curCount[c], cur[c].base, Other(c)) # wr[c]
      <4>1. \A k \in Away(c) - curCount[c] + 1 .. Away(c) + count[c] :
               Slot(k, Away(c), curCount[c], cur[c].base, Other(c))
                 # Other(c) + curCount[c]
        <5> DEFINE aw == Away(c)  n == count[c]  m == curCount[c]
                   x == cur[c].base  y == Other(c)
        <5>1. /\ aw \in Int /\ n \in Nat /\ m \in Nat /\ x \in Nat
              /\ y \in Nat /\ n < BufSize /\ m < BufSize /\ Apart(x, y)
          BY <1>2
        <5> HIDE DEF aw, n, m, x, y
        <5>2. \A k \in aw - m + 1 .. aw + n : Slot(k, aw, m, x, y) # y + m
          BY <5>1, SlotFacts
        <5> QED BY <5>2 DEF aw, n, m, x, y
      <4> QED BY <3>1, <4>1
    <3>3. Cells(c, Tail(fifo[c]), [mem EXCEPT ![wr[c]] = Junk], Away(c),
                count[c], curCount[c], cur[c].base, Other(c))
      BY <2>2, <3>2, CellsElsewhere
    <3> QED BY <1>1, <1>3, <2>4, <3>3 DEF CellsOK
  <2> QED BY <1>1, <2>3, <2>4
<1> QED BY <1>4, <1>5, <1>6, <1>7 DEF HwData

\* The marker of a FIFO.
LEMMA NoLastFacts ==
  ASSUME NEW f \in Seq(Word)
  PROVE  /\ \A w \in Word :
               NoLast(Append(f, w)) <=> NoLast(f) /\ w.kind # "last"
         /\ f # <<>> /\ Head(f).kind # "last" => (NoLast(Tail(f)) <=> NoLast(f))
         /\ f # <<>> /\ Head(f).kind = "last" => ~NoLast(f)
         /\ f # <<>> /\ Head(f).kind = "last" /\ OneMarker(f) => NoLast(Tail(f))
<1>1. ASSUME NEW w \in Word
      PROVE  NoLast(Append(f, w)) <=> NoLast(f) /\ w.kind # "last"
  <2> DEFINE g == Append(f, w)
  <2>1. /\ Len(f) \in Nat /\ DOMAIN f = 1 .. Len(f)
        /\ DOMAIN g = 1 .. Len(f) + 1
        /\ \A i \in 1 .. Len(f) : g[i] = f[i]
        /\ g[Len(f) + 1] = w
    BY AppendFacts
  <2> HIDE DEF g
  <2>2. ASSUME NoLast(g) PROVE NoLast(f) /\ w.kind # "last"
    <3>1. Len(f) + 1 \in DOMAIN g /\ \A i \in DOMAIN f : i \in DOMAIN g
      BY <2>1
    <3> QED BY <2>1, <2>2, <3>1 DEF NoLast
  <2>3. ASSUME NoLast(f), w.kind # "last" PROVE NoLast(g)
    <3> SUFFICES ASSUME NEW i \in DOMAIN g PROVE g[i].kind # "last"
      BY DEF NoLast
    <3>1. CASE i = Len(f) + 1
      BY <2>1, <2>3, <3>1
    <3>2. CASE i \in DOMAIN f
      BY <2>1, <2>3, <3>2 DEF NoLast
    <3> QED BY <2>1, <3>1, <3>2
  <2> QED BY <2>2, <2>3 DEF g
<1>2. ASSUME f # <<>>
      PROVE  /\ Head(f).kind # "last" => (NoLast(Tail(f)) <=> NoLast(f))
             /\ Head(f).kind = "last" => ~NoLast(f)
             /\ Head(f).kind = "last" /\ OneMarker(f) => NoLast(Tail(f))
  <2> DEFINE g == Tail(f)
  <2>1. /\ Len(f) \in Nat /\ Len(f) > 0 /\ DOMAIN f = 1 .. Len(f)
        /\ Head(f) = f[1] /\ DOMAIN g = 1 .. Len(f) - 1
        /\ \A i \in 1 .. Len(f) - 1 : g[i] = f[i + 1]
    BY <1>2, PopFacts
  <2> HIDE DEF g
  <2>2. \A i \in DOMAIN g : i + 1 \in DOMAIN f /\ g[i] = f[i + 1] /\ i + 1 # 1
    BY <2>1
  <2>3. \A i \in DOMAIN f : i # 1 => i - 1 \in DOMAIN g /\ g[i - 1] = f[i]
    <3> SUFFICES ASSUME NEW i \in DOMAIN f, i # 1
                 PROVE  i - 1 \in DOMAIN g /\ g[i - 1] = f[i]
      OBVIOUS
    <3>1. i - 1 \in 1 .. Len(f) - 1 /\ (i - 1) + 1 = i
      BY <2>1
    <3> QED BY <2>1, <3>1
  <2>4. 1 \in DOMAIN f
    BY <2>1
  <2>5. ASSUME NoLast(f) PROVE NoLast(g) /\ Head(f).kind # "last"
    BY <2>1, <2>2, <2>4, <2>5 DEF NoLast
  <2>6. ASSUME Head(f).kind # "last", NoLast(g) PROVE NoLast(f)
    BY <2>1, <2>3, <2>6 DEF NoLast
  <2>7. ASSUME Head(f).kind = "last", OneMarker(f) PROVE NoLast(g)
    BY <2>1, <2>2, <2>4, <2>7 DEF NoLast, OneMarker
  <2> QED BY <2>5, <2>6, <2>7 DEF g
<1> QED BY <1>1, <1>2

\* The channel of input c does nothing to another input's.
LEMMA OtherChannels ==
  ASSUME NEW c \in Chan, HwTypeOK, HwStep(c), NEW d \in Chan, d # c
  PROVE  /\ View(d)' = View(d)
         /\ nxt'[d] = nxt[d] /\ latched'[d] = latched[d] /\ done'[d] = done[d]
<1> USE DEF HwTypeOK, View, Push, Pop
<1>1. CASE OpenBurst(c)
  BY <1>1 DEF OpenBurst
<1>2. CASE BufferFull(c)
  BY <1>2 DEF BufferFull, dmaVars
<1>3. CASE DropTs(c)
  BY <1>3 DEF DropTs, dmaVars
<1>4. CASE LeaveIdle(c)
  BY <1>4 DEF LeaveIdle, dmaVars
<1>5. CASE SwitchBuffers(c)
  BY <1>5 DEF SwitchBuffers
<1>6. CASE Serialise(c)
  BY <1>6 DEF Serialise
<1>7. CASE CloseBurst(c)
  BY <1>7 DEF CloseBurst
<1>8. CASE NextTs(c)
  BY <1>8 DEF NextTs, dmaVars
<1>9. CASE IrqTimer(c)
  BY <1>9 DEF IrqTimer, dmaVars
<1>10. CASE StartBurst(c)
  BY <1>10 DEF StartBurst, fsmVars
<1>11. CASE WriteTs(c)
  BY <1>11 DEF WriteTs, fsmVars
<1>12. CASE EndBurst(c)
  BY <1>12 DEF EndBurst, fsmVars
<1>13. CASE Acked(c)
  BY <1>13 DEF Acked, fsmVars
<1>14. CASE PopLast(c)
  <2>1. wr'[d] = wr[d]
    BY <1>14 DEF PopLast
  <2>2. fifo'[d] = fifo[d] /\ done'[d] = done[d]
    BY <1>14 DEF PopLast
  <2> QED BY <1>14, <2>1, <2>2 DEF PopLast, fsmVars
<1>15. CASE DdrAck(c)
  BY <1>15 DEF DdrAck, fsmVars
<1> QED BY <1>1, <1>2, <1>3, <1>4, <1>5, <1>6, <1>7, <1>8, <1>9, <1>10, <1>11,
           <1>12, <1>13, <1>14, <1>15 DEF HwStep

\* A step of the channel of input c that is neither the exchange of the buffers
\* nor the end-of-buffer marker.
PlainStep(c) ==
  /\ cur'[c] = cur[c] /\ nxt'[c] = nxt[c] /\ curCount'[c] = curCount[c]
  /\ latched'[c] = latched[c] /\ done'[c] = done[c]
  /\ irqReq[c] => irqReq'[c]
  /\ wst'[c] = "SWITCH_BUFFERS" => wst[c] = "SWITCH_BUFFERS" \/ latched[c]
  /\ NoLast(fifo'[c]) <=> NoLast(fifo[c])

\* What a step of the gateware means to the driver: no buffer is ever full, and
\* none is ever missing.
LEMMA ThreeKinds ==
  ASSUME NEW c \in Chan, HwTypeOK, HwData(c), ~Overfill, HwStep(c)
  PROVE  SwitchBuffers(c) \/ PopLast(c) \/ PlainStep(c)
<1> USE DEF HwTypeOK, PlainStep, Push, Pop, HeadIs
<1>0. /\ fifo[c] \in Seq(Word) /\ cur[c].base + count[c] \in Nat
      /\ cur[c].valid /\ count[c] < BufSize
      /\ Ts(c, made[c]) \in Stamp
  <2>1. /\ fifo[c] \in Seq(Word) /\ cur[c].base \in Nat /\ count[c] \in Nat
        /\ count[c] < BufSize
    BY Numbers
  <2>2. cur[c].base + count[c] \in Nat
    BY <2>1
  <2>3. cur[c].valid
    BY DEF HwData, Room
  <2>4. Ts(c, made[c]) \in Stamp
    BY SizeAssumption DEF Ts, Stamp
  <2> QED BY <2>1, <2>2, <2>3, <2>4
<1>w. /\ AddrWord(cur[c].base + count[c]) \in Word
      /\ AddrWord(cur[c].base + count[c]).kind # "last"
      /\ TsWord(Ts(c, made[c])) \in Word
      /\ TsWord(Ts(c, made[c])).kind # "last"
  BY <1>0, Kinds
<1>1. CASE OpenBurst(c)
  <2>1. fifo'[c] = Append(fifo[c], AddrWord(cur[c].base + count[c]))
    BY <1>1 DEF OpenBurst
  <2>2. NoLast(fifo'[c]) <=> NoLast(fifo[c])
    BY <1>0, <1>w, <2>1, NoLastFacts
  <2> QED BY <1>1, <2>2 DEF OpenBurst
<1>2. CASE BufferFull(c)
  BY <1>0, <1>2 DEF BufferFull
<1>3. CASE DropTs(c)
  BY <1>0, <1>3 DEF DropTs
<1>4. CASE LeaveIdle(c)
  BY <1>4 DEF LeaveIdle, dmaVars
<1>5. CASE Serialise(c)
  <2>1. fifo'[c] = Append(fifo[c], TsWord(Ts(c, made[c])))
    BY <1>5 DEF Serialise
  <2>2. NoLast(fifo'[c]) <=> NoLast(fifo[c])
    BY <1>0, <1>w, <2>1, NoLastFacts
  <2> QED BY <1>5, <2>2 DEF Serialise
<1>6. CASE CloseBurst(c)
  BY <1>6 DEF CloseBurst
<1>7. CASE NextTs(c)
  BY <1>7 DEF NextTs, dmaVars
<1>8. CASE IrqTimer(c)
  BY <1>8 DEF IrqTimer, dmaVars
<1>9. CASE StartBurst(c)
  <2>1. /\ fifo'[c] = Tail(fifo[c]) /\ fifo[c] # <<>>
        /\ Head(fifo[c]).kind # "last"
    BY <1>9 DEF StartBurst
  <2>2. NoLast(fifo'[c]) <=> NoLast(fifo[c])
    BY <1>0, <2>1, NoLastFacts
  <2> QED BY <1>9, <2>2 DEF StartBurst, fsmVars
<1>10. CASE WriteTs(c)
  <2>1. /\ fifo'[c] = Tail(fifo[c]) /\ fifo[c] # <<>>
        /\ Head(fifo[c]).kind # "last"
    BY <1>10 DEF WriteTs
  <2>2. NoLast(fifo'[c]) <=> NoLast(fifo[c])
    BY <1>0, <2>1, NoLastFacts
  <2> QED BY <1>10, <2>2 DEF WriteTs, fsmVars
<1>11. CASE EndBurst(c)
  BY <1>11 DEF EndBurst, fsmVars
<1>12. CASE Acked(c)
  BY <1>12 DEF Acked, fsmVars
<1>13. CASE DdrAck(c)
  BY <1>13 DEF DdrAck, fsmVars
<1> QED BY <1>1, <1>2, <1>3, <1>4, <1>5, <1>6, <1>7, <1>8, <1>9, <1>10, <1>11,
           <1>12, <1>13 DEF HwStep

\* The data of every input survive a step of one channel.
LEMMA HwStepData ==
  ASSUME NEW c \in Chan, HwTypeOK, \A d \in Chan : HwData(d), ~Overfill,
         HwStep(c),
         SwitchBuffers(c) => /\ irqReq[c] /\ nxt[c].valid
                             /\ nxt[c].base = Other(c) /\ NoLast(fifo[c])
  PROVE  \A d \in Chan : HwData(d)'
<1>0. HwData(c)
  OBVIOUS
<1>1. HwData(c)'
  <2>1. ~BufferFull(c) /\ ~DropTs(c)
    BY <1>0, Numbers DEF BufferFull, DropTs, HwData, Room
  <2>2. CASE OpenBurst(c)
    BY <1>0, <2>2, OpenData
  <2>3. CASE SwitchBuffers(c)
    BY <1>0, <2>3, SwitchData
  <2>4. CASE Serialise(c)
    BY <1>0, <2>4, SerialiseData
  <2>5. CASE LeaveIdle(c) \/ CloseBurst(c) \/ NextTs(c) \/ IrqTimer(c)
    BY <1>0, <2>5, StateData
  <2>6. CASE StartBurst(c)
    BY <1>0, <2>6, StartData
  <2>7. CASE WriteTs(c)
    BY <1>0, <2>7, WriteData
  <2>8. CASE EndBurst(c) \/ Acked(c) \/ DdrAck(c)
    BY <1>0, <2>8, MasterData
  <2>9. CASE PopLast(c)
    BY <1>0, <2>9, LastData
  <2> QED BY <2>1, <2>2, <2>3, <2>4, <2>5, <2>6, <2>7, <2>8, <2>9 DEF HwStep
<1>2. \/ mem' = mem
      \/ /\ dst[c] = "EXECUTE_BURST" /\ fifo[c] # <<>>
         /\ Head(fifo[c]).kind \in {"ts", "last"}
         /\ \E v : mem' = [mem EXCEPT ![wr[c]] = v]
  <2>1. CASE WriteTs(c)
    BY <2>1 DEF WriteTs, HeadIs
  <2>2. CASE PopLast(c)
    BY <2>2 DEF PopLast, HeadIs
  <2>3. CASE ~WriteTs(c) /\ ~PopLast(c)
    BY <2>3 DEF HwStep, OpenBurst, BufferFull, DropTs, LeaveIdle,
       SwitchBuffers, Serialise, CloseBurst, NextTs, IrqTimer, StartBurst,
       EndBurst, Acked, DdrAck, dmaVars
  <2> QED BY <2>1, <2>2, <2>3
<1>3. ASSUME NEW d \in Chan, d # c
      PROVE  HwData(d)'
  <2>0. HwData(d) /\ View(d)' = View(d)
    BY <1>3, OtherChannels
  <2>1. /\ Room(d)' /\ WordsOK(d)' /\ AddressOK(d)'
        /\ mem' = mem => CellsOK(d)'
    BY <2>0, HwFrame
  <2>2. ASSUME NEW v, mem' = [mem EXCEPT ![wr[c]] = v],
               dst[c] = "EXECUTE_BURST", fifo[c] # <<>>,
               Head(fifo[c]).kind \in {"ts", "last"}
        PROVE  CellsOK(d)'
    <3> DEFINE aw == Away(d)  n == count[d]  m == curCount[d]
               x == cur[d].base  y == Other(d)
    <3>1. /\ aw \in Int /\ n \in Nat /\ m \in Nat /\ x \in Nat /\ y \in Nat
          /\ n < BufSize /\ m < BufSize /\ Apart(x, y) /\ BufSize \in Nat
      BY <2>0, Numbers
    <3>2. \/ wr[c] \in cur[c].base .. cur[c].base + BufSize - 1
          \/ wr[c] \in Other(c) .. Other(c) + BufSize - 1
      BY <1>0, <2>2, WriteSlot
    <3>3. cur[c].base \in Nat /\ Other(c) \in Nat
      BY <1>0, Numbers
    <3>4. \E a, b \in Buf : x = BufAddr(d, a) /\ y = BufAddr(d, b)
      BY <2>0, OwnBuffers DEF HwData, Room, Buf
    <3>5. \A b \in Buf : /\ Apart(cur[c].base, BufAddr(d, b))
                         /\ Apart(Other(c), BufAddr(d, b))
      BY <1>0, <1>3, OwnBuffers DEF HwData
    <3>6. Apart(cur[c].base, x) /\ Apart(cur[c].base, y)
          /\ Apart(Other(c), x) /\ Apart(Other(c), y)
      BY <3>4, <3>5
    <3>7. CellsOK(d) /\ Cells(d, fifo[d], mem, aw, n, m, x, y)
      BY <2>0 DEF HwData, CellsOK
    <3>8. /\ fifo'[d] = fifo[d] /\ Away(d)' = aw /\ count'[d] = n
          /\ curCount'[d] = m /\ cur'[d].base = x /\ Other(d)' = y
      BY <2>0 DEF View, Away, Other
    <3> HIDE DEF aw, n, m, x, y
    <3>9. \A k \in aw - m + 1 .. aw + n :
             Slot(k, aw, m, x, y) \in x .. x + n - 1
             \/ Slot(k, aw, m, x, y) \in y .. y + m - 1
      BY <3>1, SlotFacts
    <3>10. /\ \A z \in x .. x + n - 1 : z # wr[c]
           /\ \A z \in y .. y + m - 1 : z # wr[c]
      BY <3>1, <3>2, <3>3, <3>6 DEF Apart
    <3>11. \A k \in aw - m + 1 .. aw + n : Slot(k, aw, m, x, y) # wr[c]
      BY <3>9, <3>10
    <3>12. Cells(d, fifo[d], [mem EXCEPT ![wr[c]] = v], aw, n, m, x, y)
      BY <3>7, <3>11, CellsElsewhere
    <3> QED BY <2>2, <3>8, <3>12 DEF CellsOK
  <2> QED BY <1>2, <2>1, <2>2 DEF HwData
<1> QED BY <1>1, <1>3

-----------------------------------------------------------------------------
(* The gateware and the driver *)

\* While the write FSM exchanges the buffers, or is going to, the driver waits
\* for it; so it does while the marker is in the FIFO.
LEMMA WhoSwitches ==
  ASSUME NEW c \in Chan, TypeOK, HwData(c), Phase(c)
  PROVE  /\ wst[c] = "SWITCH_BUFFERS" \/ latched[c] =>
              /\ At(c, "spin") /\ Asked(c) /\ irqReq[c]
              /\ nxt[c].valid /\ nxt[c].base = Other(c) /\ NoLast(fifo[c])
         /\ ~NoLast(fifo[c]) => At(c, "spin") /\ Switched(c)
<1>1. active[c] \in Buf
  BY DEF TypeOK, DriverTypeOK
<1>2. cur[c].base = BufAddr(c, active[c])
        => Other(c) = BufAddr(c, 1 - active[c])
  BY <1>1, OwnBuffers DEF TypeOK, HwData
<1>3. Asked(c) => /\ nxt[c].valid /\ nxt[c].base = Other(c)
                  /\ irqReq[c] /\ NoLast(fifo[c])
  BY <1>2 DEF Asked, Current
<1>4. c # ch \/ wpc \notin {"spin", "clear", "base", "size"}
        => Quiet(c) /\ NoLast(fifo[c])
  BY DEF Phase, Settled
<1>5. /\ At(c, "clear") => Quiet(c) /\ NoLast(fifo[c])
      /\ At(c, "base") => Quiet(c) /\ NoLast(fifo[c])
      /\ At(c, "size") => Quiet(c) /\ NoLast(fifo[c])
  BY DEF Phase, Switched, Sizing
<1>6. At(c, "spin") => \/ Asked(c)
                       \/ Switched(c) /\ Quiet(c)
  BY DEF Phase, Spinning, Switched
<1>7. wst[c] = "SWITCH_BUFFERS" \/ latched[c] => ~Quiet(c)
  BY DEF Quiet
<1>8. At(c, "spin") \/ At(c, "clear") \/ At(c, "base") \/ At(c, "size")
        \/ c # ch \/ wpc \notin {"spin", "clear", "base", "size"}
  BY DEF At
<1> QED BY <1>3, <1>4, <1>5, <1>6, <1>7, <1>8

\* The phase of an input whose registers stay as they are, or change as in a
\* plain step of the channel.
LEMMA PlainPhase ==
  ASSUME NEW c \in Chan, TypeOK, HwData(c), Phase(c), PlainStep(c),
         UNCHANGED <<wpc, ch, active>>
  PROVE  Phase(c)'
<1>1. /\ cur'[c] = cur[c] /\ nxt'[c] = nxt[c]
      /\ latched'[c] = latched[c] /\ done'[c] = done[c]
      /\ irqReq[c] => irqReq'[c]
      /\ NoLast(fifo'[c]) <=> NoLast(fifo[c])
  BY DEF PlainStep
<1>2. \A b, v : Current(c, b, v)' <=> Current(c, b, v)
  BY <1>1 DEF Current, BufAddr
<1>3. Quiet(c) => Quiet(c)'
  BY <1>1 DEF Quiet, PlainStep
<1>4. /\ Settled(c) => Settled(c)'
      /\ Asked(c) => Asked(c)'
      /\ Switched(c) => Switched(c)'
  BY <1>1, <1>3 DEF Settled, Asked, Switched, Current, BufAddr
<1>5. Spinning(c) => Spinning(c)'
  BY <1>1, <1>4 DEF Spinning
<1>6. Sizing(c) => Sizing(c)'
  BY <1>1, <1>3 DEF Sizing, BufAddr
<1> QED BY <1>1, <1>4, <1>5, <1>6 DEF Phase, At

\* A step of the gateware keeps the invariant.
LEMMA HwKeepsData ==
  ASSUME IInv, DataInv, ~Overfill, NEW c \in Chan, HwStep(c), DriverUnchanged
  PROVE  DataInv'
<1>0. /\ TypeOK /\ HwTypeOK
      /\ \A d \in Chan : HwData(d) /\ Phase(d)
  BY DEF IInv, TypeOK, DataInv
<1>u. UNCHANGED <<wpc, ch, active, hpc, hstat, queued, chanMask, todo, csr,
                  user, transfer, nsamples, dmaq>>
  BY DEF DriverUnchanged, irqVars, workVars, zioVars, dmaEngVars, userVars
<1>1. ASSUME wst[c] = "SWITCH_BUFFERS"
      PROVE  /\ At(c, "spin") /\ Asked(c) /\ irqReq[c]
             /\ nxt[c].valid /\ nxt[c].base = Other(c) /\ NoLast(fifo[c])
  BY <1>0, <1>1, WhoSwitches
<1>2. \A d \in Chan : HwData(d)'
  BY <1>0, <1>1, HwStepData DEF SwitchBuffers
<1>3. SwitchBuffers(c) \/ PopLast(c) \/ PlainStep(c)
  BY <1>0, ThreeKinds
<1>4. ASSUME NEW d \in Chan, d # c
      PROVE  /\ curCount'[d] = curCount[d] /\ irqReq'[d] = irqReq[d]
             /\ Phase(d)'
  <2>1. View(d)' = View(d) /\ nxt'[d] = nxt[d] /\ latched'[d] = latched[d]
        /\ done'[d] = done[d]
    BY <1>0, <1>4, OtherChannels
  <2>2. PlainStep(d) /\ curCount'[d] = curCount[d] /\ irqReq'[d] = irqReq[d]
    BY <2>1 DEF View, PlainStep
  <2> QED BY <1>0, <1>u, <2>2, PlainPhase
<1>5. Phase(c)'
  <2>1. CASE PlainStep(c)
    BY <1>0, <1>u, <2>1, PlainPhase
  <2>2. CASE SwitchBuffers(c)
    <3>1. At(c, "spin") /\ Asked(c)
      BY <1>1, <2>2 DEF SwitchBuffers
    <3>2. /\ cur'[c] = nxt[c] /\ nxt'[c].valid = FALSE
          /\ latched'[c] = FALSE /\ wst'[c] = "IDLE" /\ done'[c] = done[c]
          /\ fifo'[c] = Append(fifo[c], LastWord)
      BY <1>0, <2>2 DEF SwitchBuffers, Push, HwTypeOK
    <3>3. ~NoLast(fifo'[c])
      BY <1>0, <3>2, NoLastFacts, Numbers, Kinds
    <3>4. Switched(c)' /\ ~done'[c]
      BY <1>u, <3>1, <3>2 DEF Switched, Quiet, Current, Asked, BufAddr
    <3>5. At(c, "spin")' /\ wpc' = "spin" /\ c = ch'
      BY <1>u, <3>1 DEF At
    <3>6. Spinning(c)'
      BY <3>3, <3>4 DEF Spinning
    <3> QED BY <3>5, <3>6 DEF Phase, At
  <2>3. CASE PopLast(c)
    <3>1. /\ fifo[c] # <<>> /\ Head(fifo[c]).kind = "last"
          /\ done'[c] = TRUE /\ fifo'[c] = Tail(fifo[c])
          /\ UNCHANGED <<cur, nxt, latched, wst>>
      BY <1>0, <2>3 DEF PopLast, HeadIs, Pop, DoneAtMarker, fsmVars, HwTypeOK
    <3>2. fifo[c] \in Seq(Word) /\ OneMarker(fifo[c])
      BY <1>0, Numbers DEF HwData, WordsOK, Words
    <3>3. ~NoLast(fifo[c]) /\ NoLast(fifo'[c])
      BY <3>1, <3>2, NoLastFacts
    <3>4. At(c, "spin") /\ Switched(c)
      BY <1>0, <3>3, WhoSwitches
    <3>5. Switched(c)'
      BY <1>u, <3>1, <3>4 DEF Switched, Quiet, Current, BufAddr
    <3>6. At(c, "spin")' /\ wpc' = "spin" /\ c = ch'
      BY <1>u, <3>4 DEF At
    <3>7. Spinning(c)'
      BY <3>1, <3>3, <3>5 DEF Spinning
    <3> QED BY <3>6, <3>7 DEF Phase, At
  <2> QED BY <1>3, <2>1, <2>2, <2>3
<1>6. /\ PlainStep(c) \/ PopLast(c) => curCount'[c] = curCount[c]
                                        /\ (irqReq[c] => irqReq'[c])
      /\ SwitchBuffers(c) => c = ch /\ wpc = "spin"
  <2>1. PopLast(c) => curCount' = curCount /\ irqReq' = irqReq
    BY DEF PopLast, fsmVars
  <2>2. SwitchBuffers(c) => c = ch /\ wpc = "spin"
    BY <1>1 DEF SwitchBuffers, At
  <2> QED BY <2>1, <2>2 DEF PlainStep
<1>7. Asking'
  <2>1. ASSUME NEW d \in Chan, irqReq[d], ~irqReq'[d]
        PROVE  d = ch /\ wpc = "spin"
    BY <1>3, <1>4, <1>6, <2>1
  <2>2. wpc = "spin" => hpc # "check" /\ ~queued /\ ch \notin todo
    BY DEF IInv, CycleInv, ChanInv, MaskIsSaved, InCycle
  <2>3. ch \in Chan /\ hstat \subseteq Chan /\ chanMask \subseteq Chan
        /\ todo \subseteq Chan
    BY <1>0 DEF TypeOK, DriverTypeOK
  <2> QED BY <1>u, <2>1, <2>2, <2>3 DEF DataInv, Asking
<1>8. Driver'
  <2>1. ch \in Chan
    BY <1>0 DEF TypeOK, DriverTypeOK
  <2>2. wpc \in {"arm", "submit"} => curCount'[ch] = curCount[ch]
    BY <1>3, <1>4, <1>6, <2>1
  <2> QED BY <1>u, <2>2 DEF DataInv, Driver, BufAddr
<1> QED BY <1>2, <1>4, <1>5, <1>7, <1>8 DEF DataInv

\* The registers and the DDR stay as they are.
HwSame == UNCHANGED <<wst, cur, count, curCount, made, irqReq, fifo, dst, wr,
                      mem>>

LinkSame == UNCHANGED <<nxt, latched, done>>

\* Without the gateware the data of every input are what they were.
LEMMA HwSameData ==
  ASSUME \A c \in Chan : HwData(c), HwSame
  PROVE  \A c \in Chan : HwData(c)'
<1> SUFFICES ASSUME NEW c \in Chan PROVE HwData(c)'
  OBVIOUS
<1>1. View(c)' = View(c) /\ mem' = mem
  BY DEF HwSame, View
<1> QED BY <1>1, HwFrame DEF HwData

\* A step of the driver that does not touch the registers, and leaves
\* ft_buffer_switch where it is or is outside of it before and after.
LEMMA PhaseFrame ==
  ASSUME TypeOK, \A c \in Chan : HwData(c) /\ Phase(c), HwSame, LinkSame,
         active' = active,
         \/ UNCHANGED <<wpc, ch>>
         \/ /\ wpc \notin {"spin", "clear", "base", "size"}
            /\ wpc' \notin {"spin", "clear", "base", "size"}
  PROVE  \A c \in Chan : HwData(c)' /\ Phase(c)'
<1> SUFFICES ASSUME NEW c \in Chan PROVE Phase(c)'
  BY HwSameData
<1>1. PlainStep(c)
  BY DEF HwSame, LinkSame, PlainStep
<1>2. CASE UNCHANGED <<wpc, ch>>
  BY <1>1, <1>2, PlainPhase
<1>3. CASE /\ wpc \notin {"spin", "clear", "base", "size"}
           /\ wpc' \notin {"spin", "clear", "base", "size"}
  <2>1. Settled(c)
    BY <1>3 DEF Phase
  <2>2. Settled(c)'
    BY <2>1 DEF Settled, Current, Quiet, HwSame, LinkSame, BufAddr
  <2> QED BY <1>3, <2>2 DEF Phase, At
<1> QED BY <1>2, <1>3

\* An input the work is not at, while the work goes on with another.
LEMMA OthersSettled ==
  ASSUME NEW c \in Chan, Phase(c), c # ch, ch' = ch,
         active'[c] = active[c], HwSame,
         nxt'[c] = nxt[c], latched'[c] = latched[c], done'[c] = done[c]
  PROVE  Phase(c)'
<1>1. Settled(c)
  BY DEF Phase
<1>2. Settled(c)'
  BY <1>1 DEF Settled, Current, Quiet, HwSame, BufAddr
<1> QED BY <1>2 DEF Phase, At

\* The interrupt handler.
LEMMA HandlerKeepsData == ASSUME IInv, DataInv, Handler PROVE DataInv'
<1>0. /\ TypeOK /\ HwSame /\ LinkSame
      /\ UNCHANGED <<wpc, ch, active, todo, csr, user, transfer, nsamples,
                     dmaq>>
  BY DEF IInv, Handler, IrqEntry, IrqHandled, IrqNone, HwSame, LinkSame, hwVars,
         fsmVars, dmaVars, workVars, userVars, zioVars, dmaEngVars
<1>1. \A c \in Chan : HwData(c)' /\ Phase(c)'
  BY <1>0, PhaseFrame DEF DataInv
<1>2. irqReq' = irqReq /\ curCount' = curCount
  BY <1>0 DEF HwSame
<1>3. Driver'
  BY <1>0, <1>2 DEF DataInv, Driver, BufAddr
<1>4. Asking'
  <2>1. CASE IrqEntry
    BY <1>0, <1>2, <2>1 DEF IrqEntry, Raised, IrqLine, DataInv, Asking
  <2>2. CASE IrqHandled
    BY <1>0, <1>2, <2>2 DEF IrqHandled, DataInv, Asking
  <2>3. CASE IrqNone
    BY <1>0, <1>2, <2>3 DEF IrqNone, DataInv, Asking
  <2> QED BY <2>1, <2>2, <2>3 DEF Handler
<1> QED BY <1>1, <1>3, <1>4 DEF DataInv

\* ft_buffer_switch.
LEMMA SwitchKeepsData ==
  ASSUME IInv, DataInv,
         \/ SwitchRead \/ SwitchWrite \/ SwitchSpin \/ SwitchClear
         \/ SwitchBase \/ SwitchSize
  PROVE  DataInv'
<1>0. /\ TypeOK /\ HwTypeOK /\ ch \in Chan
      /\ active \in [Chan -> Buf] /\ \A c \in Chan : HwData(c) /\ Phase(c)
  BY DEF IInv, TypeOK, DriverTypeOK, DataInv
<1>1. /\ HwSame /\ UNCHANGED <<hpc, hstat, queued, chanMask, todo, ch, user,
                               nsamples, dmaq>>
  BY DEF SwitchRead, SwitchWrite, SwitchSpin, SwitchClear, SwitchBase,
         SwitchSize, HwSame, hwVars, fsmVars, dmaVars, irqVars, zioVars,
         dmaEngVars, userVars
<1>2. \A c \in Chan : HwData(c)'
  BY <1>0, <1>1, HwSameData
<1>3. irqReq' = irqReq /\ curCount' = curCount
  BY <1>1 DEF HwSame
<1>4. /\ wpc # "idle" /\ wpc' \notin {"idle", "read"}
      /\ wpc' = "write" => wpc = "read"
      /\ wpc' \notin {"arm", "submit"}
  BY DEF SwitchRead, SwitchWrite, SwitchSpin, SwitchClear, SwitchBase,
         SwitchSize, WorkGoto
<1>5. Asking'
  BY <1>1, <1>3, <1>4 DEF DataInv, Asking
<1>6. CASE SwitchRead
  <2>1. wpc = "read" /\ wpc' = "write" /\ csr' = done[ch]
    BY <1>6 DEF SwitchRead, WorkGoto
  <2>2. LinkSame /\ active' = active
    BY <1>6 DEF SwitchRead, LinkSame, hwVars, dmaVars, fsmVars
  <2>3. \A c \in Chan : Phase(c)'
    BY <1>0, <1>1, <2>1, <2>2, PhaseFrame
  <2>4. ~done[ch]
    BY <1>0, <2>1 DEF Phase, Settled
  <2>5. Driver'
    BY <1>1, <2>1, <2>2, <2>4 DEF DataInv, Driver, BufAddr
  <2> QED BY <1>2, <1>5, <2>3, <2>5 DEF DataInv
<1>7. CASE SwitchWrite
  <2>1. /\ wpc = "write" /\ wpc' = "spin" /\ ~csr /\ irqReq[ch]
        /\ latched'[ch] = TRUE /\ ~done'[ch]
        /\ UNCHANGED <<nxt, active, transfer>>
    <3>1. Settled(ch) /\ ~csr /\ irqReq[ch]
      BY <1>0, <1>7 DEF SwitchWrite, WorkGoto, Phase, DataInv, Driver, Asking
    <3>2. ~done'[ch] /\ latched'[ch] = TRUE
      BY <1>0, <1>7, <3>1 DEF SwitchWrite, ClearDone, Settled, HwTypeOK
    <3> QED BY <1>7, <3>1, <3>2 DEF SwitchWrite, WorkGoto
  <2>2. ASSUME NEW c \in Chan, c # ch PROVE Phase(c)'
    <3>1. latched'[c] = latched[c] /\ done'[c] = done[c]
      BY <1>0, <1>7, <2>2 DEF SwitchWrite, ClearDone, HwTypeOK
    <3> QED BY <1>0, <1>1, <2>1, <2>2, <3>1, OthersSettled
  <2>3. Phase(ch)'
    <3>1. Settled(ch)
      BY <1>0, <2>1 DEF Phase
    <3>2. Asked(ch)'
      BY <1>1, <2>1, <3>1 DEF Settled, Asked, Current, HwSame, BufAddr
    <3> QED BY <1>1, <2>1, <3>2 DEF Phase, At, Spinning
  <2>4. Driver'
    BY <1>1, <2>1 DEF DataInv, Driver, BufAddr
  <2>5. \A c \in Chan : Phase(c)'
    BY <1>1, <2>2, <2>3
  <2> QED BY <1>2, <1>5, <2>4, <2>5 DEF DataInv
<1>8. CASE SwitchSpin
  <2>1. /\ wpc = "spin" /\ wpc' = "clear" /\ done[ch]
        /\ LinkSame /\ UNCHANGED <<active, transfer>>
    BY <1>8 DEF SwitchSpin, WorkGoto, LinkSame, hwVars, fsmVars, dmaVars
  <2>2. ASSUME NEW c \in Chan, c # ch PROVE Phase(c)'
    BY <1>0, <1>1, <2>1, <2>2, OthersSettled DEF LinkSame
  <2>3. Phase(ch)'
    <3>1. Switched(ch) /\ NoLast(fifo[ch])
      BY <1>0, <2>1 DEF Phase, At, Spinning, Asked
    <3>2. Switched(ch)' /\ NoLast(fifo'[ch])
      BY <1>1, <2>1, <3>1 DEF Switched, Current, Quiet, HwSame, LinkSame,
                              BufAddr
    <3> QED BY <1>1, <2>1, <3>2 DEF Phase, At
  <2>4. Driver'
    BY <1>1, <2>1 DEF DataInv, Driver, BufAddr
  <2>5. \A c \in Chan : Phase(c)'
    BY <1>1, <2>2, <2>3
  <2> QED BY <1>2, <1>5, <2>4, <2>5 DEF DataInv
<1>9. CASE SwitchClear
  <2>1. /\ wpc = "clear" /\ wpc' = "base" /\ ~done'[ch]
        /\ UNCHANGED <<nxt, latched, active, transfer>>
    BY <1>0, <1>9 DEF SwitchClear, WorkGoto, ClearDone, fsmVars, HwTypeOK
  <2>2. ASSUME NEW c \in Chan, c # ch PROVE Phase(c)'
    <3>1. done'[c] = done[c]
      BY <1>0, <1>9, <2>2 DEF SwitchClear, ClearDone, HwTypeOK
    <3> QED BY <1>0, <1>1, <2>1, <2>2, <3>1, OthersSettled
  <2>3. Phase(ch)'
    <3>1. Switched(ch) /\ NoLast(fifo[ch])
      BY <1>0, <2>1 DEF Phase, At
    <3>2. Switched(ch)' /\ NoLast(fifo'[ch])
      BY <1>1, <2>1, <3>1 DEF Switched, Current, Quiet, HwSame, BufAddr
    <3> QED BY <1>1, <2>1, <3>2 DEF Phase, At
  <2>4. Driver'
    BY <1>1, <2>1 DEF DataInv, Driver, BufAddr
  <2>5. \A c \in Chan : Phase(c)'
    BY <1>1, <2>2, <2>3
  <2> QED BY <1>2, <1>5, <2>4, <2>5 DEF DataInv
<1>10. CASE SwitchBase
  <2> DEFINE b == active[ch]
  <2>0. b \in Buf /\ 1 - b \in Buf /\ 1 - (1 - b) = b
    BY <1>0 DEF Buf
  <2>1. /\ wpc = "base" /\ wpc' = "size" /\ transfer' = b
        /\ active'[ch] = 1 - b
        /\ nxt'[ch].base = BufAddr(ch, b) /\ nxt'[ch].valid = nxt[ch].valid
        /\ UNCHANGED <<latched, done>>
        /\ \A c \in Chan : c # ch => active'[c] = active[c] /\ nxt'[c] = nxt[c]
    BY <1>0, <1>10 DEF SwitchBase, WorkGoto, SwitchedAway, OtherBuffer,
                      NextBase, dmaVars, HwTypeOK
  <2>2. ASSUME NEW c \in Chan, c # ch PROVE Phase(c)'
    BY <1>0, <1>1, <2>1, <2>2, OthersSettled
  <2> HIDE DEF b
  <2>3. Phase(ch)'
    <3>1. /\ Current(ch, 1 - b, FALSE) /\ Quiet(ch)
          /\ ~done[ch] /\ NoLast(fifo[ch])
      BY <1>0, <2>1 DEF Phase, At, Switched, b
    <3>2. /\ cur'[ch].base = BufAddr(ch, 1 - b) /\ ~nxt'[ch].valid
          /\ Quiet(ch)' /\ ~done'[ch] /\ NoLast(fifo'[ch])
      BY <1>1, <2>1, <3>1 DEF Current, Quiet, HwSame
    <3>3. Sizing(ch)'
      <4>1. BufAddr(ch, 1 - (1 - b)) = BufAddr(ch, b)
        BY <2>0
      <4>2. /\ cur'[ch].base = BufAddr(ch, active'[ch])
            /\ nxt'[ch].base = BufAddr(ch, 1 - active'[ch])
        BY <2>1, <3>2, <4>1
      <4> QED BY <1>1, <3>2, <4>2 DEF Sizing, BufAddr, Quiet
    <3> QED BY <1>1, <2>1, <3>3 DEF Phase, At
  <2>4. Driver'
    <3>1. transfer' = 1 - active'[ch]
      BY <2>0, <2>1
    <3>2. \A i \in DOMAIN dmaq :
             dmaq[i].chan # ch /\ dmaq[i].chan \in Chan
      <4>1. \A i \in DOMAIN dmaq : dmaq[i].chan # ch
        BY <2>1 DEF IInv, ChanInv
      <4>2. \A i \in DOMAIN dmaq : dmaq[i] \in Transfer
        BY DEF IInv, TypeOK, DriverTypeOK
      <4> QED BY <4>1, <4>2 DEF Transfer
    <3>3. \A i \in DOMAIN dmaq :
             dmaq[i].src = BufAddr(dmaq[i].chan, 1 - active'[dmaq[i].chan])
      BY <2>1, <3>2 DEF DataInv, Driver
    <3> QED BY <1>1, <2>1, <3>1, <3>3 DEF DataInv, Driver, BufAddr
  <2>5. \A c \in Chan : Phase(c)'
    BY <1>1, <2>2, <2>3
  <2> QED BY <1>2, <1>5, <2>4, <2>5 DEF DataInv
<1>11. CASE SwitchSize
  <2>1. /\ wpc = "size" /\ wpc' = "count"
        /\ nxt'[ch].valid = TRUE /\ nxt'[ch].base = nxt[ch].base
        /\ UNCHANGED <<latched, done, active, transfer>>
        /\ \A c \in Chan : c # ch => nxt'[c] = nxt[c]
    BY <1>0, <1>11 DEF SwitchSize, WorkGoto, dmaVars, HwTypeOK
  <2>2. ASSUME NEW c \in Chan, c # ch PROVE Phase(c)'
    BY <1>0, <1>1, <2>1, <2>2, OthersSettled
  <2>3. Phase(ch)'
    <3>1. Sizing(ch)
      BY <1>0, <2>1 DEF Phase, At
    <3>2. Settled(ch)'
      BY <1>1, <2>1, <3>1 DEF Sizing, Settled, Current, Quiet, HwSame, BufAddr
    <3> QED BY <1>1, <2>1, <3>2 DEF Phase, At
  <2>4. Driver'
    BY <1>1, <2>1 DEF DataInv, Driver, BufAddr
  <2>5. \A c \in Chan : Phase(c)'
    BY <1>1, <2>2, <2>3
  <2> QED BY <1>2, <1>5, <2>4, <2>5 DEF DataInv
<1> QED BY <1>6, <1>7, <1>8, <1>9, <1>10, <1>11

\* The rest of ft_irq_work: what it makes of the buffer it was given.
LEMMA WorkKeepsData ==
  ASSUME IInv, DataInv,
         \/ WorkStart \/ WorkNext \/ ReadCount \/ ArmTrigger \/ Submit
         \/ SubmitFails \/ MapFails \/ WorkIssue \/ WorkNothing
  PROVE  DataInv'
<1>0. /\ TypeOK /\ ch \in Chan /\ dmaq \in Seq(Transfer)
      /\ \A c \in Chan : HwData(c) /\ Phase(c)
      /\ nsamples \in [Chan -> Nat] /\ transfer \in Buf
  BY DEF IInv, TypeOK, DriverTypeOK, DataInv
<1>1. HwSame /\ LinkSame /\ UNCHANGED <<active, user, csr, transfer, hpc, hstat,
                                        chanMask>>
  BY DEF WorkStart, WorkNext, ReadCount, ArmTrigger, Submit, SubmitFails,
         MapFails, WorkIssue, WorkNothing, HwSame, LinkSame, hwVars, fsmVars, dmaVars,
         userVars, irqVars
<1>2. /\ wpc \in {"idle", "next", "count", "arm", "submit"}
      /\ wpc' \in {"idle", "next", "read", "arm", "submit"}
  BY DEF WorkStart, WorkNext, ReadCount, ArmTrigger, Submit, SubmitFails,
         MapFails, WorkIssue, WorkNothing, WorkGoto, ConfigFails
<1>3. \A c \in Chan : HwData(c)' /\ Phase(c)'
  BY <1>0, <1>1, <1>2, PhaseFrame
<1>4. irqReq' = irqReq /\ curCount' = curCount
  BY <1>1 DEF HwSame
<1>5. Asking'
  <2>1. CASE WorkStart
    BY <1>1, <1>4, <2>1 DEF WorkStart, WorkGoto, DataInv, Asking
  <2>2. CASE WorkNext
    BY <1>1, <1>4, <2>2 DEF WorkNext, WorkGoto, DataInv, Asking, irqVars
  <2>3. CASE ReadCount \/ ArmTrigger \/ Submit \/ SubmitFails \/ MapFails
    <3>1. /\ wpc # "idle" /\ wpc' \notin {"read", "write"}
          /\ UNCHANGED <<todo, ch, queued>>
      BY <2>3 DEF ReadCount, ArmTrigger, Submit, SubmitFails, MapFails,
                  WorkGoto, ConfigFails, irqVars
    <3> QED BY <1>1, <1>4, <3>1 DEF DataInv, Asking
  <2>4. CASE WorkIssue \/ WorkNothing
    BY <1>1, <1>4, <2>4 DEF WorkIssue, WorkNothing, WorkGoto, DataInv, Asking,
       irqVars
  <2> QED BY <2>1, <2>2, <2>3, <2>4
<1>6. Driver'
  <2>1. CASE WorkStart \/ WorkNext \/ WorkIssue \/ WorkNothing
    <3>1. wpc' \in {"idle", "next", "read"} /\ dmaq' = dmaq
      BY <2>1 DEF WorkStart, WorkNext, WorkIssue, WorkNothing, WorkGoto,
                  dmaEngVars
    <3> QED BY <1>1, <3>1 DEF DataInv, Driver, BufAddr
  <2>2. CASE ReadCount
    <3>1. /\ wpc = "count" /\ wpc' \in {"arm", "next"} /\ ch' = ch
          /\ dmaq' = dmaq /\ nsamples'[ch] = curCount[ch]
      BY <1>0, <2>2 DEF ReadCount, WorkGoto, ConfigFails, dmaEngVars
    <3> QED BY <1>1, <1>4, <3>1 DEF DataInv, Driver, BufAddr
  <2>3. CASE ArmTrigger
    <3>1. /\ wpc = "arm" /\ wpc' = "submit" /\ ch' = ch
          /\ dmaq' = dmaq /\ nsamples' = nsamples
      BY <2>3 DEF ArmTrigger, dmaEngVars
    <3> QED BY <1>1, <1>4, <3>1 DEF DataInv, Driver, BufAddr
  <2>4. CASE SubmitFails \/ MapFails
    <3>1. wpc' = "next" /\ dmaq' = dmaq
      BY <2>4 DEF SubmitFails, MapFails, WorkGoto, ConfigFails, dmaEngVars
    <3> QED BY <1>1, <3>1 DEF DataInv, Driver, BufAddr
  <2>5. CASE Submit
    <3>1. wpc = "submit" /\ wpc' = "next"
      BY <2>5 DEF Submit, WorkGoto
    <3>2. PICK t : /\ dmaq' = Append(dmaq, t)
                   /\ t.chan = ch /\ t.src = BufAddr(ch, transfer)
      BY <2>5 DEF Submit
    <3>3. transfer = 1 - active[ch]
      BY <3>1 DEF DataInv, Driver
    <3>4. \A i \in DOMAIN dmaq' :
             \/ i \in DOMAIN dmaq /\ dmaq'[i] = dmaq[i]
             \/ dmaq'[i] = t
      BY <1>0, <3>2
    <3>5. \A i \in DOMAIN dmaq' :
             dmaq'[i].src = BufAddr(dmaq'[i].chan, 1 - active[dmaq'[i].chan])
      BY <3>2, <3>3, <3>4 DEF DataInv, Driver
    <3> QED BY <1>1, <3>1, <3>5 DEF DataInv, Driver, BufAddr
  <2> QED BY <2>1, <2>2, <2>3, <2>4, <2>5
<1> QED BY <1>3, <1>5, <1>6 DEF DataInv

\* Transfers that leave the queue, or whose block is handed over, were to read
\* where the others are.
LEMMA EngineAndUserData ==
  ASSUME IInv, DataInv, Engine \/ User
  PROVE  DataInv'
<1>0. /\ TypeOK /\ HwTypeOK /\ dmaq \in Seq(Transfer)
      /\ \A c \in Chan : HwData(c) /\ Phase(c)
  BY DEF IInv, TypeOK, DriverTypeOK, DataInv
<1>1. HwSame /\ UNCHANGED <<wpc, ch, active, todo, csr, transfer, hpc, hstat,
                            queued, chanMask, nsamples, nxt, latched>>
  <2>1. CASE Engine
    BY <2>1 DEF Engine, DmaComplete, DataDone, HwSame, hwVars, fsmVars,
                dmaVars, workVars, irqVars
  <2>2. CASE User
    BY <2>2 DEF User, EnableInput, DisableInput, AbortDisable,
                SetTimeoutRead, SetTimeoutWrite, HwSame, hwVars, fsmVars, dmaVars, workVars,
                irqVars, zioVars
  <2> QED BY <2>1, <2>2
<1>2. \A c \in Chan : HwData(c)'
  BY <1>0, <1>1, HwSameData
<1>3. irqReq' = irqReq /\ curCount' = curCount
  BY <1>1 DEF HwSame
<1>4. Asking'
  BY <1>1, <1>3 DEF DataInv, Asking
<1>5. \A i \in DOMAIN dmaq' : \E j \in DOMAIN dmaq :
         dmaq'[i].chan = dmaq[j].chan /\ dmaq'[i].src = dmaq[j].src
  <2>1. CASE DmaComplete
    <3>1. dmaq # <<>> /\ dmaq' = Tail(dmaq)
      BY <2>1 DEF DmaComplete
    <3>2. /\ Len(dmaq) \in Nat
          /\ DOMAIN dmaq = 1 .. Len(dmaq) /\ DOMAIN dmaq' = 1 .. Len(dmaq) - 1
          /\ \A i \in 1 .. Len(dmaq) - 1 : dmaq'[i] = dmaq[i + 1]
      BY <1>0, <3>1, TailFacts
    <3>3. \A i \in DOMAIN dmaq' : i + 1 \in DOMAIN dmaq
      BY <3>2
    <3> QED BY <3>2, <3>3
  <2>2. ASSUME NEW c \in Chan, dmaq' = Orphan(c)
        PROVE  \A i \in DOMAIN dmaq' :
                  /\ i \in DOMAIN dmaq
                  /\ dmaq'[i].chan = dmaq[i].chan /\ dmaq'[i].src = dmaq[i].src
    <3>1. \A i \in DOMAIN dmaq : dmaq[i] \in Transfer
      BY <1>0
    <3> QED BY <2>2, <3>1 DEF Orphan, Transfer
  <2>3. CASE dmaq' = dmaq
    BY <2>3
  <2>4. \/ DmaComplete \/ dmaq' = dmaq
        \/ \E c \in Chan : dmaq' = Orphan(c)
    BY DEF Engine, User, DataDone, EnableInput, DisableInput, AbortDisable,
           SetTimeoutRead, SetTimeoutWrite, dmaEngVars
  <2> QED BY <2>1, <2>2, <2>3, <2>4
<1>6. MaxSets = 0 => user.pc = "idle" /\ user' = user
  <2>1. sets \in 0 .. MaxSets /\ MaxSets \in Nat
    BY <1>0, BoundAssumption DEF TypeOK, DriverTypeOK
  <2>2. MaxSets = 0 => user.pc = "idle" /\ ~(sets < MaxSets)
    BY <2>1 DEF DataInv, Driver
  <2>3. MaxSets = 0 => ~SetTimeoutWrite /\ \A c \in Chan : ~SetTimeoutRead(c)
    BY <2>2 DEF SetTimeoutWrite, SetTimeoutRead
  <2> QED BY <2>2, <2>3 DEF Engine, User, DmaComplete, DataDone, EnableInput,
         DisableInput, AbortDisable, userVars
<1>7. Driver'
  <2>1. \A i \in DOMAIN dmaq' :
           dmaq'[i].src = BufAddr(dmaq'[i].chan, 1 - active[dmaq'[i].chan])
    BY <1>5 DEF DataInv, Driver
  <2> QED BY <1>1, <1>3, <1>6, <2>1 DEF DataInv, Driver, BufAddr
<1>8. CASE done' = done
  <2>1. LinkSame
    BY <1>1, <1>8 DEF LinkSame
  <2>2. \A c \in Chan : Phase(c)'
    BY <1>0, <1>1, <2>1, PhaseFrame
  <2> QED BY <1>2, <1>4, <1>7, <2>2 DEF DataInv
<1>9. CASE SetTimeoutWrite
  <2>1. MaxSets # 0
    BY <1>6, <1>9 DEF SetTimeoutWrite
  <2>2. \A c \in Chan : done'[c] => done[c]
    BY <1>0, <1>9 DEF SetTimeoutWrite, ClearDone, HwTypeOK
  <2>3. ASSUME NEW c \in Chan PROVE Phase(c)'
    <3>1. /\ Settled(c) => Settled(c)'
          /\ Asked(c) => Asked(c)'
          /\ Switched(c) => Switched(c)'
          /\ Sizing(c) => Sizing(c)'
      BY <1>1, <2>2 DEF Settled, Asked, Switched, Sizing, Current, Quiet,
                        HwSame, BufAddr
    <3>2. NoLast(fifo'[c]) <=> NoLast(fifo[c])
      BY <1>1 DEF HwSame
    <3>3. Spinning(c) => Spinning(c)'
      BY <2>1, <2>2, <3>1, <3>2 DEF Spinning
    <3>4. Phase(c)
      BY <1>0
    <3> QED BY <1>1, <2>2, <3>1, <3>2, <3>3, <3>4 DEF Phase, At
  <2> QED BY <1>2, <1>4, <1>7, <2>3 DEF DataInv
<1> QED BY <1>8, <1>9 DEF Engine, User, DmaComplete, DataDone, EnableInput,
       DisableInput, AbortDisable, SetTimeoutRead, hwVars, dmaVars

\* The initial state.
LEMMA DataInit == Init => DataInv
<1> SUFFICES ASSUME Init PROVE DataInv
  OBVIOUS
<1>1. \A c \in Chan : /\ BufAddr(c, 0) \in Nat /\ BufAddr(c, 1) \in Nat
                      /\ BufAddr(c, 1 - 0) = BufAddr(c, 1)
  <2>1. 1 - 0 = 1
    OBVIOUS
  <2> QED BY <2>1, BufAddrNat DEF Buf
<1>2. ASSUME NEW c \in Chan PROVE HwData(c)
  <2>1. /\ wst[c] = "IDLE" /\ count[c] = 0 /\ curCount[c] = 0 /\ made[c] = 0
        /\ ~irqReq[c] /\ fifo[c] = <<>> /\ dst[c] = "WAIT_BURST"
        /\ cur[c].base = BufAddr(c, 0) /\ cur[c].valid
    BY DEF Init, HwInit
  <2>2. Away(c) = 0
    BY <2>1 DEF Away
  <2>3. Room(c)
    BY <2>1, <2>2, SizeAssumption DEF Room
  <2>4. WordsOK(c)
    BY <2>1 DEF WordsOK, Words, Stamps, Neighbours, OneMarker
  <2>5. AddressOK(c)
    BY <2>1 DEF AddressOK, Address
  <2>6. CellsOK(c)
    BY <2>1, <2>2 DEF CellsOK, Cells
  <2> QED BY <2>3, <2>4, <2>5, <2>6 DEF HwData
<1>3. ASSUME NEW c \in Chan PROVE Phase(c)
  <2>1. Settled(c)
    BY <1>1 DEF Init, HwInit, Settled, Current, Quiet, NoLast
  <2>2. wpc = "idle"
    BY DEF Init
  <2> QED BY <2>1, <2>2 DEF Phase, At
<1>4. Asking /\ Driver
  BY DEF Init, Asking, Driver, NoUser
<1> QED BY <1>2, <1>3, <1>4 DEF DataInv

\* The data invariant is one, as long as no buffer is ever full.
LEMMA DataInvariance == ASSUME ~Overfill PROVE Spec => []DataInv
<1>1. IInv /\ DataInv /\ [Next]_vars => DataInv'
  <2> SUFFICES ASSUME IInv, DataInv, [Next]_vars PROVE DataInv'
    OBVIOUS
  <2>1. ASSUME NEW c \in Chan, HwStep(c), DriverUnchanged
        PROVE  DataInv'
    BY <2>1, HwKeepsData
  <2>2. CASE Handler
    BY <2>2, HandlerKeepsData
  <2>3. CASE Work
    BY <2>3, SwitchKeepsData, WorkKeepsData DEF Work
  <2>4. CASE Engine \/ User
    BY <2>4, EngineAndUserData
  <2>5. CASE UNCHANGED vars
    <3>1. /\ HwSame /\ LinkSame /\ irqReq' = irqReq /\ curCount' = curCount
          /\ UNCHANGED <<active, wpc, ch, hpc, hstat, queued, chanMask, todo,
                         csr, user, transfer, nsamples, dmaq>>
      BY <2>5 DEF vars, hwVars, fsmVars, dmaVars, irqVars, workVars, zioVars,
                  dmaEngVars, userVars, HwSame, LinkSame
    <3>2. \A c \in Chan : HwData(c)' /\ Phase(c)'
      BY <3>1, PhaseFrame DEF IInv, DataInv
    <3>3. Asking' /\ Driver'
      BY <3>1 DEF DataInv, Asking, Driver, BufAddr
    <3> QED BY <3>2, <3>3 DEF DataInv
  <2> QED BY <2>1, <2>2, <2>3, <2>4, <2>5 DEF Next
<1> QED BY <1>1, DataInit, Invariance, PTL DEF Spec

-----------------------------------------------------------------------------
(* The theorems *)

\* Buffers with a slot in common are not apart.
LEMMA SlotsMeet ==
  ASSUME NEW x \in Nat, NEW base \in Nat, NEW a \in Nat,
         a \in Slots(base), a \in x .. x + BufSize - 1
  PROVE  ~Apart(x, base)
BY SizeAssumption DEF Slots, Apart

\* The gateware writes where its input's current buffer is, and elsewhere in
\* the input's two buffers only while the marker between them is in the FIFO.
LEMMA WhereItWrites ==
  ASSUME NEW c \in Chan, HwTypeOK, HwData(c), NEW base \in Nat,
         MayWrite(c, base)
  PROVE  \/ ~Apart(cur[c].base, base)
         \/ ~NoLast(fifo[c]) /\ ~Apart(Other(c), base)
<1>1. /\ Away(c) \in Int /\ count[c] \in Nat /\ curCount[c] \in Nat
      /\ count[c] < BufSize /\ curCount[c] < BufSize
      /\ fifo[c] \in Seq(Word) /\ BufSize \in Nat
      /\ cur[c].base \in Nat /\ Other(c) \in Nat
      /\ Apart(cur[c].base, Other(c))
  BY Numbers
<1>w. Words(c, fifo[c], Away(c), count[c], curCount[c], cur[c].base, Other(c),
            wst[c])
  BY DEF HwData, WordsOK
<1> DEFINE aw == Away(c)  n == count[c]  m == curCount[c]
           x == cur[c].base  y == Other(c)  f == fifo[c]
<1>2. \A i \in DOMAIN f : f[i].kind = "ts" =>
         /\ NumOf(f[i]) \in aw - m + 1 .. aw + n
         /\ NumOf(f[i]) <= aw => ~NoLast(f)
  <2> SUFFICES ASSUME NEW i \in DOMAIN f, f[i].kind = "ts"
               PROVE  /\ NumOf(f[i]) \in aw - m + 1 .. aw + n
                      /\ NumOf(f[i]) <= aw => ~NoLast(f)
    OBVIOUS
  <2>1. /\ NumOf(f[i]) \in aw - m + 1 .. aw + n
        /\ NumOf(f[i]) <= aw => LastAfter(f, i)
    BY <1>w DEF Words, Stamps
  <2>2. LastAfter(f, i) => ~NoLast(f)
    BY DEF LastAfter, NoLast
  <2> QED BY <2>1, <2>2
<1>3. \A k \in aw - m + 1 .. aw + n :
         /\ k > aw => Slot(k, aw, m, x, y) \in x .. x + n - 1
         /\ k <= aw => Slot(k, aw, m, x, y) \in y .. y + m - 1
  <2> HIDE DEF aw, n, m, x, y
  <2>1. /\ aw \in Int /\ n \in Nat /\ m \in Nat /\ x \in Nat /\ y \in Nat
        /\ n < BufSize /\ m < BufSize /\ Apart(x, y)
    BY <1>1 DEF aw, n, m, x, y
  <2> QED BY <2>1, SlotFacts
<1>4. \A a \in Nat : a \in Slots(base) =>
         /\ a \in x .. x + BufSize - 1 => ~Apart(x, base)
         /\ a \in y .. y + BufSize - 1 => ~Apart(y, base)
  <2>1. x \in Nat /\ y \in Nat
    BY <1>1
  <2> HIDE DEF x, y
  <2> QED BY <2>1, SlotsMeet
<1>5. ASSUME NEW i \in DOMAIN f, f[i].kind = "ts"
      PROVE  LET a == Slot(NumOf(f[i]), aw, m, x, y)
             IN  /\ a \in Nat
                 /\ \/ a \in x .. x + BufSize - 1
                    \/ ~NoLast(f) /\ a \in y .. y + BufSize - 1
  <2> DEFINE k == NumOf(f[i])
             a == Slot(NumOf(f[i]), aw, m, x, y)
  <2>1. k \in aw - m + 1 .. aw + n /\ (k <= aw => ~NoLast(f))
    BY <1>2, <1>5
  <2>2. /\ k > aw => a \in x .. x + n - 1
        /\ k <= aw => a \in y .. y + m - 1
    BY <1>3, <2>1
  <2> HIDE DEF k, a
  <2>3. k > aw \/ k <= aw
    BY <1>1, <2>1
  <2>4. CASE k > aw
    <3>1. a \in x .. x + n - 1
      BY <2>2, <2>4
    <3>2. a \in Nat /\ a \in x .. x + BufSize - 1
      BY <1>1, <3>1
    <3> QED BY <3>2 DEF a
  <2>5. CASE k <= aw
    <3>1. a \in y .. y + m - 1 /\ ~NoLast(f)
      BY <2>1, <2>2, <2>5
    <3>2. a \in Nat /\ a \in y .. y + BufSize - 1
      BY <1>1, <3>1
    <3> QED BY <3>1, <3>2 DEF a
  <2> QED BY <2>3, <2>4, <2>5
<1>6. CASE cur[c].base = base
  BY <1>1, <1>6, SizeAssumption DEF Apart
<1>7. ASSUME NEW i \in DOMAIN f, f[i].kind = "addr", f[i].val \in Slots(base)
      PROVE  \/ ~Apart(x, base)
             \/ ~NoLast(f) /\ ~Apart(y, base)
  <2>1. Len(f) \in Nat /\ DOMAIN f = 1 .. Len(f)
    BY <1>1
  <2>2. CASE i = Len(f)
    <3>1. f[i].val = x + n
      BY <1>w, <1>7, <2>1, <2>2 DEF Words, Newest
    <3>2. f[i].val \in Nat /\ f[i].val \in x .. x + BufSize - 1
      <4>1. x \in Nat /\ n \in Nat /\ n < BufSize /\ BufSize \in Nat
        BY <1>1
      <4> HIDE DEF x, n
      <4>2. x + n \in Nat /\ x + n \in x .. x + BufSize - 1
        BY <4>1
      <4> QED BY <3>1, <4>2
    <3> QED BY <1>4, <1>7, <3>2
  <2>3. CASE i < Len(f)
    <3>1. f[i + 1].kind = "ts" /\ f[i].val = Slot(NumOf(f[i + 1]), aw, m, x, y)
      BY <1>w, <1>7, <2>3 DEF Words, Neighbours, NextWord
    <3>2. i + 1 \in DOMAIN f
      BY <2>1, <2>3
    <3> QED BY <1>4, <1>5, <1>7, <3>1, <3>2
  <2> QED BY <2>1, <2>2, <2>3
<1>8. CASE dst[c] = "EXECUTE_BURST" /\ HeadIs(c, "ts") /\ wr[c] \in Slots(base)
  <2>1. 1 \in DOMAIN f /\ Head(f) = f[1] /\ f[1].kind = "ts"
    BY <1>1, <1>8, PopFacts DEF HeadIs
  <2>2. wr[c] = Slot(NumOf(f[1]), aw, m, x, y)
    BY <1>8, <2>1, WriteSlot DEF HeadIs
  <2> QED BY <1>4, <1>5, <1>8, <2>1, <2>2
<1> QED BY <1>6, <1>7, <1>8 DEF MayWrite

\* The double buffer works: as long as no buffer is ever full the gateware
\* never writes to a buffer that the DMA engine is reading or going to read.
THEOREM BuffersDoNotOverlap == ASSUME ~Overfill PROVE Spec => []NoOverlap
<1>1. IInv /\ DataInv => NoOverlap
  <2> SUFFICES ASSUME IInv, DataInv, NEW i \in DOMAIN dmaq, NEW c \in Chan,
                      MayWrite(c, dmaq[i].src)
               PROVE  FALSE
    BY DEF NoOverlap
  <2> DEFINE d == dmaq[i].chan
             s == dmaq[i].src
  <2>1. dmaq[i] \in Transfer
    BY DEF IInv, TypeOK, DriverTypeOK
  <2>2. /\ d \in Chan /\ active[d] \in Buf /\ 1 - active[d] \in Buf
        /\ s = BufAddr(d, 1 - active[d]) /\ HwTypeOK
        /\ HwData(c) /\ HwData(d) /\ Phase(d)
    <3>1. d \in Chan
      BY <2>1 DEF Transfer
    <3>2. active[d] \in Buf
      BY <3>1 DEF IInv, TypeOK, DriverTypeOK
    <3>3. 1 - active[d] \in Buf
      BY <3>2 DEF Buf
    <3>4. s = BufAddr(d, 1 - active[d])
      BY DEF DataInv, Driver
    <3>5. HwTypeOK /\ HwData(c) /\ HwData(d) /\ Phase(d)
      BY <3>1 DEF IInv, TypeOK, DataInv
    <3> QED BY <3>1, <3>2, <3>3, <3>4, <3>5
  <2>3. d # ch \/ wpc \notin {"spin", "clear", "base", "size"}
    BY DEF IInv, ChanInv
  <2>4. cur[d].base = BufAddr(d, active[d]) /\ NoLast(fifo[d])
    BY <2>2, <2>3 DEF Phase, Settled, Current
  <2>5. Other(d) = s /\ Apart(cur[d].base, s)
    BY <2>2, <2>4, OwnBuffers DEF HwData
  <2>6. s \in Nat
    BY <2>2, BufAddrNat
  <2>7. \/ ~Apart(cur[c].base, s)
        \/ ~NoLast(fifo[c]) /\ ~Apart(Other(c), s)
    BY <2>2, <2>6, WhereItWrites
  <2>8. CASE c = d
    BY <2>4, <2>5, <2>7, <2>8
  <2>9. CASE c # d
    <3>1. Apart(cur[c].base, s) /\ Apart(Other(c), s)
      BY <2>2, <2>9, OwnBuffers DEF HwData
    <3> QED BY <2>7, <3>1
  <2> QED BY <2>8, <2>9
<1> QED BY <1>1, Invariance, DataInvariance, PTL

\* Once the marker has left the FIFO the buffer switched away holds its
\* curCount timestamps, the last of them the last one switched away.
LEMMA BufferHolds ==
  ASSUME NEW c \in Chan, NEW b \in Buf, HwTypeOK, HwData(c), NoLast(fifo[c]),
         cur[c].base = BufAddr(c, b)
  PROVE  /\ Away(c) - curCount[c] \in 0 .. MaxTs /\ Away(c) \in 0 .. MaxTs
         /\ \A i \in 1 .. curCount[c] :
               mem[BufAddr(c, 1 - b) + i - 1]
                 = Ts(c, (Away(c) - curCount[c]) + i)
<1> DEFINE aw == Away(c)  m == curCount[c]  y == Other(c)
           x == cur[c].base  n == count[c]
           k == aw - m
<1>3. BufAddr(c, 1 - b) = y
  BY OwnBuffers DEF HwData
<1>4. /\ aw \in Int /\ n \in Nat /\ m \in Nat /\ y \in Nat
      /\ made[c] \in 0 .. MaxTs
  BY Numbers DEF HwTypeOK
<1>5. m <= aw
  BY DEF HwData, Room
<1>6. aw <= made[c]
  BY <1>4 DEF Away
<1>7. Cells(c, fifo[c], mem, aw, n, m, x, y)
  BY DEF HwData, CellsOK
<1>8. \A i \in DOMAIN fifo[c] :
         fifo[c][i].kind = "ts" => ~(NumOf(fifo[c][i]) <= aw)
  BY DEF HwData, WordsOK, Words, Stamps, LastAfter, NoLast
<1>9. \A j, i : fifo[c][i] = TsWord(Ts(c, j)) =>
         fifo[c][i].kind = "ts" /\ NumOf(fifo[c][i]) = j
  BY DEF TsWord, Ts, NumOf
<1> HIDE DEF aw, m, y, x, n
<1>10. k \in 0 .. MaxTs /\ aw \in 0 .. MaxTs
  BY <1>4, <1>5, <1>6, SizeAssumption
<1>11. ASSUME NEW i \in 1 .. m
       PROVE  mem[y + i - 1] = Ts(c, k + i)
  <2> DEFINE j == k + i
  <2>1. j \in aw - m + 1 .. aw + n /\ j <= aw
    BY <1>4, <1>11
  <2>2. Slot(j, aw, m, x, y) = y + i - 1
    BY <1>4, <1>11 DEF Slot
  <2> HIDE DEF j
  <2>3. ~ \E l \in DOMAIN fifo[c] : fifo[c][l] = TsWord(Ts(c, j))
    BY <1>8, <1>9, <2>1
  <2>4. mem[Slot(j, aw, m, x, y)] = Ts(c, j)
    BY <1>7, <2>1, <2>3 DEF Cells
  <2> QED BY <2>2, <2>4 DEF j
<1> QED BY <1>3, <1>10, <1>11 DEF aw, m, y

\* CUR_COUNT is the count of the buffer ft_buffer_switch returned, and all of
\* its timestamps have reached the DDR by then: none is lost between the FIFO
\* and the buffer, none is overwritten.
THEOREM CountIsOfTheBuffer ==
  ASSUME ~Overfill PROVE Spec => []CountMatchesBuffer
<1>1. IInv /\ DataInv => CountMatchesBuffer
  <2> SUFFICES ASSUME IInv, DataInv, wpc = "arm"
               PROVE  \E k \in 0 .. MaxTs : \A i \in 1 .. nsamples[ch] :
                         mem[BufAddr(ch, transfer) + i - 1] = Ts(ch, k + i)
    BY DEF CountMatchesBuffer
  <2>1. /\ ch \in Chan /\ active[ch] \in Buf /\ HwTypeOK
        /\ HwData(ch) /\ Phase(ch)
        /\ transfer = 1 - active[ch] /\ nsamples[ch] = curCount[ch]
    BY DEF IInv, TypeOK, DriverTypeOK, DataInv, Driver
  <2>2. cur[ch].base = BufAddr(ch, active[ch]) /\ NoLast(fifo[ch])
    BY <2>1 DEF Phase, Settled, Current
  <2> QED BY <2>1, <2>2, BufferHolds
<1> QED BY <1>1, Invariance, DataInvariance, PTL

\* The busy wait of ft_buffer_switch is answered: unless the coalescing timeout
\* is written meanwhile, CSR.DONE is set or on its way.
THEOREM SpinIsAnswered ==
  ASSUME ~Overfill, MaxSets = 0 PROVE Spec => []DoneWillCome
<1>1. IInv /\ DataInv => DoneWillCome
  <2> SUFFICES ASSUME IInv, DataInv, wpc = "spin"
               PROVE  \/ done[ch] \/ latched[ch]
                      \/ \E i \in DOMAIN fifo[ch] : fifo[ch][i] = LastWord
    BY DEF DoneWillCome
  <2>1. ch \in Chan /\ fifo[ch] \in Seq(Word) /\ Phase(ch)
    BY DEF IInv, TypeOK, DriverTypeOK, HwTypeOK, DataInv
  <2>2. latched[ch] \/ done[ch] \/ ~NoLast(fifo[ch])
    BY <2>1 DEF Phase, At, Spinning, Asked
  <2>3. ASSUME ~NoLast(fifo[ch])
        PROVE  \E i \in DOMAIN fifo[ch] : fifo[ch][i] = LastWord
    <3>1. PICK i \in DOMAIN fifo[ch] : fifo[ch][i].kind = "last"
      BY <2>3 DEF NoLast
    <3>2. fifo[ch][i] \in Word
      BY <2>1
    <3> QED BY <3>1, <3>2, Kinds
  <2> QED BY <2>2, <2>3
<1> QED BY <1>1, Invariance, DataInvariance, PTL
=============================================================================
