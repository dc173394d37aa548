----------------------------- MODULE FtBufProofs -----------------------------
(***************************************************************************)
(* Proofs about the DMA acquisition of FtBuf, for any number of inputs,    *)
(* any buffer and burst sizes and any bounds.                              *)
(*                                                                         *)
(* The interrupt mask and the transfer counter are kept right by one       *)
(* inductive invariant, IInv: the type invariant together with the phases  *)
(* of an acquisition cycle (CycleInv) and with which inputs already have a *)
(* transfer in the cycle (ChanInv).                                        *)
(***************************************************************************)
EXTENDS FtBuf, TLAPS

\* A cycle is queued, or at work, or its transfers run; the queue of the
\* engine only holds the transfers of the running cycle.  A transfer that is
\* counted and not submitted is of the last cycle there will be.
CycleInv ==
  /\ MaskIsSaved
  /\ PendingIsExact
  /\ queued => wpc = "idle" /\ unmapped = 0
  /\ queued \/ wpc # "idle" => ~issued
  /\ wpc # "idle" => nTransfers = Len(dmaq) + unmapped
  /\ wpc = "idle" /\ ~issued => dmaq = <<>>
  /\ issued => dmaq # <<>>

\* The work visits an input once, and queues its transfer last.
ChanInv ==
  /\ OneTransferPerInput
  /\ wpc # "idle" => \A i \in DOMAIN dmaq : dmaq[i].chan \notin todo
  /\ wpc \notin {"idle", "next"} =>
        ch \notin todo /\ \A i \in DOMAIN dmaq : dmaq[i].chan # ch

IInv == TypeOK /\ CycleInv /\ ChanInv

-----------------------------------------------------------------------------
(* Data *)

\* DDR addresses of buffers are natural numbers.
LEMMA BufAddrNat == ASSUME NEW c \in Chan, NEW b \in Buf
                    PROVE  BufAddr(c, b) \in Nat
<1>1. \A x, y \in Nat : x * y \in Nat
  BY Z3
<1>2. BufSize \in Nat /\ 2 * c + b \in Nat
  BY ChanAssumption, SizeAssumption, SMT DEF Chan, Buf
<1> QED BY <1>1, <1>2 DEF BufAddr

\* Zero is an input, and the word that is no timestamp is a stamp.
LEMMA JunkStamp == 0 \in Chan /\ Junk \in Stamp
  BY ChanAssumption, SizeAssumption, SMT DEF Chan, Junk, Stamp

\* Handing a block over changes neither the number of the transfers nor their
\* inputs.
LEMMA OrphanLemma == ASSUME dmaq \in Seq(Transfer), NEW c \in Chan
                     PROVE  /\ Orphan(c) \in Seq(Transfer)
                            /\ Len(Orphan(c)) = Len(dmaq)
                            /\ DOMAIN Orphan(c) = DOMAIN dmaq
                            /\ \A i \in DOMAIN dmaq :
                                  Orphan(c)[i].chan = dmaq[i].chan
<1>1. DOMAIN dmaq = 1 .. Len(dmaq) /\ Len(dmaq) \in Nat
  OBVIOUS
<1>2. \A i \in DOMAIN dmaq : dmaq[i] \in Transfer
  OBVIOUS
<1>3. \A i \in DOMAIN dmaq : /\ Orphan(c)[i] \in Transfer
                             /\ Orphan(c)[i].chan = dmaq[i].chan
  BY <1>2 DEF Orphan, Transfer
<1>4. Orphan(c) = [i \in 1 .. Len(dmaq) |-> Orphan(c)[i]]
  BY <1>1 DEF Orphan
<1> QED BY <1>1, <1>3, <1>4

\* Removing the head of a queue.
LEMMA TailFacts == ASSUME NEW S, NEW s \in Seq(S), s # <<>>
                   PROVE  /\ Len(s) \in Nat /\ Len(s) > 0
                          /\ Head(s) \in S /\ Tail(s) \in Seq(S)
                          /\ Len(Tail(s)) = Len(s) - 1
                          /\ DOMAIN s = 1 .. Len(s)
                          /\ DOMAIN Tail(s) = 1 .. Len(s) - 1
                          /\ \A i \in 1 .. Len(s) - 1 : Tail(s)[i] = s[i + 1]
                          /\ Tail(s) = <<>> <=> Len(s) = 1
<1>1. /\ Len(s) \in Nat /\ Len(s) > 0
      /\ Head(s) \in S /\ Tail(s) \in Seq(S)
      /\ DOMAIN s = 1 .. Len(s)
  OBVIOUS
<1>2. /\ Len(Tail(s)) = Len(s) - 1
      /\ \A i \in 1 .. Len(s) - 1 : Tail(s)[i] = s[i + 1]
  OBVIOUS
<1>3. DOMAIN Tail(s) = 1 .. Len(Tail(s))
  BY <1>1
<1>4. Tail(s) = <<>> <=> Len(Tail(s)) = 0
  BY <1>1
<1> QED BY <1>1, <1>2, <1>3, <1>4

\* A bounded counter below its bound stays in its type when it is increased.
LEMMA OneMore ==
  ASSUME NEW N \in Nat, NEW f \in [Chan -> 0 .. N], NEW c \in Chan, f[c] < N
  PROVE  [f EXCEPT ![c] = @ + 1] \in [Chan -> 0 .. N]
  OBVIOUS

\* A register pair keeps its type when one of its fields is written.
LEMMA FieldSet ==
  ASSUME NEW f \in [Chan -> [base : Nat, valid : BOOLEAN]], NEW c \in Chan
  PROVE  /\ \A b \in Nat : [f EXCEPT ![c].base = b]
                              \in [Chan -> [base : Nat, valid : BOOLEAN]]
         /\ [f EXCEPT ![c].valid = TRUE]
               \in [Chan -> [base : Nat, valid : BOOLEAN]]
  OBVIOUS

-----------------------------------------------------------------------------
(* The gateware *)

\* Every step of the gateware keeps the types of its registers.
LEMMA HwStepType == ASSUME HwTypeOK, NEW c \in Chan, HwStep(c)
                    PROVE  HwTypeOK'
<1> USE DEF HwTypeOK, Push, Pop, HeadIs
<1>w. /\ \A a \in Nat : AddrWord(a) \in Word
      /\ \A t \in Stamp : TsWord(t) \in Word
      /\ LastWord \in Word
  BY DEF AddrWord, TsWord, LastWord, Word
<1>h. fifo[c] # <<>> => /\ Head(fifo[c]) \in Word
                        /\ Tail(fifo[c]) \in Seq(Word)
  OBVIOUS
<1>a. fifo[c] # <<>> /\ Head(fifo[c]).kind = "addr" => Head(fifo[c]).val \in Nat
  BY <1>h DEF Word, LastWord
<1>t. fifo[c] # <<>> /\ Head(fifo[c]).kind = "ts" => Head(fifo[c]).val \in Stamp
  BY <1>h DEF Word, LastWord
<1>m. made \in [Chan -> 0 .. MaxTs]
  OBVIOUS
<1>1. CASE OpenBurst(c)
  <2>1. cur[c].base + count[c] \in Nat
    OBVIOUS
  <2>2. Append(fifo[c], AddrWord(cur[c].base + count[c])) \in Seq(Word)
    BY <2>1, <1>w
  <2>3. made' \in [Chan -> 0 .. MaxTs]
    <3>1. made' = [made EXCEPT ![c] = @ + 1] /\ made[c] < MaxTs
      BY <1>1 DEF OpenBurst, TsValid
    <3> QED BY <3>1, OneMore, SizeAssumption, <1>m
  <2> QED BY <1>1, <2>2, <2>3 DEF OpenBurst
<1>2. CASE BufferFull(c)
  BY <1>2 DEF BufferFull, dmaVars
<1>3. CASE DropTs(c)
  <2>1. made' \in [Chan -> 0 .. MaxTs]
    <3>1. made' = [made EXCEPT ![c] = @ + 1] /\ made[c] < MaxTs
      BY <1>3 DEF DropTs, TsValid
    <3> QED BY <3>1, OneMore, SizeAssumption, <1>m
  <2> QED BY <1>3, <2>1 DEF DropTs, dmaVars
<1>4. CASE LeaveIdle(c)
  BY <1>4 DEF LeaveIdle, dmaVars
<1>5. CASE SwitchBuffers(c)
  <2>1. Append(fifo[c], LastWord) \in Seq(Word)
    BY <1>w
  <2>2. IrqReqAfterSwitch(c) \in BOOLEAN
    BY DEF IrqReqAfterSwitch
  <2>3. expired' \in [Chan -> BOOLEAN]
    BY <1>5, <2>2, Zenon DEF SwitchBuffers
  <2>4. /\ nxt' \in [Chan -> [base : Nat, valid : BOOLEAN]]
        /\ cur' \in [Chan -> [base : Nat, valid : BOOLEAN]]
    BY <1>5 DEF SwitchBuffers
  <2> QED BY <1>5, <2>1, <2>2, <2>3, <2>4 DEF SwitchBuffers, CountAtSwitch
<1>6. CASE Serialise(c)
  <2>1. Ts(c, made[c]) \in Stamp
    BY DEF Ts, Stamp
  <2>2. Append(fifo[c], TsWord(Ts(c, made[c]))) \in Seq(Word)
    BY <2>1, <1>w
  <2>3. fifo' \in [Chan -> Seq(Word)]
    BY <1>6, <2>2 DEF Serialise
  <2>4. count' \in [Chan -> Nat]
    BY <1>6 DEF Serialise
  <2>5. burst' \in [Chan -> Nat]
    BY <1>6 DEF Serialise
  <2> QED BY <1>6, <2>3, <2>4, <2>5 DEF Serialise
<1>7. CASE CloseBurst(c)
  <2>1. bursts' \in [Chan -> Nat]
    BY <1>7 DEF CloseBurst
  <2>2. wst' \in [Chan -> {"IDLE", "SWITCH_BUFFERS", "WAIT_NEXT_TS", "SER"}]
    BY <1>7 DEF CloseBurst
  <2>3. UNCHANGED <<enable, latched, cur, nxt, count, curCount, burst, irqReq,
                    expired, overflow, made, fifo, dst, wr, acks, done, mem>>
    BY <1>7 DEF CloseBurst
  <2> QED BY <2>1, <2>2, <2>3
<1>8. CASE NextTs(c)
  <2>1. made' \in [Chan -> 0 .. MaxTs]
    <3>1. made' = [made EXCEPT ![c] = @ + 1] /\ made[c] < MaxTs
      BY <1>8 DEF NextTs, TsValid
    <3> QED BY <3>1, OneMore, SizeAssumption, <1>m
  <2> QED BY <1>8, <2>1 DEF NextTs, dmaVars
<1>9. CASE IrqTimer(c)
  BY <1>9 DEF IrqTimer, dmaVars
<1>10. CASE StartBurst(c)
  <2>1. wr' \in [Chan -> Nat] /\ fifo' \in [Chan -> Seq(Word)]
    BY <1>10, <1>h, <1>a DEF StartBurst
  <2>2. bursts' \in [Chan -> Nat]
    <3>1. bursts' = [bursts EXCEPT ![c] = @ - 1] /\ bursts[c] # 0
      BY <1>10 DEF StartBurst
    <3>2. bursts \in [Chan -> Nat]
      OBVIOUS
    <3> HIDE DEF HwTypeOK
    <3> QED BY <3>1, <3>2
  <2> QED BY <1>10, <2>1, <2>2 DEF StartBurst, fsmVars
<1>11. CASE WriteTs(c)
  <2>1. /\ mem' \in [Addr -> Stamp] /\ fifo' \in [Chan -> Seq(Word)]
    BY <1>11, <1>h, <1>t DEF WriteTs
  <2>2. wr' \in [Chan -> Nat] /\ acks' \in [Chan -> Nat]
    <3>1. /\ wr' = [wr EXCEPT ![c] = wr[c] + 1]
          /\ acks' = [acks EXCEPT ![c] = acks[c] + 1]
      BY <1>11 DEF WriteTs
    <3>2. wr \in [Chan -> Nat] /\ acks \in [Chan -> Nat]
      OBVIOUS
    <3> HIDE DEF HwTypeOK
    <3>3. wr' \in [Chan -> Nat]
      BY <3>1, <3>2
    <3>4. acks' \in [Chan -> Nat]
      BY <3>1, <3>2
    <3> QED BY <3>3, <3>4
  <2> QED BY <1>11, <2>1, <2>2 DEF WriteTs, fsmVars
<1>12. CASE EndBurst(c)
  BY <1>12 DEF EndBurst, fsmVars
<1>13. CASE Acked(c)
  BY <1>13 DEF Acked, fsmVars
<1>14. CASE PopLast(c)
  <2>1. /\ fifo' \in [Chan -> Seq(Word)] /\ done' \in [Chan -> BOOLEAN]
    BY <1>14, <1>h DEF PopLast, DoneAtMarker
  <2>2. /\ mem' \in [Addr -> Stamp] /\ wr' \in [Chan -> Nat]
        /\ acks' \in [Chan -> Nat]
    <3>1. CASE UNCHANGED <<mem, acks, wr>>
      BY <3>1
    <3>2. CASE /\ mem'  = [mem EXCEPT ![wr[c]] = Junk]
               /\ wr'   = [wr EXCEPT ![c] = @ + 1]
               /\ acks' = [acks EXCEPT ![c] = @ + 1]
      <4>1. mem' \in [Addr -> Stamp]
        BY <3>2, JunkStamp
      <4>2. wr' \in [Chan -> Nat]
        BY <3>2
      <4>3. acks' \in [Chan -> Nat]
        BY <3>2
      <4> QED BY <4>1, <4>2, <4>3
    <3> QED BY <1>14, <3>1, <3>2 DEF PopLast
  <2> QED BY <1>14, <2>1, <2>2 DEF PopLast, fsmVars
<1>15. CASE DdrAck(c)
  <2>1. acks' \in [Chan -> Nat]
    BY <1>15 DEF DdrAck
  <2> QED BY <1>15, <2>1 DEF DdrAck, fsmVars
<1> QED BY <1>1, <1>2, <1>3, <1>4, <1>5, <1>6, <1>7, <1>8, <1>9, <1>10, <1>11,
           <1>12, <1>13, <1>14, <1>15 DEF HwStep

\* The registers the driver writes keep their types.
LEMMA RegisterType ==
  ASSUME HwTypeOK, DriverTypeOK,
         \/ UNCHANGED hwVars
         \/ SwitchWrite \/ SwitchClear \/ SwitchBase \/ SwitchSize
         \/ SetTimeoutWrite
         \/ \E c \in Chan : EnableInput(c) \/ DisableInput(c)
  PROVE  HwTypeOK'
<1> USE DEF HwTypeOK, fsmVars, dmaVars
<1>0. ch \in Chan /\ user.chan \in Chan /\ active \in [Chan -> Buf]
  BY DEF DriverTypeOK
<1>1. CASE UNCHANGED hwVars
  BY <1>1 DEF hwVars
<1>2. CASE SwitchWrite
  <2>1. done' \in [Chan -> BOOLEAN]
    BY <1>0, <1>2, Zenon DEF SwitchWrite, ClearDone
  <2>2. latched' \in [Chan -> BOOLEAN]
    BY <1>0, <1>2 DEF SwitchWrite
  <2> QED BY <1>2, <2>1, <2>2 DEF SwitchWrite
<1>3. CASE SwitchClear
  <2>1. done' \in [Chan -> BOOLEAN]
    BY <1>0, <1>3, Zenon DEF SwitchClear, ClearDone
  <2> QED BY <1>3, <2>1 DEF SwitchClear
<1>4. CASE SwitchBase
  <2>1. NextBase \in Nat
    BY <1>0, BufAddrNat DEF NextBase
  <2>2. nxt' \in [Chan -> [base : Nat, valid : BOOLEAN]]
    <3>1. nxt' = [nxt EXCEPT ![ch].base = NextBase]
      BY <1>4 DEF SwitchBase
    <3>2. nxt \in [Chan -> [base : Nat, valid : BOOLEAN]]
      OBVIOUS
    <3> HIDE DEF HwTypeOK
    <3> QED BY <1>0, <2>1, <3>1, <3>2, FieldSet
  <2> QED BY <1>4, <2>2 DEF SwitchBase
<1>5. CASE SwitchSize
  <2>1. nxt' \in [Chan -> [base : Nat, valid : BOOLEAN]]
    <3>1. nxt' = [nxt EXCEPT ![ch].valid = TRUE]
      BY <1>5 DEF SwitchSize
    <3>2. nxt \in [Chan -> [base : Nat, valid : BOOLEAN]]
      OBVIOUS
    <3> HIDE DEF HwTypeOK
    <3> QED BY <1>0, <3>1, <3>2, FieldSet
  <2> QED BY <1>5, <2>1 DEF SwitchSize
<1>6. CASE SetTimeoutWrite
  <2>1. done' \in [Chan -> BOOLEAN]
    BY <1>0, <1>6, Zenon DEF SetTimeoutWrite, ClearDone
  <2> QED BY <1>6, <2>1 DEF SetTimeoutWrite
<1>7. ASSUME NEW c \in Chan, EnableInput(c)
      PROVE  HwTypeOK'
  BY <1>7 DEF EnableInput
<1>8. ASSUME NEW c \in Chan, DisableInput(c)
      PROVE  HwTypeOK'
  <2>1. enable' \in [Chan -> BOOLEAN] /\ expired' \in [Chan -> BOOLEAN]
    BY <1>8 DEF DisableInput
  <2> QED BY <1>8, <2>1 DEF DisableInput
<1> QED BY <1>1, <1>2, <1>3, <1>4, <1>5, <1>6, <1>7, <1>8

-----------------------------------------------------------------------------
(* The driver *)

\* The initial state.
LEMMA InitIInv == Init => IInv
<1> SUFFICES ASSUME Init PROVE IInv
  OBVIOUS
<1>0. \A c \in Chan : \A b \in Buf : BufAddr(c, b) \in Nat
  BY BufAddrNat
<1>1. HwTypeOK
  BY <1>0, JunkStamp, SizeAssumption
     DEF Init, HwInit, HwTypeOK, Buf
<1>2. DriverTypeOK
  BY JunkStamp, BoundAssumption DEF Init, DriverTypeOK, NoUser, Buf, IsBlock
<1>3. CycleInv /\ ChanInv
  BY DEF Init, CycleInv, ChanInv, MaskIsSaved, PendingIsExact, InCycle,
         OneTransferPerInput
<1> QED BY <1>1, <1>2, <1>3 DEF IInv, TypeOK

\* A step of the gateware touches nothing of the driver.
LEMMA HwKeepsIInv == ASSUME IInv, NEW c \in Chan, HwStep(c), DriverUnchanged
                     PROVE  IInv'
<1>1. HwTypeOK'
  BY HwStepType DEF IInv, TypeOK
<1>2. DriverTypeOK' /\ CycleInv' /\ ChanInv'
  BY DEF IInv, TypeOK, DriverTypeOK, CycleInv, ChanInv, MaskIsSaved, InCycle,
         PendingIsExact, OneTransferPerInput, DriverUnchanged, irqVars,
         workVars, zioVars, dmaEngVars, userVars
<1> QED BY <1>1, <1>2 DEF IInv, TypeOK

\* The interrupt handler: it runs outside a cycle, and opens one.
LEMMA HandlerKeepsIInv == ASSUME IInv, Handler PROVE IInv'
<1> USE DEF IInv, TypeOK, workVars, zioVars, dmaEngVars, userVars
<1>1. CASE IrqEntry
  <2>1. HwTypeOK'
    BY <1>1, RegisterType DEF IrqEntry
  <2>2. DriverTypeOK'
    BY <1>1 DEF IrqEntry, DriverTypeOK, Raised
  <2>3. CycleInv'
    BY <1>1 DEF IrqEntry, CycleInv, MaskIsSaved, InCycle, PendingIsExact, Raised
  <2>4. ChanInv'
    BY <1>1 DEF IrqEntry, ChanInv, OneTransferPerInput
  <2> QED BY <2>1, <2>2, <2>3, <2>4
<1>2. CASE IrqHandled
  <2>1. HwTypeOK'
    BY <1>2, RegisterType DEF IrqHandled
  <2>2. DriverTypeOK'
    BY <1>2 DEF IrqHandled, DriverTypeOK, IrqDisableSave
  <2>3. CycleInv'
    <3>1. unmapped = 0 /\ ~queued /\ wpc = "idle" /\ ~issued /\ imr = Chan
      <4>1. unmapped \in Nat /\ hpc = "check"
        BY <1>2 DEF IrqHandled, DriverTypeOK
      <4> QED BY <4>1 DEF CycleInv, MaskIsSaved, InCycle
    <3> QED BY <1>2, <3>1 DEF IrqHandled, CycleInv, MaskIsSaved, InCycle,
                   PendingIsExact, IrqDisableSave
  <2>4. ChanInv'
    BY <1>2 DEF IrqHandled, ChanInv, OneTransferPerInput
  <2> QED BY <2>1, <2>2, <2>3, <2>4
<1>3. CASE IrqNone
  <2>1. HwTypeOK'
    BY <1>3, RegisterType DEF IrqNone
  <2>2. DriverTypeOK'
    BY <1>3 DEF IrqNone, DriverTypeOK
  <2>3. CycleInv'
    BY <1>3 DEF IrqNone, CycleInv, MaskIsSaved, InCycle, PendingIsExact
  <2>4. ChanInv'
    BY <1>3 DEF IrqNone, ChanInv, OneTransferPerInput
  <2> QED BY <2>1, <2>2, <2>3, <2>4
<1> QED BY <1>1, <1>2, <1>3 DEF Handler

\* The accesses of ft_buffer_switch to the device leave the cycle's
\* bookkeeping alone.
LEMMA SwitchKeepsIInv ==
  ASSUME IInv,
         \/ SwitchRead \/ SwitchWrite \/ SwitchSpin \/ SwitchClear
         \/ SwitchBase \/ SwitchSize
  PROVE  IInv'
<1> USE DEF IInv, TypeOK, irqVars, zioVars, dmaEngVars, userVars, WorkGoto
<1>1. CASE SwitchRead
  <2>1. HwTypeOK'
    BY <1>1, RegisterType DEF SwitchRead
  <2>2. DriverTypeOK'
    <3>0. ch \in Chan /\ done \in [Chan -> BOOLEAN]
      BY DEF DriverTypeOK, HwTypeOK
    <3>1. csr' \in BOOLEAN
      BY <1>1, <3>0, Zenon DEF SwitchRead
    <3>2. wpc' = "write" /\ UNCHANGED <<irqVars, todo, ch, transfer,
            nTransfers, active, zioVars, dmaEngVars, userVars, fails>>
      BY <1>1 DEF SwitchRead
    <3> QED BY <3>1, <3>2 DEF DriverTypeOK
  <2>3. CycleInv'
    BY <1>1 DEF SwitchRead, CycleInv, MaskIsSaved, InCycle, PendingIsExact
  <2>4. ChanInv'
    BY <1>1 DEF SwitchRead, ChanInv, OneTransferPerInput
  <2> QED BY <2>1, <2>2, <2>3, <2>4
<1>2. CASE SwitchWrite
  <2>1. HwTypeOK'
    BY <1>2, RegisterType
  <2>2. DriverTypeOK'
    BY <1>2 DEF SwitchWrite, DriverTypeOK
  <2>3. CycleInv'
    BY <1>2 DEF SwitchWrite, CycleInv, MaskIsSaved, InCycle, PendingIsExact
  <2>4. ChanInv'
    BY <1>2 DEF SwitchWrite, ChanInv, OneTransferPerInput
  <2> QED BY <2>1, <2>2, <2>3, <2>4
<1>3. CASE SwitchSpin
  <2>1. HwTypeOK'
    BY <1>3, RegisterType DEF SwitchSpin
  <2>2. DriverTypeOK'
    BY <1>3 DEF SwitchSpin, DriverTypeOK
  <2>3. CycleInv'
    BY <1>3 DEF SwitchSpin, CycleInv, MaskIsSaved, InCycle, PendingIsExact
  <2>4. ChanInv'
    BY <1>3 DEF SwitchSpin, ChanInv, OneTransferPerInput
  <2> QED BY <2>1, <2>2, <2>3, <2>4
<1>4. CASE SwitchClear
  <2>1. HwTypeOK'
    BY <1>4, RegisterType
  <2>2. DriverTypeOK'
    BY <1>4 DEF SwitchClear, DriverTypeOK
  <2>3. CycleInv'
    BY <1>4 DEF SwitchClear, CycleInv, MaskIsSaved, InCycle, PendingIsExact
  <2>4. ChanInv'
    BY <1>4 DEF SwitchClear, ChanInv, OneTransferPerInput
  <2> QED BY <2>1, <2>2, <2>3, <2>4
<1>5. CASE SwitchBase
  <2>1. HwTypeOK'
    BY <1>5, RegisterType
  <2>2. DriverTypeOK'
    <3>1. ch \in Chan /\ active \in [Chan -> Buf]
      BY DEF DriverTypeOK
    <3>2. \A b \in Buf : OtherBuffer(b) \in Buf
      BY DEF OtherBuffer, Buf
    <3>3. /\ transfer' = active[ch]
          /\ active' = [active EXCEPT ![ch] = OtherBuffer(@)]
          /\ wpc' = "size"
          /\ UNCHANGED <<irqVars, todo, ch, csr, nTransfers, zioVars,
                         dmaEngVars, userVars, fails>>
      BY <1>5 DEF SwitchBase, SwitchedAway
    <3>4. transfer' \in Buf
      BY <3>1, <3>3
    <3>5. active' \in [Chan -> Buf]
      BY <3>1, <3>2, <3>3
    <3> HIDE DEF WorkGoto
    <3> QED BY <3>3, <3>4, <3>5 DEF DriverTypeOK
  <2>3. CycleInv'
    BY <1>5 DEF SwitchBase, CycleInv, MaskIsSaved, InCycle, PendingIsExact
  <2>4. ChanInv'
    BY <1>5 DEF SwitchBase, ChanInv, OneTransferPerInput
  <2> QED BY <2>1, <2>2, <2>3, <2>4
<1>6. CASE SwitchSize
  <2>1. HwTypeOK'
    BY <1>6, RegisterType
  <2>2. DriverTypeOK'
    BY <1>6 DEF SwitchSize, DriverTypeOK
  <2>3. CycleInv'
    BY <1>6 DEF SwitchSize, CycleInv, MaskIsSaved, InCycle, PendingIsExact
  <2>4. ChanInv'
    BY <1>6 DEF SwitchSize, ChanInv, OneTransferPerInput
  <2> QED BY <2>1, <2>2, <2>3, <2>4
<1> QED BY <1>1, <1>2, <1>3, <1>4, <1>5, <1>6

\* The other steps of the work: the first and the last of a cycle, and the
\* ones that visit an input.
LEMMA WorkKeepsIInv ==
  ASSUME IInv,
         \/ WorkStart \/ WorkNext \/ ReadCount \/ ArmTrigger \/ Submit
         \/ SubmitFails \/ MapFails \/ WorkIssue \/ WorkNothing
  PROVE  IInv'
<1> USE DEF IInv, TypeOK, userVars, WorkGoto
<1>0. HwTypeOK'
  BY RegisterType DEF WorkStart, WorkNext, ReadCount, ArmTrigger, Submit,
                      SubmitFails, MapFails, WorkIssue, WorkNothing
<1>1. CASE WorkStart
  <2>2. DriverTypeOK'
    BY <1>1 DEF WorkStart, DriverTypeOK, zioVars, dmaEngVars
  <2>3. CycleInv'
    BY <1>1 DEF WorkStart, CycleInv, MaskIsSaved, InCycle, PendingIsExact,
                dmaEngVars
  <2>4. ChanInv'
    BY <1>1 DEF WorkStart, CycleInv, ChanInv, OneTransferPerInput, dmaEngVars
  <2> QED BY <1>0, <2>2, <2>3, <2>4
<1>2. CASE WorkNext
  <2>1. PICK c \in todo : ch' = c /\ todo' = todo \ {c}
    BY <1>2 DEF WorkNext
  <2>2. DriverTypeOK'
    BY <1>2, <2>1 DEF WorkNext, DriverTypeOK, irqVars, zioVars, dmaEngVars
  <2>3. CycleInv'
    BY <1>2 DEF WorkNext, CycleInv, MaskIsSaved, InCycle, PendingIsExact,
                irqVars, dmaEngVars
  <2>4. ChanInv'
    BY <1>2, <2>1 DEF WorkNext, ChanInv, OneTransferPerInput, dmaEngVars
  <2> QED BY <1>0, <2>2, <2>3, <2>4
<1>3. CASE ReadCount
  <2>1. fails' \in 0 .. MaxFails
    BY <1>3, BoundAssumption DEF ReadCount, ConfigFails, DriverTypeOK
  <2>2. DriverTypeOK'
    <3>1. nsamples' \in [Chan -> Nat]
      BY <1>3 DEF ReadCount, DriverTypeOK, HwTypeOK
    <3> QED BY <1>3, <2>1, <3>1
            DEF ReadCount, ConfigFails, DriverTypeOK, irqVars, dmaEngVars
  <2>3. CycleInv'
    BY <1>3 DEF ReadCount, ConfigFails, CycleInv, MaskIsSaved, InCycle,
                PendingIsExact, irqVars, dmaEngVars
  <2>4. ChanInv'
    BY <1>3 DEF ReadCount, ConfigFails, ChanInv, OneTransferPerInput,
                dmaEngVars
  <2> QED BY <1>0, <2>2, <2>3, <2>4
<1>4. CASE ArmTrigger
  <2>1. fails' \in 0 .. MaxFails
    BY <1>4, BoundAssumption DEF ArmTrigger, DriverTypeOK
  <2>2. \A c \in Chan : IsBlock(block'[c])
    <3>1. CASE UNCHANGED block
      BY <3>1 DEF DriverTypeOK
    <3>2. CASE block' = [block EXCEPT ![ch] =
                           {[i \in 1 .. nsamples[ch] |-> Junk]}]
      <4>1. PICK n \in Nat : n = nsamples[ch]
        BY DEF DriverTypeOK
      <4>2. [i \in 1 .. n |-> Junk] \in Seq(Stamp)
        BY JunkStamp
      <4>3. Len([i \in 1 .. n |-> Junk]) \in Nat
        BY <4>2
      <4>4. block' = [block EXCEPT ![ch] = {[i \in 1 .. n |-> Junk]}]
        BY <3>2, <4>1
      <4> DEFINE d == [i \in 1 .. n |-> Junk]
      <4>5. block' = [block EXCEPT ![ch] = {d}] /\ Len(d) \in Nat
        BY <4>3, <4>4
      <4> HIDE DEF d
      <4>6. \A c \in Chan : block'[c] = block[c] \/ block'[c] = {d}
        BY <4>5 DEF DriverTypeOK
      <4>7. IsBlock({d})
        BY <4>5 DEF IsBlock
      <4> QED BY <4>6, <4>7 DEF DriverTypeOK
    <3> QED BY <1>4, <3>1, <3>2 DEF ArmTrigger
  <2>3. DriverTypeOK'
    <3>1. block' = [c \in Chan |-> block'[c]] /\ armed' \in [Chan -> BOOLEAN]
      BY <1>4 DEF ArmTrigger, DriverTypeOK
    <3> QED BY <1>4, <2>1, <2>2, <3>1
            DEF ArmTrigger, DriverTypeOK, irqVars, dmaEngVars
  <2>4. CycleInv'
    BY <1>4 DEF ArmTrigger, CycleInv, MaskIsSaved, InCycle, PendingIsExact,
                irqVars, dmaEngVars
  <2>5. ChanInv'
    BY <1>4 DEF ArmTrigger, ChanInv, OneTransferPerInput, dmaEngVars
  <2> QED BY <1>0, <2>3, <2>4, <2>5
<1>5. CASE Submit
  <2>1. PICK data \in block[ch] :
          dmaq' = Append(dmaq, [chan |-> ch, src |-> BufAddr(ch, transfer),
                                len |-> Len(data), live |-> TRUE])
    BY <1>5 DEF Submit
  <2> DEFINE t == [chan |-> ch, src |-> BufAddr(ch, transfer),
                   len |-> Len(data), live |-> TRUE]
  <2>2. t \in Transfer
    <3>1. Len(data) \in Nat
      BY DEF DriverTypeOK, IsBlock
    <3>2. BufAddr(ch, transfer) \in Nat
      BY BufAddrNat DEF DriverTypeOK
    <3> QED BY <3>1, <3>2 DEF Transfer, DriverTypeOK
  <2>3. /\ dmaq \in Seq(Transfer) /\ dmaq' = Append(dmaq, t)
        /\ t.chan = ch
    BY <2>1 DEF DriverTypeOK
  <2>4. /\ dmaq' \in Seq(Transfer) /\ Len(dmaq') = Len(dmaq) + 1
        /\ DOMAIN dmaq' = 1 .. Len(dmaq) + 1
        /\ DOMAIN dmaq = 1 .. Len(dmaq)
        /\ \A i \in DOMAIN dmaq : dmaq'[i] = dmaq[i]
        /\ dmaq'[Len(dmaq) + 1] = t
        /\ Len(dmaq) \in Nat
    BY <2>2, <2>3
  <2> HIDE DEF t
  <2>5. DriverTypeOK'
    <3>1. /\ wpc' = "next" /\ nTransfers' = nTransfers + 1
          /\ UNCHANGED <<irqVars, todo, ch, csr, transfer, active, zioVars,
                         pendingDma, issued, tail, unmapped, userVars, fails>>
      BY <1>5 DEF Submit
    <3> QED BY <2>4, <3>1 DEF DriverTypeOK, irqVars, zioVars
  <2>6. CycleInv'
    <3>1. unmapped \in Nat
      BY DEF DriverTypeOK
    <3> QED BY <1>5, <2>4, <3>1 DEF Submit, CycleInv, MaskIsSaved, InCycle,
                   PendingIsExact, irqVars
  <2>7. ChanInv'
    BY <1>5, <2>3, <2>4 DEF Submit, ChanInv, OneTransferPerInput
  <2> QED BY <1>0, <2>5, <2>6, <2>7
<1>6. CASE SubmitFails
  <2>1. fails' \in 0 .. MaxFails
    BY <1>6, BoundAssumption DEF SubmitFails, ConfigFails, DriverTypeOK
  <2>2. DriverTypeOK'
    BY <1>6, <2>1 DEF SubmitFails, ConfigFails, DriverTypeOK, irqVars,
                      zioVars, dmaEngVars
  <2>3. CycleInv'
    BY <1>6 DEF SubmitFails, ConfigFails, CycleInv, MaskIsSaved, InCycle,
                PendingIsExact, irqVars, dmaEngVars
  <2>4. ChanInv'
    BY <1>6 DEF SubmitFails, ConfigFails, ChanInv, OneTransferPerInput,
                dmaEngVars
  <2> QED BY <1>0, <2>2, <2>3, <2>4
<1>7. CASE MapFails
  <2>1. /\ fails' \in 0 .. MaxFails /\ nTransfers \in Nat /\ unmapped \in Nat
        /\ nTransfers' = nTransfers + 1 /\ unmapped' = unmapped + 1
        /\ wpc = "submit" /\ wpc' = "next"
    BY <1>7, BoundAssumption DEF MapFails, ConfigFails, DriverTypeOK
  <2>2. DriverTypeOK'
    BY <1>7, <2>1 DEF MapFails, DriverTypeOK, irqVars, zioVars
  <2>3. CycleInv'
    <3>1. Len(dmaq) \in Nat
      BY DEF DriverTypeOK
    <3> QED BY <1>7, <2>1, <3>1 DEF MapFails, CycleInv, MaskIsSaved, InCycle,
                   PendingIsExact, irqVars
  <2>4. ChanInv'
    BY <1>7 DEF MapFails, ConfigFails, ChanInv, OneTransferPerInput
  <2> QED BY <1>0, <2>2, <2>3, <2>4
<1>8. CASE WorkIssue
  <2>1. /\ Len(dmaq) \in Nat /\ unmapped \in Nat
        /\ nTransfers = Len(dmaq) + unmapped /\ nTransfers > 0
        /\ (dmaq = <<>>) <=> (Len(dmaq) = 0)
    BY <1>8 DEF WorkIssue, CycleInv, DriverTypeOK
  <2>2. DriverTypeOK'
    BY <1>8 DEF WorkIssue, PendingTransfers, DriverTypeOK, irqVars, zioVars
  <2>3. CycleInv'
    <3>1. dmaq # <<>> \/ unmapped > 0
      BY <2>1
    <3>2. wpc = "next" /\ ~queued /\ imr = {} /\ irqImr = Chan /\ hpc = "idle"
      BY <1>8 DEF WorkIssue, CycleInv, MaskIsSaved, InCycle
    <3>3. /\ wpc' = "idle" /\ pendingDma' = nTransfers /\ issued' = (dmaq # <<>>)
          /\ UNCHANGED <<irqVars, dmaq, unmapped>>
      BY <1>8 DEF WorkIssue, PendingTransfers
    <3> QED BY <2>1, <3>1, <3>2, <3>3 DEF CycleInv, MaskIsSaved, InCycle,
                   PendingIsExact, irqVars
  <2>4. ChanInv'
    BY <1>8 DEF WorkIssue, ChanInv, OneTransferPerInput
  <2> QED BY <1>0, <2>2, <2>3, <2>4
<1>9. CASE WorkNothing
  <2>2. DriverTypeOK'
    BY <1>9 DEF WorkNothing, DriverTypeOK, IrqEnableRestore, zioVars,
                dmaEngVars
  <2>3. CycleInv'
    <3>1. /\ Len(dmaq) \in Nat /\ unmapped \in Nat /\ pendingDma = 0
          /\ Len(dmaq) + unmapped = 0
          /\ (dmaq = <<>>) <=> (Len(dmaq) = 0)
      BY <1>9 DEF WorkNothing, CycleInv, DriverTypeOK, PendingIsExact
    <3>2. dmaq = <<>> /\ unmapped = 0
      BY <3>1
    <3> QED BY <1>9, <3>1, <3>2 DEF WorkNothing, IrqEnableRestore, CycleInv,
                   MaskIsSaved, InCycle, PendingIsExact, dmaEngVars
  <2>4. ChanInv'
    BY <1>9 DEF WorkNothing, ChanInv, OneTransferPerInput, dmaEngVars
  <2> QED BY <1>0, <2>2, <2>3, <2>4
<1> QED BY <1>1, <1>2, <1>3, <1>4, <1>5, <1>6, <1>7, <1>8, <1>9

\* The completion of a transfer, and the delivery of its block.
LEMMA EngineKeepsIInv == ASSUME IInv, Engine PROVE IInv'
<1> USE DEF IInv, TypeOK, userVars, workVars
<1>1. CASE DmaComplete
  <2> DEFINE t == Head(dmaq)
  <2>0. HwTypeOK'
    BY <1>1, RegisterType DEF DmaComplete
  <2>1. /\ dmaq \in Seq(Transfer) /\ dmaq # <<>> /\ dmaq' = Tail(dmaq)
        /\ t \in Transfer
    BY <1>1 DEF DmaComplete, DriverTypeOK
  <2>2. /\ Len(dmaq) \in Nat /\ Len(dmaq) > 0 /\ dmaq' \in Seq(Transfer)
        /\ Len(dmaq') = Len(dmaq) - 1
        /\ DOMAIN dmaq = 1 .. Len(dmaq)
        /\ DOMAIN dmaq' = 1 .. Len(dmaq) - 1
        /\ \A i \in DOMAIN dmaq' : dmaq'[i] = dmaq[i + 1]
        /\ dmaq' = <<>> <=> Len(dmaq) = 1
    BY <2>1, TailFacts, Zenon
  <2>3. t.chan \in Chan /\ t.len \in Nat
    BY <2>1 DEF Transfer
  <2>4. IsBlock({Fetch(t)})
    <3>1. DOMAIN Fetch(t) = 1 .. t.len
      BY DEF Fetch
    <3>2. Len(Fetch(t)) = t.len
      BY <2>3, <3>1 DEF Fetch
    <3> QED BY <2>3, <3>2 DEF IsBlock
  <2>5. /\ block' = [block EXCEPT ![t.chan] =
                       IF t.live THEN {Fetch(t)} ELSE @]
        /\ tail' = {t.chan}
    BY <1>1 DEF DmaComplete
  <2> HIDE DEF t
  <2>6. /\ block' = [c \in Chan |-> block'[c]]
        /\ \A c \in Chan : IsBlock(block'[c])
    BY <2>3, <2>4, <2>5 DEF DriverTypeOK
  <2>7. /\ wpc = "idle" /\ ~queued /\ hpc = "idle" /\ issued
        /\ pendingDma = Len(dmaq) + unmapped /\ imr = {} /\ irqImr = Chan
        /\ unmapped \in Nat
    BY <1>1, <2>2 DEF DmaComplete, CycleInv, MaskIsSaved, InCycle,
                      PendingIsExact, DriverTypeOK
  <2>8. /\ pendingDma' = pendingDma - 1 /\ issued' = (Len(dmaq) > 1)
        /\ UNCHANGED <<hpc, hstat, chanMask, queued, workVars, nsamples,
                       armed, unmapped, userVars, fails>>
        /\ pendingDma - 1 = 0 => imr' = Chan /\ irqImr' = {}
        /\ pendingDma - 1 # 0 => imr' = {} /\ irqImr' = Chan
    BY <1>1, <2>7 DEF DmaComplete, LastTransfer, IrqEnableRestore
  <2>9. DriverTypeOK'
    <3>1. pendingDma' \in Nat
      BY <2>2, <2>7, <2>8
    <3>2. imr' \in SUBSET Chan /\ irqImr' \in SUBSET Chan
      BY <2>8
    <3>3. tail' \in SUBSET Chan /\ issued' \in BOOLEAN
      BY <2>3, <2>5, <2>8
    <3>4. /\ dmaq' \in Seq(Transfer)
          /\ UNCHANGED <<hpc, hstat, chanMask, queued, wpc, todo, ch, csr,
                         transfer, nTransfers, active, nsamples, armed, unmapped,
                         user, closing, sets, toggles, fails>>
      BY <2>2, <2>8
    <3> QED BY <2>6, <3>1, <3>2, <3>3, <3>4 DEF DriverTypeOK
  <2>10. CycleInv'
    <3> HIDE DEF IInv, TypeOK
    <3>1. PICK n, k \in Nat : /\ n = Len(dmaq) /\ n > 0 /\ k = unmapped
                              /\ pendingDma = n + k /\ Len(dmaq') = n - 1
      BY <2>2, <2>7
    <3>2. /\ wpc' = "idle" /\ ~queued' /\ hpc' = "idle" /\ unmapped' = k
          /\ pendingDma' = n + k - 1 /\ issued' = (n > 1)
      BY <2>7, <2>8, <3>1
    <3>3. /\ n + k = 1 => imr' = Chan /\ irqImr' = {}
          /\ n + k # 1 => imr' = {} /\ irqImr' = Chan
      <4>1. pendingDma - 1 = 0 <=> n + k = 1
        BY <3>1
      <4> QED BY <2>8, <4>1, Zenon
    <3>4. n + k = 1 <=> ~(n > 1 \/ k > 0)
      BY <3>1
    <3>5. PendingIsExact'
      BY <3>1, <3>2 DEF PendingIsExact
    <3>6. MaskIsSaved'
      BY <3>2, <3>3, <3>4, Zenon DEF MaskIsSaved, InCycle
    <3>7. dmaq' = <<>> <=> n = 1
      BY <2>2, <3>1, Zenon
    <3>8. issued' => dmaq' # <<>>
      <4>1. n > 1 => n # 1
        OBVIOUS
      <4> QED BY <3>2, <3>7, <4>1
    <3>9. ~issued' => dmaq' = <<>>
      <4>1. ~(n > 1) => n = 1
        BY <3>1
      <4> QED BY <3>2, <3>7, <4>1
    <3> QED BY <3>2, <3>5, <3>6, <3>8, <3>9 DEF CycleInv
  <2>11. ChanInv'
    <3>1. wpc' = "idle"
      BY <2>7, <2>8
    <3>2. OneTransferPerInput'
      <4>1. OneTransferPerInput
        BY DEF ChanInv
      <4> HIDE DEF IInv, TypeOK, userVars, workVars
      <4>2. SUFFICES ASSUME NEW i \in DOMAIN dmaq', NEW j \in DOMAIN dmaq',
                            dmaq'[i].chan = dmaq'[j].chan
                     PROVE  i = j
        BY DEF OneTransferPerInput
      <4>3. /\ i \in Int /\ j \in Int
            /\ i + 1 \in DOMAIN dmaq /\ j + 1 \in DOMAIN dmaq
        BY <2>2
      <4>4. dmaq[i + 1].chan = dmaq[j + 1].chan
        BY <2>2, <4>2, Zenon
      <4>5. i + 1 = j + 1
        BY <4>1, <4>3, <4>4, Zenon DEF OneTransferPerInput
      <4> QED BY <4>3, <4>5
    <3> QED BY <3>1, <3>2 DEF ChanInv
  <2> QED BY <2>0, <2>9, <2>10, <2>11
<1>2. ASSUME NEW c \in Chan, DataDone(c)
      PROVE  IInv'
  <2>0. HwTypeOK'
    BY <1>2, RegisterType DEF DataDone
  <2>1. /\ dmaq' = Orphan(c)
        /\ Orphan(c) \in Seq(Transfer) /\ Len(Orphan(c)) = Len(dmaq)
        /\ DOMAIN Orphan(c) = DOMAIN dmaq
        /\ \A i \in DOMAIN dmaq : Orphan(c)[i].chan = dmaq[i].chan
    BY <1>2, OrphanLemma DEF DataDone, DriverTypeOK
  <2>2. /\ dmaq' \in Seq(Transfer) /\ Len(dmaq') = Len(dmaq)
        /\ DOMAIN dmaq' = DOMAIN dmaq
        /\ \A i \in DOMAIN dmaq : dmaq'[i].chan = dmaq[i].chan
        /\ dmaq' = <<>> <=> dmaq = <<>>
    BY <2>1 DEF DriverTypeOK
  <2>3. /\ tail' = tail \ {c}
        /\ armed' = [armed EXCEPT ![c] = FALSE]
        /\ block' = [block EXCEPT ![c] = {}]
        /\ UNCHANGED <<irqVars, workVars, nsamples, pendingDma, issued,
                       unmapped, userVars, fails>>
    BY <1>2 DEF DataDone
  <2>4. DriverTypeOK'
    <3>1. armed' \in [Chan -> BOOLEAN] /\ tail' \in SUBSET Chan
      BY <2>3 DEF DriverTypeOK
    <3>2. /\ block' = [d \in Chan |-> block'[d]]
          /\ \A d \in Chan : IsBlock(block'[d])
      BY <2>3 DEF DriverTypeOK, IsBlock
    <3>3. UNCHANGED <<imr, irqImr, hpc, hstat, chanMask, queued, wpc, todo,
                      ch, csr, transfer, nTransfers, active, nsamples,
                      pendingDma, issued, unmapped, user, closing, sets, toggles,
                      fails>>
      BY <2>3 DEF irqVars
    <3> QED BY <2>2, <3>1, <3>2, <3>3 DEF DriverTypeOK
  <2>5. CycleInv'
    BY <2>2, <2>3 DEF CycleInv, MaskIsSaved, InCycle, PendingIsExact, irqVars
  <2>6. ChanInv'
    BY <2>2, <2>3 DEF ChanInv, OneTransferPerInput
  <2> QED BY <2>0, <2>4, <2>5, <2>6
<1> QED BY <1>1, <1>2 DEF Engine

\* User requests: only the disabling of an input reaches the queue of the
\* engine, and there it leaves every transfer in its place.
LEMMA UserKeepsIInv == ASSUME IInv, User PROVE IInv'
<1> USE DEF IInv, TypeOK, irqVars, workVars, dmaEngVars
<1>1. ASSUME NEW c \in Chan, EnableInput(c)
      PROVE  IInv'
  <2>0. HwTypeOK'
    BY <1>1, RegisterType
  <2>1. DriverTypeOK'
    <3>1. toggles' = toggles + 1 /\ toggles < MaxToggles
      BY <1>1 DEF EnableInput
    <3>2. toggles' \in 0 .. MaxToggles
      BY <3>1, BoundAssumption DEF DriverTypeOK
    <3>3. UNCHANGED <<imr, irqImr, hpc, hstat, chanMask, queued, wpc, todo,
                      ch, csr, transfer, nTransfers, active, nsamples, armed,
                      block, dmaq, pendingDma, issued, tail, unmapped, user,
                      closing, sets, fails>>
      BY <1>1 DEF EnableInput, zioVars
    <3> QED BY <3>2, <3>3 DEF DriverTypeOK
  <2>2. CycleInv'
    BY <1>1 DEF EnableInput, CycleInv, MaskIsSaved, InCycle, PendingIsExact
  <2>3. ChanInv'
    BY <1>1 DEF EnableInput, ChanInv, OneTransferPerInput
  <2> QED BY <2>0, <2>1, <2>2, <2>3
<1>2. ASSUME NEW c \in Chan, DisableInput(c)
      PROVE  IInv'
  <2>0. HwTypeOK'
    BY <1>2, RegisterType
  <2>1. DriverTypeOK'
    <3>1. toggles' = toggles + 1 /\ toggles < MaxToggles
      BY <1>2 DEF DisableInput
    <3>2. toggles' \in 0 .. MaxToggles
      BY <3>1, BoundAssumption DEF DriverTypeOK
    <3>3. closing' \in SUBSET Chan
      BY <1>2 DEF DisableInput, DriverTypeOK
    <3>4. UNCHANGED <<imr, irqImr, hpc, hstat, chanMask, queued, wpc, todo,
                      ch, csr, transfer, nTransfers, active, nsamples, armed,
                      block, dmaq, pendingDma, issued, tail, unmapped, user,
                      sets, fails>>
      BY <1>2 DEF DisableInput, zioVars
    <3> QED BY <3>2, <3>3, <3>4 DEF DriverTypeOK
  <2>2. CycleInv'
    BY <1>2 DEF DisableInput, CycleInv, MaskIsSaved, InCycle, PendingIsExact
  <2>3. ChanInv'
    BY <1>2 DEF DisableInput, ChanInv, OneTransferPerInput
  <2> QED BY <2>0, <2>1, <2>2, <2>3
<1>5. ASSUME NEW c \in Chan, AbortDisable(c)
      PROVE  IInv'
  <2>0. HwTypeOK'
    BY <1>5, RegisterType DEF AbortDisable
  <2>1. /\ dmaq' = Orphan(c)
        /\ Orphan(c) \in Seq(Transfer) /\ Len(Orphan(c)) = Len(dmaq)
        /\ DOMAIN Orphan(c) = DOMAIN dmaq
        /\ \A i \in DOMAIN dmaq : Orphan(c)[i].chan = dmaq[i].chan
    BY <1>5, OrphanLemma DEF AbortDisable, DriverTypeOK
  <2>2. /\ dmaq' \in Seq(Transfer) /\ Len(dmaq') = Len(dmaq)
        /\ DOMAIN dmaq' = DOMAIN dmaq
        /\ \A i \in DOMAIN dmaq : dmaq'[i].chan = dmaq[i].chan
        /\ dmaq' = <<>> <=> dmaq = <<>>
    BY <2>1 DEF DriverTypeOK
  <2>3. /\ armed' = [armed EXCEPT ![c] = FALSE]
        /\ block' = [block EXCEPT ![c] = {}]
        /\ closing' = closing \ {c}
        /\ UNCHANGED <<irqVars, workVars, nsamples, pendingDma, issued, tail,
                       unmapped, user, sets, toggles, fails>>
    BY <1>5 DEF AbortDisable
  <2>4. DriverTypeOK'
    <3>1. closing' \in SUBSET Chan
      BY <2>3 DEF DriverTypeOK
    <3>2. armed' \in [Chan -> BOOLEAN]
      BY <2>3 DEF DriverTypeOK
    <3>3. /\ block' = [d \in Chan |-> block'[d]]
          /\ \A d \in Chan : IsBlock(block'[d])
      BY <2>3 DEF DriverTypeOK, IsBlock
    <3>4. UNCHANGED <<imr, irqImr, hpc, hstat, chanMask, queued, wpc, todo,
                      ch, csr, transfer, nTransfers, active, nsamples,
                      pendingDma, issued, tail, unmapped, user, sets, toggles,
                      fails>>
      BY <2>3
    <3> QED BY <2>2, <3>1, <3>2, <3>3, <3>4 DEF DriverTypeOK
  <2>5. CycleInv'
    BY <2>2, <2>3 DEF CycleInv, MaskIsSaved, InCycle, PendingIsExact
  <2>6. ChanInv'
    BY <2>2, <2>3 DEF ChanInv, OneTransferPerInput
  <2> QED BY <2>0, <2>4, <2>5, <2>6
<1>3. ASSUME NEW c \in Chan, SetTimeoutRead(c)
      PROVE  IInv'
  <2>0. HwTypeOK'
    BY <1>3, RegisterType DEF SetTimeoutRead
  <2>1. DriverTypeOK'
    <3>1. done[c] \in BOOLEAN
      BY DEF HwTypeOK
    <3>2. user' \in [pc : {"idle", "write"}, chan : Chan, csr : BOOLEAN]
      BY <1>3, <3>1, Zenon DEF SetTimeoutRead
    <3>3. /\ sets < MaxSets /\ sets' = sets + 1
          /\ UNCHANGED <<irqVars, workVars, zioVars, dmaEngVars, closing,
                         toggles, fails>>
      BY <1>3 DEF SetTimeoutRead
    <3>4. sets' \in 0 .. MaxSets
      BY <3>3, BoundAssumption DEF DriverTypeOK
    <3>5. UNCHANGED <<imr, irqImr, hpc, hstat, chanMask, queued, wpc, todo,
                      ch, csr, transfer, nTransfers, active, nsamples, armed,
                      block, dmaq, pendingDma, issued, tail, unmapped, closing,
                      toggles, fails>>
      BY <3>3 DEF zioVars
    <3> QED BY <3>2, <3>4, <3>5 DEF DriverTypeOK
  <2>2. CycleInv'
    BY <1>3 DEF SetTimeoutRead, CycleInv, MaskIsSaved, InCycle, PendingIsExact
  <2>3. ChanInv'
    BY <1>3 DEF SetTimeoutRead, ChanInv, OneTransferPerInput
  <2> QED BY <2>0, <2>1, <2>2, <2>3
<1>4. CASE SetTimeoutWrite
  <2>0. HwTypeOK'
    BY <1>4, RegisterType
  <2>1. DriverTypeOK'
    BY <1>4, JunkStamp DEF SetTimeoutWrite, DriverTypeOK, NoUser, zioVars
  <2>2. CycleInv'
    BY <1>4 DEF SetTimeoutWrite, CycleInv, MaskIsSaved, InCycle,
                PendingIsExact
  <2>3. ChanInv'
    BY <1>4 DEF SetTimeoutWrite, ChanInv, OneTransferPerInput
  <2> QED BY <2>0, <2>1, <2>2, <2>3
<1> QED BY <1>1, <1>2, <1>3, <1>4, <1>5 DEF User

-----------------------------------------------------------------------------
(* The theorems *)

\* The inductive invariant is one.
LEMMA Invariance == Spec => []IInv
<1>1. IInv /\ [Next]_vars => IInv'
  <2> SUFFICES ASSUME IInv, [Next]_vars PROVE IInv'
    OBVIOUS
  <2>1. ASSUME NEW c \in Chan, HwStep(c), DriverUnchanged
        PROVE  IInv'
    BY <2>1, HwKeepsIInv
  <2>2. CASE Handler
    BY <2>2, HandlerKeepsIInv
  <2>3. CASE Work
    BY <2>3, SwitchKeepsIInv, WorkKeepsIInv DEF Work
  <2>4. CASE Engine
    BY <2>4, EngineKeepsIInv
  <2>5. CASE User
    BY <2>5, UserKeepsIInv
  <2>6. CASE UNCHANGED vars
    <3>1. HwTypeOK'
      BY <2>6, RegisterType DEF vars, IInv, TypeOK
    <3>2. DriverTypeOK' /\ CycleInv' /\ ChanInv'
      BY <2>6 DEF vars, IInv, TypeOK, DriverTypeOK, CycleInv, ChanInv,
             MaskIsSaved, InCycle, PendingIsExact, OneTransferPerInput,
             irqVars, workVars, zioVars, dmaEngVars, userVars
    <3> QED BY <3>1, <3>2 DEF IInv, TypeOK
  <2> QED BY <2>1, <2>2, <2>3, <2>4, <2>5, <2>6 DEF Next
<1> QED BY InitIInv, <1>1, PTL DEF Spec

\* The registers and the driver's variables keep their types.
THEOREM TypeCorrect == Spec => []TypeOK
<1>1. IInv => TypeOK
  BY DEF IInv
<1> QED BY <1>1, Invariance, PTL

\* The interrupts are masked, and saved whole in irq_imr, exactly during a cycle,
\* whichever of ZIO's or the engine's calls fail, and from the first time on that
\* dma_map_sg returns 0.
THEOREM MaskNeverLost == Spec => []MaskIsSaved
<1>1. IInv => MaskIsSaved
  BY DEF IInv, CycleInv
<1> QED BY <1>1, Invariance, PTL

\* ft_dma_complete counts down from the number of transfers the engine has and of
\* those dma_map_sg has mapped nothing for.
THEOREM PendingCountsTransfers == Spec => []PendingIsExact
<1>1. IInv => PendingIsExact
  BY DEF IInv, CycleInv
<1> QED BY <1>1, Invariance, PTL

\* The handler never runs while a DMA transfer is pending.
THEOREM HandlerNeverMeetsDma == Spec => []NoIrqWhilePending
<1>1. IInv => NoIrqWhilePending
  BY DEF IInv, TypeOK, DriverTypeOK, CycleInv, MaskIsSaved, PendingIsExact,
         InCycle, NoIrqWhilePending
<1> QED BY <1>1, Invariance, PTL

\* No input's scatter list serves two transfers at a time.
THEOREM ScatterListUsedOnce == Spec => []OneTransferPerInput
<1>1. IInv => OneTransferPerInput
  BY DEF IInv, ChanInv
<1> QED BY <1>1, Invariance, PTL
=============================================================================
