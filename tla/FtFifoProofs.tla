---------------------------- MODULE FtFifoProofs ----------------------------
(***************************************************************************)
(* Proofs about the FIFO acquisition of FtFifo, for any number of inputs,  *)
(* any depth of the FIFO and any bounds.                                   *)
(***************************************************************************)
EXTENDS FtFifo, TLAPS

-----------------------------------------------------------------------------
(* Data *)

\* Zero is an input, and the word that is no timestamp is a stamp.
LEMMA JunkStamp == 0 \in Chan /\ Junk \in Stamp
  BY FifoAssumption, SMT DEF Chan, Junk, Stamp

\* The count in CSR is a natural number smaller than the FIFO, and a FIFO that
\* is not empty but reads zero is full.
LEMMA UsedWFacts == ASSUME NEW c \in Chan, fifo[c] \in Seq(Stamp)
                    PROVE  /\ UsedW(c) \in Nat
                           /\ UsedW(c) <= Len(fifo[c])
                           /\ Capacity = Depth /\ Full(c) => UsedW(c) = 0
<1>1. Len(fifo[c]) \in Nat /\ Depth \in Nat /\ Depth > 0
  BY FifoAssumption
<1>2. \A x, d \in Nat : d > 0 => x % d \in Nat /\ x % d <= x /\ d % d = 0
  BY Z3
<1> QED BY <1>1, <1>2 DEF UsedW, Full

\* What a read of the FIFO returns and leaves.
LEMMA ReadFacts == ASSUME NEW c \in Chan, fifo[c] \in Seq(Stamp)
                   PROVE  /\ Output(c) \in Stamp /\ Popped(c) \in Seq(Stamp)
                          /\ fifo[c] # <<>> =>
                               /\ Output(c) = fifo[c][1]
                               /\ Len(Popped(c)) = Len(fifo[c]) - 1
                               /\ \A k \in 1 .. Len(fifo[c]) - 1 :
                                     Popped(c)[k] = fifo[c][k + 1]
<1>1. CASE fifo[c] = <<>>
  BY <1>1, JunkStamp DEF Output, Popped
<1>2. CASE fifo[c] # <<>>
  <2>1. Output(c) = Head(fifo[c]) /\ Popped(c) = Tail(fifo[c])
    BY <1>2 DEF Output, Popped
  <2>2. Head(fifo[c]) \in Stamp /\ Tail(fifo[c]) \in Seq(Stamp)
    BY <1>2
  <2>3. /\ Head(fifo[c]) = fifo[c][1]
        /\ Len(Tail(fifo[c])) = Len(fifo[c]) - 1
        /\ \A k \in 1 .. Len(fifo[c]) - 1 : Tail(fifo[c])[k] = fifo[c][k + 1]
    BY <1>2
  <2> QED BY <2>1, <2>2, <2>3
<1> QED BY <1>1, <1>2

\* Appending a block.
LEMMA ConcatFacts == ASSUME NEW S, NEW a \in Seq(S), NEW b \in Seq(S)
                     PROVE  /\ Len(a \o b) = Len(a) + Len(b)
                            /\ \A k \in 1 .. Len(a) : (a \o b)[k] = a[k]
                            /\ \A k \in 1 .. Len(b) :
                                  (a \o b)[Len(a) + k] = b[k]
  OBVIOUS

\* The block ZIO hands over.
LEMMA BlockData == ASSUME NEW b, IsBlock(b), b # {}
                   PROVE  LET d == CHOOSE data \in b : TRUE
                          IN  d \in Seq(Stamp) /\ b = {d}
  BY DEF IsBlock

-----------------------------------------------------------------------------
(* Types *)

\* The initial state has the types of TypeOK.
LEMMA TypeInit == Init => TypeOK
<1> SUFFICES ASSUME Init PROVE TypeOK
  OBVIOUS
<1>1. FifoTypeOK
  BY FifoAssumption DEF Init, FifoInit, FifoTypeOK
<1>2. 0 \in Chan
  BY JunkStamp
<1> QED BY <1>1, <1>2, DriverAssumption DEF Init, TypeOK, IsBlock

\* The steps of the gateware keep the types.
LEMMA FifoStepType ==
  ASSUME TypeOK, NEW c \in Chan, FifoStep(c), DriverUnchanged
  PROVE  TypeOK'
<1>1. FifoTypeOK'
  <2>1. CASE Arrive(c)
    <3>0. /\ made[c] < MaxTs
          /\ fifo' = [fifo EXCEPT ![c] = Append(@, Ts(c, made[c] + 1))]
          /\ made' = [made EXCEPT ![c] = @ + 1]
          /\ UNCHANGED <<enable, irq>>
      BY <2>1 DEF Arrive
    <3>t. /\ fifo \in [Chan -> Seq(Stamp)] /\ made \in [Chan -> 0 .. MaxTs]
      BY DEF TypeOK, FifoTypeOK
    <3>1. made[c] + 1 \in 0 .. MaxTs
      BY <3>0, <3>t, FifoAssumption
    <3>2. Ts(c, made[c] + 1) \in Stamp
      BY <3>1 DEF Ts, Stamp
    <3>3. Append(fifo[c], Ts(c, made[c] + 1)) \in Seq(Stamp)
      BY <3>2, <3>t
    <3>4. fifo' \in [Chan -> Seq(Stamp)] /\ made' \in [Chan -> 0 .. MaxTs]
      BY <3>0, <3>1, <3>3, <3>t
    <3> QED BY <3>0, <3>4 DEF TypeOK, FifoTypeOK
  <2>2. CASE AssertIrq(c)
    BY <2>2 DEF AssertIrq, TypeOK, FifoTypeOK
  <2>3. CASE DropIrq(c)
    BY <2>3 DEF DropIrq, TypeOK, FifoTypeOK
  <2> QED BY <2>1, <2>2, <2>3 DEF FifoStep
<1> QED BY <1>1 DEF TypeOK, DriverUnchanged, handlerVars, zioVars, statVars,
                    userVars

\* The steps of the interrupt handler keep the types.
LEMMA HandlerType == ASSUME TypeOK, Handler PROVE TypeOK'
<1> USE DEF fifoVars, handlerVars, zioVars, statVars, userVars, Goto
<1>1. CASE Interrupt
  BY <1>1 DEF Interrupt, TypeOK, FifoTypeOK
<1>2. CASE ReadIsr
  <2>1. /\ hpc' \in {"idle", "scan"}
        /\ stat' = IrqLines /\ left' = IrqLines /\ redo' = Redo
        /\ UNCHANGED <<enable, fifo, made, irq, i, n, want, got, block, out,
                       received, transferred, upc, enables, disables, stale,
                       fails>>
    BY <1>2 DEF ReadIsr
  <2>2. IrqLines \in SUBSET Chan /\ Redo \in Int
    BY DriverAssumption DEF IrqLines
  <2> QED BY <2>1, <2>2 DEF TypeOK, FifoTypeOK
<1>3. ASSUME NEW c \in Chan, SkipEmpty(c) PROVE TypeOK'
  BY <1>3 DEF SkipEmpty, TypeOK, FifoTypeOK
<1>4. ASSUME NEW c \in Chan, ReadCsr(c) PROVE TypeOK'
  <2>1. UsedW(c) \in Nat
    BY UsedWFacts DEF TypeOK, FifoTypeOK
  <2> QED BY <1>4, <2>1 DEF ReadCsr, TypeOK, FifoTypeOK
<1>5. CASE Flush
  <2>1. /\ fifo' = [fifo EXCEPT ![i] = <<>>]
        /\ hpc' = "scan"
        /\ UNCHANGED <<enable, made, irq, stat, left, i, n, redo, want, got,
                       block, out, received, transferred, upc, enables,
                       disables, stale, fails>>
    BY <1>5 DEF Flush, ClearBus
  <2>2. fifo \in [Chan -> Seq(Stamp)] /\ <<>> \in Seq(Stamp)
    BY DEF TypeOK, FifoTypeOK
  <2>3. fifo' \in [Chan -> Seq(Stamp)]
    BY <2>1, <2>2
  <2> QED BY <2>1, <2>3 DEF TypeOK, FifoTypeOK
<1>6. CASE Arm
  <2>1. /\ received' \in [Chan -> Nat]
        /\ got' = 0 /\ want' \in Nat
        /\ fails' \in 0 .. MaxFails
    <3>1. /\ received' = [received EXCEPT ![i] = @ + n]
          /\ got' = 0 /\ want' \in {n, 0}
          /\ fails' = fails \/ (fails < MaxFails /\ fails' = fails + 1)
      BY <1>6 DEF Arm
    <3>2. /\ received \in [Chan -> Nat] /\ n \in Nat
          /\ fails \in 0 .. MaxFails
      BY DEF TypeOK
    <3>3. received' \in [Chan -> Nat]
      <4>1. received' = [c \in Chan |-> IF c = i THEN received[c] + n
                                       ELSE received[c]]
        BY <3>1, <3>2, Zenon
      <4> QED BY <4>1, <3>2
    <3>4. fails' \in 0 .. MaxFails
      BY <3>1, <3>2, DriverAssumption
    <3> QED BY <3>1, <3>2, <3>3, <3>4
  <2>2. /\ block' = [c \in Chan |-> block'[c]]
        /\ \A c \in Chan : block'[c] = block[c] \/ block'[c] = {<<>>}
    BY <1>6 DEF Arm, TypeOK
  <2>3. IsBlock({<<>>})
    BY DEF IsBlock
  <2>4. \A c \in Chan : IsBlock(block'[c])
    BY <2>2, <2>3 DEF TypeOK
  <2>5. /\ hpc' = "get"
        /\ UNCHANGED <<enable, fifo, made, irq, stat, left, i, n, redo, out,
                       transferred, upc, enables, disables, stale>>
    BY <1>6 DEF Arm
  <2> QED BY <2>1, <2>2, <2>4, <2>5 DEF TypeOK, FifoTypeOK
<1>7. CASE Get
  <2>1. i \in Chan /\ fifo[i] \in Seq(Stamp)
    BY DEF TypeOK, FifoTypeOK
  <2>2. Output(i) \in Stamp /\ Popped(i) \in Seq(Stamp)
    BY <2>1, ReadFacts
  <2>3. fifo' \in [Chan -> Seq(Stamp)] /\ got' \in Nat
    BY <1>7, <2>2 DEF Get, TypeOK, FifoTypeOK
  <2>4. /\ block' = [c \in Chan |-> block'[c]]
        /\ \A c \in Chan \ {i} : block'[c] = block[c]
        /\ block'[i] = {Append(data, Output(i)) : data \in block[i]}
    BY <1>7, <2>1 DEF Get, TypeOK
  <2>5. IsBlock(block'[i])
    <3>1. CASE block[i] = {}
      BY <3>1, <2>4 DEF IsBlock
    <3>2. CASE block[i] # {}
      <4>1. PICK d \in Seq(Stamp) : block[i] = {d}
        BY <3>2, <2>1 DEF TypeOK, IsBlock
      <4>2. block'[i] = {Append(d, Output(i))}
        BY <2>4, <4>1
      <4>3. Append(d, Output(i)) \in Seq(Stamp)
        BY <2>2
      <4> QED BY <4>2, <4>3 DEF IsBlock
    <3> QED BY <3>1, <3>2
  <2>6. \A c \in Chan : IsBlock(block'[c])
    BY <2>4, <2>5 DEF TypeOK
  <2> QED BY <1>7, <2>3, <2>4, <2>6 DEF Get, TypeOK, FifoTypeOK
<1>8. CASE DataDone
  <2>1. i \in Chan /\ IsBlock(block[i]) /\ out[i] \in Seq(Stamp)
    BY DEF TypeOK
  <2>2. out' \in [Chan -> Seq(Stamp)]
    <3>1. CASE block[i] = {}
      BY <1>8, <3>1, <2>1 DEF DataDone, TypeOK
    <3>2. CASE block[i] # {}
      <4> DEFINE d == CHOOSE data \in block[i] : TRUE
      <4>1. d \in Seq(Stamp)
        BY <3>2, <2>1, BlockData
      <4>2. out' = [out EXCEPT ![i] = out[i] \o d]
        BY <1>8, <3>2 DEF DataDone, TypeOK
      <4> HIDE DEF d
      <4>3. out[i] \o d \in Seq(Stamp)
        BY <2>1, <4>1
      <4> QED BY <4>2, <4>3 DEF TypeOK
    <3> QED BY <3>1, <3>2
  <2>3. /\ block' = [c \in Chan |-> block'[c]]
        /\ \A c \in Chan : block'[c] = block[c] \/ block'[c] = {}
    BY <1>8 DEF DataDone, TypeOK
  <2>4. \A c \in Chan : IsBlock(block'[c])
    BY <2>3 DEF IsBlock, TypeOK
  <2>5. transferred' \in [Chan -> Nat] /\ redo' \in Int /\ stat' \in SUBSET Chan
    BY <1>8 DEF DataDone, Transferred, TypeOK
  <2> QED BY <1>8, <2>2, <2>3, <2>4, <2>5 DEF DataDone, TypeOK, FifoTypeOK
<1>9. CASE Again
  BY <1>9 DEF Again, TypeOK, FifoTypeOK
<1>10. CASE Return
  BY <1>10 DEF Return, TypeOK, FifoTypeOK
<1> QED BY <1>1, <1>2, <1>3, <1>4, <1>5, <1>6, <1>7, <1>8, <1>9, <1>10
        DEF Handler

\* The steps of ft_change_flags keep the types.
LEMMA UserType == ASSUME TypeOK, User PROVE TypeOK'
<1> USE DEF fifoVars, handlerVars, zioVars, statVars, userVars, UserGoto
<1>1. ASSUME NEW c \in Chan, EnableInput(c) PROVE TypeOK'
  <2>1. enables' \in [Chan -> 0 .. MaxEnables]
    <3>1. enables[c] < MaxEnables /\ enables' = [enables EXCEPT ![c] = @ + 1]
      BY <1>1 DEF EnableInput
    <3>2. enables \in [Chan -> 0 .. MaxEnables]
      BY DEF TypeOK
    <3> QED BY <3>1, <3>2, DriverAssumption
  <2> QED BY <1>1, <2>1 DEF EnableInput, TypeOK, FifoTypeOK
<1>2. ASSUME NEW c \in Chan, DisableInput(c) PROVE TypeOK'
  <2>1. disables' \in [Chan -> 0 .. MaxDisables]
    <3>1. disables[c] < MaxDisables /\ disables' = [disables EXCEPT ![c] = @ + 1]
      BY <1>2 DEF DisableInput
    <3>2. disables \in [Chan -> 0 .. MaxDisables]
      BY DEF TypeOK
    <3> QED BY <3>1, <3>2, DriverAssumption
  <2> QED BY <1>2, <2>1 DEF DisableInput, TypeOK, FifoTypeOK
<1>3. ASSUME NEW c \in Chan, AbortTrigger(c) PROVE TypeOK'
  <2>1. /\ block' = [d \in Chan |-> block'[d]]
        /\ \A d \in Chan : block'[d] = block[d] \/ block'[d] = {}
    BY <1>3 DEF AbortTrigger, Aborted, TypeOK
  <2>2. \A d \in Chan : IsBlock(block'[d])
    BY <2>1 DEF IsBlock, TypeOK
  <2> QED BY <1>3, <2>1, <2>2 DEF AbortTrigger, TypeOK, FifoTypeOK
<1>4. ASSUME NEW c \in Chan, ClearFifo(c) PROVE TypeOK'
  <2>1. /\ fifo' = [fifo EXCEPT ![c] = <<>>]
        /\ upc' = [upc EXCEPT ![c] = "idle"]
    BY <1>4 DEF ClearFifo, ClearBus
  <2>2. /\ fifo' \in [Chan -> Seq(Stamp)]
        /\ upc' \in [Chan -> {"idle", "abort", "clear"}]
    <3>1. <<>> \in Seq(Stamp)
      OBVIOUS
    <3>2. fifo' \in [Chan -> Seq(Stamp)]
      BY <2>1, <3>1, Zenon DEF TypeOK, FifoTypeOK
    <3> QED BY <2>1, <3>2 DEF TypeOK
  <2>3. stale' \in SUBSET Chan
    BY <1>4 DEF ClearFifo, TypeOK
  <2> QED BY <1>4, <2>2, <2>3 DEF ClearFifo, TypeOK, FifoTypeOK
<1> QED BY <1>1, <1>2, <1>3, <1>4 DEF User, Close

\* Every step keeps the types.
LEMMA TypeStep == TypeOK /\ [Next]_vars => TypeOK'
<1> SUFFICES ASSUME TypeOK, [Next]_vars PROVE TypeOK'
  OBVIOUS
<1>1. CASE UNCHANGED vars
  BY <1>1 DEF vars, fifoVars, handlerVars, zioVars, statVars, userVars,
              TypeOK, FifoTypeOK
<1> QED BY <1>1, FifoStepType, HandlerType, UserType DEF Next

\* The registers of the FIFOs and the variables of the handler hold values of
\* their types, whatever is disabled and whatever fails.
THEOREM FifoTypeCorrect == Spec => []TypeOK
  BY TypeInit, TypeStep, PTL DEF Spec

-----------------------------------------------------------------------------
(* The order of a reader's timestamps, however often inputs are closed *)

\* The data of the active block of an input.
Data(c) == IF block[c] = {} THEN <<>> ELSE CHOOSE data \in block[c] : TRUE

\* A sequence of timestamps of c in increasing order, none later than the m-th;
\* and one sequence all before another.
Rising(s, c, m) ==
  /\ \A k \in 1 .. Len(s) : s[k][1] = c /\ s[k][2] \in 1 .. m
  /\ \A j, k \in 1 .. Len(s) : j < k => s[j][2] < s[k][2]
Before(s, t) == \A j \in 1 .. Len(s), k \in 1 .. Len(t) : s[j][2] < t[k][2]

\* What the reader has, then the active block, then the FIFO, of input c.
Sorted(a, b, f, c, m) ==
  /\ Rising(a, c, m) /\ Rising(b, c, m) /\ Rising(f, c, m)
  /\ Before(a, b) /\ Before(a, f) /\ Before(b, f)

\* A closing input is disabled, its block is gone before its FIFO is emptied,
\* and the count read from CSR covers the FIFO up to the last read.
CountInv ==
  /\ \A c \in Chan : upc[c] # "idle" => ~enable[c]
  /\ hpc = "arm" /\ i \notin stale => n <= Len(fifo[i])
  /\ \A c \in Chan : block[c] # {} => hpc = "get" /\ c = i /\ upc[c] # "clear"
  /\ hpc = "get" /\ block[i] # {} /\ i \notin stale =>
        got <= want /\ want - got <= Len(fifo[i])

InOrder(c) == Sorted(out[c], Data(c), fifo[c], c, made[c])

CloseInv == TypeOK /\ CountInv /\ \A c \in Chan \ stale : InOrder(c)

\* A new timestamp is later than all there are.
LEMMA SortedArrive ==
  ASSUME NEW S, NEW a \in Seq(S), NEW b \in Seq(S), NEW f \in Seq(S),
         NEW c, NEW m \in Nat, Sorted(a, b, f, c, m), <<c, m + 1>> \in S
  PROVE  Sorted(a, b, Append(f, <<c, m + 1>>), c, m + 1)
<1> DEFINE g == Append(f, <<c, m + 1>>)
<1>1. /\ Len(g) = Len(f) + 1 /\ Len(f) \in Nat
      /\ \A k \in 1 .. Len(f) : g[k] = f[k]
      /\ g[Len(f) + 1] = <<c, m + 1>>
  OBVIOUS
<1>2. <<c, m + 1>>[1] = c /\ <<c, m + 1>>[2] = m + 1
  OBVIOUS
<1> HIDE DEF g
<1>3. \A k \in 1 .. Len(g) :
         k \in 1 .. Len(f) \/ (k = Len(f) + 1 /\ g[k][1] = c /\ g[k][2] = m + 1)
  BY <1>1, <1>2
<1>4. ASSUME NEW s \in Seq(S), Rising(s, c, m)
      PROVE  Rising(s, c, m + 1) /\ (Before(s, f) => Before(s, g))
  <2>1. Rising(s, c, m + 1)
    <3>1. \A x \in 1 .. m : x \in 1 .. m + 1
      OBVIOUS
    <3>2. \A k \in 1 .. Len(s) : s[k][1] = c /\ s[k][2] \in 1 .. m + 1
      BY <3>1, <1>4, Zenon DEF Rising
    <3>3. \A j, k \in 1 .. Len(s) : j < k => s[j][2] < s[k][2]
      BY <1>4, Zenon DEF Rising
    <3> QED BY <3>2, <3>3, Zenon DEF Rising
  <2>2. ASSUME Before(s, f), NEW j \in 1 .. Len(s), NEW k \in 1 .. Len(g)
        PROVE  s[j][2] < g[k][2]
    <3>1. s[j][2] \in 1 .. m
      BY <1>4 DEF Rising
    <3>2. CASE k \in 1 .. Len(f)
      BY <2>2, <3>2, <1>1 DEF Before
    <3>3. CASE g[k][2] = m + 1
      BY <3>1, <3>3
    <3> QED BY <3>2, <3>3, <1>3
  <2> QED BY <2>1, <2>2 DEF Before
<1>5. Rising(g, c, m + 1)
  <2>1. Rising(f, c, m)
    BY DEF Sorted
  <2>2. ASSUME NEW k \in 1 .. Len(g)
        PROVE  g[k][1] = c /\ g[k][2] \in 1 .. m + 1
    <3>1. CASE k \in 1 .. Len(f)
      BY <3>1, <2>1, <1>1 DEF Rising
    <3> QED BY <3>1, <1>3
  <2>3. ASSUME NEW j \in 1 .. Len(g), NEW k \in 1 .. Len(g), j < k
        PROVE  g[j][2] < g[k][2]
    <3>1. j \in 1 .. Len(f) /\ g[j] = f[j] /\ g[j][2] \in 1 .. m
      <4>1. j \in 1 .. Len(f)
        BY <2>3, <1>1
      <4> QED BY <4>1, <2>1, <1>1 DEF Rising
    <3>2. CASE k \in 1 .. Len(f)
      BY <3>1, <3>2, <2>1, <2>3, <1>1 DEF Rising
    <3>3. CASE g[k][2] = m + 1
      BY <3>1, <3>3
    <3> QED BY <3>2, <3>3, <1>3
  <2> QED BY <2>2, <2>3 DEF Rising
<1> QED BY <1>4, <1>5 DEF Sorted, g

\* The first of the FIFO goes to the end of the block.
LEMMA SortedGet ==
  ASSUME NEW S, NEW a \in Seq(S), NEW b \in Seq(S), NEW f \in Seq(S),
         NEW g \in Seq(S), NEW c, NEW m \in Nat, Sorted(a, b, f, c, m),
         Len(f) > 0, Len(g) = Len(f) - 1,
         \A k \in 1 .. Len(f) - 1 : g[k] = f[k + 1]
  PROVE  Sorted(a, Append(b, f[1]), g, c, m)
<1> DEFINE e == Append(b, f[1])
<1>0. Len(f) \in Nat /\ 1 \in 1 .. Len(f) /\ f[1] \in S
  OBVIOUS
<1>1. /\ Len(e) = Len(b) + 1 /\ Len(b) \in Nat
      /\ \A k \in 1 .. Len(b) : e[k] = b[k]
      /\ e[Len(b) + 1] = f[1]
  BY <1>0
<1> HIDE DEF e
<1>2. \A k \in 1 .. Len(e) :
         k \in 1 .. Len(b) \/ (k = Len(b) + 1 /\ e[k] = f[1])
  BY <1>1
<1>3. \A k \in 1 .. Len(g) :
         k + 1 \in 1 .. Len(f) /\ 1 < k + 1 /\ g[k] = f[k + 1]
  BY <1>0
<1>4. /\ Rising(a, c, m) /\ Rising(b, c, m) /\ Rising(f, c, m)
      /\ Before(a, b) /\ Before(a, f) /\ Before(b, f)
  BY DEF Sorted
<1>5. Rising(g, c, m)
  <2>1. \A k \in 1 .. Len(g) : g[k][1] = c /\ g[k][2] \in 1 .. m
    BY <1>3, <1>4 DEF Rising
  <2>2. ASSUME NEW j \in 1 .. Len(g), NEW k \in 1 .. Len(g), j < k
        PROVE  g[j][2] < g[k][2]
    <3>1. j + 1 < k + 1
      BY <2>2, <1>0
    <3> QED BY <3>1, <1>3, <1>4 DEF Rising
  <2> QED BY <2>1, <2>2 DEF Rising
<1>6. Rising(e, c, m)
  <2>1. \A k \in 1 .. Len(e) : e[k][1] = c /\ e[k][2] \in 1 .. m
    BY <1>0, <1>1, <1>2, <1>4 DEF Rising
  <2>2. ASSUME NEW j \in 1 .. Len(e), NEW k \in 1 .. Len(e), j < k
        PROVE  e[j][2] < e[k][2]
    <3>1. j \in 1 .. Len(b)
      BY <2>2, <1>1
    <3>2. CASE k \in 1 .. Len(b)
      BY <3>1, <3>2, <2>2, <1>1, <1>4 DEF Rising
    <3>3. CASE k = Len(b) + 1 /\ e[k] = f[1]
      BY <3>1, <3>3, <1>0, <1>1, <1>4 DEF Before
    <3> QED BY <3>2, <3>3, <1>2
  <2> QED BY <2>1, <2>2 DEF Rising
<1>7. Before(a, e) /\ Before(a, g)
  BY <1>0, <1>1, <1>2, <1>3, <1>4 DEF Before
<1>8. Before(e, g)
  <2> SUFFICES ASSUME NEW j \in 1 .. Len(e), NEW k \in 1 .. Len(g)
               PROVE  e[j][2] < g[k][2]
    BY DEF Before
  <2>1. CASE j \in 1 .. Len(b)
    BY <2>1, <1>1, <1>3, <1>4 DEF Before
  <2>2. CASE j = Len(b) + 1 /\ e[j] = f[1]
    BY <2>2, <1>0, <1>3, <1>4 DEF Rising
  <2> QED BY <2>1, <2>2, <1>2
<1> QED BY <1>4, <1>5, <1>6, <1>7, <1>8 DEF Sorted, e

\* The reader is given the block.
LEMMA SortedDone ==
  ASSUME NEW S, NEW a \in Seq(S), NEW b \in Seq(S), NEW f \in Seq(S),
         NEW c, NEW m \in Nat, Sorted(a, b, f, c, m)
  PROVE  Sorted(a \o b, <<>>, f, c, m)
<1> DEFINE e == a \o b
<1>1. /\ Len(e) = Len(a) + Len(b) /\ Len(a) \in Nat /\ Len(b) \in Nat
      /\ \A k \in 1 .. Len(a) : e[k] = a[k]
      /\ \A k \in 1 .. Len(b) : e[Len(a) + k] = b[k]
  BY ConcatFacts
<1> HIDE DEF e
<1>2. ASSUME NEW k \in 1 .. Len(e)
      PROVE  \/ k \in 1 .. Len(a) /\ e[k] = a[k]
             \/ k - Len(a) \in 1 .. Len(b) /\ e[k] = b[k - Len(a)]
  <2>1. CASE k <= Len(a)
    BY <2>1, <1>1
  <2>2. CASE k > Len(a)
    <3>1. k - Len(a) \in 1 .. Len(b) /\ Len(a) + (k - Len(a)) = k
      BY <2>2, <1>1
    <3> QED BY <3>1, <1>1
  <2> QED BY <2>1, <2>2, <1>1
<1>3. /\ Rising(a, c, m) /\ Rising(b, c, m) /\ Rising(f, c, m)
      /\ Before(a, b) /\ Before(a, f) /\ Before(b, f)
  BY DEF Sorted
<1>4. Rising(e, c, m)
  <2>1. \A k \in 1 .. Len(e) : e[k][1] = c /\ e[k][2] \in 1 .. m
    BY <1>2, <1>3 DEF Rising
  <2>2. ASSUME NEW j \in 1 .. Len(e), NEW k \in 1 .. Len(e), j < k
        PROVE  e[j][2] < e[k][2]
    <3>1. CASE k \in 1 .. Len(a) /\ e[k] = a[k]
      <4>1. j \in 1 .. Len(a)
        BY <3>1, <2>2, <1>1
      <4> QED BY <3>1, <4>1, <2>2, <1>1, <1>3 DEF Rising
    <3>2. CASE k - Len(a) \in 1 .. Len(b) /\ e[k] = b[k - Len(a)]
      <4>1. CASE j \in 1 .. Len(a) /\ e[j] = a[j]
        BY <3>2, <4>1, <1>3 DEF Before
      <4>2. CASE j - Len(a) \in 1 .. Len(b) /\ e[j] = b[j - Len(a)]
        <5>1. j - Len(a) < k - Len(a)
          BY <2>2, <1>1
        <5> QED BY <3>2, <4>2, <5>1, <1>3 DEF Rising
      <4> QED BY <4>1, <4>2, <1>2
    <3> QED BY <3>1, <3>2, <1>2
  <2> QED BY <2>1, <2>2 DEF Rising
<1>5. Before(e, f)
  BY <1>2, <1>3 DEF Before
<1>6. Rising(<<>>, c, m) /\ Before(e, <<>>) /\ Before(<<>>, f)
  BY DEF Rising, Before
<1> QED BY <1>3, <1>4, <1>5, <1>6 DEF Sorted, e

\* The block, or what is in the FIFO, is thrown away.
LEMMA SortedDrop ==
  ASSUME NEW a, NEW b, NEW f, NEW c, NEW m, Sorted(a, b, f, c, m)
  PROVE  Sorted(a, <<>>, f, c, m) /\ Sorted(a, b, <<>>, c, m)
  BY DEF Sorted, Rising, Before

\* The block's data is a sequence of stamps, and all there is in the block.
LEMMA DataFacts == ASSUME TypeOK, NEW c \in Chan
                   PROVE  /\ Data(c) \in Seq(Stamp)
                          /\ block[c] # {} => block[c] = {Data(c)}
<1>1. IsBlock(block[c])
  BY DEF TypeOK
<1>2. CASE block[c] = {}
  BY <1>2 DEF Data
<1>3. CASE block[c] # {}
  BY <1>1, <1>3, BlockData DEF Data
<1> QED BY <1>2, <1>3

\* What TypeOK says of the sequences and the counters of an input.
LEMMA Shapes == ASSUME TypeOK, NEW c \in Chan
                PROVE  /\ fifo[c] \in Seq(Stamp) /\ Len(fifo[c]) \in Nat
                       /\ out[c] \in Seq(Stamp) /\ Len(out[c]) \in Nat
                       /\ made[c] \in Nat /\ transferred[c] \in Nat
                       /\ IsBlock(block[c])
<1>1. /\ fifo[c] \in Seq(Stamp) /\ out[c] \in Seq(Stamp)
      /\ made[c] \in 0 .. MaxTs /\ transferred[c] \in Nat
      /\ IsBlock(block[c])
  BY DEF TypeOK, FifoTypeOK
<1>2. \A s \in Seq(Stamp) : Len(s) \in Nat
  OBVIOUS
<1>3. made[c] \in Nat
  BY <1>1, FifoAssumption
<1> QED BY <1>1, <1>2, <1>3

\* A step that leaves the sequences of an input alone keeps their order.
LEMMA OrderFrame ==
  ASSUME NEW c \in Chan, InOrder(c), made'[c] = made[c], fifo'[c] = fifo[c],
         out'[c] = out[c], block'[c] = block[c]
  PROVE  InOrder(c)'
  BY DEF InOrder, Data

\* The order holds initially.
LEMMA CloseInit == Init => CloseInv
<1> SUFFICES ASSUME Init PROVE CloseInv
  OBVIOUS
<1>1. CountInv
  BY DEF Init, FifoInit, CountInv
<1>2. ASSUME NEW c \in Chan PROVE InOrder(c)
  <2>1. Data(c) = <<>> /\ out[c] = <<>> /\ fifo[c] = <<>>
    BY DEF Init, FifoInit, Data
  <2>2. Sorted(<<>>, <<>>, <<>>, c, made[c])
    BY DEF Sorted, Rising, Before
  <2> QED BY <2>1, <2>2 DEF InOrder
<1> QED BY <1>1, <1>2, TypeInit DEF CloseInv

\* A timestamp arrives at the end of the FIFO.
LEMMA ArriveClose ==
  ASSUME CloseInv, NEW c \in Chan, Arrive(c), DriverUnchanged
  PROVE  CountInv' /\ \A d \in Chan \ stale' : InOrder(d)'
<1>t. /\ fifo \in [Chan -> Seq(Stamp)] /\ made \in [Chan -> 0 .. MaxTs]
      /\ i \in Chan /\ n \in Nat /\ want \in Nat /\ got \in Nat /\ TypeOK
  BY DEF CloseInv, TypeOK, FifoTypeOK
<1>0. /\ fifo' = [fifo EXCEPT ![c] = Append(@, Ts(c, made[c] + 1))]
      /\ made' = [made EXCEPT ![c] = @ + 1] /\ made[c] < MaxTs
      /\ UNCHANGED <<enable, hpc, i, n, want, got, block, out, upc, stale>>
  BY DEF Arrive, DriverUnchanged, handlerVars, zioVars, userVars
<1>1. \A d \in Chan : Len(fifo[d]) \in Nat /\ Len(fifo'[d]) >= Len(fifo[d])
  <2> TAKE d \in Chan
  <2>1. fifo[d] \in Seq(Stamp) /\ Len(fifo[d]) \in Nat
    BY <1>t
  <2>2. Len(Append(fifo[d], Ts(c, made[c] + 1))) = Len(fifo[d]) + 1
    BY <2>1
  <2> QED BY <1>0, <1>t, <2>1, <2>2
<1>2. CountInv'
  <2>1. CountInv /\ \A x \in Nat : \A y \in Nat : \A z \in Int :
                       y >= x /\ z <= x => z <= y
    BY DEF CloseInv
  <2>2. Len(fifo[i]) \in Nat /\ Len(fifo'[i]) \in Nat
        /\ Len(fifo'[i]) >= Len(fifo[i]) /\ want - got \in Int
    <3>1. fifo'[i] \in Seq(Stamp)
      BY TypeStep, <1>t DEF Next, FifoStep, TypeOK, FifoTypeOK
    <3>2. Len(fifo'[i]) \in Nat
      BY <3>1
    <3> QED BY <1>1, <1>t, <3>2
  <2> QED BY <1>0, <1>t, <2>1, <2>2 DEF CountInv
<1>3. ASSUME NEW d \in Chan \ stale', d # c PROVE InOrder(d)'
  <2>1. InOrder(d)
    BY <1>0, <1>3 DEF CloseInv
  <2> QED BY <1>0, <1>t, <1>3, <2>1, OrderFrame
<1>4. ASSUME NEW d \in Chan \ stale', d = c PROVE InOrder(d)'
  <2>1. Sorted(out[c], Data(c), fifo[c], c, made[c])
    BY <1>0, <1>4 DEF CloseInv, InOrder
  <2>2. /\ out[c] \in Seq(Stamp) /\ Data(c) \in Seq(Stamp)
        /\ fifo[c] \in Seq(Stamp) /\ made[c] \in Nat
    BY <1>t, Shapes, DataFacts
  <2>3. <<c, made[c] + 1>> \in Stamp
    <3>1. made[c] + 1 \in 0 .. MaxTs
      BY <1>0, <2>2, FifoAssumption
    <3> QED BY <3>1 DEF Stamp
  <2>4. Sorted(out[c], Data(c), Append(fifo[c], <<c, made[c] + 1>>), c,
               made[c] + 1)
    BY <2>1, <2>2, <2>3, SortedArrive
  <2>5. /\ out'[c] = out[c] /\ Data(c)' = Data(c) /\ made'[c] = made[c] + 1
        /\ fifo'[c] = Append(fifo[c], <<c, made[c] + 1>>)
    BY <1>0, <1>t DEF Data, Ts
  <2> QED BY <1>4, <2>4, <2>5 DEF InOrder
<1> QED BY <1>2, <1>3, <1>4

\* The handler reads a word, into the active block if ZIO still has it.
LEMMA GetClose ==
  ASSUME CloseInv, Get
  PROVE  CountInv' /\ \A d \in Chan \ stale' : InOrder(d)'
<1>t. /\ i \in Chan /\ want \in Nat /\ got \in Nat /\ TypeOK
      /\ fifo \in [Chan -> Seq(Stamp)] /\ block = [c \in Chan |-> block[c]]
      /\ fifo[i] \in Seq(Stamp) /\ Len(fifo[i]) \in Nat
      /\ out[i] \in Seq(Stamp) /\ made[i] \in Nat
  BY Shapes DEF CloseInv, TypeOK, FifoTypeOK
<1>0. /\ hpc = "get" /\ hpc' = "get" /\ got < want /\ got' = got + 1
      /\ block' = [block EXCEPT ![i] = {Append(data, Output(i)) : data \in @}]
      /\ fifo' = [fifo EXCEPT ![i] = Popped(i)]
      /\ UNCHANGED <<enable, made, i, n, want, out, upc, stale>>
  BY DEF Get, Goto, userVars
<1>1. /\ \A c \in Chan \ {i} : block'[c] = block[c] /\ fifo'[c] = fifo[c]
      /\ fifo'[i] = Popped(i)
      /\ block'[i] = {Append(data, Output(i)) : data \in block[i]}
  BY <1>0, <1>t
<1>2. block'[i] = {} <=> block[i] = {}
  BY <1>1
<1>3. ASSUME block[i] # {}, i \notin stale
      PROVE  got <= want /\ want - got <= Len(fifo[i]) /\ fifo[i] # <<>>
  <2>1. got <= want /\ want - got <= Len(fifo[i])
    BY <1>0, <1>3 DEF CloseInv, CountInv
  <2>2. Len(<<>>) = 0
    OBVIOUS
  <2> QED BY <2>1, <2>2, <1>0, <1>t
<1>4. CountInv'
  <2>1. /\ \A c \in Chan : upc[c] # "idle" => ~enable[c]
        /\ \A c \in Chan : block[c] # {} => c = i /\ upc[c] # "clear"
    BY DEF CloseInv, CountInv
  <2>2. ASSUME block'[i] # {}, i \notin stale
        PROVE  got' <= want' /\ want' - got' <= Len(fifo'[i])
    <3>1. want - got <= Len(fifo[i]) /\ fifo[i] # <<>>
      BY <1>2, <1>3, <2>2
    <3>2. Len(fifo'[i]) = Len(fifo[i]) - 1
      BY <3>1, <1>1, <1>t, ReadFacts
    <3> QED BY <3>1, <3>2, <1>0, <1>t
  <2>3. \A c \in Chan : block'[c] # {} => c = i /\ upc[c] # "clear"
    BY <2>1, <1>1, <1>2
  <2> QED BY <2>1, <2>2, <2>3, <1>0 DEF CountInv
<1>5. ASSUME NEW d \in Chan \ stale', d # i PROVE InOrder(d)'
  <2>1. InOrder(d)
    BY <1>0, <1>5 DEF CloseInv
  <2> QED BY <1>0, <1>1, <1>5, <2>1, OrderFrame
<1>6. ASSUME i \notin stale PROVE InOrder(i)'
  <2>1. Sorted(out[i], Data(i), fifo[i], i, made[i]) /\ Data(i) \in Seq(Stamp)
    BY <1>6, <1>t, DataFacts DEF CloseInv, InOrder
  <2>2. out'[i] = out[i] /\ made'[i] = made[i] /\ i' = i
    BY <1>0
  <2>3. CASE fifo[i] = <<>>
    <3>1. block[i] = {} /\ fifo'[i] = fifo[i]
      BY <2>3, <1>3, <1>1, <1>6 DEF Popped
    <3> QED BY <3>1, <2>2, <1>2, <2>1 DEF InOrder, Data
  <2>4. CASE fifo[i] # <<>>
    <3>1. /\ Output(i) = fifo[i][1] /\ Popped(i) \in Seq(Stamp)
          /\ Len(Popped(i)) = Len(fifo[i]) - 1
          /\ \A k \in 1 .. Len(fifo[i]) - 1 : Popped(i)[k] = fifo[i][k + 1]
      BY <2>4, <1>t, ReadFacts
    <3>2. Len(fifo[i]) > 0
      BY <2>4, <1>t
    <3>3. Sorted(out[i], Append(Data(i), Output(i)), Popped(i), i, made[i])
      <4> DEFINE a == out[i]
                 b == Data(i)
                 f == fifo[i]
                 g == Popped(i)
      <4>1. /\ a \in Seq(Stamp) /\ b \in Seq(Stamp) /\ f \in Seq(Stamp)
            /\ g \in Seq(Stamp) /\ Sorted(a, b, f, i, made[i])
            /\ Len(f) > 0 /\ Len(g) = Len(f) - 1
            /\ \A k \in 1 .. Len(f) - 1 : g[k] = f[k + 1]
        BY <2>1, <3>1, <3>2, <1>t
      <4> HIDE DEF a, b, f, g
      <4>2. Sorted(a, Append(b, f[1]), g, i, made[i])
        BY <4>1, <1>t, SortedGet
      <4> QED BY <4>2, <3>1 DEF a, b, f, g
    <3>4. CASE block[i] = {}
      <4>1. Sorted(out[i], <<>>, Popped(i), i, made[i])
        BY <3>3, SortedDrop
      <4>2. Data(i)' = <<>>
        BY <3>4, <1>2, <2>2 DEF Data
      <4> QED BY <4>1, <4>2, <2>2, <1>1 DEF InOrder
    <3>5. CASE block[i] # {}
      <4>1. block[i] = {Data(i)}
        BY <3>5, <1>t, DataFacts
      <4>2. block'[i] = {Append(Data(i), Output(i))}
        BY <4>1, <1>1
      <4>3. Data(i)' = Append(Data(i), Output(i))
        BY <4>2, <2>2 DEF Data
      <4> QED BY <4>3, <3>3, <2>2, <1>1 DEF InOrder
    <3> QED BY <3>4, <3>5
  <2> QED BY <2>3, <2>4
<1> QED BY <1>0, <1>4, <1>5, <1>6

\* The block goes to the reader.
LEMMA DoneClose ==
  ASSUME CloseInv, DataDone
  PROVE  CountInv' /\ \A d \in Chan \ stale' : InOrder(d)'
<1>t. /\ i \in Chan /\ TypeOK /\ out \in [Chan -> Seq(Stamp)]
      /\ block = [c \in Chan |-> block[c]]
      /\ fifo[i] \in Seq(Stamp) /\ out[i] \in Seq(Stamp) /\ made[i] \in Nat
  BY Shapes DEF CloseInv, TypeOK
<1>0. /\ hpc = "get" /\ hpc' = "scan"
      /\ out' = [out EXCEPT ![i] = IF block[i] = {} THEN @
                                   ELSE @ \o CHOOSE data \in block[i] : TRUE]
      /\ block' = [block EXCEPT ![i] = {}]
      /\ UNCHANGED <<fifo, made, enable, i, n, want, got, upc, stale>>
  BY DEF DataDone, Goto, fifoVars, userVars
<1>1. /\ \A c \in Chan \ {i} : block'[c] = block[c] /\ out'[c] = out[c]
      /\ block'[i] = {}
      /\ out'[i] = IF block[i] = {} THEN out[i] ELSE out[i] \o Data(i)
  BY <1>0, <1>t DEF Data
<1>2. CountInv'
  <2>1. \A c \in Chan : block'[c] = {}
    BY <1>1 DEF CloseInv, CountInv
  <2> QED BY <2>1, <1>0 DEF CloseInv, CountInv
<1>3. ASSUME NEW d \in Chan \ stale', d # i PROVE InOrder(d)'
  <2>1. InOrder(d)
    BY <1>0, <1>3 DEF CloseInv
  <2> QED BY <1>0, <1>1, <1>3, <2>1, OrderFrame
<1>4. ASSUME i \notin stale PROVE InOrder(i)'
  <2>1. Sorted(out[i], Data(i), fifo[i], i, made[i]) /\ Data(i) \in Seq(Stamp)
    BY <1>4, <1>t, DataFacts DEF CloseInv, InOrder
  <2>2. Data(i)' = <<>> /\ fifo'[i] = fifo[i] /\ made'[i] = made[i] /\ i' = i
    BY <1>0, <1>1 DEF Data
  <2>3. CASE block[i] = {}
    <3>1. Data(i) = <<>> /\ out'[i] = out[i]
      BY <2>3, <1>1 DEF Data
    <3> QED BY <3>1, <2>1, <2>2 DEF InOrder
  <2>4. CASE block[i] # {}
    <3>1. Sorted(out[i] \o Data(i), <<>>, fifo[i], i, made[i])
      BY <2>1, <1>t, SortedDone
    <3>2. out'[i] = out[i] \o Data(i)
      BY <2>4, <1>1
    <3> QED BY <3>1, <3>2, <2>2 DEF InOrder
  <2> QED BY <2>3, <2>4
<1> QED BY <1>0, <1>2, <1>3, <1>4

\* The FIFO of c is emptied, by the handler or by ft_change_flags, when the
\* input has no active block.
LEMMA ClearOrder ==
  ASSUME CloseInv, NEW c \in Chan, ClearBus(c), UNCHANGED <<made, out, block>>,
         NEW d \in Chan, d \notin stale
  PROVE  InOrder(d)'
<1>1. InOrder(d) /\ fifo \in [Chan -> Seq(Stamp)]
  BY DEF CloseInv, TypeOK, FifoTypeOK
<1>2. fifo'[d] = IF d = c THEN <<>> ELSE fifo[d]
  BY <1>1 DEF ClearBus
<1>3. CASE d # c
  BY <1>1, <1>2, <1>3, OrderFrame
<1>4. CASE d = c
  <2>1. Sorted(out[d], Data(d), <<>>, d, made[d])
    BY <1>1, SortedDrop DEF InOrder
  <2> QED BY <2>1, <1>2, <1>4 DEF InOrder, Data
<1> QED BY <1>3, <1>4

\* Closing an input frees its block and then empties its FIFO.
LEMMA CloseClose ==
  ASSUME CloseInv, NEW c \in Chan, Close(c)
  PROVE  CountInv' /\ \A d \in Chan \ stale' : InOrder(d)'
<1>t. /\ i \in Chan /\ block = [d \in Chan |-> block[d]]
      /\ upc \in [Chan -> {"idle", "abort", "clear"}]
      /\ fifo \in [Chan -> Seq(Stamp)]
  BY DEF CloseInv, TypeOK, FifoTypeOK
<1>1. CASE AbortTrigger(c)
  <2>0. /\ upc[c] = "abort" /\ upc' = [upc EXCEPT ![c] = "clear"]
        /\ block' = [block EXCEPT ![c] = {}]
        /\ UNCHANGED <<enable, fifo, made, hpc, i, n, want, got, out, stale>>
    BY <1>1 DEF AbortTrigger, Aborted, UserGoto, fifoVars, handlerVars
  <2>1. /\ \A d \in Chan \ {c} : block'[d] = block[d] /\ upc'[d] = upc[d]
        /\ block'[c] = {} /\ upc'[c] = "clear"
    BY <2>0, <1>t
  <2>2. CountInv'
    BY <2>0, <2>1, <1>t DEF CloseInv, CountInv
  <2>3. ASSUME NEW d \in Chan \ stale' PROVE InOrder(d)'
    <3>1. InOrder(d)
      BY <2>0, <2>3 DEF CloseInv
    <3>2. CASE d # c
      BY <3>1, <3>2, <2>0, <2>1, OrderFrame
    <3>3. CASE d = c
      <4>1. Sorted(out[d], <<>>, fifo[d], d, made[d])
        BY <3>1, SortedDrop DEF InOrder
      <4>2. Data(d)' = <<>>
        BY <3>3, <2>1 DEF Data
      <4> QED BY <4>1, <4>2, <2>0 DEF InOrder
    <3> QED BY <3>2, <3>3
  <2> QED BY <2>2, <2>3
<1>2. CASE ClearFifo(c)
  <2>0. /\ upc[c] = "clear" /\ upc' = [upc EXCEPT ![c] = "idle"]
        /\ ClearBus(c)
        /\ stale' = IF hpc = "arm" /\ i = c THEN stale \union {c} ELSE stale
        /\ UNCHANGED <<enable, made, hpc, i, n, want, got, block, out>>
    BY <1>2 DEF ClearFifo, UserGoto, handlerVars, zioVars
  <2>1. /\ \A d \in Chan \ {c} : fifo'[d] = fifo[d] /\ upc'[d] = upc[d]
        /\ upc'[c] = "idle"
    BY <2>0, <1>t DEF ClearBus
  <2>2. block[c] = {} /\ CountInv
    BY <2>0 DEF CloseInv, CountInv
  <2>3. CountInv'
    <3>1. \A d \in Chan : upc'[d] # "idle" => ~enable'[d]
      BY <2>0, <2>1, <2>2 DEF CountInv
    <3>2. hpc' = "arm" /\ i' \notin stale' => n' <= Len(fifo'[i'])
      BY <2>0, <2>1, <2>2, <1>t DEF CountInv
    <3>3. \A d \in Chan : block'[d] # {} =>
             hpc' = "get" /\ d = i' /\ upc'[d] # "clear"
      BY <2>0, <2>1, <2>2 DEF CountInv
    <3>4. hpc' = "get" /\ block'[i'] # {} /\ i' \notin stale' =>
             got' <= want' /\ want' - got' <= Len(fifo'[i'])
      BY <2>0, <2>1, <2>2, <1>t DEF CountInv
    <3> QED BY <3>1, <3>2, <3>3, <3>4 DEF CountInv
  <2>4. \A d \in Chan \ stale' : InOrder(d)'
    BY <2>0, ClearOrder
  <2> QED BY <2>3, <2>4
<1> QED BY <1>1, <1>2 DEF Close

\* Every step keeps the order, whatever is enabled, disabled and flushed.
LEMMA CloseStep == CloseInv /\ [Next]_vars => CloseInv'
<1> SUFFICES ASSUME CloseInv, [Next]_vars
             PROVE  CountInv' /\ \A d \in Chan \ stale' : InOrder(d)'
  BY TypeStep DEF CloseInv
<1>t. /\ TypeOK /\ CountInv /\ \A d \in Chan \ stale : InOrder(d)
      /\ i \in Chan /\ n \in Nat /\ block = [d \in Chan |-> block[d]]
      /\ enable \in [Chan -> BOOLEAN]
      /\ upc \in [Chan -> {"idle", "abort", "clear"}]
  BY DEF CloseInv, TypeOK, FifoTypeOK
<1> USE DEF fifoVars, handlerVars, zioVars, statVars, userVars, Goto
<1>q. ASSUME UNCHANGED <<fifo, made, block, out, stale>>
      PROVE  \A d \in Chan \ stale' : InOrder(d)'
  BY <1>q, <1>t, OrderFrame
<1>1. ASSUME NEW c \in Chan, FifoStep(c), DriverUnchanged
      PROVE  CountInv' /\ \A d \in Chan \ stale' : InOrder(d)'
  <2>1. CASE Arrive(c)
    BY <1>1, <2>1, ArriveClose
  <2>2. CASE AssertIrq(c) \/ DropIrq(c)
    <3>1. UNCHANGED <<enable, fifo, made, block, out, got, upc, hpc, i, n,
                      want, stale>>
      BY <1>1, <2>2 DEF AssertIrq, DropIrq, DriverUnchanged
    <3>2. CountInv'
      BY <3>1, <1>t DEF CountInv
    <3> QED BY <3>1, <3>2, <1>q
  <2> QED BY <1>1, <2>1, <2>2 DEF FifoStep
<1>2. CASE Interrupt \/ ReadIsr \/ Again \/ Return
  <2>1. /\ UNCHANGED <<enable, fifo, made, block, out, upc, stale>>
        /\ hpc' \in {"idle", "isr", "scan"} /\ hpc # "get"
    BY <1>2 DEF Interrupt, ReadIsr, Again, Return
  <2>2. CountInv'
    BY <2>1, <1>t DEF CountInv
  <2> QED BY <2>1, <2>2, <1>q
<1>3. ASSUME NEW c \in Chan, SkipEmpty(c) \/ ReadCsr(c)
      PROVE  CountInv' /\ \A d \in Chan \ stale' : InOrder(d)'
  <2>1. /\ UNCHANGED <<enable, fifo, made, block, out, upc, stale>>
        /\ hpc = "scan"
        /\ \/ hpc' \in {"scan", "flush"}
           \/ hpc' = "arm" /\ i' = c /\ n' = UsedW(c)
    BY <1>3 DEF SkipEmpty, ReadCsr
  <2>2. UsedW(c) <= Len(fifo[c])
    BY <1>t, UsedWFacts, Shapes
  <2>3. CountInv'
    BY <2>1, <2>2, <1>t DEF CountInv
  <2> QED BY <2>1, <2>3, <1>q
<1>4. CASE Flush
  <2>1. /\ ClearBus(i) /\ hpc = "flush" /\ hpc' = "scan"
        /\ UNCHANGED <<enable, made, block, out, upc, stale>>
    BY <1>4 DEF Flush
  <2>2. CountInv'
    BY <2>1, <1>t DEF CountInv
  <2>3. \A d \in Chan \ stale' : InOrder(d)'
    BY <2>1, <1>t, ClearOrder
  <2> QED BY <2>2, <2>3
<1>5. CASE Arm
  <2>1. /\ hpc = "arm" /\ hpc' = "get" /\ got' = 0
        /\ UNCHANGED <<enable, fifo, made, i, n, out, upc, stale>>
        /\ \/ enable[i] /\ block' = [block EXCEPT ![i] = {<<>>}] /\ want' = n
           \/ block' = block
    BY <1>5 DEF Arm
  <2>2. /\ \A c \in Chan : block[c] = {}
        /\ i \notin stale => n <= Len(fifo[i])
        /\ enable[i] => upc[i] = "idle"
    BY <2>1, <1>t DEF CountInv
  <2>3. /\ \A c \in Chan \ {i} : block'[c] = {}
        /\ \/ enable[i] /\ block'[i] = {<<>>} /\ want' = n
           \/ block'[i] = {}
    BY <2>1, <2>2, <1>t
  <2>4. Len(fifo[i]) \in Nat
    BY <1>t, Shapes
  <2>5. CountInv'
    <3>1. \A c \in Chan : upc'[c] # "idle" => ~enable'[c]
      BY <2>1, <1>t DEF CountInv
    <3>2. \A c \in Chan : block'[c] # {} => c = i' /\ upc'[c] # "clear"
      BY <2>1, <2>2, <2>3
    <3>3. block'[i'] # {} /\ i' \notin stale' =>
             got' <= want' /\ want' - got' <= Len(fifo'[i'])
      BY <2>1, <2>2, <2>3, <2>4, <1>t
    <3> QED BY <3>1, <3>2, <3>3, <2>1 DEF CountInv
  <2>6. \A c \in Chan : Data(c) = <<>> /\ Data(c)' = <<>>
    <3>1. \A x : x \in {<<>>} <=> x = <<>>
      OBVIOUS
    <3> QED BY <2>2, <2>3, <3>1 DEF Data
  <2>7. \A d \in Chan \ stale' : InOrder(d)'
    BY <2>1, <2>6, <1>t DEF InOrder
  <2> QED BY <2>5, <2>7
<1>6. ASSUME NEW c \in Chan, EnableInput(c) \/ DisableInput(c)
      PROVE  CountInv' /\ \A d \in Chan \ stale' : InOrder(d)'
  <2>1. /\ UNCHANGED <<fifo, made, block, out, got, hpc, i, n, want, stale>>
        /\ \/ upc[c] = "idle" /\ upc' = [upc EXCEPT ![c] = "idle"]
              /\ enable' = [enable EXCEPT ![c] = TRUE]
           \/ upc' = [upc EXCEPT ![c] = "abort"]
              /\ enable' = [enable EXCEPT ![c] = FALSE]
    BY <1>6 DEF EnableInput, DisableInput, UserGoto
  <2>2. \A d \in Chan : upc'[d] # "idle" => ~enable'[d]
    BY <2>1, <1>t DEF CountInv
  <2>3. \A d \in Chan : block'[d] # {} => upc'[d] # "clear"
    BY <2>1, <1>t DEF CountInv
  <2>4. CountInv'
    BY <2>1, <2>2, <2>3, <1>t DEF CountInv
  <2> QED BY <2>1, <2>4, <1>q
<1>7. CASE UNCHANGED vars
  <2>1. UNCHANGED <<enable, fifo, made, block, out, got, upc, hpc, i, n, want,
                    stale>>
    BY <1>7 DEF vars
  <2>2. CountInv'
    BY <2>1, <1>t DEF CountInv
  <2> QED BY <2>1, <2>2, <1>q
<1> QED BY <1>1, <1>2, <1>3, <1>4, <1>5, <1>6, <1>7, GetClose, DoneClose,
           CloseClose DEF Next, Handler, User

\* The count the handler has read from CSR covers what it reads from the FIFO,
\* however often inputs are closed and opened and whatever is flushed, except
\* for an input that was emptied between the read of CSR and zio_arm_trigger.
THEOREM NeverReadsEmpty == Spec => []CountStaysTrue
<1>1. CloseInv => CountStaysTrue
  <2> SUFFICES ASSUME CloseInv, hpc = "get", block[i] # {}, i \notin stale
               PROVE  Len(fifo[i]) >= want - got
    BY DEF CountStaysTrue
  <2>1. want - got <= Len(fifo[i]) /\ want \in Nat /\ got \in Nat
        /\ i \in Chan
    BY DEF CloseInv, CountInv, TypeOK
  <2>2. Len(fifo[i]) \in Nat
    BY <2>1, Shapes DEF CloseInv
  <2> QED BY <2>1, <2>2
<1> QED BY <1>1, CloseInit, CloseStep, PTL DEF Spec

\* A reader sees its own input's timestamps, each at most once and in order,
\* however often the input is closed, opened and flushed.
THEOREM ReaderInOrder == Spec => []OutIncreasing
<1>1. CloseInv => OutIncreasing
  <2> SUFFICES ASSUME CloseInv, NEW c \in Chan \ stale, NEW k \in DOMAIN out[c]
               PROVE  /\ out[c][k][1] = c /\ out[c][k][2] > 0
                      /\ k > 1 => out[c][k][2] > out[c][k - 1][2]
    BY DEF OutIncreasing
  <2>1. Rising(out[c], c, made[c])
    BY DEF CloseInv, InOrder, Sorted
  <2>2. k \in 1 .. Len(out[c]) /\ Len(out[c]) \in Nat
    <3>1. out[c] \in Seq(Stamp) /\ Len(out[c]) \in Nat
      BY Shapes DEF CloseInv
    <3> QED BY <3>1
  <2>3. out[c][k][1] = c /\ out[c][k][2] \in 1 .. made[c]
    BY <2>1, <2>2 DEF Rising
  <2>4. ASSUME k > 1 PROVE out[c][k - 1][2] < out[c][k][2]
    <3>1. k - 1 \in 1 .. Len(out[c]) /\ k - 1 < k
      BY <2>2, <2>4
    <3> QED BY <3>1, <2>1, <2>2 DEF Rising
  <2>5. ASSUME k > 1
        PROVE  out[c][k - 1][2] \in 1 .. made[c]
    <3>1. k - 1 \in 1 .. Len(out[c])
      BY <2>2, <2>5
    <3> QED BY <3>1, <2>1 DEF Rising
  <2> QED BY <2>3, <2>4, <2>5
<1> QED BY <1>1, CloseInit, CloseStep, PTL DEF Spec

-----------------------------------------------------------------------------
(* The stream *)

\* Inputs stay open, and a FIFO that says FULL reads zero.
StayOpen == MaxDisables = 0 /\ Capacity = Depth

\* Where the handler is: it never flushes, it arms for what is in the FIFO,
\* and as long as it reads the FIFO holds what is still to read.  Nobody else
\* has an active block.
ReadInv ==
  /\ \A c \in Chan : upc[c] = "idle"
  /\ hpc # "flush"
  /\ hpc \in {"arm", "get"} => n > 0
  /\ hpc = "arm" => n <= Len(fifo[i])
  /\ hpc = "get" => /\ want \in {0, n} /\ got <= want
                    /\ want - got <= Len(fifo[i])
                    /\ block[i] = {} <=> want = 0
  /\ \A c \in Chan : block[c] # {} => hpc = "get" /\ c = i

InBlock(c) == IF block[c] = {} THEN 0 ELSE got

\* What input c has produced lies, in order, in what its reader has received,
\* then in the active block, then in the FIFO.
StreamInv(c) ==
  /\ made[c] = Len(out[c]) + InBlock(c) + Len(fifo[c])
  /\ transferred[c] = Len(out[c])
  /\ \A k \in 1 .. Len(out[c]) : out[c][k] = Ts(c, k)
  /\ \A data \in block[c] :
        Len(data) = got /\ \A k \in 1 .. got : data[k] = Ts(c, Len(out[c]) + k)
  /\ \A k \in 1 .. Len(fifo[c]) :
        fifo[c][k] = Ts(c, Len(out[c]) + InBlock(c) + k)

SInv == TypeOK /\ ReadInv /\ \A c \in Chan : StreamInv(c)
-----------------------------------------------------------------------------

\* The stream invariant holds initially.
LEMMA StreamInit == Init => SInv
<1> SUFFICES ASSUME Init PROVE SInv
  OBVIOUS
<1>1. TypeOK
  BY TypeInit
<1>2. ReadInv
  BY DEF Init, ReadInv
<1>3. \A c \in Chan : StreamInv(c)
  BY DEF Init, FifoInit, StreamInv, InBlock
<1> QED BY <1>1, <1>2, <1>3 DEF SInv

\* A step that leaves the sequences of an input alone keeps its stream.
LEMMA StreamFrame ==
  ASSUME NEW c \in Chan, StreamInv(c),
         made'[c] = made[c], fifo'[c] = fifo[c], out'[c] = out[c],
         block'[c] = block[c], transferred'[c] = transferred[c],
         block[c] = {} \/ got' = got
  PROVE  StreamInv(c)'
  BY DEF StreamInv, InBlock

\* A timestamp arrives at the end of the FIFO.
LEMMA ArriveStream ==
  ASSUME SInv, NEW c \in Chan, Arrive(c), DriverUnchanged
  PROVE  ReadInv' /\ \A d \in Chan : StreamInv(d)'
<1> USE DEF SInv
<1>0. /\ fifo' = [fifo EXCEPT ![c] = Append(@, Ts(c, made[c] + 1))]
      /\ made' = [made EXCEPT ![c] = @ + 1]
      /\ UNCHANGED <<hpc, stat, left, i, n, redo, want, got, block, out,
                     received, transferred, upc>>
  BY DEF Arrive, DriverUnchanged, handlerVars, zioVars, statVars, userVars
<1>t. /\ fifo \in [Chan -> Seq(Stamp)] /\ made \in [Chan -> 0 .. MaxTs]
      /\ i \in Chan /\ got \in Nat /\ want \in Nat /\ n \in Nat
  BY DEF TypeOK, FifoTypeOK
<1>1. /\ \A d \in Chan \ {c} : fifo'[d] = fifo[d] /\ made'[d] = made[d]
      /\ fifo'[c] = Append(fifo[c], Ts(c, made[c] + 1))
      /\ made'[c] = made[c] + 1
  BY <1>0, <1>t
<1> DEFINE f == fifo[c]
           t == Ts(c, made[c] + 1)
<1>2. /\ Len(f) \in Nat /\ Len(Append(f, t)) = Len(f) + 1
      /\ \A k \in 1 .. Len(f) : Append(f, t)[k] = f[k]
      /\ Append(f, t)[Len(f) + 1] = t
  <2>1. f \in Seq(Stamp)
    BY <1>t
  <2>2. t \in Chan \X Nat /\ f \in Seq(Chan \X Nat)
    BY <1>t, <2>1, FifoAssumption DEF Ts, Stamp
  <2> HIDE DEF f, t
  <2> QED BY <2>1, <2>2
<1>3. ReadInv'
  <2>1. Len(fifo'[i]) >= Len(fifo[i]) /\ Len(fifo[i]) \in Nat
                                      /\ Len(fifo'[i]) \in Nat
    <3>1. CASE i = c
      BY <3>1, <1>1, <1>2
    <3>2. CASE i # c
      BY <3>2, <1>1, <1>t, Shapes
    <3> QED BY <3>1, <3>2
  <2> QED BY <1>0, <1>t, <2>1 DEF ReadInv
<1>4. ASSUME NEW d \in Chan, d # c PROVE StreamInv(d)'
  BY <1>0, <1>1, <1>4, StreamFrame
<1>5. StreamInv(c)'
  <2>1. /\ InBlock(c)' = InBlock(c) /\ InBlock(c) \in Nat
        /\ Len(out[c]) \in Nat
    BY <1>0, <1>t, Shapes DEF InBlock
  <2>2. StreamInv(c)
    OBVIOUS
  <2>3. /\ made[c] = Len(out[c]) + InBlock(c) + Len(f)
        /\ \A k \in 1 .. Len(f) : f[k] = Ts(c, Len(out[c]) + InBlock(c) + k)
    BY <2>2 DEF StreamInv
  <2>4. \A k \in 1 .. Len(f) + 1 :
           Append(f, t)[k] = Ts(c, Len(out[c]) + InBlock(c) + k)
    <3>1. t = Ts(c, Len(out[c]) + InBlock(c) + (Len(f) + 1))
      <4>1. made[c] + 1 = Len(out[c]) + InBlock(c) + (Len(f) + 1)
        BY <1>2, <2>1, <2>3
      <4> QED BY <4>1
    <3> HIDE DEF f, t
    <3> QED BY <3>1, <1>2, <2>3
  <2>5. made'[c] = Len(out[c]) + InBlock(c) + (Len(f) + 1)
    <3>1. made[c] + 1 = Len(out[c]) + InBlock(c) + (Len(f) + 1)
      BY <1>2, <2>1, <2>3
    <3> QED BY <1>1, <3>1
  <2>6. fifo'[c] = Append(f, t) /\ Len(fifo'[c]) = Len(f) + 1
    BY <1>1, <1>2
  <2>7. \A k \in 1 .. Len(fifo'[c]) :
           fifo'[c][k] = Ts(c, Len(out[c]) + InBlock(c) + k)
    BY <2>4, <2>6
  <2> HIDE DEF f, t
  <2> QED BY <1>0, <2>1, <2>2, <2>5, <2>6, <2>7 DEF StreamInv
<1> QED BY <1>3, <1>4, <1>5

\* The handler moves the first timestamp of the FIFO to the end of the block.
LEMMA GetStream == ASSUME SInv, Get
                   PROVE  ReadInv' /\ \A c \in Chan : StreamInv(c)'
<1> USE DEF SInv
<1>t. /\ fifo \in [Chan -> Seq(Stamp)]
      /\ i \in Chan /\ got \in Nat /\ want \in Nat /\ n \in Nat
      /\ block = [c \in Chan |-> block[c]]
  BY DEF TypeOK, FifoTypeOK
<1>n. got \in Nat /\ want \in Nat /\ n \in Nat
  BY <1>t
<1>0. /\ hpc = "get" /\ hpc' = "get" /\ got < want /\ got' = got + 1
      /\ block' = [block EXCEPT ![i] = {Append(data, Output(i)) : data \in @}]
      /\ fifo' = [fifo EXCEPT ![i] = Popped(i)]
      /\ UNCHANGED <<made, stat, left, i, n, redo, want, out, received,
                     transferred, upc>>
  BY DEF Get, Goto, statVars, userVars
<1>1. /\ \A c \in Chan \ {i} : fifo'[c] = fifo[c] /\ block'[c] = block[c]
      /\ fifo'[i] = Popped(i)
      /\ block'[i] = {Append(data, Output(i)) : data \in block[i]}
  BY <1>0, <1>t
<1>2. /\ want = n /\ want - got <= Len(fifo[i]) /\ block[i] # {}
      /\ \A c \in Chan \ {i} : block[c] = {}
  BY <1>0, <1>t DEF ReadInv
<1>3. Len(fifo[i]) \in Nat /\ Len(fifo[i]) > 0 /\ fifo[i] # <<>>
  BY <1>0, <1>t, <1>2, Shapes
<1>4. /\ Output(i) = fifo[i][1] /\ Popped(i) \in Seq(Stamp)
      /\ Output(i) \in Stamp
      /\ Len(Popped(i)) = Len(fifo[i]) - 1
      /\ \A k \in 1 .. Len(fifo[i]) - 1 : Popped(i)[k] = fifo[i][k + 1]
  BY <1>3, <1>t, ReadFacts
<1>5. PICK d \in Seq(Stamp) : block[i] = {d}
  BY <1>2, <1>t, Shapes DEF IsBlock
<1>6. block'[i] = {Append(d, Output(i))}
  BY <1>1, <1>5
<1>7. ReadInv'
  <2>1. /\ \A c \in Chan : upc'[c] = "idle"
        /\ n' > 0 /\ want' = n'
    BY <1>0, <1>2 DEF ReadInv
  <2>2. got' <= want' /\ want' - got' <= Len(fifo'[i'])
    BY <1>0, <1>1, <1>2, <1>3, <1>4, <1>n
  <2>3. block'[i'] # {} /\ want' # 0
    <3>1. i' = i /\ want' = want /\ got < want
      BY <1>0
    <3>2. block'[i'] # {}
      BY <3>1, <1>6
    <3> QED BY <3>1, <3>2, <1>n
  <2>4. \A c \in Chan : block'[c] # {} => c = i'
    BY <1>0, <1>1, <1>2
  <2>5. hpc' = "get"
    BY <1>0
  <2> HIDE DEF SInv
  <2> QED BY <2>1, <2>2, <2>3, <2>4, <2>5 DEF ReadInv
<1>8. ASSUME NEW c \in Chan, c # i PROVE StreamInv(c)'
  BY <1>0, <1>1, <1>2, <1>8, StreamFrame
<1>9. ASSUME NEW c \in Chan, c = i PROVE StreamInv(c)'
  <2> DEFINE l == Len(out[i])
             f == fifo[i]
             e == Append(d, Output(i))
  <2>1. l \in Nat /\ made[i] \in Nat
    BY <1>t, Shapes
  <2>2. /\ made[i] = l + got + Len(f)
        /\ transferred[i] = l
        /\ \A k \in 1 .. l : out[i][k] = Ts(i, k)
        /\ Len(d) = got /\ \A k \in 1 .. got : d[k] = Ts(i, l + k)
        /\ \A k \in 1 .. Len(f) : f[k] = Ts(i, l + got + k)
    <3>1. StreamInv(i)
      BY <1>t
    <3>2. InBlock(i) = got /\ d \in block[i]
      BY <1>2, <1>5 DEF InBlock
    <3> QED BY <3>1, <3>2 DEF StreamInv
  <2>3. /\ Len(e) = got + 1
        /\ \A k \in 1 .. got : e[k] = d[k]
        /\ e[got + 1] = f[1]
    <3>1. Output(i) = f[1]
      BY <1>4
    <3>2. Len(d) = got
      BY <2>2
    <3> QED BY <3>1, <3>2
  <2>4. f[1] = Ts(i, l + (got + 1))
    <3>1. f[1] = Ts(i, l + got + 1)
      BY <1>3, <2>2
    <3> HIDE DEF l, f
    <3>2. l + got + 1 = l + (got + 1)
      BY <1>n, <2>1
    <3> QED BY <3>1, <3>2
  <2>5. \A k \in 1 .. got + 1 : e[k] = Ts(i, l + k)
    <3> HIDE DEF e, f, l
    <3> TAKE k \in 1 .. got + 1
    <3>1. k = got + 1 \/ k \in 1 .. got
      BY <1>n
    <3>2. CASE k = got + 1
      BY <3>2, <2>3, <2>4
    <3>3. CASE k \in 1 .. got
      BY <3>3, <2>2, <2>3
    <3> QED BY <3>1, <3>2, <3>3
  <2>6. \A k \in 1 .. Len(f) - 1 : Popped(i)[k] = Ts(i, l + (got + 1) + k)
    <3> HIDE DEF l
    <3> TAKE k \in 1 .. Len(f) - 1
    <3>1. k + 1 \in 1 .. Len(f) /\ l + got + (k + 1) = l + (got + 1) + k
      BY <1>3, <1>n, <2>1
    <3>2. Popped(i)[k] = f[k + 1] /\ f[k + 1] = Ts(i, l + got + (k + 1))
      BY <3>1, <1>4, <2>2
    <3> QED BY <3>1, <3>2
  <2>7. made[i] = l + (got + 1) + (Len(f) - 1)
    <3>1. made[i] = l + got + Len(f) /\ Len(f) \in Nat
      BY <1>3, <2>2
    <3> HIDE DEF l, f
    <3> QED BY <3>1, <1>n, <2>1
  <2>8. InBlock(c)' = got + 1
    BY <1>0, <1>6, <1>9 DEF InBlock
  <2>9. /\ made'[c] = made[i] /\ out'[c] = out[i]
        /\ transferred'[c] = transferred[i]
        /\ fifo'[c] = Popped(i) /\ Len(fifo'[c]) = Len(f) - 1
        /\ block'[c] = {e} /\ got' = got + 1
    BY <1>0, <1>1, <1>4, <1>6, <1>9
  <2> HIDE DEF e, f
  <2>10. Len(out'[c]) = l
    <3>1. out'[c] = out[i]
      BY <2>9
    <3> QED BY <3>1
  <2> HIDE DEF l
  <2>11. made'[c] = Len(out'[c]) + InBlock(c)' + Len(fifo'[c])
    BY <2>7, <2>8, <2>9, <2>10
  <2>12. transferred'[c] = Len(out'[c])
    BY <2>2, <2>9, <2>10
  <2>13. \A k \in 1 .. Len(out'[c]) : out'[c][k] = Ts(c, k)
    BY <1>9, <2>2, <2>9, <2>10
  <2>14. \A data \in block'[c] :
           /\ Len(data) = got'
           /\ \A k \in 1 .. got' : data[k] = Ts(c, Len(out'[c]) + k)
    BY <1>9, <2>3, <2>5, <2>9, <2>10
  <2>15. \A k \in 1 .. Len(fifo'[c]) :
           fifo'[c][k] = Ts(c, Len(out'[c]) + InBlock(c)' + k)
    BY <1>9, <2>6, <2>8, <2>9, <2>10
  <2> QED BY <2>11, <2>12, <2>13, <2>14, <2>15 DEF StreamInv
<1> QED BY <1>7, <1>8, <1>9

\* The block goes to the reader: it is appended to what came before.
LEMMA DoneStream == ASSUME SInv, DataDone
                    PROVE  ReadInv' /\ \A c \in Chan : StreamInv(c)'
<1> USE DEF SInv
<1>t. /\ i \in Chan /\ got \in Nat /\ want \in Nat
      /\ out \in [Chan -> Seq(Stamp)] /\ transferred \in [Chan -> Nat]
      /\ block = [c \in Chan |-> block[c]]
  BY DEF TypeOK, FifoTypeOK
<1>0. /\ hpc = "get" /\ hpc' = "scan" /\ got = want
      /\ out' = [out EXCEPT ![i] = IF block[i] = {} THEN @
                                   ELSE @ \o CHOOSE data \in block[i] : TRUE]
      /\ block' = [block EXCEPT ![i] = {}]
      /\ transferred' = [transferred EXCEPT ![i] = @ + want]
      /\ UNCHANGED <<fifo, made, i, n, want, got, upc>>
  BY DEF DataDone, Transferred, Goto, fifoVars, userVars
<1>1. /\ \A c \in Chan \ {i} : /\ out'[c] = out[c] /\ block'[c] = block[c]
                               /\ transferred'[c] = transferred[c]
      /\ block'[i] = {}
      /\ transferred'[i] = transferred[i] + want
  BY <1>0, <1>t
<1>2. /\ block[i] = {} <=> want = 0
      /\ \A c \in Chan \ {i} : block[c] = {}
  BY <1>0, <1>t DEF ReadInv
<1>3. \A c \in Chan : block'[c] = {}
  BY <1>1, <1>2
<1>4. ReadInv'
  <2>1. \A c \in Chan : upc'[c] = "idle"
    BY <1>0 DEF ReadInv
  <2>2. hpc' = "scan"
    BY <1>0
  <2> HIDE DEF SInv
  <2> QED BY <1>3, <2>1, <2>2 DEF ReadInv
<1>u. made' = made /\ fifo' = fifo /\ got' = got
  BY <1>0
<1>5. ASSUME NEW c \in Chan, c # i PROVE StreamInv(c)'
  BY <1>u, <1>1, <1>5, StreamFrame
<1>6. ASSUME NEW c \in Chan, c = i, block[i] = {} PROVE StreamInv(c)'
  <2>1. out'[c] = out[c] /\ block'[c] = block[c]
    BY <1>0, <1>1, <1>6, <1>t
  <2>2. transferred'[c] = transferred[c]
    BY <1>1, <1>2, <1>6, <1>t
  <2> QED BY <1>u, <2>1, <2>2, StreamFrame
<1>7. ASSUME NEW c \in Chan, c = i, block[i] # {} PROVE StreamInv(c)'
  <2> DEFINE d == CHOOSE data \in block[i] : TRUE
             l == Len(out[i])
             f == fifo[i]
  <2>1. d \in Seq(Stamp) /\ block[i] = {d}
    BY <1>7, <1>t, BlockData, Shapes
  <2>2. l \in Nat /\ made[i] \in Nat /\ Len(f) \in Nat /\ out[i] \in Seq(Stamp)
    BY <1>t, Shapes
  <2>3. out'[c] = out[i] \o d
    BY <1>0, <1>7, <1>t
  <2>4. StreamInv(i)
    BY <1>t
  <2> HIDE DEF d
  <2>5. /\ made[i] = l + got + Len(f)
        /\ transferred[i] = l
        /\ \A k \in 1 .. l : out[i][k] = Ts(i, k)
        /\ Len(d) = got /\ \A k \in 1 .. got : d[k] = Ts(i, l + k)
        /\ \A k \in 1 .. Len(f) : f[k] = Ts(i, l + got + k)
    BY <1>7, <2>1, <2>4 DEF StreamInv, InBlock
  <2>6. /\ Len(out'[c]) = l + got
        /\ \A k \in 1 .. l : out'[c][k] = out[i][k]
        /\ \A k \in 1 .. got : out'[c][l + k] = d[k]
    <3> DEFINE o == out[i]
    <3>1. /\ Len(o \o d) = Len(o) + Len(d)
          /\ \A k \in 1 .. Len(o) : (o \o d)[k] = o[k]
          /\ \A k \in 1 .. Len(d) : (o \o d)[Len(o) + k] = d[k]
      <4>1. o \in Seq(Stamp) /\ d \in Seq(Stamp)
        BY <2>1, <2>2
      <4> HIDE DEF o
      <4> QED BY <4>1, ConcatFacts
    <3>2. out'[c] = o \o d /\ Len(d) = got
      BY <2>3, <2>5
    <3> QED BY <3>1, <3>2
  <2>7. \A k \in 1 .. Len(out'[c]) : out'[c][k] = Ts(c, k)
    <3> HIDE DEF l
    <3> TAKE k \in 1 .. Len(out'[c])
    <3>1. CASE k <= l
      <4>1. k \in 1 .. l
        BY <3>1, <2>2, <2>6
      <4> QED BY <4>1, <1>7, <2>5, <2>6
    <3>2. CASE ~(k <= l)
      <4>1. k - l \in 1 .. got /\ l + (k - l) = k
        <5>1. k \in 1 .. l + got
          BY <2>6
        <5>2. got \in Nat
          BY <1>t
        <5> QED BY <3>2, <5>1, <5>2, <2>2
      <4>2. out'[c][l + (k - l)] = d[k - l] /\ d[k - l] = Ts(i, l + (k - l))
        BY <4>1, <2>5, <2>6
      <4> QED BY <4>1, <4>2, <1>7
    <3> QED BY <3>1, <3>2
  <2>8. InBlock(c)' = 0 /\ block'[c] = {}
    BY <1>3 DEF InBlock
  <2>9. made'[c] = Len(out'[c]) + InBlock(c)' + Len(fifo'[c])
    <3>1. made'[c] = made[i] /\ fifo'[c] = f
      BY <1>u, <1>7
    <3>2. got \in Nat
      BY <1>t
    <3> HIDE DEF l, f
    <3>3. made[i] = (l + got) + 0 + Len(f)
      BY <2>2, <2>5, <3>2
    <3> QED BY <3>1, <3>3, <2>6, <2>8
  <2>10. transferred'[c] = Len(out'[c])
    BY <1>0, <1>1, <1>7, <2>5, <2>6
  <2>11. \A k \in 1 .. Len(fifo'[c]) :
            fifo'[c][k] = Ts(c, Len(out'[c]) + InBlock(c)' + k)
    <3>1. fifo'[c] = f
      BY <1>u, <1>7
    <3>2. got \in Nat
      BY <1>t
    <3> HIDE DEF l, f
    <3> TAKE k \in 1 .. Len(fifo'[c])
    <3>3. f[k] = Ts(i, l + got + k) /\ l + got + k = (l + got) + 0 + k
      BY <2>2, <2>5, <3>1, <3>2
    <3> QED BY <3>1, <3>3, <2>6, <2>8, <1>7
  <2> QED BY <2>7, <2>8, <2>9, <2>10, <2>11 DEF StreamInv
<1> QED BY <1>4, <1>5, <1>6, <1>7

\* The handler has a block, or it has none and leaves the FIFO alone.
LEMMA ArmStream == ASSUME SInv, Arm
                   PROVE  ReadInv' /\ \A c \in Chan : StreamInv(c)'
<1> USE DEF SInv
<1>t. /\ i \in Chan /\ n \in Nat /\ block = [c \in Chan |-> block[c]]
  BY DEF TypeOK
<1>0. /\ hpc = "arm" /\ hpc' = "get" /\ got' = 0
      /\ UNCHANGED <<fifo, made, i, n, out, transferred, upc>>
      /\ \/ block' = [block EXCEPT ![i] = {<<>>}] /\ want' = n
         \/ block' = block /\ want' = 0
  BY DEF Arm, Goto, fifoVars, userVars
<1>1. /\ n > 0 /\ n <= Len(fifo[i]) /\ Len(fifo[i]) \in Nat
      /\ \A c \in Chan : block[c] = {}
  BY <1>0, <1>t, Shapes DEF ReadInv
<1>2. /\ \A c \in Chan \ {i} : block'[c] = {}
      /\ \/ block'[i] = {<<>>} /\ want' = n
         \/ block'[i] = {} /\ want' = 0
  BY <1>0, <1>1, <1>t
<1>u. /\ made' = made /\ fifo' = fifo /\ out' = out
      /\ transferred' = transferred /\ got' = 0 /\ i' = i /\ n' = n
  BY <1>0
<1>3. ReadInv'
  <2>1. \A c \in Chan : upc'[c] = "idle"
    BY <1>0 DEF ReadInv
  <2>2. hpc' = "get"
    BY <1>0
  <2>3. /\ want' \in {0, n'} /\ got' <= want'
        /\ want' - got' <= Len(fifo'[i'])
        /\ block'[i'] = {} <=> want' = 0
    <3>1. /\ i' = i /\ n' = n /\ got' = 0 /\ fifo'[i'] = fifo[i]
          /\ n \in Nat /\ n > 0 /\ n <= Len(fifo[i]) /\ Len(fifo[i]) \in Nat
      BY <1>1, <1>t, <1>u
    <3>2. CASE block'[i] = {<<>>} /\ want' = n
      <4>1. block'[i'] # {} /\ want' # 0
        BY <3>1, <3>2
      <4> QED BY <3>1, <3>2, <4>1
    <3>3. CASE block'[i] = {} /\ want' = 0
      <4>1. block'[i'] = {}
        BY <3>1, <3>3
      <4> QED BY <3>1, <3>3, <4>1
    <3> QED BY <1>2, <3>2, <3>3
  <2> HIDE DEF SInv
  <2> QED BY <1>1, <1>2, <1>u, <2>1, <2>2, <2>3 DEF ReadInv
<1>4. ASSUME NEW c \in Chan PROVE StreamInv(c)'
  <2>1. InBlock(c)' = InBlock(c)
    BY <1>1, <1>2, <1>u DEF InBlock
  <2>2. \A data \in block'[c] : data = <<>>
    BY <1>2
  <2>3. Len(<<>>) = 0
    OBVIOUS
  <2>4. \A data \in block'[c] :
           Len(data) = got' /\ \A k \in 1 .. got' :
                                  data[k] = Ts(c, Len(out'[c]) + k)
    BY <2>2, <2>3, <1>u
  <2>5. StreamInv(c) /\ made'[c] = made[c] /\ fifo'[c] = fifo[c]
        /\ out'[c] = out[c] /\ transferred'[c] = transferred[c]
    BY <1>u
  <2> HIDE DEF SInv
  <2>6. /\ made'[c] = Len(out'[c]) + InBlock(c)' + Len(fifo'[c])
        /\ transferred'[c] = Len(out'[c])
        /\ \A k \in 1 .. Len(out'[c]) : out'[c][k] = Ts(c, k)
    BY <2>1, <2>5 DEF StreamInv
  <2>7. \A k \in 1 .. Len(fifo'[c]) :
           fifo'[c][k] = Ts(c, Len(out'[c]) + InBlock(c)' + k)
    BY <2>1, <2>5 DEF StreamInv
  <2> QED BY <2>4, <2>6, <2>7 DEF StreamInv
<1> QED BY <1>3, <1>4

\* The other steps move the handler or the interrupt lines only.
LEMMA QuietStream ==
  ASSUME SInv, UNCHANGED <<fifo, made, block, out, transferred, got>>,
         ReadInv'
  PROVE  \A c \in Chan : StreamInv(c)'
  BY StreamFrame DEF SInv

\* Every step keeps the stream invariant, if inputs stay open.
LEMMA StreamStep == ASSUME StayOpen, SInv, [Next]_vars
                    PROVE  SInv'
<1> USE DEF SInv
<1> SUFFICES ReadInv' /\ \A c \in Chan : StreamInv(c)'
  BY TypeStep
<1> USE DEF fifoVars, handlerVars, zioVars, statVars, userVars, Goto
<1>s. /\ \A c \in Chan : disables[c] = 0
      /\ \A c \in Chan : fifo[c] \in Seq(Stamp)
  BY DEF StayOpen, TypeOK, FifoTypeOK
<1>1. ASSUME NEW c \in Chan, FifoStep(c), DriverUnchanged
      PROVE  ReadInv' /\ \A d \in Chan : StreamInv(d)'
  <2>1. CASE Arrive(c)
    BY <1>1, <2>1, ArriveStream
  <2>2. CASE AssertIrq(c) \/ DropIrq(c)
    <3>1. UNCHANGED <<fifo, made, block, out, transferred, got, upc, hpc, i, n,
                      want>>
      BY <1>1, <2>2 DEF AssertIrq, DropIrq, DriverUnchanged
    <3>2. ReadInv'
      BY <3>1 DEF ReadInv
    <3> QED BY <3>1, <3>2, QuietStream
  <2> QED BY <1>1, <2>1, <2>2 DEF FifoStep
<1>2. CASE Interrupt \/ ReadIsr \/ Again \/ Return
  <2>1. /\ UNCHANGED <<fifo, made, block, out, transferred, got, upc, i, n,
                       want>>
        /\ hpc' \in {"idle", "isr", "scan"} /\ hpc # "get"
    BY <1>2 DEF Interrupt, ReadIsr, Again, Return
  <2>2. ReadInv'
    BY <2>1 DEF ReadInv
  <2> QED BY <2>1, <2>2, QuietStream
<1>3. ASSUME NEW c \in Chan, SkipEmpty(c)
      PROVE  ReadInv' /\ \A d \in Chan : StreamInv(d)'
  <2>1. /\ UNCHANGED <<fifo, made, block, out, transferred, got, upc, want>>
        /\ hpc' = "scan" /\ hpc = "scan"
    BY <1>3 DEF SkipEmpty
  <2>2. ReadInv'
    BY <2>1 DEF ReadInv
  <2> QED BY <2>1, <2>2, QuietStream
<1>4. ASSUME NEW c \in Chan, ReadCsr(c)
      PROVE  ReadInv' /\ \A d \in Chan : StreamInv(d)'
  <2>1. /\ UNCHANGED <<fifo, made, block, out, transferred, got, upc, want>>
        /\ hpc = "scan" /\ UsedW(c) # 0 /\ n' = UsedW(c) /\ i' = c
        /\ hpc' = IF Full(c) THEN "flush" ELSE "arm"
    BY <1>4 DEF ReadCsr
  <2>2. UsedW(c) \in Nat /\ UsedW(c) <= Len(fifo[c]) /\ ~Full(c)
    BY <1>s, <2>1, UsedWFacts DEF StayOpen
  <2>3. /\ hpc' = "arm" /\ n' > 0 /\ n' <= Len(fifo'[i'])
    BY <2>1, <2>2
  <2>4. ReadInv'
    BY <2>1, <2>3 DEF ReadInv
  <2> QED BY <2>1, <2>4, QuietStream
<1>5. ~Flush
  BY DEF Flush, ReadInv
<1>6. \A c \in Chan : ~DisableInput(c) /\ ~Close(c)
  BY <1>s DEF StayOpen, ReadInv, DisableInput, Close, AbortTrigger, ClearFifo,
              UserGoto
<1>7. ASSUME NEW c \in Chan, EnableInput(c)
      PROVE  ReadInv' /\ \A d \in Chan : StreamInv(d)'
  <2>1. /\ UNCHANGED <<fifo, made, block, out, transferred, got, hpc, i, n,
                       want>>
        /\ upc' = [upc EXCEPT ![c] = "idle"]
    BY <1>7 DEF EnableInput, UserGoto
  <2>2. \A d \in Chan : upc'[d] = "idle"
    BY <2>1 DEF ReadInv, TypeOK
  <2>3. ReadInv'
    BY <2>1, <2>2 DEF ReadInv
  <2> QED BY <2>1, <2>3, QuietStream
<1>8. CASE UNCHANGED vars
  <2>1. UNCHANGED <<fifo, made, block, out, transferred, got, upc, hpc, i, n,
                    want>>
    BY <1>8 DEF vars
  <2>2. ReadInv'
    BY <2>1 DEF ReadInv
  <2> QED BY <2>1, <2>2, QuietStream
<1> HIDE DEF SInv
<1> QED BY <1>1, <1>2, <1>3, <1>4, <1>5, <1>6, <1>7, <1>8, ArmStream,
           GetStream, DoneStream DEF Next, Handler, User

-----------------------------------------------------------------------------

\* The attribute "transferred" counts what the reader was given.
THEOREM TransferredIsTrue == ASSUME StayOpen
                             PROVE  Spec => []TransferredIsDelivered
<1>1. SInv => TransferredIsDelivered
  BY DEF SInv, StreamInv, TransferredIsDelivered
<1>2. SInv /\ [Next]_vars => SInv'
  BY StreamStep
<1> QED BY <1>1, <1>2, StreamInit, PTL DEF Spec

-----------------------------------------------------------------------------
(* Refinement *)

\* DataDone either has nothing to hand over or is a delivery.
LEMMA DoneDelivers == ASSUME SInv, DataDone
                      PROVE  Stream!Deliver(i) \/ UNCHANGED <<made, out>>
<1>t. /\ i \in Chan /\ got \in Nat /\ want \in Nat /\ n \in Nat
      /\ out \in [Chan -> Seq(Stamp)]
  BY DEF SInv, TypeOK
<1>0. /\ hpc = "get" /\ got = want /\ made' = made /\ fifo' = fifo
      /\ out' = [out EXCEPT ![i] = IF block[i] = {} THEN @
                                   ELSE @ \o CHOOSE data \in block[i] : TRUE]
      /\ block' = [block EXCEPT ![i] = {}]
  BY DEF DataDone, Goto, fifoVars
<1>1. CASE block[i] = {}
  BY <1>0, <1>1, <1>t
<1>2. CASE block[i] # {}
  <2>1. got > 0
    BY <1>0, <1>2, <1>t DEF SInv, ReadInv
  <2>2. StreamInv(i) /\ \A c \in Chan : StreamInv(c)'
    BY <1>t, DoneStream DEF SInv
  <2>3. TypeOK'
    BY TypeStep DEF SInv, Next, Handler
  <2> DEFINE m == Len(out'[i])
  <2>4. /\ out'[i] \in Seq(Stamp) /\ m \in Nat
    BY <2>3, <1>t, Shapes DEF TypeOK
  <2>5. \A k \in 1 .. m : out'[i][k] = Ts(i, k)
    BY <2>2, <1>t DEF StreamInv
  <2>6. out'[i] = Stream!Stamps(i, m)
    <3>1. out'[i] = [k \in 1 .. m |-> out'[i][k]]
      BY <2>4
    <3> HIDE DEF m
    <3>2. out'[i] = [k \in 1 .. m |-> <<i, k>>]
      BY <3>1, <2>5 DEF Ts
    <3> QED BY <3>2 DEF Stream!Stamps
  <2>7. m \in Len(out[i]) + 1 .. made[i]
    <3>1. made[i] = Len(out[i]) + got + Len(fifo[i])
      BY <1>2, <2>2 DEF StreamInv, InBlock
    <3>2. block'[i] = {}
      BY <1>0, <1>t DEF SInv, TypeOK
    <3>3. made'[i] = m + 0 + Len(fifo'[i])
      BY <3>2, <2>2, <1>t DEF StreamInv, InBlock
    <3>4. made'[i] = made[i] /\ fifo'[i] = fifo[i]
      BY <1>0
    <3>5. Len(fifo[i]) \in Nat /\ Len(out[i]) \in Nat
      BY <1>t, Shapes DEF SInv
    <3> HIDE DEF m
    <3>6. made[i] = m + Len(fifo[i])
      BY <3>3, <3>4, <3>5, <2>4
    <3>7. got \in Nat /\ m \in Nat
      BY <1>t, <2>4
    <3>8. \A x, a, g, f, l \in Nat :
             x = a + g + f /\ x = l + f /\ g > 0 => l \in a + 1 .. x
      BY Z3
    <3>9. made[i] \in Nat
      BY <3>5, <3>6, <3>7
    <3> QED BY <2>1, <3>1, <3>5, <3>6, <3>7, <3>8, <3>9
  <2>8. out' = [out EXCEPT ![i] = out'[i]]
    BY <1>0, <1>t
  <2> HIDE DEF m
  <2>9. \E k \in Len(out[i]) + 1 .. made[i] :
           out' = [out EXCEPT ![i] = Stream!Stamps(i, k)]
    BY <2>6, <2>7, <2>8
  <2> QED BY <2>9, <1>0 DEF Stream!Deliver
<1> QED BY <1>1, <1>2

\* Every step of handler and FIFO is a step of the stream, or none.
LEMMA StreamSimulation == ASSUME StayOpen, SInv, [Next]_vars
                          PROVE  [Stream!Next]_<<made, out>>
<1> USE DEF fifoVars, handlerVars, zioVars, statVars, userVars
<1>1. ASSUME NEW c \in Chan, FifoStep(c), DriverUnchanged
      PROVE  [Stream!Next]_<<made, out>>
  <2>1. CASE Arrive(c)
    <3>1. Stream!Take(c)
      BY <1>1, <2>1 DEF Arrive, DriverUnchanged, Stream!Take
    <3> QED BY <3>1 DEF Stream!Next
  <2> QED BY <1>1, <2>1 DEF FifoStep, AssertIrq, DropIrq, DriverUnchanged
<1>2. CASE DataDone
  <2>1. i \in Chan
    BY DEF SInv, TypeOK
  <2> QED BY <1>2, <2>1, DoneDelivers DEF Stream!Next
<1>3. CASE Interrupt \/ ReadIsr \/ Flush \/ Arm \/ Get \/ Again \/ Return
  BY <1>3 DEF Interrupt, ReadIsr, Flush, Arm, Get, Again, Return
<1>4. ASSUME NEW c \in Chan, SkipEmpty(c) \/ ReadCsr(c)
      PROVE  UNCHANGED <<made, out>>
  BY <1>4 DEF SkipEmpty, ReadCsr
<1>5. CASE User
  BY <1>5 DEF User, EnableInput, DisableInput, Close, AbortTrigger, ClearFifo
<1>6. CASE UNCHANGED vars
  BY <1>6 DEF vars
<1> QED BY <1>1, <1>2, <1>3, <1>4, <1>5, <1>6 DEF Next, Handler

\* As long as inputs stay open, the handler and the FIFO together are a stream:
\* what the FIFO accepts reaches the reader once and in order, whatever blocks
\* cannot be allocated and however often the handler reads again.
THEOREM FifoIsAStream == ASSUME StayOpen PROVE Spec => ImplementsStream
<1>1. Init => Stream!Init
  BY DEF Init, FifoInit, Stream!Init
<1>2. SInv /\ [Next]_vars => SInv' /\ [Stream!Next]_<<made, out>>
  BY StreamStep, StreamSimulation
<1> QED BY <1>1, <1>2, StreamInit, PTL
        DEF Spec, ImplementsStream, Stream!Spec
=============================================================================
