--------------------------- MODULE FtSysfsProofs ---------------------------
(***************************************************************************)
(* FtSysfs: what ft->lock protects is never seen half written, and          *)
(* INPUT_ENABLE stays true as long as accesses to it do not overlap, for    *)
(* any number of processes and inputs.                                      *)
(***************************************************************************)
EXTENDS FtSysfs, TsMathProofs

OffSteps == {"off_seconds", "off_coarse", "off_frac"}
LockSteps == OffSteps \union {"wr_mode", "vcxo"}

Ien == [acq : SUBSET Chan, term : SUBSET Chan, flag : BOOLEAN]
Labels == IenSteps \union LockSteps
          \union {"idle", "done", "show", "store", "offset", "query", "wr"}
Req == [at : Labels, acc : Attribute, ien : Ien, err : Errno, ret : Int]
State == [enabled : Int, terminated : Int, user_offset : Int, type : BufferTypes,
          prefer_new : Int, kb : Int]

TypeInv ==
  /\ ien \in Ien
  /\ tsf \in [Chan -> [off : AnyTs, raw : Int]]
  /\ tmo \in [mode : Modes, timeout : Int, threshold : Int, csr : [Chan -> Int]]
  /\ tai \in [start : Int, current : Int]
  /\ wr \in [ctrl : {0, 1}, mode : {0, 1}]
  /\ st \in [Chan -> State]
  /\ lock \in User \union {Nobody}
  /\ req \in [User -> Req]
  /\ clash \in BOOLEAN

-----------------------------------------------------------------------------
\* Arithmetic keeps integers integers.
LEMMA OffsetsAreInts ==
  ASSUME NEW t \in AnyTs, NEW p \in Int
  PROVE  ApplyOffset(t, p) \in AnyTs
  <1>1. \A q \in Nat : FromPicos(q) \in AnyTs
    <2> SUFFICES ASSUME NEW q \in Nat PROVE FromPicos(q) \in AnyTs
      OBVIOUS
    <2>1. q \div Picos \in Int /\ q % Picos \in Int
      BY TsConstants
    <2>2. (q % Picos) * Frac \in Int
      BY <2>1, TsConstants
    <2>3. ((q % Picos) * Frac) \div Picos \in Int
      BY <2>2, TsConstants
    <2> QED BY <2>1, <2>3 DEF FromPicos, Ts, AnyTs
  <1>2. \A s \in Int : Wrap(s) \in Int
    BY TsConstants DEF Wrap
  <1>3. \A q \in AnyTs : Add(t, q) \in AnyTs
    BY <1>2, TsConstants DEF Add, Ts, AnyTs
  <1>4. \A q \in AnyTs : Sub(t, q) \in AnyTs
    BY <1>2, TsConstants DEF Sub, Ts, AnyTs
  <1>5. CASE p < 0
    <2>1. -p \in Nat
      BY <1>5
    <2> QED BY <1>1, <1>4, <1>5, <2>1 DEF ApplyOffset
  <1>6. CASE ~(p < 0)
    BY <1>1, <1>3, <1>6 DEF ApplyOffset
  <1> QED BY <1>5, <1>6

\* An offset in force has integers in its fields.
LEMMA HwOffsetIsInts ==
  ASSUME NEW v \in Int
  PROVE  HwOffset(v) \in AnyTs
  <1>1. Zero \in AnyTs
    BY DEF Zero, Ts, AnyTs
  <1>2. ApplyOffset(Zero, ZeroOffset) \in AnyTs
    BY <1>1, OffsetsAreInts, SysfsConstants
  <1>3. -WrOffset \in Int
    BY SysfsConstants
  <1>4. ApplyOffset(ApplyOffset(Zero, ZeroOffset), -WrOffset) \in AnyTs
    BY <1>2, <1>3, OffsetsAreInts
  <1>5. ApplyOffset(ApplyOffset(ApplyOffset(Zero, ZeroOffset), -WrOffset), v) \in AnyTs
    BY <1>4, OffsetsAreInts
  <1> QED BY <1>4, <1>5 DEF HwOffset

\* There is a first input.
LEMMA ChanZero == 0 \in Chan
  BY SysfsConstants DEF Chan

\* The empty copy of INPUT_ENABLE has its type.
LEMMA NoIenType == NoIen \in Ien
  BY DEF NoIen, Ien

\* An idle access has its type.
LEMMA IdleReqType == IdleReq \in Req
  <1>1. GetOf("none", 0) \in Attribute
    BY ChanZero DEF GetOf, Attribute, AttrName
  <1> HIDE DEF Attribute
  <1> QED BY <1>1, NoIenType DEF IdleReq, Req, Labels, Errno

\* The first step of every access.
FirstLabels == {"show", "enable", "term_read", "offset", "seconds", "tai_read", "query", "wr", "store"}

\* An access starts outside the steps that hold ft->lock, and enters those of
\* INPUT_ENABLE at their beginning.
LEMMA FirstSteps ==
  ASSUME NEW a \in Attribute
  PROVE  /\ First(a) \in Labels /\ First(a) \notin LockSteps
         /\ First(a) \in IenSteps => First(a) \in {"enable", "term_read", "seconds", "tai_read"}
  <1>1. a.set \in BOOLEAN
    BY DEF Attribute
  <1>2. CASE ~a.set
    BY <1>2 DEF First, Labels, LockSteps, OffSteps, IenSteps, EnableSteps, TimeSteps, TermSteps
  <1>3. CASE a.set
    <2>1. First(a) \in FirstLabels
      <3> DEFINE n == a.attr
      <3>1. CASE n = "enable" BY <1>3, <3>1 DEF First, FirstLabels
      <3>2. CASE n = "termination" BY <1>3, <3>2 DEF First, FirstLabels
      <3>3. CASE n = "user-offset" BY <1>3, <3>3 DEF First, FirstLabels
      <3>4. CASE n = "seconds" BY <1>3, <3>4 DEF First, FirstLabels
      <3>5. CASE n = "command" BY <1>3, <3>5 DEF First, FirstLabels
      <3>6. CASE n \notin {"enable", "termination", "user-offset", "seconds", "command"}
        BY <1>3, <3>6 DEF First, FirstLabels
      <3> QED BY <3>1, <3>2, <3>3, <3>4, <3>5, <3>6
    <2> QED BY <2>1 DEF FirstLabels, Labels, LockSteps, OffSteps, IenSteps, EnableSteps, TimeSteps, TermSteps
  <1> QED BY <1>1, <1>2, <1>3

-----------------------------------------------------------------------------
\* What a step of process u does to req.
Moved(u, l) ==
  /\ req' \in [User -> Req]
  /\ req'[u].at = l
  /\ req'[u].acc = req[u].acc
  /\ \A w \in User : w # u => req'[w] = req[w]

\* GoTo changes nothing but where one process is.
LEMMA GoToMoves ==
  ASSUME req \in [User -> Req], NEW u \in User, NEW l \in Labels, GoTo(u, l)
  PROVE  Moved(u, l) /\ req'[u].ien = req[u].ien
  <1>1. req' = [req EXCEPT ![u] = [req[u] EXCEPT !.at = l]]
    BY DEF GoTo
  <1> DEFINE r == [req[u] EXCEPT !.at = l]
  <1>2. r \in Req /\ r.at = l /\ r.acc = req[u].acc /\ r.ien = req[u].ien
    BY DEF Req
  <1> HIDE DEF r
  <1> QED BY <1>1, <1>2 DEF Moved, r

\* Done ends the access of one process and leaves the others alone.
LEMMA DoneMoves ==
  ASSUME req \in [User -> Req], NEW u \in User, NEW e \in Errno, NEW v \in Int, Done(u, e, v)
  PROVE  Moved(u, "done")
  <1> DEFINE r == [req[u] EXCEPT !.at = "done", !.ien = NoIen, !.err = e, !.ret = v]
  <1>1. req' = [req EXCEPT ![u] = r]
    BY DEF Done
  <1>2. r \in Req /\ r.at = "done" /\ r.acc = req[u].acc
    BY NoIenType DEF Req, Labels
  <1> HIDE DEF r
  <1> QED BY <1>1, <1>2 DEF Moved

\* OkGoTo goes on or ends the access.
LEMMA OkGoToMoves ==
  ASSUME req \in [User -> Req], NEW u \in User, NEW ok \in BOOLEAN, NEW l \in Labels,
         OkGoTo(u, ok, l)
  PROVE  Moved(u, l) \/ Moved(u, "done")
  <1>1. CASE ok
    <2>1. GoTo(u, l)
      BY <1>1 DEF OkGoTo
    <2> QED BY <2>1, GoToMoves
  <1>2. CASE ~ok
    <2>1. Done(u, "none", 0)
      BY <1>2 DEF OkGoTo
    <2> QED BY <2>1, DoneMoves DEF Errno
  <1> QED BY <1>1, <1>2

\* The steps an action can lead to are labels.
LEMMA AllLabels ==
  {"idle", "done", "show", "store", "offset", "query", "wr", "wr_mode", "vcxo", "enable",
   "en_read", "en_write", "abort", "seconds", "tai_read", "tai_off", "tai_start", "tai_load",
   "tai_on", "term_read", "term_write", "term_flag", "off_seconds", "off_coarse",
   "off_frac"} \subseteq Labels
  BY DEF Labels, IenSteps, EnableSteps, TimeSteps, TermSteps, LockSteps, OffSteps

\* The registers and variables change in few actions: the rest of the types
\* stays.
LEMMA OthersKeepTypes ==
  ASSUME TypeInv, req' \in [User -> Req], clash' \in BOOLEAN,
         UNCHANGED <<ien, tsf, tmo, tai, wr, st>>, lock' \in User \union {Nobody}
  PROVE  TypeInv'
  BY DEF TypeInv

\* What a process keeps of its access has its type.
LEMMA AccTypes ==
  ASSUME TypeInv, NEW u \in User
  PROVE  /\ req[u] \in Req /\ Ch(u) \in Chan /\ Val(u) \in Int
         /\ req[u].ien \in Ien /\ st[Ch(u)] \in State
  <1>1. req[u] \in Req
    BY DEF TypeInv
  <1>2. req[u].acc \in Attribute /\ req[u].ien \in Ien
    BY <1>1 DEF Req
  <1>3. Ch(u) \in Chan /\ Val(u) \in Int
    BY <1>2 DEF Ch, Val, Attribute
  <1> QED BY <1>1, <1>2, <1>3 DEF TypeInv

\* Every attribute shows an integer.
LEMMA ShownIsInt ==
  ASSUME TypeInv, NEW u \in User
  PROVE  Shown(Acc(u)) \in Int
  <1> DEFINE a == Acc(u)
             c == a.chan
  <1>1. c \in Chan
    BY AccTypes DEF Acc, Ch
  <1>2. /\ st[c].enabled \in Int /\ st[c].terminated \in Int /\ st[c].user_offset \in Int
        /\ st[c].prefer_new \in Int /\ st[c].kb \in Int
    BY <1>1 DEF TypeInv, State
  <1>3. tsf[c].raw \in Int
    BY <1>1 DEF TypeInv
  <1>4. tai.current \in Int
    BY DEF TypeInv
  <1>5. TimeoutGet(c) \in Int
    BY <1>1 DEF TypeInv, TimeoutGet, Mode
  <1>6. (IF st[c].type = "kmalloc" THEN 0 ELSE 1) \in Int
    OBVIOUS
  <1> HIDE DEF c, a
  <1> SUFFICES Shown(a) \in Int
    BY DEF a
  <1>7. c = a.chan
    BY DEF c
  <1> QED BY <1>2, <1>3, <1>4, <1>5, <1>6, <1>7 DEF Shown

-----------------------------------------------------------------------------
\* Every step keeps the types.
LEMMA TypeStep ==
  ASSUME TypeInv, [SysNext]_sysVars
  PROVE  TypeInv'
  <1>1. CASE UNCHANGED sysVars
    BY <1>1 DEF sysVars, TypeInv
  <1>2. ASSUME NEW u \in User, NEW a \in Attribute, Access(u, a)
        PROVE  TypeInv'
    <2> DEFINE r == [IdleReq EXCEPT !.at = First(a), !.acc = a]
    <2>1. r \in Req
      BY IdleReqType, FirstSteps DEF Req
    <2>2. req' = [req EXCEPT ![u] = r]
      BY <1>2 DEF Access
    <2> HIDE DEF r
    <2>3. req' \in [User -> Req]
      BY <2>1, <2>2 DEF TypeInv
    <2>4. clash' \in BOOLEAN
      BY <1>2 DEF TypeInv, Access
    <2> QED BY <1>2, <2>3, <2>4, OthersKeepTypes DEF Access, TypeInv
  <1>3. ASSUME NEW u \in User, NEW a \in Attribute, AccessFails(u, a)
        PROVE  TypeInv'
    <2> DEFINE r == [IdleReq EXCEPT !.at = "done", !.acc = a, !.err = "EIO"]
    <2>1. r \in Req
      BY IdleReqType, AllLabels DEF Req, Errno
    <2>2. req' = [req EXCEPT ![u] = r]
      BY <1>3 DEF AccessFails
    <2> HIDE DEF r
    <2>3. req' \in [User -> Req]
      BY <2>1, <2>2 DEF TypeInv
    <2> QED BY <1>3, <2>3, OthersKeepTypes DEF AccessFails, TypeInv
  <1>4. ASSUME NEW u \in User, Return(u)
        PROVE  TypeInv'
    <2>1. req' \in [User -> Req]
      BY <1>4, IdleReqType DEF TypeInv, Return
    <2> QED BY <1>4, <2>1, OthersKeepTypes DEF Return, TypeInv
  <1>5. ASSUME NEW u \in User, NEW l \in Labels, NEW n \in Labels, ReadInputEnable(u, l, n)
        PROVE  TypeInv'
    <2> DEFINE r == [req[u] EXCEPT !.at = n, !.ien = ien]
    <2>1. r \in Req
      BY AccTypes DEF Req, TypeInv
    <2>2. req' = [req EXCEPT ![u] = r]
      BY <1>5 DEF ReadInputEnable
    <2> HIDE DEF r
    <2>3. req' \in [User -> Req]
      BY <2>1, <2>2 DEF TypeInv
    <2> QED BY <1>5, <2>3, OthersKeepTypes DEF ReadInputEnable, TypeInv
  <1>6. ASSUME NEW u \in User, AttrStep(u) \/ Abort(u)
        PROVE  TypeInv'
    <2> USE AllLabels
    <2> DEFINE c == Ch(u)
               v == Val(u)
    <2>c. c \in Chan /\ v \in Int /\ req[u].ien \in Ien /\ req \in [User -> Req]
      BY AccTypes DEF TypeInv
    <2>d. ASSUME NEW e \in Errno, NEW x \in Int, Done(u, e, x) PROVE req' \in [User -> Req]
      BY <2>c, <2>d, DoneMoves DEF Moved
    <2>g. ASSUME NEW l \in Labels, GoTo(u, l) PROVE req' \in [User -> Req]
      BY <2>c, <2>g, GoToMoves DEF Moved
    <2>o. ASSUME NEW ok \in BOOLEAN, NEW l \in Labels, OkGoTo(u, ok, l) PROVE req' \in [User -> Req]
      BY <2>c, <2>o, OkGoToMoves DEF Moved
    <2>e. Errno = {"none", "EINVAL", "EPERM", "ENODEV", "ENOLINK", "EAGAIN", "EIO"}
      BY DEF Errno
    <2> HIDE DEF c, v
    <2>1. CASE Show(u)
      BY <2>1, <2>d, <2>e, ShownIsInt, OthersKeepTypes DEF Show, TypeInv
    <2>2. CASE ShowInvalid(u) \/ OffsetRejected(u) \/ Abort(u)
      BY <2>2, <2>d, <2>e, OthersKeepTypes DEF ShowInvalid, OffsetRejected, Abort, TypeInv
    <2>3. CASE Store(u)
      <3>1. req' \in [User -> Req]
        BY <2>3, <2>d, <2>e DEF Store
      <3>2. tsf' \in [Chan -> [off : AnyTs, raw : Int]]
        <4>1. \/ tsf' = tsf
              \/ tsf' = [tsf EXCEPT ![c].raw = v]
          BY <2>3 DEF Store, c, v
        <4> QED BY <4>1, <2>c DEF TypeInv
      <3>3. tmo' \in [mode : Modes, timeout : Int, threshold : Int, csr : [Chan -> Int]]
        <4>1. \/ tmo' = tmo
              \/ tmo' = [tmo EXCEPT !.timeout = v]
              \/ tmo' = [tmo EXCEPT !.csr[c] = v]
          BY <2>3 DEF Store, TimeoutSet, c, v
        <4> QED BY <4>1, <2>c DEF TypeInv
      <3>4. st' \in [Chan -> State]
        <4> DEFINE t == IF v = 0 THEN "kmalloc" ELSE "vmalloc"
        <4>1. \/ st' = st
              \/ st' = [st EXCEPT ![c].prefer_new = v]
              \/ st' = [st EXCEPT ![c].kb = v]
              \/ st' = [st EXCEPT ![c].type = t]
          BY <2>3 DEF Store, c, v
        <4>2. t \in BufferTypes
          BY DEF BufferTypes
        <4> HIDE DEF t
        <4>3. st \in [Chan -> State]
          BY DEF TypeInv
        <4>4. CASE st' = [st EXCEPT ![c].prefer_new = v]
          BY <4>3, <4>4, <2>c DEF State
        <4>5. CASE st' = [st EXCEPT ![c].kb = v]
          BY <4>3, <4>5, <2>c DEF State
        <4>6. CASE st' = [st EXCEPT ![c].type = t]
          BY <4>2, <4>3, <4>6, <2>c DEF State
        <4> QED BY <4>1, <4>3, <4>4, <4>5, <4>6
      <3> QED BY <2>3, <3>1, <3>2, <3>3, <3>4 DEF Store, TypeInv
    <2>4. CASE Enable(u)
      <3>1. req' \in [User -> Req]
        BY <2>4, <2>o DEF Enable
      <3>2. st' = [st EXCEPT ![c].enabled = v]
        BY <2>4 DEF Enable, c, v
      <3>3. st' \in [Chan -> State]
        BY <3>2, <2>c DEF TypeInv, State
      <3> QED BY <2>4, <3>1, <3>3 DEF Enable, TypeInv
    <2>5. CASE EnRead(u) \/ TermRead(u) \/ TaiRead(u)
      BY <2>5, <1>5 DEF EnRead, TermRead, TaiRead
    <2>6. CASE EnWrite(u)
      <3>1. req' \in [User -> Req]
        BY <2>6, <2>o DEF EnWrite
      <3>2. ien' = [req[u].ien EXCEPT !.acq = AcqBits(req[u].ien, c, v)]
        BY <2>6 DEF EnWrite, c, v
      <3>3. AcqBits(req[u].ien, c, v) \in SUBSET Chan
        BY <2>c DEF AcqBits, Ien
      <3>4. ien' \in Ien
        BY <3>2, <3>3, <2>c DEF Ien
      <3> QED BY <2>6, <3>1, <3>4 DEF EnWrite, TypeInv
    <2>7. CASE TermWrite(u)
      <3>1. req' \in [User -> Req]
        BY <2>7, <2>g DEF TermWrite
      <3> DEFINE t == IF v = 1 THEN req[u].ien.term \union {c} ELSE req[u].ien.term \ {c}
      <3>2. ien' = [req[u].ien EXCEPT !.term = t]
        BY <2>7 DEF TermWrite, c, v
      <3>3. t \in SUBSET Chan
        BY <2>c DEF Ien
      <3> HIDE DEF t
      <3>4. ien' \in Ien
        BY <3>2, <3>3, <2>c DEF Ien
      <3> QED BY <2>7, <3>1, <3>4 DEF TermWrite, TypeInv
    <2>8. CASE TermFlag(u)
      <3>1. req' \in [User -> Req]
        BY <2>8, <2>d, <2>e DEF TermFlag
      <3>2. st' = [st EXCEPT ![c].terminated = v]
        BY <2>8 DEF TermFlag, c, v
      <3>3. st' \in [Chan -> State]
        BY <3>2, <2>c DEF TypeInv, State
      <3> QED BY <2>8, <3>1, <3>3 DEF TermFlag, TypeInv
    <2>9. CASE OffsetStore(u)
      <3>1. req' \in [User -> Req]
        BY <2>9, <2>g DEF OffsetStore
      <3>2. st' = [st EXCEPT ![c].user_offset = v]
        BY <2>9 DEF OffsetStore, c, v
      <3>3. st' \in [Chan -> State]
        BY <3>2, <2>c DEF TypeInv, State
      <3> QED BY <2>9, <3>1, <3>3 DEF OffsetStore, TypeInv
    <2>10. CASE OffSeconds(u) \/ OffCoarse(u) \/ OffFrac(u)
      <3>1. req' \in [User -> Req] /\ lock' \in User \union {Nobody}
        BY <2>10, <2>g, <2>d, <2>e DEF OffSeconds, OffCoarse, OffFrac, OffsetWrite, TypeInv
      <3>2. HwOffset(v) \in AnyTs
        BY <2>c, HwOffsetIsInts
      <3>3. \/ tsf' = [tsf EXCEPT ![c].off.seconds = HwOffset(v).seconds]
            \/ tsf' = [tsf EXCEPT ![c].off.coarse = HwOffset(v).coarse]
            \/ tsf' = [tsf EXCEPT ![c].off.frac = HwOffset(v).frac]
        BY <2>10 DEF OffSeconds, OffCoarse, OffFrac, OffsetWrite, c, v
      <3>4. tsf' \in [Chan -> [off : AnyTs, raw : Int]]
        BY <3>2, <3>3, <2>c DEF TypeInv, AnyTs
      <3> QED BY <2>10, <3>1, <3>4 DEF OffSeconds, OffCoarse, OffFrac, OffsetWrite, TypeInv
    <2>11. CASE Seconds(u)
      BY <2>11, <2>d, <2>g, <2>e, OthersKeepTypes DEF Seconds, TypeInv
    <2>12. CASE TaiOff(u) \/ TaiOn(u)
      <3>1. req' \in [User -> Req]
        BY <2>12, <2>g, <2>d, <2>e DEF TaiOff, TaiOn
      <3>2. ien' \in Ien
        BY <2>12, <2>c DEF TaiOff, TaiOn, Ien, FlagDuringLoad
      <3> QED BY <2>12, <3>1, <3>2 DEF TaiOff, TaiOn, TypeInv
    <2>13. CASE TaiStart(u) \/ TaiLoad(u)
      <3>1. req' \in [User -> Req]
        BY <2>13, <2>g DEF TaiStart, TaiLoad
      <3>2. tai' \in [start : Int, current : Int]
        <4>1. HostTime \in Int /\ v % Era \in Int
          BY <2>c, SysfsConstants, TsConstants
        <4> QED BY <2>13, <2>c, <4>1 DEF TaiStart, TaiLoad, TypeInv, c, v
      <3> QED BY <2>13, <3>1, <3>2 DEF TaiStart, TaiLoad, TypeInv
    <2>14. CASE WrRegister(u) \/ WrVariable(u)
      <3>1. req' \in [User -> Req]
        BY <2>14, <2>g, <2>d, <2>e DEF WrRegister, WrVariable
      <3>2. wr' \in [ctrl : {0, 1}, mode : {0, 1}]
        BY <2>14 DEF WrRegister, WrVariable, TypeInv
      <3>3. lock' \in User \union {Nobody}
        BY <2>14 DEF WrRegister, WrVariable, TypeInv
      <3> QED BY <2>14, <3>1, <3>2, <3>3 DEF WrRegister, WrVariable, TypeInv
    <2>15. CASE WrVcxo(u) \/ WrAsk(u)
      BY <2>15, <2>d, <2>e, OthersKeepTypes DEF WrVcxo, WrAsk, Unlock, TypeInv
    <2> QED BY <1>6, <2>1, <2>2, <2>3, <2>4, <2>5, <2>6, <2>7, <2>8, <2>9, <2>10, <2>11,
               <2>12, <2>13, <2>14, <2>15 DEF AttrStep
  <1> QED BY <1>1, <1>2, <1>3, <1>4, <1>6 DEF SysNext

\* The driver starts with its types.
LEMMA TypeInit ==
  ASSUME SysInit
  PROVE  TypeInv
  <1>1. req \in [User -> Req]
    BY IdleReqType DEF SysInit
  <1>2. tsf \in [Chan -> [off : AnyTs, raw : Int]]
    BY HwOffsetIsInts DEF SysInit
  <1>3. st \in [Chan -> State]
    BY DEF SysInit, State, BufferTypes
  <1>4. tmo \in [mode : Modes, timeout : Int, threshold : Int, csr : [Chan -> Int]]
    BY DEF SysInit
  <1>5. ien \in Ien
    BY DEF SysInit, Ien
  <1>6. tai \in [start : Int, current : Int] /\ wr \in [ctrl : {0, 1}, mode : {0, 1}]
    BY DEF SysInit
  <1>7. lock \in User \union {Nobody} /\ clash \in BOOLEAN
    BY DEF SysInit
  <1> QED BY <1>1, <1>2, <1>3, <1>4, <1>5, <1>6, <1>7 DEF TypeInv

\* The registers, the driver's variables and what each process is doing keep
\* their types: no sequence of attribute accesses leads outside them.
THEOREM SysfsTypes == SysSpec => []TypeInv
  BY TypeInit, TypeStep, PTL DEF SysSpec

-----------------------------------------------------------------------------
\* The holder of ft->lock is the one process in a step that needs it.
Held == \A u \in User : (req[u].at \in LockSteps) <=> (lock = u)

\* Who is rewriting the offset registers of an input.
Rewrites(u, c) == req[u].at \in OffSteps /\ Ch(u) = c

\* The registers of an input nobody rewrites are those of its user offset, ...
OffsetsDone ==
  \A c \in Chan : (\A u \in User : ~Rewrites(u, c)) => tsf[c].off = HwOffset(st[c].user_offset)

\* ... and those of the others are as far as the process that rewrites them.
OffsetsSoFar ==
  \A u \in User :
    LET off == tsf[Ch(u)].off
        new == HwOffset(Val(u))
    IN  /\ req[u].at \in OffSteps => st[Ch(u)].user_offset = Val(u)
        /\ req[u].at \in {"off_coarse", "off_frac"} => off.seconds = new.seconds
        /\ req[u].at = "off_frac" => off.coarse = new.coarse

\* ft->wr_mode follows WR_CTRL one step later.
WrSoFar ==
  /\ (\A u \in User : req[u].at # "wr_mode") => wr.ctrl = wr.mode
  /\ \A u \in User :
       req[u].at = "wr_mode" => wr.ctrl = (IF Val(u) = WrEnable THEN 1 ELSE 0)

LockInv == TypeInv /\ Held /\ OffsetsDone /\ OffsetsSoFar /\ WrSoFar

\* A step of a process that holds nothing before or after it, and changes
\* neither offsets nor White Rabbit.
Quiet(u) ==
  /\ req[u].at \notin LockSteps /\ req'[u].at \notin LockSteps
  /\ \A w \in User : w # u => req'[w] = req[w]
  /\ UNCHANGED <<lock, wr>>
  /\ \A c \in Chan : tsf'[c].off = tsf[c].off /\ st'[c].user_offset = st[c].user_offset

\* A step that leaves the lock, the offsets, WR_CTRL and the user offsets alone, and
\* keeps its process out of the steps under the lock, preserves the invariant.
LEMMA QuietKeeps ==
  ASSUME LockInv, TypeInv', NEW u \in User, Quiet(u)
  PROVE  LockInv'
  <1>0. /\ OffSteps \subseteq LockSteps /\ "wr_mode" \in LockSteps
        /\ {"off_coarse", "off_frac"} \subseteq LockSteps
    BY DEF OffSteps, LockSteps
  <1>1. Held'
    <2> SUFFICES ASSUME NEW w \in User
                 PROVE  (req'[w].at \in LockSteps) <=> (lock' = w)
      BY DEF Held
    <2>1. CASE w = u
      BY <2>1 DEF Quiet, LockInv, Held
    <2>2. CASE w # u
      BY <2>2 DEF Quiet, LockInv, Held
    <2> QED BY <2>1, <2>2
  <1>2. OffsetsDone'
    <2> SUFFICES ASSUME NEW c \in Chan, \A w \in User : ~Rewrites(w, c)'
                 PROVE  tsf'[c].off = HwOffset(st'[c].user_offset)
      BY DEF OffsetsDone
    <2>1. ASSUME NEW w \in User PROVE ~Rewrites(w, c)
      <3>1. CASE w = u
        BY <1>0, <3>1 DEF Quiet, Rewrites
      <3>2. CASE w # u
        BY <3>2 DEF Quiet, Rewrites, Ch
      <3> QED BY <3>1, <3>2
    <2>2. tsf[c].off = HwOffset(st[c].user_offset)
      BY <2>1 DEF LockInv, OffsetsDone
    <2> QED BY <2>2 DEF Quiet
  <1>3. OffsetsSoFar'
    <2> SUFFICES ASSUME NEW w \in User
                 PROVE  /\ req'[w].at \in OffSteps => st'[Ch(w)'].user_offset = Val(w)'
                        /\ req'[w].at \in {"off_coarse", "off_frac"} =>
                             tsf'[Ch(w)'].off.seconds = HwOffset(Val(w)').seconds
                        /\ req'[w].at = "off_frac" =>
                             tsf'[Ch(w)'].off.coarse = HwOffset(Val(w)').coarse
      BY DEF OffsetsSoFar
    <2>1. CASE w = u
      BY <1>0, <2>1 DEF Quiet
    <2>2. CASE w # u
      <3>1. req'[w] = req[w] /\ Ch(w)' = Ch(w) /\ Val(w)' = Val(w)
        BY <2>2 DEF Quiet, Ch, Val
      <3>2. Ch(w) \in Chan
        BY AccTypes DEF LockInv
      <3>3. st'[Ch(w)].user_offset = st[Ch(w)].user_offset /\ tsf'[Ch(w)].off = tsf[Ch(w)].off
        BY <3>2 DEF Quiet
      <3> QED BY <3>1, <3>3 DEF LockInv, OffsetsSoFar
    <2> QED BY <2>1, <2>2
  <1>4. WrSoFar'
    <2>1. ASSUME NEW w \in User PROVE req'[w].at = "wr_mode" <=> req[w].at = "wr_mode"
      <3>1. CASE w = u
        BY <1>0, <3>1 DEF Quiet
      <3>2. CASE w # u
        BY <3>2 DEF Quiet
      <3> QED BY <3>1, <3>2
    <2>2. (\A w \in User : req'[w].at # "wr_mode") => wr'.ctrl = wr'.mode
      BY <2>1 DEF LockInv, WrSoFar, Quiet
    <2>3. ASSUME NEW w \in User, req'[w].at = "wr_mode"
          PROVE  wr'.ctrl = (IF Val(w)' = WrEnable THEN 1 ELSE 0)
      <3>1. w # u
        BY <1>0, <2>3 DEF Quiet
      <3>2. Val(w)' = Val(w) /\ req[w].at = "wr_mode" /\ wr' = wr
        BY <2>3, <3>1 DEF Quiet, Val
      <3> QED BY <3>2 DEF LockInv, WrSoFar
    <2> QED BY <2>2, <2>3 DEF WrSoFar
  <1> QED BY <1>1, <1>2, <1>3, <1>4 DEF LockInv

\* The accesses and the steps that have nothing to do with ft->lock are quiet.
LEMMA QuietSteps ==
  ASSUME TypeInv, NEW u \in User,
         \/ \E a \in Attribute : Access(u, a) \/ AccessFails(u, a)
         \/ AttrStep(u) \/ Abort(u) \/ Return(u),
         ~OffsetStore(u), ~OffSeconds(u), ~OffCoarse(u), ~OffFrac(u),
         ~WrRegister(u), ~WrVariable(u), ~WrVcxo(u)
  PROVE  Quiet(u)
  <1>l. /\ LockSteps = {"off_seconds", "off_coarse", "off_frac", "wr_mode", "vcxo"}
        /\ req \in [User -> Req]
    BY DEF LockSteps, OffSteps, TypeInv
  <1> USE AllLabels
  <1>1. /\ UNCHANGED <<lock, wr>>
        /\ req[u].at \notin LockSteps
    BY <1>l DEF AttrStep, Access, AccessFails, Abort, Return, Show, ShowInvalid, Store,
       Enable, EnRead, EnWrite, ReadInputEnable, TermRead, TermWrite, TermFlag, OffsetRejected,
       Seconds, TaiRead, TaiOff, TaiStart, TaiLoad, TaiOn, WrAsk, At
  <1>2. (\A w \in User : w # u => req'[w] = req[w]) /\ req'[u].at \notin LockSteps
    <2>1. ASSUME NEW l \in Labels \ LockSteps, Moved(u, l)
          PROVE  (\A w \in User : w # u => req'[w] = req[w]) /\ req'[u].at \notin LockSteps
      BY <2>1 DEF Moved
    <2>2. \A e \in Errno, v \in Int : Done(u, e, v) => Moved(u, "done")
      BY <1>l, DoneMoves
    <2>3. \A l \in Labels : GoTo(u, l) => Moved(u, l)
      BY <1>l, GoToMoves
    <2>4. \A ok \in BOOLEAN, l \in Labels : OkGoTo(u, ok, l) => Moved(u, l) \/ Moved(u, "done")
      BY <1>l, OkGoToMoves
    <2>e. Errno = {"none", "EINVAL", "EPERM", "ENODEV", "ENOLINK", "EAGAIN", "EIO"}
      BY DEF Errno
    <2>5. ASSUME NEW a \in Attribute, Access(u, a)
          PROVE  (\A w \in User : w # u => req'[w] = req[w]) /\ req'[u].at \notin LockSteps
      <3> DEFINE r == [IdleReq EXCEPT !.at = First(a), !.acc = a]
      <3>1. req' = [req EXCEPT ![u] = r]
        BY <2>5 DEF Access
      <3>2. r.at = First(a)
        BY DEF IdleReq
      <3> HIDE DEF r
      <3> QED BY <1>l, <3>1, <3>2, FirstSteps
    <2>6. ASSUME NEW a \in Attribute, AccessFails(u, a)
          PROVE  (\A w \in User : w # u => req'[w] = req[w]) /\ req'[u].at \notin LockSteps
      <3> DEFINE r == [IdleReq EXCEPT !.at = "done", !.acc = a, !.err = "EIO"]
      <3>1. req' = [req EXCEPT ![u] = r]
        BY <2>6 DEF AccessFails
      <3>2. r.at = "done"
        BY DEF IdleReq
      <3> HIDE DEF r
      <3> QED BY <1>l, <3>1, <3>2
    <2>7. CASE Return(u)
      <3>1. req' = [req EXCEPT ![u] = IdleReq]
        BY <2>7 DEF Return
      <3>2. IdleReq.at = "idle"
        BY DEF IdleReq
      <3> QED BY <1>l, <3>1, <3>2
    <2>8. CASE EnRead(u) \/ TermRead(u) \/ TaiRead(u)
      <3>1. PICK n \in {"en_write", "term_write", "tai_off"} :
              req' = [req EXCEPT ![u].at = n, ![u].ien = ien]
        BY <2>8 DEF EnRead, TermRead, TaiRead, ReadInputEnable
      <3> DEFINE r == [req[u] EXCEPT !.at = n, !.ien = ien]
      <3>2. r.at = n
        BY AccTypes DEF Req
      <3>3. req' = [req EXCEPT ![u] = r]
        BY <3>1
      <3> HIDE DEF r
      <3> QED BY <1>l, <3>2, <3>3
    <2>9. CASE \/ Show(u) \/ ShowInvalid(u) \/ Store(u) \/ TermFlag(u) \/ OffsetRejected(u)
               \/ TaiOn(u) \/ WrAsk(u) \/ Abort(u)
      <3>1. \E e \in Errno, v \in Int : Done(u, e, v)
        BY <2>9, <2>e, ShownIsInt DEF Show, ShowInvalid, Store, TermFlag, OffsetRejected, TaiOn,
           WrAsk, Abort
      <3> QED BY <1>l, <2>1, <2>2, <3>1
    <2>10. CASE TermWrite(u) \/ TaiOff(u) \/ TaiStart(u) \/ TaiLoad(u)
      <3>1. \E l \in Labels \ LockSteps : GoTo(u, l)
        BY <1>l, <2>10 DEF TermWrite, TaiOff, TaiStart, TaiLoad
      <3> QED BY <2>1, <2>3, <3>1
    <2>11. CASE Seconds(u)
      <3>1. Done(u, "EPERM", 0) \/ GoTo(u, "tai_read")
        BY <2>11 DEF Seconds
      <3> QED BY <1>l, <2>1, <2>2, <2>3, <2>e, <3>1
    <2>12. CASE Enable(u) \/ EnWrite(u)
      <3>1. \E ok \in BOOLEAN, l \in {"en_read", "abort"} : OkGoTo(u, ok, l)
        BY <2>12 DEF Enable, EnWrite
      <3> QED BY <1>l, <2>1, <2>4, <3>1
    <2> QED BY <2>5, <2>6, <2>7, <2>8, <2>9, <2>10, <2>11, <2>12 DEF AttrStep
  <1>3. ASSUME NEW c \in Chan
        PROVE  tsf'[c].off = tsf[c].off /\ st'[c].user_offset = st[c].user_offset
    <2> DEFINE d == Ch(u)
               v == Val(u)
    <2>1. tsf \in [Chan -> [off : AnyTs, raw : Int]] /\ st \in [Chan -> State]
      BY DEF TypeInv
    <2>2. CASE UNCHANGED <<tsf, st>>
      BY <2>2
    <2>3. CASE Store(u)
      <3>1. tsf' = tsf \/ tsf' = [tsf EXCEPT ![d].raw = v]
        BY <2>3 DEF Store
      <3> DEFINE t == IF v = 0 THEN "kmalloc" ELSE "vmalloc"
      <3>2. \/ st' = st
            \/ st' = [st EXCEPT ![d].prefer_new = v]
            \/ st' = [st EXCEPT ![d].kb = v]
            \/ st' = [st EXCEPT ![d].type = t]
        BY <2>3 DEF Store
      <3> HIDE DEF t, d, v
      <3>3. tsf'[c].off = tsf[c].off
        BY <2>1, <3>1
      <3>4. st'[c].user_offset = st[c].user_offset
        BY <2>1, <3>2 DEF State
      <3> QED BY <3>3, <3>4
    <2>4. CASE Enable(u) \/ TermFlag(u)
      <3>1. tsf' = tsf
        BY <2>4 DEF Enable, TermFlag
      <3>2. \/ st' = [st EXCEPT ![d].enabled = v]
            \/ st' = [st EXCEPT ![d].terminated = v]
        BY <2>4 DEF Enable, TermFlag
      <3> HIDE DEF d, v
      <3>3. st'[c].user_offset = st[c].user_offset
        BY <2>1, <3>2 DEF State
      <3> QED BY <3>1, <3>3
    <2>5. UNCHANGED <<tsf, st>> \/ Store(u) \/ Enable(u) \/ TermFlag(u)
      BY DEF AttrStep, Access, AccessFails, Abort, Return, Show, ShowInvalid,
         EnRead, EnWrite, ReadInputEnable, TermRead, TermWrite, OffsetRejected,
         Seconds, TaiRead, TaiOff, TaiStart, TaiLoad, TaiOn, WrAsk
    <2> QED BY <2>2, <2>3, <2>4, <2>5
  <1> QED BY <1>1, <1>2, <1>3 DEF Quiet

\* A step of the process that holds ft->lock or takes it: the others hold
\* nothing, and what is left to show is about its own input.
LEMMA HolderKeeps ==
  ASSUME LockInv, TypeInv', NEW u \in User, NEW l \in Labels, Moved(u, l),
         lock = u \/ lock = Nobody,
         lock' = (IF l \in LockSteps THEN u ELSE Nobody),
         \A c \in Chan : c # Ch(u) =>
           tsf'[c].off = tsf[c].off /\ st'[c].user_offset = st[c].user_offset,
         l \notin OffSteps => tsf'[Ch(u)].off = HwOffset(st'[Ch(u)].user_offset),
         l \in OffSteps => st'[Ch(u)].user_offset = Val(u),
         l \in {"off_coarse", "off_frac"} =>
           tsf'[Ch(u)].off.seconds = HwOffset(Val(u)).seconds,
         l = "off_frac" => tsf'[Ch(u)].off.coarse = HwOffset(Val(u)).coarse,
         l # "wr_mode" => wr'.ctrl = wr'.mode,
         l = "wr_mode" => wr'.ctrl = (IF Val(u) = WrEnable THEN 1 ELSE 0)
  PROVE  LockInv'
  <1>0. /\ OffSteps \subseteq LockSteps /\ "wr_mode" \in LockSteps
        /\ {"off_coarse", "off_frac"} \subseteq OffSteps
    BY DEF OffSteps, LockSteps
  <1>n. \A w \in User : w # Nobody
    BY SysfsConstants DEF Nobody
  <1>u. req'[u].at = l /\ Ch(u)' = Ch(u) /\ Val(u)' = Val(u) /\ Ch(u) \in Chan
    BY AccTypes DEF Moved, Ch, Val, LockInv
  <1>w. ASSUME NEW w \in User, w # u
        PROVE  req[w].at \notin LockSteps /\ req'[w].at \notin LockSteps
    BY <1>n, <1>w DEF Moved, LockInv, Held
  <1>1. Held'
    <2> SUFFICES ASSUME NEW w \in User
                 PROVE  (req'[w].at \in LockSteps) <=> (lock' = w)
      BY DEF Held
    <2>1. CASE w = u
      BY <1>u, <1>n, <2>1
    <2>2. CASE w # u
      BY <1>w, <1>n, <2>2
    <2> QED BY <2>1, <2>2
  <1>2. OffsetsDone'
    <2> SUFFICES ASSUME NEW c \in Chan, \A w \in User : ~Rewrites(w, c)'
                 PROVE  tsf'[c].off = HwOffset(st'[c].user_offset)
      BY DEF OffsetsDone
    <2>1. CASE c = Ch(u)
      <3>1. l \notin OffSteps
        BY <1>u, <2>1 DEF Rewrites
      <3> QED BY <2>1, <3>1
    <2>2. CASE c # Ch(u)
      <3>1. \A w \in User : ~Rewrites(w, c)
        BY <1>0, <1>w, <2>2 DEF Rewrites
      <3>2. tsf[c].off = HwOffset(st[c].user_offset)
        BY <3>1 DEF LockInv, OffsetsDone
      <3> QED BY <2>2, <3>2
    <2> QED BY <2>1, <2>2
  <1>3. OffsetsSoFar'
    <2> SUFFICES ASSUME NEW w \in User
                 PROVE  /\ req'[w].at \in OffSteps => st'[Ch(w)'].user_offset = Val(w)'
                        /\ req'[w].at \in {"off_coarse", "off_frac"} =>
                             tsf'[Ch(w)'].off.seconds = HwOffset(Val(w)').seconds
                        /\ req'[w].at = "off_frac" =>
                             tsf'[Ch(w)'].off.coarse = HwOffset(Val(w)').coarse
      BY DEF OffsetsSoFar
    <2>1. CASE w = u
      BY <1>u, <2>1
    <2>2. CASE w # u
      BY <1>0, <1>w, <2>2
    <2> QED BY <2>1, <2>2
  <1>4. WrSoFar'
    <2>1. (\A w \in User : req'[w].at # "wr_mode") => wr'.ctrl = wr'.mode
      BY <1>u
    <2>2. ASSUME NEW w \in User, req'[w].at = "wr_mode"
          PROVE  wr'.ctrl = (IF Val(w)' = WrEnable THEN 1 ELSE 0)
      <3>1. w = u
        BY <1>0, <1>w, <2>2
      <3> QED BY <1>u, <2>2, <3>1
    <2> QED BY <2>1, <2>2 DEF WrSoFar
  <1> QED BY <1>1, <1>2, <1>3, <1>4 DEF LockInv

\* The registers of an input are its offset's while its process is not rewriting
\* them.
LEMMA OwnOffset ==
  ASSUME LockInv, NEW u \in User, lock = u \/ lock = Nobody, req[u].at \notin OffSteps
  PROVE  tsf[Ch(u)].off = HwOffset(st[Ch(u)].user_offset)
  <1>1. \A w \in User : req[w].at \notin OffSteps
    BY SysfsConstants DEF LockInv, Held, Nobody, LockSteps
  <1>2. Ch(u) \in Chan
    BY AccTypes DEF LockInv
  <1> QED BY <1>1, <1>2 DEF LockInv, OffsetsDone, Rewrites

\* The steps of ft_update_offsets preserve the invariant.
LEMMA OffsetSteps ==
  ASSUME LockInv, TypeInv', NEW u \in User,
         OffsetStore(u) \/ OffSeconds(u) \/ OffCoarse(u) \/ OffFrac(u)
  PROVE  LockInv'
  <1> USE AllLabels
  <1> DEFINE c == Ch(u)
             v == Val(u)
             new == HwOffset(v)
  <1>0. /\ OffSteps = {"off_seconds", "off_coarse", "off_frac"}
        /\ LockSteps = {"off_seconds", "off_coarse", "off_frac", "wr_mode", "vcxo"}
        /\ req \in [User -> Req] /\ c \in Chan /\ v \in Int
        /\ tsf \in [Chan -> [off : AnyTs, raw : Int]] /\ st \in [Chan -> State]
    BY AccTypes DEF OffSteps, LockSteps, TypeInv, LockInv
  <1>1. new \in AnyTs
    BY <1>0, HwOffsetIsInts
  <1>2. \A w \in User : w # Nobody
    BY SysfsConstants DEF Nobody
  <1>3. \A l \in Labels : GoTo(u, l) => Moved(u, l)
    BY <1>0, GoToMoves
  <1>w. req[u].at # "wr_mode" /\ (lock = u \/ lock = Nobody) => wr.ctrl = wr.mode
    BY <1>0, <1>2 DEF LockInv, WrSoFar, Held
  <1>4. CASE OffsetStore(u)
    <2>1. Moved(u, "off_seconds")
      BY <1>3, <1>4 DEF OffsetStore
    <2>2. /\ lock = Nobody /\ lock' = u /\ wr' = wr /\ tsf' = tsf /\ req[u].at = "offset"
          /\ st' = [st EXCEPT ![c].user_offset = v]
      BY <1>4 DEF OffsetStore, LockFree, At
    <2>3. /\ st'[c].user_offset = v
          /\ \A d \in Chan : d # c => st'[d].user_offset = st[d].user_offset
      BY <1>0, <2>2 DEF State
    <2>4. wr'.ctrl = wr'.mode
      BY <1>w, <2>2
    <2> HIDE DEF c, v, new
    <2> QED BY <1>0, <2>1, <2>2, <2>3, <2>4, HolderKeeps DEF c, v
  <1>5. CASE OffSeconds(u)
    <2>1. Moved(u, "off_coarse")
      BY <1>3, <1>5 DEF OffSeconds, OffsetWrite
    <2>2. /\ lock' = lock /\ wr' = wr /\ st' = st /\ req[u].at = "off_seconds"
          /\ tsf' = [tsf EXCEPT ![c].off.seconds = new.seconds]
      BY <1>5 DEF OffSeconds, OffsetWrite, At
    <2>3. lock = u /\ st[c].user_offset = v
      BY <1>0, <2>2 DEF LockInv, Held, OffsetsSoFar
    <2>4. wr'.ctrl = wr'.mode
      BY <1>w, <2>2, <2>3
    <2> HIDE DEF c, v, new
    <2>5. /\ tsf'[c].off.seconds = new.seconds
          /\ \A d \in Chan : d # c => tsf'[d].off = tsf[d].off
      BY <1>0, <1>1, <2>2 DEF AnyTs
    <2> QED BY <1>0, <2>1, <2>2, <2>3, <2>4, <2>5, HolderKeeps DEF c, v, new
  <1>6. CASE OffCoarse(u)
    <2>1. Moved(u, "off_frac")
      BY <1>3, <1>6 DEF OffCoarse, OffsetWrite
    <2>2. /\ lock' = lock /\ wr' = wr /\ st' = st /\ req[u].at = "off_coarse"
          /\ tsf' = [tsf EXCEPT ![c].off.coarse = new.coarse]
      BY <1>6 DEF OffCoarse, OffsetWrite, At
    <2>3. lock = u /\ st[c].user_offset = v /\ tsf[c].off.seconds = new.seconds
      BY <1>0, <2>2 DEF LockInv, Held, OffsetsSoFar
    <2>4. wr'.ctrl = wr'.mode
      BY <1>w, <2>2, <2>3
    <2> HIDE DEF c, v, new
    <2>5. /\ tsf'[c].off.coarse = new.coarse /\ tsf'[c].off.seconds = tsf[c].off.seconds
          /\ \A d \in Chan : d # c => tsf'[d].off = tsf[d].off
      BY <1>0, <1>1, <2>2 DEF AnyTs
    <2> QED BY <1>0, <2>1, <2>2, <2>3, <2>4, <2>5, HolderKeeps DEF c, v, new
  <1>7. CASE OffFrac(u)
    <2>1. Moved(u, "done")
      BY <1>0, <1>7, DoneMoves DEF OffFrac, Errno
    <2>2. /\ lock' = Nobody /\ wr' = wr /\ st' = st /\ req[u].at = "off_frac"
          /\ tsf' = [tsf EXCEPT ![c].off.frac = new.frac]
      BY <1>7 DEF OffFrac, At
    <2>3. /\ lock = u /\ st[c].user_offset = v
          /\ tsf[c].off.seconds = new.seconds /\ tsf[c].off.coarse = new.coarse
      BY <1>0, <2>2 DEF LockInv, Held, OffsetsSoFar
    <2>4. wr'.ctrl = wr'.mode
      BY <1>w, <2>2, <2>3
    <2> HIDE DEF c, v, new
    <2>5. /\ tsf'[c].off = [tsf[c].off EXCEPT !.frac = new.frac]
          /\ \A d \in Chan : d # c => tsf'[d].off = tsf[d].off
      BY <1>0, <2>2
    <2>6. tsf[c].off \in AnyTs
      BY <1>0
    <2>7. tsf'[c].off = new
      BY <1>1, <2>3, <2>5, <2>6 DEF AnyTs
    <2> QED BY <1>0, <2>1, <2>2, <2>3, <2>4, <2>5, <2>7, HolderKeeps DEF c, v, new
  <1> QED BY <1>4, <1>5, <1>6, <1>7

\* The steps of ft_wr_mode preserve the invariant.
LEMMA WrSteps ==
  ASSUME LockInv, TypeInv', NEW u \in User,
         WrRegister(u) \/ WrVariable(u) \/ WrVcxo(u)
  PROVE  LockInv'
  <1> USE AllLabels
  <1> DEFINE c == Ch(u)
             on == IF Val(u) = WrEnable THEN 1 ELSE 0
  <1>0. /\ OffSteps = {"off_seconds", "off_coarse", "off_frac"}
        /\ LockSteps = {"off_seconds", "off_coarse", "off_frac", "wr_mode", "vcxo"}
        /\ req \in [User -> Req]
        /\ wr \in [ctrl : {0, 1}, mode : {0, 1}]
    BY DEF OffSteps, LockSteps, TypeInv, LockInv
  <1>1. \A w \in User : w # Nobody
    BY SysfsConstants DEF Nobody
  <1>2. \A l \in Labels : GoTo(u, l) => Moved(u, l)
    BY <1>0, GoToMoves
  <1>3. Done(u, "none", 0) => Moved(u, "done")
    BY <1>0, DoneMoves DEF Errno
  <1>t. UNCHANGED <<tsf, st>> /\ req[u].at \in {"wr", "wr_mode", "vcxo"}
    BY DEF WrRegister, WrVariable, WrVcxo, At
  <1>l. lock = u \/ lock = Nobody
    <2>1. WrRegister(u) \/ req[u].at \in {"wr_mode", "vcxo"}
      BY DEF WrVariable, WrVcxo, At
    <2>2. CASE WrRegister(u)
      BY <2>2 DEF WrRegister, LockFree
    <2>3. CASE req[u].at \in {"wr_mode", "vcxo"}
      BY <1>0, <2>3 DEF LockInv, Held
    <2> QED BY <2>1, <2>2, <2>3
  <1>o. tsf'[c].off = HwOffset(st'[c].user_offset)
    BY <1>0, <1>t, <1>l, OwnOffset
  <1>4. CASE WrRegister(u)
    <2>1. Moved(u, "wr_mode")
      BY <1>2, <1>4 DEF WrRegister
    <2>2. lock' = u /\ wr' = [wr EXCEPT !.ctrl = on]
      BY <1>4 DEF WrRegister
    <2> HIDE DEF on
    <2>3. wr'.ctrl = on
      BY <1>0, <2>2
    <2> QED BY <1>0, <1>t, <1>l, <1>o, <2>1, <2>2, <2>3, HolderKeeps DEF on
  <1>5. CASE WrVariable(u)
    <2>1. /\ wr' = [wr EXCEPT !.mode = on] /\ req[u].at = "wr_mode"
      BY <1>5 DEF WrVariable, At
    <2>2. wr.ctrl = on /\ lock = u
      BY <1>0, <2>1 DEF LockInv, WrSoFar, Held
    <2> HIDE DEF on
    <2>3. wr'.ctrl = wr'.mode
      BY <1>0, <2>1, <2>2
    <2>4. CASE Val(u) = WrEnable
      <3>1. Moved(u, "done") /\ lock' = Nobody
        BY <1>3, <1>5, <2>4 DEF WrVariable
      <3> QED BY <1>0, <1>t, <1>l, <1>o, <2>3, <3>1, HolderKeeps
    <2>5. CASE Val(u) # WrEnable
      <3>1. Moved(u, "vcxo") /\ lock' = u
        BY <1>2, <1>5, <2>2, <2>5 DEF WrVariable
      <3> QED BY <1>0, <1>t, <1>l, <1>o, <2>3, <3>1, HolderKeeps
    <2> QED BY <2>4, <2>5
  <1>6. CASE WrVcxo(u)
    <2>1. Moved(u, "done") /\ lock' = Nobody /\ wr' = wr /\ req[u].at = "vcxo"
      BY <1>3, <1>6 DEF WrVcxo, Unlock, At
    <2>2. wr.ctrl = wr.mode
      BY <1>0, <1>1, <1>l, <2>1 DEF LockInv, WrSoFar, Held
    <2> QED BY <1>0, <1>t, <1>l, <1>o, <2>1, <2>2, HolderKeeps
  <1> QED BY <1>4, <1>5, <1>6

\* Every step preserves the invariant.
LEMMA LockStep ==
  ASSUME LockInv, [SysNext]_sysVars
  PROVE  LockInv'
  <1>1. TypeInv'
    BY TypeStep DEF LockInv
  <1>2. CASE UNCHANGED sysVars
    BY <1>2 DEF sysVars, LockInv, TypeInv, Held, OffsetsDone, OffsetsSoFar, WrSoFar, Rewrites,
       Ch, Val
  <1>3. ASSUME NEW u \in User,
               \/ \E a \in Attribute : Access(u, a) \/ AccessFails(u, a)
               \/ AttrStep(u) \/ Abort(u) \/ Return(u)
        PROVE  LockInv'
    <2>1. CASE OffsetStore(u) \/ OffSeconds(u) \/ OffCoarse(u) \/ OffFrac(u)
      BY <1>1, <2>1, OffsetSteps
    <2>2. CASE WrRegister(u) \/ WrVariable(u) \/ WrVcxo(u)
      BY <1>1, <2>2, WrSteps
    <2>3. CASE ~(\/ OffsetStore(u) \/ OffSeconds(u) \/ OffCoarse(u) \/ OffFrac(u)
                 \/ WrRegister(u) \/ WrVariable(u) \/ WrVcxo(u))
      <3>1. Quiet(u)
        BY <1>3, <2>3, QuietSteps DEF LockInv
      <3> QED BY <1>1, <3>1, QuietKeeps
    <2> QED BY <2>1, <2>2, <2>3
  <1> QED BY <1>2, <1>3 DEF SysNext

\* The invariant holds at the start.
LEMMA LockInit ==
  ASSUME SysInit
  PROVE  LockInv
  <1>1. \A u \in User : req[u] = IdleReq /\ IdleReq.at = "idle"
    BY DEF SysInit, IdleReq
  <1>2. \A u \in User : u # Nobody
    BY SysfsConstants DEF Nobody
  <1>3. Held
    BY <1>1, <1>2 DEF Held, SysInit, LockSteps, OffSteps
  <1>4. OffsetsDone
    BY DEF OffsetsDone, SysInit
  <1>5. OffsetsSoFar
    BY <1>1 DEF OffsetsSoFar, OffSteps
  <1>6. WrSoFar
    BY <1>1 DEF WrSoFar, SysInit
  <1> QED BY <1>3, <1>4, <1>5, <1>6, TypeInit DEF LockInv

\* The invariant of ft->lock holds in every state.
LEMMA LockInvHolds == SysSpec => []LockInv
  BY LockInit, LockStep, PTL DEF SysSpec

\* Two processes that set an offset never leave registers of different offsets
\* behind, for any number of processes and inputs and any offsets.
THEOREM OffsetsAreWhole == SysSpec => []OffsetsWhole
  <1>1. ASSUME LockInv PROVE OffsetsWhole
    <2> SUFFICES ASSUME lock = Nobody, NEW c \in Chan
                 PROVE  tsf[c].off = HwOffset(st[c].user_offset)
      BY DEF OffsetsWhole
    <2>1. \A u \in User : req[u].at \notin OffSteps
      BY <1>1, SysfsConstants DEF LockInv, Held, Nobody, LockSteps
    <2> QED BY <1>1, <2>1 DEF LockInv, OffsetsDone, Rewrites
  <1> QED BY <1>1, LockInvHolds, PTL

\* Between two changes of the White Rabbit mode the driver believes what
\* WR_CTRL says, whoever changed it last.
THEOREM WrModesMatch == SysSpec => []WrModeMatches
  <1>1. ASSUME LockInv PROVE WrModeMatches
    <2> SUFFICES ASSUME lock = Nobody PROVE wr.ctrl = wr.mode
      BY DEF WrModeMatches
    <2>1. \A u \in User : req[u].at # "wr_mode"
      BY <1>1, SysfsConstants DEF LockInv, Held, Nobody, LockSteps
    <2> QED BY <1>1, <2>1 DEF LockInv, WrSoFar
  <1> QED BY <1>1, LockInvHolds, PTL

-----------------------------------------------------------------------------
\* INPUT_ENABLE is read, changed and written back by ft_enable, ft_disable,
\* ft_enable_termination and ft_set_tai_time, without a lock.  As long as two of
\* them have not overlapped, each leaves the bits of the others alone.

\* The process is about to write back what it has read, or has cleared the flag.
CopySteps == {"en_write", "term_write", "tai_off"}
LoadSteps == {"tai_start", "tai_load", "tai_on"}
SwitchSteps == {"en_read", "en_write"}
BusySteps == CopySteps \union LoadSteps \union SwitchSteps \union {"term_flag"}

\* Between ZIO's flag of an input and its bit, and between its termination bit
\* and FT_FLAG_CH_TERMINATED.
Switches(u, c) == req[u].at \in SwitchSteps /\ Ch(u) = c
Terminates(u, c) == At(u, "term_flag") /\ Ch(u) = c

\* One access to INPUT_ENABLE at a time, ...
Lone == \A u, w \in User : req[u].at \in IenSteps /\ req[w].at \in IenSteps => u = w

\* ... whose copy of the register is still true, ...
CopyFresh ==
  \A u \in User :
    /\ req[u].at \in CopySteps => req[u].ien = ien
    /\ req[u].at \in LoadSteps => req[u].ien.acq = ien.acq /\ req[u].ien.term = ien.term

\* ... and which alone may have left something half done.
FlagSoFar ==
  /\ \A u \in User : req[u].at \in LoadSteps => ~ien.flag
  /\ (\A u \in User : req[u].at \notin LoadSteps) => ien.flag
AcqSoFar ==
  /\ \A u \in User : req[u].at \in SwitchSteps => st[Ch(u)].enabled = Val(u)
  /\ \A c \in Chan : (\A u \in User : ~Switches(u, c)) => (c \in ien.acq <=> st[c].enabled = 1)
TermSoFar ==
  /\ \A u \in User : req[u].at = "term_flag" => (Ch(u) \in ien.term <=> Val(u) = 1)
  /\ \A c \in Chan :
       (\A u \in User : ~Terminates(u, c)) => (c \in ien.term <=> st[c].terminated = 1)

IenParts == Lone /\ CopyFresh /\ FlagSoFar /\ AcqSoFar /\ TermSoFar
IenInv == TypeInv /\ (clash \/ IenParts)

\* The steps on INPUT_ENABLE, one by one.
LEMMA IenStepSets ==
  /\ IenSteps = {"enable", "en_read", "en_write", "abort", "seconds", "tai_read", "tai_off",
                 "tai_start", "tai_load", "tai_on", "term_read", "term_write", "term_flag"}
  /\ BusySteps = {"en_read", "en_write", "term_write", "tai_off", "tai_start", "tai_load",
                  "tai_on", "term_flag"}
  /\ BusySteps \subseteq IenSteps
  BY DEF IenSteps, EnableSteps, TimeSteps, TermSteps, BusySteps, CopySteps, LoadSteps, SwitchSteps

-----------------------------------------------------------------------------
\* A step of the one process that is on INPUT_ENABLE: what is left to show is
\* about its own copy and its own input.
LEMMA WorkerKeeps ==
  ASSUME TypeInv, NEW u \in User, NEW l \in Labels, Moved(u, l),
         \A w \in User : w # u => req[w].at \notin IenSteps,
         l \in CopySteps => req'[u].ien = ien',
         l \in LoadSteps => req'[u].ien.acq = ien'.acq /\ req'[u].ien.term = ien'.term,
         l \in LoadSteps => ~ien'.flag,
         l \notin LoadSteps => ien'.flag,
         l \in SwitchSteps => st'[Ch(u)].enabled = Val(u),
         \A c \in Chan : ~(l \in SwitchSteps /\ Ch(u) = c) =>
                           (c \in ien'.acq <=> st'[c].enabled = 1),
         l = "term_flag" => (Ch(u) \in ien'.term <=> Val(u) = 1),
         \A c \in Chan : ~(l = "term_flag" /\ Ch(u) = c) =>
                           (c \in ien'.term <=> st'[c].terminated = 1)
  PROVE  IenParts'
  <1>1. req'[u].at = l /\ Ch(u)' = Ch(u) /\ Val(u)' = Val(u)
    BY DEF Moved, Ch, Val
  <1>2. ASSUME NEW w \in User, w # u
        PROVE  /\ req'[w].at \notin IenSteps /\ req'[w].at \notin CopySteps
               /\ req'[w].at \notin LoadSteps /\ req'[w].at \notin SwitchSteps
               /\ req'[w].at # "term_flag"
    BY <1>2, IenStepSets DEF Moved, BusySteps
  <1>3. Lone'
    BY <1>2 DEF Lone
  <1>4. CopyFresh'
    <2> SUFFICES ASSUME NEW w \in User
                 PROVE  /\ req'[w].at \in CopySteps => req'[w].ien = ien'
                        /\ req'[w].at \in LoadSteps =>
                             req'[w].ien.acq = ien'.acq /\ req'[w].ien.term = ien'.term
      BY DEF CopyFresh
    <2> QED BY <1>1, <1>2
  <1>5. FlagSoFar'
    BY <1>1, <1>2 DEF FlagSoFar
  <1>6. AcqSoFar'
    <2>1. ASSUME NEW w \in User, req'[w].at \in SwitchSteps
          PROVE  st'[Ch(w)'].enabled = Val(w)'
      BY <1>1, <1>2, <2>1
    <2>2. ASSUME NEW c \in Chan, \A w \in User : ~Switches(w, c)'
          PROVE  c \in ien'.acq <=> st'[c].enabled = 1
      BY <1>1, <2>2 DEF Switches
    <2> QED BY <2>1, <2>2 DEF AcqSoFar
  <1>7. TermSoFar'
    <2>1. ASSUME NEW w \in User, req'[w].at = "term_flag"
          PROVE  Ch(w)' \in ien'.term <=> Val(w)' = 1
      BY <1>1, <1>2, <2>1
    <2>2. ASSUME NEW c \in Chan, \A w \in User : ~Terminates(w, c)'
          PROVE  c \in ien'.term <=> st'[c].terminated = 1
      BY <1>1, <2>2 DEF Terminates, At
    <2> QED BY <2>1, <2>2 DEF TermSoFar
  <1> QED BY <1>3, <1>4, <1>5, <1>6, <1>7 DEF IenParts

\* A step that leaves INPUT_ENABLE and the flags of the inputs alone, by a process
\* that has not started on them.
Bystander(u) ==
  /\ req[u].at \notin BusySteps /\ req'[u].at \notin BusySteps
  /\ \A w \in User : w # u => req'[w] = req[w]
  /\ req'[u].at \in IenSteps =>
       req[u].at \in IenSteps \/ clash' \/ \A w \in User : req[w].at \notin IenSteps
  /\ ien' = ien
  /\ \A c \in Chan : st'[c].enabled = st[c].enabled /\ st'[c].terminated = st[c].terminated

\* Such a step keeps the invariant.
LEMMA BystanderKeeps ==
  ASSUME TypeInv, IenParts, ~clash', NEW u \in User, Bystander(u)
  PROVE  IenParts'
  <1>1. ASSUME NEW w \in User
        PROVE  /\ req[w].at \in BusySteps <=> req'[w].at \in BusySteps
               /\ req'[w].at \in BusySteps =>
                    w # u /\ req'[w] = req[w] /\ Ch(w)' = Ch(w) /\ Val(w)' = Val(w)
    <2>1. CASE w = u
      BY <2>1 DEF Bystander
    <2>2. CASE w # u
      BY <2>2 DEF Bystander, Ch, Val
    <2> QED BY <2>1, <2>2
  <1>2. Lone'
    <2> SUFFICES ASSUME NEW v \in User, NEW w \in User,
                        req'[v].at \in IenSteps, req'[w].at \in IenSteps
                 PROVE  v = w
      BY DEF Lone
    <2>1. CASE req'[u].at \in IenSteps /\ req[u].at \notin IenSteps
      BY <2>1 DEF Bystander
    <2>2. CASE ~(req'[u].at \in IenSteps /\ req[u].at \notin IenSteps)
      <3>1. req[v].at \in IenSteps /\ req[w].at \in IenSteps
        BY <2>2 DEF Bystander
      <3> QED BY <3>1 DEF IenParts, Lone
    <2> QED BY <2>1, <2>2
  <1>b. CopySteps \subseteq BusySteps /\ LoadSteps \subseteq BusySteps
        /\ SwitchSteps \subseteq BusySteps /\ "term_flag" \in BusySteps
    BY DEF BusySteps
  <1>i. ien' = ien
    BY DEF Bystander
  <1>3. CopyFresh'
    <2> SUFFICES ASSUME NEW w \in User
                 PROVE  /\ req'[w].at \in CopySteps => req'[w].ien = ien'
                        /\ req'[w].at \in LoadSteps =>
                             req'[w].ien.acq = ien'.acq /\ req'[w].ien.term = ien'.term
      BY DEF CopyFresh
    <2> QED BY <1>1, <1>b, <1>i DEF IenParts, CopyFresh
  <1>4. FlagSoFar'
    <2>1. ASSUME NEW w \in User
          PROVE  req'[w].at \in LoadSteps <=> req[w].at \in LoadSteps
      BY <1>1, <1>b DEF Bystander
    <2> QED BY <2>1, <1>i DEF IenParts, FlagSoFar
  <1>5. AcqSoFar'
    <2>1. ASSUME NEW w \in User, req'[w].at \in SwitchSteps
          PROVE  st'[Ch(w)'].enabled = Val(w)'
      <3>1. req[w].at \in SwitchSteps /\ Ch(w)' = Ch(w) /\ Val(w)' = Val(w)
        BY <1>1, <1>b, <2>1
      <3>2. Ch(w) \in Chan
        BY AccTypes
      <3> QED BY <3>1, <3>2 DEF IenParts, AcqSoFar, Bystander
    <2>2. ASSUME NEW c \in Chan, \A w \in User : ~Switches(w, c)'
          PROVE  c \in ien'.acq <=> st'[c].enabled = 1
      <3>1. ASSUME NEW w \in User PROVE ~Switches(w, c)
        <4> SUFFICES ASSUME Switches(w, c) PROVE FALSE
          OBVIOUS
        <4>1. req'[w].at \in BusySteps
          BY <1>1, <1>b DEF Switches
        <4>2. Switches(w, c)'
          BY <1>1, <4>1 DEF Switches
        <4> QED BY <2>2, <4>2
      <3> QED BY <1>i, <3>1 DEF IenParts, AcqSoFar, Bystander
    <2> QED BY <2>1, <2>2 DEF AcqSoFar
  <1>6. TermSoFar'
    <2>1. ASSUME NEW w \in User, req'[w].at = "term_flag"
          PROVE  Ch(w)' \in ien'.term <=> Val(w)' = 1
      <3>1. req[w].at = "term_flag" /\ Ch(w)' = Ch(w) /\ Val(w)' = Val(w)
        BY <1>1, <1>b, <2>1
      <3> QED BY <1>i, <3>1 DEF IenParts, TermSoFar
    <2>2. ASSUME NEW c \in Chan, \A w \in User : ~Terminates(w, c)'
          PROVE  c \in ien'.term <=> st'[c].terminated = 1
      <3>1. ASSUME NEW w \in User PROVE ~Terminates(w, c)
        <4> SUFFICES ASSUME Terminates(w, c) PROVE FALSE
          OBVIOUS
        <4>1. req'[w].at \in BusySteps
          BY <1>1, <1>b DEF Terminates, At
        <4>2. Terminates(w, c)'
          BY <1>1, <4>1 DEF Terminates, At
        <4> QED BY <2>2, <4>2
      <3> QED BY <1>i, <3>1 DEF IenParts, TermSoFar, Bystander
    <2> QED BY <2>1, <2>2 DEF TermSoFar
  <1> QED BY <1>2, <1>3, <1>4, <1>5, <1>6 DEF IenParts

-----------------------------------------------------------------------------
\* An access starts as a bystander, and ends as one.
LEMMA AccessIsBystander ==
  ASSUME TypeInv, NEW u \in User,
         (\E a \in Attribute : Access(u, a) \/ AccessFails(u, a)) \/ Return(u)
  PROVE  Bystander(u)
  <1> USE IenStepSets
  <1>0. req \in [User -> Req]
    BY DEF TypeInv
  <1>1. ien' = ien /\ st' = st /\ req[u].at \in {"idle", "done"}
    BY DEF Access, AccessFails, Return, At
  <1>2. ASSUME NEW a \in Attribute, Access(u, a)
        PROVE  /\ \A w \in User : w # u => req'[w] = req[w]
               /\ req'[u].at \notin BusySteps
               /\ req'[u].at \in IenSteps =>
                    clash' \/ \A w \in User : req[w].at \notin IenSteps
    <2> DEFINE r == [IdleReq EXCEPT !.at = First(a), !.acc = a]
    <2>1. req' = [req EXCEPT ![u] = r]
      BY <1>2 DEF Access
    <2>2. r.at = First(a)
      BY DEF IdleReq
    <2> HIDE DEF r
    <2>3. req'[u].at = First(a) /\ \A w \in User : w # u => req'[w] = req[w]
      BY <1>0, <2>1, <2>2
    <2>4. First(a) \notin BusySteps
      BY FirstSteps
    <2>5. First(a) \in IenSteps => clash' \/ \A w \in User : req[w].at \notin IenSteps
      BY <1>2 DEF Access
    <2> QED BY <2>3, <2>4, <2>5
  <1>3. ASSUME NEW a \in Attribute, AccessFails(u, a)
        PROVE  (\A w \in User : w # u => req'[w] = req[w]) /\ req'[u].at = "done"
    <2> DEFINE r == [IdleReq EXCEPT !.at = "done", !.acc = a, !.err = "EIO"]
    <2>1. req' = [req EXCEPT ![u] = r]
      BY <1>3 DEF AccessFails
    <2>2. r.at = "done"
      BY DEF IdleReq
    <2> HIDE DEF r
    <2> QED BY <1>0, <2>1, <2>2
  <1>4. CASE Return(u)
    <2>1. req' = [req EXCEPT ![u] = IdleReq]
      BY <1>4 DEF Return
    <2>2. IdleReq.at = "idle"
      BY DEF IdleReq
    <2>3. req'[u].at = "idle" /\ \A w \in User : w # u => req'[w] = req[w]
      BY <1>0, <2>1, <2>2
    <2> QED BY <1>1, <2>3 DEF Bystander
  <1>5. ASSUME NEW a \in Attribute, Access(u, a) PROVE Bystander(u)
    BY <1>1, <1>2, <1>5 DEF Bystander
  <1>6. ASSUME NEW a \in Attribute, AccessFails(u, a) PROVE Bystander(u)
    BY <1>1, <1>3, <1>6 DEF Bystander
  <1> QED BY <1>4, <1>5, <1>6

\* So are the steps of the other attributes, and those of INPUT_ENABLE that only
\* lead to one that reads it or end the access.
LEMMA OthersAreBystanders ==
  ASSUME TypeInv, NEW u \in User,
         \/ Show(u) \/ ShowInvalid(u) \/ Store(u) \/ OffsetRejected(u) \/ OffsetStore(u)
         \/ OffSeconds(u) \/ OffCoarse(u) \/ OffFrac(u) \/ Seconds(u)
         \/ WrRegister(u) \/ WrVariable(u) \/ WrVcxo(u) \/ WrAsk(u) \/ Abort(u)
  PROVE  Bystander(u)
  <1> USE AllLabels
  <1>0. req \in [User -> Req] /\ st \in [Chan -> State]
    BY DEF TypeInv
  <1>1. ien' = ien
    BY DEF Show, ShowInvalid, Store, OffsetRejected, OffsetStore, OffSeconds, OffCoarse,
       OffFrac, OffsetWrite, Seconds, WrRegister, WrVariable, WrVcxo, WrAsk, Abort
  <1>2. req[u].at \notin BusySteps
    BY IenStepSets DEF Show, ShowInvalid, Store, OffsetRejected, OffsetStore, OffSeconds,
       OffCoarse, OffFrac, OffsetWrite, Seconds, WrRegister, WrVariable, WrVcxo, WrAsk, Abort, At
  <1> DEFINE Targets == {"off_seconds", "off_coarse", "off_frac", "tai_read", "wr_mode", "vcxo"}
  <1>3. \/ \E e \in Errno, v \in Int : Done(u, e, v)
        \/ \E l \in Targets : GoTo(u, l) /\ (l \in IenSteps => req[u].at \in IenSteps)
    <2>e. Errno = {"none", "EINVAL", "EPERM", "ENODEV", "ENOLINK", "EAGAIN", "EIO"}
      BY DEF Errno
    <2>1. CASE Show(u)
      BY <2>1, <2>e, ShownIsInt DEF Show
    <2>2. CASE ShowInvalid(u) \/ Store(u) \/ OffsetRejected(u) \/ OffFrac(u) \/ WrVcxo(u) \/ Abort(u)
      BY <2>2, <2>e DEF ShowInvalid, Store, OffsetRejected, OffFrac, WrVcxo, Abort
    <2>3. CASE OffsetStore(u) \/ OffSeconds(u) \/ OffCoarse(u) \/ WrRegister(u)
      BY <2>3, IenStepSets DEF OffsetStore, OffSeconds, OffCoarse, OffsetWrite, WrRegister
    <2>4. CASE Seconds(u)
      BY <2>4, <2>e, IenStepSets DEF Seconds, At
    <2>5. CASE WrVariable(u)
      BY <2>5, <2>e, IenStepSets DEF WrVariable
    <2>6. CASE WrAsk(u)
      BY <2>6, <2>e DEF WrAsk
    <2> QED BY <2>1, <2>2, <2>3, <2>4, <2>5, <2>6
  <1>4. /\ \A w \in User : w # u => req'[w] = req[w]
        /\ req'[u].at \notin BusySteps
        /\ req'[u].at \in IenSteps => req[u].at \in IenSteps
    <2>1. ASSUME NEW e \in Errno, NEW v \in Int, Done(u, e, v)
          PROVE  req'[u].at = "done" /\ \A w \in User : w # u => req'[w] = req[w]
      BY <1>0, <2>1, DoneMoves DEF Moved
    <2>2. ASSUME NEW l \in Targets, GoTo(u, l)
          PROVE  req'[u].at = l /\ \A w \in User : w # u => req'[w] = req[w]
      BY <1>0, <2>2, GoToMoves DEF Moved
    <2> QED BY <1>3, <2>1, <2>2, IenStepSets
  <1>5. ASSUME NEW c \in Chan
        PROVE  st'[c].enabled = st[c].enabled /\ st'[c].terminated = st[c].terminated
    <2> DEFINE d == Ch(u)
               v == Val(u)
               t == IF v = 0 THEN "kmalloc" ELSE "vmalloc"
    <2>1. \/ st' = st
          \/ st' = [st EXCEPT ![d].prefer_new = v]
          \/ st' = [st EXCEPT ![d].kb = v]
          \/ st' = [st EXCEPT ![d].type = t]
          \/ st' = [st EXCEPT ![d].user_offset = v]
      BY DEF Show, ShowInvalid, Store, OffsetRejected, OffsetStore, OffSeconds, OffCoarse,
         OffFrac, OffsetWrite, Seconds, WrRegister, WrVariable, WrVcxo, WrAsk, Abort
    <2> HIDE DEF d, v, t
    <2> QED BY <1>0, <2>1 DEF State
  <1> QED BY <1>1, <1>2, <1>4, <1>5 DEF Bystander

-----------------------------------------------------------------------------
\* What the steps of ft_enable, ft_disable, ft_enable_termination and
\* ft_set_tai_time have in common: their process is the only one.
LEMMA AloneOnIt ==
  ASSUME IenParts, NEW u \in User, req[u].at \in IenSteps
  PROVE  /\ \A w \in User : w # u => req[w].at \notin IenSteps
         /\ req[u].at \notin LoadSteps => ien.flag
         /\ \A c \in Chan : ~Switches(u, c) => (c \in ien.acq <=> st[c].enabled = 1)
         /\ \A c \in Chan : ~Terminates(u, c) => (c \in ien.term <=> st[c].terminated = 1)
  <1>1. \A w \in User : w # u => req[w].at \notin IenSteps
    BY DEF IenParts, Lone
  <1>2. \A w \in User : w # u => req[w].at \notin BusySteps
    BY <1>1, IenStepSets
  <1>3. ASSUME NEW c \in Chan, NEW w \in User, w # u
        PROVE  ~Switches(w, c) /\ ~Terminates(w, c) /\ req[w].at \notin LoadSteps
    BY <1>2, <1>3 DEF Switches, Terminates, At, BusySteps
  <1>4. \A w \in User : w # u => req[w].at \notin LoadSteps
    BY <1>2 DEF BusySteps
  <1>5. req[u].at \notin LoadSteps => ien.flag
    BY <1>4 DEF IenParts, FlagSoFar
  <1>6. ASSUME NEW c \in Chan, ~Switches(u, c)
        PROVE  c \in ien.acq <=> st[c].enabled = 1
    BY <1>3, <1>6 DEF IenParts, AcqSoFar
  <1>7. ASSUME NEW c \in Chan, ~Terminates(u, c)
        PROVE  c \in ien.term <=> st[c].terminated = 1
    BY <1>3, <1>7 DEF IenParts, TermSoFar
  <1> QED BY <1>1, <1>5, <1>6, <1>7

\* The read of a read-modify-write takes a true copy.
LEMMA ReadMoves ==
  ASSUME TypeInv, NEW u \in User, NEW l \in Labels, NEW n \in Labels, ReadInputEnable(u, l, n)
  PROVE  Moved(u, n) /\ req'[u].ien = ien
  <1> DEFINE r == [req[u] EXCEPT !.at = n, !.ien = ien]
  <1>1. r \in Req /\ r.at = n /\ r.acc = req[u].acc /\ r.ien = ien
    BY AccTypes DEF Req, TypeInv
  <1>2. req' = [req EXCEPT ![u] = r]
    BY DEF ReadInputEnable
  <1> HIDE DEF r
  <1> QED BY <1>1, <1>2 DEF Moved, TypeInv

\* ZIO's flag and ft_enable or ft_disable.
LEMMA EnableKeeps ==
  ASSUME TypeInv, IenParts, NEW u \in User, Enable(u) \/ EnRead(u) \/ EnWrite(u)
  PROVE  IenParts'
  <1> USE AllLabels
  <1> DEFINE c == Ch(u)
             v == Val(u)
  <1>0. /\ c \in Chan /\ v \in Int /\ req[u].ien \in Ien /\ ien \in Ien
        /\ req \in [User -> Req] /\ st \in [Chan -> State]
    BY AccTypes DEF TypeInv
  <1>1. req[u].at \in IenSteps
    BY IenStepSets DEF Enable, EnRead, EnWrite, ReadInputEnable, At
  <1>s. /\ CopySteps = {"en_write", "term_write", "tai_off"}
        /\ LoadSteps = {"tai_start", "tai_load", "tai_on"}
        /\ SwitchSteps = {"en_read", "en_write"}
    BY DEF CopySteps, LoadSteps, SwitchSteps
  <1>2. CASE Enable(u)
    <2>1. req[u].at = "enable" /\ ien' = ien /\ st' = [st EXCEPT ![c].enabled = v]
      BY <1>2 DEF Enable, At
    <2>2. /\ st'[c].enabled = v
          /\ \A d \in Chan : d # c => st'[d].enabled = st[d].enabled
          /\ \A d \in Chan : st'[d].terminated = st[d].terminated
      BY <1>0, <2>1 DEF State
    <2>3. \A d \in Chan : ~Switches(u, d) /\ ~Terminates(u, d)
      BY <1>s, <2>1 DEF Switches, Terminates, At
    <2>4. CASE st[c].enabled # v
      <3>1. Moved(u, "en_read")
        BY <1>0, <1>2, <2>4, GoToMoves DEF Enable, OkGoTo
      <3> HIDE DEF c, v
      <3> QED BY <1>1, <1>s, <2>1, <2>2, <2>3, <3>1, AloneOnIt, WorkerKeeps DEF c, v
    <2>5. CASE st[c].enabled = v
      <3>1. Moved(u, "done")
        BY <1>0, <1>2, <2>5, DoneMoves DEF Enable, OkGoTo, Errno
      <3>2. \A d \in Chan : st'[d].enabled = st[d].enabled
        BY <2>2, <2>5
      <3> HIDE DEF c, v
      <3> QED BY <1>1, <1>s, <2>1, <2>2, <2>3, <3>1, <3>2, AloneOnIt, WorkerKeeps DEF c, v
    <2> QED BY <2>4, <2>5
  <1>3. CASE EnRead(u)
    <2>1. Moved(u, "en_write") /\ req'[u].ien = ien
      BY <1>3, ReadMoves DEF EnRead
    <2>2. req[u].at = "en_read" /\ ien' = ien /\ st' = st
      BY <1>3 DEF EnRead, ReadInputEnable, At
    <2>3. st[c].enabled = v
      BY <1>s, <2>2 DEF IenParts, AcqSoFar
    <2>4. /\ \A d \in Chan : d # c => ~Switches(u, d)
          /\ \A d \in Chan : ~Terminates(u, d)
      BY <2>2 DEF Switches, Terminates, At
    <2> HIDE DEF c, v
    <2> QED BY <1>1, <1>s, <2>1, <2>2, <2>3, <2>4, AloneOnIt, WorkerKeeps DEF c, v
  <1>4. CASE EnWrite(u)
    <2>1. /\ req[u].at = "en_write" /\ st' = st
          /\ ien' = [req[u].ien EXCEPT !.acq = AcqBits(req[u].ien, c, v)]
      BY <1>4 DEF EnWrite, At
    <2>2. req[u].ien = ien /\ st[c].enabled = v
      BY <1>s, <2>1 DEF IenParts, CopyFresh, AcqSoFar
    <2>3. /\ ien'.term = ien.term /\ ien'.flag = ien.flag
          /\ ien'.acq = (IF v = 1 THEN ien.acq \union {c} ELSE ien.acq \ {c})
      BY <1>0, <2>1, <2>2 DEF Ien, AcqBits
    <2>4. /\ \A d \in Chan : d # c => ~Switches(u, d)
          /\ \A d \in Chan : ~Terminates(u, d)
      BY <2>1 DEF Switches, Terminates, At
    <2>5. \A d \in Chan : d \in ien'.acq <=> st[d].enabled = 1
      <3> SUFFICES ASSUME NEW d \in Chan PROVE d \in ien'.acq <=> st[d].enabled = 1
        OBVIOUS
      <3>1. CASE d = c
        BY <2>2, <2>3, <3>1
      <3>2. CASE d # c
        BY <1>1, <2>3, <2>4, <3>2, AloneOnIt
      <3> QED BY <3>1, <3>2
    <2>6. Moved(u, "abort") \/ Moved(u, "done")
      <3>1. \E ok \in BOOLEAN : OkGoTo(u, ok, "abort")
        BY <1>4 DEF EnWrite
      <3> QED BY <1>0, <3>1, OkGoToMoves
    <2> HIDE DEF c, v
    <2>7. CASE Moved(u, "abort")
      BY <1>1, <1>s, <2>1, <2>3, <2>4, <2>5, <2>7, AloneOnIt, WorkerKeeps DEF c, v
    <2>8. CASE Moved(u, "done")
      BY <1>1, <1>s, <2>1, <2>3, <2>4, <2>5, <2>8, AloneOnIt, WorkerKeeps DEF c, v
    <2> QED BY <2>6, <2>7, <2>8
  <1> QED BY <1>2, <1>3, <1>4

\* ft_enable_termination.
LEMMA TerminationKeeps ==
  ASSUME TypeInv, IenParts, NEW u \in User, TermRead(u) \/ TermWrite(u) \/ TermFlag(u)
  PROVE  IenParts'
  <1> USE AllLabels
  <1> DEFINE c == Ch(u)
             v == Val(u)
  <1>0. /\ c \in Chan /\ v \in Int /\ req[u].ien \in Ien /\ ien \in Ien
        /\ req \in [User -> Req] /\ st \in [Chan -> State]
    BY AccTypes DEF TypeInv
  <1>1. req[u].at \in IenSteps
    BY IenStepSets DEF TermRead, TermWrite, TermFlag, ReadInputEnable, At
  <1>s. /\ CopySteps = {"en_write", "term_write", "tai_off"}
        /\ LoadSteps = {"tai_start", "tai_load", "tai_on"}
        /\ SwitchSteps = {"en_read", "en_write"}
    BY DEF CopySteps, LoadSteps, SwitchSteps
  <1>2. CASE TermRead(u)
    <2>1. Moved(u, "term_write") /\ req'[u].ien = ien
      BY <1>2, ReadMoves DEF TermRead
    <2>2. req[u].at = "term_read" /\ ien' = ien /\ st' = st
      BY <1>2 DEF TermRead, ReadInputEnable, At
    <2>3. \A d \in Chan : ~Switches(u, d) /\ ~Terminates(u, d)
      BY <1>s, <2>2 DEF Switches, Terminates, At
    <2> QED BY <1>1, <1>s, <2>1, <2>2, <2>3, AloneOnIt, WorkerKeeps
  <1>3. CASE TermWrite(u)
    <2> DEFINE t == IF v = 1 THEN req[u].ien.term \union {c} ELSE req[u].ien.term \ {c}
    <2>1. /\ req[u].at = "term_write" /\ st' = st
          /\ ien' = [req[u].ien EXCEPT !.term = t]
      BY <1>3 DEF TermWrite, At
    <2>2. req[u].ien = ien
      BY <1>s, <2>1 DEF IenParts, CopyFresh
    <2>3. ien'.acq = ien.acq /\ ien'.flag = ien.flag /\ ien'.term = t
      BY <1>0, <2>1, <2>2 DEF Ien
    <2>4. \A d \in Chan : ~Switches(u, d) /\ ~Terminates(u, d)
      BY <1>s, <2>1 DEF Switches, Terminates, At
    <2>5. /\ c \in ien'.term <=> v = 1
          /\ \A d \in Chan : d # c => (d \in ien'.term <=> st[d].terminated = 1)
      BY <1>1, <2>2, <2>3, <2>4, AloneOnIt
    <2>6. Moved(u, "term_flag")
      BY <1>0, <1>3, GoToMoves DEF TermWrite
    <2> HIDE DEF c, v, t
    <2> QED BY <1>1, <1>s, <2>1, <2>3, <2>4, <2>5, <2>6, AloneOnIt, WorkerKeeps DEF c, v
  <1>4. CASE TermFlag(u)
    <2>1. /\ req[u].at = "term_flag" /\ ien' = ien
          /\ st' = [st EXCEPT ![c].terminated = v]
      BY <1>4 DEF TermFlag, At
    <2>2. /\ st'[c].terminated = v
          /\ \A d \in Chan : d # c => st'[d].terminated = st[d].terminated
          /\ \A d \in Chan : st'[d].enabled = st[d].enabled
      BY <1>0, <2>1 DEF State
    <2>3. c \in ien.term <=> v = 1
      BY <2>1 DEF IenParts, TermSoFar
    <2>4. /\ \A d \in Chan : ~Switches(u, d)
          /\ \A d \in Chan : d # c => ~Terminates(u, d)
      BY <1>s, <2>1 DEF Switches, Terminates
    <2>5. Moved(u, "done")
      BY <1>0, <1>4, DoneMoves DEF TermFlag, Errno
    <2> HIDE DEF c, v
    <2> QED BY <1>1, <1>s, <2>1, <2>2, <2>3, <2>4, <2>5, AloneOnIt, WorkerKeeps DEF c, v
  <1> QED BY <1>2, <1>3, <1>4

\* ft_set_tai_time.
LEMMA TaiKeeps ==
  ASSUME TypeInv, IenParts, NEW u \in User,
         TaiRead(u) \/ TaiOff(u) \/ TaiStart(u) \/ TaiLoad(u) \/ TaiOn(u)
  PROVE  IenParts'
  <1> USE AllLabels
  <1>0. /\ req[u].ien \in Ien /\ ien \in Ien /\ req \in [User -> Req]
        /\ req[u].at \in {"tai_read", "tai_off", "tai_start", "tai_load", "tai_on"}
        /\ st' = st
    BY AccTypes DEF TypeInv, TaiRead, ReadInputEnable, TaiOff, TaiStart, TaiLoad, TaiOn, At
  <1>1. req[u].at \in IenSteps
    BY <1>0, IenStepSets
  <1>s. /\ CopySteps = {"en_write", "term_write", "tai_off"}
        /\ LoadSteps = {"tai_start", "tai_load", "tai_on"}
        /\ SwitchSteps = {"en_read", "en_write"}
    BY DEF CopySteps, LoadSteps, SwitchSteps
  <1>2. \A d \in Chan : ~Switches(u, d) /\ ~Terminates(u, d)
    BY <1>0, <1>s DEF Switches, Terminates, At
  <1>3. /\ \A d \in Chan : d \in ien.acq <=> st[d].enabled = 1
        /\ \A d \in Chan : d \in ien.term <=> st[d].terminated = 1
    BY <1>1, <1>2, AloneOnIt
  <1>4. CASE TaiRead(u)
    <2>1. Moved(u, "tai_off") /\ req'[u].ien = ien
      BY <1>4, ReadMoves DEF TaiRead
    <2>2. req[u].at = "tai_read" /\ ien' = ien
      BY <1>4 DEF TaiRead, ReadInputEnable, At
    <2> QED BY <1>0, <1>1, <1>s, <1>3, <2>1, <2>2, AloneOnIt, WorkerKeeps
  <1>5. CASE TaiOff(u)
    <2>1. /\ req[u].at = "tai_off" /\ ien' = [req[u].ien EXCEPT !.flag = FALSE]
      BY <1>5 DEF TaiOff, At, FlagDuringLoad
    <2>2. req[u].ien = ien
      BY <1>s, <2>1 DEF IenParts, CopyFresh
    <2>3. ien'.acq = ien.acq /\ ien'.term = ien.term /\ ~ien'.flag
      BY <1>0, <2>1, <2>2 DEF Ien
    <2>4. Moved(u, "tai_start") /\ req'[u].ien = req[u].ien
      BY <1>0, <1>5, GoToMoves DEF TaiOff
    <2> QED BY <1>0, <1>1, <1>s, <1>3, <2>2, <2>3, <2>4, AloneOnIt, WorkerKeeps
  <1>6. CASE TaiStart(u) \/ TaiLoad(u)
    <2>1. req[u].at \in {"tai_start", "tai_load"} /\ ien' = ien
      BY <1>6 DEF TaiStart, TaiLoad, At
    <2>2. req[u].ien.acq = ien.acq /\ req[u].ien.term = ien.term /\ ~ien.flag
      BY <1>s, <2>1 DEF IenParts, CopyFresh, FlagSoFar
    <2>3. \E l \in {"tai_load", "tai_on"} : Moved(u, l) /\ req'[u].ien = req[u].ien
      BY <1>0, <1>6, GoToMoves DEF TaiStart, TaiLoad
    <2> QED BY <1>0, <1>1, <1>s, <1>3, <2>1, <2>2, <2>3, AloneOnIt, WorkerKeeps
  <1>7. CASE TaiOn(u)
    <2>1. /\ req[u].at = "tai_on" /\ ien' = [req[u].ien EXCEPT !.flag = TRUE]
      BY <1>7 DEF TaiOn, At
    <2>2. req[u].ien.acq = ien.acq /\ req[u].ien.term = ien.term
      BY <1>s, <2>1 DEF IenParts, CopyFresh
    <2>3. ien'.acq = ien.acq /\ ien'.term = ien.term /\ ien'.flag
      BY <1>0, <2>1, <2>2 DEF Ien
    <2>4. Moved(u, "done")
      BY <1>0, <1>7, DoneMoves DEF TaiOn, Errno
    <2> QED BY <1>0, <1>1, <1>s, <1>3, <2>3, <2>4, AloneOnIt, WorkerKeeps
  <1> QED BY <1>4, <1>5, <1>6, <1>7

-----------------------------------------------------------------------------
\* Once two accesses have overlapped, they have.
LEMMA ClashStays ==
  ASSUME TypeInv, [SysNext]_sysVars, ~clash'
  PROVE  ~clash
  <1>1. CASE UNCHANGED sysVars
    BY <1>1 DEF sysVars
  <1>2. ASSUME NEW u \in User, AttrStep(u) \/ Abort(u) \/ Return(u)
        PROVE  clash' = clash
    BY <1>2 DEF AttrStep, Abort, Return, Show, ShowInvalid, Store, Enable, EnRead, EnWrite,
       ReadInputEnable, TermRead, TermWrite, TermFlag, OffsetRejected, OffsetStore, OffSeconds,
       OffCoarse, OffFrac, OffsetWrite, Seconds, TaiRead, TaiOff, TaiStart, TaiLoad, TaiOn,
       WrRegister, WrVariable, WrVcxo, WrAsk
  <1>3. ASSUME NEW u \in User, NEW a \in Attribute, Access(u, a) \/ AccessFails(u, a)
        PROVE  ~clash
    BY <1>3 DEF Access, AccessFails
  <1> QED BY <1>1, <1>2, <1>3 DEF SysNext

\* Every step preserves the invariant.
LEMMA IenStep ==
  ASSUME IenInv, [SysNext]_sysVars
  PROVE  IenInv'
  <1>1. TypeInv /\ TypeInv'
    BY TypeStep DEF IenInv
  <1>2. CASE clash'
    BY <1>1, <1>2 DEF IenInv
  <1>3. CASE ~clash'
    <2>1. IenParts
      BY <1>1, <1>3, ClashStays DEF IenInv
    <2>2. CASE UNCHANGED sysVars
      <3>1. IenParts'
        BY <2>1, <2>2 DEF sysVars, IenParts, Lone, CopyFresh, FlagSoFar, AcqSoFar, TermSoFar,
           Switches, Terminates, At, Ch, Val
      <3> QED BY <1>1, <3>1 DEF IenInv
    <2>3. ASSUME NEW u \in User,
                 \/ \E a \in Attribute : Access(u, a) \/ AccessFails(u, a)
                 \/ AttrStep(u) \/ Abort(u) \/ Return(u)
          PROVE  IenInv'
      <3>1. CASE (\E a \in Attribute : Access(u, a) \/ AccessFails(u, a)) \/ Return(u)
        BY <1>1, <1>3, <2>1, <3>1, AccessIsBystander, BystanderKeeps DEF IenInv
      <3>2. CASE Enable(u) \/ EnRead(u) \/ EnWrite(u)
        BY <1>1, <2>1, <3>2, EnableKeeps DEF IenInv
      <3>3. CASE TermRead(u) \/ TermWrite(u) \/ TermFlag(u)
        BY <1>1, <2>1, <3>3, TerminationKeeps DEF IenInv
      <3>4. CASE TaiRead(u) \/ TaiOff(u) \/ TaiStart(u) \/ TaiLoad(u) \/ TaiOn(u)
        BY <1>1, <2>1, <3>4, TaiKeeps DEF IenInv
      <3>5. CASE \/ Show(u) \/ ShowInvalid(u) \/ Store(u) \/ OffsetRejected(u) \/ OffsetStore(u)
                 \/ OffSeconds(u) \/ OffCoarse(u) \/ OffFrac(u) \/ Seconds(u)
                 \/ WrRegister(u) \/ WrVariable(u) \/ WrVcxo(u) \/ WrAsk(u) \/ Abort(u)
        BY <1>1, <1>3, <2>1, <3>5, OthersAreBystanders, BystanderKeeps DEF IenInv
      <3> QED BY <2>3, <3>1, <3>2, <3>3, <3>4, <3>5 DEF AttrStep
    <2> QED BY <2>2, <2>3 DEF SysNext
  <1> QED BY <1>2, <1>3

\* The invariant holds at the start.
LEMMA IenInit ==
  ASSUME SysInit
  PROVE  IenInv
  <1>1. \A u \in User : req[u] = IdleReq /\ IdleReq.at = "idle"
    BY DEF SysInit, IdleReq
  <1>2. \A u \in User : req[u].at \notin IenSteps /\ req[u].at \notin BusySteps
    BY <1>1, IenStepSets
  <1>3. Lone
    BY <1>2 DEF Lone
  <1>4. CopyFresh /\ FlagSoFar
    BY <1>2 DEF CopyFresh, FlagSoFar, BusySteps, SysInit
  <1>5. \A c \in Chan : c \notin ien.acq /\ c \notin ien.term
                        /\ st[c].enabled = 0 /\ st[c].terminated = 0
    BY DEF SysInit
  <1>6. AcqSoFar /\ TermSoFar
    BY <1>2, <1>5 DEF AcqSoFar, TermSoFar, BusySteps
  <1> QED BY <1>3, <1>4, <1>6, TypeInit DEF IenInv, IenParts

\* The invariant of INPUT_ENABLE holds in every state.
LEMMA IenInvHolds == SysSpec => []IenInv
  BY IenInit, IenStep, PTL DEF SysSpec

\* INPUT_ENABLE says of every input what ZIO and the driver believe, whenever no
\* access to it is under way and none has overlapped another: for any number of
\* processes and inputs, none of the four functions loses a bit of another.
THEOREM EnablesMatch == SysSpec => []EnableMatches
  <1>1. ASSUME IenInv PROVE EnableMatches
    <2> SUFFICES ASSUME ~clash, \A u \in User : req[u].at \notin IenSteps
                 PROVE  /\ ien.acq = {c \in Chan : st[c].enabled = 1}
                        /\ ien.term = {c \in Chan : st[c].terminated = 1}
                        /\ ien.flag
      BY DEF EnableMatches
    <2>1. IenParts /\ ien \in Ien
      BY <1>1 DEF IenInv, TypeInv
    <2>2. \A u \in User : req[u].at \notin BusySteps
      BY IenStepSets
    <2>3. ien.flag
      BY <2>1, <2>2 DEF IenParts, FlagSoFar, BusySteps
    <2>4. \A c \in Chan : c \in ien.acq <=> st[c].enabled = 1
      BY <2>1, <2>2 DEF IenParts, AcqSoFar, Switches, BusySteps
    <2>5. \A c \in Chan : c \in ien.term <=> st[c].terminated = 1
      BY <2>1, <2>2 DEF IenParts, TermSoFar, Terminates, At, BusySteps
    <2> QED BY <2>1, <2>3, <2>4, <2>5 DEF Ien
  <1> QED BY <1>1, IenInvHolds, PTL

\* "can't change time when inputs are enabled" (ft_set_tai_time): CURRENT_UTC is
\* loaded only while the global flag is off, unless accesses have overlapped.
THEOREM LoadsWhileOff == SysSpec => LoadWhileOff
  <1>1. ASSUME IenInv
        PROVE  [(\E u \in User : TaiLoad(u)) => clash \/ ~ien.flag]_sysVars
    <2> SUFFICES ASSUME NEW u \in User, TaiLoad(u), ~clash PROVE ~ien.flag
      OBVIOUS
    <2>1. req[u].at \in LoadSteps
      BY DEF TaiLoad, At, LoadSteps
    <2> QED BY <1>1, <2>1 DEF IenInv, IenParts, FlagSoFar
  <1> QED BY <1>1, IenInvHolds, PTL DEF LoadWhileOff
-----------------------------------------------------------------------------
(* What the registers hold *)

\* A quotient is less than the number of the divisors in a bound of the dividend.
LEMMA Quotient ==
  ASSUME NEW b \in Nat \ {0}, NEW n \in Nat, NEW a \in Nat, a < b * n
  PROVE  a \div b \in 0 .. n - 1
  <1> DEFINE q == a \div b
             r == a % b
  <1>0. b * n \in Int
    OBVIOUS
  <1>1. q \in Int /\ r \in 0 .. b - 1 /\ a = b * q + r
    BY Z3
  <1> HIDE DEF q, r
  <1>2. q >= 0
    <2> SUFFICES ASSUME q <= -1 PROVE FALSE
      BY <1>1
    <2>1. b * q <= b * (-1)
      BY <1>1
    <2> QED BY <1>1, <2>1
  <1>3. q < n
    <2> SUFFICES ASSUME q >= n PROVE FALSE
      BY <1>1
    <2>1. b * q >= b * n
      BY <1>1
    <2> QED BY <1>0, <1>1, <2>1
  <1> QED BY <1>1, <1>2, <1>3 DEF q

\* Less than a second of picoseconds is a normalized timestamp
\* (ft_ts_from_picos).
LEMMA ShortIsNormal ==
  ASSUME NEW p \in Nat, p < Picos * Coarse
  PROVE  FromPicos(p) \in Time
  <1>1. p \div Picos \in 0 .. Coarse - 1
    BY Quotient, TsConstants
  <1>2. PICK r \in 0 .. Picos - 1 : r = p % Picos
    BY TsConstants
  <1>3. r * Frac < Picos * Frac /\ r * Frac \in Nat
    BY TsConstants
  <1>4. (r * Frac) \div Picos \in 0 .. Frac - 1
    BY <1>3, Quotient, TsConstants
  <1>5. 0 \in 0 .. Era - 1
    BY TsConstants
  <1> QED BY <1>1, <1>2, <1>4, <1>5, TsIsTime DEF FromPicos

\* An offset of less than a second, of either sign, keeps timestamps normalized
\* (ft_ts_apply_offset).
LEMMA ApplyIsNormal ==
  ASSUME NEW t \in Time, NEW p \in Int, p < Picos * Coarse, -p < Picos * Coarse
  PROVE  ApplyOffset(t, p) \in Time
  <1>1. CASE p < 0
    <2>1. -p \in Nat
      BY <1>1
    <2>2. FromPicos(-p) \in Time
      BY <2>1, ShortIsNormal
    <2>3. Sub(t, FromPicos(-p)) \in Time
      BY <2>2, SubIsNormal
    <2> QED BY <1>1, <2>3 DEF ApplyOffset
  <1>2. CASE ~(p < 0)
    <2>1. p \in Nat
      BY <1>2
    <2>2. FromPicos(p) \in Time
      BY <2>1, ShortIsNormal
    <2>3. Add(t, FromPicos(p)) \in Time
      BY <2>2, AddIsNormal
    <2> QED BY <1>2, <2>3 DEF ApplyOffset
  <1> QED BY <1>1, <1>2

\* The offsets ft_zio_conf_channel accepts.
UserOffset == -OffsetRange .. OffsetRange

\* What ft_update_offsets writes is a normalized timestamp, for every offset a
\* user may set.
THEOREM OffsetsAreNormal ==
  ASSUME NEW v \in UserOffset
  PROVE  HwOffset(v) \in Time
  <1>0. PICK s \in Nat : s = Picos * Coarse
    BY TsConstants
  <1>1. /\ ZeroOffset < s /\ -ZeroOffset < s /\ WrOffset < s /\ -WrOffset < s /\ OffsetRange < s
        /\ ZeroOffset \in Int /\ WrOffset \in Int /\ OffsetRange \in Nat
    BY <1>0, OffsetsAreShort, SysfsConstants
  <1>2. v \in Int /\ v < s /\ -v < s
    BY <1>1 DEF UserOffset
  <1>3. Zero \in Time
    <2>1. 0 \in 0 .. Era - 1 /\ 0 \in 0 .. Coarse - 1 /\ 0 \in 0 .. Frac - 1
      BY TsConstants
    <2> QED BY <2>1, TsIsTime DEF Zero
  <1> DEFINE zero == ApplyOffset(Zero, ZeroOffset)
             white == ApplyOffset(zero, -WrOffset)
  <1>4. zero \in Time
    BY <1>0, <1>1, <1>3, ApplyIsNormal
  <1>5. -WrOffset \in Int /\ -WrOffset < s /\ -(-WrOffset) < s
    BY <1>1
  <1> HIDE DEF zero
  <1>6. white \in Time
    BY <1>0, <1>4, <1>5, ApplyIsNormal
  <1> HIDE DEF white
  <1>7. ApplyOffset(white, v) \in Time
    BY <1>0, <1>2, <1>6, ApplyIsNormal
  <1> QED BY <1>6, <1>7 DEF HwOffset, white, zero

\* What is known of an access from where it is: ZIO and the dispatch have let it
\* through, and an offset is in the range when it is stored.
AccessOf(r) ==
  /\ r.at \notin {"idle", "done"} => Accepts(r.acc)
  /\ r.at \notin {"idle", "done", "show"} => r.acc.set
  /\ r.at \in EnableSteps => r.acc.attr = "enable"
  /\ r.at \in TermSteps => r.acc.attr = "termination"
  /\ r.at \in OffSteps => r.acc.val \in UserOffset
  /\ r.at = "idle" => r = IdleReq
Accesses == \A u \in User : AccessOf(req[u])

\* The offset registers are normalized, the flags are flags, and what is
\* written to START_UTC has 32 bits.
Registers ==
  /\ \A c \in Chan : tsf[c].off \in Time /\ tsf[c].raw \in {0, 1}
  /\ \A c \in Chan : /\ st[c].enabled \in {0, 1} /\ st[c].terminated \in {0, 1}
                     /\ st[c].user_offset \in UserOffset
  /\ tai \in [start : 0 .. Era - 1, current : 0 .. Era - 1]

\* Where an access starts says what it is.
LEMMA FirstSays ==
  ASSUME NEW a \in Attribute
  PROVE  /\ First(a) \in FirstLabels /\ (First(a) # "show" => a.set)
         /\ First(a) \in EnableSteps => a.attr = "enable"
         /\ First(a) \in TermSteps => a.attr = "termination"
  <1>1. a.set \in BOOLEAN
    BY DEF Attribute
  <1>2. CASE ~a.set
    <2>1. First(a) = "show"
      BY <1>2 DEF First
    <2> QED BY <2>1 DEF FirstLabels, EnableSteps, TermSteps
  <1>3. CASE a.set
    <2> DEFINE n == a.attr
    <2>1. CASE n = "enable"
      BY <1>3, <2>1 DEF First, FirstLabels, EnableSteps, TermSteps
    <2>2. CASE n = "termination"
      BY <1>3, <2>2 DEF First, FirstLabels, EnableSteps, TermSteps
    <2>3. CASE n = "user-offset"
      BY <1>3, <2>3 DEF First, FirstLabels, EnableSteps, TermSteps
    <2>4. CASE n = "seconds"
      BY <1>3, <2>4 DEF First, FirstLabels, EnableSteps, TermSteps
    <2>5. CASE n = "command"
      BY <1>3, <2>5 DEF First, FirstLabels, EnableSteps, TermSteps
    <2>6. CASE n \notin {"enable", "termination", "user-offset", "seconds", "command"}
      BY <1>3, <2>6 DEF First, FirstLabels, EnableSteps, TermSteps
    <2> QED BY <2>1, <2>2, <2>3, <2>4, <2>5, <2>6
  <1> QED BY <1>1, <1>2, <1>3

\* Where a step in the driver leads to: to the end, or further into the same
\* access.
GoesOn(u, l) ==
  /\ Moved(u, l) /\ req[u].at \notin {"idle", "done"}
  /\ l = "done" \/ (req[u].at # "show" /\ l \notin {"idle", "show"})
  /\ l \in EnableSteps => req[u].at \in EnableSteps
  /\ l \in TermSteps => req[u].at \in TermSteps
  /\ l \in OffSteps => req[u].at \in OffSteps \/ Val(u) \in UserOffset

\* Every step in the driver goes on.
LEMMA StepsGoOn ==
  ASSUME TypeInv, NEW u \in User, AttrStep(u) \/ Abort(u)
  PROVE  \E l \in Labels : GoesOn(u, l)
  <1>0. req \in [User -> Req]
    BY DEF TypeInv
  <1>1. ASSUME NEW l \in Labels, Moved(u, l), req[u].at \notin {"idle", "done", "show"},
               l \notin {"idle", "show"},
               l \in EnableSteps => req[u].at \in EnableSteps,
               l \in TermSteps => req[u].at \in TermSteps,
               l \in OffSteps => req[u].at \in OffSteps \/ Val(u) \in UserOffset
        PROVE  \E k \in Labels : GoesOn(u, k)
    BY <1>1 DEF GoesOn
  <1>2. ASSUME NEW e \in Errno, NEW v \in Int, Done(u, e, v), req[u].at \notin {"idle", "done"}
        PROVE  \E k \in Labels : GoesOn(u, k)
    <2>1. Moved(u, "done")
      BY <1>0, <1>2, DoneMoves
    <2> QED BY <1>2, <2>1, AllLabels DEF GoesOn, EnableSteps, TermSteps, OffSteps
  <1>s. /\ EnableSteps = {"enable", "en_read", "en_write", "abort"}
        /\ TermSteps = {"term_read", "term_write", "term_flag"}
        /\ OffSteps = {"off_seconds", "off_coarse", "off_frac"}
    BY DEF EnableSteps, TermSteps, OffSteps
  <1>e. {"none", "EPERM", "EINVAL", "EIO", "ENODEV", "ENOLINK", "EAGAIN"} = Errno
    BY DEF Errno
  <1>g. \A l \in Labels : GoTo(u, l) => Moved(u, l)
    BY <1>0, GoToMoves
  <1>r. \A l \in Labels, n \in Labels : ReadInputEnable(u, l, n) => Moved(u, n) /\ req[u].at = l
    BY ReadMoves DEF ReadInputEnable, At
  <1>3. CASE Show(u)
    BY <1>2, <1>3, <1>e, ShownIsInt DEF Show, At
  <1>4. CASE \/ ShowInvalid(u) \/ Store(u) \/ Abort(u) \/ TermFlag(u) \/ OffsetRejected(u)
             \/ OffFrac(u) \/ TaiOn(u) \/ WrVcxo(u) \/ WrAsk(u)
    BY <1>2, <1>4, <1>e
       DEF ShowInvalid, Store, Abort, TermFlag, OffsetRejected, OffFrac, TaiOn, WrVcxo, WrAsk, At
  <1>5. CASE EnRead(u)
    <2>1. Moved(u, "en_write") /\ req[u].at = "en_read"
      BY <1>5, <1>r, AllLabels DEF EnRead
    <2> QED BY <1>1, <1>s, <2>1, AllLabels
  <1>6. CASE TermRead(u)
    <2>1. Moved(u, "term_write") /\ req[u].at = "term_read"
      BY <1>6, <1>r, AllLabels DEF TermRead
    <2> QED BY <1>1, <1>s, <2>1, AllLabels
  <1>7. CASE TaiRead(u)
    <2>1. Moved(u, "tai_off") /\ req[u].at = "tai_read"
      BY <1>7, <1>r, AllLabels DEF TaiRead
    <2> QED BY <1>1, <1>s, <2>1, AllLabels
  <1>8. CASE Enable(u)
    <2>1. req[u].at = "enable" /\ (GoTo(u, "en_read") \/ Done(u, "none", 0))
      BY <1>8 DEF Enable, OkGoTo, At
    <2>2. CASE GoTo(u, "en_read")
      BY <1>1, <1>g, <1>s, <2>1, <2>2, AllLabels
    <2> QED BY <1>2, <1>e, <2>1, <2>2
  <1>9. CASE EnWrite(u)
    <2>1. req[u].at = "en_write" /\ (GoTo(u, "abort") \/ Done(u, "none", 0))
      BY <1>9 DEF EnWrite, OkGoTo, At
    <2>2. CASE GoTo(u, "abort")
      BY <1>1, <1>g, <1>s, <2>1, <2>2, AllLabels
    <2> QED BY <1>2, <1>e, <2>1, <2>2
  <1>10. CASE TermWrite(u)
    <2>1. req[u].at = "term_write" /\ Moved(u, "term_flag")
      BY <1>10, <1>g, AllLabels DEF TermWrite, At
    <2> QED BY <1>1, <1>s, <2>1, AllLabels
  <1>11. CASE OffsetStore(u)
    <2>1. req[u].at = "offset" /\ Moved(u, "off_seconds") /\ Val(u) \in UserOffset
      BY <1>11, <1>g, AllLabels DEF OffsetStore, At, UserOffset
    <2> QED BY <1>1, <1>s, <2>1, AllLabels
  <1>12. CASE OffSeconds(u) \/ OffCoarse(u)
    <2>1. PICK l \in {"off_coarse", "off_frac"} : Moved(u, l) /\ req[u].at \in OffSteps
      BY <1>12, <1>g, AllLabels DEF OffSeconds, OffCoarse, OffsetWrite, At, OffSteps
    <2> QED BY <1>1, <1>s, <2>1, AllLabels
  <1>13. CASE Seconds(u)
    <2>1. req[u].at = "seconds" /\ (GoTo(u, "tai_read") \/ Done(u, "EPERM", 0))
      BY <1>13 DEF Seconds, At
    <2>2. CASE GoTo(u, "tai_read")
      BY <1>1, <1>g, <1>s, <2>1, <2>2, AllLabels
    <2> QED BY <1>2, <1>e, <2>1, <2>2
  <1>14. CASE TaiOff(u) \/ TaiStart(u) \/ TaiLoad(u)
    <2>1. PICK l \in {"tai_start", "tai_load", "tai_on"} :
            Moved(u, l) /\ req[u].at \in {"tai_off", "tai_start", "tai_load"}
      BY <1>14, <1>g, AllLabels DEF TaiOff, TaiStart, TaiLoad, At
    <2> QED BY <1>1, <1>s, <2>1, AllLabels
  <1>15. CASE WrRegister(u)
    <2>1. req[u].at = "wr" /\ Moved(u, "wr_mode")
      BY <1>15, <1>g, AllLabels DEF WrRegister, At
    <2> QED BY <1>1, <1>s, <2>1, AllLabels
  <1>16. CASE WrVariable(u)
    <2>1. req[u].at = "wr_mode" /\ (GoTo(u, "vcxo") \/ Done(u, "none", 0))
      BY <1>16 DEF WrVariable, At
    <2>2. CASE GoTo(u, "vcxo")
      BY <1>1, <1>g, <1>s, <2>1, <2>2, AllLabels
    <2> QED BY <1>2, <1>e, <2>1, <2>2
  <1> QED BY <1>3, <1>4, <1>5, <1>6, <1>7, <1>8, <1>9, <1>10, <1>11, <1>12, <1>13, <1>14,
             <1>15, <1>16 DEF AttrStep

\* Every step keeps what is known of the accesses.
LEMMA AccessesStep ==
  ASSUME TypeInv, Accesses, [SysNext]_sysVars
  PROVE  Accesses'
  <1>0. req \in [User -> Req] /\ IdleReq.at = "idle"
    BY DEF TypeInv, IdleReq
  <1>1. CASE UNCHANGED sysVars
    BY <1>1 DEF sysVars, Accesses
  <1>2. ASSUME NEW u \in User, NEW r, req' = [req EXCEPT ![u] = r], AccessOf(r)
        PROVE  Accesses'
    <2>1. \A w \in User : req'[w] = IF w = u THEN r ELSE req[w]
      BY <1>0, <1>2
    <2> QED BY <1>2, <2>1 DEF Accesses
  <1>3. ASSUME NEW u \in User, NEW a \in Attribute, Access(u, a)
        PROVE  Accesses'
    <2> DEFINE r == [IdleReq EXCEPT !.at = First(a), !.acc = a]
    <2>1. r.at = First(a) /\ r.acc = a
      BY DEF IdleReq
    <2>2. req' = [req EXCEPT ![u] = r] /\ Accepts(a)
      BY <1>3 DEF Access
    <2> HIDE DEF r
    <2>3. AccessOf(r)
      <3>1. First(a) \notin OffSteps /\ First(a) # "idle"
        BY FirstSays DEF OffSteps, FirstLabels
      <3> QED BY <2>1, <2>2, <3>1, FirstSays DEF AccessOf
    <2> QED BY <1>2, <2>2, <2>3
  <1>4. ASSUME NEW u \in User, NEW a \in Attribute, AccessFails(u, a)
        PROVE  Accesses'
    <2> DEFINE r == [IdleReq EXCEPT !.at = "done", !.acc = a, !.err = "EIO"]
    <2>1. r.at = "done"
      BY DEF IdleReq
    <2>2. req' = [req EXCEPT ![u] = r]
      BY <1>4 DEF AccessFails
    <2> HIDE DEF r
    <2>3. AccessOf(r)
      BY <2>1 DEF AccessOf, OffSteps, EnableSteps, TermSteps
    <2> QED BY <1>2, <2>2, <2>3
  <1>5. ASSUME NEW u \in User, Return(u)
        PROVE  Accesses'
    <2>1. AccessOf(IdleReq)
      BY <1>0 DEF AccessOf, OffSteps, EnableSteps, TermSteps
    <2> QED BY <1>2, <1>5, <2>1 DEF Return
  <1>6. ASSUME NEW u \in User, AttrStep(u) \/ Abort(u)
        PROVE  Accesses'
    <2>1. PICK l \in Labels : GoesOn(u, l)
      BY <1>6, StepsGoOn
    <2>2. /\ req'[u].at = l /\ req'[u].acc = req[u].acc /\ AccessOf(req[u])
          /\ \A w \in User : w # u => req'[w] = req[w]
      BY <2>1 DEF GoesOn, Moved, Accesses
    <2>3. AccessOf(req'[u])
      <3>1. CASE l = "done"
        BY <2>2, <3>1 DEF AccessOf, OffSteps, EnableSteps, TermSteps
      <3>2. CASE l # "done"
        BY <2>1, <2>2, <3>2 DEF AccessOf, GoesOn, Val
      <3> QED BY <3>1, <3>2
    <2> QED BY <2>2, <2>3 DEF Accesses
  <1> QED BY <1>1, <1>3, <1>4, <1>5, <1>6 DEF SysNext

\* A field of a normalized timestamp may be replaced by that of another one.
LEMMA MixedIsNormal ==
  ASSUME NEW t \in Time, NEW s \in Time
  PROVE  /\ [t EXCEPT !.seconds = s.seconds] \in Time
         /\ [t EXCEPT !.coarse = s.coarse] \in Time
         /\ [t EXCEPT !.frac = s.frac] \in Time
  BY DEF Time

\* Every step keeps the registers in their ranges.
LEMMA RegistersStep ==
  ASSUME TypeInv, Accesses, Registers, [SysNext]_sysVars
  PROVE  Registers'
  <1>0. /\ tsf \in [Chan -> [off : AnyTs, raw : Int]] /\ st \in [Chan -> State]
        /\ tai \in [start : 0 .. Era - 1, current : 0 .. Era - 1]
    BY DEF TypeInv, Registers
  <1>1. ASSUME UNCHANGED <<tsf, st, tai>> PROVE Registers'
    BY <1>1 DEF Registers
  <1>2. ASSUME NEW u \in User, AttrStep(u) PROVE Registers'
    <2> DEFINE c == Ch(u)
               v == Val(u)
               n == Acc(u).attr
    <2>0. c \in Chan /\ v \in Int /\ AccessOf(req[u])
      BY AccTypes DEF Accesses
    <2>1. ASSUME At(u, "store") \/ At(u, "enable") \/ At(u, "term_flag")
          PROVE  /\ Accepts(Acc(u)) /\ Acc(u).set /\ (At(u, "enable") => n = "enable")
                 /\ At(u, "term_flag") => n = "termination"
      BY <2>0, <2>1 DEF AccessOf, At, Acc, EnableSteps, TermSteps
    <2>2. ASSUME NEW r \in [Chan -> State], st' = r, UNCHANGED <<tsf, tai>>,
                 \A d \in Chan : /\ r[d].enabled \in {0, 1} /\ r[d].terminated \in {0, 1}
                                 /\ r[d].user_offset \in UserOffset
          PROVE  Registers'
      BY <2>2 DEF Registers
    <2>3. \A d \in Chan : /\ st[d].enabled \in {0, 1} /\ st[d].terminated \in {0, 1}
                          /\ st[d].user_offset \in UserOffset
      BY DEF Registers
    <2>4. CASE Store(u)
      <3>1. n = "raw_readout_mode" => v \in {0, 1}
        BY <2>1, <2>4 DEF Store, Accepts, Acc, Val
      <3>2. \A d \in Chan : tsf'[d].off = tsf[d].off /\ tsf'[d].raw \in {0, 1}
        <4>1. tsf' = tsf \/ (v \in {0, 1} /\ tsf' = [tsf EXCEPT ![c].raw = v])
          BY <2>4, <3>1 DEF Store
        <4>2. \A d \in Chan : tsf[d].raw \in {0, 1}
          BY DEF Registers
        <4> HIDE DEF v, c
        <4> QED BY <1>0, <2>0, <4>1, <4>2
      <3> DEFINE t == IF v = 0 THEN "kmalloc" ELSE "vmalloc"
      <3>3. \/ st' = st
            \/ st' = [st EXCEPT ![c].prefer_new = v]
            \/ st' = [st EXCEPT ![c].kb = v]
            \/ st' = [st EXCEPT ![c].type = t]
        BY <2>4 DEF Store
      <3> HIDE DEF t, c, v
      <3>4. \A d \in Chan : /\ st'[d].enabled = st[d].enabled /\ st'[d].terminated = st[d].terminated
                            /\ st'[d].user_offset = st[d].user_offset
        BY <1>0, <3>3 DEF State
      <3> QED BY <1>0, <2>3, <2>4, <3>2, <3>4 DEF Store, Registers
    <2>5. CASE Enable(u)
      <3>1. v \in {0, 1}
        BY <2>1, <2>5 DEF Enable, Accepts, Acc, Val
      <3>2. st' = [st EXCEPT ![c].enabled = v] /\ UNCHANGED <<tsf, tai>>
        BY <2>5 DEF Enable
      <3> HIDE DEF c, v
      <3>3. st' \in [Chan -> State]
        BY <1>0, <2>0, <3>1, <3>2 DEF State
      <3>4. \A d \in Chan : /\ st'[d].enabled \in {0, 1} /\ st'[d].terminated = st[d].terminated
                            /\ st'[d].user_offset = st[d].user_offset
        BY <1>0, <2>3, <3>1, <3>2 DEF State
      <3> QED BY <2>2, <2>3, <3>2, <3>3, <3>4
    <2>6. CASE TermFlag(u)
      <3>1. v \in {0, 1}
        BY <2>1, <2>6 DEF TermFlag, Accepts, Acc, Val
      <3>2. st' = [st EXCEPT ![c].terminated = v] /\ UNCHANGED <<tsf, tai>>
        BY <2>6 DEF TermFlag
      <3> HIDE DEF c, v
      <3>3. st' \in [Chan -> State]
        BY <1>0, <2>0, <3>1, <3>2 DEF State
      <3>4. \A d \in Chan : /\ st'[d].enabled = st[d].enabled /\ st'[d].terminated \in {0, 1}
                            /\ st'[d].user_offset = st[d].user_offset
        BY <1>0, <2>3, <3>1, <3>2 DEF State
      <3> QED BY <2>2, <2>3, <3>2, <3>3, <3>4
    <2>7. CASE OffsetStore(u)
      <3>1. v \in UserOffset
        BY <2>7 DEF OffsetStore, UserOffset
      <3>2. st' = [st EXCEPT ![c].user_offset = v] /\ UNCHANGED <<tsf, tai>>
        BY <2>7 DEF OffsetStore
      <3> HIDE DEF c
      <3>3. st' \in [Chan -> State]
        BY <1>0, <2>0, <3>2 DEF State
      <3> HIDE DEF v
      <3>4. \A d \in Chan : /\ st'[d].enabled = st[d].enabled /\ st'[d].terminated = st[d].terminated
                            /\ st'[d].user_offset \in UserOffset
        BY <1>0, <2>3, <3>1, <3>2 DEF State
      <3> QED BY <2>2, <2>3, <3>2, <3>3, <3>4
    <2>8. CASE OffSeconds(u) \/ OffCoarse(u) \/ OffFrac(u)
      <3>1. v \in UserOffset
        BY <2>0, <2>8 DEF AccessOf, OffSeconds, OffCoarse, OffFrac, OffsetWrite, At, OffSteps, Val
      <3>2. PICK new \in Time : new = HwOffset(v)
        BY <3>1, OffsetsAreNormal
      <3>3. /\ UNCHANGED <<st, tai>>
            /\ \/ tsf' = [tsf EXCEPT ![c].off.seconds = new.seconds]
               \/ tsf' = [tsf EXCEPT ![c].off.coarse = new.coarse]
               \/ tsf' = [tsf EXCEPT ![c].off.frac = new.frac]
        BY <2>8, <3>2 DEF OffSeconds, OffCoarse, OffFrac, OffsetWrite
      <3> HIDE DEF c, v
      <3>4. tsf[c].off \in Time /\ tsf[c].raw \in {0, 1}
        BY <2>0 DEF Registers
      <3>5. PICK f \in Time : tsf' = [tsf EXCEPT ![c].off = f]
        BY <3>3, <3>4, MixedIsNormal
      <3>6. \A d \in Chan : tsf'[d].off \in Time /\ tsf'[d].raw \in {0, 1}
        <4>1. \A d \in Chan : tsf[d].off \in Time /\ tsf[d].raw \in {0, 1}
          BY DEF Registers
        <4> QED BY <1>0, <3>5, <4>1
      <3> QED BY <3>3, <3>6 DEF Registers
    <2>9. CASE TaiStart(u) \/ TaiLoad(u)
      <3>1. v % Era \in 0 .. Era - 1 /\ HostTime \in 0 .. Era - 1
        BY <2>0, TsConstants, SysfsConstants
      <3>2. /\ UNCHANGED <<tsf, st>>
            /\ \E s \in 0 .. Era - 1 : \/ tai' = [tai EXCEPT !.start = s]
                                       \/ tai' = [tai EXCEPT !.current = s]
        <4>1. CASE TaiStart(u)
          BY <3>1, <4>1 DEF TaiStart
        <4>2. CASE TaiLoad(u)
          BY <1>0, <4>2 DEF TaiLoad
        <4> QED BY <2>9, <4>1, <4>2
      <3>3. tai' \in [start : 0 .. Era - 1, current : 0 .. Era - 1]
        BY <1>0, <3>2
      <3> QED BY <3>2, <3>3 DEF Registers
    <2>10. UNCHANGED <<tsf, st, tai>> \/ Store(u) \/ Enable(u) \/ TermFlag(u) \/ OffsetStore(u)
           \/ OffSeconds(u) \/ OffCoarse(u) \/ OffFrac(u) \/ TaiStart(u) \/ TaiLoad(u)
      BY <1>2 DEF AttrStep, Show, ShowInvalid, EnRead, EnWrite, ReadInputEnable, TermRead, TermWrite,
         OffsetRejected, Seconds, TaiRead, TaiOff, TaiOn, WrRegister, WrVariable, WrVcxo, WrAsk
    <2> QED BY <1>1, <2>4, <2>5, <2>6, <2>7, <2>8, <2>9, <2>10
  <1>3. UNCHANGED <<tsf, st, tai>> \/ \E u \in User : AttrStep(u)
    BY DEF SysNext, sysVars, Access, AccessFails, Abort, Return
  <1> QED BY <1>1, <1>2, <1>3

\* They start in them.
LEMMA RegistersInit ==
  ASSUME SysInit
  PROVE  Accesses /\ Registers
  <1>1. 0 \in UserOffset
    BY SysfsConstants DEF UserOffset
  <1>2. HwOffset(0) \in Time
    BY <1>1, OffsetsAreNormal
  <1>3. Registers
    <2>1. 0 \in 0 .. Era - 1
      BY TsConstants
    <2> QED BY <1>1, <1>2, <2>1 DEF SysInit, Registers
  <1>4. AccessOf(IdleReq)
    BY DEF AccessOf, OffSteps, EnableSteps, TermSteps, IdleReq
  <1> QED BY <1>3, <1>4 DEF SysInit, Accesses

\* The types, the accesses and the registers together.
BoardInv == TypeInv /\ Accesses /\ Registers

\* Every step keeps them together.
LEMMA BoardStep ==
  ASSUME BoardInv, [SysNext]_sysVars
  PROVE  BoardInv'
  BY TypeStep, AccessesStep, RegistersStep DEF BoardInv

\* The offset registers hold normalized timestamps, whichever register a process
\* is about to write and whatever offset is set; START_UTC and CURRENT_UTC have
\* 32 bits, and the flags of the inputs are flags.
THEOREM RegistersAreNormal == SysSpec => []Registers
  <1>1. SysInit => BoardInv
    BY TypeInit, RegistersInit DEF BoardInv
  <1>2. BoardInv /\ [SysNext]_sysVars => BoardInv'
    BY BoardStep
  <1>3. BoardInv => Registers
    BY DEF BoardInv
  <1> QED BY <1>1, <1>2, <1>3, PTL DEF SysSpec
=============================================================================
