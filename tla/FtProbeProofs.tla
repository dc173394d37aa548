---------------------------- MODULE FtProbeProofs ----------------------------
(***************************************************************************)
(* Proofs about probing and removing the driver, for any number of lives   *)
(* of the device, any failures and any use in between.                     *)
(***************************************************************************)
EXTENDS FtProbe, TLAPS

-----------------------------------------------------------------------------
(* What the driver has acquired *)

\* Where the driver is: between its functions it stands at the end of ft_probe,
\* or where it has nothing.
At == IF Idle THEN IF drv.data THEN "return0" ELSE "return" ELSE pc

\* What the driver holds, but for the hwmon device, when it comes to a statement.
\* The statements of ft_probe and those that undo them meet at the same sets.
Owned(l, dma) ==
  CASE l \in {"validation", "kzalloc", "return", "devres"} -> {}
    [] l \in {"ioremap", "kfree"} -> {"ft"}
    [] l \in {"mode", "slot_get", "iounmap"} -> {"ft", "map"}
    [] l \in {"present", "eeprom", "fru", "link", "slot_put"} -> {"ft", "map", "slot"}
    [] l \in {"calib", "acam", "time", "zio_alloc", "acam_exit", "unlink"} ->
         {"ft", "map", "slot", "link"}
    [] l \in {"zio_register", "zio_free"} -> {"ft", "map", "slot", "link", "hwzdev"}
    [] l \in {"offsets", "request_irq", "zio_unregister"} ->
         {"ft", "map", "slot", "link", "hwzdev", "zdev"}
    [] l \in {"dma_request", "free_irq"} ->
         {"ft", "map", "slot", "link", "hwzdev", "zdev", "irq"}
    [] l = "dma_release" -> {"ft", "map", "slot", "link", "hwzdev", "zdev", "irq", "dma"}
    [] l \in {"ier", "debug", "idr"} ->
         {"ft", "map", "slot", "link", "hwzdev", "zdev", "irq"}
         \union (IF dma THEN {"dma"} ELSE {})
    [] OTHER ->
         {"ft", "map", "slot", "link", "hwzdev", "zdev", "irq", "debug"}
         \union (IF dma THEN {"dma"} ELSE {})

\* ft_probe, and what comes of it.
WhereInv ==
  /\ pc \in Probes \union {"return0"} => ~drv.bound
  /\ pc \in Removes \union {"dma_release", "devres"} => drv.bound
  /\ ~Idle => (drv.data <=> drv.bound /\ pc \notin {"return", "devres"})
  /\ drv.data => drv.bound

HeldInv ==
  /\ held \ {"hwmon"} = Owned(At, Dma)
  /\ "hwmon" \in held => pc = "return0" \/ (drv.bound /\ (Idle => drv.data))

\* Only a mezzanine with an acquisition gets past ft_probe's test of the mode.
ModeInv ==
  /\ pc \in (Probes \ {"validation", "kzalloc", "ioremap", "mode"}) \union {"return0"} =>
        board.mode # "none"
  /\ drv.data => board.mode # "none"
  /\ pc \in {"dma_request", "dma_release"} => Dma

\* Whoever is in an attribute holds it, and the driver waits for him.
UserInv ==
  /\ user = "attribute" => "zdev" \in held
  /\ user = "temp" => "hwmon" \in held

\* The acquisition can only be on, a cycle only be under way and the interrupts
\* only be enabled in the middle of the driver's life.
Acquiring == {"hwmon", "return0", "dis_acq"}
Cycling == Acquiring \union {"inputs_off", "debug_exit", "idr"}
Enabled == Cycling \union {"debug", "input_enable", "ctrl"}
CycleInv ==
  /\ hw.acq => At \in Acquiring
  /\ ~ghost.late => /\ cycle # "none" => Dma /\ At \in Cycling
                    /\ hw.eic => At \in Enabled

\* An error path without an error to return comes from a silent failure.
RetInv ==
  /\ ~drv.bound /\ pc \in Exits \union {"return"} /\ drv.ret = 0 => failed \in Silent
  /\ Idle /\ drv.bound /\ ~drv.data => failed \in Silent

\* Until somebody writes an attribute too early, the settings are fresh and the
\* registers follow them from the statement on that writes them.
SettingsInv ==
  ~ghost.early =>
    /\ pc \in Probes \union {"return0"} => st = Fresh
    /\ At \in {"request_irq", "dma_request", "ier", "debug", "input_enable", "ctrl", "hwmon",
               "return0"} => hw.off = st.off
    /\ At \in {"ctrl", "hwmon", "return0"} => hw.on = st.on /\ hw.flag

ProbeInv ==
  /\ TypeOK /\ WhereInv /\ HeldInv /\ ModeInv /\ UserInv /\ OopsOnlyIf
  /\ CycleInv /\ RetInv /\ SettingsInv
-----------------------------------------------------------------------------
(* The statements *)

\* The statements by name.
LEMMA Statements ==
  /\ Probes = {"validation", "kzalloc", "ioremap", "mode", "slot_get", "present", "eeprom", "fru",
                "link", "calib", "acam", "time", "zio_alloc", "zio_register", "offsets",
                "request_irq", "dma_request", "ier", "debug", "input_enable", "ctrl", "hwmon"}
  /\ Removes = {"dis_acq", "inputs_off", "debug_exit", "idr"}
  /\ Exits = {"dma_release", "free_irq", "zio_unregister", "zio_free", "acam_exit", "unlink",
               "slot_put", "iounmap", "kfree"}
  BY DEF Probes, Removes, Exits, ProbeOrder, RemoveOrder, ExitOrder

\* They are the same in every state.
LEMMA StatementsStay == Probes' = Probes /\ Removes' = Removes /\ Exits' = Exits
  BY DEF Probes, Removes, Exits, ProbeOrder, RemoveOrder, ExitOrder

\* A statement has what it needs, and leaves what the next one starts with.
LEMMA StatementOwns ==
  ASSUME NEW l \in Probes \union Removes \union Exits,
         l \in {"dma_request", "dma_release"} => Dma
  PROVE  /\ Needs(l) \subseteq Owned(l, Dma)
         /\ Owned(Then(l), Dma) = ((Owned(l, Dma) \union Given(l)) \ Taken(l)) \ {"hwmon"}
<1>1. CASE l \in Probes
  BY <1>1, Statements DEF Needs, Taken, Takes, Given, Gives, Registers, Owned, Then, ProbeOrder
<1>2. CASE l \in Removes
  BY <1>2, Statements DEF Needs, Taken, Takes, Given, Gives, Registers, Owned, Then, RemoveOrder, AcqExit
<1>3. CASE l \in Exits
  BY <1>3, Statements DEF Needs, Taken, Takes, Given, Gives, Registers, Owned, Then, ExitOrder
<1> QED BY <1>1, <1>2, <1>3

\* Which statement comes after which kind.
LEMMA StatementOrder ==
  ASSUME NEW l \in Probes \union Removes \union Exits
  PROVE  /\ l \in Probes => Then(l) \in Probes \union {"return0"}
         /\ l \in Removes => Then(l) \in Removes \union {"dma_release", "free_irq"}
         /\ l \in Exits => Then(l) \in (Exits \ {"dma_release"}) \union {"return"}
         /\ Then(l) = "return" <=> l = "kfree"
         /\ Then(l) \in {"dma_request", "dma_release"} => Dma
         /\ Then(l) \notin {"validation", "dis_acq"}
         /\ Then(l) \in {"kzalloc", "ioremap", "mode"} <=> l \in {"validation", "kzalloc", "ioremap"}
<1>1. CASE l \in Probes
  BY <1>1, Statements DEF Then, ProbeOrder
<1>2. CASE l \in Removes
  BY <1>2, Statements DEF Then, RemoveOrder, AcqExit
<1>3. CASE l \in Exits
  BY <1>3, Statements DEF Then, ExitOrder
<1> QED BY <1>1, <1>2, <1>3

\* Where a failure leads, and what is held there.
LEMMA FailureOwns ==
  ASSUME NEW l, MayFail(l), l = "dma_request" => Dma
  PROVE  /\ l \in Probes /\ l \in Assigning \union Silent
         /\ OnError(l) \in (Exits \ {"dma_release"}) \union {"return"}
         /\ Needs(l) \subseteq Owned(l, Dma)
         /\ Owned(OnError(l), Dma) = Owned(l, Dma)
<1>1. l \in {"validation", "kzalloc", "mode", "eeprom", "acam", "zio_alloc", "zio_register",
             "request_irq", "dma_request", "slot_get", "present", "fru", "link"}
  BY DEF MayFail, Assigning, Silent
<1>2. l \in Probes /\ l \in Assigning \union Silent
  BY <1>1, Statements DEF Assigning, Silent
<1>3. OnError(l) \in (Exits \ {"dma_release"}) \union {"return"}
  BY <1>1, Statements DEF OnError
<1>4. Needs(l) \subseteq Owned(l, Dma)
  BY <1>1, Statements DEF Needs, Taken, Takes, Registers, Owned
<1>5. Owned(OnError(l), Dma) = Owned(l, Dma)
  BY <1>1, Statements DEF OnError, Owned
<1> QED BY <1>2, <1>3, <1>4, <1>5

\* The registers a statement writes keep their types.
LEMMA WrittenType ==
  ASSUME TypeOK, NEW l
  PROVE  Written(l) \in [eic : BOOLEAN, acq : BOOLEAN, flag : BOOLEAN, on : {0, 1}, off : {0, 1},
                         wr : {0, 1}]
<1>1. /\ hw \in [eic : BOOLEAN, acq : BOOLEAN, flag : BOOLEAN, on : {0, 1}, off : {0, 1}, wr : {0, 1}]
      /\ st.off \in {0, 1}
  BY DEF TypeOK, Settings, Fresh
<1> QED BY <1>1 DEF Written, Offsets

\* Which statements change which register.
LEMMA WrittenRegisters ==
  ASSUME TypeOK, NEW l
  PROVE  /\ Written(l).acq => l = "ctrl" \/ (hw.acq /\ l \notin {"dis_acq", "acam_exit"})
         /\ Written(l).eic => l = "ier" \/ (hw.eic /\ l # "idr")
         /\ Written(l).off = IF l = "offsets" THEN st.off ELSE hw.off
         /\ l = "input_enable" => Written(l).on = 0 /\ Written(l).flag
         /\ l \notin {"input_enable", "inputs_off"} =>
              Written(l).on = hw.on /\ (hw.flag => Written(l).flag)
<1>1. hw \in [eic : BOOLEAN, acq : BOOLEAN, flag : BOOLEAN, on : {0, 1}, off : {0, 1}, wr : {0, 1}]
  BY DEF TypeOK
<1> QED BY <1>1 DEF Written, Offsets
-----------------------------------------------------------------------------
(* The invariant *)

\* What TypeOK says, conjunct by conjunct.
Labels == Probes \union Removes \union Exits \union {"idle", "return0", "return", "devres"}
Drv == [bound : BOOLEAN, data : BOOLEAN, ret : {-1, 0}, lives : 0 .. MaxLives]
Hw == [eic : BOOLEAN, acq : BOOLEAN, flag : BOOLEAN, on : {0, 1}, off : {0, 1}, wr : {0, 1}]

\* No two functions of the driver share a statement.
LEMMA StatementsDiffer ==
  /\ "idle" \notin Probes \union Removes \union Exits
  /\ "return0" \notin Probes \union Removes \union Exits
  /\ "return" \notin Probes \union Removes \union Exits
  /\ "devres" \notin Probes \union Removes \union Exits
  /\ Probes \intersect Removes = {} /\ Probes \intersect Exits = {}
  /\ Removes \intersect Exits = {}
  BY Statements

\* The invariant holds initially.
LEMMA ProbeInit == Init => ProbeInv
<1> SUFFICES ASSUME Init PROVE ProbeInv
  OBVIOUS
<1>0. /\ pc = "idle" /\ held = {} /\ user = "none" /\ cycle = "none" /\ oops = "nobody"
      /\ drv = [bound |-> FALSE, data |-> FALSE, ret |-> 0, lives |-> 0]
      /\ hw = [eic |-> FALSE, acq |-> FALSE, flag |-> FALSE, on |-> 0, off |-> 0, wr |-> 0]
      /\ st = Fresh /\ reg = {} /\ cells = {} /\ board \in Boards
      /\ ghost = [early |-> FALSE, late |-> FALSE]
  BY DEF Init
<1>1. TypeOK
  BY <1>0, LivesAssumption DEF TypeOK, Fresh, Settings
<1>2. WhereInv /\ ModeInv /\ UserInv /\ OopsOnlyIf /\ CycleInv /\ RetInv
  BY <1>0, StatementsDiffer DEF WhereInv, ModeInv, UserInv, OopsOnlyIf, CycleInv, RetInv, Idle
<1>3. At = "return"
  BY <1>0 DEF At, Idle
<1>4. HeldInv
  BY <1>0, <1>3 DEF HeldInv, Owned
<1>5. SettingsInv
  BY <1>0, <1>3, StatementsDiffer DEF SettingsInv
<1> QED BY <1>1, <1>2, <1>4, <1>5 DEF ProbeInv

\* A statement that succeeds.
LEMMA PassesKeeps == ASSUME ProbeInv, Passes PROVE ProbeInv'
<1> USE DEF ProbeInv
<1>t. /\ pc \in Labels /\ drv \in Drv /\ hw \in Hw /\ st \in [Settings -> {0, 1}]
      /\ held \subseteq Resources /\ ghost \in [early : BOOLEAN, late : BOOLEAN]
      /\ cycle \in {"none", "queued", "dma"}
  BY DEF TypeOK, Labels, Drv, Hw
<1>0. /\ oops = "nobody" /\ pc \in Probes \union Removes \union Exits
      /\ MayPass(pc) /\ (pc = "zio_unregister" => user # "attribute")
      /\ oops' = IF Needs(pc) \subseteq held THEN oops ELSE "driver"
      /\ pc' = Then(pc) /\ hw' = Written(pc)
      /\ held' = (held \union Given(pc)) \ Taken(pc)
      /\ cycle' = cycle \/ (cycle = "dma" /\ cycle' = "none" /\ pc = "dma_release")
      /\ ghost' = [ghost EXCEPT !.late = @ \/ (pc = "idr" /\ cycle # "none")]
      /\ UNCHANGED <<board, reg, cells, st, user, failed>>
  BY DEF Passes, Runs, Waits, Uses
<1>o. /\ pc \in Probes => pc' \in Probes \union {"return0"}
      /\ pc \in Removes => pc' \in Removes \union {"dma_release", "free_irq"}
      /\ pc \in Exits => pc' \in (Exits \ {"dma_release"}) \union {"return"}
      /\ {"dma_release", "free_irq"} \subseteq Exits
      /\ pc' = "return" <=> pc = "kfree"
      /\ pc' \in {"dma_request", "dma_release"} => Dma
      /\ pc' \in {"kzalloc", "ioremap", "mode"} <=> pc \in {"validation", "kzalloc", "ioremap"}
      /\ pc' # "validation"
  BY <1>0, StatementOrder, Statements
<1>d. /\ drv'.bound = drv.bound /\ drv'.lives = drv.lives
      /\ drv'.data = (drv.data /\ pc # "kfree")
      /\ drv'.ret = IF pc \in Assigning THEN 0 ELSE drv.ret
      /\ drv' \in Drv
  <2>1. drv' = CASE pc \in Assigning -> [drv EXCEPT !.ret = 0]
                [] pc = "kfree" -> [drv EXCEPT !.data = FALSE]
                [] OTHER -> drv
    BY DEF Passes
  <2>2. "kfree" \notin Assigning
    BY DEF Assigning
  <2> QED BY <2>1, <2>2, <1>t DEF Drv
<1>1. /\ pc # "idle" /\ pc' # "idle" /\ At = pc /\ At' = pc' /\ Dma' = Dma
      /\ pc' \in Labels
  <2>1. pc' \in Probes \union Removes \union Exits \union {"return0", "return"}
    BY <1>0, <1>o, StatementsDiffer
  <2>2. pc # "idle" /\ pc' # "idle"
    BY <1>0, <2>1, StatementsDiffer
  <2> QED BY <2>1, <2>2, <1>0 DEF At, Idle, Dma, Labels
<1>2. WhereInv'
  <2>1. pc' \in Probes \union {"return0"} => ~drv'.bound
    BY <1>o, <1>0, <1>d, StatementsDiffer DEF WhereInv
  <2>2. pc' \in Removes \union {"dma_release", "devres"} => drv'.bound
    BY <1>o, <1>0, <1>d, StatementsDiffer DEF WhereInv
  <2>3. drv'.data <=> drv'.bound /\ pc' \notin {"return", "devres"}
    BY <1>o, <1>0, <1>1, <1>d, StatementsDiffer DEF WhereInv, Idle
  <2> QED BY <2>1, <2>2, <2>3, StatementsStay DEF WhereInv
<1>3. /\ Needs(pc) \subseteq Owned(pc, Dma)
      /\ Owned(pc', Dma) = ((Owned(pc, Dma) \union Given(pc)) \ Taken(pc)) \ {"hwmon"}
  BY <1>0, StatementOwns DEF ModeInv
<1>4. Needs(pc) \subseteq held /\ oops' = "nobody"
  BY <1>0, <1>1, <1>3 DEF HeldInv
<1>w. /\ hw'.acq => pc = "ctrl" \/ (hw.acq /\ pc # "dis_acq")
      /\ hw'.eic => pc = "ier" \/ (hw.eic /\ pc # "idr")
      /\ hw'.off = IF pc = "offsets" THEN st.off ELSE hw.off
      /\ pc = "input_enable" => hw'.on = 0 /\ hw'.flag
      /\ pc \notin {"input_enable", "inputs_off"} => hw'.on = hw.on /\ (hw.flag => hw'.flag)
      /\ hw' \in Hw
  BY <1>0, WrittenRegisters, WrittenType DEF Hw
<1>n. /\ pc = "ctrl" => pc' = "hwmon"
      /\ pc = "hwmon" => pc' = "return0"
      /\ pc = "ier" => pc' = "debug"
      /\ pc = "debug" => pc' = "input_enable"
      /\ pc = "input_enable" => pc' = "ctrl"
      /\ pc = "dis_acq" => pc' = "inputs_off"
      /\ pc = "inputs_off" => pc' = "debug_exit"
      /\ pc = "debug_exit" => pc' = "idr"
      /\ pc = "offsets" => pc' = "request_irq"
  BY <1>0, Statements DEF Then, ProbeOrder, RemoveOrder, AcqExit
<1>5. HeldInv'
  <2>1. held' \ {"hwmon"} = Owned(At', Dma')
    <3>1. "hwmon" \notin Taken(pc)
      BY DEF Taken, Takes
    <3> QED BY <1>0, <1>1, <1>3, <3>1 DEF HeldInv
  <2>2. "hwmon" \in held' => "hwmon" \in held \/ pc = "hwmon"
    BY <1>0 DEF Given, Gives
  <2>3. pc = "hwmon" => pc' = "return0"
    BY <1>n
  <2>4. "hwmon" \in held => drv.bound
    BY <1>0, <1>1, StatementsDiffer DEF HeldInv
  <2> QED BY <2>1, <2>2, <2>3, <2>4, <1>1, <1>d DEF HeldInv, Idle
<1>6. ModeInv'
  <2>1. pc = "mode" => board.mode # "none"
    BY <1>0 DEF MayPass, MayFail
  <2>2. ASSUME pc' \in (Probes \ {"validation", "kzalloc", "ioremap", "mode"}) \union {"return0"}
        PROVE  board.mode # "none"
    <3>1. pc \in Probes
      BY <2>2, <1>o, <1>0, StatementsDiffer
    <3>2. pc \notin {"validation", "kzalloc", "ioremap"}
      BY <2>2, <1>o
    <3> QED BY <2>1, <3>1, <3>2 DEF ModeInv
  <2>3. drv'.data => board.mode # "none"
    BY <1>d DEF ModeInv
  <2> QED BY <2>2, <2>3, <1>o, <1>0, <1>1, StatementsStay DEF ModeInv
<1>7. UserInv'
  <2>1. "hwmon" \notin Taken(pc) /\ ("zdev" \in Taken(pc) => pc = "zio_unregister")
    BY DEF Taken, Takes
  <2> QED BY <2>1, <1>0 DEF UserInv
<1>8. OopsOnlyIf'
  BY <1>4 DEF OopsOnlyIf
<1>9. CycleInv'
  <2>1. hw'.acq => At' \in Acquiring
    <3>1. hw.acq => pc \in Acquiring /\ pc # "return0"
      BY <1>0, <1>1, StatementsDiffer DEF CycleInv
    <3> QED BY <3>1, <1>1, <1>w, <1>n DEF Acquiring
  <2>2. ASSUME ~ghost'.late
        PROVE  /\ cycle' # "none" => Dma /\ At' \in Cycling
               /\ hw'.eic => At' \in Enabled
    <3>1. ~ghost.late /\ (pc = "idr" => cycle = "none")
      BY <2>2, <1>0, <1>t
    <3>2. cycle' # "none" => Dma /\ pc \in Cycling \ {"idr"}
      BY <3>1, <1>0, <1>1 DEF CycleInv
    <3>3. hw'.eic => pc \in (Enabled \ {"idr"}) \union {"ier"}
      BY <3>1, <1>0, <1>1, <1>w DEF CycleInv
    <3> QED BY <3>2, <3>3, <1>1, <1>n, <1>0, StatementsDiffer DEF Cycling, Enabled, Acquiring
  <2> QED BY <2>1, <2>2, <1>1 DEF CycleInv
<1>10. RetInv'
  <2>1. pc' \in Exits \union {"return"} => pc \notin Probes
    BY <1>0, <1>o, StatementsDiffer
  <2>2. ~drv'.bound => pc \notin Removes
    BY <1>0, <1>d DEF WhereInv
  <2>3. pc \in Exits => drv'.ret = drv.ret
    BY <1>d, Statements DEF Assigning
  <2> QED BY <2>1, <2>2, <2>3, <1>0, <1>1, <1>d, StatementsStay DEF RetInv, Idle, Silent
<1>11. SettingsInv'
  <2> SUFFICES ASSUME ~ghost'.early
               PROVE  /\ pc' \in Probes \union {"return0"} => st = Fresh
                      /\ pc' \in {"request_irq", "dma_request", "ier", "debug", "input_enable",
                                 "ctrl", "hwmon", "return0"} => hw'.off = st.off
                      /\ pc' \in {"ctrl", "hwmon", "return0"} => hw'.on = st.on /\ hw'.flag
    BY <1>0, <1>1, StatementsStay DEF SettingsInv
  <2>1. ~ghost.early
    BY <1>0, <1>t
  <2>2. pc' \in Probes \union {"return0"} => pc \in Probes
    BY <1>0, <1>o, StatementsDiffer
  <2>3. pc' \in {"request_irq", "dma_request", "ier", "debug", "input_enable", "ctrl", "hwmon",
                "return0"}
        => pc \in {"offsets", "request_irq", "dma_request", "ier", "debug", "input_enable",
                   "ctrl", "hwmon"}
    <3>1. CASE pc \in Probes
      BY <3>1, <1>0, Statements DEF Then, ProbeOrder
    <3>2. CASE pc \notin Probes
      BY <3>2, <2>2, Statements
    <3> QED BY <3>1, <3>2
  <2>4. pc' \in {"ctrl", "hwmon", "return0"} => pc \in {"input_enable", "ctrl", "hwmon"}
    BY <2>3, <1>0, Statements DEF Then, ProbeOrder
  <2>5. Fresh.on = 0
    BY DEF Fresh
  <2> QED BY <2>1, <2>2, <2>3, <2>4, <2>5, <1>1, <1>w, Statements DEF SettingsInv
<1>12. TypeOK'
  <2>1. held' \subseteq Resources
    BY <1>0, <1>t DEF Given, Gives, Resources
  <2>2. ghost' \in [early : BOOLEAN, late : BOOLEAN]
    BY <1>0, <1>t
  <2>3. drv'.data => drv'.bound /\ board'.mode # "none"
    BY <1>0, <1>d DEF ModeInv, TypeOK
  <2>4. pc' \in Labels'
    BY <1>1, StatementsStay DEF Labels
  <2> QED BY <2>1, <2>2, <2>3, <2>4, <1>0, <1>4, <1>d, <1>t, <1>w DEF TypeOK, Labels, Drv, Hw
<1> QED BY <1>2, <1>5, <1>6, <1>7, <1>8, <1>9, <1>10, <1>11, <1>12

\* A statement that fails.
LEMMA FailsKeeps == ASSUME ProbeInv, Fails PROVE ProbeInv'
<1> USE DEF ProbeInv
<1>t. /\ drv \in Drv /\ ghost \in [early : BOOLEAN, late : BOOLEAN]
  BY DEF TypeOK, Drv
<1>0. /\ oops = "nobody" /\ MayFail(pc)
      /\ oops' = IF Needs(pc) \subseteq held THEN oops ELSE "driver"
      /\ pc' = OnError(pc) /\ failed' = pc
      /\ drv' = IF pc \in Assigning THEN [drv EXCEPT !.ret = -1] ELSE drv
      /\ UNCHANGED <<board, reg, cells, held, hw, st, cycle, user, ghost>>
  BY DEF Fails, Runs, Uses
<1>1. /\ pc \in Probes /\ pc \in Assigning \union Silent
      /\ pc' \in (Exits \ {"dma_release"}) \union {"return"}
      /\ Needs(pc) \subseteq Owned(pc, Dma) /\ Owned(pc', Dma) = Owned(pc, Dma)
  BY <1>0, FailureOwns DEF ModeInv
<1>2. /\ pc # "idle" /\ pc' # "idle" /\ At = pc /\ At' = pc' /\ Dma' = Dma
      /\ pc' \notin Probes \union Removes \union {"return0"}
  <2>1. pc # "idle" /\ pc' # "idle" /\ pc' \notin Probes \union Removes \union {"return0"}
    BY <1>1, StatementsDiffer
  <2> QED BY <2>1, <1>0 DEF At, Idle, Dma
<1>d. /\ ~drv.bound /\ ~drv.data /\ drv' \in Drv /\ ~drv'.bound /\ ~drv'.data
      /\ pc \in Assigning => drv'.ret # 0
  <2>1. ~drv.bound /\ ~drv.data
    BY <1>1 DEF WhereInv
  <2> QED BY <2>1, <1>0, <1>t DEF Drv
<1>s. "devres" \notin Exits /\ pc' # "devres" /\ pc' # "dma_release" /\ pc' # "dma_request"
  BY <1>1, Statements
<1>3. WhereInv'
  BY <1>1, <1>2, <1>d, <1>s, StatementsStay DEF WhereInv
<1>4. HeldInv'
  <2>1. "hwmon" \notin held
    BY <1>0, <1>1, <1>d, StatementsDiffer DEF HeldInv
  <2> QED BY <2>1, <1>0, <1>1, <1>2 DEF HeldInv
<1>5. ModeInv'
  BY <1>2, <1>d, <1>s, StatementsStay DEF ModeInv
<1>6. UserInv'
  BY <1>0 DEF UserInv
<1>7. oops' = "nobody" /\ OopsOnlyIf'
  <2>1. oops' = "nobody"
    BY <1>0, <1>1, <1>2 DEF HeldInv
  <2> QED BY <2>1 DEF OopsOnlyIf
<1>8. CycleInv'
  <2>1. MayFail(pc) => pc \notin Enabled
    BY DEF MayFail, Assigning, Silent, Enabled, Cycling, Acquiring
  <2>2. pc \notin Enabled /\ pc \notin Cycling /\ pc \notin Acquiring
    BY <2>1, <1>0 DEF Enabled, Cycling
  <2> QED BY <2>2, <1>0, <1>2 DEF CycleInv
<1>9. RetInv'
  BY <1>0, <1>1, <1>2, <1>d DEF RetInv, Idle, Silent
<1>10. SettingsInv'
  <2>1. pc' \notin {"request_irq", "dma_request", "ier", "debug", "input_enable", "ctrl", "hwmon",
                   "return0"}
    BY <1>1, Statements
  <2> QED BY <2>1, <1>2, StatementsStay DEF SettingsInv
<1>11. TypeOK'
  <2>1. pc' \in Labels'
    BY <1>1, StatementsStay DEF Labels
  <2> QED BY <2>1, <1>0, <1>7, <1>d DEF TypeOK, Labels, Drv
<1> QED BY <1>3, <1>4, <1>5, <1>6, <1>7, <1>8, <1>9, <1>10, <1>11

\* Steps that leave the driver and its registers alone keep the invariant.
LEMMA QuietKeeps ==
  ASSUME ProbeInv, UNCHANGED <<board, pc, held, drv, hw, st, cycle, user, failed, oops, ghost>>,
         reg' \subseteq {"trig", "zdrv", "pdrv"}, cells' \subseteq Slot
  PROVE  ProbeInv'
<1> USE DEF ProbeInv
<1>1. At' = At /\ Dma' = Dma
  BY DEF At, Idle, Dma
<1>2. WhereInv' /\ ModeInv' /\ UserInv' /\ OopsOnlyIf' /\ RetInv'
  BY <1>1, StatementsStay DEF WhereInv, ModeInv, UserInv, OopsOnlyIf, RetInv, Idle, Silent
<1>3. HeldInv' /\ CycleInv'
  BY <1>1 DEF HeldInv, CycleInv, Idle
<1>4. SettingsInv'
  BY <1>1, StatementsStay DEF SettingsInv
<1>5. TypeOK'
  BY StatementsStay DEF TypeOK
<1> QED BY <1>2, <1>3, <1>4, <1>5

\* Loading and unloading the modules and the carriers.
LEMMA ModulesKeep ==
  ASSUME ProbeInv,
         (\E i \in 1 .. Len(Registration) : Load(i)) \/ Unload \/ CarrierProbe \/ CarrierRemove
  PROVE  ProbeInv'
<1>t. reg \subseteq {"trig", "zdrv", "pdrv"} /\ cells \subseteq Slot /\ board \in Boards
  BY DEF ProbeInv, TypeOK
<1>1. ASSUME NEW i \in 1 .. Len(Registration), Load(i) PROVE ProbeInv'
  <2>1. Len(Registration) = 3
    BY DEF Registration
  <2>2. i \in {1, 2, 3}
    BY <2>1
  <2>3. Registration[i] \in {"trig", "zdrv", "pdrv"}
    BY <2>2 DEF Registration
  <2>4. reg' \subseteq {"trig", "zdrv", "pdrv"}
    BY <1>1, <2>3, <1>t DEF Load
  <2> QED BY <1>1, <2>4, <1>t, QuietKeeps DEF Load
<1>2. CASE Unload
  BY <1>2, <1>t, QuietKeeps DEF Unload
<1>3. CASE CarrierProbe
  <2>1. SvecCells(board.cards) \subseteq Slot
    BY DEF SvecCells, Mfd, CellCount, Slot
  <2>2. board.slot \in Slot
    BY <1>t DEF Boards
  <2> QED BY <1>3, <2>1, <2>2, <1>t, QuietKeeps DEF CarrierProbe
<1>4. CASE CarrierRemove
  BY <1>4, <1>t, QuietKeeps DEF CarrierRemove
<1> QED BY <1>1, <1>2, <1>3, <1>4

\* The driver core calls ft_probe or ft_remove.
LEMMA StartsKeep == ASSUME ProbeInv, ProbeStarts \/ RemoveStarts PROVE ProbeInv'
<1> USE DEF ProbeInv
<1>t. /\ drv \in Drv /\ ghost \in [early : BOOLEAN, late : BOOLEAN]
  BY DEF TypeOK, Drv
<1>s. /\ "validation" \in Probes /\ "dis_acq" \in Removes
      /\ "dis_acq" \notin Probes \union Exits /\ "validation" \notin Removes \union Exits
      /\ "idle" \notin Probes \union Removes \union Exits
  BY Statements
<1>1. CASE ProbeStarts
  <2>0. /\ oops = "nobody" /\ pc = "idle" /\ ~drv.bound /\ drv.lives < MaxLives
        /\ pc' = "validation" /\ drv' = [drv EXCEPT !.ret = 0, !.lives = @ + 1]
        /\ st' = Fresh /\ ghost' = [ghost EXCEPT !.early = FALSE] /\ failed' = "nothing"
        /\ UNCHANGED <<board, reg, cells, held, hw, cycle, user, oops>>
    BY <1>1 DEF ProbeStarts, Runs, Idle
  <2>1. /\ ~drv.data /\ At = "return" /\ At' = "validation" /\ Dma' = Dma /\ held = {}
        /\ drv' \in Drv /\ ~drv'.bound /\ ~drv'.data /\ ghost'.late = ghost.late
        /\ ghost' \in [early : BOOLEAN, late : BOOLEAN]
    <3>1. ~drv.data
      BY <2>0 DEF WhereInv
    <3>2. At = "return" /\ At' = "validation" /\ Dma' = Dma
      BY <2>0, <3>1 DEF At, Idle, Dma
    <3>3. held = {}
      BY <2>0, <3>2 DEF HeldInv, Owned
    <3>4. drv.lives + 1 \in 0 .. MaxLives
      BY <2>0, <1>t, LivesAssumption DEF Drv
    <3>5. drv' \in Drv /\ ~drv'.bound /\ ~drv'.data
      BY <2>0, <3>1, <3>4, <1>t DEF Drv
    <3>6. ghost'.late = ghost.late /\ ghost' \in [early : BOOLEAN, late : BOOLEAN]
      BY <2>0, <1>t
    <3> QED BY <3>1, <3>2, <3>3, <3>5, <3>6
  <2>2. WhereInv' /\ ModeInv' /\ UserInv' /\ OopsOnlyIf' /\ RetInv'
    BY <2>0, <2>1, <1>s, StatementsStay
       DEF WhereInv, ModeInv, UserInv, OopsOnlyIf, RetInv, Idle
  <2>3. HeldInv'
    BY <2>0, <2>1 DEF HeldInv, Owned
  <2>4. CycleInv'
    BY <2>0, <2>1 DEF CycleInv, Acquiring, Cycling, Enabled
  <2>5. SettingsInv'
    BY <2>0, <2>1 DEF SettingsInv
  <2>6. TypeOK'
    BY <2>0, <2>1, <1>s, StatementsStay DEF TypeOK, Drv, Fresh, Settings
  <2> QED BY <2>2, <2>3, <2>4, <2>5, <2>6
<1>2. CASE RemoveStarts /\ drv.data
  <2>0. /\ oops = "nobody" /\ pc = "idle" /\ drv.bound /\ pc' = "dis_acq"
        /\ UNCHANGED <<board, reg, cells, held, drv, hw, st, cycle, user, failed, oops, ghost>>
    BY <1>2 DEF RemoveStarts, Runs, Idle
  <2>1. At = "return0" /\ At' = "dis_acq" /\ Dma' = Dma
    BY <2>0, <1>2 DEF At, Idle, Dma
  <2>2. WhereInv' /\ ModeInv' /\ UserInv' /\ OopsOnlyIf' /\ RetInv'
    BY <2>0, <2>1, <1>2, <1>s, StatementsStay
       DEF WhereInv, ModeInv, UserInv, OopsOnlyIf, RetInv, Idle
  <2>3. HeldInv'
    BY <2>0, <2>1 DEF HeldInv, Owned, Idle
  <2>4. CycleInv'
    BY <2>0, <2>1 DEF CycleInv, Acquiring, Cycling, Enabled
  <2>5. SettingsInv'
    BY <2>0, <2>1, <1>s, StatementsStay DEF SettingsInv
  <2>6. TypeOK'
    BY <2>0, <1>s, StatementsStay DEF TypeOK
  <2> QED BY <2>2, <2>3, <2>4, <2>5, <2>6
<1>3. CASE RemoveStarts /\ ~drv.data
  <2>0. /\ oops = "nobody" /\ pc = "idle" /\ drv.bound
        /\ drv' = [drv EXCEPT !.bound = FALSE]
        /\ UNCHANGED <<board, reg, cells, pc, held, hw, st, cycle, user, failed, oops, ghost>>
    BY <1>3 DEF RemoveStarts, Runs, Idle
  <2>1. /\ At = "return" /\ At' = "return" /\ Dma' = Dma
        /\ drv' \in Drv /\ ~drv'.bound /\ ~drv'.data
    BY <2>0, <1>3, <1>t DEF At, Idle, Dma, Drv
  <2>2. WhereInv' /\ ModeInv' /\ UserInv' /\ OopsOnlyIf' /\ RetInv'
    BY <2>0, <2>1, <1>s, StatementsStay, Statements
       DEF WhereInv, ModeInv, UserInv, OopsOnlyIf, RetInv, Idle
  <2>3. HeldInv'
    BY <2>0, <2>1, <1>3 DEF HeldInv, Idle
  <2>4. CycleInv' /\ SettingsInv'
    BY <2>0, <2>1, StatementsStay DEF CycleInv, SettingsInv
  <2>5. TypeOK'
    BY <2>0, <2>1, StatementsStay DEF TypeOK, Drv
  <2> QED BY <2>2, <2>3, <2>4, <2>5
<1> QED BY <1>1, <1>2, <1>3

\* The end of ft_probe; and hwmon, whose failure does not matter.
LEMMA ProbeEndsKeep == ASSUME ProbeInv, HwmonFails \/ ProbeReturns PROVE ProbeInv'
<1> USE DEF ProbeInv
<1>t. /\ drv \in Drv
  BY DEF TypeOK, Drv
<1>1. CASE HwmonFails
  <2>0. /\ oops = "nobody" /\ pc = "hwmon" /\ pc' = "return0"
        /\ UNCHANGED <<board, reg, cells, held, drv, hw, st, cycle, user, failed, oops, ghost>>
    BY <1>1, Statements DEF HwmonFails, Runs, Then, ProbeOrder
  <2>s. "hwmon" \in Probes /\ "return0" \notin Probes \union Removes \union Exits
    BY Statements
  <2>1. At = "hwmon" /\ At' = "return0" /\ Dma' = Dma
    BY <2>0 DEF At, Idle, Dma
  <2>2. WhereInv' /\ ModeInv' /\ UserInv' /\ OopsOnlyIf' /\ RetInv'
    BY <2>0, <2>1, <2>s, StatementsStay
       DEF WhereInv, ModeInv, UserInv, OopsOnlyIf, RetInv, Idle
  <2>3. HeldInv'
    BY <2>0, <2>1 DEF HeldInv, Owned, Idle
  <2>4. CycleInv'
    BY <2>0, <2>1 DEF CycleInv, Acquiring, Cycling, Enabled
  <2>5. SettingsInv'
    BY <2>0, <2>1, <2>s, StatementsStay DEF SettingsInv
  <2>6. TypeOK'
    BY <2>0, StatementsStay DEF TypeOK
  <2> QED BY <2>2, <2>3, <2>4, <2>5, <2>6
<1>2. CASE ProbeReturns /\ pc = "return0"
  <2>0. /\ oops = "nobody" /\ pc' = "idle"
        /\ drv' = [drv EXCEPT !.bound = TRUE, !.data = TRUE]
        /\ UNCHANGED <<board, reg, cells, held, hw, st, cycle, user, failed, oops, ghost>>
    BY <1>2 DEF ProbeReturns, Runs
  <2>1. /\ At = "return0" /\ At' = "return0" /\ Dma' = Dma
        /\ drv' \in Drv /\ drv'.bound /\ drv'.data
    BY <2>0, <1>2, <1>t DEF At, Idle, Dma, Drv
  <2>s. "idle" \notin Probes \union Removes \union Exits
    BY Statements
  <2>2. WhereInv' /\ ModeInv' /\ UserInv' /\ OopsOnlyIf' /\ RetInv'
    BY <2>0, <2>1, <1>2, <2>s, StatementsStay
       DEF WhereInv, ModeInv, UserInv, OopsOnlyIf, RetInv, Idle
  <2>3. HeldInv' /\ CycleInv'
    BY <2>0, <2>1 DEF HeldInv, CycleInv, Idle
  <2>4. SettingsInv'
    BY <2>0, <2>1, <2>s, StatementsStay DEF SettingsInv
  <2>5. TypeOK'
    BY <2>0, <2>1, <2>2, StatementsStay DEF TypeOK, Drv, ModeInv
  <2> QED BY <2>2, <2>3, <2>4, <2>5
<1>3. CASE ProbeReturns /\ pc # "return0"
  <2>0. /\ oops = "nobody" /\ pc = "return" /\ ~drv.bound /\ pc' = "idle"
        /\ drv' = [drv EXCEPT !.bound = (drv.ret = 0)]
        /\ UNCHANGED <<board, reg, cells, held, hw, st, cycle, user, failed, oops, ghost>>
    BY <1>3 DEF ProbeReturns, Runs
  <2>1. /\ At = "return" /\ At' = "return" /\ Dma' = Dma
        /\ drv' \in Drv /\ (drv'.bound => drv.ret = 0) /\ ~drv'.data
    <3>1. ~drv.data
      BY <2>0 DEF WhereInv
    <3> QED BY <3>1, <2>0, <1>t DEF At, Idle, Dma, Drv
  <2>s. "idle" \notin Probes \union Removes \union Exits
    BY Statements
  <2>2. WhereInv' /\ ModeInv' /\ UserInv' /\ OopsOnlyIf'
    BY <2>0, <2>1, <2>s, StatementsStay DEF WhereInv, ModeInv, UserInv, OopsOnlyIf, Idle
  <2>3. RetInv'
    BY <2>0, <2>1, <2>s, StatementsStay DEF RetInv, Silent
  <2>4. HeldInv' /\ CycleInv'
    <3>1. "hwmon" \notin held
      BY <2>0 DEF HeldInv
    <3> QED BY <3>1, <2>0, <2>1 DEF HeldInv, CycleInv
  <2>5. SettingsInv'
    BY <2>0, <2>1, <2>s, StatementsStay DEF SettingsInv
  <2>6. TypeOK'
    BY <2>0, <2>1, StatementsStay DEF TypeOK, Drv
  <2> QED BY <2>2, <2>3, <2>4, <2>5, <2>6
<1> QED BY <1>1, <1>2, <1>3

\* The end of ft_remove.
LEMMA RemoveEndsKeep == ASSUME ProbeInv, RemoveReturns \/ Devres PROVE ProbeInv'
<1> USE DEF ProbeInv
<1>t. /\ drv \in Drv /\ held \subseteq Resources
  BY DEF TypeOK, Drv
<1>s. {"return", "devres", "idle"} \intersect (Probes \union Removes \union Exits) = {}
  BY Statements
<1>1. CASE RemoveReturns
  <2>0. /\ oops = "nobody" /\ pc = "return" /\ drv.bound /\ pc' = "devres"
        /\ UNCHANGED <<board, reg, cells, held, drv, hw, st, cycle, user, failed, oops, ghost>>
    BY <1>1 DEF RemoveReturns, Runs
  <2>1. At = "return" /\ At' = "devres" /\ Dma' = Dma
    BY <2>0 DEF At, Idle, Dma
  <2>2. WhereInv' /\ ModeInv' /\ UserInv' /\ OopsOnlyIf' /\ RetInv'
    BY <2>0, <2>1, <1>s, StatementsStay
       DEF WhereInv, ModeInv, UserInv, OopsOnlyIf, RetInv, Idle
  <2>3. HeldInv'
    BY <2>0, <2>1 DEF HeldInv, Owned, Idle
  <2>4. CycleInv'
    BY <2>0, <2>1 DEF CycleInv, Acquiring, Cycling, Enabled
  <2>5. SettingsInv'
    BY <2>0, <2>1, <1>s, StatementsStay DEF SettingsInv
  <2>6. TypeOK'
    BY <2>0, StatementsStay DEF TypeOK
  <2> QED BY <2>2, <2>3, <2>4, <2>5, <2>6
<1>2. CASE Devres
  <2>0. /\ oops = "nobody" /\ pc = "devres" /\ user # "temp" /\ pc' = "idle"
        /\ held' = held \ {"hwmon"} /\ drv' = [drv EXCEPT !.bound = FALSE]
        /\ UNCHANGED <<board, reg, cells, hw, st, cycle, user, failed, oops, ghost>>
    BY <1>2 DEF Devres, Runs
  <2>1. /\ At = "devres" /\ At' = "return" /\ Dma' = Dma
        /\ drv' \in Drv /\ ~drv'.bound /\ ~drv'.data
    <3>1. ~drv.data
      BY <2>0 DEF WhereInv, Idle
    <3> QED BY <3>1, <2>0, <1>t DEF At, Idle, Dma, Drv
  <2>2. WhereInv' /\ ModeInv' /\ UserInv' /\ OopsOnlyIf' /\ RetInv'
    BY <2>0, <2>1, <1>s, StatementsStay
       DEF WhereInv, ModeInv, UserInv, OopsOnlyIf, RetInv, Idle
  <2>3. HeldInv'
    BY <2>0, <2>1 DEF HeldInv, Owned
  <2>4. CycleInv'
    BY <2>0, <2>1 DEF CycleInv, Acquiring, Cycling, Enabled
  <2>5. SettingsInv'
    BY <2>0, <2>1, <1>s, StatementsStay DEF SettingsInv
  <2>6. TypeOK'
    BY <2>0, <2>1, <1>t, StatementsStay DEF TypeOK, Drv
  <2> QED BY <2>2, <2>3, <2>4, <2>5, <2>6
<1> QED BY <1>1, <1>2

\* Processes that find, write and read attributes.
LEMMA UsersKeep ==
  ASSUME ProbeInv, Opens \/ SetsAttribute \/ ReadsTemperature PROVE ProbeInv'
<1> USE DEF ProbeInv
<1>t. /\ drv \in Drv /\ hw \in Hw /\ st \in [Settings -> {0, 1}]
      /\ ghost \in [early : BOOLEAN, late : BOOLEAN]
  BY DEF TypeOK, Drv, Hw
<1>u. UNCHANGED <<board, reg, cells, pc, held, drv, cycle, failed>> /\ oops = "nobody"
  BY DEF Opens, SetsAttribute, ReadsTemperature, Runs
<1>1. At' = At /\ Dma' = Dma
  BY <1>u DEF At, Idle, Dma
<1>2. WhereInv' /\ ModeInv' /\ HeldInv' /\ RetInv'
  BY <1>1, <1>u, StatementsStay DEF WhereInv, ModeInv, HeldInv, RetInv, Idle, Silent
\* Who holds an attribute of ZIO finds the driver there.
<1>3. "zdev" \in held => {"ft", "map"} \subseteq held
  <2>1. "zdev" \in Owned(At, Dma) => {"ft", "map"} \subseteq Owned(At, Dma)
    BY DEF Owned
  <2> QED BY <2>1 DEF HeldInv
\* Who holds hwmon's does, but at the end of ft_remove.
<1>4. "hwmon" \in held /\ ~({"ft", "map"} \subseteq held) => ~Idle /\ drv.bound
  <2>1. {"ft", "map"} \subseteq Owned("return0", Dma)
    BY DEF Owned
  <2> QED BY <2>1, StatementsDiffer DEF HeldInv, At, Idle
<1>5. CASE Opens
  <2>1. UserInv' /\ UNCHANGED <<hw, st, oops, ghost>> /\ user' \in {"attribute", "temp"}
    BY <1>5, <1>u DEF Opens, UserInv
  <2>2. OopsOnlyIf' /\ CycleInv'
    BY <2>1, <1>u, <1>1 DEF OopsOnlyIf, CycleInv
  <2>3. SettingsInv'
    BY <2>1, <1>u, <1>1, StatementsStay DEF SettingsInv
  <2>4. TypeOK'
    BY <2>1, <1>u, StatementsStay DEF TypeOK
  <2> QED BY <1>2, <2>1, <2>2, <2>3, <2>4
<1>6. CASE SetsAttribute
  <2>0. /\ user = "attribute" /\ user' = "none"
        /\ oops' = IF {"ft", "map"} \subseteq held THEN oops ELSE "attribute"
        /\ ghost' = [ghost EXCEPT !.early = @ \/ Probing]
        /\ \E f \in Settings, v \in {0, 1} :
              st' = [st EXCEPT ![f] = v] /\ hw' = [hw EXCEPT ![f] = v]
    BY <1>6 DEF SetsAttribute, Uses
  <2>1. oops' = "nobody" /\ UserInv' /\ OopsOnlyIf'
    BY <2>0, <1>3, <1>u DEF UserInv, OopsOnlyIf
  <2>2. /\ st' \in [Settings -> {0, 1}] /\ hw' \in Hw
        /\ hw'.acq = hw.acq /\ hw'.eic = hw.eic /\ hw'.flag = hw.flag
        /\ hw.on = st.on => hw'.on = st'.on
        /\ hw.off = st.off => hw'.off = st'.off
    <3>1. PICK f \in Settings, v \in {0, 1} :
             st' = [st EXCEPT ![f] = v] /\ hw' = [hw EXCEPT ![f] = v]
      BY <2>0
    <3>2. Settings = {"on", "off", "wr"}
      BY DEF Settings, Fresh
    <3>3. CASE f = "on"
      BY <3>1, <3>2, <3>3, <1>t DEF Hw
    <3>4. CASE f = "off"
      BY <3>1, <3>2, <3>4, <1>t DEF Hw
    <3>5. CASE f = "wr"
      BY <3>1, <3>2, <3>5, <1>t DEF Hw
    <3> QED BY <3>2, <3>3, <3>4, <3>5
  <2>3. /\ ghost'.late = ghost.late /\ ghost' \in [early : BOOLEAN, late : BOOLEAN]
        /\ ghost'.early = (ghost.early \/ Probing)
    BY <2>0, <1>t
  <2>4. CycleInv'
    BY <2>2, <2>3, <1>u, <1>1 DEF CycleInv
  <2>5. SettingsInv'
    <3>1. ASSUME pc \in Probes \union {"return0"} PROVE Probing
      BY <3>1, StatementsDiffer DEF Probing, Idle, WhereInv
    <3> QED BY <3>1, <2>2, <2>3, <1>u, <1>1, StatementsStay DEF SettingsInv
  <2>6. TypeOK'
    BY <2>0, <2>1, <2>2, <2>3, <1>u, StatementsStay DEF TypeOK, Hw
  <2> QED BY <1>2, <2>1, <2>4, <2>5, <2>6
<1>7. CASE ReadsTemperature
  <2>0. /\ user = "temp" /\ user' = "none" /\ UNCHANGED <<hw, st, ghost>>
        /\ oops' = IF {"ft", "map"} \subseteq held THEN oops ELSE "temp"
    BY <1>7 DEF ReadsTemperature, Uses
  <2>1. UserInv'
    BY <2>0 DEF UserInv
  <2>2. OopsOnlyIf'
    BY <2>0, <1>4, <1>u DEF OopsOnlyIf, UserInv, Idle
  <2>3. CycleInv' /\ SettingsInv'
    BY <2>0, <1>u, <1>1, StatementsStay DEF CycleInv, SettingsInv
  <2>4. TypeOK'
    BY <2>0, <1>u, StatementsStay DEF TypeOK
  <2> QED BY <1>2, <2>1, <2>2, <2>3, <2>4
<1> QED BY <1>5, <1>6, <1>7

\* The acquisition: unless the driver was removed during a cycle, it meets
\* everything it needs.
LEMMA CyclesKeep ==
  ASSUME ProbeInv, Interrupt \/ Work \/ Completion PROVE ProbeInv'
<1> USE DEF ProbeInv
<1>t. hw \in Hw
  BY DEF TypeOK, Hw
<1>u. /\ UNCHANGED <<board, reg, cells, pc, held, drv, st, user, failed, ghost>>
      /\ oops = "nobody"
  BY DEF Interrupt, Work, Completion, Runs
<1>1. At' = At /\ Dma' = Dma
  BY <1>u DEF At, Idle, Dma
<1>2. WhereInv' /\ ModeInv' /\ HeldInv' /\ RetInv' /\ UserInv'
  BY <1>1, <1>u, StatementsStay DEF WhereInv, ModeInv, HeldInv, RetInv, UserInv, Idle, Silent
<1>3. /\ cycle' \in {"none", "queued", "dma"}
      /\ \/ cycle = "none" /\ hw.acq /\ Dma /\ hw' = [hw EXCEPT !.eic = FALSE] /\ oops' = oops
         \/ /\ cycle # "none" /\ (hw' = hw \/ hw' = [hw EXCEPT !.eic = TRUE])
            /\ \/ oops' = "nobody"
               \/ oops' = "work" /\ ~({"ft", "map", "zdev", "dma"} \subseteq held)
  BY <1>u DEF Interrupt, Work, Completion, Uses
<1>4. /\ hw' \in Hw /\ hw'.acq = hw.acq /\ hw'.on = hw.on /\ hw'.off = hw.off
      /\ hw'.flag = hw.flag /\ (hw'.eic => hw.eic \/ cycle # "none")
  BY <1>3, <1>t DEF Hw
<1>5. CycleInv'
  <2>1. hw.acq => At \in Acquiring
    BY DEF CycleInv
  <2>2. Acquiring \subseteq Cycling /\ Cycling \subseteq Enabled
    BY DEF Cycling, Enabled
  <2>3. ~ghost.late => /\ cycle' # "none" => Dma /\ At \in Cycling
                       /\ hw'.eic => At \in Enabled
    BY <2>1, <2>2, <1>3, <1>4 DEF CycleInv
  <2> QED BY <2>1, <2>3, <1>1, <1>4, <1>u DEF CycleInv
<1>6. OopsOnlyIf' /\ oops' \in {"nobody", "work"}
  <2>1. ASSUME ~ghost.late, cycle # "none" PROVE {"ft", "map", "zdev", "dma"} \subseteq held
    <3>1. Dma /\ At \in Cycling
      BY <2>1 DEF CycleInv
    <3>2. {"ft", "map", "zdev", "dma"} \subseteq Owned(At, Dma)
      BY <3>1 DEF Owned, Cycling, Acquiring
    <3> QED BY <3>2 DEF HeldInv
  <2> QED BY <2>1, <1>3, <1>u DEF OopsOnlyIf
<1>7. SettingsInv'
  BY <1>1, <1>4, <1>u, StatementsStay DEF SettingsInv
<1>8. TypeOK'
  BY <1>3, <1>4, <1>6, <1>u, StatementsStay DEF TypeOK, Hw
<1> QED BY <1>2, <1>5, <1>6, <1>7, <1>8

\* Every step keeps the invariant.
LEMMA ProbeStep == ProbeInv /\ [Next]_vars => ProbeInv'
<1> SUFFICES ASSUME ProbeInv, [Next]_vars PROVE ProbeInv'
  OBVIOUS
<1>1. CASE UNCHANGED vars
  BY <1>1, QuietKeeps DEF vars, ProbeInv, TypeOK
<1> QED BY <1>1, PassesKeeps, FailsKeeps, ModulesKeep, StartsKeep, ProbeEndsKeep, RemoveEndsKeep,
           UsersKeep, CyclesKeep DEF Next

\* The invariant holds in every state of every behaviour.
LEMMA ProbeInvHolds == Spec => []ProbeInv
  BY ProbeInit, ProbeStep, PTL DEF Spec
-----------------------------------------------------------------------------
(* The theorems *)

\* The state of the driver, of the driver core and of the registers has its types,
\* and only a mezzanine with an acquisition gets a driver.
THEOREM ProbeTypeCorrect == Spec => []TypeOK
<1>1. ProbeInv => TypeOK
  BY DEF ProbeInv
<1> QED BY <1>1, ProbeInvHolds, PTL

\* Whatever fails in ft_probe: without driver data nothing is left, and with it
\* there is all but, perhaps, the hwmon device.
THEOREM NothingIsLeaked == Spec => []NothingLeaked
<1>1. ProbeInv => NothingLeaked
  <2> SUFFICES ASSUME ProbeInv, Idle
               PROVE  IF drv.data
                      THEN held \union {"hwmon"} = Resources \ (IF Dma THEN {} ELSE {"dma"})
                      ELSE held = {}
    BY DEF NothingLeaked
  <2>1. CASE drv.data
    <3>1. Owned("return0", Dma) \union {"hwmon"} = Resources \ (IF Dma THEN {} ELSE {"dma"})
      BY DEF Owned, Resources
    <3>2. held \ {"hwmon"} = Owned("return0", Dma)
      BY <2>1 DEF ProbeInv, HeldInv, At
    <3> QED BY <2>1, <3>1, <3>2
  <2>2. CASE ~drv.data
    <3>1. Owned("return", Dma) = {}
      BY DEF Owned
    <3>2. held \ {"hwmon"} = {} /\ "hwmon" \notin held
      BY <2>2, <3>1 DEF ProbeInv, HeldInv, At, Idle
    <3> QED BY <2>2, <3>2
  <2> QED BY <2>1, <2>2
<1> QED BY <1>1, ProbeInvHolds, PTL

\* What uses a driver that is gone does so in the two named windows only.
THEOREM OopsOnlyInWindows == Spec => []OopsOnlyIf
<1>1. ProbeInv => OopsOnlyIf
  BY DEF ProbeInv
<1> QED BY <1>1, ProbeInvHolds, PTL

\* Without a driver nothing is acquired, and no interrupt is enabled unless the
\* driver was removed during a cycle.
THEOREM QuietWithout == Spec => []QuietWithoutDriver
<1>1. ProbeInv => QuietWithoutDriver
  <2> SUFFICES ASSUME ProbeInv, Idle, ~drv.data PROVE ~hw.acq /\ (ghost.late \/ ~hw.eic)
    BY DEF QuietWithoutDriver
  <2>1. At = "return"
    BY DEF At
  <2> QED BY <2>1 DEF ProbeInv, CycleInv, Acquiring, Cycling, Enabled
<1> QED BY <1>1, ProbeInvHolds, PTL

\* A device is bound without a driver only after one of four failures.
THEOREM BoundWithout == Spec => []BoundWithoutDriver
<1>1. ProbeInv => BoundWithoutDriver
  BY DEF ProbeInv, RetInv, BoundWithoutDriver, Silent
<1> QED BY <1>1, ProbeInvHolds, PTL

\* Whatever the life before has left in the registers, after ft_probe they are
\* what the driver believes, unless an attribute was written too early.
THEOREM StartsFresh == Spec => []StartsFromItsSettings
<1>1. ProbeInv => StartsFromItsSettings
  BY DEF ProbeInv, SettingsInv, StartsFromItsSettings, At
<1> QED BY <1>1, ProbeInvHolds, PTL

\* The table and the count of fmc-tdc-svec-core select the cards that are there.
LEMMA SvecCellsAreCards == ASSUME NEW cards \in SUBSET Slot PROVE SvecCells(cards) = cards
<1>1. cards \in {{}, {1}, {2}, {1, 2}}
  BY DEF Slot
<1>2. CASE cards = {}
  BY <1>2 DEF SvecCells
<1>3. CASE cards = {1}
  BY <1>3 DEF SvecCells, CellCount, Mfd
<1>4. CASE cards = {2}
  BY <1>4 DEF SvecCells, CellCount, Mfd
<1>5. CASE cards = {1, 2}
  BY <1>5 DEF SvecCells, CellCount, Mfd
<1> QED BY <1>1, <1>2, <1>3, <1>4, <1>5

\* On an SVEC the devices are those of the cards that are present.
THEOREM SvecDevices == Spec => []CellsAreCards
<1> DEFINE I == board \in Boards /\ CellsAreCards
<1>1. Init => I
  BY DEF Init, CellsAreCards
<1>2. I /\ [Next]_vars => I'
  <2> SUFFICES ASSUME I, [Next]_vars PROVE I'
    OBVIOUS
  <2>1. CASE CarrierProbe
    <3>1. SvecCells(board.cards) = board.cards
      BY SvecCellsAreCards DEF Boards
    <3> QED BY <2>1, <3>1 DEF CarrierProbe, CellsAreCards
  <2>2. CASE CarrierRemove
    BY <2>2 DEF CarrierRemove, CellsAreCards
  <2>3. CASE ~CarrierProbe /\ ~CarrierRemove
    <3>1. UNCHANGED <<board, cells>>
      BY <2>3 DEF Next, vars, Load, Unload, ProbeStarts, RemoveStarts, Passes, Fails, HwmonFails,
                  ProbeReturns, RemoveReturns, Devres, Opens, SetsAttribute, ReadsTemperature,
                  Interrupt, Work, Completion
    <3> QED BY <3>1 DEF CellsAreCards
  <2> QED BY <2>1, <2>2, <2>3
<1>3. I => CellsAreCards
  OBVIOUS
<1> HIDE DEF I
<1> QED BY <1>1, <1>2, <1>3, PTL DEF Spec
=============================================================================
