------------------------------ MODULE FtProbe ------------------------------
(***************************************************************************)
(* Loading the modules, probing a mezzanine and removing it: ft_init,       *)
(* ft_probe, ft_remove and ft_exit of ft-core.c with the init and exit      *)
(* functions they call, and the carrier drivers that create the platform    *)
(* device.  A statement acquires or releases a resource, or writes the      *)
(* registers; attributes of ZIO and hwmon, the interrupt handler, the work  *)
(* item and DMA completions run in between.                                 *)
(***************************************************************************)
EXTENDS Integers, Sequences

CONSTANT MaxLives  \* bound: how often the device is probed

ASSUME LivesAssumption == MaxLives \in Nat

VARIABLES board,  \* carrier, slot of the mezzanine, slots with a card, ft->mode
          reg,    \* what ft_init has registered
          cells,  \* slots with a platform device
          pc,     \* the next statement of ft_probe or ft_remove, "idle" outside
          held,   \* resources of the driver
          drv,    \* the driver core's view of the device, and ft_probe's ret
          hw,     \* registers: EIC mask, CTRL, INPUT_ENABLE, offsets, WR_CTRL
          st,     \* the driver's and ZIO's copies of the settings
          cycle,  \* the acquisition cycle in DMA mode
          user,   \* the attribute a user process is in
          failed, \* the last statement that failed
          oops,   \* who has used what was not there
          ghost   \* attributes written during ft_probe; removals during a cycle
vars == <<board, reg, cells, pc, held, drv, hw, st, cycle, user, failed, oops, ghost>>

Slot == {1, 2}
Boards == [carrier : {"spec", "svec"}, slot : Slot, cards : SUBSET Slot,
           mode : {"dma", "fifo", "none"}]
Fresh == [on |-> 0, off |-> 0, wr |-> 0]
Settings == DOMAIN Fresh
Resources == {"ft", "map", "slot", "link", "hwzdev", "zdev", "irq", "dma", "debug", "hwmon"}

Init ==
  /\ board \in Boards
  /\ reg = {} /\ cells = {} /\ pc = "idle" /\ held = {}
  /\ drv = [bound |-> FALSE, data |-> FALSE, ret |-> 0, lives |-> 0]
  /\ hw = [eic |-> FALSE, acq |-> FALSE, flag |-> FALSE, on |-> 0, off |-> 0, wr |-> 0]
  /\ st = Fresh
  /\ cycle = "none" /\ user = "none"
  /\ failed = "nothing" /\ oops = "nobody"
  /\ ghost = [early |-> FALSE, late |-> FALSE]

Dma == board.mode = "dma"
Idle == pc = "idle"
Runs == oops = "nobody"

-----------------------------------------------------------------------------
\* ft_init and ft_exit.  The driver core removes the device before
\* platform_driver_unregister returns.
Registration == <<"trig", "zdrv", "pdrv">>

Load(i) ==
  /\ Runs /\ reg = {Registration[j] : j \in 1 .. i - 1}
  /\ drv.lives < MaxLives /\ Idle
  /\ \/ reg' = reg \union {Registration[i]}
     \/ reg' = {}
  /\ UNCHANGED <<board, cells, pc, held, drv, hw, st, cycle, user, failed, oops, ghost>>

Unload ==
  /\ Runs /\ "pdrv" \in reg /\ Idle /\ ~drv.bound
  /\ reg' = {}
  /\ UNCHANGED <<board, cells, pc, held, drv, hw, st, cycle, user, failed, oops, ghost>>

\* ft_svec_probe: bits for the cards present, one less to index the tables of
\* MFD cells, and how many cells the table has.  The mutated form forgets the
\* second.
Mfd == <<<<1>>, <<2>>, <<1, 2>>>>
CellCountMut(idev) == 1
CellCount(idev) == 1 + ((idev \div 2) % 2)
SvecCells(cards) ==
  LET bits == (IF 1 \in cards THEN 1 ELSE 0) + (IF 2 \in cards THEN 2 ELSE 0)
      idev == bits - 1
  IN  IF bits = 0 THEN {} ELSE {Mfd[idev + 1][i] : i \in 1 .. CellCount(idev)}

\* ft_spec_probe does not look for a card.
CarrierProbe ==
  /\ Runs /\ Idle /\ cells = {} /\ drv.lives < MaxLives
  /\ cells' = IF board.carrier = "spec" THEN {board.slot} ELSE SvecCells(board.cards)
  /\ UNCHANGED <<board, reg, pc, held, drv, hw, st, cycle, user, failed, oops, ghost>>

CarrierRemove ==
  /\ Runs /\ Idle /\ cells # {} /\ ~drv.bound
  /\ cells' = {}
  /\ UNCHANGED <<board, reg, pc, held, drv, hw, st, cycle, user, failed, oops, ghost>>

-----------------------------------------------------------------------------
\* The statement after each one of ft_probe, of ft_remove, and of the end of
\* ft_remove, which is ft_probe's error path too.
ProbeOrder ==
  [validation |-> "kzalloc", kzalloc |-> "ioremap", ioremap |-> "mode", mode |-> "slot_get",
   slot_get |-> "present", present |-> "eeprom", eeprom |-> "fru", fru |-> "link",
   link |-> "calib", calib |-> "acam", acam |-> "time", time |-> "zio_alloc",
   zio_alloc |-> "zio_register", zio_register |-> "offsets", offsets |-> "request_irq",
   request_irq |-> IF Dma THEN "dma_request" ELSE "ier", dma_request |-> "ier", ier |-> "debug",
   debug |-> "input_enable", input_enable |-> "ctrl", ctrl |-> "hwmon", hwmon |-> "return0"]

\* The first statement of ft_buf_exit and ft_fifo_exit; the mutated form leaves the
\* interrupts of the inputs enabled.
AcqExitMut == IF Dma THEN "dma_release" ELSE "free_irq"
AcqExit == "idr"
RemoveOrder ==
  [dis_acq |-> "inputs_off", inputs_off |-> "debug_exit", debug_exit |-> AcqExit,
   idr |-> IF Dma THEN "dma_release" ELSE "free_irq"]

\* The mutated form unmaps the registers before the ACAM is switched off.
ExitOrderMut ==
  [dma_release |-> "free_irq", free_irq |-> "zio_unregister", zio_unregister |-> "zio_free",
   zio_free |-> "iounmap", iounmap |-> "acam_exit", acam_exit |-> "unlink",
   unlink |-> "slot_put", slot_put |-> "kfree", kfree |-> "return"]
ExitOrder ==
  [dma_release |-> "free_irq", free_irq |-> "zio_unregister", zio_unregister |-> "zio_free",
   zio_free |-> "acam_exit", acam_exit |-> "unlink", unlink |-> "slot_put",
   slot_put |-> "iounmap", iounmap |-> "kfree", kfree |-> "return"]

Probes == DOMAIN ProbeOrder
Removes == DOMAIN RemoveOrder
Exits == DOMAIN ExitOrder
Then(l) == CASE l \in Probes -> ProbeOrder[l]
             [] l \in Removes -> RemoveOrder[l]
             [] l \in Exits -> ExitOrder[l]

\* The goto's, and the error paths of ft_zio_init and ft_buf_init; the mutated
\* form does not put the slot of a missing card.
OnErrorMut(l) ==
  CASE l \in {"validation", "kzalloc"} -> "return"
    [] l \in {"mode", "slot_get", "present"} -> "iounmap"
    [] l \in {"eeprom", "fru", "link"} -> "slot_put"
    [] l = "acam" -> "unlink"
    [] l = "zio_alloc" -> "acam_exit"
    [] l = "zio_register" -> "zio_free"
    [] l = "request_irq" -> "zio_unregister"
    [] l = "dma_request" -> "free_irq"
OnError(l) ==
  CASE l \in {"validation", "kzalloc"} -> "return"
    [] l \in {"mode", "slot_get"} -> "iounmap"
    [] l \in {"present", "eeprom", "fru", "link"} -> "slot_put"
    [] l = "acam" -> "unlink"
    [] l = "zio_alloc" -> "acam_exit"
    [] l = "zio_register" -> "zio_free"
    [] l = "request_irq" -> "zio_unregister"
    [] l = "dma_request" -> "free_irq"

\* The statements whose error goes into ret, and those that leave ret alone.  The
\* mutated form forgets the error of ft_buf_init and ft_fifo_init.
AssigningMut == {"validation", "kzalloc", "mode", "eeprom", "acam", "zio_alloc", "zio_register"}
Assigning == {"validation", "kzalloc", "mode", "eeprom", "acam", "zio_alloc", "zio_register",
              "request_irq", "dma_request"}
Silent == {"slot_get", "present", "fru", "link"}
MayFail(l) ==
  CASE l = "mode" -> board.mode = "none"
    [] l = "present" -> board.slot \notin board.cards
    [] OTHER -> l \in Assigning \union Silent \union {"request_irq", "dma_request"}

\* The mutated form takes a gateware without acquisition.
MayPassMut(l) == l = "present" => ~MayFail(l)
MayPass(l) == l \in {"mode", "present"} => ~MayFail(l)

Gives == [kzalloc |-> "ft", ioremap |-> "map", slot_get |-> "slot", link |-> "link",
          zio_alloc |-> "hwzdev", zio_register |-> "zdev", request_irq |-> "irq",
          dma_request |-> "dma", debug |-> "debug", hwmon |-> "hwmon"]
Takes == [zio_unregister |-> "zdev", zio_free |-> "hwzdev", unlink |-> "link",
          slot_put |-> "slot", iounmap |-> "map", kfree |-> "ft", free_irq |-> "irq",
          dma_release |-> "dma", debug_exit |-> "debug"]
Registers == {"mode", "acam", "time", "offsets", "ier", "input_enable", "ctrl", "dis_acq",
              "inputs_off", "idr", "acam_exit"}

Given(l) == IF l \in DOMAIN Gives THEN {Gives[l]} ELSE {}
Taken(l) == IF l \in DOMAIN Takes THEN {Takes[l]} ELSE {}
Needs(l) == Taken(l) \union (IF l \in Registers THEN {"ft", "map"} ELSE {})

\* What a statement writes to the registers (ft_channels_init writes what
\* input_enable writes again).  ft_update_offsets writes the offset of user_offset;
\* its mutated form leaves that of the life before.
OffsetsMut == hw.off
Offsets == st.off
Written(l) ==
  CASE l = "time" -> [hw EXCEPT !.flag = TRUE]
    [] l = "offsets" -> [hw EXCEPT !.off = Offsets]
    [] l = "ier" -> [hw EXCEPT !.eic = TRUE]
    [] l = "input_enable" -> [hw EXCEPT !.flag = TRUE, !.on = 0]
    [] l = "ctrl" -> [hw EXCEPT !.acq = TRUE]
    [] l \in {"dis_acq", "acam_exit"} -> [hw EXCEPT !.acq = FALSE]
    [] l = "inputs_off" -> [hw EXCEPT !.flag = FALSE, !.on = 0]
    [] l = "idr" -> [hw EXCEPT !.eic = FALSE]
    [] OTHER -> hw

-----------------------------------------------------------------------------
\* The driver core finds a device for the driver.
ProbeStarts ==
  /\ Runs /\ Idle /\ "pdrv" \in reg /\ board.slot \in cells /\ ~drv.bound
  /\ drv.lives < MaxLives
  /\ pc' = "validation"
  /\ drv' = [drv EXCEPT !.ret = 0, !.lives = @ + 1]
  /\ st' = Fresh
  /\ ghost' = [ghost EXCEPT !.early = FALSE]
  /\ failed' = "nothing"
  /\ UNCHANGED <<board, reg, cells, held, hw, cycle, user, oops>>

\* rmmod, or unbind.  Without driver data ft_remove does nothing.
RemoveStarts ==
  /\ Runs /\ Idle /\ drv.bound
  /\ IF drv.data THEN pc' = "dis_acq" /\ UNCHANGED drv
                 ELSE drv' = [drv EXCEPT !.bound = FALSE] /\ UNCHANGED pc
  /\ UNCHANGED <<board, reg, cells, held, hw, st, cycle, user, failed, oops, ghost>>

\* zio_unregister_device waits for the attributes in use.
Waits(l) == l = "zio_unregister" /\ user = "attribute"

\* Whoever uses what is not there goes no further.
Uses(who, needs) ==
  oops' = IF needs \subseteq held THEN oops ELSE who

Passes ==
  /\ Runs /\ pc \in Probes \union Removes \union Exits
  /\ MayPass(pc) /\ ~Waits(pc)
  /\ Uses("driver", Needs(pc))
  /\ pc' = Then(pc)
  /\ held' = (held \union Given(pc)) \ Taken(pc)
  /\ hw' = Written(pc)
  /\ drv' = CASE pc \in Assigning -> [drv EXCEPT !.ret = 0]
              [] pc = "kfree" -> [drv EXCEPT !.data = FALSE]
              [] OTHER -> drv
  \* dma_release_channel: a transfer under way may end here.
  /\ IF pc = "dma_release" /\ cycle = "dma" THEN cycle' \in {"none", "dma"} ELSE UNCHANGED cycle
  /\ ghost' = [ghost EXCEPT !.late = @ \/ (pc = "idr" /\ cycle # "none")]
  /\ UNCHANGED <<board, reg, cells, st, user, failed>>

Fails ==
  /\ Runs /\ MayFail(pc)
  /\ Uses("driver", Needs(pc))
  /\ pc' = OnError(pc)
  /\ drv' = IF pc \in Assigning THEN [drv EXCEPT !.ret = -1] ELSE drv
  /\ failed' = pc
  /\ UNCHANGED <<board, reg, cells, held, hw, st, cycle, user, ghost>>

\* hwmon's errors are only printed; without a label the device stays.
HwmonFails ==
  /\ Runs /\ pc = "hwmon"
  /\ pc' = Then(pc)
  /\ UNCHANGED <<board, reg, cells, held, drv, hw, st, cycle, user, failed, oops, ghost>>

ProbeReturns ==
  /\ Runs
  /\ \/ pc = "return0" /\ drv' = [drv EXCEPT !.bound = TRUE, !.data = TRUE]
     \/ pc = "return" /\ ~drv.bound /\ drv' = [drv EXCEPT !.bound = (drv.ret = 0)]
  /\ pc' = "idle"
  /\ UNCHANGED <<board, reg, cells, held, hw, st, cycle, user, failed, oops, ghost>>

\* ft_remove has returned; the driver core releases what devm_ has registered.
RemoveReturns ==
  /\ Runs /\ pc = "return" /\ drv.bound
  /\ pc' = "devres"
  /\ UNCHANGED <<board, reg, cells, held, drv, hw, st, cycle, user, failed, oops, ghost>>

Devres ==
  /\ Runs /\ pc = "devres" /\ user # "temp"
  /\ pc' = "idle"
  /\ held' = held \ {"hwmon"}
  /\ drv' = [drv EXCEPT !.bound = FALSE]
  /\ UNCHANGED <<board, reg, cells, hw, st, cycle, user, failed, oops, ghost>>

-----------------------------------------------------------------------------
\* Users.  A process is in an attribute from the time it has found it.
Opens ==
  /\ Runs /\ user = "none"
  /\ \/ "zdev" \in held /\ user' = "attribute"
     \/ "hwmon" \in held /\ user' = "temp"
  /\ UNCHANGED <<board, reg, cells, pc, held, drv, hw, st, cycle, failed, oops, ghost>>

Probing == ~Idle /\ ~drv.bound

SetsAttribute ==
  /\ Runs /\ user = "attribute"
  /\ Uses("attribute", {"ft", "map"})
  /\ \E f \in Settings, v \in {0, 1} :
       /\ st' = [st EXCEPT ![f] = v]
       /\ hw' = [hw EXCEPT ![f] = v]
  /\ ghost' = [ghost EXCEPT !.early = @ \/ Probing]
  /\ user' = "none"
  /\ UNCHANGED <<board, reg, cells, pc, held, drv, cycle, failed>>

\* ft_hwmon_temp_read.
ReadsTemperature ==
  /\ Runs /\ user = "temp"
  /\ Uses("temp", {"ft", "map"})
  /\ user' = "none"
  /\ UNCHANGED <<board, reg, cells, pc, held, drv, hw, st, cycle, failed, ghost>>

\* The handler of DMA mode, the work item (which may find nothing to transfer)
\* and the last completion.
Interrupt ==
  /\ Runs /\ Dma /\ cycle = "none" /\ "irq" \in held
  /\ hw.eic /\ hw.acq /\ hw.flag /\ hw.on = 1
  /\ cycle' = "queued"
  /\ hw' = [hw EXCEPT !.eic = FALSE]
  /\ UNCHANGED <<board, reg, cells, pc, held, drv, st, user, failed, oops, ghost>>

Work ==
  /\ Runs /\ cycle = "queued"
  /\ Uses("work", {"ft", "map", "zdev", "dma"})
  /\ \/ cycle' = "dma" /\ UNCHANGED hw
     \/ cycle' = "none" /\ hw' = [hw EXCEPT !.eic = TRUE]
  /\ UNCHANGED <<board, reg, cells, pc, held, drv, st, user, failed, ghost>>

Completion ==
  /\ Runs /\ cycle = "dma"
  /\ Uses("work", {"ft", "map", "zdev"})
  /\ cycle' = "none" /\ hw' = [hw EXCEPT !.eic = TRUE]
  /\ UNCHANGED <<board, reg, cells, pc, held, drv, st, user, failed, ghost>>

Next ==
  \/ \E i \in 1 .. Len(Registration) : Load(i)
  \/ Unload \/ CarrierProbe \/ CarrierRemove
  \/ ProbeStarts \/ RemoveStarts
  \/ Passes \/ Fails \/ HwmonFails \/ ProbeReturns \/ RemoveReturns \/ Devres
  \/ Opens \/ SetsAttribute \/ ReadsTemperature
  \/ Interrupt \/ Work \/ Completion

Spec == Init /\ [][Next]_vars
-----------------------------------------------------------------------------
\* The state has its types; the device has driver data only while it is bound,
\* and only a mezzanine whose gateware has an acquisition gets that far.
TypeOK ==
  /\ board \in Boards
  /\ reg \subseteq {"trig", "zdrv", "pdrv"} /\ cells \subseteq Slot
  /\ pc \in Probes \union Removes \union Exits \union {"idle", "return0", "return", "devres"}
  /\ held \subseteq Resources
  /\ drv \in [bound : BOOLEAN, data : BOOLEAN, ret : {-1, 0}, lives : 0 .. MaxLives]
  /\ hw \in [eic : BOOLEAN, acq : BOOLEAN, flag : BOOLEAN, on : {0, 1}, off : {0, 1}, wr : {0, 1}]
  /\ st \in [Settings -> {0, 1}]
  /\ cycle \in {"none", "queued", "dma"} /\ user \in {"none", "attribute", "temp"}
  /\ oops \in {"nobody", "driver", "attribute", "temp", "work"}
  /\ ghost \in [early : BOOLEAN, late : BOOLEAN]
  /\ drv.data => drv.bound /\ board.mode # "none"

\* Whatever fails in ft_probe, and whenever the driver is removed: a device
\* without driver data has no resources left, and one with driver data has all
\* but, perhaps, the hwmon device.
NothingLeaked ==
  Runs /\ Idle =>
    IF drv.data THEN held \union {"hwmon"} = Resources \ (IF Dma THEN {} ELSE {"dma"})
                ELSE held = {}

\* ft_probe and ft_remove neither touch the registers after iounmap nor release
\* anything twice, and attributes of ZIO never meet a driver that is gone.  The
\* acquisition does only if the driver is removed during a cycle, because
\* ft_buf_exit does not wait for irq_work and for the completions; a read of the
\* hwmon temperature does only between ft_remove and the release of what devm_
\* has registered.
OopsOnlyIf ==
  /\ oops \notin {"driver", "attribute"}
  /\ oops = "work" => ghost.late
  /\ oops = "temp" => ~Idle /\ drv.bound /\ {"ft", "map"} \ held # {}

\* Without a driver the board is quiet: no interrupt of the inputs is enabled and
\* nothing is acquired, unless the driver was removed during a cycle, whose
\* completion enables the interrupts again behind ft_buf_exit.
QuietWithoutDriver ==
  Runs /\ Idle /\ ~drv.data => ~hw.acq /\ (ghost.late \/ ~hw.eic)

\* A device is bound without a driver only after one of the failures for which
\* ft_probe leaves ret alone.
BoundWithoutDriver ==
  Idle /\ drv.bound /\ ~drv.data => failed \in {"slot_get", "present", "fru", "link"}

\* When ft_probe has succeeded, INPUT_ENABLE and the offsets are what the driver
\* believes they are, whatever the life before has left in the registers; unless an
\* attribute was written between zio_register_device and the end of ft_probe,
\* which then overwrites it.
StartsFromItsSettings ==
  Runs /\ Idle /\ drv.data /\ ~ghost.early => hw.on = st.on /\ hw.off = st.off /\ hw.flag

\* fmc-tdc-svec-core registers a device for each card that is present, and no other.
CellsAreCards == board.carrier = "svec" => cells \in {{}, board.cards}

\* "ENODEV if it is not enabled" (fmctdc_check_wr_mode): the driver that answers the
\* query knows whether White Rabbit is enabled.
WrModeKnown == Idle /\ drv.data => hw.wr = st.wr
=============================================================================
