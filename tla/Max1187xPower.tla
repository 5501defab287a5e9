--------------------------- MODULE Max1187xPower ---------------------------
(* Resets, suspend and resume of the touch controller,                     *)
(* drivers/touch/max1187x.c.                                               *)
(*                                                                         *)
(* A reset of the chip takes reset_sem and is over only when the interrupt *)
(* thread has read the chip's report that it was reset, sent it its        *)
(* settings again and released reset_sem.  The sysfs entries "por" and     *)
(* "sreset", the interrupt thread itself (after a report it could not      *)
(* read) and resume() reset the chip; suspend() puts it to sleep.          *)
(*                                                                         *)
(* The chip is external: it pulls its interrupt line low while it has      *)
(* reports to be read, and the interrupt is edge-triggered (the device     *)
(* tree and :2283): the line falls when there is a first report, and again *)
(* when one was read and more are left.  An edge while the interrupt is    *)
(* disabled or its thread runs stays pending (IRQF_ONESHOT).               *)
(*                                                                         *)
(* Every report that is read is passed to those who read the sysfs file    *)
(* "report", and passing one waits, without a time limit, until the last   *)
(* reader of the one before has given report_sem back (Max1187xReports).   *)
(* A reader who does is no more here than the time this takes; one whose   *)
(* buffer is too short (:1272) never does.                                 *)
(*                                                                         *)
(* The device is no wakeup source (nothing calls device_init_wakeup()), so *)
(* device_may_wakeup() is false throughout.  Reports are told apart as far *)
(* as a reset depends on it.                                               *)
EXTENDS Naturals, Sequences

CONSTANTS
  Pors,        (* the values pdata->enable_resume_por may have             *)
  MaxSuspends, (* bound on the suspends of a behaviour                     *)
  MaxTouches,  (* bound on the touch reports of a behaviour                *)
  MaxFaults    (* bound on the I2C, GPIO and regulator operations that fail *)

ASSUME ConstAssumption ==
  /\ Pors \subseteq BOOLEAN
  /\ MaxSuspends \in Nat /\ MaxTouches \in Nat /\ MaxFaults \in Nat

VARIABLES
  enable_resume_por, (* pdata->enable_resume_por, fixed                    *)
  pc,             (* where each thread is                                  *)
  reset_sem,      (* count of the semaphore ts->reset_sem                  *)
  leaked,         (* a reader has left without giving report_sem back      *)
  i2c_mutex,      (* the thread that holds ts->i2c_mutex                   *)
  is_suspended,   (* ts->is_suspended                                      *)
  pm_suspended,   (* ts->pm_suspended                                      *)
  irq_on_suspend, (* ts->irq_on_suspend                                    *)
  vdd,            (* the load set on the regulator: "high" or "low"        *)
  disabled,       (* depth of disable_irq()                                *)
  edge,           (* an edge of the interrupt line that no handler saw yet *)
  report,         (* the report the interrupt thread has read              *)
  mode,           (* what the chip is doing                                *)
  configured,     (* the chip is set to send extended touch reports        *)
  out,            (* the reports the chip holds ready                      *)
  suspends,       (* history: suspends so far                              *)
  touches,        (* history: touch reports so far                         *)
  faults,         (* history: failed operations so far                     *)
  amiss           (* history: an interrupt was taken while the device      *)
                  (* counted as "suspended", a soft reset "discarded" the  *)
                  (* chip's reset report, sreset() returned "early", with  *)
                  (* its own reset under way, or a wait for reset_sem has  *)
                  (* "expired"                                             *)

Threads == {"irq", "pm", "por", "sreset"}

locks == <<reset_sem, i2c_mutex>>
flags == <<is_suspended, pm_suspended, irq_on_suspend>>
chip  == <<mode, configured, out>>
irq   == <<disabled, edge, report>>
ghosts == <<suspends, touches, faults, amiss>>
vars == <<enable_resume_por, leaked, pc, locks, flags, vdd, irq, chip, ghosts>>

-----------------------------------------------------------------------------

At(t, l) == pc[t] = l
Idle(t) == At(t, "idle")
Goto(t, l) == pc' = [pc EXCEPT ![t] = l]

Lock(t) == i2c_mutex = "free" /\ i2c_mutex' = t
Unlock == i2c_mutex' = "free"

Fails(n) == faults + n <= MaxFaults /\ faults' = faults + n

\* The chip holds one more report; the line falls if it is the first one.
Posts(r) == out' = Append(out, r) /\ edge' = (edge \/ out = <<>>)

\* The oldest report is read; the line falls again if more are left.
Takes == out' = Tail(out) /\ edge' = (edge \/ Len(out) > 1)

\* The chip takes commands.
Up == mode \in {"default", "active", "sleep"}

-----------------------------------------------------------------------------
(* The chip, external.                                                     *)

\* It has started again and says what reset it.
chip_boots ==
  /\ mode \in {"booting", "rebooting"}
  /\ mode' = "default"
  /\ Posts(IF mode = "booting" THEN "ext_reset" ELSE "soft_reset")
  /\ UNCHANGED <<enable_resume_por, leaked, pc, locks, flags, vdd,
                 disabled, report, configured, ghosts>>

chip_touched ==
  /\ mode = "active" /\ configured
  /\ touches < MaxTouches
  /\ touches' = touches + 1
  /\ Posts("touch")
  /\ UNCHANGED <<enable_resume_por, leaked, pc, locks, flags, vdd,
                 disabled, report, mode, configured, suspends, faults, amiss>>

-----------------------------------------------------------------------------
(* The driver's own operations on the chip.                                *)

\* Variant: the soft settings are not sent after a reset.
reinit_chip_settings_active_only ==
  \E n \in 0 .. 1 :
    /\ Fails(n)
    /\ mode' = IF Up /\ n = 0 THEN "active" ELSE mode
    /\ UNCHANGED configured

\* reinit_chip_settings(): active mode, then the kind of touch report; either
\* command may fail, and a failure is only logged.
reinit_chip_settings ==
  \E active, extended \in BOOLEAN :
    /\ Fails((IF active THEN 0 ELSE 1) + (IF extended THEN 0 ELSE 1))
    /\ mode' = IF Up /\ active THEN "active" ELSE mode
    /\ configured' = (configured \/ (Up /\ extended))

\* Where reset_power() returns to in each thread.
Return(t) == IF t = "pm" THEN "enable" ELSE "unlock"

\* Its two operations on the reset line.  If either fails the reset is over.
reset_power_fails(t) ==
  /\ pc[t] \in {"assert", "release"}
  /\ Fails(1)
  /\ reset_sem' = reset_sem + 1
  /\ Goto(t, Return(t))
  /\ UNCHANGED <<enable_resume_por, leaked, i2c_mutex, flags, vdd, irq,
                 chip, suspends, touches, amiss>>

reset_power_asserts(t) ==
  /\ At(t, "assert")
  /\ Goto(t, "release")
  /\ mode' = "held" /\ configured' = FALSE /\ out' = <<>>
  /\ UNCHANGED <<enable_resume_por, leaked, locks, flags, vdd, irq, ghosts>>

\* Variant: the thread that reset the chip releases reset_sem itself.
reset_power_releases_early(t) ==
  /\ At(t, "release")
  /\ Goto(t, Return(t))
  /\ mode' = "booting"
  /\ reset_sem' = reset_sem + 1
  /\ UNCHANGED <<enable_resume_por, leaked, i2c_mutex, flags, vdd, irq,
                 configured, out, ghosts>>

\* From here on reset_sem is for the interrupt thread to release.
reset_power_releases(t) ==
  /\ At(t, "release")
  /\ Goto(t, Return(t))
  /\ mode' = "booting"
  /\ UNCHANGED <<enable_resume_por, leaked, locks, flags, vdd, irq,
                 configured, out, ghosts>>

\* down_timeout(&ts->reset_sem): it times out only while the count is zero.
Down(t, got, timeout) ==
  \/ /\ reset_sem > 0
     /\ reset_sem' = reset_sem - 1
     /\ Goto(t, got)
     /\ UNCHANGED amiss
  \/ /\ reset_sem = 0
     /\ Goto(t, timeout)
     /\ amiss' = amiss \union {"expired"}
     /\ UNCHANGED reset_sem

-----------------------------------------------------------------------------
(* The interrupt.                                                          *)

\* irq_handler_hard(): nothing if the line is up again; while the device
\* counts as suspended the interrupt is only noted.
irq_handler_hard ==
  /\ edge /\ disabled = 0 /\ Idle("irq")
  /\ edge' = FALSE
  /\ IF out # <<>> /\ ~pm_suspended THEN Goto("irq", "lock") ELSE UNCHANGED pc
  /\ IF out # <<>> /\ pm_suspended
     THEN irq_on_suspend' = TRUE /\ amiss' = amiss \union {"suspended"}
     ELSE UNCHANGED <<irq_on_suspend, amiss>>
  /\ UNCHANGED <<enable_resume_por, leaked, locks, is_suspended,
                 pm_suspended, vdd, disabled, report, chip, suspends, touches, faults>>

\* irq_handler_soft() takes i2c_mutex, and so does "por" once it has reset_sem.
locks_i2c(t, next) ==
  /\ At(t, "lock")
  /\ Lock(t)
  /\ Goto(t, next)
  /\ UNCHANGED <<enable_resume_por, leaked, reset_sem, flags, vdd, irq,
                 chip, ghosts>>

irq_handler_soft_reads ==
  /\ At("irq", "read")
  /\ out # <<>>
  /\ report' = Head(out)
  /\ Takes
  /\ Goto("irq", IF Head(out) = "touch" THEN "propagate" ELSE "process")
  /\ UNCHANGED <<enable_resume_por, leaked, locks, flags, vdd, disabled,
                 mode, configured, ghosts>>

\* The read fails, which is no fault when a reset has taken the report away;
\* then there may also be something to read that is no report.
irq_handler_soft_fails ==
  /\ At("irq", "read")
  /\ Fails(IF out = <<>> THEN 0 ELSE 1)
  /\ \/ Goto("irq", "down")
     \/ out = <<>> /\ Goto("irq", "unlock")
  /\ UNCHANGED <<enable_resume_por, leaked, locks, flags, vdd, irq, chip,
                 suspends, touches, amiss>>

\* Variant: it reads again instead of giving up.
irq_handler_soft_retries ==
  /\ At("irq", "down")
  /\ Down("irq", "assert", "read")
  /\ UNCHANGED <<enable_resume_por, leaked, i2c_mutex, flags, vdd, irq,
                 chip, suspends, touches, faults>>

\* A report that could not be read: reset the chip, or give up after a second.
irq_handler_soft_down ==
  /\ At("irq", "down")
  /\ Down("irq", "assert", "unlock")
  /\ UNCHANGED <<enable_resume_por, leaked, i2c_mutex, flags, vdd, irq,
                 chip, suspends, touches, faults>>

\* Variant: reset_sem is released after none.
process_report_never_ups ==
  /\ At("irq", "process")
  /\ reinit_chip_settings
  /\ Goto("irq", "propagate")
  /\ UNCHANGED <<enable_resume_por, leaked, locks, flags, vdd, irq,
                 out, suspends, touches, amiss>>

\* process_report() of a reset report: an external reset is over.
process_report ==
  /\ At("irq", "process")
  /\ reinit_chip_settings
  /\ reset_sem' = reset_sem + (IF report = "ext_reset" THEN 1 ELSE 0)
  /\ Goto("irq", "propagate")
  /\ UNCHANGED <<enable_resume_por, leaked, i2c_mutex, flags, vdd, irq,
                 out, suspends, touches, amiss>>

\* down(&ts->report_sem), with i2c_mutex held and however long it takes.  The
\* report answers a waiting sreset(), whichever reset it is of, and may be passed
\* to a reader who leaks it, unless userspace is frozen.
propagate_report ==
  /\ At("irq", "propagate")
  /\ ~leaked
  /\ leaked' \in {FALSE, Idle("pm")}
  /\ Goto("irq", "unlock")
  /\ UNCHANGED <<enable_resume_por, locks, flags, vdd, irq, chip, ghosts>>

\* The interrupt thread is done, and so is "por".
unlocks_i2c(t) ==
  /\ At(t, "unlock")
  /\ Unlock
  /\ Goto(t, "idle")
  /\ report' = IF t = "irq" THEN "none" ELSE report
  /\ UNCHANGED <<enable_resume_por, leaked, reset_sem, flags, vdd,
                 disabled, edge, chip, ghosts>>

-----------------------------------------------------------------------------
(* The sysfs entries.  Userspace is frozen while the device is suspended.  *)

power_on_reset_store ==
  /\ Idle("por") /\ Idle("pm")
  /\ Goto("por", "down")
  /\ UNCHANGED <<enable_resume_por, leaked, locks, flags, vdd, irq, chip, ghosts>>

power_on_reset_down ==
  /\ At("por", "down")
  /\ Down("por", "lock", "idle")
  /\ UNCHANGED <<enable_resume_por, leaked, i2c_mutex, flags, vdd, irq,
                 chip, suspends, touches, faults>>

sreset_store ==
  /\ Idle("sreset") /\ Idle("pm")
  /\ Goto("sreset", "send")
  /\ UNCHANGED <<enable_resume_por, leaked, locks, flags, vdd, irq, chip, ghosts>>

\* cmd_send() of RESET_SYSTEM.  A chip that was reset holds no reports.
sreset_sends ==
  /\ At("sreset", "send")
  /\ i2c_mutex = "free"
  /\ \/ /\ Up
        /\ mode' = "rebooting" /\ configured' = FALSE /\ out' = <<>>
        /\ amiss' = IF \E i \in DOMAIN out : out[i] = "ext_reset"
                   THEN amiss \union {"discarded"} ELSE amiss
        /\ Goto("sreset", "wait")
        /\ UNCHANGED faults
     \/ /\ Fails(IF Up THEN 1 ELSE 0)
        /\ Goto("sreset", "idle")
        /\ UNCHANGED <<chip, amiss>>
  /\ UNCHANGED <<enable_resume_por, leaked, locks, flags, vdd, irq,
                 suspends, touches>>

\* Answered, by its own report or by that of another reset, or the three seconds
\* are over: that may be at any time.
sreset_returns ==
  /\ At("sreset", "wait")
  /\ LET coming == \/ mode = "rebooting" \/ report = "soft_reset"
                   \/ \E i \in DOMAIN out : out[i] = "soft_reset"
     IN amiss' = IF coming THEN amiss \union {"early"} ELSE amiss
  /\ Goto("sreset", "idle")
  /\ UNCHANGED <<enable_resume_por, leaked, locks, flags, vdd, irq, chip,
                 suspends, touches, faults>>

-----------------------------------------------------------------------------
(* suspend(), with set_suspend_mode().                                     *)

\* The power management core suspends the device, userspace being frozen.
suspend ==
  /\ Idle("pm") /\ Idle("por") /\ Idle("sreset")
  /\ suspends < MaxSuspends
  /\ suspends' = suspends + 1
  /\ Goto("pm", IF is_suspended THEN "disable" ELSE "suspend")
  /\ UNCHANGED <<enable_resume_por, leaked, locks, flags, vdd, irq, chip,
                 touches, faults, amiss>>

\* Variant: it goes on when the wait for reset_sem has expired.
set_suspend_mode_goes_on ==
  /\ At("pm", "suspend")
  /\ Down("pm", "sleep", "sleep")
  /\ is_suspended' = TRUE
  /\ UNCHANGED <<enable_resume_por, leaked, i2c_mutex, pm_suspended,
                 irq_on_suspend, vdd, irq, chip, suspends, touches, faults>>

set_suspend_mode ==
  /\ At("pm", "suspend")
  /\ Down("pm", "sleep", "disable")
  /\ is_suspended' = (reset_sem > 0)
  /\ UNCHANGED <<enable_resume_por, leaked, i2c_mutex, pm_suspended,
                 irq_on_suspend, vdd, irq, chip, suspends, touches, faults>>

\* cmd_send() of the sleep mode; a failure is only logged.
set_suspend_mode_sends ==
  /\ At("pm", "sleep")
  /\ i2c_mutex = "free"
  /\ Goto("pm", "save")
  /\ \/ mode' = (IF Up THEN "sleep" ELSE mode) /\ UNCHANGED faults
     \/ Fails(1) /\ UNCHANGED mode
  /\ UNCHANGED <<enable_resume_por, leaked, locks, flags, vdd, irq,
                 configured, out, suspends, touches, amiss>>

\* vreg_suspend(), whose result is ignored, and up(&ts->reset_sem).
set_suspend_mode_saves ==
  /\ At("pm", "save")
  /\ \/ vdd' = "low" /\ UNCHANGED faults
     \/ Fails(1) /\ UNCHANGED vdd
  /\ reset_sem' = reset_sem + 1
  /\ Goto("pm", "disable")
  /\ UNCHANGED <<enable_resume_por, leaked, i2c_mutex, flags, irq, chip,
                 suspends, touches, amiss>>

\* Variant: set_resume_mode() does not disable the interrupt.
disable_irq_in_suspend_only(l, next) ==
  /\ At("pm", l)
  /\ disabled' = disabled + (IF l = "disable" THEN 1 ELSE 0)
  /\ Goto("pm", next)
  /\ UNCHANGED <<enable_resume_por, leaked, locks, flags, vdd, edge, report,
                 chip, ghosts>>

\* disable_irq() keeps the handler from running, then waits for its thread.
disable_irq(l, next) ==
  /\ At("pm", l)
  /\ disabled' = disabled + 1
  /\ Goto("pm", next)
  /\ UNCHANGED <<enable_resume_por, leaked, locks, flags, vdd, edge, report,
                 chip, ghosts>>

\* Variant: irq_on_suspend is not reset.
suspended_keeps_note ==
  /\ At("pm", "sync")
  /\ Idle("irq")
  /\ pm_suspended' = TRUE
  /\ Goto("pm", "asleep")
  /\ UNCHANGED <<enable_resume_por, leaked, locks, is_suspended,
                 irq_on_suspend, vdd, irq, chip, ghosts>>

suspended ==
  /\ At("pm", "sync")
  /\ Idle("irq")
  /\ irq_on_suspend' = FALSE
  /\ pm_suspended' = TRUE
  /\ Goto("pm", "asleep")
  /\ UNCHANGED <<enable_resume_por, leaked, locks, is_suspended, vdd, irq,
                 chip, ghosts>>

-----------------------------------------------------------------------------
(* resume(), with set_resume_mode().                                       *)

\* Its branch for irq_on_suspend is left out: the flag is never set here, as
\* NothingNoted states.
resume ==
  /\ At("pm", "asleep")
  /\ disabled' = disabled - 1
  /\ Goto("pm", IF is_suspended THEN "resume" ELSE "resumed")
  /\ UNCHANGED <<enable_resume_por, leaked, locks, flags, vdd, edge, report,
                 chip, ghosts>>

set_resume_mode ==
  /\ At("pm", "resume")
  /\ Down("pm", IF enable_resume_por THEN "redisable" ELSE "reinit", "resumed")
  /\ \/ vdd' = (IF reset_sem > 0 THEN "high" ELSE vdd) /\ UNCHANGED faults
     \/ reset_sem > 0 /\ Fails(1) /\ UNCHANGED vdd
  /\ UNCHANGED <<enable_resume_por, leaked, i2c_mutex, flags, irq, chip,
                 suspends, touches>>

set_resume_mode_resets ==
  /\ At("pm", "resync")
  /\ Idle("irq")
  /\ Goto("pm", "assert")
  /\ UNCHANGED <<enable_resume_por, leaked, locks, flags, vdd, irq, chip, ghosts>>

set_resume_mode_enables ==
  /\ At("pm", "enable")
  /\ disabled' = disabled - 1
  /\ is_suspended' = FALSE
  /\ Goto("pm", "resumed")
  /\ UNCHANGED <<enable_resume_por, leaked, locks, pm_suspended,
                 irq_on_suspend, vdd, edge, report, chip, ghosts>>

\* Without a reset: the settings, under i2c_mutex, and up(&ts->reset_sem).
set_resume_mode_reinits ==
  /\ At("pm", "reinit")
  /\ i2c_mutex = "free"
  /\ reinit_chip_settings
  /\ is_suspended' = FALSE
  /\ reset_sem' = reset_sem + 1
  /\ Goto("pm", "resumed")
  /\ UNCHANGED <<enable_resume_por, leaked, i2c_mutex, pm_suspended,
                 irq_on_suspend, vdd, irq, out, suspends, touches, amiss>>

resumed ==
  /\ At("pm", "resumed")
  /\ pm_suspended' = FALSE
  /\ Goto("pm", "idle")
  /\ UNCHANGED <<enable_resume_por, leaked, locks, is_suspended,
                 irq_on_suspend, vdd, irq, chip, ghosts>>

-----------------------------------------------------------------------------

\* After a probe that went well.
Init ==
  /\ enable_resume_por \in Pors
  /\ pc = [t \in Threads |-> "idle"]
  /\ reset_sem = 1 /\ i2c_mutex = "free" /\ leaked = FALSE
  /\ is_suspended = FALSE /\ pm_suspended = FALSE /\ irq_on_suspend = FALSE
  /\ vdd = "high"
  /\ disabled = 0 /\ edge = FALSE /\ report = "none"
  /\ mode = "active" /\ configured = TRUE /\ out = <<>>
  /\ suspends = 0 /\ touches = 0 /\ faults = 0 /\ amiss = {}

reset_power(t) ==
  reset_power_fails(t) \/ reset_power_asserts(t) \/ reset_power_releases(t)

IrqThread ==
  \/ locks_i2c("irq", "read")
  \/ irq_handler_soft_reads \/ irq_handler_soft_fails \/ irq_handler_soft_down
  \/ process_report \/ propagate_report
  \/ reset_power("irq") \/ unlocks_i2c("irq")

Por ==
  \/ power_on_reset_down \/ locks_i2c("por", "assert")
  \/ reset_power("por") \/ unlocks_i2c("por")

Sreset == sreset_sends \/ sreset_returns

Pm ==
  \/ set_suspend_mode \/ set_suspend_mode_sends \/ set_suspend_mode_saves
  \/ disable_irq("disable", "sync") \/ suspended
  \/ set_resume_mode \/ disable_irq("redisable", "resync")
  \/ set_resume_mode_resets \/ reset_power("pm") \/ set_resume_mode_enables
  \/ set_resume_mode_reinits \/ resumed

Next ==
  \/ chip_boots \/ chip_touched
  \/ irq_handler_hard \/ IrqThread
  \/ power_on_reset_store \/ Por
  \/ sreset_store \/ Sreset
  \/ suspend \/ resume \/ Pm

Spec == Init /\ [][Next]_vars

\* A runnable thread runs, timers expire, i2c_mutex hands over to a waiter
\* that has been overtaken, and a reader with report_sem that has not leaked
\* runs on to release_report().  The chip need not answer, the system not wake
\* up, and a leaked report_sem never comes back.
FairSpec ==
  /\ Spec
  /\ WF_vars(irq_handler_hard)
  /\ SF_vars(IrqThread) /\ SF_vars(Por) /\ SF_vars(Sreset) /\ SF_vars(Pm)

-----------------------------------------------------------------------------
(* Properties.                                                             *)

Reports == {"ext_reset", "soft_reset", "touch"}

TypeOK ==
  /\ enable_resume_por \in Pors
  /\ pc \in [Threads ->
              {"idle", "lock", "read", "down", "process", "propagate", "unlock",
               "assert", "release", "send", "wait", "suspend", "sleep", "save",
               "disable", "sync", "asleep", "resume", "redisable", "resync",
               "enable", "reinit", "resumed"}]
  /\ reset_sem \in Nat
  /\ leaked \in BOOLEAN
  /\ i2c_mutex \in Threads \union {"free"}
  /\ is_suspended \in BOOLEAN /\ pm_suspended \in BOOLEAN /\ irq_on_suspend \in BOOLEAN
  /\ vdd \in {"high", "low"}
  /\ disabled \in Nat /\ edge \in BOOLEAN
  /\ report \in Reports \union {"none"}
  /\ mode \in {"default", "active", "sleep", "held", "booting", "rebooting"}
  /\ configured \in BOOLEAN
  /\ out \in Seq(Reports)
  /\ suspends \in 0 .. MaxSuspends /\ touches \in 0 .. MaxTouches
  /\ faults \in 0 .. MaxFaults
  /\ amiss \subseteq {"suspended", "discarded", "early", "expired"}

\* The threads between down_timeout(&ts->reset_sem) and the end of their part.
Has(t) ==
  \/ pc[t] \in {"assert", "release", "sleep", "save", "redisable", "resync", "reinit"}
  \/ t = "por" /\ pc[t] = "lock"

\* An external reset the interrupt thread has yet to see the end of.
InFlight ==
  \/ mode = "booting"
  \/ \E i \in DOMAIN out : out[i] = "ext_reset"
  \/ At("irq", "process") /\ report = "ext_reset"

\* One reset, suspend or resume at a time: reset_sem is free, or one thread
\* has it, or one reset is under way; it is released once, though it is taken
\* by one thread and released by another (:840, :976, :2575, :2607).
OneReset ==
  /\ reset_sem <= 1
  /\ reset_sem = 1 => ~InFlight /\ \A t \in Threads : ~Has(t)
  /\ \A t, u \in Threads : Has(t) /\ Has(u) => t = u
  /\ \A t \in Threads : Has(t) => ~InFlight

\* And it does not get lost: not free means taken or under way, unless a soft
\* reset made the chip forget that it was reset before.
ResetSemKept ==
  "discarded" \notin amiss =>
    reset_sem = 1 \/ InFlight \/ \E t \in Threads : Has(t)

\* The semaphore is one permit, neither doubled nor lost, and every variable
\* keeps its type.
ResetSound == TypeOK /\ OneReset /\ ResetSemKept

\* Nobody is in the driver, and no interrupt is to come.
Settled ==
  /\ \A t \in Threads : Idle(t)
  /\ ~edge /\ mode \notin {"booting", "rebooting"}

\* Whenever the device is awake and at rest the chip has its settings again,
\* whoever reset it and however often, and no report waits in it unseen,
\* unless an operation failed, an interrupt was dropped, or a sreset() was over
\* before its own reset (it takes the report of another for its own).
Working ==
  Settled /\ faults = 0 /\ amiss \intersect {"suspended", "early"} = {} =>
    mode = "active" /\ configured /\ out = <<>> /\ vdd = "high" /\ ~is_suspended

\* While the system is asleep the chip is, and its supply is in low power
\* mode: nothing the interrupt thread still did has woken it up again, unless
\* a sreset() was over before its own reset.
Sleeping ==
  At("pm", "asleep") /\ is_suspended /\ faults = 0 /\ "early" \notin amiss =>
    mode = "sleep" /\ vdd = "low"

\* The chip is as the system is, on either side of a suspend.
ChipFollows == Working /\ Sleeping

\* Why irq_on_suspend is never seen by resume() and suspend_noirq() (:2664,
\* :2712): the interrupt is disabled before the flag is reset and until after
\* it is looked at.
NothingNoted == At("pm", "asleep") => ~irq_on_suspend


\* suspend() and resume() return, with a chip that is silent too, whatever
\* resets are under way: nobody keeps reset_sem or i2c_mutex from them for
\* ever; unless a reader has leaked report_sem (:1272).  Then the next
\* report has the interrupt thread wait in propagate_report() (:2464), with
\* i2c_mutex held, and cmd_send() in suspend() (:2566) or the settings in
\* resume() (:2599) wait for it.
CallsReturn ==
  ~Idle("pm") /\ ~At("pm", "asleep")
    ~> Idle("pm") \/ At("pm", "asleep") \/ leaked

=============================================================================
