------------------------- MODULE Max1187xPowerProofs -------------------------
(***************************************************************************)
(* reset_sem of the touch driver is a permit that is in exactly one place, *)
(* and the chip is as the system is on either side of a suspend, for any   *)
(* number of suspends, touches and failed operations.                      *)
(***************************************************************************)
EXTENDS Max1187xPower, TLAPS

\* The interrupt is disabled by suspend() and, for a reset, by resume().
DisabledOnce ==
  disabled = IF pc["pm"] \in {"sync", "asleep", "resync", "assert", "release", "enable"}
             THEN 1 ELSE 0

Labels ==
  {"idle", "lock", "read", "down", "process", "propagate", "unlock", "assert", "release",
   "send", "wait", "suspend", "sleep", "save", "disable", "sync", "asleep", "resume",
   "redisable", "resync", "enable", "reinit", "resumed"}

TypeInv == TypeOK /\ DisabledOnce

-----------------------------------------------------------------------------
(* Types.                                                                  *)

\* The settings leave a chip that takes no commands as it is.
LEMMA ReinitTypes ==
  ASSUME TypeOK, reinit_chip_settings
  PROVE  /\ mode' \in {"default", "active", "sleep", "held", "booting", "rebooting"}
         /\ configured' \in BOOLEAN
         /\ faults' \in 0 .. MaxFaults
         /\ mode' # mode => Up /\ mode' = "active"
BY ConstAssumption DEF TypeOK, reinit_chip_settings, Fails

\* down_timeout() gets a permit or leaves none.
LEMMA DownTakes ==
  ASSUME TypeOK, NEW t \in Threads, NEW got, NEW timeout, Down(t, got, timeout)
  PROVE  \/ reset_sem > 0 /\ reset_sem' = reset_sem - 1 /\ Goto(t, got) /\ amiss' = amiss
         \/ reset_sem = 0 /\ reset_sem' = 0 /\ Goto(t, timeout)
            /\ amiss' = amiss \union {"expired"}
BY DEF TypeOK, Down

\* Its effect on the types.
LEMMA DownTypes ==
  ASSUME TypeOK, NEW t \in Threads, NEW got, NEW timeout, Down(t, got, timeout)
  PROVE  reset_sem' \in Nat /\ amiss' \subseteq {"suspended", "discarded", "early", "expired"}
<1>1. reset_sem' \in Nat
  BY DownTakes DEF TypeOK
<1>2. amiss' \subseteq {"suspended", "discarded", "early", "expired"}
  BY DownTakes DEF TypeOK
<1> QED BY <1>1, <1>2

\* reset_power() keeps the types.
LEMMA TypeReset ==
  ASSUME TypeInv, NEW t \in {"irq", "por", "pm"}, reset_power(t) PROVE TypeOK'
<1> USE ConstAssumption DEF TypeInv, TypeOK, DisabledOnce, Goto, At, Fails, Threads, Reports,
        locks, flags, irq, chip, ghosts
<1>1. CASE reset_power_fails(t)
  BY <1>1 DEF reset_power_fails, Return
<1>2. CASE reset_power_asserts(t)
  <2>1. pc' \in [Threads -> Labels]
    BY <1>2 DEF Labels, reset_power_asserts
  <2>2. configured' \in BOOLEAN /\ mode' = "held"
    BY <1>2 DEF reset_power_asserts
  <2>3. out' \in Seq(Reports)
    BY <1>2 DEF reset_power_asserts
  <2>4. UNCHANGED <<enable_resume_por, leaked, locks, flags, vdd, irq, ghosts>>
    BY <1>2 DEF reset_power_asserts
  <2> QED BY <2>1, <2>2, <2>3, <2>4 DEF Labels
<1>3. CASE reset_power_releases(t)
  BY <1>3 DEF reset_power_releases, Return
<1> QED BY <1>1, <1>2, <1>3 DEF reset_power

\* Every step keeps the types.
LEMMA TypeStep == ASSUME TypeInv, [Next]_vars PROVE TypeOK'
<1> USE ConstAssumption DEF TypeInv, TypeOK, DisabledOnce, Goto, At, Idle, Fails, Lock, Unlock,
        Threads, Reports, locks, flags, irq, chip, ghosts
<1>1. CASE chip_boots
  BY <1>1 DEF chip_boots, Posts
<1>2. CASE chip_touched
  BY <1>2 DEF chip_touched, Posts
<1>3. CASE irq_handler_hard
  <2>1. pc' \in [Threads -> Labels]
    BY <1>3 DEF Labels, irq_handler_hard
  <2>2. edge' \in BOOLEAN
    BY <1>3 DEF irq_handler_hard
  <2>3. irq_on_suspend' \in BOOLEAN
    BY <1>3 DEF irq_handler_hard
  <2>4. amiss' \subseteq {"suspended", "discarded", "early", "expired"}
    BY <1>3 DEF irq_handler_hard
  <2>5. UNCHANGED <<enable_resume_por, leaked, locks, is_suspended, pm_suspended, vdd,
                     disabled, report, chip, suspends, touches, faults>>
    BY <1>3 DEF irq_handler_hard
  <2> QED BY <2>1, <2>2, <2>3, <2>4, <2>5 DEF Labels
<1>4. CASE locks_i2c("irq", "read")
  BY <1>4 DEF locks_i2c
<1>5. CASE irq_handler_soft_reads
  BY <1>5 DEF irq_handler_soft_reads, Takes
<1>6. CASE irq_handler_soft_fails
  BY <1>6 DEF irq_handler_soft_fails
<1>7. CASE irq_handler_soft_down
  BY <1>7, DownTakes, DownTypes DEF irq_handler_soft_down
<1>8. CASE process_report
  BY <1>8, ReinitTypes DEF process_report
<1>9. CASE propagate_report
  <2>1. leaked' \in BOOLEAN
    BY <1>9 DEF propagate_report
  <2>2. pc' \in [Threads -> Labels]
    BY <1>9 DEF Labels, propagate_report
  <2>3. UNCHANGED <<enable_resume_por, locks, flags, vdd, irq, chip, ghosts>>
    BY <1>9 DEF propagate_report
  <2> QED BY <2>1, <2>2, <2>3 DEF Labels
<1>10. CASE unlocks_i2c("irq")
  BY <1>10 DEF unlocks_i2c
<1>11. CASE power_on_reset_store
  BY <1>11 DEF power_on_reset_store
<1>12. CASE power_on_reset_down
  BY <1>12, DownTakes, DownTypes DEF power_on_reset_down
<1>13. CASE locks_i2c("por", "assert")
  BY <1>13 DEF locks_i2c
<1>14. CASE unlocks_i2c("por")
  BY <1>14 DEF unlocks_i2c
<1>15. CASE sreset_store
  <2>1. pc' \in [Threads -> Labels]
    BY <1>15 DEF Labels, sreset_store
  <2>2. UNCHANGED <<enable_resume_por, leaked, locks, flags, vdd, irq, chip, ghosts>>
    BY <1>15 DEF sreset_store
  <2> QED BY <2>1, <2>2 DEF Labels
<1>16. CASE sreset_sends
  <2>1. pc' \in [Threads -> Labels]
    BY <1>16 DEF Labels, sreset_sends
  <2>2. configured' \in BOOLEAN
    BY <1>16 DEF sreset_sends
  <2>3. mode' \in {"default", "active", "sleep", "held", "booting", "rebooting"}
    BY <1>16 DEF sreset_sends
  <2>4. out' \in Seq(Reports)
    <3>1. CASE out' = <<>>
      BY <3>1
    <3>2. CASE out' = out
      BY <3>2
    <3> QED BY <1>16, <3>1, <3>2, Zenon DEF sreset_sends
  <2>5. amiss' \subseteq {"suspended", "discarded", "early", "expired"}
    BY <1>16 DEF sreset_sends
  <2>6. faults' \in 0 .. MaxFaults
    BY <1>16 DEF sreset_sends
  <2>7. UNCHANGED <<enable_resume_por, leaked, locks, flags, vdd, irq, suspends, touches>>
    BY <1>16 DEF sreset_sends
  <2> QED BY <2>1, <2>2, <2>3, <2>4, <2>5, <2>6, <2>7 DEF Labels
<1>17. CASE sreset_returns
  BY <1>17 DEF sreset_returns
<1>18. CASE suspend
  BY <1>18 DEF suspend
<1>19. CASE resume
  BY <1>19 DEF resume
<1>20. CASE set_suspend_mode
  BY <1>20, DownTakes, DownTypes DEF set_suspend_mode
<1>21. CASE set_suspend_mode_sends
  BY <1>21 DEF set_suspend_mode_sends
<1>22. CASE set_suspend_mode_saves
  BY <1>22 DEF set_suspend_mode_saves
<1>23. CASE disable_irq("disable", "sync")
  BY <1>23 DEF disable_irq
<1>24. CASE suspended
  <2>1. pc' \in [Threads -> Labels]
    BY <1>24 DEF Labels, suspended
  <2>2. irq_on_suspend' \in BOOLEAN /\ pm_suspended' \in BOOLEAN
    BY <1>24 DEF suspended
   <2>3. UNCHANGED <<enable_resume_por, leaked, locks, is_suspended, vdd, irq, chip,
       ghosts>>
    BY <1>24 DEF suspended
  <2> QED BY <2>1, <2>2, <2>3 DEF Labels
<1>25. CASE set_resume_mode
  BY <1>25, DownTakes, DownTypes DEF set_resume_mode
<1>26. CASE disable_irq("redisable", "resync")
  BY <1>26 DEF disable_irq
<1>27. CASE set_resume_mode_resets
  BY <1>27 DEF set_resume_mode_resets
<1>28. CASE set_resume_mode_enables
  <2>1. pc' \in [Threads -> Labels]
    BY <1>28 DEF Labels, set_resume_mode_enables
  <2>2. is_suspended' \in BOOLEAN
    BY <1>28 DEF set_resume_mode_enables
  <2>3. disabled' \in Nat
    BY <1>28 DEF set_resume_mode_enables
  <2>4. UNCHANGED <<enable_resume_por, leaked, locks, pm_suspended, irq_on_suspend, vdd,
                     edge, report, chip, ghosts>>
    BY <1>28 DEF set_resume_mode_enables
  <2> QED BY <2>1, <2>2, <2>3, <2>4 DEF Labels
<1>29. CASE set_resume_mode_reinits
  <2>1. pc' \in [Threads -> Labels]
    BY <1>29 DEF Labels, set_resume_mode_reinits
  <2>2. is_suspended' \in BOOLEAN
    BY <1>29 DEF set_resume_mode_reinits
  <2>3. reset_sem' \in Nat
    BY <1>29 DEF set_resume_mode_reinits
  <2>4. reinit_chip_settings
    BY <1>29 DEF set_resume_mode_reinits
   <2>5. UNCHANGED <<enable_resume_por, leaked, i2c_mutex, pm_suspended, irq_on_suspend,
       vdd,
                     irq, out, suspends, touches, amiss>>
    BY <1>29 DEF set_resume_mode_reinits
  <2> QED BY <2>1, <2>2, <2>3, <2>4, <2>5, ReinitTypes DEF Labels
<1>30. CASE resumed
  <2>1. pc' \in [Threads -> Labels]
    BY <1>30 DEF Labels, resumed
  <2>2. pm_suspended' \in BOOLEAN
    BY <1>30 DEF resumed
  <2>3. UNCHANGED <<enable_resume_por, leaked, locks, is_suspended, irq_on_suspend, vdd,
                     irq, chip, ghosts>>
    BY <1>30 DEF resumed
  <2> QED BY <2>1, <2>2, <2>3 DEF Labels
<1>31. CASE UNCHANGED vars
  BY <1>31 DEF vars
<1>32. CASE \E t \in {"irq", "por", "pm"} : reset_power(t)
  BY <1>32, TypeReset
<1> QED BY <1>1, <1>2, <1>3, <1>4, <1>5, <1>6, <1>7, <1>8, <1>9, <1>10, <1>11, <1>12, <1>13,
     <1>14, <1>15, <1>16, <1>17, <1>18, <1>19, <1>20, <1>21, <1>22, <1>23, <1>24, <1>25, <1>26,
     <1>27, <1>28, <1>29, <1>30, <1>31, <1>32
   DEF Next, IrqThread, Por, Sreset, Pm

-----------------------------------------------------------------------------
(* The permit.                                                             *)

Held == \E i \in DOMAIN out : out[i] = "ext_reset"
HeldOnce ==
  \A i, j \in DOMAIN out : out[i] = "ext_reset" /\ out[j] = "ext_reset" => i = j
Processing == At("irq", "process") /\ report = "ext_reset"

\* The permit is in one place: the semaphore, a thread, or a reset under way,
\* which is in the chip, in one of its reports, or with the interrupt thread.
Permit ==
  /\ OneReset
  /\ ResetSemKept
  /\ mode = "booting" => ~Held /\ ~Processing
  /\ Processing => ~Held
  /\ HeldOnce

\* A report that is posted, or taken.
LEMMA PostsHeld ==
  ASSUME out \in Seq(Reports), NEW r \in Reports, out' = Append(out, r), HeldOnce
  PROVE  /\ Held' <=> Held \/ r = "ext_reset"
         /\ ~Held \/ r # "ext_reset" => HeldOnce'
<1>1. /\ Len(out') = Len(out) + 1 /\ Len(out) \in Nat
      /\ DOMAIN out = 1 .. Len(out) /\ DOMAIN out' = 1 .. Len(out')
      /\ \A i \in 1 .. Len(out) : out'[i] = out[i]
      /\ out'[Len(out) + 1] = r
  BY DEF Reports
<1>2. \A i \in DOMAIN out' : i \in DOMAIN out \/ i = Len(out) + 1
  BY <1>1
<1>3. \A i \in DOMAIN out : i \in DOMAIN out' /\ out'[i] = out[i]
  BY <1>1
<1>4. Len(out) + 1 \in DOMAIN out'
  BY <1>1
<1> QED BY <1>1, <1>2, <1>3, <1>4 DEF Held, HeldOnce

\* Taking the oldest report takes at most one report of an external reset.
LEMMA TakesHeld ==
  ASSUME out \in Seq(Reports), out # <<>>, out' = Tail(out), HeldOnce
  PROVE  /\ Held <=> Held' \/ Head(out) = "ext_reset"
         /\ Head(out) = "ext_reset" => ~Held'
         /\ HeldOnce' /\ Head(out) \in Reports
<1>1. /\ Len(out) \in Nat \ {0} /\ Len(out') = Len(out) - 1
      /\ DOMAIN out = 1 .. Len(out) /\ DOMAIN out' = 1 .. Len(out')
      /\ \A i \in 1 .. Len(out') : out'[i] = out[i + 1]
      /\ Head(out) = out[1] /\ out[1] \in Reports
  OBVIOUS
<1>2. \A i \in DOMAIN out' : i + 1 \in DOMAIN out /\ out'[i] = out[i + 1] /\ i + 1 # 1
  BY <1>1
<1>3. \A i \in DOMAIN out : i = 1 \/ (i - 1 \in DOMAIN out' /\ out'[i - 1] = out[i])
  BY <1>1
<1>4. 1 \in DOMAIN out
  BY <1>1
<1>5. HeldOnce'
  <2> SUFFICES ASSUME NEW i \in DOMAIN out', NEW j \in DOMAIN out',
                      out'[i] = "ext_reset", out'[j] = "ext_reset"
               PROVE  i = j
    BY DEF HeldOnce
  <2>1. i + 1 = j + 1
    BY <1>2 DEF HeldOnce
  <2> QED BY <1>1, <2>1
<1>6. Head(out) = "ext_reset" => ~Held'
  BY <1>1, <1>2, <1>4 DEF Held, HeldOnce
<1>7. Held <=> Held' \/ Head(out) = "ext_reset"
  BY <1>1, <1>2, <1>3, <1>4 DEF Held
<1> QED BY <1>1, <1>5, <1>6, <1>7

\* disable_irq() and enable_irq() are paired.
LEMMA DisabledStep == ASSUME TypeInv, [Next]_vars PROVE DisabledOnce'
<1> USE DEF TypeInv, TypeOK, DisabledOnce, Goto, At, Idle, Threads, irq
<1>1. CASE irq_handler_hard
  BY <1>1 DEF irq_handler_hard
<1>2. CASE locks_i2c("irq", "read")
  BY <1>2 DEF locks_i2c
<1>3. CASE irq_handler_soft_fails
  BY <1>3 DEF irq_handler_soft_fails
<1>4. CASE irq_handler_soft_down
  BY <1>4, DownTakes DEF irq_handler_soft_down
<1>5. CASE process_report
  BY <1>5, ReinitTypes DEF process_report
<1>6. CASE propagate_report
  BY <1>6 DEF propagate_report
<1>7. CASE unlocks_i2c("irq")
  BY <1>7 DEF unlocks_i2c
<1>8. CASE power_on_reset_store
  BY <1>8 DEF power_on_reset_store
<1>9. CASE power_on_reset_down
  BY <1>9, DownTakes DEF power_on_reset_down
<1>10. CASE locks_i2c("por", "assert")
  BY <1>10 DEF locks_i2c
<1>11. CASE unlocks_i2c("por")
  BY <1>11 DEF unlocks_i2c
<1>12. CASE sreset_store
  BY <1>12 DEF sreset_store
<1>13. CASE sreset_returns
  BY <1>13 DEF sreset_returns
<1>14. CASE suspend
  BY <1>14 DEF suspend
<1>15. CASE resume
  BY <1>15 DEF resume
<1>16. CASE set_suspend_mode
  BY <1>16, DownTakes DEF set_suspend_mode
<1>17. CASE set_suspend_mode_sends
  BY <1>17 DEF set_suspend_mode_sends
<1>18. CASE set_suspend_mode_saves
  BY <1>18 DEF set_suspend_mode_saves
<1>19. CASE disable_irq("disable", "sync")
  BY <1>19 DEF disable_irq
<1>20. CASE suspended
  BY <1>20 DEF suspended
<1>21. CASE set_resume_mode
  BY <1>21, DownTakes DEF set_resume_mode
<1>22. CASE disable_irq("redisable", "resync")
  BY <1>22 DEF disable_irq
<1>23. CASE set_resume_mode_resets
  BY <1>23 DEF set_resume_mode_resets
<1>24. CASE set_resume_mode_enables
  BY <1>24 DEF set_resume_mode_enables
<1>25. CASE set_resume_mode_reinits
  BY <1>25, ReinitTypes DEF set_resume_mode_reinits
<1>26. CASE resumed
  BY <1>26 DEF resumed
<1>27. CASE UNCHANGED vars
  BY <1>27 DEF vars
<1>28. CASE chip_boots
  BY <1>28 DEF chip_boots
<1>29. CASE chip_touched
  BY <1>29 DEF chip_touched
<1>30. CASE irq_handler_soft_reads
  BY <1>30 DEF irq_handler_soft_reads
<1>31. CASE sreset_sends
  BY <1>31 DEF sreset_sends
<1>32. CASE \E t \in {"irq", "por", "pm"} : reset_power(t)
  BY <1>32 DEF reset_power, reset_power_fails, reset_power_asserts, reset_power_releases, Return
<1> QED BY <1>1, <1>2, <1>3, <1>4, <1>5, <1>6, <1>7, <1>8, <1>9, <1>10, <1>11, <1>12, <1>13,
     <1>14, <1>15, <1>16, <1>17, <1>18, <1>19, <1>20, <1>21, <1>22, <1>23, <1>24, <1>25, <1>26,
     <1>27, <1>28, <1>29, <1>30, <1>31, <1>32
   DEF Next, IrqThread, Por, Sreset, Pm

\* The steps that post, take or drop a report, or end a reset.
LEMMA ReportStep ==
  ASSUME TypeInv, Permit,
         chip_boots \/ chip_touched \/ irq_handler_soft_reads \/ sreset_sends \/ process_report
  PROVE  Permit'
<1>1. /\ InFlight <=> mode = "booting" \/ Held \/ Processing
      /\ InFlight' <=> mode' = "booting" \/ Held' \/ Processing'
  BY DEF InFlight, Held, Processing
<1>2. HeldOnce /\ out \in Seq(Reports)
  BY DEF Permit, TypeInv, TypeOK
<1> USE DEF Permit, OneReset, ResetSemKept
<1>3. CASE chip_boots
  <2> DEFINE r == IF mode = "booting" THEN "ext_reset" ELSE "soft_reset"
  <2>1. r \in Reports /\ out' = Append(out, r) /\ mode' = "default"
        /\ UNCHANGED <<pc, reset_sem, report, amiss>>
    BY <1>3 DEF chip_boots, Posts, Reports, locks, ghosts
  <2>2. /\ Held' <=> Held \/ mode = "booting"
        /\ HeldOnce'
    BY <1>2, <2>1, PostsHeld
  <2>3. Processing' <=> Processing
    BY <2>1 DEF Processing, At
  <2>4. \A t \in Threads : Has(t)' <=> Has(t)
    BY <2>1 DEF Has
  <2> QED BY <1>1, <2>1, <2>2, <2>3, <2>4
<1>4. CASE chip_touched
  <2>1. "touch" \in Reports /\ out' = Append(out, "touch")
        /\ UNCHANGED <<pc, mode, reset_sem, report, amiss>>
    BY <1>4 DEF chip_touched, Posts, Reports, locks
  <2>2. (Held' <=> Held) /\ HeldOnce'
    BY <1>2, <2>1, PostsHeld
  <2>3. Processing' <=> Processing
    BY <2>1 DEF Processing, At
  <2>4. \A t \in Threads : Has(t)' <=> Has(t)
    BY <2>1 DEF Has
  <2> QED BY <1>1, <2>1, <2>2, <2>3, <2>4
<1>5. CASE irq_handler_soft_reads
  <2>1. /\ out # <<>> /\ out' = Tail(out) /\ report' = Head(out) /\ At("irq", "read")
        /\ Goto("irq", IF Head(out) = "touch" THEN "propagate" ELSE "process")
        /\ UNCHANGED <<mode, reset_sem, amiss>>
    BY <1>5 DEF irq_handler_soft_reads, Takes, locks, ghosts
  <2>2. /\ Held <=> Held' \/ Head(out) = "ext_reset"
        /\ Head(out) = "ext_reset" => ~Held'
        /\ HeldOnce' /\ Head(out) \in Reports
    BY <1>2, <2>1, TakesHeld
  <2>3. ~Processing /\ (Processing' <=> Head(out) = "ext_reset")
    BY <2>1, <2>2 DEF Processing, At, Goto, TypeInv, TypeOK, Threads, Reports
  <2>4. \A t \in Threads : Has(t)' <=> Has(t)
    BY <2>1 DEF Has, At, Goto, TypeInv, TypeOK, Threads
  <2> QED BY <1>1, <2>1, <2>2, <2>3, <2>4
<1>6. CASE sreset_sends
  <2>1. \/ /\ Up /\ mode' = "rebooting" /\ out' = <<>>
           /\ amiss' = IF Held THEN amiss \union {"discarded"} ELSE amiss
        \/ UNCHANGED <<mode, out, amiss>>
    BY <1>6 DEF sreset_sends, Held, chip
  <2>2. /\ UNCHANGED <<reset_sem, report>>
        /\ At("sreset", "send") /\ (Goto("sreset", "wait") \/ Goto("sreset", "idle"))
    BY <1>6 DEF sreset_sends, locks, irq
  <2>3. Processing' <=> Processing
    BY <2>2 DEF Processing, At, Goto, TypeInv, TypeOK, Threads
  <2>4. \A t \in Threads : Has(t)' <=> Has(t)
    BY <2>2 DEF Has, At, Goto, TypeInv, TypeOK, Threads
  <2>5. CASE mode' = "rebooting" /\ out' = <<>> /\ Up
             /\ amiss' = IF Held THEN amiss \union {"discarded"} ELSE amiss
    <3>1. ~Held' /\ HeldOnce' /\ mode # "booting"
      BY <2>5 DEF Held, HeldOnce, Up
    <3> QED BY <1>1, <2>2, <2>3, <2>4, <2>5, <3>1
  <2>6. CASE UNCHANGED <<mode, out, amiss>>
    <3>1. (Held' <=> Held) /\ HeldOnce'
      BY <1>2, <2>6 DEF Held, HeldOnce
    <3> QED BY <1>1, <2>2, <2>3, <2>4, <2>6, <3>1
  <2> QED BY <2>1, <2>5, <2>6
<1>7. CASE process_report
  <2>1. /\ At("irq", "process") /\ Goto("irq", "propagate")
        /\ reset_sem' = reset_sem + (IF report = "ext_reset" THEN 1 ELSE 0)
        /\ UNCHANGED <<out, report, amiss>>
        /\ (mode' = "booting" <=> mode = "booting")
    BY <1>7, ReinitTypes DEF process_report, irq, TypeInv, Up
  <2>2. (Held' <=> Held) /\ HeldOnce'
    BY <1>2, <2>1 DEF Held, HeldOnce
  <2>3. ~Processing' /\ (Processing <=> report = "ext_reset")
    BY <2>1 DEF Processing, At, Goto, TypeInv, TypeOK, Threads
  <2>4. \A t \in Threads : Has(t)' <=> Has(t)
    BY <2>1 DEF Has, At, Goto, TypeInv, TypeOK, Threads
  <2>5. reset_sem \in Nat
    BY DEF TypeInv, TypeOK
  <2>6. CASE report = "ext_reset"
    <3>1. reset_sem = 0
      BY <1>1, <2>3, <2>5, <2>6
    <3> QED BY <1>1, <2>1, <2>2, <2>3, <2>4, <2>6, <3>1
  <2>7. CASE report # "ext_reset"
    BY <1>1, <2>1, <2>2, <2>3, <2>4, <2>5, <2>7
  <2> QED BY <2>6, <2>7
<1> QED BY <1>3, <1>4, <1>5, <1>6, <1>7

\* Every step leaves the permit in one place.
LEMMA PermitStep == ASSUME TypeInv, Permit, [Next]_vars PROVE Permit'
<1> USE DEF TypeInv, TypeOK, Permit, OneReset, ResetSemKept, InFlight, Has, Held, HeldOnce,
        Processing, Goto, At, Idle, Threads, irq, chip, locks, ghosts
<1>1. CASE irq_handler_hard
  BY <1>1 DEF irq_handler_hard
<1>2. CASE locks_i2c("irq", "read")
  BY <1>2 DEF locks_i2c
<1>3. CASE irq_handler_soft_fails
  BY <1>3 DEF irq_handler_soft_fails
<1>4. CASE irq_handler_soft_down
  BY <1>4, DownTakes DEF irq_handler_soft_down
<1>5. CASE propagate_report
  BY <1>5 DEF propagate_report
<1>6. CASE unlocks_i2c("irq")
  BY <1>6 DEF unlocks_i2c
<1>7. CASE power_on_reset_store
  BY <1>7 DEF power_on_reset_store
<1>8. CASE power_on_reset_down
  BY <1>8, DownTakes DEF power_on_reset_down
<1>9. CASE locks_i2c("por", "assert")
  BY <1>9 DEF locks_i2c
<1>10. CASE unlocks_i2c("por")
  BY <1>10 DEF unlocks_i2c
<1>11. CASE sreset_store
  BY <1>11 DEF sreset_store
<1>12. CASE sreset_returns
  BY <1>12 DEF sreset_returns
<1>13. CASE suspend
  BY <1>13 DEF suspend
<1>14. CASE resume
  BY <1>14 DEF resume
<1>15. CASE set_suspend_mode
  BY <1>15, DownTakes DEF set_suspend_mode
<1>16. CASE set_suspend_mode_sends
  BY <1>16 DEF set_suspend_mode_sends
<1>17. CASE set_suspend_mode_saves
  BY <1>17 DEF set_suspend_mode_saves
<1>18. CASE disable_irq("disable", "sync")
  BY <1>18 DEF disable_irq
<1>19. CASE suspended
  BY <1>19 DEF suspended
<1>20. CASE set_resume_mode
  BY <1>20, DownTakes DEF set_resume_mode
<1>21. CASE disable_irq("redisable", "resync")
  BY <1>21 DEF disable_irq
<1>22. CASE set_resume_mode_resets
  BY <1>22 DEF set_resume_mode_resets
<1>23. CASE set_resume_mode_enables
  BY <1>23 DEF set_resume_mode_enables
<1>24. CASE set_resume_mode_reinits
  BY <1>24, ReinitTypes DEF set_resume_mode_reinits
<1>25. CASE resumed
  BY <1>25 DEF resumed
<1>26. CASE UNCHANGED vars
  BY <1>26 DEF vars
<1>27. CASE \E t \in {"irq", "por", "pm"} : reset_power(t)
  BY <1>27 DEF reset_power, reset_power_fails, reset_power_asserts, reset_power_releases, Return
<1> QED BY <1>1, <1>2, <1>3, <1>4, <1>5, <1>6, <1>7, <1>8, <1>9, <1>10, <1>11, <1>12, <1>13,
     <1>14, <1>15, <1>16, <1>17, <1>18, <1>19, <1>20, <1>21, <1>22, <1>23, <1>24, <1>25, <1>26,
     <1>27, ReportStep
   DEF Next, IrqThread, Por, Sreset, Pm

\* After a probe that went well reset_sem is free.
LEMMA PermitInit == ASSUME Init PROVE TypeInv /\ Permit
<1>1. \A t \in Threads : pc[t] = "idle"
  BY DEF Init
<1>2. pc \in [Threads -> Labels]
  BY DEF Init, Labels
<1>3. /\ leaked \in BOOLEAN /\ is_suspended \in BOOLEAN /\ pm_suspended \in BOOLEAN
      /\ irq_on_suspend \in BOOLEAN /\ edge \in BOOLEAN /\ configured \in BOOLEAN
  BY DEF Init
<1>4. out = <<>> /\ out \in Seq(Reports) /\ mode = "active" /\ reset_sem = 1
  BY DEF Init
<1>5. /\ suspends \in 0 .. MaxSuspends /\ touches \in 0 .. MaxTouches /\ faults \in 0 .. MaxFaults
  BY ConstAssumption DEF Init
<1>6. /\ enable_resume_por \in Pors /\ i2c_mutex = "free" /\ vdd = "high" /\ disabled = 0
      /\ report = "none" /\ amiss = {}
  BY DEF Init
<1>7. TypeOK
  BY <1>2, <1>3, <1>4, <1>5, <1>6 DEF TypeOK, Labels
<1>8. DisabledOnce
  BY <1>1, <1>6 DEF DisabledOnce, Threads
<1>9. Permit
  BY <1>1, <1>4 DEF Permit, OneReset, ResetSemKept, InFlight, Has, Held, HeldOnce, Processing,
     At, Threads
<1> QED BY <1>7, <1>8, <1>9 DEF TypeInv

\* reset_sem is one permit, neither doubled nor lost (ResetSound), for any
\* number of suspends, resets, touches and failures.
THEOREM ResetSoundAlways == Spec => []ResetSound
<1>1. Init => TypeInv /\ Permit
  BY PermitInit
<1>2. TypeInv /\ Permit /\ [Next]_vars => (TypeInv /\ Permit)'
  BY TypeStep, DisabledStep, PermitStep DEF TypeInv
<1>3. TypeInv /\ Permit => ResetSound
  BY DEF TypeInv, Permit, ResetSound
<1> QED BY <1>1, <1>2, <1>3, PTL DEF Spec

-----------------------------------------------------------------------------
(* The chip on either side of a suspend.                                   *)

\* Where each thread can be.
IrqLabels == {"idle", "lock", "read", "down", "process", "propagate", "assert", "release",
     "unlock"}
PorLabels == {"idle", "down", "lock", "assert", "release", "unlock"}
SresetLabels == {"idle", "send", "wait"}
\* From the moment the device counts as suspended.
LateLabels == {"asleep", "resume", "redisable", "resync", "assert", "release", "enable", "reinit",
               "resumed"}
PmLabels == {"idle", "suspend", "sleep", "save", "disable", "sync"} \union LateLabels

Inside == {"read", "down", "process", "propagate", "assert", "release", "unlock"}

SoftHeld == \E i \in DOMAIN out : out[i] = "soft_reset"

\* Who holds i2c_mutex, who is frozen, and that the interrupt thread is idle
\* while the device counts as suspended.
ThreadInv ==
  /\ pc["irq"] \in IrqLabels /\ pc["por"] \in PorLabels
  /\ pc["sreset"] \in SresetLabels /\ pc["pm"] \in PmLabels
  /\ pc["irq"] \in Inside <=> i2c_mutex = "irq"
  /\ pc["por"] \in {"assert", "release", "unlock"} <=> i2c_mutex = "por"
  /\ pc["pm"] # "idle" => pc["por"] = "idle" /\ pc["sreset"] = "idle"
  /\ pc["pm"] \in LateLabels <=> pm_suspended
  /\ pm_suspended => pc["irq"] = "idle"
  /\ pc["pm"] = "asleep" => ~irq_on_suspend

\* A chip that is held in reset or starts holds no report.
ResetInv ==
  /\ \A t \in Threads : pc[t] = "release" => mode = "held"
  /\ mode \in {"held", "booting", "rebooting"} => out = <<>>
  /\ pc["irq"] = "process" => Up /\ report \in {"ext_reset", "soft_reset"}

\* No operation has failed and no sreset() was over before its own reset.
Good == faults = 0 /\ "early" \notin amiss

\* The interrupt thread is on its way to a report that was taken from it.
Misled ==
  \/ pc["irq"] \in {"lock", "read"} /\ out = <<>>
  \/ pc["irq"] = "down"

\* A reset report is still to be processed.
Told == Held \/ SoftHeld \/ pc["irq"] = "process"

\* The end of every soft reset is waited for; what misled the interrupt thread
\* was a reset; and a chip that lacks its settings is about to be given them.
ChipInv ==
  Good =>
    /\ mode = "held" => \E t \in Threads : pc[t] = "release"
    /\ mode = "rebooting" \/ report = "soft_reset" \/ SoftHeld => pc["sreset"] = "wait"
    /\ Misled => mode = "rebooting" \/ SoftHeld \/ InFlight \/ Has("por")
    /\ Up /\ (mode = "default" \/ ~configured) => Told

\* From set_suspend_mode() to set_resume_mode().
LowLabels == {"disable", "sync", "asleep", "resume"}
SleepLabels == LowLabels \union {"save", "redisable", "resync", "assert", "reinit"}
SuspendInv ==
  Good =>
    /\ pc["pm"] \in {"sleep", "save"} => is_suspended
    /\ is_suspended => pc["pm"] \in SleepLabels \union {"sleep", "release", "enable"}
    /\ mode = "sleep" <=> is_suspended /\ pc["pm"] \in SleepLabels
    /\ vdd = "low" <=> is_suspended /\ pc["pm"] \in LowLabels
    /\ is_suspended /\ pc["pm"] \in LowLabels => reset_sem = 1

\* A report is announced, unless the interrupt was dropped.
EdgeInv ==
  Good /\ "suspended" \notin amiss /\ out # <<>> => edge \/ pc["irq"] \in {"lock", "read"}

FollowInv == ThreadInv /\ ResetInv /\ ChipInv /\ SuspendInv /\ EdgeInv

-----------------------------------------------------------------------------

\* A behaviour that goes well now has gone well before, and its steps fail at
\* nothing.
LEMMA GoodBack ==
  ASSUME TypeInv, [Next]_vars, Good' PROVE Good /\ faults' = faults
<1> USE ConstAssumption DEF TypeInv, TypeOK, Good, Fails, ghosts, reinit_chip_settings
<1>1. CASE chip_boots
  BY <1>1 DEF chip_boots
<1>2. CASE chip_touched
  BY <1>2 DEF chip_touched
<1>3. CASE irq_handler_hard
  BY <1>3 DEF irq_handler_hard
<1>4. CASE locks_i2c("irq", "read")
  BY <1>4 DEF locks_i2c
<1>5. CASE irq_handler_soft_reads
  BY <1>5 DEF irq_handler_soft_reads
<1>6. CASE irq_handler_soft_fails
  BY <1>6 DEF irq_handler_soft_fails
<1>7. CASE irq_handler_soft_down
  BY <1>7 DEF irq_handler_soft_down, Down
<1>8. CASE process_report
  BY <1>8, ReinitTypes DEF process_report
<1>9. CASE propagate_report
  BY <1>9 DEF propagate_report
<1>10. CASE unlocks_i2c("irq")
  BY <1>10 DEF unlocks_i2c
<1>11. CASE power_on_reset_store
  BY <1>11 DEF power_on_reset_store
<1>12. CASE power_on_reset_down
  BY <1>12 DEF power_on_reset_down, Down
<1>13. CASE locks_i2c("por", "assert")
  BY <1>13 DEF locks_i2c
<1>14. CASE unlocks_i2c("por")
  BY <1>14 DEF unlocks_i2c
<1>15. CASE sreset_store
  BY <1>15 DEF sreset_store
<1>16. CASE sreset_sends
  BY <1>16 DEF sreset_sends
<1>17. CASE sreset_returns
  BY <1>17 DEF sreset_returns
<1>18. CASE suspend
  BY <1>18 DEF suspend
<1>19. CASE resume
  BY <1>19 DEF resume
<1>20. CASE set_suspend_mode
  BY <1>20 DEF set_suspend_mode, Down
<1>21. CASE set_suspend_mode_sends
  BY <1>21 DEF set_suspend_mode_sends
<1>22. CASE set_suspend_mode_saves
  BY <1>22 DEF set_suspend_mode_saves
<1>23. CASE disable_irq("disable", "sync")
  BY <1>23 DEF disable_irq
<1>24. CASE suspended
  BY <1>24 DEF suspended
<1>25. CASE set_resume_mode
  BY <1>25 DEF set_resume_mode, Down
<1>26. CASE disable_irq("redisable", "resync")
  BY <1>26 DEF disable_irq
<1>27. CASE set_resume_mode_resets
  BY <1>27 DEF set_resume_mode_resets
<1>28. CASE set_resume_mode_enables
  BY <1>28 DEF set_resume_mode_enables
<1>29. CASE set_resume_mode_reinits
  BY <1>29, ReinitTypes DEF set_resume_mode_reinits
<1>30. CASE resumed
  BY <1>30 DEF resumed
<1>31. CASE UNCHANGED vars
  BY <1>31 DEF vars
<1>32. CASE \E t \in {"irq", "por", "pm"} : reset_power(t)
  BY <1>32 DEF reset_power, reset_power_fails, reset_power_asserts, reset_power_releases, Return
<1> QED BY <1>1, <1>2, <1>3, <1>4, <1>5, <1>6, <1>7, <1>8, <1>9, <1>10, <1>11, <1>12, <1>13,
        <1>14, <1>15, <1>16, <1>17, <1>18, <1>19, <1>20, <1>21, <1>22, <1>23, <1>24, <1>25,
        <1>26, <1>27, <1>28, <1>29, <1>30, <1>31, <1>32 DEF Next, IrqThread, Por, Sreset, Pm

\* i2c_mutex, the freezer and disable_irq() keep the threads apart.
LEMMA ThreadStep ==
  ASSUME TypeInv, ThreadInv, [Next]_vars PROVE ThreadInv'
<1> USE DEF TypeInv, TypeOK, DisabledOnce, ThreadInv, IrqLabels, PorLabels, SresetLabels,
        PmLabels, LateLabels, Inside, Goto, At, Idle, Lock, Unlock, Threads, irq, flags, locks
<1>1. CASE chip_boots
  BY <1>1 DEF chip_boots
<1>2. CASE chip_touched
  BY <1>2 DEF chip_touched
<1>3. CASE irq_handler_hard
  BY <1>3 DEF irq_handler_hard
<1>4. CASE locks_i2c("irq", "read")
  BY <1>4 DEF locks_i2c
<1>5. CASE irq_handler_soft_reads
  BY <1>5 DEF irq_handler_soft_reads
<1>6. CASE irq_handler_soft_fails
  BY <1>6 DEF irq_handler_soft_fails
<1>7. CASE irq_handler_soft_down
  BY <1>7, DownTakes DEF irq_handler_soft_down
<1>8. CASE process_report
  BY <1>8, ReinitTypes DEF process_report
<1>9. CASE propagate_report
  BY <1>9 DEF propagate_report
<1>10. CASE unlocks_i2c("irq")
  BY <1>10 DEF unlocks_i2c
<1>11. CASE power_on_reset_store
  BY <1>11 DEF power_on_reset_store
<1>12. CASE power_on_reset_down
  BY <1>12, DownTakes DEF power_on_reset_down
<1>13. CASE locks_i2c("por", "assert")
  BY <1>13 DEF locks_i2c
<1>14. CASE unlocks_i2c("por")
  BY <1>14 DEF unlocks_i2c
<1>15. CASE sreset_store
  BY <1>15 DEF sreset_store
<1>16. CASE sreset_sends
  BY <1>16 DEF sreset_sends
<1>17. CASE sreset_returns
  BY <1>17 DEF sreset_returns
<1>18. CASE suspend
  BY <1>18 DEF suspend
<1>19. CASE resume
  BY <1>19 DEF resume
<1>20. CASE set_suspend_mode
  BY <1>20, DownTakes DEF set_suspend_mode
<1>21. CASE set_suspend_mode_sends
  BY <1>21 DEF set_suspend_mode_sends
<1>22. CASE set_suspend_mode_saves
  BY <1>22 DEF set_suspend_mode_saves
<1>23. CASE disable_irq("disable", "sync")
  BY <1>23 DEF disable_irq
<1>24. CASE suspended
  BY <1>24 DEF suspended
<1>25. CASE set_resume_mode
  BY <1>25, DownTakes DEF set_resume_mode
<1>26. CASE disable_irq("redisable", "resync")
  BY <1>26 DEF disable_irq
<1>27. CASE set_resume_mode_resets
  BY <1>27 DEF set_resume_mode_resets
<1>28. CASE set_resume_mode_enables
  BY <1>28 DEF set_resume_mode_enables
<1>29. CASE set_resume_mode_reinits
  BY <1>29, ReinitTypes DEF set_resume_mode_reinits
<1>30. CASE resumed
  BY <1>30 DEF resumed
<1>31. CASE UNCHANGED vars
  BY <1>31 DEF vars
<1>32. CASE \E t \in {"irq", "por", "pm"} : reset_power(t)
  BY <1>32 DEF reset_power, reset_power_fails, reset_power_asserts, reset_power_releases, Return
<1> QED BY <1>1, <1>2, <1>3, <1>4, <1>5, <1>6, <1>7, <1>8, <1>9, <1>10, <1>11, <1>12, <1>13,
        <1>14, <1>15, <1>16, <1>17, <1>18, <1>19, <1>20, <1>21, <1>22, <1>23, <1>24, <1>25,
        <1>26, <1>27, <1>28, <1>29, <1>30, <1>31, <1>32 DEF Next, IrqThread, Por, Sreset, Pm

\* A reset takes the chip's reports away.
LEMMA ResetStep ==
  ASSUME TypeInv, Permit, ThreadInv, ResetInv, [Next]_vars PROVE ResetInv'
<1> USE DEF TypeInv, TypeOK, Permit, OneReset, Has, ResetInv, ThreadInv, IrqLabels, PorLabels,
        SresetLabels, PmLabels, LateLabels, Inside, Goto, At, Idle, Up, Threads, irq, flags,
        locks, chip
<1>1. CASE chip_boots
  BY <1>1 DEF chip_boots, Posts, Reports
<1>2. CASE chip_touched
  BY <1>2 DEF chip_touched, Posts, Reports
<1>3. CASE irq_handler_hard
  BY <1>3 DEF irq_handler_hard
<1>4. CASE locks_i2c("irq", "read")
  BY <1>4 DEF locks_i2c
<1>5. CASE irq_handler_soft_reads
  BY <1>5 DEF irq_handler_soft_reads, Takes, Reports
<1>6. CASE irq_handler_soft_fails
  BY <1>6 DEF irq_handler_soft_fails
<1>7. CASE irq_handler_soft_down
  BY <1>7, DownTakes DEF irq_handler_soft_down
<1>8. CASE process_report
  BY <1>8, ReinitTypes DEF process_report
<1>9. CASE propagate_report
  BY <1>9 DEF propagate_report
<1>10. CASE unlocks_i2c("irq")
  BY <1>10 DEF unlocks_i2c
<1>11. CASE power_on_reset_store
  BY <1>11 DEF power_on_reset_store
<1>12. CASE power_on_reset_down
  BY <1>12, DownTakes DEF power_on_reset_down
<1>13. CASE locks_i2c("por", "assert")
  BY <1>13 DEF locks_i2c
<1>14. CASE unlocks_i2c("por")
  BY <1>14 DEF unlocks_i2c
<1>15. CASE sreset_store
  BY <1>15 DEF sreset_store
<1>16. CASE sreset_sends
  BY <1>16 DEF sreset_sends
<1>17. CASE sreset_returns
  BY <1>17 DEF sreset_returns
<1>18. CASE suspend
  BY <1>18 DEF suspend
<1>19. CASE resume
  BY <1>19 DEF resume
<1>20. CASE set_suspend_mode
  BY <1>20, DownTakes DEF set_suspend_mode
<1>21. CASE set_suspend_mode_sends
  BY <1>21 DEF set_suspend_mode_sends
<1>22. CASE set_suspend_mode_saves
  BY <1>22 DEF set_suspend_mode_saves
<1>23. CASE disable_irq("disable", "sync")
  BY <1>23 DEF disable_irq
<1>24. CASE suspended
  BY <1>24 DEF suspended
<1>25. CASE set_resume_mode
  BY <1>25, DownTakes DEF set_resume_mode
<1>26. CASE disable_irq("redisable", "resync")
  BY <1>26 DEF disable_irq
<1>27. CASE set_resume_mode_resets
  BY <1>27 DEF set_resume_mode_resets
<1>28. CASE set_resume_mode_enables
  BY <1>28 DEF set_resume_mode_enables
<1>29. CASE set_resume_mode_reinits
  BY <1>29, ReinitTypes DEF set_resume_mode_reinits
<1>30. CASE resumed
  BY <1>30 DEF resumed
<1>31. CASE UNCHANGED vars
  BY <1>31 DEF vars
<1>32. CASE \E t \in {"irq", "por", "pm"} : reset_power(t)
  BY <1>32 DEF reset_power, reset_power_fails, reset_power_asserts, reset_power_releases, Return
<1> QED BY <1>1, <1>2, <1>3, <1>4, <1>5, <1>6, <1>7, <1>8, <1>9, <1>10, <1>11, <1>12, <1>13,
        <1>14, <1>15, <1>16, <1>17, <1>18, <1>19, <1>20, <1>21, <1>22, <1>23, <1>24, <1>25,
        <1>26, <1>27, <1>28, <1>29, <1>30, <1>31, <1>32 DEF Next, IrqThread, Por, Sreset, Pm

\* The same for a soft reset's report, of which there may be several.
LEMMA PostsSoft ==
  ASSUME out \in Seq(Reports), NEW r \in Reports, out' = Append(out, r)
  PROVE  (SoftHeld' <=> SoftHeld \/ r = "soft_reset") /\ out' # <<>>
<1>1. /\ Len(out') = Len(out) + 1 /\ Len(out) \in Nat
      /\ DOMAIN out = 1 .. Len(out) /\ DOMAIN out' = 1 .. Len(out')
      /\ \A i \in 1 .. Len(out) : out'[i] = out[i]
      /\ out'[Len(out) + 1] = r
  BY DEF Reports
<1>2. \A i \in DOMAIN out' : i \in DOMAIN out \/ i = Len(out) + 1
  BY <1>1
<1>3. \A i \in DOMAIN out : i \in DOMAIN out' /\ out'[i] = out[i]
  BY <1>1
<1>4. Len(out) + 1 \in DOMAIN out' /\ out' # <<>>
  BY <1>1
<1> QED BY <1>1, <1>2, <1>3, <1>4 DEF SoftHeld

\* A report that is taken.
LEMMA TakesSoft ==
  ASSUME out \in Seq(Reports), out # <<>>, out' = Tail(out)
  PROVE  /\ SoftHeld <=> SoftHeld' \/ Head(out) = "soft_reset"
         /\ out' # <<>> => Len(out) > 1
<1>1. /\ Len(out) \in Nat \ {0} /\ Len(out') = Len(out) - 1
      /\ DOMAIN out = 1 .. Len(out) /\ DOMAIN out' = 1 .. Len(out')
      /\ \A i \in 1 .. Len(out') : out'[i] = out[i + 1]
      /\ Head(out) = out[1]
  OBVIOUS
<1>2. \A i \in DOMAIN out' : i + 1 \in DOMAIN out /\ out'[i] = out[i + 1]
  BY <1>1
<1>3. \A i \in DOMAIN out : i = 1 \/ (i - 1 \in DOMAIN out' /\ out'[i - 1] = out[i])
  BY <1>1
<1>4. 1 \in DOMAIN out
  BY <1>1
<1>5. out' # <<>> => Len(out) > 1
  <2> SUFFICES ASSUME out' # <<>> PROVE Len(out) > 1
    OBVIOUS
  <2>1. out' \in Seq(Reports)
    OBVIOUS
  <2>2. Len(out') # 0
    BY <2>1
  <2> QED BY <1>1, <2>2
<1>6. SoftHeld => SoftHeld' \/ Head(out) = "soft_reset"
  BY <1>1, <1>3 DEF SoftHeld
<1>7. SoftHeld' \/ Head(out) = "soft_reset" => SoftHeld
  BY <1>1, <1>2, <1>4 DEF SoftHeld
<1> QED BY <1>5, <1>6, <1>7

\* What a step does to the reports of resets that the chip holds.
LEMMA KeepsHeld == ASSUME out' = out PROVE (Held' <=> Held) /\ (SoftHeld' <=> SoftHeld)
BY DEF Held, SoftHeld

\* A chip that starts again.
LEMMA BootStep ==
  ASSUME TypeInv, Permit, chip_boots
  PROVE  /\ out' # <<>>
         /\ Held' <=> Held \/ mode = "booting"
         /\ SoftHeld' <=> SoftHeld \/ mode = "rebooting"
<1> DEFINE r == IF mode = "booting" THEN "ext_reset" ELSE "soft_reset"
<1>1. r \in Reports /\ out' = Append(out, r) /\ mode \in {"booting", "rebooting"}
  BY DEF chip_boots, Posts, Reports
<1>2. out \in Seq(Reports) /\ HeldOnce
  BY DEF TypeInv, TypeOK, Permit
<1> QED BY <1>1, <1>2, PostsHeld, PostsSoft

\* A touch is no report of a reset.
LEMMA TouchStep ==
  ASSUME TypeInv, Permit, chip_touched
  PROVE  out' # <<>> /\ (Held' <=> Held) /\ (SoftHeld' <=> SoftHeld)
<1>1. "touch" \in Reports /\ out' = Append(out, "touch")
  BY DEF chip_touched, Posts, Reports
<1>2. out \in Seq(Reports) /\ HeldOnce
  BY DEF TypeInv, TypeOK, Permit
<1> QED BY <1>1, <1>2, PostsHeld, PostsSoft

\* The interrupt thread reads one report; the line falls again if more are left.
LEMMA ReadStep ==
  ASSUME TypeInv, Permit, irq_handler_soft_reads
  PROVE  /\ Held <=> Held' \/ Head(out) = "ext_reset"
         /\ SoftHeld <=> SoftHeld' \/ Head(out) = "soft_reset"
         /\ Head(out) \in Reports
         /\ out' # <<>> => edge'
<1>1. out # <<>> /\ out' = Tail(out) /\ (Len(out) > 1 => edge')
  BY DEF irq_handler_soft_reads, Takes
<1>2. out \in Seq(Reports) /\ HeldOnce
  BY DEF TypeInv, TypeOK, Permit
<1> QED BY <1>1, <1>2, TakesHeld, TakesSoft

\* No report is left behind without an edge to announce it.
LEMMA EdgeStep ==
  ASSUME TypeInv, Permit, ThreadInv, EdgeInv, [Next]_vars PROVE EdgeInv'
<1> SUFFICES ASSUME Good', "suspended" \notin amiss', out' # <<>>
             PROVE  edge' \/ pc'["irq"] \in {"lock", "read"}
  BY DEF EdgeInv
<1>good. Good /\ faults' = faults
  BY GoodBack
<1> USE DEF TypeInv, TypeOK, ThreadInv, IrqLabels, PorLabels, SresetLabels, PmLabels, EdgeInv,
        Goto, At, Idle, Fails, Threads, irq, flags, locks, chip, ghosts
<1>1. CASE chip_boots
  BY <1>1, <1>good DEF chip_boots, Posts
<1>2. CASE chip_touched
  BY <1>2, <1>good DEF chip_touched, Posts
<1>3. CASE irq_handler_hard
  BY <1>3, <1>good DEF irq_handler_hard
<1>4. CASE locks_i2c("irq", "read")
  BY <1>4, <1>good DEF locks_i2c
<1>5. CASE irq_handler_soft_reads
  <2>1. out' # <<>> => edge'
    BY <1>5, ReadStep
  <2> QED BY <2>1
<1>6. CASE irq_handler_soft_fails
  BY <1>6, <1>good DEF irq_handler_soft_fails
<1>7. CASE irq_handler_soft_down
  BY <1>7, DownTakes, <1>good DEF irq_handler_soft_down
<1>8. CASE process_report
  BY <1>8, ReinitTypes, <1>good DEF process_report
<1>9. CASE propagate_report
  BY <1>9, <1>good DEF propagate_report
<1>10. CASE unlocks_i2c("irq")
  BY <1>10, <1>good DEF unlocks_i2c
<1>11. CASE power_on_reset_store
  BY <1>11, <1>good DEF power_on_reset_store
<1>12. CASE power_on_reset_down
  BY <1>12, DownTakes, <1>good DEF power_on_reset_down
<1>13. CASE locks_i2c("por", "assert")
  BY <1>13, <1>good DEF locks_i2c
<1>14. CASE unlocks_i2c("por")
  BY <1>14, <1>good DEF unlocks_i2c
<1>15. CASE sreset_store
  BY <1>15, <1>good DEF sreset_store
<1>16. CASE sreset_sends
  BY <1>16, <1>good DEF sreset_sends
<1>17. CASE sreset_returns
  BY <1>17, <1>good DEF sreset_returns
<1>18. CASE suspend
  BY <1>18, <1>good DEF suspend
<1>19. CASE resume
  BY <1>19, <1>good DEF resume
<1>20. CASE set_suspend_mode
  BY <1>20, DownTakes, <1>good DEF set_suspend_mode
<1>21. CASE set_suspend_mode_sends
  BY <1>21, <1>good DEF set_suspend_mode_sends
<1>22. CASE set_suspend_mode_saves
  BY <1>22, <1>good DEF set_suspend_mode_saves
<1>23. CASE disable_irq("disable", "sync")
  BY <1>23, <1>good DEF disable_irq
<1>24. CASE suspended
  BY <1>24, <1>good DEF suspended
<1>25. CASE set_resume_mode
  BY <1>25, DownTakes, <1>good DEF set_resume_mode
<1>26. CASE disable_irq("redisable", "resync")
  BY <1>26, <1>good DEF disable_irq
<1>27. CASE set_resume_mode_resets
  BY <1>27, <1>good DEF set_resume_mode_resets
<1>28. CASE set_resume_mode_enables
  BY <1>28, <1>good DEF set_resume_mode_enables
<1>29. CASE set_resume_mode_reinits
  BY <1>29, ReinitTypes, <1>good DEF set_resume_mode_reinits
<1>30. CASE resumed
  BY <1>30, <1>good DEF resumed
<1>31. CASE UNCHANGED vars
  BY <1>31, <1>good DEF vars
<1>32. CASE \E t \in {"irq", "por", "pm"} : reset_power(t)
   BY <1>32, <1>good DEF reset_power, reset_power_fails, reset_power_asserts,
       reset_power_releases, Return
<1> QED BY <1>1, <1>2, <1>3, <1>4, <1>5, <1>6, <1>7, <1>8, <1>9, <1>10, <1>11, <1>12, <1>13,
        <1>14, <1>15, <1>16, <1>17, <1>18, <1>19, <1>20, <1>21, <1>22, <1>23, <1>24, <1>25,
        <1>26, <1>27, <1>28, <1>29, <1>30, <1>31, <1>32 DEF Next, IrqThread, Por, Sreset, Pm

\* A chip that was reset has yet to say so, or to be given its settings.
LEMMA ChipStep ==
  ASSUME TypeInv, Permit, ThreadInv, ResetInv, ChipInv, SuspendInv, [Next]_vars PROVE ChipInv'
<1> SUFFICES ASSUME Good' PROVE ChipInv'
  BY DEF ChipInv
<1>good. Good /\ faults' = faults
  BY GoodBack
<1>was. InFlight <=> mode = "booting" \/ Held \/ Processing
  BY DEF InFlight, Held, Processing
<1>is. InFlight' <=> mode' = "booting" \/ Held' \/ Processing'
  BY DEF InFlight, Held, Processing
<1> USE DEF TypeInv, TypeOK, Permit, OneReset, ThreadInv, IrqLabels, PorLabels, SresetLabels,
        PmLabels, Inside, LateLabels, ResetInv, ChipInv, SuspendInv, Misled, Told, Has,
        Processing, Up, Goto, At, Idle, Fails, Threads, irq, flags, locks, chip, ghosts
<1>1. CASE chip_boots
  <2>1. /\ mode \in {"booting", "rebooting"} /\ mode' = "default" /\ out' # <<>>
        /\ Held' <=> Held \/ mode = "booting"
        /\ SoftHeld' <=> SoftHeld \/ mode = "rebooting"
        /\ UNCHANGED <<pc, report, configured>>
    BY <1>1, BootStep DEF chip_boots
  <2> QED BY <1>good, <1>was, <1>is, <2>1
<1>2. CASE chip_touched
  <2>1. /\ mode = "active" /\ configured /\ out' # <<>>
        /\ (Held' <=> Held) /\ (SoftHeld' <=> SoftHeld)
        /\ UNCHANGED <<pc, report, mode, configured>>
    BY <1>2, TouchStep DEF chip_touched
  <2> QED BY <1>good, <1>was, <1>is, <2>1
<1>3. CASE irq_handler_hard
  BY <1>3, <1>good, <1>was, <1>is, KeepsHeld DEF irq_handler_hard
<1>4. CASE locks_i2c("irq", "read")
  BY <1>4, <1>good, <1>was, <1>is, KeepsHeld DEF locks_i2c
<1>5. CASE irq_handler_soft_reads
  <2>1. /\ pc["irq"] = "read" /\ report' = Head(out) /\ out # <<>>
        /\ Goto("irq", IF Head(out) = "touch" THEN "propagate" ELSE "process")
        /\ UNCHANGED <<mode, configured>>
        /\ Held <=> Held' \/ Head(out) = "ext_reset"
        /\ SoftHeld <=> SoftHeld' \/ Head(out) = "soft_reset"
        /\ Head(out) \in Reports
    BY <1>5, ReadStep DEF irq_handler_soft_reads
  <2> QED BY <1>good, <1>was, <1>is, <2>1 DEF Reports
<1>6. CASE irq_handler_soft_fails
  BY <1>6, <1>good, <1>was, <1>is, KeepsHeld DEF irq_handler_soft_fails
<1>7. CASE irq_handler_soft_down
  BY <1>7, DownTakes, <1>good, <1>was, <1>is, KeepsHeld DEF irq_handler_soft_down
<1>8. CASE process_report
  BY <1>8, ReinitTypes, <1>good, <1>was, <1>is, KeepsHeld DEF process_report, reinit_chip_settings
<1>9. CASE propagate_report
  BY <1>9, <1>good, <1>was, <1>is, KeepsHeld DEF propagate_report
<1>10. CASE unlocks_i2c("irq")
  BY <1>10, <1>good, <1>was, <1>is, KeepsHeld DEF unlocks_i2c
<1>11. CASE power_on_reset_store
  BY <1>11, <1>good, <1>was, <1>is, KeepsHeld DEF power_on_reset_store
<1>12. CASE power_on_reset_down
  BY <1>12, DownTakes, <1>good, <1>was, <1>is, KeepsHeld DEF power_on_reset_down
<1>13. CASE locks_i2c("por", "assert")
  BY <1>13, <1>good, <1>was, <1>is, KeepsHeld DEF locks_i2c
<1>14. CASE unlocks_i2c("por")
  BY <1>14, <1>good, <1>was, <1>is, KeepsHeld DEF unlocks_i2c
<1>15. CASE sreset_store
  BY <1>15, <1>good, <1>was, <1>is, KeepsHeld DEF sreset_store
<1>16. CASE sreset_sends
  <2>1. CASE mode' = "rebooting" /\ out' = <<>> /\ Goto("sreset", "wait")
    <3>1. ~Held' /\ ~SoftHeld'
      BY <2>1 DEF Held, SoftHeld
    <3> QED BY <1>16, <1>good, <1>was, <1>is, <2>1, <3>1 DEF sreset_sends
  <2>2. CASE UNCHANGED chip /\ Goto("sreset", "idle")
    BY <1>16, <1>good, <1>was, <1>is, <2>2, KeepsHeld DEF sreset_sends
  <2> QED BY <1>16, <2>1, <2>2 DEF sreset_sends
<1>17. CASE sreset_returns
  <2>1. ~(mode = "rebooting" \/ report = "soft_reset" \/ SoftHeld)
    BY <1>17 DEF sreset_returns, SoftHeld, Good
  <2>2. UNCHANGED <<out, mode, report, configured>> /\ Goto("sreset", "idle")
    BY <1>17 DEF sreset_returns
  <2> QED BY <1>good, <1>was, <1>is, <2>1, <2>2, KeepsHeld
<1>18. CASE suspend
  BY <1>18, <1>good, <1>was, <1>is, KeepsHeld DEF suspend
<1>19. CASE resume
  BY <1>19, <1>good, <1>was, <1>is, KeepsHeld DEF resume
<1>20. CASE set_suspend_mode
  BY <1>20, DownTakes, <1>good, <1>was, <1>is, KeepsHeld DEF set_suspend_mode
<1>21. CASE set_suspend_mode_sends
  BY <1>21, <1>good, <1>was, <1>is, KeepsHeld DEF set_suspend_mode_sends
<1>22. CASE set_suspend_mode_saves
  BY <1>22, <1>good, <1>was, <1>is, KeepsHeld DEF set_suspend_mode_saves
<1>23. CASE disable_irq("disable", "sync")
  BY <1>23, <1>good, <1>was, <1>is, KeepsHeld DEF disable_irq
<1>24. CASE suspended
  BY <1>24, <1>good, <1>was, <1>is, KeepsHeld DEF suspended
<1>25. CASE set_resume_mode
  BY <1>25, DownTakes, <1>good, <1>was, <1>is, KeepsHeld DEF set_resume_mode
<1>26. CASE disable_irq("redisable", "resync")
  BY <1>26, <1>good, <1>was, <1>is, KeepsHeld DEF disable_irq
<1>27. CASE set_resume_mode_resets
  BY <1>27, <1>good, <1>was, <1>is, KeepsHeld DEF set_resume_mode_resets
<1>28. CASE set_resume_mode_enables
  BY <1>28, <1>good, <1>was, <1>is, KeepsHeld DEF set_resume_mode_enables
<1>29. CASE set_resume_mode_reinits
   BY <1>29, ReinitTypes, <1>good, <1>was, <1>is, KeepsHeld DEF set_resume_mode_reinits,
       reinit_chip_settings
<1>30. CASE resumed
  BY <1>30, <1>good, <1>was, <1>is, KeepsHeld DEF resumed
<1>31. CASE UNCHANGED vars
  BY <1>31, <1>good, <1>was, <1>is, KeepsHeld DEF vars
<1>32. CASE \E t \in {"irq", "por", "pm"} : reset_power(t)
  <2> PICK t \in {"irq", "por", "pm"} : reset_power(t)
    BY <1>32
  <2>1. CASE reset_power_asserts(t)
    <3>1. out' = <<>> /\ ~Held' /\ ~SoftHeld'
      BY <2>1 DEF reset_power_asserts, Held, SoftHeld
    <3> QED BY <1>good, <1>was, <1>is, <2>1, <3>1 DEF reset_power_asserts
  <2>2. CASE reset_power_releases(t)
    BY <1>good, <1>was, <1>is, <2>2, KeepsHeld DEF reset_power_releases, Return
  <2>3. CASE reset_power_fails(t)
    BY <1>good, <2>3 DEF reset_power_fails
  <2> QED BY <2>1, <2>2, <2>3 DEF reset_power
<1> QED BY <1>1, <1>2, <1>3, <1>4, <1>5, <1>6, <1>7, <1>8, <1>9, <1>10, <1>11, <1>12, <1>13,
        <1>14, <1>15, <1>16, <1>17, <1>18, <1>19, <1>20, <1>21, <1>22, <1>23, <1>24, <1>25,
        <1>26, <1>27, <1>28, <1>29, <1>30, <1>31, <1>32 DEF Next, IrqThread, Por, Sreset, Pm

\* suspend() and resume() have the chip to themselves.
LEMMA SuspendStep ==
  ASSUME TypeInv, Permit, ThreadInv, ResetInv, ChipInv, SuspendInv, [Next]_vars PROVE SuspendInv'
<1> SUFFICES ASSUME Good' PROVE SuspendInv'
  BY DEF SuspendInv
<1>good. Good /\ faults' = faults
  BY GoodBack
<1>was. InFlight <=> mode = "booting" \/ Held \/ Processing
  BY DEF InFlight, Held, Processing
<1> USE DEF TypeInv, TypeOK, Permit, OneReset, ThreadInv, IrqLabels, PorLabels, SresetLabels,
        PmLabels, Inside, LateLabels, ResetInv, ChipInv, SuspendInv, Misled, Told, Has,
        Processing, Up, LowLabels, SleepLabels, Goto, At, Idle, Fails, Threads, irq, flags,
        locks, chip, ghosts
<1>1. CASE chip_boots
  BY <1>1, <1>good, <1>was DEF chip_boots
<1>2. CASE chip_touched
  BY <1>2, <1>good, <1>was DEF chip_touched
<1>3. CASE irq_handler_hard
  BY <1>3, <1>good, <1>was DEF irq_handler_hard
<1>4. CASE locks_i2c("irq", "read")
  BY <1>4, <1>good, <1>was DEF locks_i2c
<1>5. CASE irq_handler_soft_reads
  BY <1>5, <1>good, <1>was DEF irq_handler_soft_reads
<1>6. CASE irq_handler_soft_fails
  BY <1>6, <1>good, <1>was DEF irq_handler_soft_fails
<1>7. CASE irq_handler_soft_down
  BY <1>7, DownTakes, <1>good, <1>was DEF irq_handler_soft_down
<1>8. CASE process_report
  BY <1>8, ReinitTypes, <1>good, <1>was DEF process_report, reinit_chip_settings
<1>9. CASE propagate_report
  BY <1>9, <1>good, <1>was DEF propagate_report
<1>10. CASE unlocks_i2c("irq")
  BY <1>10, <1>good, <1>was DEF unlocks_i2c
<1>11. CASE power_on_reset_store
  BY <1>11, <1>good, <1>was DEF power_on_reset_store
<1>12. CASE power_on_reset_down
  BY <1>12, DownTakes, <1>good, <1>was DEF power_on_reset_down
<1>13. CASE locks_i2c("por", "assert")
  BY <1>13, <1>good, <1>was DEF locks_i2c
<1>14. CASE unlocks_i2c("por")
  BY <1>14, <1>good, <1>was DEF unlocks_i2c
<1>15. CASE sreset_store
  BY <1>15, <1>good, <1>was DEF sreset_store
<1>16. CASE sreset_sends
  BY <1>16, <1>good, <1>was DEF sreset_sends
<1>17. CASE sreset_returns
  BY <1>17, <1>good, <1>was DEF sreset_returns
<1>18. CASE suspend
  BY <1>18, <1>good, <1>was DEF suspend
<1>19. CASE resume
  BY <1>19, <1>good, <1>was DEF resume
<1>20. CASE set_suspend_mode
  BY <1>20, DownTakes, <1>good, <1>was DEF set_suspend_mode
<1>21. CASE set_suspend_mode_sends
  BY <1>21, <1>good, <1>was DEF set_suspend_mode_sends
<1>22. CASE set_suspend_mode_saves
  BY <1>22, <1>good, <1>was DEF set_suspend_mode_saves
<1>23. CASE disable_irq("disable", "sync")
  BY <1>23, <1>good, <1>was DEF disable_irq
<1>24. CASE suspended
  BY <1>24, <1>good, <1>was DEF suspended
<1>25. CASE set_resume_mode
  BY <1>25, DownTakes, <1>good, <1>was DEF set_resume_mode
<1>26. CASE disable_irq("redisable", "resync")
  BY <1>26, <1>good, <1>was DEF disable_irq
<1>27. CASE set_resume_mode_resets
  BY <1>27, <1>good, <1>was DEF set_resume_mode_resets
<1>28. CASE set_resume_mode_enables
  BY <1>28, <1>good, <1>was DEF set_resume_mode_enables
<1>29. CASE set_resume_mode_reinits
  BY <1>29, ReinitTypes, <1>good, <1>was DEF set_resume_mode_reinits, reinit_chip_settings
<1>30. CASE resumed
  BY <1>30, <1>good, <1>was DEF resumed
<1>31. CASE UNCHANGED vars
  BY <1>31, <1>good, <1>was DEF vars
<1>32. CASE \E t \in {"irq", "por", "pm"} : reset_power(t)
   BY <1>32, <1>good, <1>was DEF reset_power, reset_power_fails, reset_power_asserts,
       reset_power_releases, Return
<1> QED BY <1>1, <1>2, <1>3, <1>4, <1>5, <1>6, <1>7, <1>8, <1>9, <1>10, <1>11, <1>12, <1>13,
        <1>14, <1>15, <1>16, <1>17, <1>18, <1>19, <1>20, <1>21, <1>22, <1>23, <1>24, <1>25,
        <1>26, <1>27, <1>28, <1>29, <1>30, <1>31, <1>32 DEF Next, IrqThread, Por, Sreset, Pm

\* The invariants hold after the probe.
LEMMA FollowInit == ASSUME Init PROVE FollowInv
<1>1. /\ \A t \in Threads : pc[t] = "idle"
      /\ i2c_mutex = "free" /\ ~is_suspended /\ ~pm_suspended
      /\ mode = "active" /\ configured /\ report = "none" /\ vdd = "high"
  BY DEF Init
<1>2. out = <<>> /\ ~Held /\ ~SoftHeld
  BY DEF Init, Held, SoftHeld
<1>3. ThreadInv
  BY <1>1 DEF ThreadInv, Threads, IrqLabels, PorLabels, SresetLabels, PmLabels, LateLabels, Inside
<1>4. ResetInv /\ EdgeInv
  BY <1>1, <1>2 DEF ResetInv, EdgeInv, Threads
<1>5. ChipInv
  BY <1>1, <1>2 DEF ChipInv, Misled, Told, Threads, At
<1>6. SuspendInv
  BY <1>1 DEF SuspendInv, LowLabels, SleepLabels, LateLabels, Threads
<1> QED BY <1>3, <1>4, <1>5, <1>6 DEF FollowInv

\* A device at rest and awake has a chip with its settings: what the chip still
\* had to tell it about a reset has been told.
LEMMA FollowWorks == ASSUME TypeInv, FollowInv PROVE Working
<1> SUFFICES ASSUME Settled, faults = 0, amiss \intersect {"suspended", "early"} = {}
             PROVE  mode = "active" /\ configured /\ out = <<>> /\ vdd = "high" /\ ~is_suspended
  BY DEF Working
<1>1. /\ \A t \in Threads : pc[t] = "idle"
      /\ ~edge /\ mode \notin {"booting", "rebooting"}
      /\ Good /\ "suspended" \notin amiss
  BY DEF Settled, Good, Idle, At
<1>2. out = <<>>
  BY <1>1 DEF FollowInv, EdgeInv, Threads
<1>3. ~Told
  BY <1>1, <1>2 DEF Told, Held, SoftHeld, Threads
<1>4. ~is_suspended /\ mode # "sleep" /\ vdd # "low"
  BY <1>1 DEF FollowInv, SuspendInv, LowLabels, SleepLabels, LateLabels, Threads
<1>5. mode # "held"
  BY <1>1 DEF FollowInv, ChipInv
<1>6. Up
  BY <1>1, <1>4, <1>5 DEF TypeInv, TypeOK, Up
<1>7. mode # "default" /\ configured
  BY <1>1, <1>3, <1>6 DEF FollowInv, ChipInv
<1>8. vdd = "high" /\ mode = "active"
  BY <1>1, <1>4, <1>5, <1>7 DEF TypeInv, TypeOK
<1> QED BY <1>2, <1>4, <1>7, <1>8

\* What holds of every state of the touch driver's power management.
THEOREM FollowInvariant == Spec => [](TypeInv /\ Permit /\ FollowInv)
<1>1. Init => TypeInv /\ Permit /\ FollowInv
  BY PermitInit, FollowInit
<1>2. TypeInv /\ Permit /\ FollowInv /\ [Next]_vars => (TypeInv /\ Permit /\ FollowInv)'
  BY TypeStep, DisabledStep, PermitStep, ThreadStep, ResetStep, ChipStep, SuspendStep, EdgeStep
     DEF TypeInv, FollowInv
<1> QED BY <1>1, <1>2, PTL DEF Spec

\* Awake and at rest the chip has its settings and no report waits in it,
\* asleep it is asleep and on low power (ChipFollows), whatever resets, touches
\* and suspends came before and in whatever order the threads ran.
THEOREM ChipFollowsAlways == Spec => []ChipFollows
<1>1. TypeInv /\ Permit /\ FollowInv => ChipFollows
  <2> SUFFICES ASSUME TypeInv, FollowInv PROVE ChipFollows
    OBVIOUS
  <2>1. Sleeping
    BY DEF Sleeping, At, FollowInv, SuspendInv, Good, LowLabels, SleepLabels
  <2> QED BY <2>1, FollowWorks DEF ChipFollows
<1> QED BY <1>1, FollowInvariant, PTL

\* resume() and suspend_noirq() never find irq_on_suspend set (NothingNoted).
THEOREM NothingNotedAlways == Spec => []NothingNoted
<1>1. TypeInv /\ Permit /\ FollowInv => NothingNoted
  BY DEF FollowInv, ThreadInv, NothingNoted, At
<1> QED BY <1>1, FollowInvariant, PTL

=============================================================================
