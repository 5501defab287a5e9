------------------------------ MODULE KraitL2 -------------------------------
(***************************************************************************)
(* Scaling of the Krait L2 cache, krait-l2-cache.c: a cpufreq notifier     *)
(* notes the rate of a core and queues a work item, which sets the cache's *)
(* clock from the fastest online core.  The cores change their rates, come *)
(* and go at any time, while the driver is bound or unbound too.           *)
(*                                                                         *)
(* Every core is a policy of its own (no opp-shared in the device tree).   *)
(* Left out: the parts of probe that only read the device tree or allocate.*)
(***************************************************************************)
EXTENDS Integers, Sequences, FiniteSets

CONSTANTS
  CPUs,         (* numbers of the cores                                    *)
  CpuRates,     (* rates of a core, kHz                                    *)
  L2Map,        (* qcom,cpu-l2-khz: pairs <<cpu kHz, L2 kHz>>, ascending   *)
  MaxChanges,   (* bound on rate changes and on cores coming and going     *)
  MaxRefusals   (* bound on rates the OPP core refuses to set              *)

\* Rates are numbers, and none of the cache's is 0, which cur_hz is before the
\* first; probe refuses a table without an entry; there is a core.
ASSUME L2Assumption ==
  /\ CPUs \subseteq Nat /\ CPUs # {}
  /\ CpuRates \subseteq Nat
  /\ L2Map \in Seq(Nat \X (Nat \ {0})) /\ Len(L2Map) >= 1

VARIABLES
  l2_pc,        (* where probe and remove are                              *)
  l2_unread,    (* cores whose rate probe has still to read                *)
  l2_khz,       (* khz[]: the last known rate of each core                 *)
  l2_cur_hz,    (* cur_hz: the rate last set                               *)
  l2_clk,       (* the rate of the cache's clock                           *)
  l2_queued,    (* the work item is pending                                *)
  l2_scan,      (* cores krait_l2_update() has still to look at            *)
  l2_max,       (* max_khz                                                 *)
  l2_running,   (* krait_l2_update() runs, with the mutex                  *)
  cpu_rate,     (* the rate each core runs at                              *)
  cpu_cur,      (* policy->cur, what cpufreq_quick_get() returns           *)
  cpu_change,   (* how far a rate change of the core is                    *)
  cpu_online,
  cpu_changes,  (* changes so far                                          *)
  l2_refusals,
  l2_seen,      (* history: cores notified since the notifier registered   *)
  l2_stale      (* history: since the last look at the cores, one came or  *)
                (* went, or the rate was refused                           *)

l2_driver  == <<l2_pc, l2_unread, l2_khz, l2_cur_hz, l2_clk>>
l2_work    == <<l2_queued, l2_scan, l2_max, l2_running>>
l2_cores   == <<cpu_rate, cpu_cur, cpu_change, cpu_online, cpu_changes>>
l2_history == <<l2_refusals, l2_seen, l2_stale>>
l2_vars    == <<l2_driver, l2_work, l2_cores, l2_history>>

\* Variant: the entry above the core's rate.
l2_rate_above(max) ==
  LET above == {i \in 1 .. Len(L2Map) : L2Map[i][1] >= max}
  IN  IF above = {} THEN L2Map[Len(L2Map)][2]
      ELSE L2Map[CHOOSE i \in above : \A j \in above : i <= j][2]

\* The highest entry that does not exceed the fastest core; the first one if
\* they all do.
l2_rate(max) ==
  LET below == {i \in 1 .. Len(L2Map) : L2Map[i][1] <= max}
  IN  IF below = {} THEN L2Map[1][2]
      ELSE L2Map[CHOOSE i \in below : \A j \in below : j <= i][2]

-----------------------------------------------------------------------------
(* cpufreq                                                                 *)

cpu_changes_rate ==
  \E c \in cpu_online, r \in CpuRates :
    /\ cpu_changes < MaxChanges
    /\ cpu_change[c] = "none" /\ r # cpu_rate[c]
    /\ cpu_rate' = [cpu_rate EXCEPT ![c] = r]
    /\ cpu_change' = [cpu_change EXCEPT ![c] = "changed"]
    /\ cpu_changes' = cpu_changes + 1
    /\ UNCHANGED <<cpu_cur, cpu_online, l2_driver, l2_work, l2_history>>

\* Variant: a core that slows down needs no work.
Schedules_faster(c) == cpu_rate[c] > l2_khz[c]

Schedules(c) == TRUE

\* POSTCHANGE, with the notifier registered.
krait_l2_cpufreq_notifier ==
  \E c \in CPUs :
    /\ cpu_change[c] = "changed"
    /\ l2_pc = "bound"
    /\ l2_khz' = [l2_khz EXCEPT ![c] = cpu_rate[c]]
    /\ l2_queued' = (l2_queued \/ Schedules(c))
    /\ cpu_change' = [cpu_change EXCEPT ![c] = "notified"]
    /\ l2_seen' = l2_seen \union {c}
    /\ UNCHANGED <<l2_pc, l2_unread, l2_cur_hz, l2_clk, l2_scan, l2_max, l2_running,
                   cpu_rate, cpu_cur, cpu_online, cpu_changes, l2_refusals, l2_stale>>

\* POSTCHANGE with nobody listening.
unheard ==
  \E c \in CPUs :
    /\ cpu_change[c] = "changed"
    /\ l2_pc # "bound"
    /\ cpu_change' = [cpu_change EXCEPT ![c] = "notified"]
    /\ UNCHANGED <<l2_driver, l2_work, cpu_rate, cpu_cur, cpu_online, cpu_changes, l2_history>>

\* The core updates policy->cur after the notifiers.
policy_updated ==
  \E c \in CPUs :
    /\ cpu_change[c] = "notified"
    /\ cpu_cur' = [cpu_cur EXCEPT ![c] = cpu_rate[c]]
    /\ cpu_change' = [cpu_change EXCEPT ![c] = "none"]
    /\ UNCHANGED <<l2_driver, l2_work, cpu_rate, cpu_online, cpu_changes, l2_history>>

\* A core goes or comes back; the driver is not told.
cpu_hotplug ==
  \E c \in CPUs :
    /\ cpu_changes < MaxChanges
    /\ cpu_change[c] = "none"
    /\ cpu_online' = IF c \in cpu_online THEN cpu_online \ {c} ELSE cpu_online \union {c}
    /\ cpu_online' # {}
    /\ cpu_changes' = cpu_changes + 1
    /\ l2_stale' = TRUE
    /\ UNCHANGED <<l2_driver, l2_work, cpu_rate, cpu_cur, cpu_change, l2_refusals, l2_seen>>

-----------------------------------------------------------------------------
(* krait_l2_update(), called by probe and run as the work item.            *)

Begins ==
  /\ ~l2_running
  /\ l2_running' = TRUE /\ l2_scan' = CPUs /\ l2_max' = 0
  /\ l2_stale' = FALSE

\* The pending bit goes before the function runs.
work_begins ==
  /\ l2_queued
  /\ l2_queued' = FALSE
  /\ Begins
  /\ UNCHANGED <<l2_driver, l2_cores, l2_refusals, l2_seen>>

probe_updates ==
  /\ l2_pc = "update"
  /\ Begins
  /\ UNCHANGED <<l2_driver, l2_queued, l2_cores, l2_refusals, l2_seen>>

\* krait_l2_target_hz(): one core after the other.
target_reads ==
  /\ l2_running /\ l2_scan # {}
  /\ LET c == CHOOSE c \in l2_scan : \A d \in l2_scan : c <= d
     IN  /\ l2_scan' = l2_scan \ {c}
         /\ l2_max' = IF c \in cpu_online /\ l2_khz[c] > l2_max THEN l2_khz[c] ELSE l2_max
  /\ UNCHANGED <<l2_driver, l2_queued, l2_running, l2_cores, l2_history>>

UpdateEnds ==
  /\ l2_running /\ l2_scan = {}
  /\ l2_running' = FALSE
  /\ l2_pc' = IF l2_pc = "update" THEN "register" ELSE l2_pc
  /\ UNCHANGED <<l2_unread, l2_khz, l2_queued, l2_scan, l2_max, l2_cores, l2_seen>>

update_sets ==
  /\ UpdateEnds
  /\ l2_cur_hz' = l2_rate(l2_max)
  /\ l2_clk' = IF l2_rate(l2_max) # l2_cur_hz THEN l2_rate(l2_max) ELSE l2_clk
  /\ UNCHANGED <<l2_refusals, l2_stale>>

\* dev_pm_opp_set_rate() fails: logged, and not tried again by itself.
update_refused ==
  /\ UpdateEnds
  /\ l2_rate(l2_max) # l2_cur_hz
  /\ l2_refusals < MaxRefusals
  /\ l2_refusals' = l2_refusals + 1
  /\ l2_stale' = TRUE
  /\ UNCHANGED <<l2_cur_hz, l2_clk>>

-----------------------------------------------------------------------------
(* Probe and remove                                                        *)

\* A new krait_l2, once cpufreq is there.
l2_probe_begins ==
  /\ l2_pc = "unbound"
  /\ l2_pc' = "read" /\ l2_unread' = CPUs
  /\ l2_khz' = [c \in CPUs |-> 0] /\ l2_cur_hz' = 0
  /\ l2_seen' = {}
  /\ UNCHANGED <<l2_clk, l2_work, l2_cores, l2_refusals, l2_stale>>

l2_probe_reads ==
  /\ l2_pc = "read"
  /\ IF l2_unread = {} THEN l2_pc' = "update" /\ UNCHANGED <<l2_unread, l2_khz>>
     ELSE LET c == CHOOSE c \in l2_unread : \A d \in l2_unread : c <= d
          IN  /\ l2_unread' = l2_unread \ {c}
              /\ l2_khz' = [l2_khz EXCEPT ![c] = cpu_cur[c]]
              /\ UNCHANGED l2_pc
  /\ UNCHANGED <<l2_cur_hz, l2_clk, l2_work, l2_cores, l2_history>>

\* cpufreq_register_notifier(), which may fail.
l2_probe_registers ==
  /\ l2_pc = "register"
  /\ l2_pc' \in {"bound", "unbound"}
  /\ UNCHANGED <<l2_unread, l2_khz, l2_cur_hz, l2_clk, l2_work, l2_cores, l2_history>>

l2_remove_unregisters ==
  /\ l2_pc = "bound"
  /\ l2_pc' = "cancel"
  /\ UNCHANGED <<l2_unread, l2_khz, l2_cur_hz, l2_clk, l2_work, l2_cores, l2_history>>

\* Variant: only a work item that has not begun is cancelled.
l2_remove_cancels_pending ==
  /\ l2_pc = "cancel"
  /\ l2_queued' = FALSE
  /\ l2_pc' = "unbound"
  /\ UNCHANGED <<l2_unread, l2_khz, l2_cur_hz, l2_clk, l2_scan, l2_max, l2_running,
                 l2_cores, l2_history>>

\* cancel_work_sync() also waits for one that runs.
l2_remove_cancels ==
  /\ l2_pc = "cancel"
  /\ ~l2_running
  /\ l2_queued' = FALSE
  /\ l2_pc' = "unbound"
  /\ UNCHANGED <<l2_unread, l2_khz, l2_cur_hz, l2_clk, l2_scan, l2_max, l2_running,
                 l2_cores, l2_history>>

-----------------------------------------------------------------------------

L2Init ==
  /\ l2_pc = "unbound" /\ l2_unread = {}
  /\ l2_khz = [c \in CPUs |-> 0] /\ l2_cur_hz = 0
  /\ l2_clk = L2Map[2][2]
  /\ l2_queued = FALSE /\ l2_scan = {} /\ l2_max = 0 /\ l2_running = FALSE
  /\ cpu_rate = [c \in CPUs |-> L2Map[1][1]]
  /\ cpu_cur = cpu_rate
  /\ cpu_change = [c \in CPUs |-> "none"]
  /\ cpu_online = CPUs
  /\ cpu_changes = 0 /\ l2_refusals = 0 /\ l2_seen = {} /\ l2_stale = FALSE

L2Next ==
  \/ cpu_changes_rate \/ krait_l2_cpufreq_notifier \/ unheard \/ policy_updated \/ cpu_hotplug
  \/ work_begins \/ probe_updates \/ target_reads \/ update_sets \/ update_refused
  \/ l2_probe_begins \/ l2_probe_reads \/ l2_probe_registers
  \/ l2_remove_unregisters \/ l2_remove_cancels

L2Spec == L2Init /\ [][L2Next]_l2_vars

-----------------------------------------------------------------------------
(* Properties                                                              *)

Fastest(khz) == CHOOSE m \in {khz[c] : c \in cpu_online} :
                  \A c \in cpu_online : khz[c] <= m

\* The rate of entry i is the one for a fastest core at `khz'.
EntryFor(i, khz) ==
  /\ L2Map[i][1] <= khz \/ i = 1
  /\ \A j \in i + 1 .. Len(L2Map) : L2Map[j][1] > khz

\* "The cache takes the L2 rate of the highest table entry whose cpu_khz does
\* not exceed the fastest online core": once nothing is pending, the cache
\* runs at the rate for the cores as they are now, however changes, readings
\* and the work item interleave.  A core counts with the rate probe read until
\* its first change after the notifier was registered; a core that came or
\* went and a rate that was refused show at the next change only.
L2Follows ==
  l2_pc = "bound" /\ ~l2_queued /\ ~l2_running /\ ~l2_stale
                  /\ (\A c \in CPUs : cpu_change[c] # "changed")
    => \E i \in DOMAIN L2Map :
         /\ l2_clk = L2Map[i][2]
         /\ EntryFor(i, Fastest([c \in CPUs |-> IF c \in l2_seen THEN cpu_rate[c]
                                                              ELSE l2_khz[c]]))

\* When remove has returned, and devres has freed the structure, the work item
\* is neither pending nor running.
L2Gone == l2_pc = "unbound" => ~l2_queued /\ ~l2_running

\* Both, whatever is bound, unbound, changed and refused in between.
L2Serves == L2Follows /\ L2Gone

=============================================================================
