# Xperia Z2 (sirius) Linux: specifications and proofs

TLA+ models of the drivers in this repository, the TLC runs that check them on
small instances, and proofs about all fourteen of them that hold for
instances of every size. Paths below are relative to the repository's root;
`PROJECT.json` maps every definition to the lines it stands for.

    tlc -workers 2 -config MCQ6Voice.cfg MCQ6Voice.tla
    tlapm Q6SessionProofs.tla
    tlapm Q6CallProofs.tla
    tlapm Q6VoiceProofs.tla
    tlapm WcnssFmProofs.tla
    tlapm Max1187xPowerProofs.tla
    tlapm Max1187xReportsProofs.tla
    tlapm WcdProofs.tla
    tlapm DriversProofs.tla

## 1. The system

The repository is what a mainline kernel needs to run a phone of 2014: a dozen
out-of-tree drivers, patches to others, device trees, and scripts. The parts
share little state with each other, so there is one model per part and they
compose only inside the audio path. What the parts have in common is their kind
of difficulty: each talks to another processor or chip that answers when it
likes, or never, through callbacks and interrupts that run between any two steps
of a caller.

| Part | State | Operations | What is hard about it |
|---|---|---|---|
| **q6voice sessions** `drivers/audio/q6voice/q6voice-common.c` | the session table of a service, a session's kref, handle, expected opcode and result | create, send with a 300 ms wait, release; the APR callback | the callback looks a session up while it is released; answers are matched by opcode alone, so a late one acknowledges the next command |
| **q6voice paths** `q6voice.c`, `q6voice-dai.c`, `q6mvm.c`, `q6cvp.c`, `q6cvs.c` | per path: mutex, runtime, started bits, three sessions; module parameters; what is set up on the DSP | prepare and shutdown of two PCM directions, start and stop of a path command by command, probe and remove | any of a dozen commands fails half way; parameters are read again on the way down; two threads in any order |
| **FM radio** `drivers/fm/radio-wcnss-fm.c` | the list of open files, `fm->lock`, completion, pending opcode, status, `enabled` | open, close, tune and friends, hardware seek, the rpmsg callback, probe, remove | first-in and last-out decisions; the callback takes no lock; time-outs and late answers |
| **Touch** `drivers/touch/max1187x.c` | `reset_sem`, `i2c_mutex`, suspend flags, interrupt depth; report readers; the boot loader | resets from four places, suspend and resume, both halves of the interrupt; reading reports; firmware update | a semaphore taken by one thread and released by another; an edge-triggered interrupt that is dropped in a window |
| **Krait L2** `drivers/cpufreq/krait-l2-cache.c` | last rate of each CPU, rate of the cache | notifier, work item, probe, remove | a change lost between first update and registration; a failed change that is not retried; the work item against remove |
| **PMIC clock divider** `drivers/clk/pmic-clkdiv/` | enable bit and divider | enable, disable, set_rate, round_rate | a set_rate that fails half way; rounding at both ends |
| **Sound card** `drivers/audio/msm8974-sndcard.c` | the operations of each link, the clocks of an MI2S interface | startup, shutdown per direction, hw_params | two directions share the clocks, and nothing counts them |
| **WCD9320 codec** `drivers/audio/wcd9320/` | registers, reference counts, class H users, channel lists, SLIMbus streams and ports | bring-up, controls, DAPM events, DAI operations | controls move while streams run; events of several paths, in DAPM's order, on shared counts |
| **FM capture repair** `drivers/audio/fmrepair/pcm_fmrepair.c` | ring, burst tracker, list of blanks | one transfer | a blank has to be known before its first frame is given out |
| **Panel** `drivers/panel/panel-sony-sirius.c` | supplies, reset line, time of the last power-off | choice of the variant, prepare, enable, disable, unprepare | four orders in one set of functions; failures between two steps |
| **Front camera** `drivers/camera/imx132.c` | runtime PM, streaming, controls | probe, remove, enable and disable streams, controls, power on and off | unwinding; values set while the sensor is off or half configured; the order of exposure and frame length |
| patches, modem services, userspace, tools, device trees, docs | | | not drivers of this repository, data, or scripts without state of their own |

How they interact: ALSA calls the q6voice DAI from two PCM threads; the DAI calls
the paths, the paths call the session layer, and the session layer exchanges
packets with three services on the audio DSP, whose answers arrive on an APR
workqueue. `holdpcm.c`, `voicehold.sh` and `tools/call-say.sh` are the users of
that PCM and of its module parameters. The FM driver meets V4L2 above and an rpmsg
channel below. The touch driver meets sysfs, the power management core and its
interrupt; `userspace/systemd/50-sirius-resume` rebinds it after every resume.

What makes each part correct:

* *sessions*: no use after free and no leak whatever the callback's timing; a slot
  is always free for the next session; a session always talks to a handle that
  exists; success means that the DSP did something.
* *paths*: the voice is up on the DSP exactly while the directions it waits for
  are prepared; a failure leaves nothing behind; commands keep their order.
* *FM*: the receiver is on exactly while some file is open; success means the tuner
  did it; a seek returns for its own search; every call returns.
* *touch*: one reset at a time, and each of them ends; the chip sleeps with the
  system and works again afterwards.
* *FM repair*: a frame of a burst is never played as it came in, and what replaces it
  is drawn between frames that are there.
* *L2, clocks*: the cache's rate follows the fastest core once nothing is pending; a clock runs
  exactly while it has users and is gated while its factor changes.
* *card, codec*: a stream runs on the channels the DSP was told of, and leaves neither ports
  nor the bus behind; what several paths share is on while one of them is.
* *panel, camera*: supplies, reset and commands keep their order; what was turned on is turned
  off once, also when something fails in between; a stream shows what the controls say.

## 2. What is modelled

| Module | Models | Status |
|---|---|---|
| `Q6Session` | one session slot of one service: caller, APR callback, DSP | done, proved about |
| `Q6Call` | the contract of one call of `q6voice_common_send()` | done, implemented by `Q6Session` |
| `Q6SessionProofs` | theorems about `Q6Session`: memory and handles | done |
| `Q6CallProofs` | theorems about its answers, the refinement of `Q6Call`, its leaks | done |
| `Q6Voice` | voice paths, DAI threads, module parameters, removal | done, proved about |
| `Q6VoiceProofs` | theorems about `Q6Voice` | done |
| `WcnssFm` | the FM driver, its callback and the tuner | done, proved about |
| `WcnssFmProofs` | theorems about `WcnssFm` | done |
| `Max1187xPower` | resets, suspend and resume of the touch controller | done, proved about |
| `Max1187xPowerProofs` | theorems about `Max1187xPower` | done |
| `Max1187xReports` | reports, their readers, commands that expect one, removal | done, proved about |
| `Max1187xReportsProofs` | theorems about `Max1187xReports` | done |
| `FmRepair` | the capture plug-in that repairs the FM radio's sound | done, proved about |
| `KraitL2` | the cache scaling driver under cores that change rate, go and come | done, proved about |
| `PmicClkDiv` | the clock dividers of the PMIC under the clock framework | done, proved about |
| `Imx132` | the front camera: probe, power, streams, controls | done, proved about |
| `PanelSirius` | four panels: power, reset, commands | done, proved about |
| `WcdSlim` | the codec on SLIMbus: bring-up, channel lists, streams; the card's hw_params | done, proved about |
| `WcdPower` | the codec's power events with the class H block | capture, headphones, companders; proved about |
| `WcdProofs` | theorems about `WcdSlim` and `WcdPower` | done |
| `SndCard` | the sound card's links and MI2S clocks | done, proved about |
| `DriversProofs` | theorems about `Imx132`, `PanelSirius`, `SndCard`, `KraitL2`, `PmicClkDiv` and `FmRepair` | done |
| `MC...` | instances for TLC; `MCDrivers` is one for the seven modules above and `FmRepair` | |

### Q6Session

Variables are the code's: `mem` is the sessions kzalloc() can hand out, with their
`ref`, `handle`, `expected` opcode and `failed` result; `slot` is
`svc->sessions[path]`. The caller (`pc`, `cur`, `op`, `ret`) runs
`q6voice_session_create()`, `q6voice_common_send()` and
`q6voice_session_release()`. Its steps end where the code lets go of a lock or
waits: `common_send_arm` is the assignment of the expected opcode under the
session's lock, `common_send_post` the packet, `common_send_done` and
`common_send_timeout` the two ends of the wait, `common_send_expired` the gap in
which a callback can still store an answer although the wait is over. The worker runs `common_callback` (look-up and
kref_get under `svc->lock`), `session_callback` (the match by opcode) and
`callback_put`. `dsp_serves` is external: it executes or refuses the next command,
answers it or does not. A command is known by its number in `log`, a history
variable, which is how a property can ask *whose* answer acknowledged a call.

`Q6Call` is what a caller may count on: a call that returns 0 was executed, or an
earlier call of the same opcode had returned without its answer. `Q6Session`
implements it under the mapping at its end (`KeepsContract`), and `Q6Voice` uses it
for every command it sends (its operator `send` with the set `owed`): this is
what lets the path model be three orders of magnitude smaller than the product of
both.

### Q6Voice

Every command of `q6voice_path_start()` and `q6voice_path_stop()` is an action
(`path_start_mvm`, `path_start_dual_control`, ..., `path_stop_detach_stream`),
each with the error label the code goes to, so that the DAI threads interleave
with parameter writes between any two commands. `dsp` is the set of things that
exist on the DSP for each path; `doubt` is the part the DSP did not confirm.
`cvs = "garbage"` is the uninitialised local of `q6voice_path_start()` when
`attach_stream` is off. Null session pointers and the garbage pointer lead to the
state "oops", so that reaching them is visible.

Services answer each on its own (commands of one service are served in the order
they were sent, as APR delivers them): a late answer can meet a command of the same
opcode to the same service and path only.

### WcnssFm

Files open, issue ioctls, seek and close, in threads of their own; `fm->lock` serialises them. A
command is four steps (`cmd_reinit`, `cmd_pending`, `cmd_send` and the end of its
wait), with the callback (`rx_event`, `rx_status`, `rx_complete`) between any two.
The tuner executes, refuses, or ignores commands in order, and ends a search when
it likes.

### Max1187xPower

The interrupt (`irq_handler_hard`, then the thread from `locks_i2c` to
`unlocks_i2c`), the sysfs entries "por" and "sreset", and the power management
thread. `reset_power()` is two steps on the reset line with a failure at each. The
chip boots when it likes, posts the report of its reset, and keeps the interrupt
line low until its reports are read; the interrupt fires on the edge only, and an
edge while it is disabled stays pending. This is what makes the order of
`enable_irq()`, `pm_suspended = false` and the reset in `resume()` matter. `propagate_report` waits for `report_sem` with
`i2c_mutex` held, without a time limit, as the code does (`:2464`); a reader who gives it back is no more here than the time this takes, and one
who does not, because its buffer was too short (`:1272`), is the step's other outcome, noted in `leaked`: from then on the interrupt thread
stays there with its next report, and whoever wants `i2c_mutex` waits too.

### Max1187xReports

`report_sem` is a permit to write `rx_report`. The interrupt thread (`irq_handler_soft`,
`propagate_report`, `propagate_combine`, the three steps of `process_rbcmd`, `propagate_readers`) takes it;
the last of the readers the report was passed to gives it back (`release_report`, or `get_report_done`
for one that was interrupted). Readers (`get_report` ... `release_report`) copy without a
lock; callers (`rbcmd_send_receive` ... `fw_ver_show`) share `rbcmd` with the interrupt
thread without one; `shutdown` propagates an error and then waits for everybody to
leave. The threads of the module take `i2c_mutex` and `report_mutex` as the code does, a section that
nothing else can observe being one step. Single steps inside `process_rbcmd()` are kept apart, since
its fields are not locked. The reset after an unreadable packet is `Max1187xPower`'s; here it only
empties the chip.

### FmRepair

One frame at a time goes through the parts of `fm_transfer()`, which `step` names: `receive`;
`classify`, the first lines of `track()` included; the end of a burst (`stay_open`, `close_locked`,
`close_ignored`, `close_unlocked`); `predict_missed` or `predict_none`, which also count the
frame as classified; and `emit` or `emit_silence`. Frame numbers are the state: the ring itself
is left out, and what a frame holds is an input, outlier or not, so that every run of
outliers that any sound could cause is considered. `period` is a double in the code and is only ever used
rounded; the model keeps the rounded value and lets each smoothing step end anywhere
between the old period and the measured one, which contains what the code computes.
`Periods` counts the periods in a distance as the code does, for any period that rounds to
the one kept.

### KraitL2

`krait_l2_target_hz()` reads `khz[]` core by core without a lock (`target_reads`), while the
notifier writes it; the work item's pending bit goes before it runs (`work_begins`). A rate
change is three steps of cpufreq: the core runs at the new rate, the POSTCHANGE notifiers,
then `policy->cur`, which is what `probe` reads. `l2_seen` and `l2_stale` are history: the cores heard of
since registration, and whether something happened that the driver is not told of.

### PmicClkDiv

`set_rate()` is one step per register access, each of which may fail; `enable` and `disable`
are one access each. The framework's part (count of users, rounding first, `recalc_rate` after) is
external. An access that fails half way is remembered in `div_unsure`.

### Imx132

A call is the list of its writes (`cam_todo`), made from the code's order: `imx132_configure`, then
the handler set-up, then the mode. V4L2 commits a control when its write has succeeded. `Stages` and
`Unwound` are probe's stages and the labels they unwind to.

### PanelSirius

A call is a script of steps made from the panel's description as
`sirius_panel_power_on()` and `_power_off()` do; `Step...` say what a step does to supplies, line,
panel and clock. `panel_off_time` is the driver's note, `panel_cold` is when vddio really went.

### WcdSlim and WcdPower

`WcdSlim` keeps for each interface the list of its channels, as the controls make it, and for each
stream what `hw_params`, `prepare` and `trigger` leave: the map the DSP was given, the channel array (freed
by DAPM when the interface goes down), what the bus has prepared. A receive port has one mux. A transmit port has a switch on
every capture interface, and the interfaces share one bit for it, `tx_port_value`, which alone decides whether a write changes a list
(`tx_relist`); DAPM keeps the switches apart (`slim_paths`). Any value may be written at any time, the one that is set included, so that
bit, switches and lists come apart as they do in the code. Calls to the bus and register writes may fail wherever the driver makes them. Its
stop ignores what fails (`trigger_stop_fails`): a refused disable or unprepare leaves the stream on the bus, a failed write leaves a port on.
A start whose channel array was freed reads freed memory; there is no step for it, and `SlimStarts` says when it cannot come to that.

`WcdPower` is the set of bits that are set and the counts: one operator per event handler, and four DAPM steps that call them
for a widget.

### SndCard

Which links become back ends (`msm8974_add_ops`), and startup and shutdown with each of the three requests
to the DSP refused. The clocks have no count, in the code and in the model.

## 3. What the runs check

| Run | Question and answer | Distinct states |
|---|---|---|
| `session` | two session structures, three handles, four commands: memory, slot, handle and answers stay consistent (`MemorySafe`, `HandleAlive`, `OkMeansExecuted`, `LeaksAccounted`), `Q6Session` implements `Q6Call` (`KeepsContract`), every call returns | 579 000 |
| `voice_default` | default parameters, three commands going wrong: the session is up iff wanted (`UpIffWanted`), a close leaves nothing behind (`NothingHeld`), `NoOops`, `CallsReturn` | 248 000 |
| `voice_own_stream` | the optional modes, `voice_path` rewritten at any time, one refusal: commands keep their order (`InOrder`), in-call playback ends with its call (`PlaybackStopped`) | 2.8 million |
| `playback_outlives_call` | **violated**: see findings | |
| `stream_left_attached` | **violated**: see findings | |
| `fm_commands` | five commands, one of them answered late or never: the receiver is on while a file is open and off when none is (`OnWhileOpen`, `OffWhenClosed`), success is the tuner's, a seek returns for its own search and ends (`SearchSound`), every call returns although the tuner may be silent | 770 000 |
| `fm_overlapping_opens` | **violated**: see findings | |
| `touch_power` | two suspends, one touch, one failed operation, resets at any time: `reset_sem` is taken and released once per reset (`ResetSound`), the chip sleeps with the system and works afterwards (`ChipFollows`), `NothingNoted` (why a branch of `resume()` can be left out), suspend and resume return unless `report_sem` has leaked (`CallsReturn`) | 509 000 |
| `touch_resume` | **violated**: see findings | |
| `touch_reports` | five casts of readers, callers and an unbind: `report_sem` is one permit and a reader copies the report it was given (`ReportSound`), `OkMeansReport`, `CallsReturn`, `ShutdownEnds` | 94 000 |
| `touch_teardown` | **violated**: see findings | |
| `drivers` | eight parts, see below | 2.5 million |

`drivers` runs eight modules that share no state, each behaviour being one of one of them: they
would not gain from being interleaved, and a deadlock check would say nothing of a device that may rest.

| Part | Properties |
|---|---|
| `FmRepair` | every pattern of outliers over 46 frames, with restarts: a window is known before it is played (`InTime`, `PredictedInTime`), still in the list then (`RepairSound`), and its ends are in the ring (`Anchored`) |
| `KraitL2` | `L2Serves`: with nothing pending the cache has the rate of the fastest core (`L2Follows`), and remove leaves no work item behind (`L2Gone`) |
| `PmicClkDiv` | `DivServes`: a clock runs for its users (`DivRunsForUsers`), its factor is written while it is gated (`DivWritesGated`), and `set_rate` does what `round_rate` promised (`DivRateAsPromised`) |
| `Imx132` | `CamShows`: the exposure fits the frame between any two writes (`CamExposureFits`), a stream shows the controls (`CamAsSet`); `CamReleased`: every way out gives back what it took |
| `PanelSirius` | `PanelSequenced`: order of supplies, reset and commands (`PanelInOrder`), a panel at rest is off or lit (`PanelSettled`), the power-down period (`PanelRests`) |
| `WcdSlim` | `SlimRouted`: devices reachable before they are used (`SlimReachable`), lists that agree with bits, muxes and switches as far as the code keeps them together (`SlimLists`); `SlimStreams`: a running stream is on the bus with the channels the DSP knows (`SlimStarts`), `stream_up` is what the bus has (`SlimOnBus`), a stream that does not run is off the bus (`SlimTakenDown`) and a stopped one has its ports off (`SlimPortsOff`) |
| `WcdPower` | `PowServes`: what is on finds what it needs (`PowPowered`), decimators follow their control (`DecFollows`); `PowReleased`: what nobody uses is off |
| `SndCard` | `CardClocked`: an interface has both clocks while a stream runs, and none otherwise |

What `SlimLists` says of a transmit port is all the code keeps: the port is on one list while its bit is set and on none otherwise,
only on the list of an interface whose own switch is on, and on that list whenever the switch is on, unless some switch of the
port was written while another interface's list had it (`slim_crossed`). Set the switch of AIF1, then that of AIF2, and clear either: the other
reads as on to DAPM, and the port is on no list. Each exception of `SlimStreams` has a history of its own: `loose` the ports that left the list after the DSP
was told of them or whose write failed in the stop, `retold` a list that changed between the card's look at it and the codec's, `cut` an interface
a control has powered down, `kept` a stream that `keep_stream` has kept, `refused` a call the bus refused after a prepare or in a stop. Without
any one of them the property is violated; with all of them a stop that fails at one port or one call still has to do the rest.

### Bounds, and why they are enough

* `Q6Session`: two session structures, because the caller holds at most one and the
  callback at most one that the caller already released; three handles, because
  one may leak and one may be on its way; four commands make a create that times out,
  another that takes its late answer, a command and a destroy possible. The safety
  properties are also proved without bounds.
* `Q6Voice`: one path where the paths are independent, two where `voice_path` is
  rewritten; the third (`Paths` has 0 and 2 for VoiceMMode1 and VoLTE) would behave
  like the second. Three faults cover a failure, a failure while undoing it, and a
  late acknowledgement of either.
* `WcnssFm`: two files are what a first and a last need. `MaxSends` bounds the calls that
  are begun, and `MaxLate` lets no more of them begin once two answers are missing; a call that has begun goes on to its end, and the
  `DISABLE` of a last close does not count, so that no bound ever keeps the model from returning or closing.
* `Max1187xPower`: two suspends, because `is_suspended` may stay set over the first
  resume; one touch and the resets' own reports make two reports wait in the chip at
  a time; one failed operation. Resets from sysfs are not bounded.
* `Max1187xReports`: three readers and two slots, so that one finds them all taken; two
  callers, because a third would wait like the second; one report waiting in the chip while
  another is being read; one unanswered command; one read with a short buffer. `Casts`
  says who is at work together: readers and callers meet only in the permit and the
  interrupt thread.

* `FmRepair`: the values of the `#define`s are scaled down so that 46 frames hold four periods, three misses
  in a row and two bursts of the greatest length. `DELAY` and `RING` are chosen with no frame to
  spare: with one frame less of either, `ConstAssumption` fails. Two windows in the list are the least with which one
  can push out another. The proofs need neither the scaling nor the bound on frames.
* `KraitL2`: two cores are a faster and a slower one; of the three pairs of the table one lies below all rates of the
  cores and one between them; three changes are one under probe, one under the work item and one after.
* `PmicClkDiv`: two clocks, two users each, one failed access; rates below, between and above the powers of two.
* `Imx132`: blankings of which one clamps the exposure; two failures are one in a call and one while recovering.
* `PanelSirius`: all four variants, a reading for each and one for none; two failures.
* `WcdSlim`: two receive ports and a transmit port on two interfaces of each direction, a stream of each direction, opened twice
  in total; three moves of controls are one before, one under and one after a stream, or the two sets and the clear after which a switch
  is on without its port.
* `WcdPower`: three boards, with the smallest sets of widgets that share something: two outputs of one bias, two biases
  of one filter, three converters; three decimators, one of each kind; headphones with a compander.
* `SndCard`: both directions of one interface, the capture of another, and a link of each other kind; two refusals.

`CHECK_DEADLOCK FALSE` appears where a bound on commands, or a device that is gone,
really ends a behaviour, and in the runs of the touch driver where everybody ends up waiting for a `report_sem` that has leaked, which is
what the code does; `CallsReturn` says that without a leak nobody waits for ever. `voice_default` checks for deadlock, and so does `touch_resume`.

### Fairness

Threads that can run do run, and timers expire: weak fairness of each thread's own
steps. In `WcnssFm` it is only asked of the thread that holds the lock or waits for an answer. A kernel mutex hands over to a waiter that has been overtaken, so taking one is
strongly fair. Nothing is assumed of the DSP, the tuner, the touch chip or of
userspace: `CallsReturn` holds although they may never act, because every wait for
them is bounded (300 ms in `q6voice_common_send()`, five and ten seconds in the
FM driver, one and three seconds in the touch driver). One wait in the code is not: that of `propagate_report()` for `report_sem` (`max1187x.c:2464`), with
`i2c_mutex` held. It ends when the readers of the last report have run on to `release_report()`, which fairness of a kernel thread
that can run gives, or never, if one of them has left without it (`:1272`). `CallsReturn` of both touch modules, and `ShutdownEnds`, except a driver
this has happened to (`leaked`).

### History variables

`due`, `doubt`, `amiss`, `leaked` of `Max1187xReports`, `raced`, `spoilt`, `slim_crossed`, `expired`, `lost`, `answer`, `executed`, `found` and `log` record what
happened and steer nothing. Properties use them to say *unless the other side left us
in doubt*: without that exception none could hold of code whose peer may stay silent,
and with it a failure that the code could have handled still counts. The mutant of
each property (a plausible bug in a mapped definition) shows that it does.

## 4. Findings

* **In-call playback outlives the call** (`playback_outlives_call`). `path_stop()` reads
  `playback_port` again; `tools/call-say.sh` sets it to 0 while the call is up, and
  the DSP keeps playing into the next one, which is what the comment at
  `q6voice.c:275-280` says must not happen.
* **A stream stays attached** (`stream_left_attached`). A start that fails after
  `q6mvm_attach_stream` goes to an error label that does not detach it, and a path that
  is not started is freed without `path_stop()`.
* **Two opens that overlap leave the receiver off** (`fm_overlapping_opens`). The file is
  added to the list before `fm->lock` is taken; each sees the other and neither is
  first. `drivers/fm/README.md:44` promises the contrary.
* **Touch is dead after resume** (`touch_resume`). `resume()` enables the interrupt,
  resets the chip inside `set_resume_mode()`, and clears `pm_suspended` only then. The
  chip is up within the 6 ms `reset_power()` sleeps, its interrupt is taken while
  `pm_suspended` is set, and `irq_handler_hard()` drops it. No further edge comes, since nobody
  reads the report; `reset_sem` is never released, and later resets log
  `irq reset timeout`. `docs/known-problems.md:294` leaves open whether the repaired
  resume path is sufficient; this says that it is not.
* **An unbind hangs** (`touch_teardown`). A reader that `shutdown()` has woken is still in its slot until it
  has taken `report_mutex`; a report propagated in between counts it as outstanding, and
  `get_report()` gives that up only for a wait that failed. `report_sem` is lost,
  the interrupt thread waits for it for ever, and `free_irq()` for the interrupt thread.

Smaller things met while modelling, without a run of their own: with `playback_port` set
and `attach_stream` off, `q6voice_path_start()` uses `cvs` uninitialised
(`q6voice.c:206`), and here the model takes either outcome; with `require_both` off a start that failed leaves
its runtime after the PCM is closed, and device removal stops a path only if both
bits are set; a soft reset of the touch chip that comes
between a hardware reset and its report makes the chip forget the report, and
`reset_sem` with it (the part `ResetSemKept` of `ResetSound` excludes just this); a read of "report" with a buffer too short never gives the
report back (`leaked`), and the next suspend waits for the interrupt thread for ever; an answer may be copied to, or looked for by, a call that began or ended inside
`process_rbcmd()` (`raced`); a soft reset may also be answered by the report of
another reset, and a suspend that follows finds a chip about to start again
(the part `Sleeping` of `ChipFollows` excludes just this). In the repair plug-in, a prediction whose time is up while
another burst is under construction is looked at only after that burst has ended
(`pcm_fmrepair.c:186`). If that burst is then ignored for being off phase, the predicted window
is blanked after it was played, if at all, where the comment says "blank it anyway"; `PredictedInTime` excludes
just this. A corrupted stretch longer than `MAX_BURST` is cut into several bursts, and the frame after the first
window, to which it is interpolated, may then be a corrupted one of the second. Off-phase bursts
can carry `period` outside `P_MIN` to `P_MAX`.

In the drivers of the run `drivers`, each excepted in the property it would break: a rate the L2
clock refuses is tried again only at the next change (`krait-l2-cache.c:79`), and a change
between the probe's reading and the registration is missed (`:157`). A `set_rate()` of the divider that
fails after gating leaves the clock off under its users (`clk-spmi-pmic-div.c:158`), and `recalc_rate()` uses an
uninitialised factor when its read fails (`:133`). A second supply of the panel that fails does not note the
time (`panel-sony-sirius.c:589`). A control moved during a stream leaves the ports of the old list enabled
(`wcd9320.c:2554`), and can free the channel array the next start reads (`:834`, `:2625`); a stream that cannot be
enabled, or that the bus refuses to take down, stays prepared, and every later start is refused (`:2631`, `:2644`); a port whose
write fails in the stop stays enabled (`:2556`); clearing a capture switch of one interface takes the port from another's list (`:552`). One output of a bias takes it from the
others (`wcd9320.c:1332`); ADC5 and ADC6 never ask for the converters' clock (`:3915`); the prepare of a playback
clears the clocks of other interpolators (`:2595`); DEC6 set to ADC1 is given the digital microphone (`:593`), and
`tools/mic-test.sh:21` uses that very selection. The class H counts only grow (`wcd-clsh.c:182`). The first of
two directions to be shut down stops the clocks of both (`msm8974-sndcard.c:134`).

## 5. What is proved

`Q6SessionProofs.tla`, from `NamesAssumption` alone (the opcodes are different, NULL is
none of them), for every number of sessions, handles, opcodes and commands:

| Theorem | States |
|---|---|
| `Inductive` | `Spec => []IInv` |
| `TypeCorrect` | the type invariant |
| `MemoryIsSafe` | `MemorySafe`: no use after free, no early free, no leak |
| `SlotIsFree` | `SlotFree`: no create meets -EBUSY (proved only, not part of a run) |
| `HandleStaysAlive` | `HandleAlive`: a session's handle exists on the DSP |

The first four follow from `IInv == TypeInv /\ MemInv`. `MemorySafe` is not inductive:
that a callback's put frees a session at the right moment depends on where caller and worker are, so `MemInv` says for each
value of the two program counters which pointers are held and whether the slot still
holds the session. `TypeOK` alone is not inductive either, as the decrement of a kref
needs `ref > 0`.

`HandleAlive` needs an argument about the wire. A handle of the DSP is, at any time,
in at most one of these places: in the answer to a create, on the wire or in the
worker's hands; in the session that the caller keeps; in a destroy that is under way.
`HandleInv` states this as eight conjuncts (`GivenAlive`, `GivenOnce`, `DeliveredAlive`,
`CreatesNowhere`, `DoomedAlive`, `DoomedOnce`, `KeptAlive`, `NoHandleYet`), and there is one lemma for
the caller's steps, one for the worker, one for posting a command, and one for the
DSP. The point is that a late answer to a create that timed out gives the *next* create
its handle, and that this handle is alive too.

`Q6CallProofs.tla` goes on from there, to what an answer means:

| Theorem | States |
|---|---|
| `SessionInvariant` | `Spec => []Ready`, with `Ready == IInv /\ HandleInv /\ AnswerInv` |
| `SuccessIsExecution` | `OkMeansExecuted`: a call that returned 0 was executed, or took the answer of an earlier one of its opcode that had timed out |
| `ContractKept` | `KeepsContract`: `Q6Session` implements `Q6Call` |
| `NothingLost` | `LeaksAccounted`: the DSP has no more sessions without one of the driver's than creates and destroys failed for their caller |

A command is known by its number in `log`. `WireInv` says that worker, answers and commands on the wire are in
the order of the log, and `PendInv` that each of them comes after the answer taken last and is either the present
caller's own (`Own`) or of an opcode for which a call had timed out by then (`Excused`). Callbacks match by opcode only,
so this order is all there is to tell answers apart. `StaleInv` covers a worker that still delivers to the session of an earlier
caller: it cannot have touched the present one. `ExecInv`, `CallInv` and `RetInv` carry what was executed to the
return. The refinement is then one lemma per action: it maps to a step of `Q6Call` or to a stutter. `NothingLost` counts: the sessions alive and
the creates on the wire are together at most those lost and the one the caller has (`LeakInv`); that a destroy takes
the answer to itself and a successful create has a handle (`SpentInv`, `OutcomeInv`) makes the count come out.

`Q6VoiceProofs.tla`, from `ConstAssumption` and what each theorem assumes of the parameters:

| Theorem | States, for any number of paths, calls and commands that go wrong | Assumes |
|---|---|---|
| `UpIffWantedAlways` | `UpIffWanted` | `Cold` |
| `PlaybackStoppedAlways` | `PlaybackStopped`: in-call playback never outlives its path | `Steady` |
| `InOrderAlways` | `InOrder`: every command finds the DSP in the order it needs | `Steady` |
| `NoOopsAlways` | `NoOops`: no null and no uninitialised pointer is followed | `Steady`, `Paired` |
| `NothingHeldAlways` | `NothingHeld`: no runtime, nothing on the DSP after a close | `Steady`, `BothRequired`, `NoStream` |

`Cold`: `require_both` and `voice_path` are written only while no voice PCM is open. `Steady`: `playback_port` neither.
`Paired`: nor is `attach_stream`, and there is no port without it. `BothRequired` and `NoStream`: both directions are
waited for and no stream is attached, which are the defaults. None of them can be dropped: without `playback_port` in `Steady` there is the
violation `playback_outlives_call`, without `NoStream` there is `stream_left_attached`, without `Paired` `cvs` is read
uninitialised. `Cold` and the others hold of the instance of run `voice_default`. The run `voice_own_stream` rewrites `voice_path` at any time as well;
there `InOrder` and `PlaybackStopped` are checked without being proved.

`UpIffWanted` speaks of paths whose mutex is free; `VoiceInv` adds what is known of a path while a thread is inside.
`Knows` says it label by label: what `path_start()` has set up so far, and at the error labels and in `path_stop()` what is
no longer running, so that each command finds what the one before left (`Answered`). `Owned` makes this a statement
about one thread: who is inside holds the mutex. `Opened` ties the bits of `started` to the open directions; it
is there that `Cold` is needed: a close that looks for its path by a new `voice_path` leaves the bit of the old one set, and
once `require_both` is rewritten such a path counts as wanted although nobody brought it up.

The other four rest on `HeldInv`. `Holds` says label by label which sessions a thread has and what it still has to
take down, `Left` what an idle path may have, and `Covered` that a CVP or CVS on the DSP belongs to a session the path
keeps, and playback to a stream and a port that are still set; each up to what the DSP did not confirm.

`WcnssFmProofs.tla`, from `ConstAssumption`, for any number of files, commands and late answers:

| Theorem | States |
|---|---|
| `FmInvariant` | `Spec => []FmInv` |
| `OnWhileOpenAlways`, `OffWhenClosedAlways` | `OnWhileOpen`, `OffWhenClosed`, when opens and closes do not overlap (`Overlap = FALSE`; with `TRUE` there is the violation `fm_overlapping_opens`) |
| `SearchSoundAlways` | `SearchSound`: a seek returns for its own search, and no search outlives it, up to commands the tuner did not confirm |
| `CommandsExecuted` | `OkMeansExecuted`: success is the tuner's, to this command or to one given up |

Commands, events and the answer carry the numbers of their commands. `OrderInv` says that these never go down
from the answer to the callback, the events and the commands, `FlightInv` that what is under way is the present command's
or that of one in `amiss`, and `StatusInv` that the status is the present answer's. `OnInv` and `SearchInv` say what the tuner does while an answer is on its
way: an enable whose answer is in flight and says success is on already. `HolderInv`, `ListInv` and `UsersInv` tie `fm->lock`, the list of open
files and `enabled` to where the threads are.

`DriversProofs.tla` is about five drivers and the plug-in `FmRepair`. `CamReleasedAlways`, `PanelSequencedAlways` and `CardClockedAlways` assume nothing of
their constants; the others need `CamAssumption` (lines and blankings are numbers, the least exposure and the default one fit the frame), `L2Assumption` (there is
a core, the table is not empty, rates are numbers) and `DivAssumption` (a crystal of at least 64 Hz and below 2^31):

| Theorem | States |
|---|---|
| `CamReleasedAlways` | `CamReleased`: however probe fails and after remove nothing is held, on or enabled, and no path of a call keeps a reference or gives back one too many |
| `CamShowsAlways` | `CamShows`: between any two writes of a call the exposure fits the frame, and a stream shows what the controls say, for any blankings |
| `PanelSequencedAlways` | `PanelSequenced`: for each of the four panels, any readings and failures, supplies, reset line and commands keep their order, a panel at rest is off or lit, and it has rested before it is powered on |
| `CardClockedAlways` | `CardClocked`: a started stream has both clocks, an interface without one has none, and a port with a codec drives word select itself |
| `L2ServesAlways` | `L2Serves`: with nothing pending the cache has the rate of the fastest core, for any cores, rates and table, and remove leaves no work item |
| `DivServesAlways` | `DivServes`: a clock runs for its users, its factor is written while it is gated, and `set_rate` does what `round_rate` promised, for any crystal, rates and number of clocks |

`CamReleased` says what holds when no call runs; `CamInv` says who has which reference at any time: the usage count is
the number of a stream, a call and probe (from the stage that enables runtime PM to its last line) that are there, and
`HeldAt` what is set up at each stage. The lemmas `StageOrder` and `Unwinds` compare the order of the stages with
the labels.

`CamShows` needs to know what a call has still to write. `ShowInv` says it for each list of writes that can be left (`AtConfigure`, `AtStart`, `AtCtrl`,
`AtStop`): up to the clamp of a start the exposure may be too long, but the sensor is in standby; while a shorter frame waits behind its clamp
the old frame still fits; and from a write on, the sensor has what the control says. `FitsMax` is what is left between calls: the range of the exposure
is that of the blanking, also when the sensor was off and nothing was written. `CamPowered` carries the power through, so that
a sensor found on has its registers. All of it holds until a write fails (`cam_failed`), as the property does. `CamAssumption`
is the file's: the default exposure is capped when the control is made (`imx132.c:403`), and the least blanking (`:95`) leaves room for an exposure of 1.

`PanelInv` likewise has one line for each remainder of a script: `JdiPrepares`, `SharpPrepares` and `AuoPrepares` for the three orders in which prepare
moves the reset line, `GoesDown` for a power-off, with the line pulled low before vsp or after. `Prepared` is what a prepare leaves to the enable: the Sharp awake,
the AUO lit, and the enable brings the other half. `Noted` ties `off_time` to when vddio went off, as long as the driver is bound. `PrepareScript` and `PowerOffScript` spell out
the scripts that the model concatenates from a description, by `Join2` to `Join9`, which the camera's `StartScript` uses too.

For the card, `CardInv` adds to `CardClocked` that a started link is a back end and that a link
with a codec has the operations of one; one lemma per request of the DSP shows which interfaces it leaves alone.

`L2Inv` says in `L2Scanned` what the work item's maximum is of, half way through its look at the cores, and in `L2Settled` that the clock has the rate
for it afterwards; a notifier in between queues the work item again. That a table has a highest entry below a rate needs no induction over
sets: the numbers are well-founded, so a set of them has a least element, and a bounded one a greatest (`LeastOf`, `GreatestOf`). For the dividers, `DivGates` is
`DivRunsForUsers` with the gap `set_rate()` leaves, and `DivUnderWay` how far it is. The arithmetic is in `Rounded`: the quotient of the crystal
and of the crystal's quotient by 2^k lies between 2^k and 2^(k+1), so that its logarithm is k again and rounding twice changes nothing.

`DriversProofs.tla` also proves what is known of `FmRepair`, from `ConstAssumption`, which says how `DELAY` and `RING` have to be chosen for
the lengths of a burst, its margin, the classifier's window and the tolerance of predictions. The `#define`s of the
file satisfy it (135 and 189 frames are needed of a `DELAY` of 192), and the theorems
hold for any others that do, for streams of any length:

| Theorem | States |
|---|---|
| `Inductive` | `Spec => []IInv` |
| `TypeCorrect` | the type invariant; the list never exceeds `MAX_BLANKS` |
| `BurstsInTime` | `InTime`: an accepted burst is blanked before its first frame is played |
| `PredictionsInTime` | `PredictedInTime`: so is a prediction that failed, if nothing delayed it |
| `EndsInTheRing` | `Anchored`: the two ends of an interpolation are in the ring |
| `RepairSoundAlways` | `RepairSound`, if `Room`: a frame of an accepted burst is never played as it came in |

`IInv` adds three facts to the types. `Position`: within a transfer the classifier is `HALF + 1` frames
behind the newest frame and the output `DELAY` frames, by one more or less depending on `step`.
`Young`: a burst under construction began at most `MAX_BURST + 1` frames ago. `Windows`: no
window is longer than the longer of a burst with its margins and a prediction. The in-time theorems
are then arithmetic on `Position` and `Young`; `Anchored` needs the length of windows, since a window is in the list
long after the step that made it.

`RepairSound` depends on how many windows come in while one is due, for a full list drops its oldest. From one burst to the end of the next the
classifier goes through `Gap` frames at least, the outliers and the quiet frames after them (52 with the `#define`s); a window is due for `Life` frames after the last outlier of its own (190), which is how far
the output is behind the classifier; and between two bursts the tracker misses three predictions at most before it lets go (`Losing`). So at most
four windows come in per burst, and `Room == 4 * (Life \div Gap) + 4 <= MAX_BLANKS` is enough. `RoomInTheFile` shows that the
`#define`s satisfy `ConstAssumption` and `Room`, the latter with equality: 4 * 3 + 4 is the 16 of `MAX_BLANKS`, so that a smaller list, a longer `DELAY` or a shorter `CLUSTER`
is no longer covered. `RepairInv` adds to `IInv` that each window that is due is in the list (`InPlace`) with
at most `4 * k + misses` windows behind it, where `k` bursts have come since, each of them having moved the classifier `Gap` frames on (`KeptAt`);
`StaysListed` and `NotDropped` show what adding a window and `emit()` do to a place in the list. `Room` counts frames only; a list can be smaller
if the period keeps predictions apart as well. The instance of the run is of that kind (two slots, which do not satisfy `Room`): there TLC checks `RepairSound` on its own.

`WcdProofs.tla`, from `SlimAssumption` (receive and transmit ports are different ones, no interface is number 0, which is
how a mux says "none", and streams are directions of interfaces) and `PowAssumption` (an output of a bias is routed with the
regulator, a headphone with the bias of its path, and only the codec's widgets are):

| Theorem | States |
|---|---|
| `SlimRoutedAlways` | `SlimRouted`: a receive port is on the list its mux points to, a transmit port on one list while its bit is set, only where a switch is on, and wherever one is on that was not written across interfaces; no register is accessed before its device is up |
| `SlimStreamsAlways` | `SlimStreams`: a stream runs on the channels the DSP was told of, `stream_up` is what the bus has, and a stop leaves neither channels nor ports behind, up to the exceptions the property names, with every bus call and register write of a start or stop free to fail |
| `PowServesAlways` | `PowServes`: what a widget that is on relies on is there, and it works on what the controls say |
| `PowReleasedAlways` | `PowReleased`: what nobody uses is off, and each count is the number of its users |

The first two hold for any ports, interfaces and streams, any number of controls moved, streams opened and calls that fail.
`SlimUp` says what each stage of the bring-up has. `ListsInv` says that a receive port is on the list its mux points to (`RxListed`), a transmit port on one list while
its bit is set (`TxListed`), and how lists and switches agree (`TxSwitched`); `Without`, the code's `list_del_init()`, takes the one occurrence of a channel off, and that a list names
no channel twice is part of the invariant and what makes this enough. `StreamOK` is about one stream and its list, in four parts: what the map is at
each state of the PCM (`MapOK`), when the channel array is there (`ArrayOK`), that `stream_up`, what is prepared and what is on the bus agree (`BusOK`),
and which ports are enabled (`PortsOK`). There is one lemma for each step, and `TakenDownIs` and `StopsStep` go through a stop in which any of the calls and writes
fail. Streams share the enabled ports; that no two lists have a channel in common keeps the stop of one
from disabling the ports of another.

The power theorems hold for any set of widgets routed together and any use of the class H block. `PowInv` has one part for each thing that is shared: the
regulator, the converters' clock (`AdcInv`), the filters and the biases (`BiasInv`), the class H block (`DacInv`), and so on, each
with its count and its bits. `PowNested`, a widget is up only while those it is powered after are on, is DAPM's order and carries the
regulator to the biases and the bias of the path to the headphones. An event moves only what belongs to the kind of its widget (`MovesOnly`, `BitKinds`, `KindsApart`):
there is one lemma per kind that its part is kept (`LdoStep` ... `DacStep`), and one that everything else of the codec is what it was (`OthersSame`). That the
counts are cardinalities of the sets of users is in `OneMore` and `OneLess`: the first user switches on, the last one off.

`Max1187xPowerProofs.tla`, from `ConstAssumption` (`Pors` are truth values, the bounds are numbers):

| Theorem | States |
|---|---|
| `ResetSoundAlways` | `ResetSound`: `reset_sem` is one permit, in the semaphore, with one thread or with one reset under way, neither doubled nor lost, over any number of suspends, touches and failed operations |
| `FollowInvariant` | `Spec => [](TypeInv /\ Permit /\ FollowInv)` |
| `ChipFollowsAlways` | `ChipFollows`: awake and at rest the chip has its settings and no unseen report, asleep it sleeps on low power |
| `NothingNotedAlways` | `NothingNoted`: `resume()` never finds `irq_on_suspend` set |

`ResetSound` is not inductive: that the interrupt thread gives the permit back once per reset needs that there is one
report of a reset at most. `Permit` adds that: the report is posted when the chip has booted, so a booting chip has none in
`out` and none with the interrupt thread, while the thread processes one there is no other in `out`, and `out` holds one
at most (`HeldOnce`). `PostsHeld` and `TakesHeld` say what posting and taking a report does to these facts. The types need
`DisabledOnce`, that `disabled` is 1 between the two ends of a suspend and of a resume's reset and 0 elsewhere.

`ChipFollows` compares the chip with the whole of a suspend. `ChipInv` follows a reset: a chip that lacks its settings has a report of that on its way
(`Told`), every soft reset is waited for, and an interrupt thread that finds nothing to read has been misled by a reset, which has
`reset_sem` or will be reported; this is why it cannot wake a sleeping chip. `SuspendInv` says at which lines of `suspend()` and
`resume()` the chip sleeps and the supply is low, and that `reset_sem` is free there, hence no reset under way. `EdgeInv`: a report that
waits has been announced. `ThreadInv`: who holds `i2c_mutex`, and that the interrupt thread is idle from the end of
`suspend()` to that of `resume()`, which is `disable_irq()`'s doing and what `NothingNoted` is about.

`Max1187xReportsProofs.tla`, from `ReportsAssumption` (there is a slot, the threads are different ones), for any readers, finitely many or
not, callers and slots:

| Theorem | States |
|---|---|
| `ReportsInvariant` | `Spec => []ReportsInv` |
| `ReportsSound` | `ReportSound`: `report_sem` is one permit, and a reader copies the whole report it was given |
| `AnswersMatch` | `OkMeansReport`: a call that returned 0 has the report it asked for |

`SlotInv` pairs slots in use with the readers that wait, one to one. With it `PermitInv` counts: `report_sem` is 0 while a report
is propagated and until the readers it was passed to, and those lost to a buffer too short, have given it back, and 1 otherwise. `PacketInv` says which report `rx_report`
is at each step of combining packets; `CallInv` and `FillInv` that the fields of `rbcmd` belong to the call that waits, and that what
is filled in has the id it asked for, unless the call is one of those that `raced`.

Every invariant and every action property that a passing run checks is stated by one of these theorems. Only model-checked:

* liveness (`CallsReturn`, `ShutdownEnds` and the other `~>` properties), which needs fairness and is beyond the prover;
* the invariants on instances that do not satisfy the assumption of their theorem: `RepairSound` where `MAX_BLANKS` does not satisfy `Room`, `InOrder` and
  `PlaybackStopped` in `voice_own_stream`.

## 6. Plan

Done: the voice stack, the radio, the touch driver's reset, power and reports, the repair plug-in, and in one run the
cache, the clock divider, the camera, the panel, the codec's streams and its power sequences, and the card. What is left, in this order:

1. `Max1187xFirmware`: `validate_fw()`, `device_fw_load()` and the boot loader, with the
   interrupt thread that `disable_irq()` waits for under `i2c_mutex` (`max1187x.c:1671`).
2. Services that register and go away in `Q6Session` (`q6voice-common.c:90`), and a WCNSS that restarts under an open
   radio (`radio-wcnss-fm.c:556`).
3. The codec's other outputs (earpiece, line out, speaker) and its MAD and ANC paths, in the way of `WcdPower`.
4. Proofs: that the period keeps predictions apart, which would weaken `Room`.

Abstract specifications worth stating next to `Q6Call`: a receiver that is on iff a file is
open (FM), and a permit that is in exactly one place (touch).

### Not modelled

The register tables of codec, camera and panels (data without control); the generated panel drivers, which
no board of this repository uses; device tree parsing and the conversion of touch reports into input events (no state
beyond one set of fingers); patches to kernel files that are not in this repository (there is no code to map to);
modem services, scripts and tools (no state of their own).
