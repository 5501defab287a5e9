------------------------------ MODULE WcnssFm ------------------------------
(***************************************************************************)
(* The FM radio driver for Qualcomm's WCNSS, radio-wcnss-fm.c.             *)
(*                                                                         *)
(* Userspace opens /dev/radio0 any number of times.  The receiver is       *)
(* enabled on the first open and disabled on the last close; fm->lock      *)
(* serialises opens, closes and ioctls, and with them the commands to the  *)
(* tuner.  Events arrive in the rpmsg callback, which takes no lock: it    *)
(* runs between any two steps of a command, and of a command that gave up  *)
(* long ago.                                                               *)
(*                                                                         *)
(* The tuner (external) serves commands in order, executes or refuses      *)
(* each, and answers it with a CMD_COMPLETE or a CMD_STATUS, or not at     *)
(* all.  The data of TUNE_STATUS (frequency, signal, stereo) is left out:  *)
(* it is overwritten by each event and steers nothing.                     *)
(***************************************************************************)
EXTENDS Naturals, Sequences, FiniteSets

CONSTANTS
  Files,     (* open files of the radio device                             *)
  Plain,     (* opcodes of the ioctls that send one command: tune, mute,   *)
             (* stereo mode, station parameters                            *)
  Overlap,   (* whether userspace opens or closes a file while another     *)
             (* open or close is under way                                 *)
  MaxSends,  (* bound: once so many commands were sent, no probe, open,    *)
             (* ioctl or seek begins; one that has begun still ends        *)
  MaxLate    (* bound: nor does one after more unconfirmed commands        *)

Opcodes == Plain \union {"ENABLE", "ANTENNA", "DISABLE", "SEARCH", "CANCEL"}

ASSUME ConstAssumption ==
  /\ Plain \intersect {"ENABLE", "ANTENNA", "DISABLE", "SEARCH", "CANCEL", "none"} = {}
  /\ "free" \notin Files
  /\ Overlap \in BOOLEAN
  /\ MaxSends \in Nat /\ MaxLate \in Nat

VARIABLES
  life,      (* where probe and remove are                                 *)
  held,      (* what they hold: channel, v4l2 device, controls, vdev       *)
  pc,        (* where each file is                                         *)
  fhs,       (* the files in the device's list of file handles             *)
  lock,      (* fm->lock: the file that holds it                           *)
  at,        (* where the holder is in wcnss_fm_cmd(), and in a seek       *)
  op,        (* the opcode of its present call                             *)
  cmd_done,  (* fm->cmd_done: completed and not yet waited for             *)
  pending,   (* fm->pending_opcode                                         *)
  status,    (* fm->cmd_status: TRUE if it is not zero                     *)
  seek_done, (* fm->seek_done                                              *)
  enabled,   (* fm->enabled                                                *)
  rx,        (* the callback: the event it is delivering                   *)
  cmds,      (* commands on their way to the tuner                         *)
  evs,       (* events on their way to the callback                        *)
  on,        (* the tuner's receiver is enabled                            *)
  searching, (* number of the search the tuner is at, or 0                 *)
  sent,      (* history: commands sent so far; each has its number         *)
  answer,    (* history: the event that a wait will take for its answer      *)
  found,     (* history: the search whose end a seek took for its own        *)
  amiss      (* history: the commands that no answer of their own confirmed *)

driver == <<life, held>>
files  == <<pc, fhs, lock>>
cmd    == <<cmd_done, pending, status>>
tuner  == <<cmds, on, searching>>
ghosts == <<sent, answer, found, amiss>>
vars == <<driver, files, at, op, cmd, seek_done, enabled, rx, tuner, evs, ghosts>>

\* The answer to no command, and the event of no callback.
NoAnswer == [kind |-> "none", op |-> "none", failed |-> FALSE, id |-> 0]

\* How far a behaviour is followed: commands needed by what is to begin.
Within(n) == sent + n <= MaxSends /\ Cardinality(amiss) <= MaxLate

-----------------------------------------------------------------------------
(* Probe and remove.                                                       *)

Resources == <<"channel", "v4l2", "ctrls", "vdev">>

\* wcnss_fm_probe() acquires one resource after the other.
probe ==
  /\ life = "probe"
  /\ \E n \in DOMAIN Resources :
       /\ n = Cardinality(held) + 1
       /\ held' = held \union {Resources[n]}
       /\ life' = IF n = Len(Resources) THEN "bound" ELSE "probe"
  /\ UNCHANGED <<files, at, op, cmd, seek_done, enabled, rx, tuner, evs, ghosts>>

\* A resource that is not to be had: the labels release all of the others.
probe_fails ==
  /\ life = "probe"
  /\ held' = {}
  /\ life' = "absent"
  /\ UNCHANGED <<files, at, op, cmd, seek_done, enabled, rx, tuner, evs, ghosts>>

\* kzalloc() and init_completion() begin a new probe.
probe_begins ==
  /\ life = "absent"
  /\ Within(2)
  /\ life' = "probe"
  /\ cmd_done' = 0 /\ pending' = "none" /\ status' = FALSE
  /\ seek_done' = 0 /\ enabled' = FALSE
  /\ UNCHANGED <<held, files, at, op, rx, tuner, evs, ghosts>>

\* wcnss_fm_remove(); an open file holds the module.
remove ==
  /\ life = "bound"
  /\ fhs = {}
  /\ \A f \in Files : pc[f] = "closed"
  /\ rx = NoAnswer
  /\ held' = {}
  /\ life' = "absent"
  /\ cmds' = <<>> /\ evs' = <<>>
  /\ UNCHANGED <<files, at, op, cmd, seek_done, enabled, rx, on, searching, ghosts>>

-----------------------------------------------------------------------------
(* wcnss_fm_cmd().                                                         *)

\* The holder of the lock begins a command.
Call(opcode) == op' = opcode /\ at' = "cmd"
Unlock == lock' = "free" /\ at' = "none" /\ op' = "none"

This(n) == [op |-> op, id |-> n]

cmd_reinit ==
  /\ at = "cmd"
  /\ cmd_done' = 0
  /\ answer' = NoAnswer
  /\ at' = "reset"
  /\ UNCHANGED <<driver, files, op, pending, status, seek_done, enabled, rx, tuner, evs,
                 sent, found, amiss>>

cmd_pending ==
  /\ at = "reset"
  /\ pending' = op
  /\ at' = "send"
  /\ UNCHANGED <<driver, files, op, cmd_done, status, seek_done, enabled, rx, tuner, evs, ghosts>>

\* The status is cleared and the command handed to rpmsg_send(), which may
\* fail.
cmd_send ==
  /\ at = "send"
  /\ status' = FALSE
  /\ sent' = sent + 1
  /\ \/ /\ cmds' = Append(cmds, This(sent + 1))
        /\ at' = "wait"
        /\ UNCHANGED amiss
     \/ /\ at' = "error"
        /\ amiss' = amiss \union {This(sent + 1)}
        /\ UNCHANGED cmds
  /\ UNCHANGED <<driver, files, op, cmd_done, pending, seek_done, enabled, rx, evs,
                 on, searching, answer, found>>

\* Variants: the wait is taken for one that always succeeds, and a status is
\* not looked at.
cmd_waited_always ==
  /\ at = "wait"
  /\ cmd_done' = cmd_done - 1
  /\ at' = "ok"
  /\ UNCHANGED <<driver, files, op, pending, status, seek_done, enabled, rx, tuner, evs, ghosts>>
cmd_waited_ignores_status ==
  /\ at = "wait"
  /\ cmd_done > 0
  /\ cmd_done' = cmd_done - 1
  /\ at' = "ok"
  /\ amiss' = IF answer.id # sent \/ answer.failed
              THEN amiss \union {This(sent)} ELSE amiss
  /\ answer' = NoAnswer
  /\ UNCHANGED <<driver, files, op, pending, status, seek_done, enabled, rx, tuner, evs,
                 sent, found>>

\* wait_for_completion_timeout() returns, and cmd_status decides.
cmd_waited ==
  /\ at = "wait"
  /\ cmd_done > 0
  /\ cmd_done' = cmd_done - 1
  /\ at' = IF status THEN "error" ELSE "ok"
  /\ amiss' = IF status \/ answer.id # sent \/ answer.failed
              THEN amiss \union {This(sent)} ELSE amiss
  /\ answer' = NoAnswer
  /\ UNCHANGED <<driver, files, op, pending, status, seek_done, enabled, rx, tuner, evs,
                 sent, found>>

\* Five seconds have passed.
cmd_timeout ==
  /\ at = "wait"
  /\ cmd_done = 0
  /\ at' = "error"
  /\ amiss' = amiss \union {This(sent)}
  /\ UNCHANGED <<driver, files, op, cmd, seek_done, enabled, rx, tuner, evs,
                 sent, answer, found>>

-----------------------------------------------------------------------------
(* What the callers of wcnss_fm_cmd() do with its result.                  *)

Returned(opcode) == op = opcode /\ at \in {"ok", "error"}
Ok == at = "ok"

\* wcnss_fm_enable(): a receiver that was enabled gets its antenna; when it
\* was not, wcnss_fm_open() fails and takes the file out of the list.
enable_returns ==
  /\ Returned("ENABLE")
  /\ IF Ok
     THEN Call("ANTENNA") /\ UNCHANGED files
     ELSE /\ fhs' = fhs \ {lock}
          /\ pc' = [pc EXCEPT ![lock] = "closed"]
          /\ Unlock
  /\ UNCHANGED <<driver, cmd, seek_done, enabled, rx, tuner, evs, ghosts>>

\* A missing antenna is only a warning.
antenna_returns ==
  /\ Returned("ANTENNA")
  /\ enabled' = TRUE
  /\ pc' = [pc EXCEPT ![lock] = "open"]
  /\ Unlock
  /\ UNCHANGED <<driver, fhs, cmd, seek_done, rx, tuner, evs, ghosts>>

\* Variant: a disable that failed leaves the receiver counted as enabled.
disable_returns_checked ==
  /\ Returned("DISABLE")
  /\ enabled' = ~Ok
  /\ pc' = [pc EXCEPT ![lock] = "release"]
  /\ Unlock
  /\ UNCHANGED <<driver, fhs, cmd, seek_done, rx, tuner, evs, ghosts>>

\* wcnss_fm_disable() counts the receiver as disabled either way.
disable_returns ==
  /\ Returned("DISABLE")
  /\ enabled' = FALSE
  /\ pc' = [pc EXCEPT ![lock] = "release"]
  /\ Unlock
  /\ UNCHANGED <<driver, fhs, cmd, seek_done, rx, tuner, evs, ghosts>>

\* An ioctl of one command, and the cancel of a seek, end here.
plain_returns ==
  /\ op \in Plain \union {"CANCEL"}
  /\ Returned(op)
  /\ pc' = [pc EXCEPT ![lock] = "open"]
  /\ Unlock
  /\ UNCHANGED <<driver, fhs, cmd, seek_done, enabled, rx, tuner, evs, ghosts>>

-----------------------------------------------------------------------------
(* wcnss_fm_s_hw_freq_seek().                                              *)

\* Once the search has begun, wait for its end.
search_returns ==
  /\ Returned("SEARCH")
  /\ IF Ok
     THEN at' = "seek" /\ UNCHANGED <<files, op>>
     ELSE pc' = [pc EXCEPT ![lock] = "open"] /\ Unlock /\ UNCHANGED fhs
  /\ UNCHANGED <<driver, cmd, seek_done, enabled, rx, tuner, evs, ghosts>>

seek_waited ==
  /\ at = "seek"
  /\ seek_done > 0
  /\ seek_done' = seek_done - 1
  /\ at' = "found"
  /\ UNCHANGED <<driver, files, op, cmd, enabled, rx, tuner, evs, ghosts>>

seek_returns ==
  /\ at = "found"
  /\ pc' = [pc EXCEPT ![lock] = "open"]
  /\ Unlock
  /\ found' = 0
  /\ UNCHANGED <<driver, fhs, cmd, seek_done, enabled, rx, tuner, evs, sent, answer, amiss>>

\* Variants: the timeout is returned without a cancel, and the wait has none.
seek_timeout_no_cancel ==
  /\ at = "seek"
  /\ seek_done = 0
  /\ pc' = [pc EXCEPT ![lock] = "open"]
  /\ Unlock
  /\ UNCHANGED <<driver, fhs, cmd, seek_done, enabled, rx, tuner, evs, ghosts>>
seek_no_timeout == FALSE /\ UNCHANGED vars

\* Ten seconds have passed: cancel the search.
seek_timeout ==
  /\ at = "seek"
  /\ seek_done = 0
  /\ Call("CANCEL")
  /\ UNCHANGED <<driver, files, cmd, seek_done, enabled, rx, tuner, evs, ghosts>>

-----------------------------------------------------------------------------
(* Files.                                                                  *)

Between(f) == pc[f] \in {"opening", "opened", "closing", "release"}
MayOverlap(f) == Overlap \/ \A g \in Files \ {f} : ~Between(g)

\* v4l2_fh_is_singular_file().
Singular(f) == fhs = {f}

\* open(2): v4l2_fh_open() adds the file to the list before the lock is taken.
open(f) ==
  /\ pc[f] = "closed"
  /\ life = "bound"
  /\ MayOverlap(f)
  /\ Within(2)
  /\ fhs' = fhs \union {f}
  /\ pc' = [pc EXCEPT ![f] = "opening"]
  /\ UNCHANGED <<driver, lock, at, op, cmd, seek_done, enabled, rx, tuner, evs, ghosts>>

Acquire(f) == lock = "free" /\ lock' = f

\* Variant: an open does not look at the list.
open_locked_never_first(f) ==
  /\ pc[f] = "opening"
  /\ lock = "free"
  /\ UNCHANGED <<lock, at, op>> /\ pc' = [pc EXCEPT ![f] = "open"]
  /\ UNCHANGED <<driver, fhs, cmd, seek_done, enabled, rx, tuner, evs, ghosts>>

\* The rest of wcnss_fm_open(), under the lock.
open_locked(f) ==
  /\ pc[f] = "opening"
  /\ lock = "free"
  /\ IF Singular(f)
     THEN Acquire(f) /\ Call("ENABLE") /\ pc' = [pc EXCEPT ![f] = "opened"]
     ELSE UNCHANGED <<lock, at, op>> /\ pc' = [pc EXCEPT ![f] = "open"]
  /\ UNCHANGED <<driver, fhs, cmd, seek_done, enabled, rx, tuner, evs, ghosts>>

\* close(2).
close(f) ==
  /\ pc[f] = "open"
  /\ MayOverlap(f)
  /\ pc' = [pc EXCEPT ![f] = "closing"]
  /\ UNCHANGED <<driver, fhs, lock, at, op, cmd, seek_done, enabled, rx, tuner, evs, ghosts>>

\* wcnss_fm_release(), under the lock.
release_locked(f) ==
  /\ pc[f] = "closing"
  /\ lock = "free"
  /\ IF Singular(f) /\ enabled
     THEN Acquire(f) /\ Call("DISABLE") /\ UNCHANGED pc
     ELSE UNCHANGED <<lock, at, op>> /\ pc' = [pc EXCEPT ![f] = "release"]
  /\ UNCHANGED <<driver, fhs, cmd, seek_done, enabled, rx, tuner, evs, ghosts>>

\* v4l2_fh_release(), without the lock.
release(f) ==
  /\ pc[f] = "release"
  /\ fhs' = fhs \ {f}
  /\ pc' = [pc EXCEPT ![f] = "closed"]
  /\ UNCHANGED <<driver, lock, at, op, cmd, seek_done, enabled, rx, tuner, evs, ghosts>>

\* An ioctl that sends one command: tuner, frequency or mute control.
ioctl(f) ==
  /\ pc[f] = "open"
  /\ Acquire(f)
  /\ Within(1)
  /\ \E o \in Plain : Call(o)
  /\ pc' = [pc EXCEPT ![f] = "ioctl"]
  /\ UNCHANGED <<driver, fhs, cmd, seek_done, enabled, rx, tuner, evs, ghosts>>

\* Variant: the end of an earlier search is not forgotten.
seek_not_reset(f) ==
  /\ pc[f] = "open"
  /\ Acquire(f)
  /\ Within(1)
  /\ Call("SEARCH")
  /\ pc' = [pc EXCEPT ![f] = "ioctl"]
  /\ UNCHANGED <<driver, fhs, cmd, seek_done, enabled, rx, tuner, evs, ghosts>>

\* VIDIOC_S_HW_FREQ_SEEK, up to its first command.
seek(f) ==
  /\ pc[f] = "open"
  /\ Acquire(f)
  /\ Within(1)
  /\ seek_done' = 0
  /\ found' = 0
  /\ Call("SEARCH")
  /\ pc' = [pc EXCEPT ![f] = "ioctl"]
  /\ UNCHANGED <<driver, fhs, cmd, enabled, rx, tuner, evs, sent, answer, amiss>>

-----------------------------------------------------------------------------
(* wcnss_fm_rx(), the callback.                                            *)

\* An event comes in.  A completion of another opcode is dropped; a status
\* carries one as well, but it is not looked at.
rx_event ==
  /\ rx = NoAnswer
  /\ evs # <<>>
  /\ evs' = Tail(evs)
  /\ LET e == Head(evs)
     IN  CASE e.kind = "progress" ->
                /\ seek_done' = seek_done + 1
                /\ found' = e.id
                /\ UNCHANGED rx
           [] e.kind = "complete" /\ e.op # pending ->
                UNCHANGED <<rx, seek_done, found>>
           [] OTHER -> rx' = e /\ UNCHANGED <<seek_done, found>>
  /\ UNCHANGED <<driver, files, at, op, cmd, enabled, tuner, sent, answer, amiss>>

\* It is delivered in two writes.
rx_status ==
  /\ rx.kind \in {"complete", "status"}
  /\ status' = rx.failed
  /\ rx' = [rx EXCEPT !.kind = "done"]
  /\ UNCHANGED <<driver, files, at, op, cmd_done, pending, seek_done, enabled, tuner, evs, ghosts>>

rx_complete ==
  /\ rx.kind = "done"
  /\ cmd_done' = cmd_done + 1
  /\ answer' = rx
  /\ rx' = NoAnswer
  /\ UNCHANGED <<driver, files, at, op, pending, status, seek_done, enabled, tuner, evs,
                 sent, found, amiss>>

-----------------------------------------------------------------------------
(* The tuner, external.                                                    *)

\* A search that is cancelled, or ended by a disable, does not report.
Execute(c) ==
  /\ on' = IF c.op = "ENABLE" THEN TRUE ELSE IF c.op = "DISABLE" THEN FALSE ELSE on
  /\ searching' = IF c.op = "SEARCH" THEN c.id
                  ELSE IF c.op \in {"CANCEL", "DISABLE"} THEN 0 ELSE searching

tuner_serves ==
  /\ cmds # <<>>
  /\ cmds' = Tail(cmds)
  /\ LET c == Head(cmds)
     IN  \E failed \in BOOLEAN, kind \in {"complete", "status", "none"} :
           /\ IF failed THEN UNCHANGED <<on, searching>> ELSE Execute(c)
           /\ evs' = IF kind = "none" THEN evs
                     ELSE Append(evs, [kind |-> kind, op |-> c.op, failed |-> failed,
                                       id |-> c.id])
  /\ UNCHANGED <<driver, files, at, op, cmd, seek_done, enabled, rx, ghosts>>

\* The search has found a station, or been around the band.
tuner_finds ==
  /\ searching # 0
  /\ life = "bound"
  /\ searching' = 0
  /\ evs' = Append(evs, [kind |-> "progress", op |-> "SEARCH", failed |-> FALSE,
                         id |-> searching])
  /\ UNCHANGED <<driver, files, at, op, cmd, seek_done, enabled, rx, cmds, on, ghosts>>

-----------------------------------------------------------------------------

Init ==
  /\ life = "absent" /\ held = {}
  /\ pc = [f \in Files |-> "closed"] /\ fhs = {} /\ lock = "free"
  /\ at = "none" /\ op = "none"
  /\ cmd_done = 0 /\ pending = "none" /\ status = FALSE
  /\ seek_done = 0 /\ enabled = FALSE
  /\ rx = NoAnswer
  /\ cmds = <<>> /\ evs = <<>>
  /\ on = FALSE /\ searching = 0
  /\ sent = 0 /\ answer = NoAnswer /\ found = 0 /\ amiss = {}

\* The thread that holds the lock, inside its commands and waits.
HolderStep ==
  \/ cmd_reinit \/ cmd_pending \/ cmd_send \/ cmd_waited \/ cmd_timeout
  \/ enable_returns \/ antenna_returns \/ disable_returns \/ plain_returns
  \/ search_returns \/ seek_waited \/ seek_returns \/ seek_timeout

CallbackStep == rx_event \/ rx_status \/ rx_complete

\* A thread inside open(2) or close(2) that has not the lock.
FileStep(f) == open_locked(f) \/ release_locked(f) \/ release(f)

Next ==
  \/ probe_begins \/ probe \/ probe_fails \/ remove
  \/ HolderStep
  \/ \E f \in Files : open(f) \/ close(f) \/ ioctl(f) \/ seek(f) \/ FileStep(f)
  \/ CallbackStep
  \/ tuner_serves \/ tuner_finds

Spec == Init /\ [][Next]_vars

\* The thread that holds the lock runs, and its timers expire.  Nothing is
\* assumed of the tuner, nor of who gets the lock next.
FairSpec == Spec /\ WF_vars(HolderStep)

-----------------------------------------------------------------------------
(* Properties.                                                             *)

Event == [kind : {"complete", "status", "progress", "done", "none"},
          op : Opcodes \union {"none"}, failed : BOOLEAN, id : Nat]

TypeOK ==
  /\ life \in {"absent", "probe", "bound"}
  /\ held \subseteq {Resources[n] : n \in DOMAIN Resources}
  /\ pc \in [Files -> {"closed", "opening", "opened", "open", "ioctl", "closing", "release"}]
  /\ fhs \subseteq Files
  /\ lock \in Files \union {"free"}
  /\ at \in {"none", "cmd", "reset", "send", "wait", "ok", "error", "seek", "found"}
  /\ op \in Opcodes \union {"none"}
  /\ cmd_done \in Nat /\ seek_done \in Nat
  /\ pending \in Opcodes \union {"none"}
  /\ status \in BOOLEAN /\ enabled \in BOOLEAN /\ on \in BOOLEAN
  /\ rx \in Event /\ answer \in Event
  /\ cmds \in Seq([op : Opcodes, id : Nat])
  /\ evs \in Seq(Event)
  /\ searching \in Nat /\ sent \in Nat /\ found \in Nat
  /\ amiss \subseteq [op : Opcodes, id : Nat]

Confirmed(opcodes) == \A c \in amiss : c.op \notin opcodes

\* The receiver is on while some file is open (README.md:44): whichever file
\* came first, whatever failed, and however many have gone.
OnWhileOpen ==
  \A f \in Files : pc[f] = "open" =>
    /\ enabled
    /\ on \/ ~Confirmed({"ENABLE", "DISABLE"})

\* And it is off when all of them are closed, unless the tuner did not
\* confirm that it was told.
OffWhenClosed ==
  (\A f \in Files : pc[f] = "closed") =>
    /\ ~enabled
    /\ on => ~Confirmed({"ENABLE", "DISABLE"})

\* A command that returned 0 was executed by the tuner, or it took the answer
\* of an earlier command that had not got its own: pending_opcode stays set
\* after a timeout, and a CMD_STATUS is matched to no opcode (:217-222).
OkMeansExecuted ==
  [][at # "ok" /\ at' = "ok" =>
       \/ answer.id = sent /\ ~answer.failed
       \/ \E c \in amiss : c.id = answer.id]_vars

\* A seek that returned 0 saw the end of its own search, not of an earlier
\* one that was given up (seek_done is reset before the search begins, :391).
SeekFindsItsOwn ==
  at = "found" /\ Confirmed({"SEARCH", "CANCEL"}) => found = sent

\* No search goes on behind the back of its seek: it has ended or was
\* cancelled when the seek returns, unless the tuner did not confirm.
SearchEnds ==
  lock = "free" /\ searching # 0 => ~Confirmed({"SEARCH", "CANCEL"})

\* A search belongs to its seek, and every variable keeps its type.
SearchSound == TypeOK /\ SearchEnds /\ SeekFindsItsOwn

\* No call keeps fm->lock for ever, although the tuner may never answer
\* again: the five and ten seconds bound every wait under the lock (:161,
\* :399), and a seek that gives up does not wait for long either.
CallsReturn == lock # "free" ~> lock = "free"

=============================================================================
