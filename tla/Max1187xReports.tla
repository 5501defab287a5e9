-------------------------- MODULE Max1187xReports --------------------------
(* How a report of the touch controller reaches those who wait for it,     *)
(* drivers/touch/max1187x.c.                                               *)
(*                                                                         *)
(* The interrupt thread reads one packet at a time, with i2c_mutex held,   *)
(* and propagates the reports put together from them: to the caller of     *)
(* rbcmd_send_receive(), which has sent a command and waits for the report *)
(* that answers it, and to everybody who reads the sysfs file "report".    *)
(* Readers copy the report out of ts->rx_report without a lock; what keeps *)
(* it there is report_sem: propagate_report() takes it and whoever is the  *)
(* last to need the report gives it back.  shutdown() (also the driver's   *)
(* remove) propagates an error to get the readers out.                     *)
(*                                                                         *)
(* The chip is external: it posts touch reports and images of two packets  *)
(* when it likes, and answers commands in order, late, or never.  What     *)
(* process_report() does with the packet before, and the reset after one   *)
(* that cannot be read, are in Max1187xPower.                              *)
EXTENDS Naturals, Sequences, FiniteSets

CONSTANTS
  Readers, (* processes that read the file "report"                        *)
  Callers, (* processes that read the file "fw_ver"                        *)
  Casts,   (* who of them, and shutdown(), is at work in a behaviour, and  *)
           (* which reports the chip posts of its own accord               *)
  READERS_MAX, (* MXM_REPORT_READERS_MAX                                   *)
  MaxCmds, (* bound on the commands the chip has not answered              *)
  MaxShort (* bound on the reads with a buffer that is too short           *)

ASSUME ReportsAssumption ==
  /\ READERS_MAX \in Nat \ {0}
  /\ MaxCmds \in Nat /\ MaxShort \in Nat
  /\ Readers \cap Callers = {} /\ Callers # {}
  /\ Casts \subseteq [users : SUBSET (Readers \union Callers \union {"shutdown"}),
                      posts : SUBSET {"touch", "image"}]
  /\ {"irq", "shutdown"} \cap (Readers \union Callers) = {}

VARIABLES
  cast,         (* one of Casts, fixed                                     *)
  pc,           (* where each thread is                                    *)
  report_sem,   (* count of the semaphore ts->report_sem                   *)
  report_mutex, (* the thread that holds ts->report_mutex                  *)
  i2c_mutex,    (* the thread that holds ts->i2c_mutex                     *)
  readers,      (* ts->report_readers[]                                    *)
  slot,         (* the slot each reader uses                               *)
  outstanding,  (* ts->report_readers_outstanding                          *)
  rx_packet,    (* ts->rx_packet                                           *)
  rx_report,    (* ts->rx_report, as the packets in it                     *)
  combined,     (* packet_seq_combined of combine_multipacketreport()      *)
  sema_rbcmd,   (* count of the semaphore ts->sema_rbcmd                   *)
  rbcmd,        (* ts->rbcmd_waiting, _received, _report_id, _rx_report    *)
  buf,          (* the id of the report in each caller's buffer            *)
  cmds,         (* the commands the chip has not answered, oldest first    *)
  out,          (* the packets the chip holds ready                        *)
  spoilt,       (* history: readers that were passed a report which        *)
                (* rx_report does not hold any more                        *)
  leaked,       (* history: readers that left without release_report()     *)
  raced         (* history: callers whose last call began or ended while   *)
                (* process_rbcmd() was about to fill in an answer          *)

propagation == <<report_sem, report_mutex, i2c_mutex, rx_packet, rx_report, combined>>
reading == <<readers, slot, outstanding>>
calling == <<sema_rbcmd, rbcmd, buf>>
chip == <<cmds, out>>
ghosts == <<spoilt, leaked, raced>>
vars == <<cast, pc, propagation, reading, calling, chip, ghosts>>

Threads == Readers \union Callers \union {"irq", "shutdown"}
Answers == {"FW_VERSION", "CFG_INF"}
Slots == 1 .. READERS_MAX

\* What a slot or a packet buffer holds does not matter while nobody uses it:
\* it is empty then.
NoReader == [report_id |-> 0, sem |-> 0, status |-> "ok", reports_passed |-> 0]
Packet(id, num, total) == [id |-> id, num |-> num, total |-> total]
NoPacket == Packet("none", 1, 1)

\* A slot somebody has taken to wait for any report.
NewReader == [NoReader EXCEPT !.report_id = 65535]

Goto(t, l) == pc' = [pc EXCEPT ![t] = l]

\* The steps of shutdown() up to the one at which a file is gone.
EntriesThere == pc["shutdown"] \notin {"entries", "report", "free_irq", "gone"}
ReportThere == pc["shutdown"] \notin {"report", "free_irq", "gone"}

\* The id of a report is in its first packet.
Id(report) == IF report = <<>> THEN "none" ELSE report[1].id

-----------------------------------------------------------------------------
(* The chip, external.  It holds one report ready at a time; the one that   *)
(* the interrupt thread has begun to read makes two.                       *)

Touch == <<Packet("touch", 1, 1)>>
Image == <<Packet("image", 1, 2), Packet("image", 2, 2)>>

\* It posts a report of its own accord, a touch or an image in two packets.
chip_posts ==
  /\ out = <<>>
  /\ \E id \in cast.posts : out' = IF id = "image" THEN Image ELSE Touch
  /\ UNCHANGED <<cast, pc, propagation, reading, calling, cmds, ghosts>>

\* It answers the oldest command, or skips it.
chip_answers ==
  /\ cmds # <<>>
  /\ cmds' = Tail(cmds)
  /\ \/ out = <<>> /\ out' = <<Packet(Head(cmds), 1, 1)>>
     \/ UNCHANGED out
  /\ UNCHANGED <<cast, pc, propagation, reading, calling, ghosts>>

-----------------------------------------------------------------------------
(* The interrupt thread, up to propagate_report().                         *)

\* irq_handler_soft() reads a packet.
irq_handler_soft ==
  /\ pc["irq"] = "idle" /\ pc["shutdown"] \notin {"free_irq", "gone"}
  /\ out # <<>>
  /\ i2c_mutex = "free" /\ i2c_mutex' = "irq"
  /\ rx_packet' = Head(out) /\ out' = Tail(out)
  /\ Goto("irq", "propagate")
  /\ UNCHANGED <<cast, report_sem, report_mutex, rx_report, combined, reading, calling, cmds, ghosts>>

\* It cannot read one, and resets the chip, which forgets all it held.
irq_handler_soft_resets ==
  /\ pc["irq"] = "idle" /\ pc["shutdown"] \notin {"free_irq", "gone"}
  /\ out # <<>> /\ i2c_mutex = "free"
  /\ out' = <<>> /\ cmds' = <<>>
  /\ UNCHANGED <<cast, pc, propagation, reading, calling, ghosts>>

-----------------------------------------------------------------------------
(* propagate_report(), in the interrupt thread and in shutdown().          *)

Propagators == {"irq", "shutdown"}

\* down(&ts->report_sem)
propagate_report(t) ==
  /\ pc[t] = "propagate"
  /\ report_sem > 0 /\ report_sem' = report_sem - 1
  /\ Goto(t, "combine")
  /\ UNCHANGED <<cast, report_mutex, i2c_mutex, rx_packet, rx_report, combined, reading,
                 calling, chip, ghosts>>

\* Readers that were passed a report and have not given it back.
Holding(r) ==
  \/ pc[r] \in {"reading", "release"}
  \/ pc[r] \in {"wait", "woken", "interrupted"} /\ readers[slot[r]].reports_passed > 0

\* combine_multipacketreport(): a packet that is a report, the first of an
\* image, the next one of it, or one that does not belong here.
Single == rx_packet.total = 1
First  == ~Single /\ rx_packet.num = 1
Following  == ~Single /\ rx_packet.num = combined + 1
Completes == Single \/ (Following /\ rx_packet.num = rx_packet.total)

combine_multipacketreport ==
  /\ rx_report' = IF Single \/ First THEN <<rx_packet>>
                  ELSE IF Following THEN Append(rx_report, rx_packet) ELSE rx_report
  /\ combined' = IF Single \/ First THEN 1 ELSE IF Following THEN combined + 1 ELSE combined
  /\ spoilt' = IF Single \/ First \/ Following
               THEN spoilt \union {r \in Readers : Holding(r)} ELSE spoilt

\* The interrupt thread has got report_mutex and takes the packet in.
propagate_combine ==
  /\ pc["irq"] = "combine" /\ report_mutex = "free"
  /\ combine_multipacketreport
  /\ IF Completes
     THEN /\ report_mutex' = "irq" /\ Goto("irq", "rbcmd")
          /\ UNCHANGED <<report_sem, i2c_mutex>>
     ELSE /\ report_sem' = report_sem + 1 /\ i2c_mutex' = "free"
          /\ Goto("irq", "idle")
          /\ UNCHANGED report_mutex
  /\ rx_packet' = NoPacket
  /\ UNCHANGED <<cast, reading, calling, chip, leaked, raced>>

\* shutdown() has no packet.
propagate_status ==
  /\ pc["shutdown"] = "combine" /\ report_mutex = "free"
  /\ report_mutex' = "shutdown"
  /\ Goto("shutdown", "rbcmd")
  /\ UNCHANGED <<cast, report_sem, i2c_mutex, rx_packet, rx_report, combined, reading,
                 calling, chip, ghosts>>

\* Variant: any report is taken for the answer.
process_rbcmd_any(t) ==
  /\ pc[t] = "rbcmd"
  /\ Goto(t, IF rbcmd.waiting /\ rx_report # <<>> THEN "received" ELSE "readers")
  /\ UNCHANGED <<cast, propagation, reading, calling, chip, ghosts>>

\* process_rbcmd(): is the report the answer somebody waits for?  The fields
\* it looks at belong to the caller, which takes no lock.
process_rbcmd(t) ==
  /\ pc[t] = "rbcmd"
  /\ Goto(t, IF rbcmd.waiting /\ rbcmd.report_id = Id(rx_report)
             THEN "received" ELSE "readers")
  /\ UNCHANGED <<cast, propagation, reading, calling, chip, ghosts>>

process_rbcmd_received(t) ==
  /\ pc[t] = "received"
  /\ rbcmd' = [rbcmd EXCEPT !.received = TRUE]
  /\ Goto(t, "copy")
  /\ UNCHANGED <<cast, propagation, reading, sema_rbcmd, buf, chip, ghosts>>

\* It copies to the buffer the fields name by now; that of a call which is
\* over is no buffer any more.
process_rbcmd_copy(t) ==
  /\ pc[t] = "copy"
  /\ buf' = IF pc[rbcmd.rx_report] = "idle" THEN buf
            ELSE [buf EXCEPT ![rbcmd.rx_report] = Id(rx_report)]
  /\ Goto(t, "readers")
  /\ UNCHANGED <<cast, propagation, reading, sema_rbcmd, rbcmd, chip, ghosts>>

\* The slots somebody waits in.
Used == {i \in Slots : readers[i].report_id # 0}

\* Variant: the status is set, but nobody is woken for it.
passed_silently(t) ==
  [i \in Slots |->
     IF i \notin Used THEN readers[i]
     ELSE IF t = "irq" THEN [readers[i] EXCEPT !.sem = @ + 1, !.reports_passed = @ + 1]
     ELSE [readers[i] EXCEPT !.status = "error"]]

\* Each is passed the report, or the status.
passed(t) ==
  [i \in Slots |->
     IF i \notin Used THEN readers[i]
     ELSE IF t = "irq" THEN [readers[i] EXCEPT !.sem = @ + 1, !.reports_passed = @ + 1]
     ELSE [readers[i] EXCEPT !.sem = @ + 1, !.status = "error"]]

\* Variant: it is given back at once.
gives_back_always == TRUE

\* report_sem is given back here only if no reader has to give it back.
gives_back == outstanding' = 0

propagate_readers(t) ==
  /\ pc[t] = "readers"
  /\ readers' = passed(t)
  /\ outstanding' = IF t = "irq" THEN outstanding + Cardinality(Used) ELSE outstanding
  /\ report_sem' = IF gives_back THEN report_sem + 1 ELSE report_sem
  /\ report_mutex' = "free"
  /\ IF t = "irq" THEN Goto(t, "idle") /\ i2c_mutex' = "free"
                  ELSE Goto(t, "entries") /\ UNCHANGED i2c_mutex
  /\ UNCHANGED <<cast, rx_packet, rx_report, combined, slot, calling, chip, ghosts>>

-----------------------------------------------------------------------------
(* report_read() and get_report(), release_report().                       *)

\* get_report() finds a free slot; if there is none, report_read() returns at
\* once.
get_report(r) ==
  /\ pc[r] = "idle" /\ r \in cast.users /\ ReportThere
  /\ report_mutex = "free"
  /\ \E i \in Slots \ Used :
       /\ \A j \in Slots \ Used : i <= j
       /\ slot' = [slot EXCEPT ![r] = i]
       /\ readers' = [readers EXCEPT ![i] = NewReader]
  /\ Goto(r, "wait")
  /\ UNCHANGED <<cast, propagation, outstanding, calling, chip, ghosts>>

\* down_interruptible(): the report is there, or a signal ends the wait.
get_report_down(r) ==
  /\ pc[r] = "wait" /\ readers[slot[r]].sem > 0
  /\ readers' = [readers EXCEPT ![slot[r]].sem = @ - 1]
  /\ Goto(r, "woken")
  /\ UNCHANGED <<cast, propagation, slot, outstanding, calling, chip, ghosts>>

get_report_signal(r) ==
  /\ pc[r] = "wait" /\ readers[slot[r]].sem = 0
  /\ Goto(r, "interrupted")
  /\ UNCHANGED <<cast, propagation, reading, calling, chip, ghosts>>

\* Variant: every reader gives report_sem back.
Releases_each ==
  /\ outstanding' = outstanding - 1
  /\ report_sem' = report_sem + 1

\* One reader less that needs rx_report.
Releases ==
  /\ outstanding' = outstanding - 1
  /\ report_sem' = IF outstanding' = 0 THEN report_sem + 1 ELSE report_sem

\* Variant: it is forgotten.
gives_up_never(r) == FALSE

\* A report that was passed while the signal came is given up.
gives_up(r) == pc[r] = "interrupted" /\ readers[slot[r]].reports_passed > 0

\* The slot is free again.  A report that came after the status of shutdown()
\* is neither read nor given up.
get_report_done(r) ==
  LET was == readers[slot[r]].reports_passed > 0
      ok  == pc[r] = "woken" /\ readers[slot[r]].status = "ok"
  IN
  /\ pc[r] \in {"woken", "interrupted"} /\ report_mutex = "free"
  /\ readers' = [readers EXCEPT ![slot[r]] = NoReader]
  /\ slot' = [slot EXCEPT ![r] = 0]
  /\ IF gives_up(r)
     THEN Releases ELSE UNCHANGED <<outstanding, report_sem>>
  /\ leaked' = IF pc[r] = "woken" /\ ~ok /\ was THEN leaked + 1 ELSE leaked
  /\ Goto(r, IF ok THEN "reading" ELSE "idle")
  /\ spoilt' = IF ok THEN spoilt ELSE spoilt \ {r}
  /\ UNCHANGED <<cast, report_mutex, i2c_mutex, rx_packet, rx_report, combined, calling,
                 chip, raced>>

\* report_read() prints the report; if the buffer is too short for it, it
\* returns -EIO instead, and does not come to release_report().
report_read(r) ==
  /\ pc[r] = "reading"
  /\ \/ Goto(r, "release") /\ UNCHANGED <<leaked, spoilt>>
     \/ /\ leaked < MaxShort /\ leaked' = leaked + 1
        /\ Goto(r, "idle") /\ spoilt' = spoilt \ {r}
  /\ UNCHANGED <<cast, propagation, reading, calling, chip, raced>>

release_report(r) ==
  /\ pc[r] = "release" /\ report_mutex = "free"
  /\ Releases
  /\ Goto(r, "idle") /\ spoilt' = spoilt \ {r}
  /\ UNCHANGED <<cast, report_mutex, i2c_mutex, rx_packet, rx_report, combined, readers, slot,
                 calling, chip, leaked, raced>>

-----------------------------------------------------------------------------
(* rbcmd_send_receive(), as fw_ver_show() calls it.                        *)

Filling == \E t \in Propagators : pc[t] \in {"received", "copy"}

\* One call at a time says what it waits for and where it wants it.
rbcmd_send_receive(c) ==
  /\ pc[c] = "idle" /\ c \in cast.users /\ EntriesThere
  /\ sema_rbcmd > 0 /\ sema_rbcmd' = sema_rbcmd - 1
  /\ \E id \in Answers :
       rbcmd' = [waiting |-> TRUE, received |-> FALSE, report_id |-> id, rx_report |-> c]
  /\ buf' = [buf EXCEPT ![c] = "none"]
  /\ raced' = IF Filling THEN raced \union {c} ELSE raced \ {c}
  /\ Goto(c, "send")
  /\ UNCHANGED <<cast, propagation, reading, chip, spoilt, leaked>>

\* The answer is not wanted any more, and another call may begin.
rbcmd_ends ==
  /\ rbcmd' = [rbcmd EXCEPT !.waiting = FALSE]
  /\ sema_rbcmd' = sema_rbcmd + 1

\* cmd_send(); the operation may fail, and the chip may have no room.
rbcmd_cmd_send(c) ==
  /\ pc[c] = "send" /\ i2c_mutex = "free"
  /\ \/ /\ Len(cmds) < MaxCmds
        /\ cmds' = Append(cmds, rbcmd.report_id)
        /\ Goto(c, "wait")
     \/ Goto(c, "wait") /\ UNCHANGED cmds
     \/ Goto(c, "failed") /\ UNCHANGED cmds
  /\ UNCHANGED <<cast, propagation, reading, calling, out, ghosts>>

\* wait_event_interruptible_timeout() ends with an answer, and the call with
\* it, or without one.
rbcmd_answered(c) ==
  /\ pc[c] = "wait" /\ rbcmd.received
  /\ rbcmd_ends
  /\ raced' = IF Filling THEN raced \union {c} ELSE raced
  /\ Goto(c, "answered")
  /\ UNCHANGED <<cast, propagation, reading, buf, chip, spoilt, leaked>>

rbcmd_times_out(c) ==
  /\ pc[c] = "wait" /\ ~rbcmd.received
  /\ Goto(c, "failed")
  /\ UNCHANGED <<cast, propagation, reading, calling, chip, ghosts>>

rbcmd_failed(c) ==
  /\ pc[c] = "failed"
  /\ rbcmd_ends
  /\ Goto(c, "idle") /\ buf' = [buf EXCEPT ![c] = "none"]
  /\ raced' = raced \ {c}
  /\ UNCHANGED <<cast, propagation, reading, chip, spoilt, leaked>>

\* fw_ver_show() prints what is in its buffer.
fw_ver_show(c) ==
  /\ pc[c] = "answered"
  /\ Goto(c, "idle") /\ buf' = [buf EXCEPT ![c] = "none"]
  /\ raced' = raced \ {c}
  /\ UNCHANGED <<cast, propagation, reading, sema_rbcmd, rbcmd, chip, spoilt, leaked>>

-----------------------------------------------------------------------------
(* shutdown().                                                             *)

shutdown ==
  /\ pc["shutdown"] = "off" /\ "shutdown" \in cast.users
  /\ Goto("shutdown", "propagate")
  /\ UNCHANGED <<cast, propagation, reading, calling, chip, ghosts>>

\* Removing a file waits for those inside its operations: first "fw_ver",
\* then "report"; free_irq() waits for the interrupt thread.
shutdown_removes ==
  \/ /\ pc["shutdown"] = "entries"
     /\ \A c \in Callers : pc[c] = "idle"
     /\ Goto("shutdown", "report")
     /\ UNCHANGED <<cast, propagation, reading, calling, chip, ghosts>>
  \/ /\ pc["shutdown"] = "report"
     /\ \A r \in Readers : pc[r] = "idle"
     /\ Goto("shutdown", "free_irq")
     /\ UNCHANGED <<cast, propagation, reading, calling, chip, ghosts>>
  \/ /\ pc["shutdown"] = "free_irq"
     /\ pc["irq"] = "idle"
     /\ Goto("shutdown", "gone")
     /\ UNCHANGED <<cast, propagation, reading, calling, chip, ghosts>>

-----------------------------------------------------------------------------

\* sema_init() and kzalloc() in probe().
Init ==
  /\ cast \in Casts
  /\ pc = [t \in Threads |-> IF t = "shutdown" THEN "off" ELSE "idle"]
  /\ report_sem = 1 /\ report_mutex = "free" /\ i2c_mutex = "free"
  /\ readers = [i \in Slots |-> NoReader]
  /\ slot = [r \in Readers |-> 0]
  /\ outstanding = 0
  /\ rx_packet = NoPacket /\ rx_report = <<>> /\ combined = 0
  /\ sema_rbcmd = 1
  /\ rbcmd \in [waiting : {FALSE}, received : {FALSE}, report_id : {"none"},
                rx_report : {CHOOSE c \in Callers : TRUE}]
  /\ buf = [c \in Callers |-> "none"]
  /\ cmds = <<>> /\ out = <<>>
  /\ spoilt = {}
  /\ leaked = 0 /\ raced = {}

Propagate(t) ==
  \/ propagate_report(t)
  \/ process_rbcmd(t)
  \/ process_rbcmd_received(t)
  \/ process_rbcmd_copy(t)
  \/ propagate_readers(t)

Interrupt ==
  \/ irq_handler_soft
  \/ irq_handler_soft_resets
  \/ propagate_combine
  \/ Propagate("irq")

Shutdown ==
  \/ propagate_status
  \/ Propagate("shutdown")
  \/ shutdown_removes

\* What a reader does once it has been passed something, and a caller that is
\* in a call.
Read(r) ==
  \/ get_report_down(r)
  \/ get_report_done(r)
  \/ report_read(r)
  \/ release_report(r)

Call(c) ==
  \/ rbcmd_cmd_send(c)
  \/ rbcmd_answered(c)
  \/ rbcmd_times_out(c)
  \/ rbcmd_failed(c)
  \/ fw_ver_show(c)

Next ==
  \/ chip_posts
  \/ chip_answers
  \/ Interrupt
  \/ Shutdown
  \/ shutdown
  \/ \E r \in Readers : get_report(r) \/ get_report_signal(r) \/ Read(r)
  \/ \E c \in Callers : rbcmd_send_receive(c) \/ Call(c)

Spec == Init /\ [][Next]_vars

\* Threads run, timers expire, and whoever waits for a mutex or a semaphore
\* others keep taking gets it in the end.  Nothing is assumed of the chip, of
\* signals, or of when userspace opens the files.
FairSpec ==
  /\ Spec
  /\ WF_vars(Interrupt)
  /\ WF_vars(Shutdown) /\ SF_vars(propagate_report("shutdown"))
  /\ \A r \in Readers : SF_vars(Read(r))
  /\ \A c \in Callers : SF_vars(Call(c))

-----------------------------------------------------------------------------
(* Properties.                                                             *)

Labels ==
  {"idle", "propagate", "combine", "rbcmd", "received", "copy", "readers", "off",
   "entries", "report", "free_irq", "gone", "wait", "woken", "interrupted", "reading",
   "release", "send", "failed", "answered"}

TypeOK ==
  /\ pc \in [Threads -> Labels]
  /\ report_sem \in {0, 1} /\ sema_rbcmd \in {0, 1}
  /\ report_mutex \in {"free", "irq", "shutdown"} /\ i2c_mutex \in {"free", "irq"}
  /\ readers \in [Slots -> [report_id : {0, 65535}, sem : 0 .. 2, status : {"ok", "error"},
                            reports_passed : {0, 1}]]
  /\ slot \in [Readers -> 0 .. READERS_MAX]
  /\ outstanding \in Nat
  /\ combined \in 0 .. 2
  /\ rbcmd.rx_report \in Callers
  /\ raced \subseteq Callers /\ leaked \in Nat

\* report_sem is a permit to write rx_report: it is in the semaphore, with the
\* one thread that propagates, or with the readers the report was passed to,
\* the last of whom gives it back, whatever signals, further readers and
\* shutdown() come in between (:2494, :2526, :2539).
OnePermit ==
  /\ report_sem + Cardinality({t \in Propagators :
                       pc[t] \in {"combine", "rbcmd", "received", "copy", "readers"}})
       + (IF outstanding > 0 THEN 1 ELSE 0) = 1
  /\ outstanding = leaked + Cardinality({r \in Readers : Holding(r)})

\* A reader prints a whole report, and the one it was passed: nobody touches
\* rx_report under it, although it prints without a lock (:1277).
HeldReport ==
  \A r \in Readers :
    Holding(r) => /\ r \notin spoilt
                  /\ Len(rx_report) = rx_report[1].total
                  /\ \A i \in DOMAIN rx_report :
                       rx_report[i] = Packet(Id(rx_report), i, rx_report[1].total)

\* One permit, a whole report under it, and every variable keeps its type.
ReportSound == TypeOK /\ OnePermit /\ HeldReport

\* A call that returned 0 has the report it asked for in its buffer, also
\* when an earlier call timed out and its answer is late, unless it began or
\* ended just while process_rbcmd() was between its test of rbcmd_waiting and
\* its copy (:2396 to :2411).
OkMeansReport ==
  \A c \in Callers :
    pc[c] = "answered" /\ c \notin raced =>
      \E id \in Answers : buf[c] = id /\ (rbcmd.rx_report = c => rbcmd.report_id = id)

\* The interrupt thread gets through and gives i2c_mutex back, although the
\* chip may never answer and readers come and go, unless one of them left
\* without release_report().
CallsReturn == pc["irq"] # "idle" ~> pc["irq"] = "idle" \/ leaked > 0

\* shutdown() gets everybody out and ends, unless a reader left without
\* release_report(), or one that began to read the file after the wake-up
\* call waits for a report that has not come.
StillReading ==
  pc["shutdown"] = "report" /\ \E r \in Readers :
    pc[r] = "wait" /\ readers[slot[r]].sem = 0 /\ readers[slot[r]].status = "ok"

ShutdownEnds ==
  pc["shutdown"] # "off" ~> pc["shutdown"] = "gone" \/ leaked > 0 \/ StillReading

\* "shutdown() is a complete teardown -- it removes the sysfs entries, frees
\* the interrupt" (the comment at :3080), if nobody keeps the file open.
CompleteTeardown ==
  pc["shutdown"] # "off" ~> pc["shutdown"] = "gone" \/ StillReading

=============================================================================
