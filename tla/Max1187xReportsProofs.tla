------------------------ MODULE Max1187xReportsProofs -----------------------
(***************************************************************************)
(* The reports of the touch controller, for any set of readers and callers *)
(* and any number of slots: there is one permit to write rx_report, what a *)
(* reader prints is a whole report and the one it was passed, and a call   *)
(* that returned 0 has the report it asked for.                            *)
(***************************************************************************)
EXTENDS Max1187xReports, SequenceTheorems, FiniteSetTheorems, FunctionTheorems, TLAPS

-----------------------------------------------------------------------------
(* The inductive invariant.                                                *)

InCall(c) == pc[c] \in {"send", "wait", "failed"}
Propagating(t) == pc[t] \in {"combine", "rbcmd", "received", "copy", "readers"}
Waiting == {r \in Readers : pc[r] \in {"wait", "woken", "interrupted"}}
Holders == {r \in Readers : Holding(r)}

\* Each thread is where its own code is.
ReaderPlaces == {"idle", "wait", "woken", "interrupted", "reading", "release"}
CallerPlaces == {"idle", "send", "wait", "failed", "answered"}
PropagatorPlaces == {"propagate", "combine", "rbcmd", "received", "copy", "readers"}
Places ==
  /\ pc \in [Threads -> Labels]
  /\ \A r \in Readers : pc[r] \in ReaderPlaces
  /\ \A c \in Callers : pc[c] \in CallerPlaces
  /\ pc["irq"] \in PropagatorPlaces \union {"idle"}
  /\ pc["shutdown"] \in PropagatorPlaces
                          \union {"off", "entries", "report", "free_irq", "gone"}

\* A slot is used by one reader; its semaphore counts what the reader was
\* passed and has not been woken for.
Reader == [report_id : {0, 65535}, sem : 0 .. 2, status : {"ok", "error"},
           reports_passed : {0, 1}]
Taken(r) == slot[r] \in Slots /\ readers[slot[r]].report_id = 65535
Counts(r) ==
  readers[slot[r]].sem + (IF pc[r] = "woken" THEN 1 ELSE 0)
    = readers[slot[r]].reports_passed
        + (IF readers[slot[r]].status = "error" THEN 1 ELSE 0)
SlotInv ==
  /\ readers \in [Slots -> Reader] /\ slot \in [Readers -> 0 .. READERS_MAX]
  /\ \A r \in Waiting : Taken(r) /\ Counts(r)
  /\ \A r, s \in Waiting : slot[r] = slot[s] => r = s
  /\ \A i \in Used : \E r \in Waiting : slot[r] = i
  /\ \A i \in Slots \ Used : readers[i] = NoReader
  /\ pc["shutdown"] \in PropagatorPlaces \union {"off"} =>
       \A i \in Slots : readers[i].status = "ok"

\* The permit: in report_sem, with a thread that propagates, or with readers.
PermitInv ==
  /\ report_sem \in {0, 1}
  /\ report_sem = 1 => ~Propagating("irq") /\ ~Propagating("shutdown") /\ outstanding = 0
  /\ Propagating("irq") => ~Propagating("shutdown") /\ outstanding = 0
  /\ Propagating("shutdown") => outstanding = 0
  /\ report_sem = 0 => Propagating("irq") \/ Propagating("shutdown") \/ outstanding > 0
  /\ leaked \in Nat /\ outstanding \in Nat
  /\ IsFiniteSet(Holders) /\ outstanding = leaked + Cardinality(Holders)

\* What the chip sends and what becomes of it: a report of one packet, or an
\* image, of which the first packet is in rx_report when the second comes.
Kinds == {Packet(id, 1, 1) : id \in Answers \union {"touch"}}
Start == Packet("image", 1, 2)
Second == Packet("image", 2, 2)
Half == combined = 1 /\ rx_report = <<Start>>
Whole(report) == report = Image \/ \E p \in Kinds : report = <<p>>
Combining == pc["irq"] \in {"propagate", "combine"}
PacketInv ==
  /\ cmds \in Seq(Answers) /\ combined \in 0 .. 2
  /\ out \in {<<>>, Image, <<Second>>} \union {<<p>> : p \in Kinds}
  /\ rx_report \in {<<>>, <<Start>>, Image} \union {<<p>> : p \in Kinds}
  /\ Combining => rx_packet \in Kinds \union {Start, Second}
  /\ Combining /\ rx_packet = Second => Half
  /\ out = <<Second>> => \/ Combining /\ rx_packet = Start
                         \/ pc["irq"] = "idle" /\ Half
  /\ pc["irq"] \in {"rbcmd", "received", "copy", "readers"} \/ outstanding > 0 =>
       Whole(rx_report)
  /\ spoilt = {}

\* Who has the mutexes.
LockInv ==
  /\ report_mutex \in {"free", "irq", "shutdown"}
  /\ i2c_mutex \in {"free", "irq"}

\* One call at a time, whose fields are there while it lasts.
Rbcmd == [waiting : BOOLEAN, received : BOOLEAN, report_id : Answers \union {"none"},
          rx_report : Callers]
CallInv ==
  /\ sema_rbcmd \in {0, 1} /\ raced \subseteq Callers
  /\ rbcmd \in Rbcmd
  /\ \A c \in Callers : InCall(c) =>
       /\ sema_rbcmd = 0
       /\ rbcmd.waiting /\ rbcmd.rx_report = c /\ rbcmd.report_id \in Answers
  /\ rbcmd.waiting => InCall(rbcmd.rx_report)

\* What is filled in answers the call, unless it is one of those that raced.
Answering == \E t \in Propagators : pc[t] = "copy"
FillInv ==
  /\ DOMAIN buf = Callers
  /\ \A c \in Callers \ raced :
       /\ InCall(c) =>
            /\ Filling => Id(rx_report) = rbcmd.report_id
            /\ rbcmd.received => Answering \/ buf[c] = rbcmd.report_id
       /\ pc[c] = "answered" =>
            /\ buf[c] \in Answers
            /\ rbcmd.rx_report = c => buf[c] = rbcmd.report_id /\ ~Filling

ReportsInv ==
  Places /\ SlotInv /\ PermitInv /\ PacketInv /\ LockInv /\ CallInv /\ FillInv

-----------------------------------------------------------------------------
(* Who a step is of, and what it leaves alone.                              *)

\* The threads are different ones.
LEMMA Apart ==
  /\ \A r \in Readers : r \in Threads /\ r \notin Callers /\ r # "irq" /\ r # "shutdown"
  /\ \A c \in Callers : c \in Threads /\ c \notin Readers /\ c # "irq" /\ c # "shutdown"
  /\ "irq" \in Threads /\ "shutdown" \in Threads
BY ReportsAssumption DEF Threads

\* A thread that goes somewhere moves alone.
LEMMA Moves ==
  ASSUME pc \in [Threads -> Labels], NEW t \in Threads, NEW l \in Labels, Goto(t, l)
  PROVE  /\ pc' \in [Threads -> Labels]
         /\ pc'[t] = l /\ \A u \in Threads \ {t} : pc'[u] = pc[u]
BY DEF Goto

ReaderSteps(r) == get_report(r) \/ get_report_signal(r) \/ Read(r)
CallerSteps(c) == rbcmd_send_receive(c) \/ Call(c)

\* The chip does not move anybody.
LEMMA ChipFrame ==
  ASSUME chip_posts \/ chip_answers \/ irq_handler_soft_resets
  PROVE  UNCHANGED <<pc, propagation, reading, calling, ghosts>>
BY DEF chip_posts, chip_answers, irq_handler_soft_resets

\* A reader touches neither rx_report nor what is the callers'.
LEMMA ReaderFrame ==
  ASSUME Places, NEW r \in Readers, ReaderSteps(r)
  PROVE  /\ \A u \in Threads \ {r} : pc'[u] = pc[u]
         /\ pc' \in [Threads -> Labels] /\ pc'[r] \in ReaderPlaces
         /\ UNCHANGED <<report_mutex, i2c_mutex, rx_packet, rx_report, combined, calling,
                        chip, raced>>
<1>0. pc \in [Threads -> Labels] /\ r \in Threads
  BY Apart DEF Places
<1>l. ReaderPlaces \subseteq Labels
  BY DEF ReaderPlaces, Labels
<1> USE <1>0, <1>l, Moves DEF ReaderPlaces
<1>1. CASE get_report(r)
  BY <1>1 DEF get_report, propagation, ghosts
<1>2. CASE get_report_signal(r)
  BY <1>2 DEF get_report_signal, propagation, ghosts
<1>3. CASE get_report_down(r)
  BY <1>3 DEF get_report_down, propagation, ghosts
<1>4. CASE get_report_done(r)
  BY <1>4 DEF get_report_done
<1>5. CASE report_read(r)
  BY <1>5 DEF report_read, propagation
<1>6. CASE release_report(r)
  BY <1>6 DEF release_report
<1> QED BY <1>1, <1>2, <1>3, <1>4, <1>5, <1>6 DEF ReaderSteps, Read

\* A caller touches neither the reports nor what is the readers'.
LEMMA CallerFrame ==
  ASSUME Places, NEW c \in Callers, CallerSteps(c)
  PROVE  /\ \A u \in Threads \ {c} : pc'[u] = pc[u]
         /\ pc' \in [Threads -> Labels] /\ pc'[c] \in CallerPlaces
         /\ UNCHANGED <<propagation, reading, out, spoilt, leaked>>
<1>0. pc \in [Threads -> Labels] /\ c \in Threads
  BY Apart DEF Places
<1>l. CallerPlaces \subseteq Labels
  BY DEF CallerPlaces, Labels
<1> USE <1>0, <1>l, Moves DEF CallerPlaces
<1>1. CASE rbcmd_send_receive(c)
  BY <1>1 DEF rbcmd_send_receive, chip
<1>2. CASE rbcmd_cmd_send(c)
  BY <1>2 DEF rbcmd_cmd_send, ghosts
<1>3. CASE rbcmd_answered(c)
  BY <1>3 DEF rbcmd_answered, chip
<1>4. CASE rbcmd_times_out(c)
  BY <1>4 DEF rbcmd_times_out, chip, ghosts
<1>5. CASE rbcmd_failed(c)
  BY <1>5 DEF rbcmd_failed, chip
<1>6. CASE fw_ver_show(c)
  BY <1>6 DEF fw_ver_show, chip
<1> QED BY <1>1, <1>2, <1>3, <1>4, <1>5, <1>6 DEF CallerSteps, Call

\* The interrupt thread and shutdown() move only themselves.
LEMMA PropagatorFrame ==
  ASSUME Places, NEW t \in Propagators,
         \/ Propagate(t)
         \/ t = "irq" /\ (irq_handler_soft \/ propagate_combine)
         \/ t = "shutdown" /\ (propagate_status \/ shutdown \/ shutdown_removes)
  PROVE  /\ \A u \in Threads \ {t} : pc'[u] = pc[u]
         /\ pc' \in [Threads -> Labels]
         /\ t = "irq" => pc'["irq"] \in PropagatorPlaces \union {"idle"}
         /\ t = "shutdown" => pc'["shutdown"] \in PropagatorPlaces
                                \union {"entries", "report", "free_irq", "gone"}
         /\ UNCHANGED <<slot, sema_rbcmd, cmds, leaked, raced>>
<1>0. pc \in [Threads -> Labels] /\ t \in Threads
  BY Apart DEF Places, Propagators
<1>l. PropagatorPlaces \union {"idle", "entries", "report", "free_irq", "gone"} \subseteq Labels
  BY DEF PropagatorPlaces, Labels
<1> USE <1>0, <1>l, Moves DEF PropagatorPlaces, Propagators
<1>1. CASE propagate_report(t)
  BY <1>1 DEF propagate_report, reading, calling, chip, ghosts
<1>2. CASE process_rbcmd(t)
  BY <1>2 DEF process_rbcmd, reading, calling, chip, ghosts
<1>3. CASE process_rbcmd_received(t)
  BY <1>3 DEF process_rbcmd_received, reading, chip, ghosts
<1>4. CASE process_rbcmd_copy(t)
  BY <1>4 DEF process_rbcmd_copy, reading, chip, ghosts
<1>5. CASE propagate_readers(t)
  BY <1>5 DEF propagate_readers, calling, chip, ghosts
<1>6. CASE t = "irq" /\ irq_handler_soft
  BY <1>6 DEF irq_handler_soft, reading, calling, ghosts
<1>7. CASE t = "irq" /\ propagate_combine
  BY <1>7 DEF propagate_combine, reading, calling, chip
<1>8. CASE t = "shutdown" /\ propagate_status
  BY <1>8 DEF propagate_status, reading, calling, chip, ghosts
<1>9. CASE t = "shutdown" /\ shutdown
  BY <1>9 DEF shutdown, reading, calling, chip, ghosts
<1>10. CASE t = "shutdown" /\ shutdown_removes
  BY <1>10 DEF shutdown_removes, reading, calling, chip, ghosts
<1> QED BY <1>1, <1>2, <1>3, <1>4, <1>5, <1>6, <1>7, <1>8, <1>9, <1>10 DEF Propagate

\* Every step is one of these.
LEMMA StepCases ==
  ASSUME Next
  PROVE  \/ chip_posts \/ chip_answers \/ irq_handler_soft_resets
         \/ \E r \in Readers : ReaderSteps(r)
         \/ \E c \in Callers : CallerSteps(c)
         \/ irq_handler_soft \/ propagate_combine \/ Propagate("irq")
         \/ propagate_status \/ shutdown \/ shutdown_removes \/ Propagate("shutdown")
BY DEF Next, Interrupt, Shutdown, ReaderSteps, CallerSteps

\* Each thread stays in its code.
LEMMA PlacesStep == ASSUME Places, Next PROVE Places'
<1>1. CASE chip_posts \/ chip_answers \/ irq_handler_soft_resets
  BY <1>1, ChipFrame DEF Places
<1>2. ASSUME NEW r \in Readers, ReaderSteps(r) PROVE Places'
  BY <1>2, ReaderFrame, Apart DEF Places
<1>3. ASSUME NEW c \in Callers, CallerSteps(c) PROVE Places'
  BY <1>3, CallerFrame, Apart DEF Places
<1>4. CASE irq_handler_soft \/ propagate_combine \/ Propagate("irq")
  <2>1. "irq" \in Propagators
    BY DEF Propagators
  <2> QED BY <1>4, <2>1, PropagatorFrame, Apart DEF Places
<1>5. CASE propagate_status \/ shutdown \/ shutdown_removes \/ Propagate("shutdown")
  <2>1. "shutdown" \in Propagators
    BY DEF Propagators
  <2> QED BY <1>5, <2>1, PropagatorFrame, Apart DEF Places
<1> QED BY <1>1, <1>2, <1>3, <1>4, <1>5, StepCases

-----------------------------------------------------------------------------
(* The slots.                                                               *)

\* Nothing changes while no reader moves and no slot is written.
LEMMA SlotKept ==
  ASSUME SlotInv, UNCHANGED <<readers, slot>>, \A r \in Readers : pc'[r] = pc[r],
         pc'["shutdown"] \in PropagatorPlaces \union {"off"} =>
           pc["shutdown"] \in PropagatorPlaces \union {"off"}
  PROVE  SlotInv' /\ Used' = Used /\ Waiting' = Waiting /\ Holders' = Holders
<1>1. Used' = Used
  BY DEF Used
<1>2. Waiting' = Waiting
  BY DEF Waiting
<1>3. Holders' = Holders
  BY DEF Holders, Holding
<1>4. ASSUME NEW r \in Waiting PROVE (Taken(r) /\ Counts(r))'
  BY <1>4 DEF SlotInv, Taken, Counts, Waiting
<1>5. \A r \in Waiting' : (Taken(r) /\ Counts(r))'
  BY <1>2, <1>4
<1> QED BY <1>1, <1>2, <1>3, <1>5 DEF SlotInv

\* The fields of a slot that counts a report, and of one that counts an error.
WideReader == [report_id : {0, 65535}, sem : Nat, status : {"ok", "error"},
               reports_passed : Nat]

LEMMA CountsReport ==
  ASSUME NEW x \in Reader,
         NEW y, y = [x EXCEPT !.sem = @ + 1, !.reports_passed = @ + 1]
  PROVE  /\ y \in WideReader
         /\ y.report_id = x.report_id /\ y.sem = x.sem + 1
         /\ y.status = x.status /\ y.reports_passed = x.reports_passed + 1
<1>1. [x EXCEPT !.sem = @ + 1] \in WideReader
  BY DEF Reader, WideReader
<1>2. \A z \in WideReader : [z EXCEPT !.reports_passed = x.reports_passed + 1] \in WideReader
  BY DEF Reader, WideReader
<1>3. [[x EXCEPT !.sem = @ + 1] EXCEPT !.reports_passed = x.reports_passed + 1] \in WideReader
  BY <1>1, <1>2
<1>4. y \in WideReader
  BY <1>3
<1> QED BY <1>4 DEF Reader

LEMMA CountsError ==
  ASSUME NEW x \in Reader,
         NEW y, y = [x EXCEPT !.sem = @ + 1, !.status = "error"]
  PROVE  /\ y \in WideReader
         /\ y.report_id = x.report_id /\ y.sem = x.sem + 1
         /\ y.status = "error" /\ y.reports_passed = x.reports_passed
<1>1. [x EXCEPT !.sem = @ + 1] \in WideReader
  BY DEF Reader, WideReader
<1>2. \A z \in WideReader : [z EXCEPT !.status = "error"] \in WideReader
  BY DEF WideReader
<1>3. [[x EXCEPT !.sem = @ + 1] EXCEPT !.status = "error"] \in WideReader
  BY <1>1, <1>2
<1>4. y \in WideReader
  BY <1>3
<1> QED BY <1>4 DEF Reader

\* A slot that is passed something: one more in its semaphore.
LEMMA PassedSlot ==
  ASSUME readers \in [Slots -> Reader], NEW t \in Propagators, NEW i \in Slots
  PROVE  /\ i \notin Used => passed(t)[i] = readers[i]
         /\ i \in Used =>
              /\ passed(t)[i] \in WideReader
              /\ passed(t)[i].report_id = readers[i].report_id
              /\ passed(t)[i].sem = readers[i].sem + 1
              /\ passed(t)[i].status = IF t = "irq" THEN readers[i].status ELSE "error"
              /\ passed(t)[i].reports_passed
                   = IF t = "irq" THEN readers[i].reports_passed + 1 ELSE readers[i].reports_passed
<1>1. readers[i] \in Reader
  OBVIOUS
<1>2. CASE i \notin Used
  BY <1>2 DEF passed
<1>3. CASE i \in Used /\ t = "irq"
  <2>1. passed(t)[i] = [readers[i] EXCEPT !.sem = @ + 1, !.reports_passed = @ + 1]
    BY <1>3 DEF passed
  <2> QED BY <1>1, <1>3, <2>1, CountsReport
<1>4. CASE i \in Used /\ t = "shutdown"
  <2>1. passed(t)[i] = [readers[i] EXCEPT !.sem = @ + 1, !.status = "error"]
    BY <1>4 DEF passed
  <2> QED BY <1>1, <1>4, <2>1, CountsError
<1> QED BY <1>2, <1>3, <1>4 DEF Propagators

\* Readers that hold nothing have been passed nothing.
LEMMA NobodyHolds ==
  ASSUME PermitInv, outstanding = 0
  PROVE  leaked = 0 /\ Holders = {}
<1>1. Cardinality(Holders) \in Nat
  BY FS_CardinalityType DEF PermitInv
<1>2. leaked = 0 /\ Cardinality(Holders) = 0
  BY <1>1 DEF PermitInv
<1> QED BY <1>2, FS_EmptySet DEF PermitInv

\* propagate_report() passes to each slot what it can count.
LEMMA PassSlots ==
  ASSUME Places, SlotInv, PermitInv, NEW t \in Propagators, propagate_readers(t)
  PROVE  SlotInv' /\ Used' = Used /\ Waiting' = Waiting
<1>t. t \in Threads /\ pc[t] = "readers" /\ t \in {"irq", "shutdown"}
  BY Apart DEF propagate_readers, Propagators
<1>f. \A r \in Readers : pc'[r] = pc[r]
  BY Apart, PropagatorFrame, <1>t DEF Propagate
<1>s. readers' = passed(t) /\ slot' = slot /\ readers \in [Slots -> Reader]
  BY DEF propagate_readers, SlotInv
<1>0. outstanding = 0
  BY <1>t DEF PermitInv, Propagating
<1>h. Holders = {}
  BY <1>0, NobodyHolds
<1>1. DOMAIN readers' = Slots
  BY <1>s DEF passed
<1>2. ASSUME NEW i \in Slots
      PROVE  readers'[i].report_id = readers[i].report_id
  <2>1. i \notin Used => readers'[i] = readers[i]
    BY <1>s, PassedSlot
  <2>2. i \in Used => readers'[i].report_id = readers[i].report_id
    BY <1>s, PassedSlot
  <2> QED BY <2>1, <2>2
<1>3. Used' = Used
  BY <1>2, <1>1 DEF Used
<1>4. Waiting' = Waiting
  BY <1>f DEF Waiting
<1>5. ASSUME NEW r \in Waiting
      PROVE  /\ Taken(r) /\ Counts(r) /\ slot[r] \in Used
             /\ readers[slot[r]].reports_passed = 0 /\ readers[slot[r]].sem \in 0 .. 1
             /\ readers[slot[r]].status = "error" => t = "irq"
  <2>1. Taken(r) /\ Counts(r)
    BY DEF SlotInv
  <2>2. slot[r] \in Used
    BY <2>1 DEF Taken, Used
  <2>3. readers[slot[r]] \in Reader
    BY <1>s, <2>1 DEF Taken
  <2>4. readers[slot[r]].reports_passed = 0
    BY <1>h, <2>3 DEF Holders, Holding, Waiting, Reader
  <2>5. readers[slot[r]].sem \in 0 .. 1
    BY <2>1, <2>3, <2>4 DEF Counts, Reader
  <2>6. readers[slot[r]].status = "error" => t = "irq"
    <3>1. t = "shutdown" => readers[slot[r]].status = "ok"
      BY <1>t, <2>1 DEF SlotInv, PropagatorPlaces, Taken
    <3> QED BY <3>1, <1>t
  <2> QED BY <2>1, <2>2, <2>4, <2>5, <2>6
<1>6. ASSUME NEW r \in Waiting PROVE (Taken(r) /\ Counts(r))' /\ readers'[slot[r]] \in Reader
  <2> DEFINE s == readers[slot[r]]  s1 == readers'[slot[r]]
  <2>1. /\ slot[r] \in Slots /\ slot[r] \in Used
        /\ s.report_id = 65535 /\ s.reports_passed = 0 /\ s.sem \in 0 .. 1
        /\ s.status = "error" => t = "irq"
        /\ s.sem + (IF pc[r] = "woken" THEN 1 ELSE 0) = IF s.status = "error" THEN 1 ELSE 0
        /\ s.status \in {"ok", "error"}
    <3>1. s.reports_passed = 0 /\ Counts(r) /\ Taken(r)
      BY <1>5
    <3>2. s.sem + (IF pc[r] = "woken" THEN 1 ELSE 0) = IF s.status = "error" THEN 1 ELSE 0
      BY <3>1, <1>5 DEF Counts
    <3>3. s \in Reader
      BY <3>1, <1>s DEF Taken
    <3> QED BY <1>5, <3>2, <3>3 DEF Taken, Reader
  <2>2. /\ s1.report_id = 65535 /\ s1.sem = s.sem + 1
        /\ s1.status = IF t = "irq" THEN s.status ELSE "error"
        /\ s1.reports_passed = IF t = "irq" THEN 1 ELSE 0
        /\ s1 \in WideReader
    BY <2>1, <1>s, PassedSlot
  <2>3. Taken(r)'
    BY <2>1, <2>2, <1>s DEF Taken
  <2>4. s1.sem + (IF pc[r] = "woken" THEN 1 ELSE 0)
          = s1.reports_passed + (IF s1.status = "error" THEN 1 ELSE 0)
    <3>1. CASE t = "irq"
      BY <2>1, <2>2, <3>1
    <3>2. CASE t = "shutdown"
      BY <2>1, <2>2, <3>2
    <3> QED BY <3>1, <3>2, <1>t
  <2>5. Counts(r)'
    BY <2>4, <1>s, <1>f DEF Counts, Waiting
  <2>6. s1 \in Reader
    BY <2>1, <2>2 DEF Reader, WideReader
  <2> QED BY <2>3, <2>5, <2>6
<1>7. readers' \in [Slots -> Reader]
  <2>1. ASSUME NEW i \in Slots PROVE readers'[i] \in Reader
    <3>1. CASE i \notin Used
      BY <3>1, <1>s, PassedSlot
    <3>2. CASE i \in Used
      BY <3>2, <1>6 DEF SlotInv
    <3> QED BY <3>1, <3>2
  <2> QED BY <2>1, <1>s DEF passed
<1>8. \A i \in Slots \ Used : readers'[i] = NoReader
  BY <1>s, PassedSlot DEF SlotInv
<1>9. pc'["shutdown"] \in PropagatorPlaces \union {"off"} =>
        \A i \in Slots : readers'[i].status = "ok"
  <2>1. CASE t = "irq"
    <3>1. pc'["shutdown"] = pc["shutdown"]
      BY <2>1, <1>t, Apart, PropagatorFrame DEF Propagate
    <3>2. ASSUME NEW i \in Slots PROVE readers'[i].status = readers[i].status
      BY <2>1, <1>s, PassedSlot
    <3> QED BY <3>1, <3>2 DEF SlotInv
  <2>2. CASE t = "shutdown"
    <3>1. pc'["shutdown"] = "entries"
      BY <2>2, <1>t DEF propagate_readers, Goto, Places
    <3> QED BY <3>1 DEF PropagatorPlaces
  <2> QED BY <2>1, <2>2, <1>t
<1>10. /\ \A r, s \in Waiting : slot'[r] = slot'[s] => r = s
       /\ \A i \in Used : \E r \in Waiting : slot'[r] = i
       /\ slot' \in [Readers -> 0 .. READERS_MAX]
  BY <1>s DEF SlotInv
<1> QED BY <1>3, <1>4, <1>6, <1>7, <1>8, <1>9, <1>10 DEF SlotInv

\* What a reader that waits knows of its slot.
LEMMA Waits ==
  ASSUME SlotInv, NEW r \in Waiting
  PROVE  /\ slot[r] \in Slots /\ slot[r] \in Used /\ readers[slot[r]] \in Reader
         /\ Taken(r) /\ Counts(r)
         /\ \A s \in Waiting \ {r} : slot[s] # slot[r]
<1>1. Taken(r) /\ Counts(r)
  BY DEF SlotInv
<1> QED BY <1>1 DEF SlotInv, Taken, Used, Waiting

\* get_report() takes a slot nobody uses.
LEMMA GetReport ==
  ASSUME Places, SlotInv, NEW r \in Readers, get_report(r)
  PROVE  SlotInv' /\ Holders' = Holders
<1>1. PICK i \in Slots \ Used :
        /\ slot' = [slot EXCEPT ![r] = i]
        /\ readers' = [readers EXCEPT ![i] = NewReader]
  BY DEF get_report
<1>2. /\ pc[r] = "idle" /\ pc'[r] = "wait" /\ r \in Threads
      /\ \A s \in Readers \ {r} : pc'[s] = pc[s]
      /\ pc'["shutdown"] = pc["shutdown"]
  <2>1. pc[r] = "idle" /\ Goto(r, "wait") /\ pc \in [Threads -> Labels] /\ "wait" \in Labels
    BY DEF get_report, Places, Labels
  <2> QED BY <2>1, Apart, Moves
<1> DEFINE x == readers'[i]
<1>3. /\ x.report_id = 65535 /\ x.sem = 0 /\ x.status = "ok" /\ x.reports_passed = 0
      /\ x \in Reader
  <2>1. x = NewReader
    BY <1>1 DEF SlotInv
  <2> QED BY <2>1 DEF NewReader, NoReader, Reader
<1>4. /\ readers' \in [Slots -> Reader] /\ \A j \in Slots \ {i} : readers'[j] = readers[j]
      /\ slot' \in [Readers -> 0 .. READERS_MAX] /\ slot'[r] = i
      /\ \A s \in Readers \ {r} : slot'[s] = slot[s]
  <2>1. i \in 0 .. READERS_MAX
    BY ReportsAssumption DEF Slots
  <2>2. \A j \in Slots \ {i} : readers'[j] = readers[j]
    BY <1>1 DEF SlotInv
  <2>3. readers' \in [Slots -> Reader]
    BY <1>1, <1>3, <2>2 DEF SlotInv
  <2> QED BY <1>1, <2>1, <2>2, <2>3 DEF SlotInv
<1>5. Used' = Used \union {i}
  BY <1>1, <1>3, <1>4 DEF Used
<1>6. Waiting' = Waiting \union {r} /\ r \notin Waiting
  BY <1>2 DEF Waiting
<1>7. ASSUME NEW s \in Waiting
      PROVE  /\ s # r /\ slot[s] # i /\ slot'[s] = slot[s] /\ readers'[slot[s]] = readers[slot[s]]
             /\ (Taken(s) /\ Counts(s))'
  <2>1. s # r /\ slot[s] # i /\ s \in Readers /\ slot[s] \in Slots
    BY <1>1, <1>6, Waits DEF Waiting
  <2>2. slot'[s] = slot[s] /\ readers'[slot[s]] = readers[slot[s]] /\ pc'[s] = pc[s]
    BY <2>1, <1>4, <1>2
  <2>3. Taken(s) /\ Counts(s)
    BY Waits
  <2> QED BY <2>1, <2>2, <2>3 DEF Taken, Counts
<1>8. (Taken(r) /\ Counts(r))'
  BY <1>2, <1>3, <1>4 DEF Taken, Counts
<1>9. /\ \A s \in Waiting' : (Taken(s) /\ Counts(s))'
      /\ \A s, u \in Waiting' : slot'[s] = slot'[u] => s = u
      /\ \A j \in Used' : \E s \in Waiting' : slot'[s] = j
  <2>1. \A s \in Waiting' : (Taken(s) /\ Counts(s))'
    BY <1>6, <1>7, <1>8
  <2>2. \A s, u \in Waiting' : slot'[s] = slot'[u] => s = u
    BY <1>4, <1>6, <1>7 DEF SlotInv
  <2>3. ASSUME NEW j \in Used' PROVE \E s \in Waiting' : slot'[s] = j
    <3>1. CASE j = i
      BY <3>1, <1>4, <1>6
    <3>2. CASE j \in Used
      <4>1. PICK s \in Waiting : slot[s] = j
        BY <3>2 DEF SlotInv
      <4> QED BY <4>1, <1>6, <1>7
    <3> QED BY <3>1, <3>2, <1>5
  <2> QED BY <2>1, <2>2, <2>3
<1>10. \A j \in Slots \ Used' : readers'[j] = NoReader
  BY <1>4, <1>5 DEF SlotInv
<1>11. pc'["shutdown"] \in PropagatorPlaces \union {"off"} =>
         \A j \in Slots : readers'[j].status = "ok"
  BY <1>2, <1>3, <1>4 DEF SlotInv
<1>12. SlotInv'
  BY <1>4, <1>9, <1>10, <1>11 DEF SlotInv
<1>13. Holders' = Holders
  <2>1. ASSUME NEW s \in Readers PROVE Holding(s)' <=> Holding(s)
    <3>1. CASE s = r
      BY <3>1, <1>2, <1>3, <1>4 DEF Holding
    <3>2. CASE s # r /\ s \in Waiting
      BY <3>2, <1>7, <1>2 DEF Holding
    <3>3. CASE s # r /\ s \notin Waiting
      BY <3>3, <1>2 DEF Holding, Waiting
    <3> QED BY <3>1, <3>2, <3>3
  <2> QED BY <2>1 DEF Holders
<1> QED BY <1>12, <1>13

\* down_interruptible() takes what was passed.
LEMMA GetReportDown ==
  ASSUME Places, SlotInv, NEW r \in Readers, get_report_down(r)
  PROVE  SlotInv' /\ Holders' = Holders
<1>1. /\ pc[r] = "wait" /\ pc'[r] = "woken" /\ r \in Threads
      /\ \A s \in Readers \ {r} : pc'[s] = pc[s]
      /\ pc'["shutdown"] = pc["shutdown"]
  <2>1. pc[r] = "wait" /\ Goto(r, "woken") /\ pc \in [Threads -> Labels] /\ "woken" \in Labels
    BY DEF get_report_down, Places, Labels
  <2> QED BY <2>1, Apart, Moves
<1>w. r \in Waiting
  BY <1>1 DEF Waiting
<1> DEFINE i == slot[r]  x == readers[i]  y == readers'[i]
<1>2. i \in Slots /\ i \in Used /\ x \in Reader /\ Taken(r) /\ Counts(r) /\ x.sem > 0
  BY <1>w, Waits DEF get_report_down
<1>3. slot' = slot /\ \A j \in Slots \ {i} : readers'[j] = readers[j]
  BY DEF get_report_down, SlotInv
<1>4. /\ y \in Reader /\ y.report_id = x.report_id /\ y.sem = x.sem - 1
      /\ y.status = x.status /\ y.reports_passed = x.reports_passed
  <2>1. y = [x EXCEPT !.sem = @ - 1]
    BY <1>2 DEF get_report_down, SlotInv
  <2>2. x.sem - 1 \in 0 .. 2
    BY <1>2 DEF Reader
  <2> QED BY <1>2, <2>1, <2>2 DEF Reader
<1>5. readers' \in [Slots -> Reader]
  <2>1. DOMAIN readers' = Slots /\ readers' = [j \in Slots |-> readers'[j]]
    BY DEF get_report_down, SlotInv
  <2> QED BY <1>3, <1>4, <2>1 DEF SlotInv
<1>6. Used' = Used /\ Waiting' = Waiting
  <2>1. Used' = Used
    BY <1>3, <1>4 DEF Used
  <2> QED BY <1>1, <2>1 DEF Waiting
<1>7. ASSUME NEW s \in Waiting, s # r
      PROVE  /\ readers'[slot[s]] = readers[slot[s]]
             /\ (Taken(s) /\ Counts(s))'
  <2>1. s \in Readers /\ slot[s] \in Slots /\ slot[s] # i /\ Taken(s) /\ Counts(s)
    BY <1>w, <1>7, Waits DEF Waiting
  <2>2. readers'[slot[s]] = readers[slot[s]] /\ pc'[s] = pc[s]
    BY <2>1, <1>1, <1>3, <1>7
  <2> QED BY <2>1, <2>2, <1>3 DEF Taken, Counts
<1>8. (Taken(r) /\ Counts(r))'
  <2>1. Taken(r)'
    BY <1>2, <1>3, <1>4 DEF Taken
  <2>2. y.sem + 1 = y.reports_passed + (IF y.status = "error" THEN 1 ELSE 0)
    BY <1>1, <1>2, <1>4 DEF Counts, Reader
  <2> QED BY <1>1, <1>3, <2>1, <2>2 DEF Counts
<1>9. \A s \in Waiting' : (Taken(s) /\ Counts(s))'
  BY <1>6, <1>7, <1>8
<1>10. /\ \A s, u \in Waiting' : slot'[s] = slot'[u] => s = u
       /\ \A j \in Used' : \E s \in Waiting' : slot'[s] = j
       /\ \A j \in Slots \ Used' : readers'[j] = NoReader
       /\ slot' \in [Readers -> 0 .. READERS_MAX]
  BY <1>2, <1>3, <1>6 DEF SlotInv
<1>11. pc'["shutdown"] \in PropagatorPlaces \union {"off"} =>
         \A j \in Slots : readers'[j].status = "ok"
  BY <1>1, <1>2, <1>3, <1>4 DEF SlotInv
<1>12. SlotInv'
  BY <1>5, <1>9, <1>10, <1>11 DEF SlotInv
<1>13. Holders' = Holders
  <2>1. ASSUME NEW s \in Readers PROVE Holding(s)' <=> Holding(s)
    <3>1. CASE s = r
      BY <3>1, <1>1, <1>3, <1>4 DEF Holding
    <3>2. CASE s # r /\ s \in Waiting
      BY <3>2, <1>7, <1>1, <1>3 DEF Holding
    <3>3. CASE s # r /\ s \notin Waiting
      BY <3>3, <1>1 DEF Holding, Waiting
    <3> QED BY <3>1, <3>2, <3>3
  <2> QED BY <2>1 DEF Holders
<1> QED BY <1>12, <1>13

\* A signal ends the wait: the slot is as it was.
LEMMA GetReportSignal ==
  ASSUME Places, SlotInv, NEW r \in Readers, get_report_signal(r)
  PROVE  SlotInv' /\ Holders' = Holders
<1>1. /\ pc[r] = "wait" /\ pc'[r] = "interrupted" /\ r \in Threads
      /\ \A s \in Readers \ {r} : pc'[s] = pc[s]
      /\ pc'["shutdown"] = pc["shutdown"]
  <2>1. /\ pc[r] = "wait" /\ Goto(r, "interrupted")
        /\ pc \in [Threads -> Labels] /\ "interrupted" \in Labels
    BY DEF get_report_signal, Places, Labels
  <2> QED BY <2>1, Apart, Moves
<1>2. readers' = readers /\ slot' = slot
  BY DEF get_report_signal, reading
<1>3. Used' = Used /\ Waiting' = Waiting /\ Holders' = Holders
  <2>1. Used' = Used
    BY <1>2 DEF Used
  <2>2. Holders' = Holders
    BY <1>1, <1>2 DEF Holders, Holding
  <2> QED BY <1>1, <2>1, <2>2 DEF Waiting
<1>4. ASSUME NEW s \in Waiting PROVE (Taken(s) /\ Counts(s))'
  <2>1. Taken(s) /\ Counts(s) /\ s \in Readers
    BY Waits DEF Waiting
  <2> QED BY <1>1, <1>2, <2>1 DEF Taken, Counts
<1>5. \A s \in Waiting' : (Taken(s) /\ Counts(s))'
  BY <1>3, <1>4
<1> QED BY <1>1, <1>2, <1>3, <1>5 DEF SlotInv

\* The end of get_report(): the slot is free.  Who reads on, or gives the
\* report up, held it before.
LEMMA GetReportDone ==
  ASSUME Places, SlotInv, NEW r \in Readers, get_report_done(r)
  PROVE  /\ SlotInv' /\ r \in Waiting
         /\ pc'[r] = "reading" => Holding(r) /\ Holders' = Holders /\ ~gives_up(r)
         /\ pc'[r] # "reading" => Holders' = Holders \ {r}
         /\ gives_up(r) => Holding(r) /\ pc'[r] = "idle"
         /\ Holding(r) <=> readers[slot[r]].reports_passed > 0
<1> DEFINE i == slot[r]  x == readers[i]
           ok == pc[r] = "woken" /\ x.status = "ok"
<1>1. /\ pc[r] \in {"woken", "interrupted"} /\ r \in Threads
      /\ pc'[r] = IF ok THEN "reading" ELSE "idle"
      /\ \A s \in Readers \ {r} : pc'[s] = pc[s]
      /\ pc'["shutdown"] = pc["shutdown"]
  <2>1. /\ pc[r] \in {"woken", "interrupted"} /\ Goto(r, IF ok THEN "reading" ELSE "idle")
        /\ pc \in [Threads -> Labels] /\ {"reading", "idle"} \subseteq Labels
    BY DEF get_report_done, Places, Labels
  <2>2. (IF ok THEN "reading" ELSE "idle") \in Labels
    BY <2>1
  <2> QED BY <2>1, <2>2, Apart, Moves
<1>2. r \in Waiting /\ i \in Slots /\ i \in Used /\ x \in Reader /\ Taken(r) /\ Counts(r)
  BY <1>1, Waits DEF Waiting
<1>3. /\ readers' = [readers EXCEPT ![i] = NoReader] /\ slot' = [slot EXCEPT ![r] = 0]
  BY DEF get_report_done
<1>4. /\ readers'[i] = NoReader /\ \A j \in Slots \ {i} : readers'[j] = readers[j]
      /\ readers' \in [Slots -> Reader]
      /\ slot' \in [Readers -> 0 .. READERS_MAX] /\ \A s \in Readers \ {r} : slot'[s] = slot[s]
  <2>1. 0 \in 0 .. READERS_MAX
    BY ReportsAssumption
  <2>2. NoReader \in Reader
    BY DEF NoReader, Reader
  <2> QED BY <1>2, <1>3, <2>1, <2>2 DEF SlotInv
<1>5. Used' = Used \ {i}
  <2>1. NoReader.report_id = 0
    BY DEF NoReader
  <2> QED BY <1>4, <2>1 DEF Used
<1>6. Waiting' = Waiting \ {r}
  BY <1>1 DEF Waiting
<1>7. ASSUME NEW s \in Waiting, s # r
      PROVE  /\ slot[s] # i /\ slot'[s] = slot[s] /\ readers'[slot[s]] = readers[slot[s]]
             /\ (Taken(s) /\ Counts(s))'
  <2>1. s \in Readers /\ slot[s] \in Slots /\ slot[s] # i /\ Taken(s) /\ Counts(s)
    BY <1>2, <1>7, Waits DEF Waiting
  <2>2. slot'[s] = slot[s] /\ readers'[slot[s]] = readers[slot[s]] /\ pc'[s] = pc[s]
    BY <2>1, <1>1, <1>4, <1>7
  <2> QED BY <2>1, <2>2 DEF Taken, Counts
<1>8. /\ \A s \in Waiting' : (Taken(s) /\ Counts(s))'
      /\ \A s, u \in Waiting' : slot'[s] = slot'[u] => s = u
      /\ \A j \in Slots \ Used' : readers'[j] = NoReader
  BY <1>4, <1>5, <1>6, <1>7 DEF SlotInv
<1>9. ASSUME NEW j \in Used' PROVE \E s \in Waiting' : slot'[s] = j
  <2>1. PICK s \in Waiting : slot[s] = j
    BY <1>5 DEF SlotInv
  <2>2. s # r
    BY <2>1, <1>5
  <2> QED BY <2>1, <2>2, <1>6, <1>7
<1>10. pc'["shutdown"] \in PropagatorPlaces \union {"off"} =>
         \A j \in Slots : readers'[j].status = "ok"
  <2>1. NoReader.status = "ok"
    BY DEF NoReader
  <2> QED BY <1>1, <1>4, <2>1 DEF SlotInv
<1>11. SlotInv'
  BY <1>4, <1>8, <1>9, <1>10 DEF SlotInv
<1>12. \A s \in Readers \ {r} : Holding(s)' <=> Holding(s)
  <2>1. ASSUME NEW s \in Readers \ {r} PROVE Holding(s)' <=> Holding(s)
    <3>1. CASE s \in Waiting
      BY <3>1, <1>7, <1>1 DEF Holding
    <3>2. CASE s \notin Waiting
      BY <3>2, <1>1 DEF Holding, Waiting
    <3> QED BY <3>1, <3>2
  <2> QED BY <2>1
<1>13. Holding(r) <=> x.reports_passed > 0
  BY <1>1 DEF Holding
<1>14. ASSUME ok PROVE Holding(r) /\ Holders' = Holders /\ ~gives_up(r)
  <2>1. x.reports_passed > 0
    BY <1>2, <1>14 DEF Counts, Reader
  <2>2. Holding(r)' /\ ~gives_up(r)
    BY <1>1, <1>14 DEF Holding, gives_up
  <2> QED BY <1>12, <1>13, <2>1, <2>2 DEF Holders
<1>15. ASSUME ~ok PROVE Holders' = Holders \ {r}
  <2>1. ~Holding(r)'
    BY <1>1, <1>15 DEF Holding
  <2> QED BY <1>12, <2>1 DEF Holders
<1>16. gives_up(r) => Holding(r) /\ ~ok
  BY <1>13 DEF gives_up
<1> HIDE DEF ok, x, i
<1> QED BY <1>1, <1>2, <1>11, <1>13, <1>14, <1>15, <1>16 DEF x, i

\* A reader that reads, and one that gives the report back, use no slot.
LEMMA ReaderLeaves ==
  ASSUME Places, SlotInv, NEW r \in Readers, report_read(r) \/ release_report(r)
  PROVE  /\ SlotInv' /\ Holding(r)
         /\ Holders' = IF pc'[r] = "idle" THEN Holders \ {r} ELSE Holders
<1>1. /\ pc[r] \in {"reading", "release"} /\ pc'[r] \in {"release", "idle"} /\ r \in Threads
      /\ \A s \in Readers \ {r} : pc'[s] = pc[s]
      /\ pc'["shutdown"] = pc["shutdown"]
  <2>1. /\ pc[r] \in {"reading", "release"} /\ (Goto(r, "release") \/ Goto(r, "idle"))
        /\ pc \in [Threads -> Labels] /\ "release" \in Labels /\ "idle" \in Labels
    BY DEF report_read, release_report, Places, Labels
  <2> QED BY <2>1, Apart, Moves
<1>2. readers' = readers /\ slot' = slot
  BY DEF report_read, release_report, reading
<1>3. Used' = Used /\ Waiting' = Waiting
  <2>1. Used' = Used
    BY <1>2 DEF Used
  <2> QED BY <1>1, <2>1 DEF Waiting
<1>4. ASSUME NEW s \in Waiting PROVE (Taken(s) /\ Counts(s))'
  <2>1. Taken(s) /\ Counts(s) /\ s \in Readers /\ s # r
    BY <1>1, Waits DEF Waiting
  <2> QED BY <1>1, <1>2, <2>1 DEF Taken, Counts
<1>5. \A s \in Waiting' : (Taken(s) /\ Counts(s))'
  BY <1>3, <1>4
<1>6. SlotInv'
  BY <1>1, <1>2, <1>3, <1>5 DEF SlotInv
<1>7. Holding(r) /\ (Holding(r)' <=> pc'[r] = "release")
  BY <1>1 DEF Holding
<1>8. \A s \in Readers \ {r} : Holding(s)' <=> Holding(s)
  BY <1>1, <1>2 DEF Holding
<1> QED BY <1>1, <1>6, <1>7, <1>8 DEF Holders

\* The slots stay as they should, whatever step is taken; the readers hold
\* what they held unless one of them moves or a report is passed.
LEMMA SlotStep ==
  ASSUME Places, SlotInv, PermitInv, Next
  PROVE  SlotInv'
<1>0. "irq" \in Propagators /\ "shutdown" \in Propagators
  BY DEF Propagators
<1>1. CASE chip_posts \/ chip_answers \/ irq_handler_soft_resets
  BY <1>1, ChipFrame, SlotKept DEF reading
<1>2. ASSUME NEW r \in Readers, ReaderSteps(r) PROVE SlotInv'
  BY <1>2, GetReport, GetReportDown, GetReportSignal, GetReportDone, ReaderLeaves
     DEF ReaderSteps, Read
<1>3. ASSUME NEW c \in Callers, CallerSteps(c) PROVE SlotInv'
  BY <1>3, CallerFrame, Apart, SlotKept DEF reading
<1>4. ASSUME NEW t \in Propagators, propagate_readers(t) PROVE SlotInv'
  BY <1>4, PassSlots
<1>5. ASSUME NEW t \in Propagators, Propagate(t), ~propagate_readers(t) PROVE SlotInv'
  <2>1. /\ readers' = readers /\ pc[t] \in PropagatorPlaces
    BY <1>5 DEF Propagate, propagate_report, process_rbcmd, process_rbcmd_received,
                process_rbcmd_copy, reading, PropagatorPlaces
  <2>2. slot' = slot /\ \A u \in Threads \ {t} : pc'[u] = pc[u]
    BY <1>5, PropagatorFrame
  <2>3. pc["shutdown"] = pc'["shutdown"] \/ pc["shutdown"] \in PropagatorPlaces
    BY <2>1, <2>2, Apart
  <2>4. \A r \in Readers : pc'[r] = pc[r]
    BY <2>2, Apart DEF Propagators
  <2> QED BY <2>1, <2>2, <2>3, <2>4, SlotKept
<1>6. CASE irq_handler_soft \/ propagate_combine
  <2>1. readers' = readers
    BY <1>6 DEF irq_handler_soft, propagate_combine, reading
  <2>2. slot' = slot /\ \A u \in Threads \ {"irq"} : pc'[u] = pc[u]
    BY <1>0, <1>6, PropagatorFrame
  <2> QED BY <2>1, <2>2, Apart, SlotKept
<1>7. CASE propagate_status \/ shutdown \/ shutdown_removes
  <2>1. /\ readers' = readers
        /\ \/ pc["shutdown"] \in {"off", "combine"}
           \/ shutdown_removes /\ pc'["shutdown"] \in {"report", "free_irq", "gone"}
    BY <1>7 DEF propagate_status, shutdown, shutdown_removes, reading, Goto, Places, Threads
  <2>2. slot' = slot /\ \A u \in Threads \ {"shutdown"} : pc'[u] = pc[u]
    BY <1>0, <1>7, PropagatorFrame
  <2> QED BY <2>1, <2>2, Apart, SlotKept DEF PropagatorPlaces
<1> QED BY <1>0, <1>1, <1>2, <1>3, <1>4, <1>5, <1>6, <1>7, StepCases

-----------------------------------------------------------------------------
(* The permit.                                                              *)

\* It stays where it is.
LEMMA PermitKept ==
  ASSUME PermitInv, UNCHANGED <<report_sem, outstanding, leaked>>, Holders' = Holders,
         Propagating("irq")' <=> Propagating("irq"),
         Propagating("shutdown")' <=> Propagating("shutdown")
  PROVE  PermitInv'
BY DEF PermitInv

\* A reader gives its report back: the last one gives the permit back too.
LEMMA PermitReleases ==
  ASSUME PermitInv, Releases, leaked' = leaked,
         NEW r \in Holders, Holders' = Holders \ {r},
         Propagating("irq")' <=> Propagating("irq"),
         Propagating("shutdown")' <=> Propagating("shutdown")
  PROVE  PermitInv'
<1>1. /\ Cardinality(Holders) \in Nat /\ Cardinality(Holders) > 0
      /\ IsFiniteSet(Holders') /\ Cardinality(Holders') = Cardinality(Holders) - 1
  BY FS_CardinalityType, FS_RemoveElement, FS_EmptySet DEF PermitInv
<1>2. outstanding \in Nat /\ outstanding > 0 /\ outstanding' = outstanding - 1
  BY <1>1 DEF PermitInv, Releases
<1>3. report_sem = 0 /\ ~Propagating("irq") /\ ~Propagating("shutdown")
  BY <1>2 DEF PermitInv
<1>4. report_sem' = IF outstanding' = 0 THEN 1 ELSE 0
  BY <1>3 DEF Releases
<1>5. outstanding' \in Nat
  BY <1>2
<1>6. outstanding' = leaked' + Cardinality(Holders')
  BY <1>1, <1>2 DEF PermitInv
<1> QED BY <1>1, <1>3, <1>4, <1>5, <1>6 DEF PermitInv

\* A reader leaves without giving it back.
LEMMA PermitLeaks ==
  ASSUME PermitInv, UNCHANGED <<report_sem, outstanding>>, leaked' = leaked + 1,
         NEW r \in Holders, Holders' = Holders \ {r},
         Propagating("irq")' <=> Propagating("irq"),
         Propagating("shutdown")' <=> Propagating("shutdown")
  PROVE  PermitInv'
<1>1. /\ Cardinality(Holders) \in Nat
      /\ IsFiniteSet(Holders') /\ Cardinality(Holders') = Cardinality(Holders) - 1
  BY FS_CardinalityType, FS_RemoveElement DEF PermitInv
<1>2. outstanding' = leaked' + Cardinality(Holders') /\ leaked' \in Nat
  BY <1>1 DEF PermitInv
<1> QED BY <1>1, <1>2 DEF PermitInv

\* There are as many readers that wait as slots in use.
LEMMA WaitingCount ==
  ASSUME SlotInv
  PROVE  IsFiniteSet(Waiting) /\ Cardinality(Waiting) = Cardinality(Used)
<1> DEFINE f == [r \in Waiting |-> slot[r]]
<1>1. \A r \in Waiting : f[r] \in Used
  BY Waits
<1>2. f \in [Waiting -> Used]
  BY <1>1
<1>3. \A r, s \in Waiting : f[r] = f[s] => r = s
  BY DEF SlotInv
<1>4. \A i \in Used : \E r \in Waiting : f[r] = i
  BY DEF SlotInv
<1>5. f \in Injection(Waiting, Used) /\ f \in Surjection(Waiting, Used)
  <2> HIDE DEF f
  <2> QED BY <1>2, <1>3, <1>4 DEF Injection, Surjection, IsInjective
<1>6. IsFiniteSet(Used)
  <2>1. IsFiniteSet(Slots)
    BY FS_Interval, ReportsAssumption DEF Slots
  <2> QED BY <2>1, FS_Subset DEF Used
<1> HIDE DEF f
<1> QED BY <1>5, <1>6, FS_Injection

\* A report is passed to all that wait; the permit goes with it.
LEMMA PermitPassed ==
  ASSUME Places, SlotInv, PermitInv, NEW t \in Propagators, propagate_readers(t)
  PROVE  /\ PermitInv' /\ outstanding = 0
         /\ t = "shutdown" => outstanding' = 0
<1>t. t \in Threads /\ pc[t] = "readers" /\ t \in {"irq", "shutdown"}
  BY Apart DEF propagate_readers, Propagators
<1>f. /\ \A u \in Threads \ {t} : pc'[u] = pc[u]
      /\ leaked' = leaked /\ slot' = slot
      /\ pc'[t] = IF t = "irq" THEN "idle" ELSE "entries"
  <2>1. pc'[t] = IF t = "irq" THEN "idle" ELSE "entries"
    BY <1>t DEF propagate_readers, Goto, Places
  <2> QED BY <2>1, PropagatorFrame DEF Propagate
<1>0. outstanding = 0 /\ report_sem = 0 /\ Propagating(t)
  BY <1>t DEF PermitInv, Propagating
<1>1. leaked = 0 /\ Holders = {}
  BY <1>0, NobodyHolds
<1>2. ~Propagating("irq")' /\ ~Propagating("shutdown")'
  <2>1. t = "irq" => ~Propagating("shutdown")
    BY <1>0 DEF PermitInv
  <2>2. t = "shutdown" => ~Propagating("irq")
    BY <1>0 DEF PermitInv
  <2> QED BY <1>f, <1>t, <2>1, <2>2, Apart DEF Propagating
<1>3. ASSUME NEW r \in Readers, r \notin Waiting PROVE ~Holding(r) /\ ~Holding(r)'
  BY <1>3, <1>1, <1>f, <1>t, Apart DEF Holders, Holding, Waiting
<1>4. ASSUME NEW r \in Waiting
      PROVE  Holding(r)' <=> readers'[slot[r]].reports_passed > 0
  BY <1>f, <1>t, Apart DEF Holding, Waiting
<1>5. ASSUME NEW r \in Waiting
      PROVE  readers'[slot[r]].reports_passed = IF t = "irq" THEN 1 ELSE 0
  <2>1. slot[r] \in Used /\ readers[slot[r]] \in Reader /\ slot[r] \in Slots
    BY Waits
  <2>2. ~(readers[slot[r]].reports_passed > 0)
    BY <1>1 DEF Holders, Holding, Waiting
  <2>3. readers[slot[r]].reports_passed = 0
    BY <2>1, <2>2 DEF Reader
  <2>4. readers' = passed(t) /\ readers \in [Slots -> Reader]
    BY DEF propagate_readers, SlotInv
  <2> QED BY <2>1, <2>3, <2>4, PassedSlot
<1>6. CASE t = "irq"
  <2>1. Holders' = Waiting
    BY <1>3, <1>4, <1>5, <1>6 DEF Holders, Waiting
  <2>2. /\ IsFiniteSet(Holders') /\ outstanding' = Cardinality(Holders')
        /\ Cardinality(Holders') \in Nat
    BY <1>0, <1>6, <2>1, WaitingCount, FS_CardinalityType DEF propagate_readers
  <2>3. report_sem' = IF outstanding' = 0 THEN 1 ELSE 0
    BY <1>0 DEF propagate_readers, gives_back
  <2> QED BY <1>0, <1>1, <1>2, <1>f, <1>6, <2>2, <2>3 DEF PermitInv
<1>7. CASE t = "shutdown"
  <2>1. Holders' = {}
    BY <1>3, <1>4, <1>5, <1>7 DEF Holders, Waiting
  <2>2. outstanding' = 0 /\ report_sem' = 1
    BY <1>0, <1>7 DEF propagate_readers, gives_back
  <2> QED BY <1>0, <1>1, <1>2, <1>f, <1>7, <2>1, <2>2, FS_EmptySet DEF PermitInv
<1> QED BY <1>6, <1>7, <1>t

\* The permit when a reader takes a step.
LEMMA PermitReader ==
  ASSUME Places, SlotInv, PermitInv, NEW r \in Readers, ReaderSteps(r)
  PROVE  PermitInv' /\ (outstanding' > 0 => outstanding > 0) /\ Holders' \subseteq Holders
<1>f. /\ Propagating("irq")' <=> Propagating("irq")
      /\ Propagating("shutdown")' <=> Propagating("shutdown")
  BY ReaderFrame, Apart DEF Propagating
<1>1. CASE get_report(r)
  BY <1>1, <1>f, GetReport, PermitKept DEF get_report, propagation, ghosts
<1>2. CASE get_report_down(r)
  BY <1>2, <1>f, GetReportDown, PermitKept DEF get_report_down, propagation, ghosts
<1>3. CASE get_report_signal(r)
  BY <1>3, <1>f, GetReportSignal, PermitKept DEF get_report_signal, propagation, reading, ghosts
<1>r. Releases /\ r \in Holders => outstanding > 0
  <2>1. r \in Holders => outstanding > 0
    BY FS_CardinalityType, FS_EmptySet DEF PermitInv
  <2> QED BY <2>1
<1>4. CASE get_report_done(r)
  <2>1. CASE gives_up(r)
    <3>1. Releases /\ leaked' = leaked
      BY <1>4, <2>1 DEF get_report_done, gives_up
    <3>2. Holders' = Holders \ {r} /\ r \in Holders
      BY <1>4, <2>1, GetReportDone DEF Holders
    <3> QED BY <1>f, <1>r, <3>1, <3>2, PermitReleases
  <2>2. CASE ~gives_up(r) /\ pc'[r] = "reading"
    <3>1. pc[r] = "woken" /\ readers[slot[r]].status = "ok"
      BY <1>4, <2>2, Apart DEF get_report_done, Goto, Places
    <3>2. UNCHANGED <<report_sem, outstanding, leaked>>
      BY <1>4, <2>2, <3>1 DEF get_report_done
    <3> QED BY <1>f, <1>4, <2>2, <3>2, GetReportDone, PermitKept
  <2>3. CASE ~gives_up(r) /\ pc'[r] # "reading" /\ Holding(r)
    <3>1. /\ Holders' = Holders \ {r} /\ r \in Holders
          /\ readers[slot[r]].reports_passed > 0
      BY <1>4, <2>3, GetReportDone DEF Holders
    <3>2. ~(pc[r] = "woken" /\ readers[slot[r]].status = "ok")
      BY <1>4, <2>3, Apart DEF get_report_done, Goto, Places
    <3>3. pc[r] = "woken"
      BY <1>4, <2>3, <3>1 DEF get_report_done, gives_up
    <3>4. UNCHANGED <<report_sem, outstanding>> /\ leaked' = leaked + 1
      BY <1>4, <2>3, <3>1, <3>2, <3>3 DEF get_report_done
    <3> QED BY <1>f, <3>1, <3>4, PermitLeaks
  <2>4. CASE ~gives_up(r) /\ pc'[r] # "reading" /\ ~Holding(r)
    <3>1. Holders' = Holders \ {r} /\ ~(readers[slot[r]].reports_passed > 0)
      BY <1>4, <2>4, GetReportDone
    <3>2. Holders' = Holders
      BY <2>4, <3>1 DEF Holders
    <3>3. UNCHANGED <<report_sem, outstanding, leaked>>
      BY <1>4, <2>4, <3>1 DEF get_report_done
    <3> QED BY <1>f, <3>2, <3>3, PermitKept
  <2> QED BY <2>1, <2>2, <2>3, <2>4
<1>5. CASE report_read(r)
  <2>h. /\ Holding(r) /\ r \in Holders
        /\ Holders' = IF pc'[r] = "idle" THEN Holders \ {r} ELSE Holders
    BY <1>5, ReaderLeaves DEF Holders
  <2>o. UNCHANGED <<report_sem, outstanding>>
    BY <1>5 DEF report_read, propagation, reading
  <2>1. CASE Goto(r, "release") /\ leaked' = leaked
    <3>1. pc'[r] = "release"
      BY <2>1, Apart DEF Goto, Places
    <3> QED BY <1>f, <2>h, <2>o, <2>1, <3>1, PermitKept
  <2>2. CASE Goto(r, "idle") /\ leaked' = leaked + 1
    <3>1. pc'[r] = "idle"
      BY <2>2, Apart DEF Goto, Places
    <3> QED BY <1>f, <2>h, <2>o, <2>2, <3>1, PermitLeaks
  <2> QED BY <1>5, <2>1, <2>2 DEF report_read
<1>6. CASE release_report(r)
  <2>1. /\ Releases /\ leaked' = leaked /\ pc'[r] = "idle"
    BY <1>6, Apart DEF release_report, Goto, Places
  <2>2. Holders' = Holders \ {r} /\ r \in Holders
    BY <1>6, <2>1, ReaderLeaves DEF Holders
  <2> QED BY <1>f, <1>r, <2>1, <2>2, PermitReleases
<1> QED BY <1>1, <1>2, <1>3, <1>4, <1>5, <1>6 DEF ReaderSteps, Read

\* It is always in one place.
LEMMA PermitStep ==
  ASSUME Places, SlotInv, PermitInv, Next
  PROVE  PermitInv'
<1>0. "irq" \in Propagators /\ "shutdown" \in Propagators
  BY DEF Propagators
<1>1. CASE chip_posts \/ chip_answers \/ irq_handler_soft_resets
  <2>1. Holders' = Holders
    BY <1>1, ChipFrame, SlotKept DEF reading
  <2> QED BY <1>1, <2>1, ChipFrame, PermitKept DEF propagation, reading, ghosts, Propagating
<1>2. ASSUME NEW r \in Readers, ReaderSteps(r) PROVE PermitInv'
  BY <1>2, PermitReader
<1>3. ASSUME NEW c \in Callers, CallerSteps(c) PROVE PermitInv'
  <2>1. /\ UNCHANGED <<report_sem, outstanding, leaked>>
        /\ \A u \in Threads \ {c} : pc'[u] = pc[u]
    BY <1>3, CallerFrame DEF propagation, reading
  <2>2. Holders' = Holders
    BY <1>3, CallerFrame, Apart, SlotKept DEF reading
  <2> QED BY <2>1, <2>2, Apart, PermitKept DEF Propagating
<1>4. ASSUME NEW t \in Propagators, propagate_readers(t) PROVE PermitInv'
  BY <1>4, PermitPassed
<1>5. ASSUME NEW t \in Propagators,
             \/ Propagate(t) /\ ~propagate_readers(t)
             \/ t = "irq" /\ (irq_handler_soft \/ propagate_combine)
             \/ t = "shutdown" /\ (propagate_status \/ shutdown \/ shutdown_removes)
      PROVE  PermitInv'
  <2>t. t \in {"irq", "shutdown"} /\ t \in Threads /\ pc \in [Threads -> Labels]
    BY Apart DEF Propagators, Places
  <2>1. /\ UNCHANGED <<readers, slot, outstanding, leaked>>
        /\ \A u \in Threads \ {t} : pc'[u] = pc[u]
    <3>1. /\ \A u \in Threads \ {t} : pc'[u] = pc[u]
          /\ UNCHANGED <<slot, leaked>>
      BY <1>5, PropagatorFrame
    <3>2. UNCHANGED <<readers, outstanding>>
      BY <1>5 DEF Propagate, propagate_report, process_rbcmd, process_rbcmd_received,
                  process_rbcmd_copy, irq_handler_soft, propagate_combine, propagate_status,
                  shutdown, shutdown_removes, reading
    <3> QED BY <3>1, <3>2
  <2>2. Holders' = Holders
    <3>1. \A r \in Readers : pc'[r] = pc[r]
      BY <2>t, <2>1, Apart
    <3> QED BY <2>1, <3>1 DEF Holders, Holding
  <2>3. CASE propagate_report(t)
    <3>1. report_sem = 1 /\ report_sem' = 0 /\ pc'[t] = "combine"
      BY <2>t, <2>3 DEF propagate_report, Goto, PermitInv
    <3>2. Propagating(t)'
      BY <3>1 DEF Propagating
    <3>3. \A u \in Propagators \ {t} : ~Propagating(u)'
      BY <2>t, <2>1, <3>1, Apart DEF Propagating, PermitInv, Propagators
    <3> QED BY <2>t, <1>0, <2>1, <2>2, <3>1, <3>2, <3>3 DEF PermitInv
  <2>4. CASE process_rbcmd(t) \/ process_rbcmd_received(t) \/ process_rbcmd_copy(t)
    <3>1. /\ pc[t] \in {"rbcmd", "received", "copy"} /\ pc'[t] \in {"received", "copy", "readers"}
          /\ report_sem' = report_sem
      BY <2>t, <2>4 DEF process_rbcmd, process_rbcmd_received, process_rbcmd_copy, Goto, propagation
    <3>2. \A u \in Propagators : Propagating(u)' <=> Propagating(u)
      BY <2>t, <2>1, <3>1, Apart DEF Propagating, Propagators
    <3> QED BY <1>0, <2>1, <2>2, <3>1, <3>2, PermitKept
  <2>5. CASE t = "irq" /\ propagate_combine
    <3>1. /\ pc["irq"] = "combine"
          /\ \/ pc'["irq"] = "rbcmd" /\ report_sem' = report_sem
             \/ pc'["irq"] = "idle" /\ report_sem' = report_sem + 1
      BY <2>t, <2>5 DEF propagate_combine, Goto
    <3>2. Propagating("irq") /\ ~Propagating("shutdown") /\ outstanding = 0 /\ report_sem = 0
      BY <3>1 DEF Propagating, PermitInv
    <3>3. ~Propagating("shutdown")'
      BY <2>1, <2>5, <3>2, Apart DEF Propagating
    <3>4. CASE pc'["irq"] = "rbcmd" /\ report_sem' = report_sem
      <4>1. Propagating("irq")'
        BY <3>4 DEF Propagating
      <4> QED BY <2>1, <2>2, <3>2, <3>3, <3>4, <4>1, PermitKept
    <3>5. CASE pc'["irq"] = "idle" /\ report_sem' = report_sem + 1
      <4>1. ~Propagating("irq")' /\ report_sem' = 1
        BY <3>5, <3>2 DEF Propagating
      <4> QED BY <2>1, <2>2, <3>2, <3>3, <4>1 DEF PermitInv
    <3> QED BY <3>1, <3>4, <3>5
  <2>6. CASE t = "shutdown" /\ propagate_status
    <3>1. pc["shutdown"] = "combine" /\ pc'["shutdown"] = "rbcmd" /\ report_sem' = report_sem
      BY <2>t, <2>6 DEF propagate_status, Goto
    <3>2. \A u \in Propagators : Propagating(u)' <=> Propagating(u)
      BY <2>t, <2>1, <2>6, <3>1, Apart DEF Propagating, Propagators
    <3> QED BY <1>0, <2>1, <2>2, <3>1, <3>2, PermitKept
  <2>7. CASE \/ t = "irq" /\ irq_handler_soft
             \/ t = "shutdown" /\ (shutdown \/ shutdown_removes)
    <3>1. /\ pc[t] \in {"idle", "off", "entries", "report", "free_irq"}
          /\ pc'[t] \in {"propagate", "report", "free_irq", "gone"}
          /\ report_sem' = report_sem
      BY <2>t, <2>7 DEF irq_handler_soft, shutdown, shutdown_removes, Goto, propagation
    <3>2. \A u \in Propagators : Propagating(u)' <=> Propagating(u)
      BY <2>t, <2>1, <3>1, Apart DEF Propagating, Propagators
    <3> QED BY <1>0, <2>1, <2>2, <3>1, <3>2, PermitKept
  <2> QED BY <1>5, <2>3, <2>4, <2>5, <2>6, <2>7 DEF Propagate
<1> QED BY <1>0, <1>1, <1>2, <1>3, <1>4, <1>5, StepCases

-----------------------------------------------------------------------------
(* The packets.                                                             *)

\* Who does not touch the reports, and leaves the interrupt thread where it
\* is, does no harm while no report is passed.
LEMMA PacketKept ==
  ASSUME PacketInv, UNCHANGED <<out, rx_packet, rx_report, combined>>,
         pc'["irq"] = pc["irq"], cmds' \in Seq(Answers), spoilt' \subseteq spoilt,
         outstanding' > 0 => outstanding > 0
  PROVE  PacketInv'
BY DEF PacketInv, Combining, Half, Whole

\* Packets that are different.
LEMMA Packets ==
  /\ Second \notin Kinds /\ Start \notin Kinds /\ Start # Second
  /\ Start.total = 2 /\ Start.num = 1 /\ Second.total = 2 /\ Second.num = 2
  /\ \A p \in Kinds : p.total = 1 /\ p.num = 1 /\ p.id \in Answers \union {"touch"}
  /\ Start.id = "image" /\ Image = <<Start, Second>> /\ Touch \in {<<p>> : p \in Kinds}
BY DEF Second, Start, Kinds, Packet, Answers, Image, Touch

\* A sequence of two is its elements.
LEMMA TwoElements == ASSUME NEW S, NEW s \in Seq(S), Len(s) = 2 PROVE s = <<s[1], s[2]>>
OBVIOUS

\* What is put behind a sequence of one.
LEMMA AppendToOne ==
  ASSUME NEW S, NEW s \in Seq(S), Len(s) = 1, NEW b \in S
  PROVE  Append(s, b) = <<s[1], b>>
<1>1. Append(s, b) \in Seq(S)
  OBVIOUS
<1>2. Len(Append(s, b)) = 2
  OBVIOUS
<1>3. Len(s) + 1 = 2 /\ 1 \in 1 .. Len(s)
  OBVIOUS
<1>4. Append(s, b)[Len(s) + 1] = b
  BY AppendProperties, Zenon
<1>5. ASSUME NEW i \in 1 .. Len(s) PROVE Append(s, b)[i] = s[i]
  OBVIOUS
<1>6. Append(s, b)[1] = s[1]
  BY <1>3, <1>5, Zenon
<1>7. Append(s, b)[2] = b
  BY <1>3, <1>4, Zenon
<1> QED BY <1>1, <1>2, <1>6, <1>7, TwoElements, Zenon

\* The same, of the sequence <<a>>.
LEMMA AppendOne == ASSUME NEW a, NEW b PROVE Append(<<a>>, b) = <<a, b>>
<1>1. /\ <<a>> \in Seq({a, b}) /\ Len(<<a>>) = 1 /\ <<a>>[1] = a /\ b \in {a, b}
  OBVIOUS
<1> QED BY <1>1, AppendToOne, Zenon
\* A packet is put to the report it belongs to, and a report that is taken
\* for complete is.
LEMMA Combine ==
  ASSUME PacketInv, pc["irq"] = "combine", combine_multipacketreport
  PROVE  /\ combined' \in 0 .. 2
         /\ rx_report' \in {<<>>, <<Start>>, Image} \union {<<p>> : p \in Kinds}
         /\ Completes => Whole(rx_report')
         /\ ~Completes => rx_packet = Start /\ combined' = 1 /\ rx_report' = <<Start>>
<1>1. rx_packet \in Kinds \union {Start, Second} /\ (rx_packet = Second => Half)
  BY DEF PacketInv, Combining
<1>2. CASE rx_packet \in Kinds
  <2>1. Single
    BY <1>2, Packets DEF Single
  <2>2. rx_report' = <<rx_packet>> /\ combined' = 1 /\ Completes
    BY <2>1 DEF combine_multipacketreport, Completes
  <2> QED BY <1>2, <2>2 DEF Whole
<1>3. CASE rx_packet = Start
  <2>1. ~Single /\ First
    BY <1>3, Packets DEF Single, First
  <2>2. rx_report' = <<Start>> /\ combined' = 1
    BY <1>3, <2>1 DEF combine_multipacketreport
  <2>3. ~Completes
    BY <1>3, <2>1, Packets DEF Completes, Single
  <2> QED BY <1>3, <2>2, <2>3
<1>4. CASE rx_packet = Second
  <2>1. ~Single /\ ~First /\ Following /\ Completes
    BY <1>1, <1>4, Packets DEF Single, First, Following, Completes, Half
  <2>2. rx_report' = Append(rx_report, Second) /\ combined' = 2
    BY <1>1, <1>4, <2>1 DEF combine_multipacketreport, Half
  <2>3. rx_report' = Image
    <3>1. rx_report = <<Start>>
      BY <1>1, <1>4 DEF Half
    <3>2. Append(<<Start>>, Second) = <<Start, Second>>
      BY AppendOne
    <3> QED BY <2>2, <3>1, <3>2, Packets
  <2> QED BY <2>1, <2>2, <2>3 DEF Whole
<1> QED BY <1>1, <1>2, <1>3, <1>4

\* What is in rx_report stays whole while a reader is to read it.
LEMMA PacketStep ==
  ASSUME Places, SlotInv, PermitInv, PacketInv, CallInv, Next
  PROVE  PacketInv'
<1>0. "irq" \in Propagators /\ "shutdown" \in Propagators
  BY DEF Propagators
<1>1. CASE chip_posts
  <2>1. out = <<>> /\ out' \in {Image, Touch}
    BY <1>1 DEF chip_posts
  <2>2. out' \in {<<>>, Image, <<Second>>} \union {<<p>> : p \in Kinds} /\ out' # <<Second>>
    BY <2>1, Packets
  <2>3. UNCHANGED <<pc, cmds, rx_packet, rx_report, combined, spoilt, outstanding>>
    BY <1>1 DEF chip_posts, propagation, reading, ghosts
  <2> QED BY <2>2, <2>3 DEF PacketInv, Combining, Half, Whole
<1>2. CASE chip_answers
  <2>1. /\ cmds \in Seq(Answers) /\ cmds # <<>> /\ cmds' = Tail(cmds)
    BY <1>2 DEF chip_answers, PacketInv
  <2>2. cmds' \in Seq(Answers) /\ Head(cmds) \in Answers
    BY <2>1
  <2>3. <<Packet(Head(cmds), 1, 1)>> \in {<<p>> : p \in Kinds}
    BY <2>2 DEF Kinds
  <2>4. out' = out \/ out' = <<Packet(Head(cmds), 1, 1)>>
    BY <1>2 DEF chip_answers
  <2>5. UNCHANGED <<pc, rx_packet, rx_report, combined, spoilt, outstanding>>
    BY <1>2 DEF chip_answers, propagation, reading, ghosts
  <2>6. CASE out' = out
    BY <2>2, <2>5, <2>6, PacketKept
  <2>7. CASE out' = <<Packet(Head(cmds), 1, 1)>>
    <3>1. out' # <<Second>>
      BY <2>3, <2>7, Packets
    <3> QED BY <2>2, <2>3, <2>5, <2>7, <3>1 DEF PacketInv, Combining, Half, Whole
  <2> QED BY <2>4, <2>6, <2>7
<1>3. CASE irq_handler_soft_resets
  <2>1. out' = <<>> /\ cmds' = <<>> /\ <<>> \in Seq(Answers) /\ out' # <<Second>>
    BY <1>3 DEF irq_handler_soft_resets
  <2>2. UNCHANGED <<pc, rx_packet, rx_report, combined, spoilt, outstanding>>
    BY <1>3 DEF irq_handler_soft_resets, propagation, reading, ghosts
  <2> QED BY <2>1, <2>2 DEF PacketInv, Combining, Half, Whole
<1>4. ASSUME NEW r \in Readers, ReaderSteps(r) PROVE PacketInv'
  <2>1. /\ UNCHANGED <<out, cmds, rx_packet, rx_report, combined>> /\ pc'["irq"] = pc["irq"]
    BY <1>4, ReaderFrame, Apart DEF chip
  <2>2. spoilt' \subseteq spoilt
    BY <1>4 DEF ReaderSteps, Read, get_report, get_report_signal, get_report_down,
                get_report_done, report_read, release_report, ghosts
  <2>3. outstanding' > 0 => outstanding > 0
    BY <1>4, PermitReader
  <2> QED BY <2>1, <2>2, <2>3, PacketKept DEF PacketInv
<1>5. ASSUME NEW c \in Callers, CallerSteps(c) PROVE PacketInv'
  <2>1. /\ UNCHANGED <<out, rx_packet, rx_report, combined, spoilt, outstanding>>
        /\ pc'["irq"] = pc["irq"]
    BY <1>5, CallerFrame, Apart DEF propagation, reading
  <2>2. cmds' \in Seq(Answers)
    <3>1. cmds \in Seq(Answers)
      BY DEF PacketInv
    <3>2. CASE rbcmd_cmd_send(c)
      <4>1. pc[c] = "send" => rbcmd.report_id \in Answers
        BY DEF CallInv, InCall
      <4> QED BY <3>1, <3>2, <4>1 DEF rbcmd_cmd_send
    <3>3. CASE ~rbcmd_cmd_send(c)
      <4>1. cmds' = cmds
        BY <1>5, <3>3 DEF CallerSteps, Call, rbcmd_send_receive, rbcmd_answered,
                          rbcmd_times_out, rbcmd_failed, fw_ver_show, chip
      <4> QED BY <3>1, <4>1
    <3> QED BY <3>2, <3>3
  <2> QED BY <2>1, <2>2, PacketKept
<1>6. CASE Propagate("shutdown") \/ propagate_status \/ shutdown \/ shutdown_removes
  <2>1. /\ cmds' = cmds /\ pc'["irq"] = pc["irq"]
    BY <1>0, <1>6, PropagatorFrame, Apart
  <2>2. UNCHANGED <<out, rx_packet, rx_report, combined, spoilt>>
    BY <1>6 DEF Propagate, propagate_report, process_rbcmd, process_rbcmd_received,
                process_rbcmd_copy, propagate_readers, propagate_status, shutdown,
                shutdown_removes, propagation, chip, ghosts
  <2>3. outstanding' > 0 => outstanding > 0
    <3>1. CASE propagate_readers("shutdown")
      BY <1>0, <3>1, PermitPassed
    <3>2. CASE ~propagate_readers("shutdown")
      BY <1>6, <3>2 DEF Propagate, propagate_report, process_rbcmd, process_rbcmd_received,
                process_rbcmd_copy, propagate_status, shutdown, shutdown_removes, reading
    <3> QED BY <3>1, <3>2
  <2> QED BY <2>1, <2>2, <2>3, PacketKept DEF PacketInv
<1>7. CASE irq_handler_soft
  <2>1. /\ pc["irq"] = "idle" /\ pc'["irq"] = "propagate"
        /\ out # <<>> /\ rx_packet' = Head(out) /\ out' = Tail(out)
        /\ UNCHANGED <<rx_report, combined, cmds, spoilt, outstanding>>
    BY <1>7, Apart DEF irq_handler_soft, Goto, Places, reading, ghosts
  <2>2. CASE out = Image
    <3>1. rx_packet' = Start /\ out' = <<Second>>
      BY <2>1, <2>2, Packets
    <3> QED BY <2>1, <3>1, Packets DEF PacketInv, Combining, Half, Whole
  <2>3. CASE out = <<Second>>
    <3>1. rx_packet' = Second /\ out' = <<>> /\ <<>> # <<Second>>
      BY <2>1, <2>3
    <3>2. Half
      BY <2>1, <2>3 DEF PacketInv, Combining
    <3> QED BY <2>1, <3>1, <3>2, Packets DEF PacketInv, Combining, Half, Whole
  <2>4. ASSUME NEW p \in Kinds, out = <<p>> PROVE PacketInv'
    <3>1. rx_packet' = p /\ out' = <<>> /\ <<>> # <<Second>>
      BY <2>1, <2>4
    <3> QED BY <2>1, <3>1, Packets DEF PacketInv, Combining, Half, Whole
  <2> QED BY <2>1, <2>2, <2>3, <2>4 DEF PacketInv
<1>8. CASE propagate_combine
  <2>1. /\ pc["irq"] = "combine" /\ combine_multipacketreport
        /\ pc'["irq"] = IF Completes THEN "rbcmd" ELSE "idle"
        /\ UNCHANGED <<out, cmds, outstanding>>
    BY <1>8, Apart DEF propagate_combine, Goto, Places, reading, chip
  <2>2. outstanding = 0
    BY <2>1 DEF PermitInv, Propagating
  <2>3. Holders = {}
    BY <2>2, NobodyHolds
  <2>4. spoilt' = {}
    BY <2>1, <2>3 DEF PacketInv, combine_multipacketreport, Holders
  <2>5. out = <<Second>> => rx_packet = Start
    BY <2>1 DEF PacketInv, Combining
  <2>6. ~Combining'
    BY <2>1 DEF Combining
  <2>7. CASE Completes
    <3>1. rx_packet # Start
      BY <2>7, Packets DEF Completes, Single, Following, PacketInv
    <3> QED BY <2>1, <2>2, <2>4, <2>5, <2>6, <2>7, <3>1, Combine DEF PacketInv
  <2>8. CASE ~Completes
    <3>1. Half'
      BY <2>1, <2>8, Combine DEF Half
    <3> QED BY <2>1, <2>2, <2>4, <2>5, <2>6, <2>8, <3>1, Combine DEF PacketInv
  <2> QED BY <2>7, <2>8
<1>9. CASE Propagate("irq")
  <2>1. /\ cmds' = cmds
        /\ UNCHANGED <<out, rx_packet, rx_report, combined, spoilt>>
    BY <1>9 DEF Propagate, propagate_report, process_rbcmd, process_rbcmd_received,
                process_rbcmd_copy, propagate_readers, propagation, chip, ghosts
  <2>2. CASE propagate_report("irq")
    <3>1. pc["irq"] = "propagate" /\ pc'["irq"] = "combine" /\ outstanding' = outstanding
      BY <2>2, Apart DEF propagate_report, Goto, Places, reading
    <3> QED BY <2>1, <3>1 DEF PacketInv, Combining, Half, Whole
  <2>3. CASE process_rbcmd("irq") \/ process_rbcmd_received("irq") \/ process_rbcmd_copy("irq")
    <3>1. /\ pc["irq"] \in {"rbcmd", "received", "copy"}
          /\ pc'["irq"] \in {"received", "copy", "readers"} /\ outstanding' = outstanding
      BY <2>3, Apart DEF process_rbcmd, process_rbcmd_received, process_rbcmd_copy, Goto,
                         Places, reading
    <3> QED BY <2>1, <3>1 DEF PacketInv, Combining, Half, Whole
  <2>4. CASE propagate_readers("irq")
    <3>1. pc["irq"] = "readers" /\ pc'["irq"] = "idle"
      BY <2>4, Apart DEF propagate_readers, Goto, Places
    <3>2. Whole(rx_report) /\ out # <<Second>>
      BY <3>1 DEF PacketInv, Combining
    <3> QED BY <2>1, <3>1, <3>2 DEF PacketInv, Combining, Half, Whole
  <2> QED BY <1>9, <2>2, <2>3, <2>4 DEF Propagate
<1> QED BY <1>1, <1>2, <1>3, <1>4, <1>5, <1>6, <1>7, <1>8, <1>9, StepCases

-----------------------------------------------------------------------------
(* The mutexes.                                                             *)

\* Only those two threads keep one between their steps.
LEMMA LockStep == ASSUME LockInv, Next PROVE LockInv'
<1>1. CASE chip_posts \/ chip_answers \/ irq_handler_soft_resets
  BY <1>1, ChipFrame DEF LockInv, propagation
<1>2. ASSUME NEW r \in Readers, ReaderSteps(r) PROVE LockInv'
  <2>1. UNCHANGED <<report_mutex, i2c_mutex>>
    BY <1>2 DEF ReaderSteps, Read, get_report, get_report_signal, get_report_down,
                get_report_done, report_read, release_report, propagation
  <2> QED BY <2>1 DEF LockInv
<1>3. ASSUME NEW c \in Callers, CallerSteps(c) PROVE LockInv'
  <2>1. UNCHANGED <<report_mutex, i2c_mutex>>
    BY <1>3 DEF CallerSteps, Call, rbcmd_send_receive, rbcmd_cmd_send, rbcmd_answered,
                rbcmd_times_out, rbcmd_failed, fw_ver_show, propagation
  <2> QED BY <2>1 DEF LockInv
<1>4. ASSUME NEW t \in {"irq", "shutdown"}, Propagate(t) PROVE LockInv'
  <2>1. /\ report_mutex' \in {report_mutex, "free"} /\ i2c_mutex' \in {i2c_mutex, "free"}
    BY <1>4 DEF Propagate, propagate_report, process_rbcmd, process_rbcmd_received,
                process_rbcmd_copy, propagate_readers, propagation
  <2> QED BY <2>1 DEF LockInv
<1>5. CASE irq_handler_soft \/ propagate_combine
  BY <1>5 DEF irq_handler_soft, propagate_combine, LockInv
<1>6. CASE propagate_status \/ shutdown \/ shutdown_removes
  BY <1>6 DEF propagate_status, shutdown, shutdown_removes, propagation, LockInv
<1> QED BY <1>1, <1>2, <1>3, <1>4, <1>5, <1>6, StepCases

-----------------------------------------------------------------------------
(* The calls.                                                               *)

\* The fields after process_rbcmd(), and at the end of a call.
LEMMA RbcmdReceived ==
  ASSUME NEW x \in Rbcmd, NEW y, y = [x EXCEPT !.received = TRUE]
  PROVE  /\ y \in Rbcmd /\ (y.waiting <=> x.waiting) /\ y.received
         /\ y.report_id = x.report_id /\ y.rx_report = x.rx_report
BY DEF Rbcmd

LEMMA RbcmdEnds ==
  ASSUME NEW x \in Rbcmd, NEW y, y = [x EXCEPT !.waiting = FALSE]
  PROVE  /\ y \in Rbcmd /\ ~y.waiting
         /\ y.report_id = x.report_id /\ y.rx_report = x.rx_report
BY DEF Rbcmd

\* A call goes on as it was.
LEMMA CallKept ==
  ASSUME CallInv, UNCHANGED <<sema_rbcmd, rbcmd>>, raced' \subseteq Callers,
         \A c \in Callers : InCall(c)' <=> InCall(c)
  PROVE  CallInv'
<1>1. rbcmd.rx_report \in Callers
  BY DEF CallInv, Rbcmd
<1> QED BY <1>1 DEF CallInv

\* What is in the buffers stays what it is while nobody writes the report
\* that is about to be filled in.
LEMMA FillKept ==
  ASSUME FillInv, UNCHANGED <<rbcmd, buf, raced>>,
         Filling' <=> Filling, Answering' <=> Answering, Filling => rx_report' = rx_report,
         \A c \in Callers : /\ InCall(c)' <=> InCall(c)
                            /\ pc'[c] = "answered" <=> pc[c] = "answered"
  PROVE  FillInv'
<1>1. ASSUME NEW c \in Callers \ raced, InCall(c)'
      PROVE  /\ Filling' => Id(rx_report)' = rbcmd'.report_id
             /\ rbcmd'.received => Answering' \/ buf'[c] = rbcmd'.report_id
  BY <1>1 DEF FillInv, Id
<1>2. ASSUME NEW c \in Callers \ raced, pc'[c] = "answered"
      PROVE  /\ buf'[c] \in Answers
             /\ rbcmd'.rx_report = c => buf'[c] = rbcmd'.report_id /\ ~Filling'
  BY <1>2 DEF FillInv
<1> QED BY <1>1, <1>2 DEF FillInv

\* A call begins when none is under way.
LEMMA CallBegins ==
  ASSUME Places, CallInv, FillInv, NEW c \in Callers, rbcmd_send_receive(c)
  PROVE  CallInv' /\ FillInv'
<1>1. /\ sema_rbcmd = 1 /\ sema_rbcmd' = 0 /\ pc'[c] = "send"
      /\ \A u \in Threads \ {c} : pc'[u] = pc[u]
  BY CallerFrame, Apart DEF rbcmd_send_receive, CallInv, Goto, Places, CallerSteps
<1>2. PICK id \in Answers :
        rbcmd' = [waiting |-> TRUE, received |-> FALSE, report_id |-> id, rx_report |-> c]
  BY DEF rbcmd_send_receive
<1>3. /\ rbcmd' \in Rbcmd /\ rbcmd'.waiting /\ ~rbcmd'.received
      /\ rbcmd'.report_id = id /\ rbcmd'.rx_report = c
  BY <1>2 DEF Rbcmd
<1>4. \A d \in Callers : ~InCall(d)
  BY <1>1 DEF CallInv
<1>5. \A d \in Callers : InCall(d)' <=> d = c
  BY <1>1, <1>4, Apart DEF InCall
<1>6. raced' = IF Filling THEN raced \union {c} ELSE raced \ {c}
  BY DEF rbcmd_send_receive
<1>7. CallInv'
  BY <1>1, <1>3, <1>5, <1>6 DEF CallInv
<1>8. Filling' <=> Filling
  BY <1>1, Apart DEF Filling, Propagators
<1>9. /\ DOMAIN buf' = Callers /\ \A d \in Callers \ {c} : buf'[d] = buf[d]
  BY DEF rbcmd_send_receive, FillInv
<1>10. ASSUME NEW d \in Callers \ raced', InCall(d)'
       PROVE  /\ Filling' => Id(rx_report)' = rbcmd'.report_id
              /\ rbcmd'.received => Answering' \/ buf'[d] = rbcmd'.report_id
  <2>1. d = c
    BY <1>5, <1>10
  <2> QED BY <2>1, <1>3, <1>6, <1>8, <1>10
<1>11. ASSUME NEW d \in Callers \ raced', pc'[d] = "answered"
       PROVE  /\ buf'[d] \in Answers
              /\ rbcmd'.rx_report = d => buf'[d] = rbcmd'.report_id /\ ~Filling'
  <2>1. d # c /\ d \notin raced /\ pc[d] = "answered"
    BY <1>1, <1>6, <1>11, Apart
  <2> QED BY <2>1, <1>3, <1>9 DEF FillInv
<1> QED BY <1>7, <1>9, <1>10, <1>11 DEF FillInv

\* A call sends its command, or finds that its time is over.
LEMMA CallGoesOn ==
  ASSUME Places, CallInv, FillInv, NEW c \in Callers,
         rbcmd_cmd_send(c) \/ rbcmd_times_out(c)
  PROVE  CallInv' /\ FillInv'
<1>1. /\ UNCHANGED <<sema_rbcmd, rbcmd, buf, raced>>
      /\ pc[c] \in {"send", "wait"} /\ pc'[c] \in {"wait", "failed"}
  BY Apart DEF rbcmd_cmd_send, rbcmd_times_out, calling, ghosts, Goto, Places
<1>2. rx_report' = rx_report /\ \A u \in Threads \ {c} : pc'[u] = pc[u]
  BY CallerFrame DEF CallerSteps, Call, propagation
<1>3. \A d \in Callers : InCall(d)' <=> InCall(d)
  BY <1>1, <1>2, Apart DEF InCall
<1>4. \A d \in Callers : pc'[d] = "answered" <=> pc[d] = "answered"
  BY <1>1, <1>2, Apart
<1>5. (Filling' <=> Filling) /\ (Answering' <=> Answering)
  BY <1>2, Apart DEF Filling, Answering, Propagators
<1>6. CallInv'
  BY <1>1, <1>3, CallKept DEF CallInv
<1>7. FillInv'
  BY <1>1, <1>2, <1>3, <1>4, <1>5, FillKept
<1> QED BY <1>6, <1>7

\* A call ends, with an answer or without.
LEMMA CallEnds ==
  ASSUME Places, CallInv, FillInv, NEW c \in Callers, rbcmd_answered(c) \/ rbcmd_failed(c)
  PROVE  CallInv' /\ FillInv'
<1>1. /\ InCall(c) /\ pc'[c] \in {"answered", "idle"} /\ ~InCall(c)'
      /\ \A u \in Threads \ {c} : pc'[u] = pc[u]
  <2>1. \A u \in Threads \ {c} : pc'[u] = pc[u]
    BY CallerFrame DEF CallerSteps, Call
  <2>2. pc[c] \in {"wait", "failed"} /\ pc'[c] \in {"answered", "idle"}
    BY Apart DEF rbcmd_answered, rbcmd_failed, Goto, Places
  <2> QED BY <2>1, <2>2 DEF InCall
<1>2. /\ sema_rbcmd = 0 /\ rbcmd \in Rbcmd /\ rbcmd.rx_report = c /\ rbcmd.report_id \in Answers
      /\ sema_rbcmd' = 1 /\ rbcmd' = [rbcmd EXCEPT !.waiting = FALSE]
  BY <1>1 DEF CallInv, rbcmd_answered, rbcmd_failed, rbcmd_ends
<1>3. /\ rbcmd' \in Rbcmd /\ ~rbcmd'.waiting
      /\ rbcmd'.report_id = rbcmd.report_id /\ rbcmd'.rx_report = c
  BY <1>2, RbcmdEnds
<1>4. \A d \in Callers : ~InCall(d)'
  <2>1. \A d \in Callers \ {c} : ~InCall(d)
    BY <1>2 DEF CallInv
  <2> QED BY <2>1, <1>1, Apart DEF InCall
<1>5. raced' \subseteq Callers /\ \A d \in Callers \ {c} : d \in raced' <=> d \in raced
  BY DEF rbcmd_answered, rbcmd_failed, CallInv
<1>6. CallInv'
  BY <1>2, <1>3, <1>4, <1>5 DEF CallInv
<1>7. /\ DOMAIN buf' = Callers /\ \A d \in Callers \ {c} : buf'[d] = buf[d]
  BY DEF rbcmd_answered, rbcmd_failed, FillInv
<1>8. ASSUME NEW d \in Callers \ raced', pc'[d] = "answered"
      PROVE  /\ buf'[d] \in Answers
             /\ rbcmd'.rx_report = d => buf'[d] = rbcmd'.report_id /\ ~Filling'
  <2>1. CASE d # c
    <3>1. d \notin raced /\ pc[d] = "answered"
      BY <1>1, <1>5, <1>8, <2>1, Apart
    <3> QED BY <2>1, <3>1, <1>3, <1>7 DEF FillInv
  <2>2. CASE d = c
    <3>1. /\ rbcmd.received /\ buf' = buf
          /\ raced' = IF Filling THEN raced \union {c} ELSE raced
      <4>1. rbcmd_answered(c)
        BY <1>8, <2>2, Apart DEF rbcmd_failed, Goto, Places
      <4> QED BY <4>1 DEF rbcmd_answered
    <3>2. ~Filling /\ c \notin raced
      BY <1>8, <2>2, <3>1
    <3>3. ~Answering
      BY <3>2 DEF Filling, Answering
    <3>4. buf[c] = rbcmd.report_id
      BY <1>1, <3>1, <3>2, <3>3 DEF FillInv
    <3>5. ~Filling'
      BY <1>1, <3>2, Apart DEF Filling, Propagators
    <3> QED BY <1>2, <1>3, <2>2, <3>1, <3>4, <3>5
  <2> QED BY <2>1, <2>2
<1> QED BY <1>4, <1>6, <1>7, <1>8 DEF FillInv

\* The caller has printed its answer.
LEMMA CallShown ==
  ASSUME Places, CallInv, FillInv, NEW c \in Callers, fw_ver_show(c)
  PROVE  CallInv' /\ FillInv'
<1>1. /\ pc[c] = "answered" /\ pc'[c] = "idle" /\ UNCHANGED <<sema_rbcmd, rbcmd>>
      /\ raced' = raced \ {c} /\ buf' = [buf EXCEPT ![c] = "none"]
  BY Apart DEF fw_ver_show, Goto, Places
<1>2. rx_report' = rx_report /\ \A u \in Threads \ {c} : pc'[u] = pc[u]
  BY CallerFrame DEF CallerSteps, Call, propagation
<1>3. \A d \in Callers : InCall(d)' <=> InCall(d)
  BY <1>1, <1>2, Apart DEF InCall
<1>4. CallInv'
  BY <1>1, <1>3, CallKept DEF CallInv
<1>5. (Filling' <=> Filling) /\ (Answering' <=> Answering)
  BY <1>2, Apart DEF Filling, Answering, Propagators
<1>6. /\ DOMAIN buf' = Callers /\ \A d \in Callers \ {c} : buf'[d] = buf[d]
  BY <1>1 DEF FillInv
<1>7. ASSUME NEW d \in Callers \ raced', InCall(d)' \/ pc'[d] = "answered"
      PROVE  d # c /\ d \in Callers \ raced /\ pc'[d] = pc[d] /\ buf'[d] = buf[d]
  <2>1. d # c
    BY <1>1, <1>7 DEF InCall
  <2> QED BY <2>1, <1>1, <1>2, <1>6, Apart
<1>8. ASSUME NEW d \in Callers \ raced', InCall(d)'
      PROVE  /\ Filling' => Id(rx_report)' = rbcmd'.report_id
             /\ rbcmd'.received => Answering' \/ buf'[d] = rbcmd'.report_id
  BY <1>1, <1>2, <1>3, <1>5, <1>7, <1>8 DEF FillInv, Id
<1>9. ASSUME NEW d \in Callers \ raced', pc'[d] = "answered"
      PROVE  /\ buf'[d] \in Answers
             /\ rbcmd'.rx_report = d => buf'[d] = rbcmd'.report_id /\ ~Filling'
  BY <1>1, <1>5, <1>7, <1>9 DEF FillInv
<1> QED BY <1>4, <1>6, <1>8, <1>9 DEF FillInv

\* process_rbcmd() fills in the answer, the one that the call waits for.
LEMMA CallAnswer ==
  ASSUME Places, PermitInv, CallInv, FillInv, NEW t \in Propagators,
         process_rbcmd(t) \/ process_rbcmd_received(t) \/ process_rbcmd_copy(t)
  PROVE  CallInv' /\ FillInv'
<1>t. t \in {"irq", "shutdown"} /\ t \in Threads /\ pc \in [Threads -> Labels]
  BY Apart DEF Propagators, Places
<1>1. /\ raced' = raced /\ sema_rbcmd' = sema_rbcmd /\ rx_report' = rx_report
      /\ \A u \in Threads \ {t} : pc'[u] = pc[u]
  <2>1. Propagate(t)
    BY DEF Propagate
  <2> QED BY <2>1, PropagatorFrame DEF process_rbcmd, process_rbcmd_received,
            process_rbcmd_copy, propagation
<1>2. \A c \in Callers : pc'[c] = pc[c] /\ (InCall(c)' <=> InCall(c))
  BY <1>1, <1>t, Apart DEF InCall
<1>3. \A u \in Propagators \ {t} : ~Propagating(u) /\ pc'[u] = pc[u]
  <2>1. Propagating(t)
    BY DEF process_rbcmd, process_rbcmd_received, process_rbcmd_copy, Propagating
  <2> QED BY <1>1, <1>t, <2>1, Apart DEF PermitInv, Propagators
<1>4. /\ Filling <=> pc[t] \in {"received", "copy"}
      /\ Filling' <=> pc'[t] \in {"received", "copy"}
      /\ Answering <=> pc[t] = "copy"
      /\ Answering' <=> pc'[t] = "copy"
  BY <1>3 DEF Filling, Answering, Propagating
<1>5. CASE process_rbcmd(t)
  <2>1. /\ pc[t] = "rbcmd" /\ UNCHANGED <<rbcmd, buf>>
        /\ pc'[t] = IF rbcmd.waiting /\ rbcmd.report_id = Id(rx_report)
                    THEN "received" ELSE "readers"
    BY <1>5, <1>t DEF process_rbcmd, Goto, calling
  <2>2. CallInv'
    BY <1>1, <1>2, <2>1, CallKept DEF CallInv
  <2>3. ~Filling /\ ~Answering /\ ~Answering'
    BY <1>4, <2>1
  <2>4. Filling' => rbcmd.waiting /\ rbcmd.report_id = Id(rx_report)
    BY <1>4, <2>1
  <2>5. ASSUME NEW c \in Callers \ raced, InCall(c)
        PROVE  /\ Filling' => Id(rx_report)' = rbcmd'.report_id
               /\ rbcmd'.received => Answering' \/ buf'[c] = rbcmd'.report_id
    BY <1>1, <2>1, <2>3, <2>4, <2>5 DEF FillInv, Id
  <2>6. ASSUME NEW c \in Callers \ raced, pc[c] = "answered"
        PROVE  /\ buf'[c] \in Answers
               /\ rbcmd'.rx_report = c => buf'[c] = rbcmd'.report_id /\ ~Filling'
    <3>1. ~InCall(c)
      BY <2>6 DEF InCall
    <3>2. rbcmd.rx_report = c => ~Filling'
      BY <2>4, <3>1 DEF CallInv
    <3> QED BY <2>1, <2>6, <3>2 DEF FillInv
  <2> QED BY <1>1, <1>2, <2>1, <2>2, <2>5, <2>6 DEF FillInv
<1>6. CASE process_rbcmd_received(t)
  <2>1. /\ pc[t] = "received" /\ pc'[t] = "copy" /\ buf' = buf
        /\ rbcmd' = [rbcmd EXCEPT !.received = TRUE] /\ rbcmd \in Rbcmd
    BY <1>6, <1>t DEF process_rbcmd_received, Goto, CallInv
  <2>2. /\ rbcmd' \in Rbcmd /\ (rbcmd'.waiting <=> rbcmd.waiting)
        /\ rbcmd'.report_id = rbcmd.report_id /\ rbcmd'.rx_report = rbcmd.rx_report
        /\ rbcmd.rx_report \in Callers
    <3>1. rbcmd.rx_report \in Callers
      BY <2>1 DEF Rbcmd
    <3> QED BY <2>1, <3>1, RbcmdReceived
  <2>3. CallInv'
    BY <1>1, <1>2, <2>2 DEF CallInv
  <2>4. Filling /\ Filling' /\ Answering'
    BY <1>4, <2>1
  <2>5. ASSUME NEW c \in Callers \ raced, InCall(c)
        PROVE  Id(rx_report)' = rbcmd'.report_id
    BY <1>1, <2>2, <2>4, <2>5 DEF FillInv, Id
  <2>6. ASSUME NEW c \in Callers \ raced, pc[c] = "answered"
        PROVE  buf'[c] \in Answers /\ rbcmd'.rx_report # c
    BY <2>1, <2>2, <2>4, <2>6 DEF FillInv
  <2> QED BY <1>1, <1>2, <2>1, <2>3, <2>4, <2>5, <2>6 DEF FillInv
<1>7. CASE process_rbcmd_copy(t)
  <2>1. /\ pc[t] = "copy" /\ pc'[t] = "readers" /\ rbcmd' = rbcmd
        /\ buf' = IF pc[rbcmd.rx_report] = "idle" THEN buf
                  ELSE [buf EXCEPT ![rbcmd.rx_report] = Id(rx_report)]
    BY <1>7, <1>t DEF process_rbcmd_copy, Goto
  <2>2. CallInv'
    BY <1>1, <1>2, <2>1, CallKept DEF CallInv
  <2>3. Filling /\ ~Filling'
    BY <1>4, <2>1
  <2>4. DOMAIN buf' = Callers
    BY <2>1 DEF FillInv
  <2>5. ASSUME NEW c \in Callers \ raced, InCall(c)
        PROVE  buf'[c] = rbcmd'.report_id
    <3>1. rbcmd.rx_report = c /\ pc[c] # "idle" /\ Id(rx_report) = rbcmd.report_id
      BY <2>3, <2>5 DEF CallInv, FillInv, InCall
    <3> QED BY <2>1, <3>1 DEF FillInv
  <2>6. ASSUME NEW c \in Callers \ raced, pc[c] = "answered"
        PROVE  buf'[c] \in Answers /\ rbcmd'.rx_report # c
    <3>1. rbcmd.rx_report # c /\ buf[c] \in Answers
      BY <2>3, <2>6 DEF FillInv
    <3> QED BY <2>1, <3>1 DEF FillInv
  <2> QED BY <1>1, <1>2, <2>1, <2>2, <2>3, <2>4, <2>5, <2>6 DEF FillInv
<1> QED BY <1>5, <1>6, <1>7

\* The calls and their buffers, whatever step is taken.
LEMMA CallStep ==
  ASSUME Places, PermitInv, CallInv, FillInv, Next
  PROVE  CallInv' /\ FillInv'
<1>0. "irq" \in Propagators /\ "shutdown" \in Propagators
  BY DEF Propagators
<1>1. CASE chip_posts \/ chip_answers \/ irq_handler_soft_resets
  <2>1. UNCHANGED <<pc, rx_report, sema_rbcmd, rbcmd, buf, raced>>
    BY <1>1, ChipFrame DEF propagation, calling, ghosts
  <2>2. CallInv'
    BY <2>1, CallKept DEF CallInv, InCall
  <2>3. FillInv'
    BY <2>1, FillKept DEF InCall, Filling, Answering
  <2> QED BY <2>2, <2>3
<1>2. ASSUME NEW r \in Readers, ReaderSteps(r) PROVE CallInv' /\ FillInv'
  <2>1. UNCHANGED <<rx_report, sema_rbcmd, rbcmd, buf, raced>>
    BY <1>2, ReaderFrame DEF calling
  <2>2. /\ \A c \in Callers : pc'[c] = pc[c]
        /\ \A t \in Propagators : pc'[t] = pc[t]
    BY <1>2, ReaderFrame, Apart DEF Propagators
  <2>3. CallInv'
    BY <2>1, <2>2, CallKept DEF CallInv, InCall
  <2>4. FillInv'
    BY <2>1, <2>2, FillKept DEF InCall, Filling, Answering
  <2> QED BY <2>3, <2>4
<1>3. ASSUME NEW c \in Callers, CallerSteps(c) PROVE CallInv' /\ FillInv'
  BY <1>3, CallBegins, CallGoesOn, CallEnds, CallShown DEF CallerSteps, Call
<1>4. ASSUME NEW t \in Propagators,
             process_rbcmd(t) \/ process_rbcmd_received(t) \/ process_rbcmd_copy(t)
      PROVE  CallInv' /\ FillInv'
  BY <1>4, CallAnswer
<1>5. ASSUME NEW t \in Propagators,
             \/ propagate_report(t) \/ propagate_readers(t)
             \/ t = "irq" /\ (irq_handler_soft \/ propagate_combine)
             \/ t = "shutdown" /\ (propagate_status \/ shutdown \/ shutdown_removes)
      PROVE  CallInv' /\ FillInv'
  <2>t. t \in {"irq", "shutdown"} /\ t \in Threads /\ pc \in [Threads -> Labels]
    BY Apart DEF Propagators, Places
  <2>1. /\ UNCHANGED <<sema_rbcmd, rbcmd, buf, raced>>
        /\ \A u \in Threads \ {t} : pc'[u] = pc[u]
    <3>1. /\ \A u \in Threads \ {t} : pc'[u] = pc[u] /\ UNCHANGED <<sema_rbcmd, raced>>
      BY <1>5, PropagatorFrame DEF Propagate
    <3>2. UNCHANGED <<sema_rbcmd, rbcmd, buf, raced>>
      BY <1>5 DEF propagate_report, propagate_readers, irq_handler_soft, propagate_combine,
                  propagate_status, shutdown, shutdown_removes, calling, ghosts
    <3> QED BY <3>1, <3>2
  <2>2. \A c \in Callers : pc'[c] = pc[c]
    BY <2>t, <2>1, Apart
  <2>3. /\ pc[t] \notin {"received", "copy"} /\ pc'[t] \notin {"received", "copy"}
    BY <2>t, <1>5 DEF propagate_report, propagate_readers, irq_handler_soft,
                  propagate_combine, propagate_status, shutdown, shutdown_removes, Goto
  <2>4. (Filling' <=> Filling) /\ (Answering' <=> Answering)
    BY <2>t, <2>1, <2>3, Apart DEF Filling, Answering, Propagators
  <2>5. Filling => rx_report' = rx_report
    <3>1. CASE t = "irq" /\ propagate_combine
      <4>1. Propagating("irq") /\ pc["irq"] = "combine"
        BY <3>1 DEF propagate_combine, Propagating
      <4>2. ~Propagating("shutdown")
        BY <4>1 DEF PermitInv
      <4>3. ~Filling
        BY <4>1, <4>2 DEF Filling, Propagating, Propagators
      <4> QED BY <4>3
    <3>2. CASE ~(t = "irq" /\ propagate_combine)
      BY <3>2, <1>5 DEF propagate_report, propagate_readers, irq_handler_soft,
                  propagate_status, shutdown, shutdown_removes, propagation
    <3> QED BY <3>1, <3>2
  <2>6. CallInv'
    BY <2>1, <2>2, CallKept DEF CallInv, InCall
  <2>7. FillInv'
    BY <2>1, <2>2, <2>4, <2>5, FillKept DEF InCall
  <2> QED BY <2>6, <2>7
<1> QED BY <1>0, <1>1, <1>2, <1>3, <1>4, <1>5, StepCases DEF Propagate

-----------------------------------------------------------------------------
(* The theorems.                                                            *)

\* probe() leaves everything in order.
LEMMA ReportsInit == ASSUME Init PROVE ReportsInv
<1> USE DEF Init
<1>0. /\ \A r \in Readers : pc[r] = "idle"
      /\ \A c \in Callers : pc[c] = "idle"
      /\ pc["irq"] = "idle" /\ pc["shutdown"] = "off"
  BY Apart
<1>1. Places
  <2>1. pc \in [Threads -> Labels]
    BY DEF Labels
  <2> QED BY <1>0, <2>1 DEF Places, ReaderPlaces, CallerPlaces, PropagatorPlaces
<1>2. Waiting = {} /\ Holders = {} /\ Used = {}
  <2>1. Waiting = {}
    BY <1>0 DEF Waiting
  <2>2. Holders = {}
    BY <1>0 DEF Holders, Holding
  <2>3. Used = {}
    BY DEF Used, NoReader
  <2> QED BY <2>1, <2>2, <2>3
<1>3. SlotInv
  <2>1. NoReader \in Reader /\ NoReader.status = "ok" /\ 0 \in 0 .. READERS_MAX
    BY ReportsAssumption DEF NoReader, Reader
  <2>2. readers \in [Slots -> Reader] /\ \A i \in Slots : readers[i] = NoReader
    BY <2>1
  <2>3. slot \in [Readers -> 0 .. READERS_MAX]
    BY <2>1
  <2> QED BY <1>2, <2>1, <2>2, <2>3 DEF SlotInv
<1>4. PermitInv
  BY <1>0, <1>2, FS_EmptySet DEF PermitInv, Propagating
<1>5. PacketInv
  <2>1. ~Combining
    BY <1>0 DEF Combining
  <2>2. <<>> # <<Second>> /\ <<>> \in Seq(Answers)
    OBVIOUS
  <2> QED BY <1>0, <2>1, <2>2 DEF PacketInv
<1>6. LockInv
  BY DEF LockInv
<1>7. CallInv
  <2>1. (CHOOSE c \in Callers : TRUE) \in Callers
    BY ReportsAssumption
  <2>2. rbcmd \in Rbcmd /\ ~rbcmd.waiting
    BY <2>1 DEF Rbcmd
  <2> QED BY <1>0, <2>2 DEF CallInv, InCall
<1>8. FillInv
  BY <1>0 DEF FillInv, InCall
<1> QED BY <1>1, <1>3, <1>4, <1>5, <1>6, <1>7, <1>8 DEF ReportsInv

\* Every step keeps it.
LEMMA ReportsStep == ASSUME ReportsInv, [Next]_vars PROVE ReportsInv'
<1>1. CASE Next
  <2>1. Places' /\ SlotInv' /\ PermitInv'
    BY <1>1, PlacesStep, SlotStep, PermitStep DEF ReportsInv
  <2>2. PacketInv' /\ LockInv'
    BY <1>1, PacketStep, LockStep DEF ReportsInv
  <2>3. CallInv' /\ FillInv'
    BY <1>1, CallStep DEF ReportsInv
  <2> QED BY <2>1, <2>2, <2>3 DEF ReportsInv
<1>2. CASE UNCHANGED vars
  <2>1. UNCHANGED <<pc, report_sem, report_mutex, i2c_mutex, rx_packet, rx_report, combined,
                    readers, slot, outstanding, sema_rbcmd, rbcmd, buf, cmds, out, spoilt,
                    leaked, raced>>
    BY <1>2 DEF vars, propagation, reading, calling, chip, ghosts
  <2>2. Places' /\ LockInv'
    BY <2>1 DEF ReportsInv, Places, LockInv
  <2>3. SlotInv' /\ Holders' = Holders
    BY <2>1, SlotKept DEF ReportsInv
  <2>4. PermitInv'
    BY <2>1, <2>3, PermitKept DEF ReportsInv, Propagating
  <2>5. PacketInv'
    BY <2>1, PacketKept DEF ReportsInv, PacketInv
  <2>6. CallInv'
    BY <2>1, CallKept DEF ReportsInv, CallInv, InCall
  <2>7. FillInv'
    BY <2>1, FillKept DEF ReportsInv, InCall, Filling, Answering
  <2> QED BY <2>2, <2>3, <2>4, <2>5, <2>6, <2>7 DEF ReportsInv
<1> QED BY <1>1, <1>2

\* The permit is in one place.
LEMMA PermitIsOne == ASSUME PermitInv PROVE OnePermit
<1> DEFINE P == {t \in Propagators :
                   pc[t] \in {"combine", "rbcmd", "received", "copy", "readers"}}
<1>1. Cardinality(P) = IF Propagating("irq") \/ Propagating("shutdown") THEN 1 ELSE 0
  <2>1. CASE Propagating("irq")
    <3>1. P = {"irq"}
      BY <2>1 DEF PermitInv, Propagating, Propagators
    <3> QED BY <2>1, <3>1, FS_Singleton
  <2>2. CASE ~Propagating("irq") /\ Propagating("shutdown")
    <3>1. P = {"shutdown"}
      BY <2>2 DEF Propagating, Propagators
    <3> QED BY <2>2, <3>1, FS_Singleton
  <2>3. CASE ~Propagating("irq") /\ ~Propagating("shutdown")
    <3>1. P = {}
      BY <2>3 DEF Propagating, Propagators
    <3> QED BY <2>3, <3>1, FS_EmptySet
  <2> QED BY <2>1, <2>2, <2>3
<1> HIDE DEF P
<1>2. report_sem + Cardinality(P) + (IF outstanding > 0 THEN 1 ELSE 0) = 1
  BY <1>1 DEF PermitInv
<1> QED BY <1>2 DEF P, OnePermit, PermitInv, Holders

\* A report that is whole has all its packets, in their order.
LEMMA WholeReport ==
  ASSUME NEW report, Whole(report)
  PROVE  /\ Len(report) = report[1].total
         /\ \A i \in DOMAIN report :
              report[i] = Packet(Id(report), i, report[1].total)
<1>1. CASE report = Image
  BY <1>1 DEF Image, Packet, Id
<1>2. ASSUME NEW id, report = <<Packet(id, 1, 1)>>
      PROVE  /\ Len(report) = report[1].total
             /\ \A i \in DOMAIN report :
                  report[i] = Packet(Id(report), i, report[1].total)
  BY <1>2 DEF Packet, Id
<1> QED BY <1>1, <1>2 DEF Whole, Kinds

\* A reader that holds a report holds a whole one, and the one it was passed.
LEMMA HeldIsWhole == ASSUME ReportsInv PROVE HeldReport
<1>1. ASSUME NEW r \in Readers, Holding(r) PROVE r \notin spoilt /\ Whole(rx_report)
  <2>1. r \in Holders
    BY <1>1 DEF Holders
  <2>2. outstanding > 0
    BY <2>1, FS_CardinalityType, FS_EmptySet DEF ReportsInv, PermitInv
  <2> QED BY <2>2 DEF ReportsInv, PacketInv
<1> QED BY <1>1, WholeReport DEF HeldReport

\* Each variable keeps its type.
LEMMA ReportsTyped == ASSUME ReportsInv PROVE TypeOK
<1>1. rbcmd.rx_report \in Callers
  BY DEF ReportsInv, CallInv, Rbcmd
<1> QED BY <1>1 DEF ReportsInv, TypeOK, Places, SlotInv, Reader, PermitInv, PacketInv, LockInv,
                CallInv

\* The invariant holds in every reachable state.
THEOREM ReportsInvariant == Spec => []ReportsInv
<1>1. Init => ReportsInv
  BY ReportsInit
<1>2. ReportsInv /\ [Next]_vars => ReportsInv'
  BY ReportsStep
<1> QED BY <1>1, <1>2, PTL DEF Spec

\* There is one permit to write rx_report and it is never lost or doubled, and
\* what a reader prints without a lock is the whole report it was passed
\* (propagate_report, get_report and release_report).
THEOREM ReportsSound == Spec => []ReportSound
<1>1. ReportsInv => ReportSound
  BY ReportsTyped, HeldIsWhole, PermitIsOne DEF ReportsInv, ReportSound
<1> QED BY <1>1, ReportsInvariant, PTL

\* A call that returned 0 has the report it asked for in its buffer, unless it
\* raced with process_rbcmd() (rbcmd_send_receive and process_rbcmd).
THEOREM AnswersMatch == Spec => []OkMeansReport
<1>1. ReportsInv => OkMeansReport
  BY DEF ReportsInv, FillInv, OkMeansReport
<1> QED BY <1>1, ReportsInvariant, PTL

=============================================================================
