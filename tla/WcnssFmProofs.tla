---------------------------- MODULE WcnssFmProofs ----------------------------
(***************************************************************************)
(* The FM radio driver keeps its receiver and its searches in step with    *)
(* the tuner, up to the commands the tuner did not confirm, with any       *)
(* number of files, commands and late answers.                             *)
(*                                                                         *)
(* The heart is the order of things in flight: commands, events and the    *)
(* answer that is waited for carry the numbers of their commands, and      *)
(* these numbers never go down from the answer to the callback, the events *)
(* and the commands.  So what is still on its way from before the present  *)
(* command belongs to one that was given up, and is in amiss.              *)
(***************************************************************************)
EXTENDS WcnssFm, TLAPS

\* The thread that holds the lock is the one inside the call op names.
HolderInv ==
  /\ lock = "free" <=> at = "none"
  /\ at = "none" <=> op = "none"
  /\ \A f \in Files : pc[f] \in {"opened", "ioctl"} => lock = f
  /\ \/ lock = "free"
     \/ op \in {"ENABLE", "ANTENNA"} /\ pc[lock] = "opened"
     \/ op = "DISABLE" /\ pc[lock] = "closing"
     \/ op \in Plain \union {"SEARCH", "CANCEL"} /\ pc[lock] = "ioctl"
  /\ at \in {"seek", "found"} => op = "SEARCH"

\* The device's list holds the files that are not closed.
ListInv ==
  /\ \A f \in Files : f \in fhs <=> pc[f] # "closed"
  /\ life # "bound" => \A f \in Files : pc[f] = "closed"

\* Without overlapping opens and closes the receiver is counted as enabled
\* exactly while some file uses it.
UsersInv ==
  ~Overlap =>
    /\ \A f, g \in Files : Between(f) /\ Between(g) => f = g
    /\ \A f \in Files : pc[f] \in {"open", "ioctl"} => enabled
    /\ enabled => \E f \in Files : pc[f] \in {"open", "ioctl", "closing"}
    /\ op = "DISABLE" => fhs = {lock}

\* The answer to a command; one that says the present command succeeded.
IsAnswer(e) == e.kind \in {"complete", "status", "done"}
Success(e) == IsAnswer(e) /\ e.id = sent /\ ~e.failed

EvsInv ==
  \A i \in 1 .. Len(evs) :
    /\ evs[i].kind \in {"complete", "status", "progress"}
    /\ evs[i].id \in 1 .. sent

RxInv ==
  /\ rx = NoAnswer \/ (IsAnswer(rx) /\ rx.id \in 1 .. sent)
  /\ answer = NoAnswer \/ (answer.kind = "done" /\ answer.id \in 1 .. sent)
  /\ at \in {"reset", "send", "wait"} /\ cmd_done > 0 => answer # NoAnswer

\* Numbers never go down on the way back from the answer.
OrderInv ==
  /\ \A i, j \in 1 .. Len(cmds) : i < j => cmds[i].id < cmds[j].id
  /\ \A j \in 1 .. Len(cmds) :
       /\ cmds[j].id \in 1 .. sent
       /\ answer.id < cmds[j].id /\ rx.id < cmds[j].id
       /\ searching < cmds[j].id /\ found < cmds[j].id
       /\ \A i \in 1 .. Len(evs) : evs[i].id < cmds[j].id
  /\ \A j \in 1 .. Len(evs) :
       IsAnswer(evs[j]) => /\ answer.id < evs[j].id /\ rx.id < evs[j].id
                           /\ \A i \in 1 .. Len(evs) :
                                IsAnswer(evs[i]) /\ i < j => evs[i].id < evs[j].id
  /\ rx # NoAnswer => answer.id < rx.id
  /\ searching <= sent /\ found <= sent

\* Whatever is in flight is of the present command, or was given up.
Missed(n) == \E c \in amiss : c.id = n
FlightInv ==
  /\ \A i \in 1 .. Len(cmds) : cmds[i] \in amiss \/ (at = "wait" /\ cmds[i] = This(sent))
  /\ \A i \in 1 .. Len(evs) :
       IsAnswer(evs[i]) => Missed(evs[i].id) \/ (at = "wait" /\ evs[i].id = sent)
  /\ rx # NoAnswer => Missed(rx.id) \/ (at = "wait" /\ rx.id = sent)
  /\ at \in {"reset", "send", "wait"} /\ cmd_done > 0 =>
       Missed(answer.id) \/ (at = "wait" /\ answer.id = sent)
  /\ at = "error" => This(sent) \in amiss

\* A command that waits has not been given up yet.
AmissInv == \A c \in amiss : c.id <= sent /\ (at = "wait" => c.id < sent)

\* The status is that of the answer to the present command.
StatusInv ==
  at = "wait" =>
    /\ rx.kind = "done" /\ rx.id = sent => status = rx.failed
    /\ cmd_done > 0 /\ answer.id = sent => status = answer.failed

\* An answer in flight says that the present command succeeded.
Succeeded ==
  \/ \E i \in 1 .. Len(evs) : Success(evs[i])
  \/ Success(rx) \/ Success(answer)

\* The receiver is as the last confirmed command left it.
OnInv ==
  ~Overlap /\ Confirmed({"ENABLE", "DISABLE"}) =>
    /\ \/ op = "ENABLE" /\ (at = "ok" \/ (at = "wait" /\ Succeeded))
       \/ op = "ANTENNA"
       \/ enabled /\ op # "DISABLE"
       => on
    /\ \/ op = "DISABLE" /\ (at = "ok" \/ (at = "wait" /\ Succeeded))
       \/ ~enabled /\ op \notin {"ENABLE", "ANTENNA", "DISABLE"}
       => ~on

\* The search that may be under way, by its number.
Current(n) ==
  \/ op = "SEARCH" /\ at \in {"wait", "ok", "seek"} /\ n = sent
  \/ op = "CANCEL" /\ at \in {"cmd", "reset", "send"} /\ n = sent
  \/ op = "CANCEL" /\ at = "wait" /\ n + 1 = sent
Progress(i) == evs[i].kind = "progress"

\* It is under way, has ended and not yet been reported, or been reported.
SearchInv ==
  Confirmed({"SEARCH", "CANCEL"}) =>
    /\ searching # 0 => /\ Current(searching)
                        /\ \A i \in 1 .. Len(evs) : ~Progress(i)
                        /\ op = "SEARCH" => found # sent
                        /\ op = "CANCEL" /\ at = "wait" => ~Succeeded
    /\ \A i \in 1 .. Len(evs) :
         Progress(i) => /\ Current(evs[i].id)
                        /\ op = "SEARCH" => found # sent
                        /\ \A j \in 1 .. Len(evs) : Progress(j) => j = i
                        /\ op = "CANCEL" /\ at = "wait" =>
                             /\ ~Success(rx) /\ ~Success(answer)
                             /\ \A j \in 1 .. Len(evs) : Success(evs[j]) => i < j
    /\ op = "SEARCH" /\ at \in {"cmd", "reset", "send"} => seek_done = 0 /\ found = 0
    /\ op = "SEARCH" /\ at \in {"wait", "ok", "seek"} /\ seek_done > 0 => found = sent
    /\ at = "found" => found = sent

FmInv ==
  /\ TypeOK /\ HolderInv /\ ListInv /\ UsersInv
  /\ EvsInv /\ RxInv /\ OrderInv /\ FlightInv /\ StatusInv
  /\ AmissInv /\ OnInv /\ SearchInv

-----------------------------------------------------------------------------
(* Types, and what most steps leave alone.                                 *)

Ats == {"none", "cmd", "reset", "send", "wait", "ok", "error", "seek", "found"}
ControlTypes ==
  /\ life \in {"absent", "probe", "bound"}
  /\ held \subseteq {Resources[n] : n \in DOMAIN Resources}
  /\ pc \in [Files -> {"closed", "opening", "opened", "open", "ioctl", "closing", "release"}]
  /\ fhs \subseteq Files
  /\ lock \in Files \union {"free"}
  /\ at \in Ats
  /\ op \in Opcodes \union {"none"} /\ pending \in Opcodes \union {"none"}
  /\ enabled \in BOOLEAN
CountTypes ==
  /\ cmd_done \in Nat /\ seek_done \in Nat /\ status \in BOOLEAN /\ on \in BOOLEAN
  /\ searching \in Nat /\ sent \in Nat /\ found \in Nat
  /\ amiss \subseteq [op : Opcodes, id : Nat]
RxTypes == rx \in Event /\ answer \in Event
QueueTypes == cmds \in Seq([op : Opcodes, id : Nat]) /\ evs \in Seq(Event)

\* All types.
LEMMA TypeParts == TypeOK <=> ControlTypes /\ CountTypes /\ RxTypes /\ QueueTypes
BY DEF TypeOK, ControlTypes, CountTypes, RxTypes, QueueTypes, Ats

QueueInv == EvsInv /\ RxInv /\ OrderInv /\ FlightInv /\ StatusInv
ControlInv == HolderInv /\ ListInv /\ UsersInv
FmParts ==
  /\ ControlTypes /\ CountTypes /\ RxTypes /\ QueueTypes
  /\ ControlInv /\ QueueInv /\ AmissInv /\ OnInv /\ SearchInv

\* The invariant in the parts the proofs below use.
LEMMA Parts == FmInv <=> FmParts
BY TypeParts DEF FmInv, FmParts, ControlInv, QueueInv

\* The opcodes with a name of their own.
LEMMA OpcodeFacts ==
  /\ {"ENABLE", "ANTENNA", "DISABLE", "SEARCH", "CANCEL"} \subseteq Opcodes
  /\ \A o \in Plain : /\ o \in Opcodes /\ o # "none"
                      /\ o \notin {"ENABLE", "ANTENNA", "DISABLE", "SEARCH", "CANCEL"}
  /\ \A f \in Files : f # "free"
  /\ NoAnswer \in Event /\ NoAnswer.id = 0 /\ NoAnswer.kind = "none"
BY ConstAssumption DEF Opcodes, NoAnswer, Event

\* A step of the callback, of the tuner, or inside a command.
LEMMA ControlFrame ==
  ASSUME ControlInv, UNCHANGED <<files, life, op, enabled>>,
         at' = at \/ (at # "none" /\ at' # "none"),
         at' \in {"seek", "found"} => at \in {"seek", "found"}
  PROVE  ControlInv'
<1>1. UNCHANGED <<pc, fhs, lock>>
  BY DEF files
<1>2. HolderInv'
  BY <1>1 DEF ControlInv, HolderInv
<1>3. ListInv'
  BY <1>1 DEF ControlInv, ListInv
<1>4. UsersInv'
  BY <1>1 DEF ControlInv, UsersInv, Between
<1> QED BY <1>2, <1>3, <1>4 DEF ControlInv

\* A step that touches nothing in flight, outside of wcnss_fm_cmd().
LEMMA QueueFrame ==
  ASSUME QueueInv, CountTypes, UNCHANGED <<cmds, evs, rx, answer, sent, amiss, searching>>,
         found' \in {0, found},
         at' \notin {"reset", "send", "wait", "error"}, at # "wait"
  PROVE  QueueInv'
<1>1. EvsInv'
  BY DEF QueueInv, EvsInv
<1>2. RxInv'
  BY DEF QueueInv, RxInv, IsAnswer
<1>3. OrderInv'
  <2>1. \A j \in 1 .. Len(cmds) : cmds[j].id \in 1 .. sent /\ sent \in Nat
    BY DEF QueueInv, OrderInv, CountTypes
  <2>2. \A j \in 1 .. Len(cmds) : found' < cmds[j].id
    BY <2>1 DEF QueueInv, OrderInv
  <2>3. found' <= sent
    BY DEF QueueInv, OrderInv, CountTypes
  <2> QED BY <2>2, <2>3 DEF QueueInv, OrderInv, IsAnswer
<1>4. FlightInv'
  BY DEF QueueInv, FlightInv, IsAnswer, Missed
<1>5. StatusInv'
  BY DEF StatusInv
<1> QED BY <1>1, <1>2, <1>3, <1>4, <1>5 DEF QueueInv

\* OnInv for a step that is about neither the receiver nor an answer.
LEMMA OnFrame ==
  ASSUME OnInv, amiss \subseteq amiss', UNCHANGED <<enabled, op, on>>,
         at' = "ok" => at = "ok" \/ op \notin {"ENABLE", "DISABLE"},
         at' = "wait" => at = "wait" /\ (Succeeded' => Succeeded)
  PROVE  OnInv'
<1>1. Confirmed({"ENABLE", "DISABLE"})' => Confirmed({"ENABLE", "DISABLE"})
  BY DEF Confirmed
<1> QED BY <1>1 DEF OnInv

\* SearchInv for a step at which no search may be under way.
LEMMA SearchFrame ==
  ASSUME SearchInv, amiss \subseteq amiss', UNCHANGED searching,
         evs' = evs \/ Len(evs') = 0,
         \A n \in Nat : ~Current(n), searching \in Nat, \A i \in 1 .. Len(evs) : evs[i].id \in Nat,
         at' # "found",
         op' = "SEARCH" => /\ at' \notin {"wait", "ok", "seek"}
                           /\ at' \in {"cmd", "reset", "send"} => seek_done' = 0 /\ found' = 0
  PROVE  SearchInv'
<1>1. Confirmed({"SEARCH", "CANCEL"})' => Confirmed({"SEARCH", "CANCEL"})
  BY DEF Confirmed
<1>2. Confirmed({"SEARCH", "CANCEL"}) => searching = 0 /\ \A i \in 1 .. Len(evs) : ~Progress(i)
  BY DEF SearchInv
<1>3. Confirmed({"SEARCH", "CANCEL"}) => searching' = 0 /\ \A i \in 1 .. Len(evs') : ~Progress(i)'
  BY <1>2 DEF Progress
<1> QED BY <1>1, <1>3 DEF SearchInv

\* SearchInv for a step that changes nothing it is about.
LEMMA SearchSame ==
  ASSUME SearchInv, UNCHANGED <<evs, rx, answer, sent, amiss, searching, found, at, op, seek_done>>
  PROVE  SearchInv'
<1>1. \A n : Current(n)' <=> Current(n)
  BY DEF Current
<1>2. Succeeded' <=> Succeeded
  BY DEF Succeeded, Success, IsAnswer
<1>3. \A i : Progress(i)' <=> Progress(i)
  BY DEF Progress
<1>4. Success(rx)' <=> Success(rx)
  BY DEF Success, IsAnswer
<1>5. Success(answer)' <=> Success(answer)
  BY DEF Success, IsAnswer
<1>6. \A j : Success(evs[j])' <=> Success(evs[j])
  BY DEF Success, IsAnswer
<1>7. Confirmed({"SEARCH", "CANCEL"})' <=> Confirmed({"SEARCH", "CANCEL"})
  BY DEF Confirmed
<1> QED BY <1>1, <1>2, <1>3, <1>4, <1>5, <1>6, <1>7 DEF SearchInv

-----------------------------------------------------------------------------
(* Every step keeps the types.                                             *)

\* What the proofs of single steps start from.
Start == FmParts /\ ConstAssumption

\* The thread that holds the lock.
LEMMA HolderTypes ==
  ASSUME Start, HolderStep
  PROVE  ControlTypes' /\ CountTypes' /\ RxTypes' /\ QueueTypes'
<1> USE DEF Start, FmParts
<1> USE OpcodeFacts DEF driver, files, cmd, tuner, ghosts
<1>1. CASE cmd_reinit
  BY <1>1 DEF cmd_reinit, ControlTypes, CountTypes, RxTypes, QueueTypes, Ats
<1>2. CASE cmd_pending
  BY <1>2 DEF cmd_pending, ControlTypes, CountTypes, RxTypes, QueueTypes, Ats
<1>3. CASE cmd_send
  <2>1. ControlTypes' /\ RxTypes'
    BY <1>3 DEF cmd_send, ControlTypes, RxTypes, Ats
  <2>2. This(sent + 1) \in [op : Opcodes, id : Nat]
    <3>1. at # "none"
      BY <1>3 DEF cmd_send
    <3>2. op \in Opcodes
      BY <3>1 DEF ControlTypes, ControlInv, HolderInv
    <3> QED BY <3>2 DEF This, CountTypes
  <2> DEFINE c == This(sent + 1)
             C == [op : Opcodes, id : Nat]
  <2>5. amiss' \in {amiss, amiss \union {c}} /\ cmds' \in {cmds, Append(cmds, c)}
    BY <1>3 DEF cmd_send
  <2>6. UNCHANGED <<cmd_done, seek_done, on, searching, found, evs>>
        /\ sent' = sent + 1 /\ status' = FALSE
    BY <1>3 DEF cmd_send
  <2>7. c \in C
    BY <2>2
  <2> HIDE DEF c
  <2>8. amiss' \subseteq C
    BY <2>5, <2>7 DEF CountTypes
  <2>11. status' \in BOOLEAN /\ on' \in BOOLEAN
    <3>1. status' \in BOOLEAN
      BY <2>6
    <3>2. on' \in BOOLEAN
      BY <2>6 DEF CountTypes
    <3> QED BY <3>1, <3>2
  <2>12. cmd_done' \in Nat /\ seek_done' \in Nat /\ searching' \in Nat /\ sent' \in Nat /\ found' \in Nat
    BY <2>6 DEF CountTypes
  <2>3. CountTypes'
    BY <2>8, <2>11, <2>12 DEF CountTypes
  <2>9. cmds \in Seq(C)
    BY DEF QueueTypes
  <2>10. cmds' \in Seq(C)
    <3> HIDE DEF C
    <3> QED BY <2>5, <2>7, <2>9
  <2>4. QueueTypes'
    BY <2>6, <2>10 DEF QueueTypes
  <2> QED BY <2>1, <2>3, <2>4
<1>4. CASE cmd_waited \/ cmd_timeout
  <2>1. This(sent) \in [op : Opcodes, id : Nat]
    <3>1. at # "none"
      BY <1>4 DEF cmd_waited, cmd_timeout
    <3>2. op \in Opcodes
      BY <3>1 DEF ControlTypes, ControlInv, HolderInv
    <3> QED BY <3>2 DEF This, CountTypes
  <2>2. ControlTypes' /\ RxTypes' /\ QueueTypes'
    BY <1>4 DEF cmd_waited, cmd_timeout, ControlTypes, RxTypes, QueueTypes, Ats
  <2>3. CountTypes'
    BY <1>4, <2>1 DEF cmd_waited, cmd_timeout, CountTypes
  <2> QED BY <2>2, <2>3
<1>5. CASE enable_returns \/ antenna_returns \/ disable_returns \/ plain_returns
  <2>1. CountTypes' /\ RxTypes' /\ QueueTypes'
    BY <1>5 DEF enable_returns, antenna_returns, disable_returns, plain_returns,
                CountTypes, RxTypes, QueueTypes
  <2>2. ControlTypes'
    BY <1>5 DEF enable_returns, antenna_returns, disable_returns, plain_returns,
                ControlTypes, Ats, Call, Unlock
  <2> QED BY <2>1, <2>2
<1>6. CASE search_returns \/ seek_waited \/ seek_returns \/ seek_timeout
  <2>1. CountTypes' /\ RxTypes' /\ QueueTypes'
    BY <1>6 DEF search_returns, seek_waited, seek_returns, seek_timeout,
                CountTypes, RxTypes, QueueTypes
  <2>2. ControlTypes'
    BY <1>6 DEF search_returns, seek_waited, seek_returns, seek_timeout,
                ControlTypes, Ats, Call, Unlock
  <2> QED BY <2>1, <2>2
<1> QED BY <1>1, <1>2, <1>3, <1>4, <1>5, <1>6 DEF HolderStep

\* A probe, a remove, or a thread that has not the lock.
LEMMA FileTypes ==
  ASSUME Start,
         \/ probe_begins \/ probe \/ probe_fails \/ remove
         \/ \E f \in Files : open(f) \/ close(f) \/ ioctl(f) \/ seek(f) \/ FileStep(f)
  PROVE  ControlTypes' /\ CountTypes' /\ RxTypes' /\ QueueTypes'
<1> USE DEF Start, FmParts
<1> USE OpcodeFacts DEF driver, files, cmd, tuner, ghosts
<1>1. CASE probe_begins \/ probe_fails \/ remove
  <2>1. CountTypes' /\ RxTypes'
    <3>1. CASE probe_begins
      <4>1. status' \in BOOLEAN
        BY <3>1 DEF probe_begins
      <4> QED BY <3>1, <4>1 DEF probe_begins, CountTypes, RxTypes
    <3>2. CASE probe_fails \/ remove
      BY <3>2 DEF probe_fails, remove, CountTypes, RxTypes
    <3> QED BY <1>1, <3>1, <3>2
  <2>3. QueueTypes'
    <3>1. CASE remove
      BY <3>1 DEF remove, QueueTypes
    <3>2. CASE probe_begins \/ probe_fails
      BY <3>2 DEF probe_begins, probe_fails, QueueTypes
    <3> QED BY <1>1, <3>1, <3>2
  <2>2. ControlTypes'
    BY <1>1 DEF probe_begins, probe_fails, remove, ControlTypes
  <2> QED BY <2>1, <2>2, <2>3
<1>2. CASE probe
  <2>1. CountTypes' /\ RxTypes' /\ QueueTypes'
    BY <1>2 DEF probe, CountTypes, RxTypes, QueueTypes
  <2>2. PICK n \in DOMAIN Resources : held' = held \union {Resources[n]}
    BY <1>2 DEF probe
  <2>3. UNCHANGED <<pc, fhs, lock, at, op, pending, enabled>> /\ life' \in {"bound", "probe"}
    BY <1>2 DEF probe
  <2>4. held' \subseteq {Resources[m] : m \in DOMAIN Resources}
    BY <2>2 DEF ControlTypes
  <2> QED BY <2>1, <2>3, <2>4 DEF ControlTypes
<1>3. ASSUME NEW f \in Files, open(f) \/ close(f) \/ ioctl(f) \/ seek(f)
      PROVE  ControlTypes' /\ CountTypes' /\ RxTypes' /\ QueueTypes'
  <2>1. CountTypes' /\ RxTypes' /\ QueueTypes'
    BY <1>3 DEF open, close, ioctl, seek, CountTypes, RxTypes, QueueTypes
  <2>2. CASE open(f) \/ close(f)
    BY <2>1, <2>2 DEF open, close, ControlTypes
  <2>3. CASE ioctl(f) \/ seek(f)
    BY <2>1, <2>3 DEF ioctl, seek, ControlTypes, Acquire, Call, Ats
  <2> QED BY <1>3, <2>2, <2>3
<1>4. ASSUME NEW f \in Files, FileStep(f)
      PROVE  ControlTypes' /\ CountTypes' /\ RxTypes' /\ QueueTypes'
  <2>1. CountTypes' /\ RxTypes' /\ QueueTypes'
    BY <1>4 DEF FileStep, open_locked, release_locked, release, CountTypes, RxTypes, QueueTypes
  <2>2. ControlTypes'
    BY <1>4 DEF FileStep, open_locked, release_locked, release, ControlTypes, Acquire, Call, Ats
  <2> QED BY <2>1, <2>2
<1> QED BY <1>1, <1>2, <1>3, <1>4

\* The callback and the tuner.
LEMMA TunerTypes ==
  ASSUME Start, CallbackStep \/ tuner_serves \/ tuner_finds
  PROVE  ControlTypes' /\ CountTypes' /\ RxTypes' /\ QueueTypes'
<1> USE DEF Start, FmParts
<1> USE OpcodeFacts DEF driver, files, cmd, tuner, ghosts
<1>1. CASE rx_event
  <2>1. Head(evs) \in Event /\ evs' \in Seq(Event)
    BY <1>1 DEF rx_event, QueueTypes
  <2>2. Head(evs).id \in Nat
    BY <2>1 DEF Event
  <2>3. /\ seek_done' \in {seek_done, seek_done + 1} /\ found' \in {found, Head(evs).id}
        /\ rx' \in {rx, Head(evs)}
        /\ UNCHANGED <<life, held, pc, fhs, lock, at, op, cmd_done, pending, status, enabled>>
        /\ UNCHANGED <<cmds, on, searching, sent, answer, amiss>>
    <3> DEFINE e == Head(evs)
    <3>1. CASE e.kind = "progress"
      BY <1>1, <3>1 DEF rx_event
    <3>2. CASE e.kind # "progress" /\ e.kind = "complete" /\ e.op # pending
      BY <1>1, <3>2 DEF rx_event
    <3>3. CASE e.kind # "progress" /\ ~(e.kind = "complete" /\ e.op # pending)
      BY <1>1, <3>3 DEF rx_event
    <3> QED BY <3>1, <3>2, <3>3
  <2>4. ControlTypes'
    BY <2>3 DEF ControlTypes
  <2>5. CountTypes'
    BY <2>2, <2>3 DEF CountTypes
  <2>6. RxTypes' /\ QueueTypes'
    BY <2>1, <2>3 DEF RxTypes, QueueTypes
  <2> QED BY <2>4, <2>5, <2>6
<1>2. CASE rx_status
  <2>1. [rx EXCEPT !.kind = "done"] \in Event /\ rx.failed \in BOOLEAN
    BY DEF RxTypes, Event
  <2> QED BY <1>2, <2>1 DEF rx_status, ControlTypes, CountTypes, RxTypes, QueueTypes
<1>3. CASE rx_complete
  BY <1>3 DEF rx_complete, ControlTypes, CountTypes, RxTypes, QueueTypes
<1>4. CASE tuner_serves
  <2>0. cmds # <<>> /\ cmds' = Tail(cmds)
    BY <1>4 DEF tuner_serves
  <2>1. Head(cmds) \in [op : Opcodes, id : Nat] /\ cmds' \in Seq([op : Opcodes, id : Nat])
    <3> DEFINE C == [op : Opcodes, id : Nat]
    <3>1. cmds \in Seq(C)
      BY DEF QueueTypes
    <3>2. Head(cmds) \in C /\ Tail(cmds) \in Seq(C)
      <4> HIDE DEF C
      <4> QED BY <2>0, <3>1
    <3> QED BY <2>0, <3>2
  <2>2. PICK failed \in BOOLEAN, kind \in {"complete", "status", "none"} :
           /\ IF failed THEN UNCHANGED <<on, searching>> ELSE Execute(Head(cmds))
           /\ evs' = IF kind = "none" THEN evs
                     ELSE Append(evs, [kind |-> kind, op |-> Head(cmds).op, failed |-> failed,
                                       id |-> Head(cmds).id])
    BY <1>4 DEF tuner_serves
  <2>3. [kind |-> kind, op |-> Head(cmds).op, failed |-> failed, id |-> Head(cmds).id] \in Event
    BY <2>1 DEF Event
  <2>4. evs' \in Seq(Event)
    BY <2>2, <2>3 DEF QueueTypes
  <2>5. on' \in BOOLEAN /\ searching' \in Nat
    <3>1. on' \in {on, TRUE, FALSE} /\ searching' \in {searching, Head(cmds).id, 0}
      BY <2>2 DEF Execute
    <3>2. Head(cmds).id \in Nat
      BY <2>1
    <3>3. on \in BOOLEAN /\ searching \in Nat
      BY DEF CountTypes
    <3>4. on' \in BOOLEAN
      BY <3>1, <3>3
    <3>5. searching' \in Nat
      BY <3>1, <3>2, <3>3
    <3> QED BY <3>4, <3>5
  <2>6. ControlTypes' /\ RxTypes'
    BY <1>4 DEF tuner_serves, ControlTypes, RxTypes
  <2>7. CountTypes'
    BY <1>4, <2>5 DEF tuner_serves, CountTypes
  <2> QED BY <2>1, <2>4, <2>6, <2>7 DEF QueueTypes
<1>5. CASE tuner_finds
  <2>1. [kind |-> "progress", op |-> "SEARCH", failed |-> FALSE, id |-> searching] \in Event
    BY DEF Event, CountTypes
  <2>2. evs' \in Seq(Event)
    BY <1>5, <2>1 DEF tuner_finds, QueueTypes
  <2> QED BY <1>5, <2>2 DEF tuner_finds, ControlTypes, CountTypes, RxTypes, QueueTypes
<1> QED BY <1>1, <1>2, <1>3, <1>4, <1>5 DEF CallbackStep

-----------------------------------------------------------------------------
(* Files, the lock and the users of the receiver.                          *)

\* A call ends: its file goes from inside the call to v.
LEMMA CallEnds ==
  ASSUME ControlTypes, HolderInv, ListInv, lock # "free",
         NEW v \in {"open", "release"}, Unlock, UNCHANGED <<fhs, life>>,
         pc' = [pc EXCEPT ![lock] = v]
  PROVE  /\ lock \in Files /\ HolderInv' /\ ListInv'
         /\ \A f \in Files : pc'[f] = IF f = lock THEN v ELSE pc[f]
<1>1. lock \in Files
  BY DEF ControlTypes
<1>2. \A f \in Files : pc'[f] = IF f = lock THEN v ELSE pc[f]
  BY DEF ControlTypes
<1>3. HolderInv'
  BY <1>1, <1>2 DEF Unlock, HolderInv
<1>4. pc[lock] # "closed"
  BY OpcodeFacts DEF HolderInv
<1>5. ListInv'
  BY <1>1, <1>2, <1>4 DEF ListInv
<1> QED BY <1>1, <1>2, <1>3, <1>5

\* The thread that holds the lock.
LEMMA HolderControl ==
  ASSUME Start, HolderStep
  PROVE  ControlInv'
<1> USE DEF Start, FmParts
<1> USE OpcodeFacts DEF driver, files, cmd, tuner, ghosts
<1>0. HolderInv /\ ListInv /\ UsersInv /\ ControlTypes
  BY DEF ControlInv
<1>1. CASE cmd_reinit \/ cmd_pending \/ cmd_send \/ cmd_waited \/ cmd_timeout \/ seek_waited
  <2>1. /\ UNCHANGED <<files, life, op, enabled>> /\ at # "none" /\ at' # "none"
        /\ at' \in {"seek", "found"} => at \in {"seek", "found"}
    BY <1>1 DEF cmd_reinit, cmd_pending, cmd_send, cmd_waited, cmd_timeout, seek_waited
  <2> QED BY <2>1, ControlFrame
<1>2. CASE enable_returns
  <2>1. op = "ENABLE" /\ lock \in Files /\ pc[lock] = "opened" /\ at # "none"
    BY <1>0, <1>2 DEF enable_returns, Returned, HolderInv, ControlTypes
  <2>2. CASE Ok
    <3>1. UNCHANGED <<pc, fhs, lock, life, enabled>> /\ op' = "ANTENNA" /\ at' = "cmd"
      BY <1>2, <2>2 DEF enable_returns, Call
    <3>2. HolderInv'
      BY <1>0, <2>1, <3>1 DEF HolderInv
    <3>3. ListInv'
      BY <1>0, <3>1 DEF ListInv
    <3>4. UsersInv'
      BY <1>0, <3>1 DEF UsersInv, Between
    <3> QED BY <3>2, <3>3, <3>4 DEF ControlInv
  <2>3. CASE ~Ok
    <3>1. /\ UNCHANGED <<life, enabled>> /\ lock' = "free" /\ op' = "none" /\ at' = "none"
          /\ fhs' = fhs \ {lock}
      BY <1>2, <2>3 DEF enable_returns, Unlock
    <3>2. \A f \in Files : pc'[f] = IF f = lock THEN "closed" ELSE pc[f]
      BY <1>2, <2>3 DEF enable_returns, ControlTypes
    <3>3. HolderInv'
      BY <1>0, <2>1, <3>1, <3>2 DEF HolderInv
    <3>4. ListInv'
      BY <1>0, <2>1, <3>1, <3>2 DEF ListInv
    <3>5. UsersInv'
      BY <1>0, <2>1, <3>1, <3>2 DEF UsersInv, Between
    <3> QED BY <3>3, <3>4, <3>5 DEF ControlInv
  <2> QED BY <2>2, <2>3
<1>3. CASE antenna_returns \/ plain_returns \/ seek_returns \/ (search_returns /\ ~Ok)
  <2>1. /\ lock # "free" /\ Unlock /\ UNCHANGED <<fhs, life>> /\ pc' = [pc EXCEPT ![lock] = "open"]
        /\ \/ op = "ANTENNA" /\ enabled'
           \/ op \in Plain \union {"SEARCH", "CANCEL"} /\ enabled' = enabled
    BY <1>0, <1>3 DEF antenna_returns, plain_returns, seek_returns, search_returns, Returned,
                      HolderInv
  <2>2. HolderInv' /\ ListInv' /\ lock \in Files
        /\ \A f \in Files : pc'[f] = IF f = lock THEN "open" ELSE pc[f]
    BY <1>0, <2>1, CallEnds
  <2>3. \/ pc[lock] = "opened" /\ enabled'
        \/ pc[lock] = "ioctl" /\ enabled' = enabled
    BY <1>0, <2>1, <2>2 DEF HolderInv
  <2>4. op' = "none"
    BY <2>1 DEF Unlock
  <2>5. UsersInv'
    BY <1>0, <2>1, <2>2, <2>3, <2>4 DEF UsersInv, Between
  <2> QED BY <2>2, <2>5 DEF ControlInv
<1>4. CASE disable_returns
  <2>1. /\ lock # "free" /\ Unlock /\ UNCHANGED <<fhs, life>>
        /\ pc' = [pc EXCEPT ![lock] = "release"]
        /\ op = "DISABLE" /\ ~enabled'
    BY <1>0, <1>4 DEF disable_returns, Returned, HolderInv
  <2>2. HolderInv' /\ ListInv' /\ lock \in Files
        /\ \A f \in Files : pc'[f] = IF f = lock THEN "release" ELSE pc[f]
    BY <1>0, <2>1, CallEnds
  <2>3. pc[lock] = "closing"
    BY <1>0, <2>1, <2>2 DEF HolderInv
  <2>4. op' = "none"
    BY <2>1 DEF Unlock
  <2>5. UsersInv'
    <3>1. SUFFICES ASSUME ~Overlap PROVE UsersInv'
      BY DEF UsersInv
    <3>2. \A f \in Files : f # lock => pc[f] = "closed"
      BY <1>0, <2>1, <3>1 DEF UsersInv, ListInv
    <3> QED BY <2>1, <2>2, <2>4, <3>2 DEF UsersInv, Between
  <2> QED BY <2>2, <2>5 DEF ControlInv
<1>5. CASE (search_returns /\ Ok) \/ seek_timeout
  <2>1. /\ UNCHANGED <<pc, fhs, lock, life, enabled>> /\ op = "SEARCH" /\ at # "none"
        /\ \/ op' = "SEARCH" /\ at' = "seek"
           \/ op' = "CANCEL" /\ at' = "cmd"
    BY <1>0, <1>5 DEF search_returns, seek_timeout, Returned, Call, HolderInv
  <2>2. HolderInv'
    BY <1>0, <2>1 DEF HolderInv
  <2>3. ListInv'
    BY <1>0, <2>1 DEF ListInv
  <2>4. UsersInv'
    BY <1>0, <2>1 DEF UsersInv, Between
  <2> QED BY <2>2, <2>3, <2>4 DEF ControlInv
<1> QED BY <1>1, <1>2, <1>3, <1>4, <1>5 DEF HolderStep

\* A probe, a remove, or a thread that has not the lock.
LEMMA FileControl ==
  ASSUME Start,
         \/ probe_begins \/ probe \/ probe_fails \/ remove
         \/ \E f \in Files : open(f) \/ close(f) \/ ioctl(f) \/ seek(f) \/ FileStep(f)
  PROVE  ControlInv'
<1> USE DEF Start, FmParts
<1> USE OpcodeFacts DEF driver, files, cmd, tuner, ghosts
<1>0. HolderInv /\ ListInv /\ UsersInv /\ ControlTypes
  BY DEF ControlInv
<1>1. CASE probe_begins \/ probe \/ probe_fails \/ remove
  <2>1. UNCHANGED <<pc, fhs, lock, at, op>> /\ (enabled' => enabled)
        /\ \/ life # "bound"
           \/ \A f \in Files : pc[f] = "closed"
    BY <1>1 DEF probe_begins, probe, probe_fails, remove
  <2>2. \A f \in Files : pc[f] = "closed"
    BY <1>0, <2>1 DEF ListInv
  <2>3. HolderInv'
    BY <1>0, <2>1 DEF HolderInv
  <2>4. ListInv'
    BY <1>0, <2>1, <2>2 DEF ListInv
  <2>5. UsersInv'
    BY <1>0, <2>1, <2>2 DEF UsersInv, Between
  <2> QED BY <2>3, <2>4, <2>5 DEF ControlInv
<1>2. ASSUME NEW f \in Files, open(f) PROVE ControlInv'
  <2>1. /\ \A g \in Files : pc'[g] = IF g = f THEN "opening" ELSE pc[g]
        /\ pc[f] = "closed" /\ life = "bound" /\ MayOverlap(f)
        /\ fhs' = fhs \union {f} /\ UNCHANGED <<life, lock, at, op, enabled>>
    BY <1>2 DEF open, ControlTypes
  <2>2. HolderInv'
    BY <1>0, <2>1 DEF HolderInv, ControlTypes
  <2>3. ListInv'
    BY <1>0, <2>1 DEF ListInv
  <2>4. UsersInv'
    <3>1. SUFFICES ASSUME ~Overlap PROVE UsersInv'
      BY DEF UsersInv
    <3>2. \A g \in Files \ {f} : ~Between(g)
      BY <2>1, <3>1 DEF MayOverlap
    <3>3. op # "DISABLE"
      BY <1>0, <2>1, <3>2 DEF HolderInv, Between, ControlTypes
    <3> QED BY <1>0, <2>1, <3>2, <3>3 DEF UsersInv, Between
  <2> QED BY <2>2, <2>3, <2>4 DEF ControlInv
<1>3. ASSUME NEW f \in Files, close(f) PROVE ControlInv'
  <2>1. /\ \A g \in Files : pc'[g] = IF g = f THEN "closing" ELSE pc[g]
        /\ pc[f] = "open" /\ MayOverlap(f)
        /\ UNCHANGED <<life, fhs, lock, at, op, enabled>>
    BY <1>3 DEF close, ControlTypes
  <2>2. HolderInv'
    BY <1>0, <2>1 DEF HolderInv, ControlTypes
  <2>3. ListInv'
    BY <1>0, <2>1 DEF ListInv
  <2>4. UsersInv'
    BY <1>0, <2>1 DEF UsersInv, Between, MayOverlap
  <2> QED BY <2>2, <2>3, <2>4 DEF ControlInv
<1>4. ASSUME NEW f \in Files, ioctl(f) \/ seek(f) PROVE ControlInv'
  <2>1. /\ \A g \in Files : pc'[g] = IF g = f THEN "ioctl" ELSE pc[g]
        /\ pc[f] = "open" /\ lock = "free" /\ lock' = f /\ at' = "cmd"
        /\ op' \in Plain \union {"SEARCH"}
        /\ UNCHANGED <<life, fhs, enabled>>
    BY <1>4 DEF ioctl, seek, Acquire, Call, ControlTypes
  <2>2. HolderInv'
    BY <1>0, <2>1 DEF HolderInv
  <2>3. ListInv'
    BY <1>0, <2>1 DEF ListInv
  <2>4. UsersInv'
    BY <1>0, <2>1 DEF UsersInv, Between
  <2> QED BY <2>2, <2>3, <2>4 DEF ControlInv
<1>5. ASSUME NEW f \in Files, open_locked(f) PROVE ControlInv'
  <2>1. /\ pc[f] = "opening" /\ lock = "free" /\ UNCHANGED <<life, fhs, enabled>>
        /\ at = "none" /\ op = "none" /\ f \in fhs
    BY <1>0, <1>5 DEF open_locked, HolderInv, ListInv
  <2>2. CASE Singular(f)
    <3>1. /\ \A g \in Files : pc'[g] = IF g = f THEN "opened" ELSE pc[g]
          /\ lock' = f /\ at' = "cmd" /\ op' = "ENABLE"
      BY <1>5, <2>2 DEF open_locked, Acquire, Call, ControlTypes
    <3>2. HolderInv'
      BY <1>0, <2>1, <3>1 DEF HolderInv
    <3>3. ListInv'
      BY <1>0, <2>1, <3>1 DEF ListInv
    <3>4. UsersInv'
      BY <1>0, <2>1, <3>1 DEF UsersInv, Between
    <3> QED BY <3>2, <3>3, <3>4 DEF ControlInv
  <2>3. CASE ~Singular(f)
    <3>1. /\ \A g \in Files : pc'[g] = IF g = f THEN "open" ELSE pc[g]
          /\ UNCHANGED <<lock, at, op>>
      BY <1>5, <2>3 DEF open_locked, ControlTypes
    <3>2. HolderInv'
      BY <1>0, <2>1, <3>1 DEF HolderInv
    <3>3. ListInv'
      BY <1>0, <2>1, <3>1 DEF ListInv
    <3>4. UsersInv'
      <4>1. SUFFICES ASSUME ~Overlap PROVE UsersInv'
        BY DEF UsersInv
      <4>2. PICK g \in fhs : g # f
        BY <2>1, <2>3 DEF Singular
      <4>3. g \in Files /\ pc[g] # "closed" /\ ~Between(g)
        BY <1>0, <2>1, <4>1, <4>2 DEF ListInv, UsersInv, Between, ControlTypes
      <4>4. pc[g] \in {"open", "ioctl"}
        BY <1>0, <4>3 DEF Between, ControlTypes
      <4>5. enabled
        BY <1>0, <4>1, <4>3, <4>4 DEF UsersInv
      <4> QED BY <1>0, <2>1, <3>1, <4>5 DEF UsersInv, Between
    <3> QED BY <3>2, <3>3, <3>4 DEF ControlInv
  <2> QED BY <2>2, <2>3
<1>6. ASSUME NEW f \in Files, release_locked(f) PROVE ControlInv'
  <2>1. /\ pc[f] = "closing" /\ lock = "free" /\ UNCHANGED <<life, fhs, enabled>>
        /\ at = "none" /\ op = "none" /\ f \in fhs
    BY <1>0, <1>6 DEF release_locked, HolderInv, ListInv
  <2>2. CASE Singular(f) /\ enabled
    <3>1. /\ UNCHANGED pc /\ lock' = f /\ at' = "cmd" /\ op' = "DISABLE" /\ fhs = {f}
      BY <1>6, <2>2 DEF release_locked, Acquire, Call, Singular
    <3>2. HolderInv'
      BY <1>0, <2>1, <3>1 DEF HolderInv
    <3>3. ListInv'
      BY <1>0, <2>1, <3>1 DEF ListInv
    <3>4. UsersInv'
      BY <1>0, <2>1, <3>1 DEF UsersInv, Between
    <3> QED BY <3>2, <3>3, <3>4 DEF ControlInv
  <2>3. CASE ~(Singular(f) /\ enabled)
    <3>1. /\ \A g \in Files : pc'[g] = IF g = f THEN "release" ELSE pc[g]
          /\ UNCHANGED <<lock, at, op>>
      BY <1>6, <2>3 DEF release_locked, ControlTypes
    <3>2. HolderInv'
      BY <1>0, <2>1, <3>1 DEF HolderInv
    <3>3. ListInv'
      BY <1>0, <2>1, <3>1 DEF ListInv
    <3>4. UsersInv'
      <4>1. SUFFICES ASSUME ~Overlap PROVE UsersInv'
        BY DEF UsersInv
      <4>2. ASSUME enabled PROVE \E g \in Files : g # f /\ pc[g] \in {"open", "ioctl"}
        <5>1. PICK g \in fhs : g # f
          BY <2>1, <2>3, <4>2 DEF Singular
        <5>2. g \in Files /\ pc[g] # "closed" /\ ~Between(g)
          BY <1>0, <2>1, <4>1, <5>1 DEF ListInv, UsersInv, Between, ControlTypes
        <5>3. pc[g] \in {"open", "ioctl"}
          BY <1>0, <5>2 DEF Between, ControlTypes
        <5> QED BY <5>1, <5>2, <5>3
      <4> QED BY <1>0, <2>1, <3>1, <4>2 DEF UsersInv, Between
    <3> QED BY <3>2, <3>3, <3>4 DEF ControlInv
  <2> QED BY <2>2, <2>3
<1>7. ASSUME NEW f \in Files, release(f) PROVE ControlInv'
  <2>1. /\ \A g \in Files : pc'[g] = IF g = f THEN "closed" ELSE pc[g]
        /\ pc[f] = "release" /\ fhs' = fhs \ {f}
        /\ UNCHANGED <<life, lock, at, op, enabled>>
    BY <1>7 DEF release, ControlTypes
  <2>2. HolderInv'
    BY <1>0, <2>1 DEF HolderInv, ControlTypes
  <2>3. ListInv'
    BY <1>0, <2>1 DEF ListInv
  <2>4. UsersInv'
    <3>1. op = "DISABLE" => pc[lock] = "closing"
      BY <1>0 DEF HolderInv
    <3> QED BY <1>0, <2>1, <3>1 DEF UsersInv, Between
  <2> QED BY <2>2, <2>3, <2>4 DEF ControlInv
<1> QED BY <1>1, <1>2, <1>3, <1>4, <1>5, <1>6, <1>7 DEF FileStep

\* The callback and the tuner.
LEMMA TunerControl ==
  ASSUME Start, CallbackStep \/ tuner_serves \/ tuner_finds
  PROVE  ControlInv'
<1>1. UNCHANGED <<files, life, op, enabled, at>>
  BY DEF CallbackStep, rx_event, rx_status, rx_complete, tuner_serves, tuner_finds, driver, files
<1> QED BY <1>1, ControlFrame DEF Start, FmParts

-----------------------------------------------------------------------------
(* What is in flight.                                                      *)

\* The rest of a sequence, by its indices.
LEMMA TailFacts ==
  ASSUME NEW S, NEW s \in Seq(S), s # <<>>
  PROVE  /\ Len(s) \in Nat \ {0} /\ Len(Tail(s)) = Len(s) - 1
         /\ Head(s) = s[1] /\ 1 \in 1 .. Len(s)
         /\ \A i \in 1 .. Len(Tail(s)) : i + 1 \in 1 .. Len(s) /\ Tail(s)[i] = s[i + 1]
OBVIOUS

\* A longer sequence, by its indices.
LEMMA AppendFacts ==
  ASSUME NEW S, NEW s \in Seq(S), NEW e \in S, NEW t, t = Append(s, e)
  PROVE  /\ Len(s) \in Nat /\ Len(t) = Len(s) + 1
         /\ t[Len(s) + 1] = e /\ Len(s) + 1 \in 1 .. Len(t)
         /\ \A i \in 1 .. Len(s) : t[i] = s[i] /\ i \in 1 .. Len(t)
         /\ \A i \in 1 .. Len(t) : i \in 1 .. Len(s) \/ i = Len(s) + 1
OBVIOUS

\* The members of the two queues.
LEMMA Members ==
  ASSUME QueueTypes
  PROVE  /\ Len(cmds) \in Nat /\ Len(evs) \in Nat
         /\ \A i \in 1 .. Len(cmds) : cmds[i] \in [op : Opcodes, id : Nat] /\ cmds[i].id \in Nat
         /\ \A i \in 1 .. Len(evs) : evs[i] \in Event /\ evs[i].id \in Nat
<1>0. \A S, s : s \in Seq(S) => \A i \in 1 .. Len(s) : s[i] \in S
  OBVIOUS
<1>1. \A i \in 1 .. Len(evs) : evs[i] \in Event
  BY <1>0 DEF QueueTypes
<1>2. \A i \in 1 .. Len(cmds) : cmds[i] \in [op : Opcodes, id : Nat]
  BY <1>0 DEF QueueTypes
<1>3. Len(cmds) \in Nat /\ Len(evs) \in Nat
  <2>1. \A S, s : s \in Seq(S) => Len(s) \in Nat
    OBVIOUS
  <2> QED BY <2>1 DEF QueueTypes
<1> QED BY <1>1, <1>2, <1>3 DEF Event

\* A step that changes nothing the queues are about.
LEMMA QueueSame ==
  ASSUME QueueInv, UNCHANGED <<cmds, evs, rx, answer, sent, amiss, searching, found, at, op>>,
         UNCHANGED <<cmd_done, status>>
  PROVE  QueueInv'
<1>1. EvsInv' /\ RxInv'
  BY DEF QueueInv, EvsInv, RxInv, IsAnswer
<1>2. OrderInv'
  BY DEF QueueInv, OrderInv, IsAnswer
<1>3. FlightInv' /\ StatusInv'
  BY DEF QueueInv, FlightInv, StatusInv, IsAnswer, Missed, This
<1> QED BY <1>1, <1>2, <1>3 DEF QueueInv

\* Steps of the holder inside wcnss_fm_cmd().
LEMMA CommandQueue ==
  ASSUME Start, cmd_reinit \/ cmd_pending \/ cmd_send \/ cmd_waited \/ cmd_timeout
  PROVE  QueueInv'
<1> USE DEF Start, FmParts
<1> USE OpcodeFacts DEF driver, files, cmd, tuner, ghosts
<1>0. /\ EvsInv /\ RxInv /\ OrderInv /\ FlightInv /\ StatusInv /\ CountTypes
      /\ answer.id \in Nat /\ rx.id \in Nat /\ sent \in Nat
  BY DEF QueueInv, RxTypes, Event, CountTypes
<1>1. CASE cmd_reinit
  <2>1. UNCHANGED <<evs, cmds, rx, sent, searching, found, amiss, status>>
        /\ at = "cmd" /\ at' = "reset" /\ cmd_done' = 0 /\ answer' = NoAnswer
    BY <1>1 DEF cmd_reinit
  <2>2. EvsInv' /\ RxInv' /\ StatusInv'
    BY <1>0, <2>1 DEF EvsInv, RxInv, StatusInv, IsAnswer
  <2>3. OrderInv'
    <3>1. answer'.id = 0
      BY <2>1
    <3>2. \A j \in 1 .. Len(cmds) : answer'.id < cmds[j].id
      BY <1>0, <3>1 DEF OrderInv
    <3>3. \A j \in 1 .. Len(evs) : answer'.id < evs[j].id
      BY <1>0, <3>1 DEF EvsInv
    <3>4. rx # NoAnswer => answer'.id < rx.id
      BY <1>0, <3>1 DEF RxInv
    <3> QED BY <1>0, <2>1, <3>2, <3>3, <3>4 DEF OrderInv, IsAnswer
  <2>4. FlightInv'
    BY <1>0, <2>1 DEF FlightInv, IsAnswer, Missed
  <2> QED BY <2>2, <2>3, <2>4 DEF QueueInv
<1>2. CASE cmd_pending
  <2>1. UNCHANGED <<evs, cmds, rx, answer, sent, searching, found, amiss, status, cmd_done>>
        /\ at = "reset" /\ at' = "send"
    BY <1>2 DEF cmd_pending
  <2>2. EvsInv' /\ RxInv' /\ StatusInv'
    BY <1>0, <2>1 DEF EvsInv, RxInv, StatusInv, IsAnswer
  <2>3. OrderInv'
    BY <1>0, <2>1 DEF OrderInv, IsAnswer
  <2>4. FlightInv'
    BY <1>0, <2>1 DEF FlightInv, IsAnswer, Missed
  <2> QED BY <2>2, <2>3, <2>4 DEF QueueInv
<1>3. CASE cmd_send
  <2> DEFINE c == This(sent + 1)
  <2>1. UNCHANGED <<evs, rx, answer, searching, found, cmd_done, op>>
        /\ at = "send" /\ sent' = sent + 1 /\ amiss \subseteq amiss'
    BY <1>3 DEF cmd_send
  <2>2. \/ at' = "wait" /\ cmds' = Append(cmds, c)
        \/ at' = "error" /\ cmds' = cmds /\ c \in amiss'
    BY <1>3 DEF cmd_send
  <2>3. c.id = sent + 1 /\ c = This(sent)'
    BY <2>1 DEF This
  <2>4. EvsInv'
    BY <1>0, <2>1 DEF EvsInv
  <2>5. RxInv'
    BY <1>0, <2>1, <2>2 DEF RxInv, IsAnswer
  <2>6. rx.id <= sent /\ answer.id <= sent
    BY <1>0 DEF RxInv
  <2>7. StatusInv'
    BY <1>0, <2>1, <2>6 DEF StatusInv
  <2>8. \A i \in 1 .. Len(cmds) : cmds[i].id \in 1 .. sent /\ cmds[i] \in amiss
    BY <1>0, <2>1 DEF OrderInv, FlightInv
  <2>9. CASE at' = "error" /\ cmds' = cmds /\ c \in amiss'
    <3>1. OrderInv'
      <4>1. \A j \in 1 .. Len(cmds) : cmds[j].id \in 1 .. sent + 1
        BY <1>0, <2>8
      <4>2. searching <= sent + 1 /\ found <= sent + 1
        BY <1>0 DEF OrderInv, CountTypes
      <4> QED BY <1>0, <2>1, <2>9, <4>1, <4>2 DEF OrderInv, IsAnswer
    <3>2. FlightInv'
      BY <1>0, <2>1, <2>3, <2>8, <2>9 DEF FlightInv, IsAnswer, Missed
    <3> QED BY <2>4, <2>5, <2>7, <3>1, <3>2 DEF QueueInv
  <2>10. CASE at' = "wait" /\ cmds' = Append(cmds, c)
    <3>1. op \in Opcodes
      BY <2>1 DEF ControlInv, HolderInv, ControlTypes
    <3>2. c \in [op : Opcodes, id : Nat]
      BY <1>0, <3>1 DEF This
    <3>3. cmds \in Seq([op : Opcodes, id : Nat])
      BY DEF QueueTypes
    <3> HIDE DEF c
    <3>4. /\ Len(cmds) \in Nat /\ Len(cmds') = Len(cmds) + 1
          /\ cmds'[Len(cmds) + 1] = c
          /\ \A i \in 1 .. Len(cmds) : cmds'[i] = cmds[i]
          /\ \A i \in 1 .. Len(cmds') : i \in 1 .. Len(cmds) \/ i = Len(cmds) + 1
      BY <2>10, <3>2, <3>3, AppendFacts
    <3>5. \A i \in 1 .. Len(cmds') :
            \/ i \in 1 .. Len(cmds) /\ cmds'[i] = cmds[i] /\ cmds'[i].id \in 1 .. sent
            \/ i = Len(cmds) + 1 /\ cmds'[i] = c /\ cmds'[i].id = sent + 1
      BY <2>3, <2>8, <3>4
    <3>6. OrderInv'
      <4>1. \A i, j \in 1 .. Len(cmds') : i < j => cmds'[i].id < cmds'[j].id
        BY <1>0, <3>4, <3>5 DEF OrderInv
      <4>2. \A i \in 1 .. Len(evs) : evs[i].id \in 1 .. sent
        BY <1>0 DEF EvsInv
      <4>3. searching <= sent /\ found <= sent /\ searching \in Nat /\ found \in Nat
        BY <1>0 DEF OrderInv, CountTypes
      <4>4. ASSUME NEW j \in 1 .. Len(cmds')
            PROVE  /\ cmds'[j].id \in 1 .. sent + 1
                   /\ answer.id < cmds'[j].id /\ rx.id < cmds'[j].id
                   /\ searching < cmds'[j].id /\ found < cmds'[j].id
                   /\ \A i \in 1 .. Len(evs) : evs[i].id < cmds'[j].id
        <5>1. CASE j \in 1 .. Len(cmds) /\ cmds'[j] = cmds[j] /\ cmds'[j].id \in 1 .. sent
          BY <1>0, <5>1 DEF OrderInv
        <5>2. CASE cmds'[j].id = sent + 1
          BY <1>0, <2>6, <4>2, <4>3, <5>2
        <5> QED BY <3>5, <5>1, <5>2
      <4>5. searching' <= sent' /\ found' <= sent'
        BY <1>0, <2>1, <4>3
      <4> QED BY <1>0, <2>1, <4>1, <4>4, <4>5 DEF OrderInv, IsAnswer
    <3>7. \A i \in 1 .. Len(cmds') : cmds'[i] \in amiss' \/ cmds'[i] = This(sent)'
      BY <2>1, <2>3, <2>8, <3>5
    <3>8. FlightInv'
      BY <1>0, <2>1, <2>10, <3>7 DEF FlightInv, IsAnswer, Missed
    <3> QED BY <2>4, <2>5, <2>7, <3>6, <3>8 DEF QueueInv
  <2> QED BY <2>2, <2>9, <2>10
<1>4. CASE cmd_waited
  <2>1. UNCHANGED <<evs, cmds, rx, sent, searching, found, op, status>>
        /\ at = "wait" /\ answer' = NoAnswer /\ amiss \subseteq amiss'
        /\ at' \in {"error", "ok"} /\ (at' = "error" => status)
    BY <1>4 DEF cmd_waited
  <2>2. This(sent) \in amiss' \/ (answer.id = sent /\ ~status)
    BY <1>4 DEF cmd_waited
  <2>3. EvsInv' /\ RxInv' /\ StatusInv'
    BY <1>0, <2>1 DEF EvsInv, RxInv, StatusInv, IsAnswer
  <2>4. OrderInv'
    <3>1. answer'.id = 0
      BY <2>1
    <3>2. \A j \in 1 .. Len(cmds) : answer'.id < cmds[j].id
      BY <1>0, <3>1 DEF OrderInv
    <3>3. \A j \in 1 .. Len(evs) : answer'.id < evs[j].id
      BY <1>0, <3>1 DEF EvsInv
    <3>4. rx # NoAnswer => answer'.id < rx.id
      BY <1>0, <3>1 DEF RxInv
    <3> QED BY <1>0, <2>1, <3>2, <3>3, <3>4 DEF OrderInv, IsAnswer
  <2>5. FlightInv'
    <3>1. CASE This(sent) \in amiss'
      <4>1. This(sent).id = sent /\ This(sent)' = This(sent)
        BY <2>1 DEF This
      <4> QED BY <1>0, <2>1, <3>1, <4>1 DEF FlightInv, IsAnswer, Missed
    <3>2. CASE answer.id = sent /\ ~status
      <4>1. \A i \in 1 .. Len(cmds) : FALSE
        BY <1>0, <3>2 DEF OrderInv
      <4>2. \A i \in 1 .. Len(evs) : ~IsAnswer(evs[i])
        BY <1>0, <3>2 DEF OrderInv, EvsInv
      <4>3. rx = NoAnswer
        BY <1>0, <3>2 DEF OrderInv, RxInv
      <4> QED BY <2>1, <3>2, <4>1, <4>2, <4>3 DEF FlightInv, IsAnswer
    <3> QED BY <2>2, <3>1, <3>2
  <2> QED BY <2>3, <2>4, <2>5 DEF QueueInv
<1>5. CASE cmd_timeout
  <2>1. UNCHANGED <<evs, cmds, rx, answer, sent, searching, found, op>>
        /\ at = "wait" /\ amiss \subseteq amiss' /\ at' = "error" /\ This(sent) \in amiss'
    BY <1>5 DEF cmd_timeout
  <2>2. EvsInv' /\ RxInv' /\ StatusInv'
    BY <1>0, <2>1 DEF EvsInv, RxInv, StatusInv, IsAnswer
  <2>3. OrderInv'
    BY <1>0, <2>1 DEF OrderInv, IsAnswer
  <2>4. This(sent).id = sent /\ This(sent)' = This(sent)
    BY <2>1 DEF This
  <2>5. FlightInv'
    BY <1>0, <2>1, <2>4 DEF FlightInv, IsAnswer, Missed
  <2> QED BY <2>2, <2>3, <2>5 DEF QueueInv
<1> QED BY <1>1, <1>2, <1>3, <1>4, <1>5

\* What the callback makes of an event: a progress, nothing, or one to deliver.
LEMMA EventTaken ==
  ASSUME rx_event, QueueTypes
  PROVE  /\ rx = NoAnswer /\ Len(evs) \in Nat \ {0} /\ Len(evs') = Len(evs) - 1
         /\ 1 \in 1 .. Len(evs)
         /\ \A i \in 1 .. Len(evs') : i + 1 \in 1 .. Len(evs) /\ evs'[i] = evs[i + 1]
         /\ UNCHANGED <<driver, files, at, op, cmd, enabled, tuner, sent, answer, amiss>>
         /\ \/ /\ evs[1].kind = "progress" /\ seek_done' = seek_done + 1
               /\ found' = evs[1].id /\ rx' = rx
            \/ /\ evs[1].kind # "progress" /\ UNCHANGED <<seek_done, found>>
               /\ rx' = rx \/ rx' = evs[1]
<1> DEFINE e == Head(evs)
<1>1. rx = NoAnswer /\ evs # <<>> /\ evs' = Tail(evs)
      /\ UNCHANGED <<driver, files, at, op, cmd, enabled, tuner, sent, answer, amiss>>
  BY DEF rx_event
<1>2. evs \in Seq(Event)
  BY DEF QueueTypes
<1>3. /\ Len(evs) \in Nat \ {0} /\ Len(Tail(evs)) = Len(evs) - 1
      /\ e = evs[1] /\ 1 \in 1 .. Len(evs)
      /\ \A i \in 1 .. Len(Tail(evs)) : i + 1 \in 1 .. Len(evs) /\ Tail(evs)[i] = evs[i + 1]
  BY <1>1, <1>2, TailFacts
<1>4. CASE e.kind = "progress"
  <2>1. seek_done' = seek_done + 1 /\ found' = e.id /\ rx' = rx
    BY <1>4 DEF rx_event
  <2> HIDE DEF e
  <2> QED BY <1>1, <1>3, <1>4, <2>1
<1>5. CASE e.kind # "progress" /\ e.kind = "complete" /\ e.op # pending
  <2>1. UNCHANGED <<rx, seek_done, found>>
    BY <1>5 DEF rx_event
  <2> HIDE DEF e
  <2> QED BY <1>1, <1>3, <1>5, <2>1
<1>6. CASE e.kind # "progress" /\ ~(e.kind = "complete" /\ e.op # pending)
  <2>1. rx' = e /\ UNCHANGED <<seek_done, found>>
    BY <1>6 DEF rx_event
  <2> HIDE DEF e
  <2> QED BY <1>1, <1>3, <1>6, <2>1
<1> QED BY <1>4, <1>5, <1>6

\* Steps of the callback.
LEMMA CallbackQueue ==
  ASSUME Start, CallbackStep
  PROVE  QueueInv'
<1> USE DEF Start, FmParts
<1> USE OpcodeFacts DEF driver, files, cmd, tuner, ghosts
<1>0. /\ EvsInv /\ RxInv /\ OrderInv /\ FlightInv /\ StatusInv
      /\ answer.id \in Nat /\ rx.id \in Nat /\ sent \in Nat /\ cmd_done \in Nat
      /\ searching \in Nat /\ found \in Nat
  BY DEF QueueInv, RxTypes, Event, CountTypes
<1>1. CASE rx_event
  <2>1. rx = NoAnswer /\ Len(evs) \in Nat \ {0} /\ Len(evs') = Len(evs) - 1
        /\ 1 \in 1 .. Len(evs)
    BY <1>1, EventTaken
  <2>2. \A i \in 1 .. Len(evs') : i + 1 \in 1 .. Len(evs) /\ evs'[i] = evs[i + 1]
    BY <1>1, EventTaken
  <2>3. UNCHANGED <<cmds, answer, sent, amiss, searching, at, op, cmd_done, status>>
    BY <1>1, EventTaken
  <2>4. \/ evs[1].kind = "progress" /\ found' = evs[1].id /\ rx' = rx
        \/ evs[1].kind # "progress" /\ found' = found /\ (rx' = rx \/ rx' = evs[1])
    BY <1>1, EventTaken
  <2>5. evs[1].kind \in {"complete", "status", "progress"} /\ evs[1].id \in 1 .. sent
    BY <1>0, <2>1 DEF EvsInv
  <2>6. rx' = rx \/ (rx' = evs[1] /\ IsAnswer(evs[1]) /\ rx'.kind # "done")
    BY <2>4, <2>5 DEF IsAnswer
  <2>7. found' = found \/ found' = evs[1].id
    BY <2>4
  <2>8. EvsInv'
    BY <1>0, <2>2, <2>3 DEF EvsInv
  <2>9. RxInv'
    BY <1>0, <2>3, <2>5, <2>6 DEF RxInv, IsAnswer
  <2>10. StatusInv'
    BY <1>0, <2>1, <2>3, <2>6 DEF StatusInv
  <2>11. OrderInv'
    <3>1. ASSUME NEW j \in 1 .. Len(cmds)
          PROVE  /\ rx'.id < cmds[j].id /\ found' < cmds[j].id
                 /\ \A i \in 1 .. Len(evs') : evs'[i].id < cmds[j].id
      <4>1. \A i \in 1 .. Len(evs) : evs[i].id < cmds[j].id
        BY <1>0 DEF OrderInv
      <4>2. rx.id < cmds[j].id /\ found < cmds[j].id
        BY <1>0 DEF OrderInv
      <4> QED BY <2>1, <2>2, <2>6, <2>7, <4>1, <4>2
    <3>2. ASSUME NEW j \in 1 .. Len(evs'), IsAnswer(evs'[j])
          PROVE  /\ answer.id < evs'[j].id /\ rx'.id < evs'[j].id
                 /\ \A i \in 1 .. Len(evs') : IsAnswer(evs'[i]) /\ i < j => evs'[i].id < evs'[j].id
      <4>1. j + 1 \in 1 .. Len(evs) /\ evs'[j] = evs[j + 1] /\ 1 < j + 1
        BY <2>1, <2>2
      <4>2. answer.id < evs'[j].id /\ rx.id < evs'[j].id
            /\ (IsAnswer(evs[1]) => evs[1].id < evs'[j].id)
        BY <1>0, <2>1, <3>2, <4>1 DEF OrderInv
      <4>3. ASSUME NEW i \in 1 .. Len(evs'), IsAnswer(evs'[i]), i < j
            PROVE  evs'[i].id < evs'[j].id
        <5>1. i + 1 \in 1 .. Len(evs) /\ evs'[i] = evs[i + 1] /\ i + 1 < j + 1
          BY <2>1, <2>2, <4>3
        <5> QED BY <1>0, <3>2, <4>1, <4>3, <5>1 DEF OrderInv
      <4> QED BY <2>6, <4>2, <4>3
    <3>3. rx' # NoAnswer => answer.id < rx'.id
      BY <1>0, <2>1, <2>6 DEF OrderInv
    <3>4. searching <= sent /\ found' <= sent
      BY <1>0, <2>5, <2>7 DEF OrderInv
    <3>5. \A i, j \in 1 .. Len(cmds) : i < j => cmds[i].id < cmds[j].id
      BY <1>0 DEF OrderInv
    <3>6. \A j \in 1 .. Len(cmds) :
            cmds[j].id \in 1 .. sent /\ answer.id < cmds[j].id /\ searching < cmds[j].id
      BY <1>0 DEF OrderInv
    <3>7. \A j \in 1 .. Len(evs') :
            IsAnswer(evs'[j]) => /\ answer.id < evs'[j].id /\ rx'.id < evs'[j].id
                                 /\ \A i \in 1 .. Len(evs') :
                                     IsAnswer(evs'[i]) /\ i < j => evs'[i].id < evs'[j].id
      BY <3>2
    <3> QED BY <2>3, <3>1, <3>3, <3>4, <3>5, <3>6, <3>7 DEF OrderInv, IsAnswer
  <2>12. FlightInv'
    <3>1. \A i \in 1 .. Len(evs') :
            IsAnswer(evs'[i]) => Missed(evs'[i].id) \/ (at = "wait" /\ evs'[i].id = sent)
      BY <1>0, <2>2 DEF FlightInv
    <3>2. rx' # NoAnswer => Missed(rx'.id) \/ (at = "wait" /\ rx'.id = sent)
      BY <1>0, <2>1, <2>6 DEF FlightInv
    <3> QED BY <1>0, <2>3, <3>1, <3>2 DEF FlightInv, IsAnswer, Missed, This
  <2> QED BY <2>8, <2>9, <2>10, <2>11, <2>12 DEF QueueInv
<1>2. CASE rx_status
  <2>1. UNCHANGED <<evs, cmds, answer, sent, amiss, searching, found, at, op, cmd_done>>
        /\ rx' = [rx EXCEPT !.kind = "done"] /\ status' = rx.failed /\ rx.kind \in {"complete", "status"}
    BY <1>2 DEF rx_status
  <2>2. rx'.id = rx.id /\ rx'.failed = rx.failed /\ rx'.kind = "done" /\ rx # NoAnswer
    BY <2>1 DEF RxTypes, Event
  <2>3. EvsInv' /\ RxInv'
    BY <1>0, <2>1, <2>2 DEF EvsInv, RxInv, IsAnswer
  <2>4. answer.id # sent
    BY <1>0, <2>2 DEF OrderInv, RxInv
  <2>5. StatusInv'
    BY <1>0, <2>1, <2>2, <2>4 DEF StatusInv
  <2>6. OrderInv'
    BY <1>0, <2>1, <2>2 DEF OrderInv, IsAnswer
  <2>7. FlightInv'
    BY <1>0, <2>1, <2>2 DEF FlightInv, IsAnswer, Missed, This
  <2> QED BY <2>3, <2>5, <2>6, <2>7 DEF QueueInv
<1>3. CASE rx_complete
  <2>1. UNCHANGED <<evs, cmds, sent, amiss, searching, found, at, op, status>>
        /\ rx' = NoAnswer /\ answer' = rx /\ rx.kind = "done" /\ cmd_done' = cmd_done + 1
    BY <1>3 DEF rx_complete
  <2>2. rx # NoAnswer /\ rx.id \in 1 .. sent
    BY <1>0, <2>1 DEF RxInv
  <2>3. EvsInv' /\ RxInv'
    BY <1>0, <2>1, <2>2 DEF EvsInv, RxInv, IsAnswer
  <2>4. StatusInv'
    BY <1>0, <2>1, <2>2 DEF StatusInv
  <2>5. OrderInv'
    <3>1. \A j \in 1 .. Len(evs) : rx'.id < evs[j].id
      BY <1>0, <2>1 DEF EvsInv
    <3>2. \A j \in 1 .. Len(cmds) : rx'.id < cmds[j].id
      BY <1>0, <2>1 DEF OrderInv
    <3> QED BY <1>0, <2>1, <3>1, <3>2 DEF OrderInv, IsAnswer
  <2>6. FlightInv'
    BY <1>0, <2>1, <2>2 DEF FlightInv, IsAnswer, Missed, This
  <2> QED BY <2>3, <2>4, <2>5, <2>6 DEF QueueInv
<1> QED BY <1>1, <1>2, <1>3 DEF CallbackStep

\* What becomes of a command and of the receiver.
LEMMA CommandServed ==
  ASSUME tuner_serves, QueueTypes
  PROVE  /\ Len(cmds) \in Nat \ {0} /\ Len(cmds') = Len(cmds) - 1
         /\ 1 \in 1 .. Len(cmds)
         /\ \A i \in 1 .. Len(cmds') : i + 1 \in 1 .. Len(cmds) /\ cmds'[i] = cmds[i + 1]
         /\ UNCHANGED <<driver, files, at, op, cmd, seek_done, enabled, rx, ghosts>>
         /\ \E failed \in BOOLEAN, kind \in {"complete", "status", "none"} :
              /\ IF failed THEN UNCHANGED <<on, searching>> ELSE Execute(cmds[1])
              /\ evs' = IF kind = "none" THEN evs
                        ELSE Append(evs, [kind |-> kind, op |-> cmds[1].op, failed |-> failed,
                                          id |-> cmds[1].id])
<1>1. cmds # <<>> /\ cmds' = Tail(cmds)
      /\ UNCHANGED <<driver, files, at, op, cmd, seek_done, enabled, rx, ghosts>>
  BY DEF tuner_serves
<1> DEFINE C == [op : Opcodes, id : Nat]
<1>2. cmds \in Seq(C)
  BY DEF QueueTypes
<1>3. /\ Len(cmds) \in Nat \ {0} /\ Len(Tail(cmds)) = Len(cmds) - 1
      /\ Head(cmds) = cmds[1] /\ 1 \in 1 .. Len(cmds)
      /\ \A i \in 1 .. Len(Tail(cmds)) : i + 1 \in 1 .. Len(cmds) /\ Tail(cmds)[i] = cmds[i + 1]
  <2> HIDE DEF C
  <2> QED BY <1>1, <1>2, TailFacts
<1>4. \E failed \in BOOLEAN, kind \in {"complete", "status", "none"} :
        /\ IF failed THEN UNCHANGED <<on, searching>> ELSE Execute(Head(cmds))
        /\ evs' = IF kind = "none" THEN evs
                  ELSE Append(evs, [kind |-> kind, op |-> Head(cmds).op, failed |-> failed,
                                    id |-> Head(cmds).id])
  BY DEF tuner_serves
<1> QED BY <1>1, <1>3, <1>4

\* An event that is added to those on their way.
LEMMA Appended ==
  ASSUME QueueTypes, CountTypes, NEW e, e \in Event, evs' = Append(evs, e)
  PROVE  /\ Len(evs) \in Nat /\ Len(evs') = Len(evs) + 1
         /\ evs'[Len(evs) + 1] = e /\ Len(evs) + 1 \in 1 .. Len(evs')
         /\ \A i \in 1 .. Len(evs) : evs'[i] = evs[i] /\ i \in 1 .. Len(evs')
         /\ \A i \in 1 .. Len(evs') : i \in 1 .. Len(evs) \/ i = Len(evs) + 1
<1>1. evs \in Seq(Event)
  BY DEF QueueTypes
<1> QED BY <1>1, AppendFacts

\* A new event whose number is above those of the answers before it, and below
\* those of the commands that are left.
LEMMA EventQueue ==
  ASSUME QueueInv, QueueTypes, CountTypes, RxTypes, NEW e \in Event,
         evs' = Append(evs, e),
         e.kind \in {"complete", "status", "progress"}, e.id \in 1 .. sent,
         IsAnswer(e) =>
           /\ answer.id < e.id /\ rx.id < e.id
           /\ \A i \in 1 .. Len(evs) : evs[i].id < e.id
           /\ Missed(e.id) \/ (at = "wait" /\ e.id = sent),
         UNCHANGED <<rx, answer, sent, amiss, found, at, op, cmd_done, status>>,
         searching' \in Nat, searching' <= sent,
         Len(cmds') \in Nat, Len(cmds') <= Len(cmds),
         \A i \in 1 .. Len(cmds') : i + Len(cmds) - Len(cmds') \in 1 .. Len(cmds)
                                    /\ cmds'[i] = cmds[i + Len(cmds) - Len(cmds')],
         \A i \in 1 .. Len(cmds') : e.id < cmds'[i].id /\ searching' < cmds'[i].id
  PROVE  QueueInv'
<1>0. /\ EvsInv /\ RxInv /\ OrderInv /\ FlightInv /\ StatusInv
      /\ answer.id \in Nat /\ rx.id \in Nat /\ sent \in Nat /\ cmd_done \in Nat
      /\ searching \in Nat /\ found \in Nat /\ e.id \in Nat
  BY DEF QueueInv, RxTypes, Event, CountTypes
<1>1. \A i \in 1 .. Len(evs') : (i \in 1 .. Len(evs) /\ evs'[i] = evs[i])
                                \/ (i = Len(evs) + 1 /\ evs'[i] = e)
  BY Appended
<1>2. Len(evs) \in Nat
  BY Appended
<1>3. EvsInv'
  BY <1>0, <1>1 DEF EvsInv
<1>4. RxInv' /\ StatusInv'
  BY <1>0 DEF RxInv, StatusInv, IsAnswer
<1>5. OrderInv'
  <2> DEFINE k == Len(cmds) - Len(cmds')
  <2>1. k \in Nat /\ Len(cmds) \in Nat
    BY Members
  <2>2. \A i \in 1 .. Len(cmds') : i + k \in 1 .. Len(cmds) /\ cmds'[i] = cmds[i + k]
    BY <2>1
  <2> HIDE DEF k
  <2>3. ASSUME NEW i \in 1 .. Len(cmds'), NEW j \in 1 .. Len(cmds'), i < j
        PROVE  cmds'[i].id < cmds'[j].id
    <3>1. i + k \in 1 .. Len(cmds) /\ j + k \in 1 .. Len(cmds) /\ i + k < j + k
      BY <2>1, <2>2, <2>3
    <3>2. cmds[i + k].id < cmds[j + k].id
      BY <1>0, <3>1 DEF OrderInv
    <3> QED BY <2>2, <3>2
  <2>4. ASSUME NEW j \in 1 .. Len(cmds')
        PROVE  /\ cmds'[j].id \in 1 .. sent
               /\ answer.id < cmds'[j].id /\ rx.id < cmds'[j].id
               /\ found < cmds'[j].id
               /\ \A i \in 1 .. Len(evs') : evs'[i].id < cmds'[j].id
    <3>1. /\ cmds[j + k].id \in 1 .. sent
          /\ answer.id < cmds[j + k].id /\ rx.id < cmds[j + k].id
          /\ found < cmds[j + k].id
          /\ \A i \in 1 .. Len(evs) : evs[i].id < cmds[j + k].id
      BY <1>0, <2>2 DEF OrderInv
    <3> QED BY <1>1, <2>2, <3>1
  <2>5. ASSUME NEW j \in 1 .. Len(evs'), IsAnswer(evs'[j])
        PROVE  /\ answer.id < evs'[j].id /\ rx.id < evs'[j].id
               /\ \A i \in 1 .. Len(evs') : IsAnswer(evs'[i]) /\ i < j => evs'[i].id < evs'[j].id
    <3>1. CASE j \in 1 .. Len(evs) /\ evs'[j] = evs[j]
      BY <1>0, <1>1, <1>2, <2>5, <3>1 DEF OrderInv
    <3>2. CASE j = Len(evs) + 1 /\ evs'[j] = e
      BY <1>1, <1>2, <2>5, <3>2
    <3> QED BY <1>1, <3>1, <3>2
  <2>6. searching' <= sent /\ found <= sent /\ (rx # NoAnswer => answer.id < rx.id)
    BY <1>0 DEF OrderInv
  <2>7. \A i, j \in 1 .. Len(cmds') : i < j => cmds'[i].id < cmds'[j].id
    BY <2>3
  <2>8. \A j \in 1 .. Len(evs') :
          IsAnswer(evs'[j]) => /\ answer.id < evs'[j].id /\ rx.id < evs'[j].id
                               /\ \A i \in 1 .. Len(evs') :
                                    IsAnswer(evs'[i]) /\ i < j => evs'[i].id < evs'[j].id
    BY <2>5
  <2> QED BY <2>4, <2>6, <2>7, <2>8 DEF OrderInv, IsAnswer
<1>6. FlightInv'
  <2>1. \A i \in 1 .. Len(cmds') : cmds'[i] \in amiss \/ (at = "wait" /\ cmds'[i] = This(sent))
    BY <1>0 DEF FlightInv
  <2>2. \A i \in 1 .. Len(evs') :
          IsAnswer(evs'[i]) => Missed(evs'[i].id) \/ (at = "wait" /\ evs'[i].id = sent)
    BY <1>0, <1>1 DEF FlightInv
  <2> QED BY <1>0, <2>1, <2>2 DEF FlightInv, IsAnswer, Missed, This
<1> QED BY <1>3, <1>4, <1>5, <1>6 DEF QueueInv

\* Steps of the tuner.
LEMMA TunerQueue ==
  ASSUME Start, tuner_serves \/ tuner_finds
  PROVE  QueueInv'
<1> USE DEF Start, FmParts
<1> USE OpcodeFacts DEF driver, files, cmd, tuner, ghosts
<1>0. /\ EvsInv /\ RxInv /\ OrderInv /\ FlightInv /\ StatusInv
      /\ answer.id \in Nat /\ rx.id \in Nat /\ sent \in Nat /\ cmd_done \in Nat
      /\ searching \in Nat /\ found \in Nat
  BY DEF QueueInv, RxTypes, Event, CountTypes
<1>1. CASE tuner_serves
  <2>1. Len(cmds) \in Nat \ {0} /\ Len(cmds') = Len(cmds) - 1 /\ 1 \in 1 .. Len(cmds)
    BY <1>1, CommandServed
  <2>2. \A i \in 1 .. Len(cmds') : i + 1 \in 1 .. Len(cmds) /\ cmds'[i] = cmds[i + 1]
    BY <1>1, CommandServed
  <2>3. UNCHANGED <<rx, answer, sent, amiss, found, at, op, cmd_done, status>>
    BY <1>1, CommandServed
  <2>4. PICK failed \in BOOLEAN, kind \in {"complete", "status", "none"} :
          /\ IF failed THEN UNCHANGED <<on, searching>> ELSE Execute(cmds[1])
          /\ evs' = IF kind = "none" THEN evs
                    ELSE Append(evs, [kind |-> kind, op |-> cmds[1].op, failed |-> failed,
                                      id |-> cmds[1].id])
    BY <1>1, CommandServed
  <2> DEFINE e == [kind |-> kind, op |-> cmds[1].op, failed |-> failed, id |-> cmds[1].id]
  <2>5. searching' \in {searching, cmds[1].id, 0}
    BY <2>4 DEF Execute
  <2>6. cmds[1].op \in Opcodes /\ cmds[1].id \in 1 .. sent
    BY <1>0, <2>1, Members DEF OrderInv
  <2>7. searching' \in Nat /\ searching' <= sent
    BY <1>0, <2>5, <2>6 DEF OrderInv
  <2>8. \A i \in 1 .. Len(cmds') : /\ cmds[1].id < cmds'[i].id /\ searching' < cmds'[i].id
                                   /\ cmds'[i].id \in 1 .. sent
    <3>1. \A i \in 1 .. Len(cmds') : 1 < i + 1 /\ i + 1 \in 1 .. Len(cmds) /\ cmds'[i] = cmds[i + 1]
      BY <2>2
    <3>2. \A i \in 1 .. Len(cmds') : cmds[1].id < cmds[i + 1].id /\ searching < cmds[i + 1].id
                                     /\ cmds[i + 1].id \in 1 .. sent
      BY <1>0, <2>1, <3>1 DEF OrderInv
    <3> QED BY <2>5, <3>1, <3>2
  <2>9. CASE kind = "none"
    <3>1. evs' = evs
      BY <2>4, <2>9
    <3>2. EvsInv' /\ RxInv' /\ StatusInv'
      BY <1>0, <2>3, <3>1 DEF EvsInv, RxInv, StatusInv, IsAnswer
    <3>3. FlightInv'
      <4>1. \A i \in 1 .. Len(cmds') : cmds'[i] \in amiss \/ (at = "wait" /\ cmds'[i] = This(sent))
        BY <1>0, <2>2 DEF FlightInv
      <4> QED BY <1>0, <2>3, <3>1, <4>1 DEF FlightInv, IsAnswer, Missed, This
    <3>4. OrderInv'
      <4>1. ASSUME NEW i \in 1 .. Len(cmds'), NEW j \in 1 .. Len(cmds'), i < j
            PROVE  cmds'[i].id < cmds'[j].id
        <5>1. i + 1 \in 1 .. Len(cmds) /\ j + 1 \in 1 .. Len(cmds) /\ i + 1 < j + 1
          BY <2>1, <2>2, <4>1
        <5>2. cmds[i + 1].id < cmds[j + 1].id
          BY <1>0, <5>1 DEF OrderInv
        <5> QED BY <2>2, <5>2
      <4>2. \A i, j \in 1 .. Len(cmds') : i < j => cmds'[i].id < cmds'[j].id
        BY <4>1
      <4>3. \A j \in 1 .. Len(cmds') :
              /\ answer.id < cmds'[j].id /\ rx.id < cmds'[j].id /\ found < cmds'[j].id
              /\ \A i \in 1 .. Len(evs) : evs[i].id < cmds'[j].id
        BY <1>0, <2>2 DEF OrderInv
      <4> QED BY <1>0, <2>3, <2>7, <2>8, <3>1, <4>2, <4>3 DEF OrderInv, IsAnswer
    <3> QED BY <3>2, <3>3, <3>4 DEF QueueInv
  <2>10. CASE kind # "none"
    <3>1. e \in Event /\ e.id = cmds[1].id /\ e.kind \in {"complete", "status", "progress"}
      BY <1>0, <2>6, <2>10 DEF Event
    <3>2. evs' = Append(evs, e)
      BY <2>4, <2>10
    <3> HIDE DEF e
    <3>3. /\ answer.id < e.id /\ rx.id < e.id
          /\ \A i \in 1 .. Len(evs) : evs[i].id < e.id
      BY <1>0, <2>1, <3>1 DEF OrderInv
    <3>4. Missed(e.id) \/ (at = "wait" /\ e.id = sent)
      BY <1>0, <2>1, <3>1 DEF FlightInv, Missed, This
    <3>5. Len(cmds') \in Nat /\ Len(cmds') <= Len(cmds) /\ Len(cmds) - Len(cmds') = 1
      BY <2>1
    <3>6. \A i \in 1 .. Len(cmds') : i + Len(cmds) - Len(cmds') \in 1 .. Len(cmds)
                                     /\ cmds'[i] = cmds[i + Len(cmds) - Len(cmds')]
      <4>1. \A i \in 1 .. Len(cmds') : i + Len(cmds) - Len(cmds') = i + 1
        BY <2>1
      <4> QED BY <2>2, <4>1
    <3>7. \A i \in 1 .. Len(cmds') : e.id < cmds'[i].id /\ searching' < cmds'[i].id
      BY <2>8, <3>1
    <3>8. e.id \in 1 .. sent
      BY <2>6, <3>1
    <3> QED BY <2>3, <2>7, <3>1, <3>2, <3>3, <3>4, <3>5, <3>6, <3>7, <3>8, EventQueue
  <2> QED BY <2>9, <2>10
<1>2. CASE tuner_finds
  <2> DEFINE e == [kind |-> "progress", op |-> "SEARCH", failed |-> FALSE, id |-> searching]
  <2>1. UNCHANGED <<cmds, rx, answer, sent, amiss, found, at, op, cmd_done, status>>
        /\ searching' = 0 /\ evs' = Append(evs, e) /\ searching # 0
    BY <1>2 DEF tuner_finds
  <2>2. e \in Event /\ e.kind = "progress" /\ e.id = searching
    BY <1>0 DEF Event
  <2> HIDE DEF e
  <2>3. e.id \in 1 .. sent /\ ~IsAnswer(e)
    BY <1>0, <2>1, <2>2 DEF OrderInv, IsAnswer
  <2>4. Len(cmds) \in Nat
    BY Members
  <2>5. \A i \in 1 .. Len(cmds) : i + Len(cmds) - Len(cmds) = i
    BY <2>4
  <2>6. \A i \in 1 .. Len(cmds) : e.id < cmds[i].id /\ 0 < cmds[i].id
    BY <1>0, <2>2 DEF OrderInv
  <2>7. 0 \in Nat /\ 0 <= sent /\ Len(cmds) <= Len(cmds)
    BY <1>0, <2>4
  <2>8. /\ Len(cmds') \in Nat /\ Len(cmds') <= Len(cmds) /\ searching' \in Nat /\ searching' <= sent
        /\ \A i \in 1 .. Len(cmds') : i + Len(cmds) - Len(cmds') \in 1 .. Len(cmds)
                                      /\ cmds'[i] = cmds[i + Len(cmds) - Len(cmds')]
        /\ \A i \in 1 .. Len(cmds') : e.id < cmds'[i].id /\ searching' < cmds'[i].id
    BY <2>1, <2>4, <2>5, <2>6, <2>7
  <2> QED BY <2>1, <2>2, <2>3, <2>8, EventQueue
<1> QED BY <1>1, <1>2

\* Steps of the holder outside of wcnss_fm_cmd().
LEMMA ReturnQueue ==
  ASSUME Start,
         \/ enable_returns \/ antenna_returns \/ disable_returns \/ plain_returns
         \/ search_returns \/ seek_waited \/ seek_returns \/ seek_timeout
  PROVE  QueueInv'
<1> USE DEF Start, FmParts
<1>1. UNCHANGED <<cmds, evs, rx, answer, sent, amiss, searching>> /\ found' \in {0, found}
  BY DEF enable_returns, antenna_returns, disable_returns, plain_returns,
         search_returns, seek_waited, seek_returns, seek_timeout, tuner, ghosts
<1>2. at' \notin {"reset", "send", "wait", "error"} /\ at # "wait"
  BY DEF enable_returns, antenna_returns, disable_returns, plain_returns, search_returns,
         seek_waited, seek_returns, seek_timeout, Returned, Call, Unlock, Ok
<1> QED BY <1>1, <1>2, QueueFrame

\* A probe, a remove, or a thread that has not the lock.
LEMMA FileQueue ==
  ASSUME Start,
         \/ probe_begins \/ probe \/ probe_fails \/ remove
         \/ \E f \in Files : open(f) \/ close(f) \/ ioctl(f) \/ seek(f) \/ FileStep(f)
  PROVE  QueueInv'
<1> USE DEF Start, FmParts
<1> USE OpcodeFacts DEF driver, files, cmd, tuner, ghosts
<1>1. CASE probe \/ probe_fails \/ \E f \in Files : open(f) \/ close(f) \/ release(f)
  <2>1. UNCHANGED <<cmds, evs, rx, answer, sent, amiss, searching, found, at, op>>
        /\ UNCHANGED <<cmd_done, status>>
    BY <1>1 DEF probe, probe_fails, open, close, release
  <2> QED BY <2>1, QueueSame
<1>2. CASE \E f \in Files : ioctl(f) \/ seek(f) \/ open_locked(f) \/ release_locked(f)
  <2>1. UNCHANGED <<cmds, evs, rx, answer, sent, amiss, searching>> /\ found' \in {0, found}
    BY <1>2 DEF ioctl, seek, open_locked, release_locked
  <2>2. lock = "free" /\ at' \in {at, "cmd"}
    BY <1>2 DEF ioctl, seek, open_locked, release_locked, Acquire, Call
  <2>3. at = "none"
    BY <2>2 DEF ControlInv, HolderInv
  <2> QED BY <2>1, <2>2, <2>3, QueueFrame
<1>3. CASE probe_begins \/ remove
  <2>1. UNCHANGED <<rx, answer, sent, amiss, searching, found, at, op>>
        /\ ((cmds' = cmds /\ evs' = evs) \/ (cmds' = <<>> /\ evs' = <<>>))
    BY <1>3 DEF probe_begins, remove
  <2>2. life # "bound" \/ \A f \in Files : pc[f] = "closed"
    BY <1>3 DEF probe_begins, remove
  <2>3. \A f \in Files : pc[f] = "closed"
    BY <2>2 DEF ControlInv, ListInv
  <2>4. at = "none"
    BY <2>3 DEF ControlInv, HolderInv, ControlTypes
  <2>5. /\ EvsInv /\ RxInv /\ OrderInv /\ FlightInv
        /\ searching <= sent /\ found <= sent /\ (rx # NoAnswer => answer.id < rx.id)
    BY DEF QueueInv, OrderInv
  <2>6. CASE cmds' = cmds /\ evs' = evs
    <3>1. EvsInv' /\ RxInv' /\ StatusInv'
      BY <2>1, <2>4, <2>5, <2>6 DEF EvsInv, RxInv, StatusInv, IsAnswer
    <3>2. OrderInv'
      BY <2>1, <2>5, <2>6 DEF OrderInv, IsAnswer
    <3>3. FlightInv'
      BY <2>1, <2>4, <2>5, <2>6 DEF FlightInv, IsAnswer, Missed, This
    <3> QED BY <3>1, <3>2, <3>3 DEF QueueInv
  <2>7. CASE cmds' = <<>> /\ evs' = <<>>
    <3>1. \A i \in 1 .. Len(cmds') : FALSE
      BY <2>7
    <3>2. \A i \in 1 .. Len(evs') : FALSE
      BY <2>7
    <3>3. EvsInv' /\ RxInv' /\ StatusInv'
      BY <2>1, <2>4, <2>5, <3>2 DEF EvsInv, RxInv, StatusInv, IsAnswer
    <3>4. OrderInv'
      BY <2>1, <2>5, <3>1, <3>2 DEF OrderInv
    <3>5. FlightInv'
      BY <2>1, <2>4, <2>5, <3>1, <3>2 DEF FlightInv, Missed
    <3> QED BY <3>3, <3>4, <3>5 DEF QueueInv
  <2> QED BY <2>1, <2>6, <2>7
<1> QED BY <1>1, <1>2, <1>3 DEF FileStep

-----------------------------------------------------------------------------
(* What was given up, and what succeeded.                                  *)

\* A command that waits has not been given up yet.
LEMMA AmissStep ==
  ASSUME Start, Next
  PROVE  AmissInv'
<1> USE DEF Start, FmParts
<1>0. sent \in Nat /\ AmissInv /\ \A c \in amiss : c.id \in Nat
  BY DEF CountTypes
<1>1. CASE cmd_send
  <2>1. /\ sent' = sent + 1
        /\ \/ amiss' = amiss
           \/ at' = "error" /\ amiss' = amiss \union {This(sent + 1)}
    BY <1>1 DEF cmd_send
  <2> QED BY <1>0, <2>1 DEF AmissInv, This
<1>2. CASE cmd_waited \/ cmd_timeout
  <2>1. /\ sent' = sent /\ at' # "wait"
        /\ \/ amiss' = amiss
           \/ amiss' = amiss \union {This(sent)}
    BY <1>2 DEF cmd_waited, cmd_timeout
  <2> QED BY <1>0, <2>1 DEF AmissInv, This
<1>3. CASE \/ probe_begins \/ probe \/ probe_fails \/ remove
           \/ \E f \in Files : open(f) \/ close(f) \/ ioctl(f) \/ seek(f) \/ FileStep(f)
  <2>1. UNCHANGED <<amiss, sent>> /\ (at' = "wait" => at = "wait")
    BY <1>3 DEF probe_begins, probe, probe_fails, remove, open, close, ioctl, seek, FileStep,
                open_locked, release_locked, release, ghosts, Acquire, Call
  <2> QED BY <1>0, <2>1 DEF AmissInv
<1>4. CASE CallbackStep \/ tuner_serves \/ tuner_finds
  <2>1. UNCHANGED <<amiss, sent, at>>
    BY <1>4 DEF CallbackStep, rx_event, rx_status, rx_complete, tuner_serves, tuner_finds, ghosts
  <2> QED BY <1>0, <2>1 DEF AmissInv
<1>5. CASE \/ cmd_reinit \/ cmd_pending \/ enable_returns \/ antenna_returns \/ disable_returns
           \/ plain_returns \/ search_returns \/ seek_waited \/ seek_returns \/ seek_timeout
  <2>1. UNCHANGED <<amiss, sent>> /\ (at' = "wait" => at = "wait")
    BY <1>5 DEF cmd_reinit, cmd_pending, enable_returns, antenna_returns, disable_returns,
                plain_returns, search_returns, seek_waited, seek_returns, seek_timeout, ghosts,
                Call, Unlock
  <2> QED BY <1>0, <2>1 DEF AmissInv
<1> QED BY <1>1, <1>2, <1>3, <1>4, <1>5 DEF Next, HolderStep

\* At the send of a command nothing says yet that it succeeded.
LEMMA NoneYet ==
  ASSUME Start, cmd_send
  PROVE  /\ ~Succeeded' /\ ~Success(rx)' /\ ~Success(answer)'
         /\ \A i \in 1 .. Len(evs') : ~Success(evs[i])'
<1> USE DEF Start, FmParts
<1>1. UNCHANGED <<evs, rx, answer>> /\ sent' = sent + 1
  BY DEF cmd_send
<1>2. sent \in Nat /\ NoAnswer.id = 0 /\ EvsInv /\ RxInv
  BY OpcodeFacts DEF CountTypes, QueueInv
<1>3. ~Success(rx)' /\ ~Success(answer)'
  BY <1>1, <1>2 DEF Success, RxInv
<1>4. \A i \in 1 .. Len(evs') : ~Success(evs[i])'
  BY <1>1, <1>2 DEF Success, EvsInv
<1> QED BY <1>3, <1>4 DEF Succeeded

\* A wait that leaves nothing amiss has had a success for its answer.
LEMMA WaitedWell ==
  ASSUME Start, cmd_waited
  PROVE  Success(answer) \/ This(sent) \in amiss'
<1> USE DEF Start, FmParts
<1>1. at = "wait" /\ cmd_done > 0
      /\ (This(sent) \in amiss' \/ (answer.id = sent /\ ~answer.failed))
  BY DEF cmd_waited
<1>2. answer # NoAnswer
  BY <1>1 DEF QueueInv, RxInv
<1>3. IsAnswer(answer)
  BY <1>2 DEF QueueInv, RxInv, IsAnswer
<1> QED BY <1>1, <1>3 DEF Success

\* A call that failed left its command amiss.
LEMMA FailedAmiss ==
  ASSUME Start, at = "error", NEW S, op \in S
  PROVE  ~Confirmed(S)
<1>1. This(sent) \in amiss
  BY DEF Start, FmParts, QueueInv, FlightInv
<1>2. This(sent).op = op
  BY DEF This
<1> QED BY <1>1, <1>2 DEF Confirmed

\* The callback delivers no success that was not there.
LEMMA CallbackAnswers ==
  ASSUME Start, CallbackStep
  PROVE  Succeeded' => Succeeded
<1> USE DEF Start, FmParts
<1>1. CASE rx_event
  <2>1. /\ 1 \in 1 .. Len(evs)
        /\ \A i \in 1 .. Len(evs') : i + 1 \in 1 .. Len(evs) /\ evs'[i] = evs[i + 1]
        /\ (rx' = rx \/ rx' = evs[1]) /\ UNCHANGED <<answer, sent>>
    BY <1>1, EventTaken
  <2> QED BY <2>1 DEF Succeeded, Success, IsAnswer
<1>2. CASE rx_status
  <2>1. UNCHANGED <<evs, answer, sent>> /\ rx' = [rx EXCEPT !.kind = "done"]
        /\ rx.kind \in {"complete", "status"}
    BY <1>2 DEF rx_status, ghosts
  <2>2. rx'.id = rx.id /\ rx'.failed = rx.failed
    BY <2>1 DEF RxTypes, Event
  <2> QED BY <2>1, <2>2 DEF Succeeded, Success, IsAnswer
<1>3. CASE rx_complete
  <2>1. UNCHANGED <<evs, sent>> /\ answer' = rx /\ rx' = NoAnswer
    BY <1>3 DEF rx_complete
  <2>2. ~IsAnswer(NoAnswer)
    BY OpcodeFacts DEF IsAnswer
  <2> QED BY <2>1, <2>2 DEF Succeeded, Success, IsAnswer
<1> QED BY <1>1, <1>2, <1>3 DEF CallbackStep

\* What the tuner does with a command of S, while all of S are confirmed: it
\* is the present one, and nothing in flight is an answer to it.
LEMMA PresentServed ==
  ASSUME Start, tuner_serves, NEW S, Confirmed(S), cmds[1].op \in S
  PROVE  at = "wait" /\ cmds[1] = This(sent) /\ ~Succeeded /\ op = cmds[1].op /\ cmds[1].id = sent
<1> USE DEF Start, FmParts
<1>1. 1 \in 1 .. Len(cmds)
  BY CommandServed
<1>2. cmds[1] \notin amiss
  BY DEF Confirmed
<1>3. at = "wait" /\ cmds[1] = This(sent)
  BY <1>1, <1>2 DEF QueueInv, FlightInv
<1>4. cmds[1].id = sent /\ op = cmds[1].op
  BY <1>3 DEF This
<1>5. answer.id < cmds[1].id /\ rx.id < cmds[1].id
      /\ \A i \in 1 .. Len(evs) : evs[i].id < cmds[1].id
  BY <1>1 DEF QueueInv, OrderInv
<1>6. /\ sent \in Nat /\ answer.id \in Nat /\ rx.id \in Nat
      /\ \A i \in 1 .. Len(evs) : evs[i].id \in Nat
  BY Members DEF CountTypes, RxTypes, Event
<1>7. ~Succeeded
  BY <1>4, <1>5, <1>6 DEF Succeeded, Success
<1> QED BY <1>3, <1>4, <1>7

\* An answer of the tuner to a command of another kind than the present one
\* says nothing of the present one.
LEMMA ServedAnswers ==
  ASSUME Start, tuner_serves, at = "wait", cmds[1].op # op
  PROVE  Succeeded' => Succeeded
<1> USE DEF Start, FmParts
<1>1. 1 \in 1 .. Len(cmds) /\ UNCHANGED <<rx, answer, sent>>
  BY CommandServed DEF ghosts
<1>2. cmds[1] \in amiss
  BY <1>1 DEF QueueInv, FlightInv, This
<1>3. cmds[1].id # sent
  BY <1>2 DEF AmissInv, CountTypes
<1>4. PICK failed \in BOOLEAN, kind \in {"complete", "status", "none"} :
        evs' = IF kind = "none" THEN evs
               ELSE Append(evs, [kind |-> kind, op |-> cmds[1].op, failed |-> failed,
                                 id |-> cmds[1].id])
  BY CommandServed
<1>5. cmds[1].op \in Opcodes /\ cmds[1].id \in Nat
  BY <1>1, Members
<1> DEFINE e == [kind |-> kind, op |-> cmds[1].op, failed |-> failed, id |-> cmds[1].id]
<1>6. e \in Event /\ e.id = cmds[1].id
  BY <1>5 DEF Event
<1>7. evs' = evs \/ evs' = Append(evs, e)
  BY <1>4
<1> HIDE DEF e
<1>8. \A i \in 1 .. Len(evs') : (i \in 1 .. Len(evs) /\ evs'[i] = evs[i]) \/ evs'[i].id = cmds[1].id
  <2>1. CASE evs' = Append(evs, e)
    BY <1>6, <2>1, Appended
  <2> QED BY <1>7, <2>1
<1> QED BY <1>1, <1>3, <1>8 DEF Succeeded, Success, IsAnswer

\* The end of a search is not an answer.
LEMMA FoundAnswers ==
  ASSUME Start, tuner_finds
  PROVE  Succeeded' => Succeeded
<1> USE DEF Start, FmParts
<1> DEFINE e == [kind |-> "progress", op |-> "SEARCH", failed |-> FALSE, id |-> searching]
<1>1. evs' = Append(evs, e) /\ UNCHANGED <<rx, answer, sent>>
  BY DEF tuner_finds, ghosts
<1>2. e \in Event /\ e.kind = "progress"
  BY OpcodeFacts DEF Event, CountTypes
<1> HIDE DEF e
<1>3. \A i \in 1 .. Len(evs') : (i \in 1 .. Len(evs) /\ evs'[i] = evs[i]) \/ evs'[i] = e
  BY <1>1, <1>2, Appended
<1> QED BY <1>1, <1>2, <1>3 DEF Succeeded, Success, IsAnswer

-----------------------------------------------------------------------------
(* The receiver.                                                           *)

\* What OnInv says while the receiver's commands are all confirmed.
OnAsTold ==
  /\ \/ op = "ENABLE" /\ (at = "ok" \/ (at = "wait" /\ Succeeded))
     \/ op = "ANTENNA"
     \/ enabled /\ op # "DISABLE"
     => on
  /\ \/ op = "DISABLE" /\ (at = "ok" \/ (at = "wait" /\ Succeeded))
     \/ ~enabled /\ op \notin {"ENABLE", "ANTENNA", "DISABLE"}
     => ~on

\* The thread that holds the lock, inside wcnss_fm_cmd().
LEMMA CommandOn ==
  ASSUME Start, cmd_reinit \/ cmd_pending \/ cmd_send \/ cmd_waited \/ cmd_timeout
  PROVE  OnInv'
<1> USE DEF Start, FmParts
<1>0. UNCHANGED <<enabled, op, on>> /\ amiss \subseteq amiss'
  <2>1. UNCHANGED <<enabled, op, on>>
    BY DEF cmd_reinit, cmd_pending, cmd_send, cmd_waited, cmd_timeout, tuner
  <2>2. amiss' \in {amiss, amiss \union {This(sent)}, amiss \union {This(sent + 1)}}
    BY DEF cmd_reinit, cmd_pending, cmd_send, cmd_waited, cmd_timeout, ghosts
  <2> QED BY <2>1, <2>2
<1>1. CASE cmd_reinit \/ cmd_pending \/ cmd_timeout
  <2>1. at' # "ok" /\ at' # "wait"
    BY <1>1 DEF cmd_reinit, cmd_pending, cmd_timeout
  <2> QED BY <1>0, <2>1, OnFrame
<1>2. CASE cmd_send
  <2>1. Confirmed({"ENABLE", "DISABLE"})' => Confirmed({"ENABLE", "DISABLE"})
    BY <1>0 DEF Confirmed
  <2>2. ~Succeeded' /\ at' # "ok"
    BY <1>2, NoneYet DEF cmd_send
  <2> QED BY <1>0, <2>1, <2>2 DEF OnInv
<1>3. CASE cmd_waited
  <2>1. Confirmed({"ENABLE", "DISABLE"})' => Confirmed({"ENABLE", "DISABLE"})
    BY <1>0 DEF Confirmed
  <2>2. Confirmed({"ENABLE", "DISABLE"})' /\ op \in {"ENABLE", "DISABLE"} => Success(answer)
    <3>1. This(sent).op = op
      BY DEF This
    <3> QED BY <1>3, <3>1, WaitedWell DEF Confirmed
  <2>3. at = "wait" /\ at' # "wait"
    BY <1>3 DEF cmd_waited
  <2>4. Confirmed({"ENABLE", "DISABLE"})' /\ op \in {"ENABLE", "DISABLE"} => Succeeded
    BY <2>2 DEF Succeeded
  <2> QED BY <1>0, <2>1, <2>3, <2>4 DEF OnInv
<1> QED BY <1>1, <1>2, <1>3

\* The thread that holds the lock, outside of it.
LEMMA ReturnOn ==
  ASSUME Start,
         \/ enable_returns \/ antenna_returns \/ disable_returns \/ plain_returns
         \/ search_returns \/ seek_waited \/ seek_returns \/ seek_timeout
  PROVE  OnInv'
<1> USE DEF Start, FmParts
<1>1. UNCHANGED <<on, amiss>> /\ at' \notin {"ok", "wait"}
  BY DEF enable_returns, antenna_returns, disable_returns, plain_returns,
         search_returns, seek_waited, seek_returns, seek_timeout, tuner, ghosts, Call, Unlock
<1>2. SUFFICES ASSUME ~Overlap, Confirmed({"ENABLE", "DISABLE"})'
               PROVE  OnAsTold'
  BY DEF OnInv, OnAsTold
<1>3. Confirmed({"ENABLE", "DISABLE"})
  BY <1>1, <1>2 DEF Confirmed
<1>4. OnAsTold
  BY <1>2, <1>3 DEF OnInv, OnAsTold
<1>5. op \in {"ENABLE", "DISABLE"} => at # "error"
  BY <1>3, FailedAmiss
<1>6. CASE enable_returns
  <2>1. at = "ok" /\ op = "ENABLE" /\ op' = "ANTENNA"
    BY <1>5, <1>6 DEF enable_returns, Returned, Ok, Call
  <2> QED BY <1>1, <1>4, <2>1 DEF OnAsTold
<1>7. CASE antenna_returns
  <2>1. op = "ANTENNA" /\ op' = "none" /\ enabled'
    BY <1>7 DEF antenna_returns, Returned, Unlock
  <2> QED BY <1>1, <1>4, <2>1 DEF OnAsTold
<1>8. CASE disable_returns
  <2>1. at = "ok" /\ op = "DISABLE" /\ op' = "none" /\ ~enabled'
    BY <1>5, <1>8 DEF disable_returns, Returned, Unlock
  <2> QED BY <1>1, <1>4, <2>1 DEF OnAsTold
<1>9. CASE plain_returns \/ search_returns \/ seek_waited \/ seek_returns \/ seek_timeout
  <2>1. op \in Plain \union {"SEARCH", "CANCEL"}
    BY <1>9 DEF plain_returns, search_returns, seek_waited, seek_returns, seek_timeout, Returned,
                ControlInv, HolderInv
  <2>2. op' \in {op, "none", "CANCEL"} /\ UNCHANGED enabled
    BY <1>9 DEF plain_returns, search_returns, seek_waited, seek_returns, seek_timeout, Call, Unlock
  <2>3. op \notin {"ENABLE", "ANTENNA", "DISABLE"} /\ op' \notin {"ENABLE", "ANTENNA", "DISABLE"}
    BY <2>1, <2>2, OpcodeFacts
  <2> QED BY <1>1, <1>4, <2>2, <2>3 DEF OnAsTold
<1> QED BY <1>6, <1>7, <1>8, <1>9

\* A probe, a remove, or a thread that has not the lock.
LEMMA FileOn ==
  ASSUME Start,
         \/ probe_begins \/ probe \/ probe_fails \/ remove
         \/ \E f \in Files : open(f) \/ close(f) \/ ioctl(f) \/ seek(f) \/ FileStep(f)
  PROVE  OnInv'
<1> USE DEF Start, FmParts
<1> USE DEF driver, files, cmd, tuner, ghosts
<1>1. CASE \E f \in Files : ioctl(f) \/ seek(f) \/ open_locked(f) \/ release_locked(f)
  <2>1. lock = "free" /\ UNCHANGED <<on, enabled, amiss>>
        /\ \/ op' = op /\ at' = at
           \/ op' \in Plain \union {"SEARCH", "ENABLE", "DISABLE"} /\ at' = "cmd"
    BY <1>1 DEF ioctl, seek, open_locked, release_locked, Acquire, Call
  <2>2. at = "none" /\ op = "none"
    BY <2>1 DEF ControlInv, HolderInv
  <2>3. op' # "ANTENNA"
    BY <2>1, <2>2, OpcodeFacts
  <2>4. Confirmed({"ENABLE", "DISABLE"})' => Confirmed({"ENABLE", "DISABLE"})
    BY <2>1 DEF Confirmed
  <2> QED BY <2>1, <2>2, <2>3, <2>4 DEF OnInv
<1>2. CASE probe \/ probe_fails \/ remove \/ \E f \in Files : open(f) \/ close(f) \/ release(f)
  <2>1. UNCHANGED <<rx, answer, sent, amiss, on, enabled, op, at>>
        /\ (evs' = evs \/ evs' = <<>>)
    BY <1>2 DEF probe, probe_fails, remove, open, close, release
  <2>2. Succeeded' => Succeeded
    <3>1. \A i \in 1 .. Len(evs') : i \in 1 .. Len(evs) /\ evs'[i] = evs[i]
      BY <2>1
    <3> QED BY <2>1, <3>1 DEF Succeeded, Success, IsAnswer
  <2> QED BY <2>1, <2>2, OnFrame
<1>3. CASE probe_begins
  <2>1. UNCHANGED <<pc, amiss, on, op, at>> /\ enabled' = FALSE /\ life = "absent"
    BY <1>3 DEF probe_begins
  <2>2. \A f \in Files : pc[f] = "closed"
    BY <2>1 DEF ControlInv, ListInv
  <2>3. op = "none"
    BY <2>2 DEF ControlInv, HolderInv, ControlTypes
  <2>4. ~Overlap => ~enabled
    BY <2>2 DEF ControlInv, UsersInv
  <2>5. Confirmed({"ENABLE", "DISABLE"})' => Confirmed({"ENABLE", "DISABLE"})
    BY <2>1 DEF Confirmed
  <2> QED BY <2>1, <2>3, <2>4, <2>5 DEF OnInv
<1> QED BY <1>1, <1>2, <1>3 DEF FileStep

\* The callback and the tuner.
LEMMA TunerOn ==
  ASSUME Start, CallbackStep \/ tuner_serves \/ tuner_finds
  PROVE  OnInv'
<1> USE DEF Start, FmParts
<1>0. UNCHANGED <<enabled, op, at, amiss>>
  BY DEF CallbackStep, rx_event, rx_status, rx_complete, tuner_serves, tuner_finds, ghosts
<1>1. CASE CallbackStep \/ tuner_finds
  <2>1. UNCHANGED on
    BY <1>1 DEF CallbackStep, rx_event, rx_status, rx_complete, tuner_finds, tuner
  <2>2. Succeeded' => Succeeded
    BY <1>1, CallbackAnswers, FoundAnswers
  <2> QED BY <1>0, <2>1, <2>2, OnFrame
<1>2. CASE tuner_serves
  <2>1. SUFFICES ASSUME ~Overlap, Confirmed({"ENABLE", "DISABLE"})'
                 PROVE  OnAsTold'
    BY DEF OnInv, OnAsTold
  <2>2. Confirmed({"ENABLE", "DISABLE"})
    BY <1>0, <2>1 DEF Confirmed
  <2>3. OnAsTold
    BY <2>1, <2>2 DEF OnInv, OnAsTold
  <2>4. PICK failed \in BOOLEAN, kind \in {"complete", "status", "none"} :
          /\ IF failed THEN UNCHANGED <<on, searching>> ELSE Execute(cmds[1])
          /\ evs' = IF kind = "none" THEN evs
                    ELSE Append(evs, [kind |-> kind, op |-> cmds[1].op, failed |-> failed,
                                      id |-> cmds[1].id])
    BY <1>2, CommandServed
  <2>5. CASE cmds[1].op \in {"ENABLE", "DISABLE"}
    <3>1. at = "wait" /\ ~Succeeded /\ op = cmds[1].op
      BY <1>2, <2>2, <2>5, PresentServed
    <3>2. CASE ~failed
      <4>1. on' = (op = "ENABLE")
        BY <2>4, <2>5, <3>1, <3>2 DEF Execute
      <4> QED BY <1>0, <2>5, <3>1, <4>1 DEF OnAsTold
    <3>3. CASE failed
      <4>1. on' = on
        BY <2>4, <3>3
      <4>2. ~Succeeded'
        <5> DEFINE e == [kind |-> kind, op |-> cmds[1].op, failed |-> failed, id |-> cmds[1].id]
        <5>1. UNCHANGED <<rx, answer, sent>> /\ 1 \in 1 .. Len(cmds)
          BY <1>2, CommandServed DEF ghosts
        <5>2. cmds[1].op \in Opcodes /\ cmds[1].id \in Nat
          BY <5>1, Members
        <5>3. e \in Event /\ e.failed
          BY <3>3, <5>2 DEF Event
        <5>4. evs' = evs \/ evs' = Append(evs, e)
          BY <2>4
        <5> HIDE DEF e
        <5>5. \A i \in 1 .. Len(evs') : (i \in 1 .. Len(evs) /\ evs'[i] = evs[i]) \/ evs'[i] = e
          <6>1. CASE evs' = Append(evs, e)
            BY <5>3, <6>1, Appended
          <6> QED BY <5>4, <6>1
        <5> QED BY <3>1, <5>1, <5>3, <5>5 DEF Succeeded, Success, IsAnswer
      <4> QED BY <1>0, <2>3, <3>1, <4>1, <4>2 DEF OnAsTold
    <3> QED BY <3>2, <3>3
  <2>6. CASE cmds[1].op \notin {"ENABLE", "DISABLE"}
    <3>1. on' = on
      BY <2>4, <2>6 DEF Execute
    <3>2. at = "wait" /\ op \in {"ENABLE", "DISABLE"} => (Succeeded' => Succeeded)
      BY <1>2, <2>6, ServedAnswers
    <3> QED BY <1>0, <2>3, <3>1, <3>2 DEF OnAsTold
  <2> QED BY <2>5, <2>6
<1> QED BY <1>1, <1>2

-----------------------------------------------------------------------------
(* The searches.                                                           *)

\* The numbers a search may have, and that all of them are numbers.
LEMMA Numbers ==
  ASSUME Start
  PROVE  /\ sent \in Nat /\ searching \in Nat /\ found \in Nat /\ Len(evs) \in Nat
         /\ \A i \in 1 .. Len(evs) : evs[i].id \in Nat
         /\ op \notin {"SEARCH", "CANCEL"} \/ at \in {"none", "error", "found"}
            \/ (op = "SEARCH" /\ at \in {"cmd", "reset", "send"})
            \/ (op = "CANCEL" /\ at \in {"ok", "seek"})
            => \A n \in Nat : ~Current(n)
BY Members DEF Start, FmParts, CountTypes, Current

\* The thread that holds the lock, inside wcnss_fm_cmd().
LEMMA CommandSearch ==
  ASSUME Start, cmd_reinit \/ cmd_pending \/ cmd_send \/ cmd_waited \/ cmd_timeout
  PROVE  SearchInv'
<1> USE DEF Start, FmParts
<1>0. /\ UNCHANGED <<searching, evs, op, seek_done, found>>
      /\ amiss' \in {amiss, amiss \union {This(sent)}, amiss \union {This(sent + 1)}}
  BY DEF cmd_reinit, cmd_pending, cmd_send, cmd_waited, cmd_timeout, tuner, ghosts
<1>1. Confirmed({"SEARCH", "CANCEL"})' => Confirmed({"SEARCH", "CANCEL"})
  BY <1>0 DEF Confirmed
<1>2. \A n : This(n).op = op
  BY DEF This
<1>3. \A i \in 1 .. Len(evs) : evs'[i] = evs[i] /\ (Progress(i)' <=> Progress(i))
  BY <1>0 DEF Progress
<1>4. at' # "found"
  BY DEF cmd_reinit, cmd_pending, cmd_send, cmd_waited, cmd_timeout
<1>5. CASE op \notin {"SEARCH", "CANCEL"}
  <2>1. \A n \in Nat : ~Current(n)
    BY <1>5, Numbers
  <2> QED BY <1>0, <1>4, <1>5, <2>1, Numbers, SearchFrame
<1>6. CASE op = "SEARCH" /\ at \in {"cmd", "reset"}
  <2>1. \A n \in Nat : ~Current(n)
    BY <1>6, Numbers
  <2>2. at' \in {"reset", "send"}
    BY <1>6 DEF cmd_reinit, cmd_pending, cmd_send, cmd_waited, cmd_timeout
  <2>3. Confirmed({"SEARCH", "CANCEL"}) => searching = 0 /\ \A i \in 1 .. Len(evs) : ~Progress(i)
    BY <2>1, Numbers DEF SearchInv
  <2>4. Confirmed({"SEARCH", "CANCEL"}) => seek_done = 0 /\ found = 0
    BY <1>6 DEF SearchInv
  <2> QED BY <1>0, <1>1, <1>3, <1>6, <2>2, <2>3, <2>4 DEF SearchInv
<1>7. CASE op = "CANCEL" /\ at \in {"cmd", "reset"}
  <2>1. at' \in {"reset", "send"} /\ UNCHANGED sent
    BY <1>7 DEF cmd_reinit, cmd_pending, cmd_send, cmd_waited, cmd_timeout, ghosts
  <2>2. \A n : Current(n)' <=> Current(n)
    BY <1>0, <1>7, <2>1 DEF Current
  <2> QED BY <1>0, <1>1, <1>3, <1>7, <2>1, <2>2 DEF SearchInv
<1>8. CASE op \in {"SEARCH", "CANCEL"} /\ cmd_send
  <2>1. SUFFICES ASSUME Confirmed({"SEARCH", "CANCEL"})' PROVE SearchInv'
    BY DEF SearchInv
  <2>2. at' = "wait" /\ sent' = sent + 1 /\ at = "send"
    <3>1. /\ at = "send" /\ sent' = sent + 1
          /\ at' = "wait" \/ This(sent + 1) \in amiss'
      BY <1>8 DEF cmd_send
    <3> QED BY <1>2, <1>8, <2>1, <3>1 DEF Confirmed
  <2>3. CASE op = "SEARCH"
    <3>1. \A n \in Nat : ~Current(n)
      BY <2>2, <2>3, Numbers
    <3>2. searching = 0 /\ \A i \in 1 .. Len(evs) : ~Progress(i)
      BY <1>1, <2>1, <3>1, Numbers DEF SearchInv
    <3>3. seek_done = 0
      BY <1>1, <2>1, <2>2, <2>3 DEF SearchInv
    <3> QED BY <1>0, <1>3, <2>2, <2>3, <3>2, <3>3 DEF SearchInv
  <2>4. CASE op = "CANCEL"
    <3>1. \A n \in Nat : Current(n) => Current(n)'
      BY <1>0, <2>2, <2>4, Numbers DEF Current
    <3>2. ~Succeeded' /\ ~Success(rx)' /\ ~Success(answer)'
          /\ \A i \in 1 .. Len(evs') : ~Success(evs[i])'
      BY <1>8, NoneYet
    <3>3. searching' # 0 => Current(searching)' /\ \A i \in 1 .. Len(evs') : ~Progress(i)'
      BY <1>0, <1>1, <1>3, <2>1, <3>1, Numbers DEF SearchInv
    <3>4. \A i \in 1 .. Len(evs') : Progress(i)' => Current(evs[i].id)'
                                    /\ \A j \in 1 .. Len(evs') : Progress(j)' => j = i
      BY <1>0, <1>1, <1>3, <2>1, <3>1, Numbers DEF SearchInv
    <3> QED BY <1>0, <2>2, <2>4, <3>2, <3>3, <3>4 DEF SearchInv
  <2> QED BY <1>8, <2>3, <2>4
<1>9. CASE op \in {"SEARCH", "CANCEL"} /\ cmd_waited
  <2>1. SUFFICES ASSUME Confirmed({"SEARCH", "CANCEL"})' PROVE SearchInv'
    BY DEF SearchInv
  <2>2. This(sent) \notin amiss'
    BY <1>2, <1>9, <2>1 DEF Confirmed
  <2>3. Success(answer)
    BY <1>9, <2>2, WaitedWell
  <2>4. at = "wait" /\ at' = "ok" /\ UNCHANGED sent
    BY <1>9, <2>2 DEF cmd_waited
  <2>5. CASE op = "SEARCH"
    <3>1. \A n \in Nat : Current(n) => Current(n)'
      BY <1>0, <2>4, <2>5 DEF Current
    <3>2. searching' # 0 => /\ Current(searching)' /\ \A i \in 1 .. Len(evs') : ~Progress(i)'
                            /\ found' # sent'
      BY <1>0, <1>1, <1>3, <2>1, <2>4, <2>5, <3>1, Numbers DEF SearchInv
    <3>3. \A i \in 1 .. Len(evs') : Progress(i)' => /\ Current(evs[i].id)' /\ found' # sent'
                                                    /\ \A j \in 1 .. Len(evs') : Progress(j)' => j = i
      BY <1>0, <1>1, <1>3, <2>1, <2>4, <2>5, <3>1, Numbers DEF SearchInv
    <3>4. seek_done' > 0 => found' = sent'
      BY <1>0, <1>1, <2>1, <2>4, <2>5 DEF SearchInv
    <3> QED BY <1>0, <2>4, <2>5, <3>2, <3>3, <3>4 DEF SearchInv
  <2>6. CASE op = "CANCEL"
    <3>1. searching = 0 /\ \A i \in 1 .. Len(evs) : ~Progress(i)
      BY <1>1, <2>1, <2>3, <2>4, <2>6 DEF SearchInv, Succeeded
    <3> QED BY <1>0, <1>3, <2>4, <2>6, <3>1 DEF SearchInv
  <2> QED BY <1>9, <2>5, <2>6
<1>10. CASE op \in {"SEARCH", "CANCEL"} /\ cmd_timeout
  <2>1. This(sent) \in amiss'
    BY <1>10 DEF cmd_timeout
  <2> QED BY <1>2, <1>10, <2>1 DEF SearchInv, Confirmed
<1> QED BY <1>5, <1>6, <1>7, <1>8, <1>9, <1>10 DEF cmd_reinit, cmd_pending

\* The thread that holds the lock, outside of it.
LEMMA ReturnSearch ==
  ASSUME Start,
         \/ enable_returns \/ antenna_returns \/ disable_returns \/ plain_returns
         \/ search_returns \/ seek_waited \/ seek_returns \/ seek_timeout
  PROVE  SearchInv'
<1> USE DEF Start, FmParts
<1>0. UNCHANGED <<searching, evs, amiss, sent, rx, answer>>
  BY DEF enable_returns, antenna_returns, disable_returns, plain_returns,
         search_returns, seek_waited, seek_returns, seek_timeout, tuner, ghosts
<1>1. Confirmed({"SEARCH", "CANCEL"})' => Confirmed({"SEARCH", "CANCEL"})
  BY <1>0 DEF Confirmed
<1>3. \A i : Progress(i)' <=> Progress(i)
  BY <1>0 DEF Progress
<1>5. CASE enable_returns \/ antenna_returns \/ disable_returns \/ plain_returns
  <2>1. /\ op' # "SEARCH" /\ at' # "found"
        /\ op \in {"ENABLE", "ANTENNA", "DISABLE", "CANCEL"} \union Plain
        /\ at \in {"ok", "error"}
    BY <1>5 DEF enable_returns, antenna_returns, disable_returns, plain_returns, Returned, Call, Unlock
  <2>2. \A n \in Nat : ~Current(n)
    BY <2>1, Numbers, OpcodeFacts
  <2> QED BY <1>0, <2>1, <2>2, Numbers, SearchFrame
<1>6. CASE search_returns
  <2>1. CASE Ok
    <3>1. UNCHANGED <<op, seek_done, found>> /\ op = "SEARCH" /\ at = "ok" /\ at' = "seek"
      BY <1>6, <2>1 DEF search_returns, Returned, Ok, ghosts
    <3>2. \A n : Current(n)' <=> Current(n)
      BY <1>0, <3>1 DEF Current
    <3> QED BY <1>0, <1>1, <1>3, <3>1, <3>2 DEF SearchInv
  <2>2. CASE ~Ok
    <3>1. at = "error" /\ op = "SEARCH"
      BY <1>6, <2>2 DEF search_returns, Returned, Ok
    <3>2. ~Confirmed({"SEARCH", "CANCEL"})
      BY <3>1, FailedAmiss
    <3> QED BY <1>1, <3>2 DEF SearchInv
  <2> QED BY <2>1, <2>2
<1>7. CASE seek_waited
  <2>1. UNCHANGED <<op, found>> /\ at = "seek" /\ at' = "found" /\ seek_done > 0
    BY <1>7 DEF seek_waited, ghosts
  <2>2. op = "SEARCH"
    BY <2>1 DEF ControlInv, HolderInv
  <2>3. Confirmed({"SEARCH", "CANCEL"}) =>
          found = sent /\ searching = 0 /\ \A i \in 1 .. Len(evs) : ~Progress(i)
    BY <2>1, <2>2 DEF SearchInv
  <2> QED BY <1>0, <1>1, <1>3, <2>1, <2>3 DEF SearchInv
<1>8. CASE seek_returns
  <2>1. at = "found" /\ at' = "none" /\ op' = "none"
    BY <1>8 DEF seek_returns, Unlock
  <2>2. \A n \in Nat : ~Current(n)
    BY <2>1, Numbers
  <2> QED BY <1>0, <2>1, <2>2, Numbers, SearchFrame
<1>9. CASE seek_timeout
  <2>1. at = "seek" /\ at' = "cmd" /\ op' = "CANCEL" /\ UNCHANGED <<found, seek_done>>
    BY <1>9 DEF seek_timeout, Call, ghosts
  <2>2. op = "SEARCH"
    BY <2>1 DEF ControlInv, HolderInv
  <2>3. \A n : Current(n)' <=> Current(n)
    BY <1>0, <2>1, <2>2 DEF Current
  <2> QED BY <1>0, <1>1, <1>3, <2>1, <2>3 DEF SearchInv
<1> QED BY <1>5, <1>6, <1>7, <1>8, <1>9

\* A probe, a remove, or a thread that has not the lock.
LEMMA FileSearch ==
  ASSUME Start,
         \/ probe_begins \/ probe \/ probe_fails \/ remove
         \/ \E f \in Files : open(f) \/ close(f) \/ ioctl(f) \/ seek(f) \/ FileStep(f)
  PROVE  SearchInv'
<1> USE DEF Start, FmParts
<1> USE DEF driver, files, cmd, tuner, ghosts
<1>1. CASE probe \/ probe_fails \/ \E f \in Files : open(f) \/ close(f) \/ release(f)
  <2>1. UNCHANGED <<evs, rx, answer, sent, amiss, searching, found, at, op, seek_done>>
    BY <1>1 DEF probe, probe_fails, open, close, release
  <2> QED BY <2>1, SearchSame
<1>2. CASE \E f \in Files : ioctl(f) \/ seek(f) \/ open_locked(f) \/ release_locked(f)
  <2>1. lock = "free" /\ UNCHANGED <<evs, searching, amiss>> /\ at' \in {at, "cmd"}
        /\ \/ op' \in {op, "ENABLE", "DISABLE"} \union Plain
           \/ op' = "SEARCH" /\ at' = "cmd" /\ seek_done' = 0 /\ found' = 0
    BY <1>2 DEF ioctl, seek, open_locked, release_locked, Acquire, Call
  <2>2. at = "none" /\ op = "none"
    BY <2>1 DEF ControlInv, HolderInv
  <2>3. \A n \in Nat : ~Current(n)
    BY <2>2, Numbers
  <2>4. op' = "SEARCH" => at' = "cmd" /\ seek_done' = 0 /\ found' = 0
    BY <2>1, <2>2, OpcodeFacts
  <2> QED BY <2>1, <2>2, <2>3, <2>4, Numbers, SearchFrame
<1>3. CASE probe_begins \/ remove
  <2>1. UNCHANGED <<amiss, searching, op, at>> /\ (evs' = evs \/ evs' = <<>>)
        /\ (life # "bound" \/ \A f \in Files : pc[f] = "closed")
    BY <1>3 DEF probe_begins, remove
  <2>2. \A f \in Files : pc[f] = "closed"
    BY <2>1 DEF ControlInv, ListInv
  <2>3. op = "none" /\ at = "none"
    BY <2>2 DEF ControlInv, HolderInv, ControlTypes
  <2>4. \A n \in Nat : ~Current(n)
    BY <2>3, Numbers
  <2>5. evs' = evs \/ Len(evs') = 0
    BY <2>1
  <2> QED BY <2>1, <2>3, <2>4, <2>5, Numbers, SearchFrame
<1> QED BY <1>1, <1>2, <1>3 DEF FileStep

\* The callback.
LEMMA CallbackSearch ==
  ASSUME Start, CallbackStep
  PROVE  SearchInv'
<1> USE DEF Start, FmParts
<1>0. UNCHANGED <<searching, op, at, amiss, sent>>
  BY DEF CallbackStep, rx_event, rx_status, rx_complete, tuner, ghosts
<1>1. \A n : Current(n)' <=> Current(n)
  BY <1>0 DEF Current
<1>2. Succeeded' => Succeeded
  BY CallbackAnswers
<1>3. Confirmed({"SEARCH", "CANCEL"})' <=> Confirmed({"SEARCH", "CANCEL"})
  BY <1>0 DEF Confirmed
<1>4. CASE rx_event
  <2>1. 1 \in 1 .. Len(evs)
        /\ \A i \in 1 .. Len(evs') : i + 1 \in 1 .. Len(evs) /\ evs'[i] = evs[i + 1]
    BY <1>4, EventTaken
  <2>2. answer' = answer /\ Len(evs) \in Nat \ {0} /\ Len(evs') = Len(evs) - 1
    BY <1>4, EventTaken
  <2>3. \/ /\ evs[1].kind = "progress" /\ seek_done' = seek_done + 1
           /\ found' = evs[1].id /\ rx' = rx
        \/ /\ evs[1].kind # "progress" /\ UNCHANGED <<seek_done, found>>
           /\ rx' = rx \/ rx' = evs[1]
    BY <1>4, EventTaken
  <2>4. \A i \in 1 .. Len(evs') : Progress(i)' <=> Progress(i + 1)
    BY <2>1 DEF Progress
  <2>5. SUFFICES ASSUME Confirmed({"SEARCH", "CANCEL"}) PROVE SearchInv'
    BY <1>3 DEF SearchInv
  <2>6. CASE evs[1].kind = "progress" /\ found' = evs[1].id
    <3>1. Progress(1)
      BY <2>6 DEF Progress
    <3>2. Current(evs[1].id) /\ searching = 0
      BY <2>1, <2>5, <3>1 DEF SearchInv
    <3>3. \A i \in 1 .. Len(evs') : ~Progress(i)'
      <4>1. \A i \in 1 .. Len(evs) : Progress(i) => i = 1
        BY <2>1, <2>5, <3>1 DEF SearchInv
      <4> QED BY <2>1, <2>2, <2>4, <4>1
    <3>4. at # "found" /\ (op = "SEARCH" => at \in {"wait", "ok", "seek"} /\ evs[1].id = sent)
      <4>1. at = "found" => op = "SEARCH"
        BY DEF ControlInv, HolderInv
      <4> QED BY <3>2, <4>1 DEF Current
    <3> QED BY <1>0, <2>6, <3>2, <3>3, <3>4 DEF SearchInv
  <2>7. CASE UNCHANGED <<seek_done, found>> /\ (rx' = rx \/ rx' = evs[1])
    <3>1. searching' # 0 => /\ Current(searching)' /\ \A i \in 1 .. Len(evs') : ~Progress(i)'
                            /\ op' = "SEARCH" => found' # sent'
                            /\ op' = "CANCEL" /\ at' = "wait" => ~Succeeded'
      BY <1>0, <1>1, <1>2, <2>1, <2>4, <2>5, <2>7 DEF SearchInv
    <3>2. ASSUME NEW i \in 1 .. Len(evs'), Progress(i)'
          PROVE  /\ Current(evs[i].id)'
                 /\ op' = "SEARCH" => found' # sent'
                 /\ \A j \in 1 .. Len(evs') : Progress(j)' => j = i
                 /\ op' = "CANCEL" /\ at' = "wait" =>
                      /\ ~Success(rx)' /\ ~Success(answer)'
                      /\ \A j \in 1 .. Len(evs') : Success(evs[j])' => i < j
      <4>1. i + 1 \in 1 .. Len(evs) /\ evs'[i] = evs[i + 1] /\ Progress(i + 1)
        BY <2>1, <2>4, <3>2
      <4>2. /\ Current(evs[i + 1].id) /\ (op = "SEARCH" => found # sent)
            /\ \A j \in 1 .. Len(evs) : Progress(j) => j = i + 1
            /\ op = "CANCEL" /\ at = "wait" =>
                 /\ ~Success(rx) /\ ~Success(answer)
                 /\ \A j \in 1 .. Len(evs) : Success(evs[j]) => i + 1 < j
        BY <2>5, <4>1 DEF SearchInv
      <4>3. \A j \in 1 .. Len(evs') : Progress(j)' => j = i
        BY <2>1, <2>2, <2>4, <4>2
      <4>4. ASSUME op = "CANCEL", at = "wait"
            PROVE  ~Success(rx)' /\ ~Success(answer)'
                   /\ \A j \in 1 .. Len(evs') : Success(evs[j])' => i < j
        <5>1. ~Success(answer)'
          BY <1>0, <2>2, <4>2, <4>4 DEF Success, IsAnswer
        <5>2. ~Success(evs[1])
          BY <2>1, <2>2, <4>2, <4>4
        <5>3. ~Success(rx)'
          BY <1>0, <2>7, <4>2, <4>4, <5>2 DEF Success, IsAnswer
        <5>4. ASSUME NEW j \in 1 .. Len(evs'), Success(evs[j])' PROVE i < j
          <6>1. Success(evs[j + 1])
            BY <1>0, <2>1, <5>4 DEF Success, IsAnswer
          <6>2. i + 1 < j + 1
            BY <2>1, <4>2, <4>4, <6>1
          <6> QED BY <2>2, <6>2
        <5> QED BY <5>1, <5>3, <5>4
      <4> QED BY <1>0, <1>1, <2>7, <4>1, <4>2, <4>3, <4>4
    <3>3. /\ op' = "SEARCH" /\ at' \in {"cmd", "reset", "send"} => seek_done' = 0 /\ found' = 0
          /\ op' = "SEARCH" /\ at' \in {"wait", "ok", "seek"} /\ seek_done' > 0 => found' = sent'
          /\ at' = "found" => found' = sent'
      BY <1>0, <2>5, <2>7 DEF SearchInv
    <3> HIDE DEF Start, FmParts
    <3> QED BY <3>1, <3>2, <3>3 DEF SearchInv
  <2> QED BY <2>3, <2>6, <2>7
<1>5. CASE rx_status \/ rx_complete
  <2>1. UNCHANGED <<evs, found, seek_done>>
    BY <1>5 DEF rx_status, rx_complete, ghosts
  <2>2. \A i : Progress(i)' <=> Progress(i)
    BY <2>1 DEF Progress
  <2>3. \A i : Success(evs[i])' <=> Success(evs[i])
    BY <1>0, <2>1 DEF Success, IsAnswer
  <2>4. Success(rx)' \/ Success(answer)' => Success(rx) \/ Success(answer)
    <3>1. CASE rx_status
      <4>1. UNCHANGED answer /\ rx' = [rx EXCEPT !.kind = "done"]
            /\ rx.kind \in {"complete", "status"}
        BY <3>1 DEF rx_status, ghosts
      <4>2. rx'.id = rx.id /\ rx'.failed = rx.failed
        BY <4>1 DEF RxTypes, Event
      <4> QED BY <1>0, <4>1, <4>2 DEF Success, IsAnswer
    <3>2. CASE rx_complete
      <4>1. answer' = rx /\ rx' = NoAnswer
        BY <3>2 DEF rx_complete
      <4> QED BY <1>0, <4>1, OpcodeFacts DEF Success, IsAnswer
    <3> QED BY <1>5, <3>1, <3>2
  <2> HIDE DEF Start, FmParts
  <2>5. SearchInv
    BY DEF Start, FmParts
  <2>6. SUFFICES ASSUME Confirmed({"SEARCH", "CANCEL"}) PROVE SearchInv'
    BY <1>3 DEF SearchInv
  <2>7. searching' # 0 => /\ Current(searching)' /\ \A i \in 1 .. Len(evs') : ~Progress(i)'
                          /\ op' = "SEARCH" => found' # sent'
                          /\ op' = "CANCEL" /\ at' = "wait" => ~Succeeded'
    BY <1>0, <1>1, <1>2, <2>1, <2>2, <2>5, <2>6 DEF SearchInv
  <2>8. ASSUME NEW i \in 1 .. Len(evs'), Progress(i)'
        PROVE  /\ Current(evs[i].id)'
               /\ op' = "SEARCH" => found' # sent'
               /\ \A j \in 1 .. Len(evs') : Progress(j)' => j = i
               /\ op' = "CANCEL" /\ at' = "wait" =>
                    /\ ~Success(rx)' /\ ~Success(answer)'
                    /\ \A j \in 1 .. Len(evs') : Success(evs[j])' => i < j
    BY <1>0, <1>1, <2>1, <2>2, <2>3, <2>4, <2>5, <2>6, <2>8 DEF SearchInv
  <2>9. /\ op' = "SEARCH" /\ at' \in {"cmd", "reset", "send"} => seek_done' = 0 /\ found' = 0
        /\ op' = "SEARCH" /\ at' \in {"wait", "ok", "seek"} /\ seek_done' > 0 => found' = sent'
        /\ at' = "found" => found' = sent'
    BY <1>0, <2>1, <2>5, <2>6 DEF SearchInv
  <2> QED BY <2>7, <2>8, <2>9 DEF SearchInv
<1> QED BY <1>4, <1>5 DEF CallbackStep

\* The tuner.
LEMMA TunerSearch ==
  ASSUME Start, tuner_serves \/ tuner_finds
  PROVE  SearchInv'
<1> USE DEF Start, FmParts
<1>0. UNCHANGED <<op, at, amiss, sent, found, rx, answer, seek_done>>
  BY DEF tuner_serves, tuner_finds, ghosts
<1>1. \A n : Current(n)' <=> Current(n)
  BY <1>0 DEF Current
<1>2. Success(rx)' = Success(rx) /\ Success(answer)' = Success(answer)
  BY <1>0 DEF Success, IsAnswer
<1>3. SUFFICES ASSUME Confirmed({"SEARCH", "CANCEL"}) PROVE SearchInv'
  BY <1>0 DEF SearchInv, Confirmed
<1>4. /\ op' = "SEARCH" /\ at' \in {"cmd", "reset", "send"} => seek_done' = 0 /\ found' = 0
      /\ op' = "SEARCH" /\ at' \in {"wait", "ok", "seek"} /\ seek_done' > 0 => found' = sent'
      /\ at' = "found" => found' = sent'
  BY <1>0, <1>3 DEF SearchInv
<1>5. Len(evs) \in Nat
  BY Numbers
<1>6. CASE tuner_serves
  <2>1. PICK failed \in BOOLEAN, kind \in {"complete", "status", "none"} :
          /\ IF failed THEN UNCHANGED <<on, searching>> ELSE Execute(cmds[1])
          /\ evs' = IF kind = "none" THEN evs
                    ELSE Append(evs, [kind |-> kind, op |-> cmds[1].op, failed |-> failed,
                                      id |-> cmds[1].id])
    BY <1>6, CommandServed
  <2> DEFINE e == [kind |-> kind, op |-> cmds[1].op, failed |-> failed, id |-> cmds[1].id]
  <2>2. 1 \in 1 .. Len(cmds)
    BY <1>6, CommandServed
  <2>3. cmds[1].op \in Opcodes /\ cmds[1].id \in Nat
    BY <2>2, Members
  <2>4. (e \in Event /\ e.kind # "progress") \/ kind = "none"
    BY <2>3 DEF Event
  <2>5. evs' = evs \/ (kind # "none" /\ evs' = Append(evs, e))
    BY <2>1
  <2>6. /\ \A i \in 1 .. Len(evs') : (i \in 1 .. Len(evs) /\ evs'[i] = evs[i])
                                     \/ (i = Len(evs) + 1 /\ evs'[i] = e /\ kind # "none")
        /\ \A i \in 1 .. Len(evs) : evs'[i] = evs[i] /\ i \in 1 .. Len(evs')
    <3> HIDE DEF e
    <3>1. CASE kind # "none" /\ evs' = Append(evs, e)
      BY <2>4, <3>1, Appended
    <3> QED BY <2>5, <3>1
  <2>7. \A i \in 1 .. Len(evs') : Progress(i)' => i \in 1 .. Len(evs) /\ Progress(i)
    <3> HIDE DEF e
    <3> QED BY <2>4, <2>6 DEF Progress
  <2>8. ASSUME NEW i \in 1 .. Len(evs'), Progress(i)'
        PROVE  /\ Current(evs[i].id)'
               /\ op' = "SEARCH" => found' # sent'
               /\ \A j \in 1 .. Len(evs') : Progress(j)' => j = i
               /\ op' = "CANCEL" /\ at' = "wait" =>
                    /\ ~Success(rx)' /\ ~Success(answer)'
                    /\ \A j \in 1 .. Len(evs') : Success(evs[j])' => i < j
    <3> HIDE DEF e
    <3>1. i \in 1 .. Len(evs) /\ Progress(i) /\ evs'[i] = evs[i]
      BY <2>6, <2>7, <2>8
    <3>2. /\ Current(evs[i].id) /\ (op = "SEARCH" => found # sent)
          /\ \A j \in 1 .. Len(evs) : Progress(j) => j = i
          /\ op = "CANCEL" /\ at = "wait" =>
               /\ ~Success(rx) /\ ~Success(answer)
               /\ \A j \in 1 .. Len(evs) : Success(evs[j]) => i < j
      BY <1>3, <3>1 DEF SearchInv
    <3>3. \A j \in 1 .. Len(evs') : Progress(j)' => j = i
      BY <2>7, <3>2
    <3>4. ASSUME op = "CANCEL", at = "wait", NEW j \in 1 .. Len(evs'), Success(evs[j])'
          PROVE  i < j
      <4>1. CASE j \in 1 .. Len(evs) /\ evs'[j] = evs[j]
        <5>1. Success(evs[j])
          BY <1>0, <3>4, <4>1 DEF Success, IsAnswer
        <5> QED BY <3>2, <3>4, <4>1, <5>1
      <4>2. CASE j = Len(evs) + 1
        BY <1>5, <3>1, <4>2
      <4> QED BY <2>6, <4>1, <4>2
    <3>5. op = "CANCEL" /\ at = "wait" => ~Success(rx)' /\ ~Success(answer)'
      BY <1>2, <3>2
    <3> QED BY <1>0, <1>1, <3>1, <3>2, <3>3, <3>4, <3>5
  <2>9. ASSUME searching' # 0
        PROVE  /\ Current(searching)' /\ \A i \in 1 .. Len(evs') : ~Progress(i)'
               /\ op' = "SEARCH" => found' # sent'
               /\ op' = "CANCEL" /\ at' = "wait" => ~Succeeded'
    <3> HIDE DEF e
    <3>1. CASE cmds[1].op = "SEARCH"
      <4>1. at = "wait" /\ op = "SEARCH" /\ cmds[1].id = sent
        BY <1>3, <1>6, <3>1, PresentServed
      <4>2. searching' = searching \/ searching' = sent
        BY <2>1, <3>1, <4>1 DEF Execute
      <4>3. searching < sent /\ found < sent /\ \A i \in 1 .. Len(evs) : evs[i].id < sent
        BY <2>2, <4>1 DEF QueueInv, OrderInv
      <4>4. sent \in Nat /\ searching \in Nat /\ found \in Nat
            /\ \A i \in 1 .. Len(evs) : evs[i].id \in Nat
        BY Numbers
      <4>5. searching = 0
        BY <1>3, <4>1, <4>3, <4>4 DEF SearchInv, Current
      <4>6. searching' = sent
        BY <2>9, <4>2, <4>5
      <4>7. Current(sent)
        BY <4>1 DEF Current
      <4>8. \A i \in 1 .. Len(evs) : ~Progress(i)
        BY <1>3, <4>1, <4>3, <4>4 DEF SearchInv, Current
      <4> QED BY <1>0, <1>1, <2>7, <4>1, <4>3, <4>4, <4>6, <4>7, <4>8
    <3>2. CASE cmds[1].op # "SEARCH"
      <4>1. searching' = searching
        BY <2>1, <2>9, <3>2 DEF Execute
      <4>2. /\ Current(searching) /\ \A i \in 1 .. Len(evs) : ~Progress(i)
            /\ op = "SEARCH" => found # sent
            /\ op = "CANCEL" /\ at = "wait" => ~Succeeded
        BY <1>3, <2>9, <4>1 DEF SearchInv
      <4>3. ASSUME op = "CANCEL", at = "wait" PROVE ~Succeeded'
        <5>1. CASE cmds[1].op = "CANCEL"
          <6>1. failed
            BY <2>1, <2>9, <5>1 DEF Execute
          <6>2. kind # "none" => e.failed
            BY <6>1 DEF e
          <6> QED BY <1>0, <2>6, <4>2, <4>3, <6>2 DEF Succeeded, Success, IsAnswer
        <5>2. CASE cmds[1].op # "CANCEL"
          BY <1>6, <4>2, <4>3, <5>2, ServedAnswers
        <5> QED BY <5>1, <5>2
      <4> QED BY <1>0, <1>1, <2>7, <4>1, <4>2, <4>3
    <3> QED BY <3>1, <3>2
  <2> HIDE DEF e, Start, FmParts
  <2> QED BY <1>4, <2>8, <2>9 DEF SearchInv
<1>7. CASE tuner_finds
  <2> DEFINE e == [kind |-> "progress", op |-> "SEARCH", failed |-> FALSE, id |-> searching]
  <2>1. evs' = Append(evs, e) /\ searching # 0 /\ searching' = 0
    BY <1>7 DEF tuner_finds
  <2>2. e \in Event /\ e.kind = "progress" /\ e.id = searching
    BY OpcodeFacts DEF Event, CountTypes
  <2> HIDE DEF e
  <2>3. /\ Current(searching) /\ \A i \in 1 .. Len(evs) : ~Progress(i)
        /\ op = "SEARCH" => found # sent
        /\ op = "CANCEL" /\ at = "wait" => ~Succeeded
    BY <1>3, <2>1 DEF SearchInv
  <2>4. \A i \in 1 .. Len(evs') : (i \in 1 .. Len(evs) /\ evs'[i] = evs[i])
                                  \/ (i = Len(evs) + 1 /\ evs'[i] = e)
    BY <2>1, <2>2, Appended
  <2>5. ASSUME NEW i \in 1 .. Len(evs'), Progress(i)'
        PROVE  i = Len(evs) + 1 /\ evs'[i] = e
    BY <2>3, <2>4, <2>5 DEF Progress
  <2>6. op = "CANCEL" /\ at = "wait" =>
          /\ ~Success(rx)' /\ ~Success(answer)'
          /\ \A j \in 1 .. Len(evs') : ~Success(evs[j])'
    <3>1. \A j \in 1 .. Len(evs') : Success(evs[j])' => j \in 1 .. Len(evs) /\ Success(evs[j])
      BY <1>0, <2>2, <2>4 DEF Success, IsAnswer
    <3> QED BY <1>2, <2>3, <3>1 DEF Succeeded
  <2>7. ASSUME NEW i \in 1 .. Len(evs'), Progress(i)'
        PROVE  /\ Current(evs[i].id)'
               /\ op' = "SEARCH" => found' # sent'
               /\ \A j \in 1 .. Len(evs') : Progress(j)' => j = i
               /\ op' = "CANCEL" /\ at' = "wait" =>
                    /\ ~Success(rx)' /\ ~Success(answer)'
                    /\ \A j \in 1 .. Len(evs') : Success(evs[j])' => i < j
    <3>1. evs'[i].id = searching
      BY <2>2, <2>5, <2>7
    <3>2. \A j \in 1 .. Len(evs') : Progress(j)' => j = i
      BY <2>5, <2>7
    <3> QED BY <1>0, <1>1, <2>3, <2>6, <3>1, <3>2
  <2> HIDE DEF Start, FmParts
  <2> QED BY <1>4, <2>1, <2>7 DEF SearchInv
<1> QED BY <1>6, <1>7

-----------------------------------------------------------------------------
(* The theorems.                                                           *)

\* Before the first probe.
LEMMA FmInit ==
  ASSUME Init, ConstAssumption PROVE FmInv
<1> USE OpcodeFacts DEF Init
<1>1. \A i \in 1 .. Len(cmds) : FALSE
  OBVIOUS
<1>2. \A i \in 1 .. Len(evs) : FALSE
  OBVIOUS
<1>3. ControlTypes
  BY DEF ControlTypes, Ats
<1>4. CountTypes
  <2>1. status \in BOOLEAN /\ on \in BOOLEAN
    OBVIOUS
  <2> QED BY <2>1 DEF CountTypes
<1>5. RxTypes /\ QueueTypes
  BY DEF RxTypes, QueueTypes
<1>6. ControlInv
  BY DEF ControlInv, HolderInv, ListInv, UsersInv, Between
<1>7. QueueInv
  BY <1>1, <1>2 DEF QueueInv, EvsInv, RxInv, OrderInv, FlightInv, StatusInv
<1>8. AmissInv /\ SearchInv
  BY <1>2 DEF AmissInv, SearchInv
<1>9. OnInv
  BY DEF OnInv
<1> QED BY <1>3, <1>4, <1>5, <1>6, <1>7, <1>8, <1>9, Parts DEF FmParts

\* The same parts after a step.
LEMMA PartsNext == FmParts' => FmInv'
BY DEF FmInv, FmParts, ControlInv, QueueInv, TypeOK, ControlTypes, CountTypes, RxTypes, QueueTypes,
       Ats

\* Every step keeps the invariant.
LEMMA FmStep ==
  ASSUME FmInv, [Next]_vars, ConstAssumption PROVE FmInv'
<1>1. CASE Next
  <2>1. Start
    BY Parts DEF Start
  <2>2. AmissInv'
    BY <1>1, <2>1, AmissStep
  <2>3. CASE HolderStep
    <3>1. ControlTypes' /\ CountTypes' /\ RxTypes' /\ QueueTypes' /\ ControlInv'
      BY <2>1, <2>3, HolderTypes, HolderControl
    <3>2. QueueInv' /\ OnInv' /\ SearchInv'
      BY <2>1, <2>3, CommandQueue, ReturnQueue, CommandOn, ReturnOn, CommandSearch, ReturnSearch
         DEF HolderStep
    <3> QED BY <2>2, <3>1, <3>2, PartsNext DEF FmParts
  <2>4. CASE \/ probe_begins \/ probe \/ probe_fails \/ remove
             \/ \E f \in Files : open(f) \/ close(f) \/ ioctl(f) \/ seek(f) \/ FileStep(f)
    <3>1. ControlTypes' /\ CountTypes' /\ RxTypes' /\ QueueTypes' /\ ControlInv'
      BY <2>1, <2>4, FileTypes, FileControl
    <3>2. QueueInv' /\ OnInv' /\ SearchInv'
      BY <2>1, <2>4, FileQueue, FileOn, FileSearch
    <3> QED BY <2>2, <3>1, <3>2, PartsNext DEF FmParts
  <2>5. CASE CallbackStep \/ tuner_serves \/ tuner_finds
    <3>1. ControlTypes' /\ CountTypes' /\ RxTypes' /\ QueueTypes' /\ ControlInv'
      BY <2>1, <2>5, TunerTypes, TunerControl
    <3>2. QueueInv' /\ OnInv' /\ SearchInv'
      BY <2>1, <2>5, CallbackQueue, TunerQueue, TunerOn, CallbackSearch, TunerSearch
    <3> QED BY <2>2, <3>1, <3>2, PartsNext DEF FmParts
  <2> QED BY <1>1, <2>3, <2>4, <2>5 DEF Next
<1>2. CASE UNCHANGED vars
  <2> USE <1>2 DEF vars, driver, files, cmd, tuner, ghosts
  <2>1. FmParts
    BY Parts
  <2>2. ControlTypes' /\ CountTypes' /\ RxTypes' /\ QueueTypes'
    BY <2>1 DEF FmParts, ControlTypes, CountTypes, RxTypes, QueueTypes
  <2>3. ControlInv'
    BY <2>1, ControlFrame DEF FmParts
  <2>4. QueueInv'
    BY <2>1, QueueSame DEF FmParts
  <2>5. AmissInv'
    BY <2>1 DEF FmParts, AmissInv
  <2>6. SearchInv'
    BY <2>1, SearchSame DEF FmParts
  <2>7. Succeeded' => Succeeded
    BY DEF Succeeded, Success, IsAnswer
  <2>8. OnInv'
    BY <2>1, <2>7, OnFrame DEF FmParts
  <2> QED BY <2>2, <2>3, <2>4, <2>5, <2>6, <2>8, PartsNext DEF FmParts
<1> QED BY <1>1, <1>2

\* The inductive invariant of the FM driver and its tuner: who is inside which
\* call, which files count as users, what is in flight and in which order, and
\* what the receiver and the search are up to.
THEOREM FmInvariant == Spec => []FmInv
<1> USE ConstAssumption
<1>1. Init => FmInv
  BY FmInit
<1>2. FmInv /\ [Next]_vars => FmInv'
  BY FmStep
<1> QED BY <1>1, <1>2, PTL DEF Spec

\* The receiver is on while a file is open, whatever failed before and however
\* late an answer came, unless an enable or a disable was not confirmed: what
\* wcnss_fm_open() and wcnss_fm_release() do, for any number of files, when
\* opens and closes do not overlap.
THEOREM OnWhileOpenAlways ==
  ASSUME Overlap = FALSE PROVE Spec => []OnWhileOpen
<1>1. FmInv => OnWhileOpen
  <2>1. SUFFICES ASSUME FmInv, NEW f \in Files, pc[f] = "open"
                 PROVE  enabled /\ (on \/ ~Confirmed({"ENABLE", "DISABLE"}))
    BY DEF OnWhileOpen
  <2>2. /\ HolderInv /\ ListInv /\ UsersInv /\ OnInv /\ lock \in Files \union {"free"}
        /\ f # "free"
    BY <2>1, OpcodeFacts, ConstAssumption DEF FmInv, TypeOK
  <2>3. enabled
    BY <2>1, <2>2 DEF UsersInv
  <2>4. op # "DISABLE"
    <3>1. ASSUME op = "DISABLE" PROVE FALSE
      <4>1. fhs = {lock}
        BY <2>2, <3>1 DEF UsersInv
      <4>2. f = lock
        BY <2>1, <2>2, <4>1 DEF ListInv
      <4>3. pc[lock] = "closing"
        BY <2>2, <3>1, <4>2, OpcodeFacts DEF HolderInv
      <4> QED BY <2>1, <4>2, <4>3
    <3> QED BY <3>1
  <2> QED BY <2>2, <2>3, <2>4 DEF OnInv
<1> QED BY <1>1, FmInvariant, PTL

\* And it is off, and counted as off, when all files are closed, unless an
\* enable or a disable was not confirmed: no close leaves it running.
THEOREM OffWhenClosedAlways ==
  ASSUME Overlap = FALSE PROVE Spec => []OffWhenClosed
<1>1. FmInv => OffWhenClosed
  <2>1. SUFFICES ASSUME FmInv, \A f \in Files : pc[f] = "closed"
                 PROVE  ~enabled /\ (on => ~Confirmed({"ENABLE", "DISABLE"}))
    BY DEF OffWhenClosed
  <2>2. HolderInv /\ UsersInv /\ OnInv /\ lock \in Files \union {"free"}
    BY <2>1 DEF FmInv, TypeOK
  <2>3. op = "none"
    BY <2>1, <2>2 DEF HolderInv
  <2>4. ~enabled
    BY <2>1, <2>2 DEF UsersInv
  <2> QED BY <2>2, <2>3, <2>4 DEF OnInv
<1> QED BY <1>1, FmInvariant, PTL

\* A seek that succeeds has seen the end of its own search, and no search goes
\* on when the lock is free, unless a search or a cancel was not confirmed:
\* wcnss_fm_s_hw_freq_seek() with its reset of seek_done and its cancel, for
\* any number of seeks and late events.
THEOREM SearchSoundAlways == Spec => []SearchSound
<1>1. FmInv => SearchSound
  <2>1. SUFFICES ASSUME FmInv PROVE SearchSound
    OBVIOUS
  <2>2. TypeOK /\ HolderInv /\ SearchInv
    BY <2>1 DEF FmInv
  <2>3. SeekFindsItsOwn
    BY <2>2 DEF SeekFindsItsOwn, SearchInv
  <2>4. SearchEnds
    BY <2>2 DEF SearchEnds, SearchInv, HolderInv, Current
  <2> QED BY <2>2, <2>3, <2>4 DEF SearchSound
<1> QED BY <1>1, FmInvariant, PTL

\* A command that returns 0 was executed by the tuner, or took the late answer
\* of an earlier one that was given up: wcnss_fm_cmd() and wcnss_fm_rx(), for
\* any number of commands, refusals and answers that come late.
THEOREM CommandsExecuted == Spec => OkMeansExecuted
<1> DEFINE A == at # "ok" /\ at' = "ok" =>
                  \/ answer.id = sent /\ ~answer.failed
                  \/ \E c \in amiss : c.id = answer.id
<1>1. FmInv /\ [Next]_vars => [A]_vars
  <2>1. SUFFICES ASSUME FmInv, Next, at # "ok", at' = "ok"
                 PROVE  \/ answer.id = sent /\ ~answer.failed
                        \/ \E c \in amiss : c.id = answer.id
    OBVIOUS
  <2>2. cmd_waited
    <3>1. CASE HolderStep
      BY <2>1, <3>1 DEF HolderStep, cmd_reinit, cmd_pending, cmd_send, cmd_timeout,
           enable_returns, antenna_returns, disable_returns, plain_returns, search_returns,
           seek_waited, seek_returns, seek_timeout, Call, Unlock
    <3>2. CASE ~HolderStep
      <4>1. at' = at \/ at' = "cmd"
        BY <2>1, <3>2 DEF Next, probe_begins, probe, probe_fails, remove, open, close, ioctl, seek,
             FileStep, open_locked, release_locked, release, CallbackStep, rx_event, rx_status,
             rx_complete, tuner_serves, tuner_finds, Acquire, Call
      <4> QED BY <2>1, <4>1
    <3> QED BY <3>1, <3>2
  <2>3. at = "wait" /\ cmd_done > 0 /\ ~status
    BY <2>1, <2>2 DEF cmd_waited
  <2>4. FlightInv /\ StatusInv /\ answer.failed \in BOOLEAN
    BY <2>1 DEF FmInv, TypeOK, Event
  <2>5. CASE answer.id = sent
    BY <2>3, <2>4, <2>5 DEF StatusInv
  <2>6. CASE answer.id # sent
    BY <2>3, <2>4, <2>6 DEF FlightInv, Missed
  <2> QED BY <2>5, <2>6
<1> QED BY <1>1, FmInvariant, PTL DEF Spec, OkMeansExecuted

=============================================================================
