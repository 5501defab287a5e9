---------------------------- MODULE Q6CallProofs ----------------------------
(***************************************************************************)
(* Proofs about the answers in Q6Session: whose answer a call takes, that  *)
(* every step of the session layer is a step the contract Q6Call allows,   *)
(* and that no session of the DSP is lost on a path without errors.        *)
(*                                                                         *)
(* Commands are known by their numbers.  What is on the wire and with the  *)
(* worker is in the order of the log, after the answer that was last       *)
(* taken; and each of it belongs to the caller's present command, or comes *)
(* after one of the same opcode whose caller timed out.                    *)
(***************************************************************************)
EXTENDS Q6SessionProofs, FiniteSetTheorems

-----------------------------------------------------------------------------
(* What is known of the commands and answers under way.                    *)

Known(m)   == m.id \in 1 .. Len(log) /\ log[m.id] = m.op
Own(m)     == Posted /\ m.id = Len(log)
Excused(m) == \E e \in expired : e <= m.id /\ log[e] = m.op
Good(m)    == Known(m) /\ answer < m.id /\ (Own(m) \/ Excused(m))

PendInv ==
  /\ \A i \in 1 .. Len(cmds) : Good(cmds[i])
  /\ \A i \in 1 .. Len(reps) : Good(reps[i])
  /\ wpc = "match" => Good(wmsg)

\* The order of the log is kept: worker, answers, commands.
WireInv ==
  /\ \A i, j \in 1 .. Len(cmds) : i < j => cmds[i].id < cmds[j].id
  /\ \A i, j \in 1 .. Len(reps) : i < j => reps[i].id < reps[j].id
  /\ \A i \in 1 .. Len(reps), j \in 1 .. Len(cmds) : reps[i].id < cmds[j].id
  /\ wpc = "match" => /\ \A i \in 1 .. Len(reps) : wmsg.id < reps[i].id
                      /\ \A i \in 1 .. Len(cmds) : wmsg.id < cmds[i].id

\* An answer that is no refusal is to a command that was executed.
ExecInv ==
  /\ executed \subseteq 1 .. Len(log)
  /\ \A i \in 1 .. Len(cmds) : cmds[i].id \notin executed
  /\ \A i \in 1 .. Len(reps) : ~reps[i].failed => reps[i].id \in executed
  /\ wpc = "match" /\ ~wmsg.failed => wmsg.id \in executed

HistInv == expired \subseteq 1 .. Len(log) /\ answer \in 0 .. Len(log)

\* What is known of the present call: the answer it has taken, and that none
\* came for a packet that was not sent.
Answered ==
  /\ answer \in 1 .. Len(log) /\ log[answer] = op
  /\ \/ Posted /\ answer = Len(log)
     \/ \E e \in expired : e <= answer /\ log[e] = op

Unanswered(n) ==
  /\ \A i \in 1 .. Len(cmds) : cmds[i].id # n
  /\ \A i \in 1 .. Len(reps) : reps[i].id # n
  /\ wpc = "match" => wmsg.id # n

CallInv ==
  /\ Posted => Len(log) # 0 /\ log[Len(log)] = op
  /\ pc \in {"post", "wait", "expired"} =>
       /\ mem[cur].expected \in {NULL, op}
       /\ mem[cur].expected = NULL =>
            Answered /\ (~mem[cur].failed => answer \in executed)
  /\ pc \in {"wait", "expired"} /\ mem[cur].expected # NULL => answer < Len(log)

RetInv ==
  pc = "ret" =>
    /\ ret # "unsent" => mem[cur].expected = NULL
    /\ ret \in {"ok", "failed"} => Answered
    /\ ret = "ok" => answer \in executed
    /\ ret = "timeout" => Len(log) \in expired
    /\ ret = "unsent" => answer < Len(log) /\ Unanswered(Len(log))

\* A worker that still delivers to an earlier session has delivered nothing
\* to this one.
Stale == cur # NULL /\ wcur # NULL /\ wcur # cur
StaleInv ==
  Stale =>
    /\ mem[cur].handle = NULL /\ pc # "owned"
    /\ pc \in {"arm", "post", "wait", "expired", "ret"} => op = CREATE
    /\ pc \in {"post", "wait", "expired"} => mem[cur].expected = CREATE
    /\ pc = "ret" => ret \in {"timeout", "unsent"}
    /\ Posted => answer < Len(log) /\ (wpc = "match" => wmsg.id < Len(log))

AnswerInv == PendInv /\ WireInv /\ ExecInv /\ HistInv /\ CallInv /\ RetInv /\ StaleInv

-----------------------------------------------------------------------------
(* Steps of the caller that leave wire and worker alone.                   *)

Ready == IInv /\ HandleInv /\ AnswerInv

\* What the types say of the messages under way.
LEMMA MessageTypes ==
  ASSUME IInv
  PROVE  /\ Len(log) \in Nat /\ Len(cmds) \in Nat /\ Len(reps) \in Nat
         /\ \A i \in 1 .. Len(cmds) : cmds[i] \in Command /\ cmds[i].id \in Nat /\ cmds[i].op \in Opcodes
         /\ \A i \in 1 .. Len(reps) : reps[i] \in Answer /\ reps[i].id \in Nat /\ reps[i].op \in Opcodes
         /\ wpc = "match" => /\ wmsg \in Answer /\ wmsg.id \in Nat /\ wmsg.op \in Opcodes
                             /\ wmsg.failed \in BOOLEAN
<1>0. \A S, s : s \in Seq(S) => Len(s) \in Nat /\ \A i \in 1 .. Len(s) : s[i] \in S
  OBVIOUS
<1>1. cmds \in Seq(Command) /\ reps \in Seq(Answer) /\ log \in Seq(Opcodes)
  BY DEF IInv, TypeInv, TypeOK
<1>2. Len(log) \in Nat /\ Len(cmds) \in Nat /\ Len(reps) \in Nat
  BY <1>0, <1>1
<1>3. \A i \in 1 .. Len(cmds) : cmds[i] \in Command
  BY <1>0, <1>1
<1>4. \A i \in 1 .. Len(reps) : reps[i] \in Answer
  BY <1>0, <1>1
<1>5. \A c \in Command : c.id \in Nat /\ c.op \in Opcodes
  BY DEF Command
<1>6. \A r \in Answer : r.id \in Nat /\ r.op \in Opcodes /\ r.failed \in BOOLEAN
  BY DEF Answer
<1>7. wpc = "match" => wmsg \in Answer
  BY DEF IInv, TypeInv, CallTyped
<1> QED BY <1>2, <1>3, <1>4, <1>5, <1>6, <1>7

\* Steps of the caller that send nothing.
QuietStep ==
  \/ session_create \/ session_command \/ session_release
  \/ common_send_arm \/ common_send_done \/ common_send_timeout \/ common_send_expired
  \/ common_send_return \/ release_clear \/ release_put

\* What they leave alone; only the end of a wait notes the command.
LEMMA QuietFrame ==
  ASSUME QuietStep
  PROVE  /\ UNCHANGED <<cmds, reps, alive, wpc, wcur, wmsg, log, executed, answer>>
         /\ \/ expired' = expired
            \/ Posted /\ expired' = expired \union {Len(log)}
         /\ Posted' => Posted /\ op' = op
         /\ Posted => Posted' \/ pc = "ret"
<1>1. CASE session_create \/ session_command \/ session_release \/ common_send_arm
  BY <1>1 DEF session_create, session_command, session_release, release_begins, common_send_arm,
     Goto, wire, worker, ghosts, Posted
<1>2. CASE common_send_done \/ common_send_timeout \/ common_send_expired
  BY <1>2 DEF common_send_done, common_send_timeout, common_send_expired, Goto, wire, worker,
     ghosts, Posted
<1>3. CASE common_send_return \/ release_clear \/ release_put
  BY <1>3 DEF common_send_return, release_begins, release_clear, release_put, Goto, wire, worker,
     ghosts, Posted
<1> QED BY <1>1, <1>2, <1>3 DEF QuietStep

\* They leave the messages in order.  A call that returns leaves its message
\* excused, by its own time-out or by the one whose answer it took.
LEMMA QuietPending ==
  ASSUME Ready, QuietStep
  PROVE  PendInv' /\ WireInv' /\ ExecInv' /\ HistInv'
<1> USE DEF Ready, AnswerInv
<1>1. /\ UNCHANGED <<cmds, reps, wpc, wmsg, log, executed, answer>>
      /\ \/ expired' = expired
         \/ Posted /\ expired' = expired \union {Len(log)}
      /\ Posted => Posted' \/ pc = "ret"
  BY QuietFrame
<1>2. Len(log) \in Nat /\ Len(cmds) \in Nat /\ Len(reps) \in Nat
  BY MessageTypes
<1>3. expired \subseteq expired' /\ expired' \subseteq 1 .. Len(log)
  <2>1. Posted => Len(log) # 0
    BY DEF CallInv
  <2>2. Posted => Len(log) \in 1 .. Len(log)
    BY <1>2, <2>1
  <2>3. expired \subseteq 1 .. Len(log)
    BY DEF HistInv
  <2> QED BY <1>1, <2>2, <2>3
<1>4. ASSUME NEW m, m.id \in Nat, Good(m), pc = "ret" /\ ret = "unsent" => m.id # Len(log)
      PROVE  Good(m)'
  <2>1. Excused(m) => Excused(m)'
    BY <1>1, <1>3 DEF Excused
  <2>2. Known(m)' /\ (answer < m.id)'
    BY <1>1, <1>4 DEF Good, Known
  <2>3. CASE Own(m) /\ ~Posted'
    <3>1. pc = "ret" /\ m.id = Len(log) /\ log[m.id] = m.op /\ answer < m.id
      BY <1>1, <1>4, <2>3 DEF Own, Good, Known
    <3>2. log[m.id] = op
      BY <2>3, <3>1 DEF CallInv, Own
    <3>3. ret \in {"ok", "failed", "timeout"}
      BY <1>4, <3>1 DEF IInv, TypeInv, TypeOK, MemInv
    <3>4. ASSUME ret = "timeout" PROVE Excused(m)
      BY <1>2, <3>1, <3>4 DEF RetInv, Excused
    <3>5. ASSUME ret \in {"ok", "failed"} PROVE Excused(m)
      <4>1. Answered
        BY <3>1, <3>5 DEF RetInv
      <4>2. answer # Len(log)
        BY <1>2, <1>4, <3>1
      <4>3. PICK e \in expired : e <= answer /\ log[e] = op
        BY <4>1, <4>2 DEF Answered
      <4>4. e \in Nat /\ answer \in Nat
        BY <1>2, <4>3 DEF HistInv
      <4>5. e <= m.id
        BY <1>4, <3>1, <4>3, <4>4
      <4> QED BY <3>1, <3>2, <4>3, <4>5 DEF Excused
    <3>6. Excused(m)
      BY <3>3, <3>4, <3>5
    <3> QED BY <2>1, <2>2, <3>6 DEF Good
  <2>4. CASE Own(m) /\ Posted'
    BY <1>1, <2>2, <2>4 DEF Good, Own
  <2> QED BY <1>4, <2>1, <2>2, <2>3, <2>4 DEF Good
<1>5. /\ \A i \in 1 .. Len(cmds) : cmds[i].id \in Nat
      /\ \A i \in 1 .. Len(reps) : reps[i].id \in Nat
      /\ wpc = "match" => wmsg.id \in Nat
  BY MessageTypes
<1>6. pc = "ret" /\ ret = "unsent" => Unanswered(Len(log))
  BY DEF RetInv
<1>7. PendInv'
  <2>1. ASSUME NEW i \in 1 .. Len(cmds) PROVE Good(cmds[i])'
    <3>1. Good(cmds[i]) /\ cmds[i].id \in Nat /\ (pc = "ret" /\ ret = "unsent" => cmds[i].id # Len(log))
      BY <1>5, <1>6 DEF PendInv, Unanswered
    <3>2. \A m : m.id \in Nat /\ Good(m) /\ (pc = "ret" /\ ret = "unsent" => m.id # Len(log)) => Good(m)'
      BY <1>4
    <3>3. cmds'[i] = cmds[i]
      BY <1>1
    <3> QED BY <3>1, <3>2, <3>3 DEF Good, Known, Own, Excused
  <2>2. ASSUME NEW i \in 1 .. Len(reps) PROVE Good(reps[i])'
    <3>1. Good(reps[i]) /\ reps[i].id \in Nat /\ (pc = "ret" /\ ret = "unsent" => reps[i].id # Len(log))
      BY <1>5, <1>6 DEF PendInv, Unanswered
    <3>2. \A m : m.id \in Nat /\ Good(m) /\ (pc = "ret" /\ ret = "unsent" => m.id # Len(log)) => Good(m)'
      BY <1>4
    <3>3. reps'[i] = reps[i]
      BY <1>1
    <3> QED BY <3>1, <3>2, <3>3 DEF Good, Known, Own, Excused
  <2>3. ASSUME wpc = "match" PROVE Good(wmsg)'
    <3>1. Good(wmsg) /\ wmsg.id \in Nat /\ (pc = "ret" /\ ret = "unsent" => wmsg.id # Len(log))
      BY <1>5, <1>6, <2>3 DEF PendInv, Unanswered
    <3>2. \A m : m.id \in Nat /\ Good(m) /\ (pc = "ret" /\ ret = "unsent" => m.id # Len(log)) => Good(m)'
      BY <1>4
    <3>3. wmsg' = wmsg
      BY <1>1
    <3> QED BY <3>1, <3>2, <3>3 DEF Good, Known, Own, Excused
  <2> QED BY <1>1, <2>1, <2>2, <2>3 DEF PendInv
<1>8. WireInv' /\ ExecInv'
  BY <1>1 DEF WireInv, ExecInv
<1>9. HistInv'
  BY <1>1, <1>3 DEF HistInv
<1> QED BY <1>7, <1>8, <1>9

\* What the quiet steps do to the caller's view of its session.
LEMMA QuietView ==
  ASSUME IInv, QuietStep, ~session_create, ~release_put
  PROVE  /\ cur' = cur /\ cur \in Sessions
         /\ mem'[cur].handle = mem[cur].handle
         /\ \/ common_send_arm /\ mem'[cur].expected = op /\ mem'[cur].failed = FALSE
            \/ common_send_expired /\ mem'[cur].expected = NULL /\ mem'[cur].failed = mem[cur].failed
            \/ /\ ~common_send_arm /\ ~common_send_expired
               /\ mem'[cur].expected = mem[cur].expected /\ mem'[cur].failed = mem[cur].failed
<1> USE DEF IInv, TypeInv, TypeOK, CallTyped
<1>1. CASE common_send_arm
  BY <1>1 DEF common_send_arm, arm, Session
<1>2. CASE common_send_expired
  BY <1>2 DEF common_send_expired, Session
<1>3. CASE ~common_send_arm /\ ~common_send_expired
  <2>1. CASE session_command \/ session_release
    BY <1>3, <2>1 DEF session_command, session_release
  <2>2. CASE common_send_done \/ common_send_timeout
    BY <1>3, <2>2 DEF common_send_done, common_send_timeout
  <2>3. CASE common_send_return \/ release_clear
    BY <1>3, <2>3 DEF common_send_return, release_clear
  <2> QED BY <1>3, <2>1, <2>2, <2>3 DEF QuietStep
<1> QED BY <1>1, <1>2, <1>3

\* A call that is answered stays so while it lasts.
LEMMA AnsweredKept ==
  ASSUME Answered, UNCHANGED <<op, log, answer>>, Posted => Posted', expired \subseteq expired'
  PROVE  Answered'
BY DEF Answered

\* The present call, over the quiet steps.
LEMMA QuietCall ==
  ASSUME Ready, QuietStep
  PROVE  CallInv' /\ RetInv' /\ StaleInv'
<1> USE DEF Ready, AnswerInv
<1>1. /\ UNCHANGED <<wpc, wcur, wmsg, log, executed, answer, cmds, reps>>
      /\ expired \subseteq expired'
      /\ Posted' => Posted /\ op' = op
  BY QuietFrame
<1>t. /\ pc = "idle" => cur = NULL
      /\ pc \in {"arm", "post", "wait", "expired", "ret"} => op \in Opcodes
      /\ NULL \notin Opcodes /\ cur \in Sessions \union {NULL} /\ NULL \notin Sessions
  BY NamesAssumption DEF IInv, TypeInv, TypeOK, CallTyped, MemInv, Opcodes
<1>p. Posted' => Posted' /\ Len(log') # 0 /\ log'[Len(log')] = op'
  BY <1>1 DEF CallInv
<1>2. CASE session_create
  <2>1. slot = NULL
    BY <1>2 DEF session_create, IInv, MemInv
  <2>2. PICK s \in Sessions : mem' = [mem EXCEPT ![s] = Fresh] /\ cur' = s /\ op' = CREATE /\ pc' = "arm"
    BY <1>2, <2>1 DEF session_create, Goto
  <2>3. mem'[cur'].handle = NULL
    BY <2>2 DEF Fresh, IInv, TypeInv, TypeOK
  <2> QED BY <1>p, <2>2, <2>3 DEF CallInv, RetInv, StaleInv, Posted
<1>3. CASE session_command \/ session_release
  <2>1. pc = "owned" /\ pc' \in {"arm", "clear"} /\ cur' = cur
    BY <1>3 DEF session_command, session_release, release_begins, Goto
  <2>2. ~Stale'
    BY <1>1, <2>1 DEF StaleInv, Stale
  <2> QED BY <1>p, <2>1, <2>2 DEF CallInv, RetInv, StaleInv, Posted
<1>4. CASE common_send_arm
  <2>1. pc = "arm" /\ pc' = "post" /\ op' = op /\ ~Posted'
    BY <1>4 DEF common_send_arm, Goto, Posted
  <2>2. cur' = cur /\ mem'[cur].handle = mem[cur].handle /\ mem'[cur].expected = op
    BY <1>4, QuietView DEF common_send_arm, session_create, release_put, common_send_expired
  <2>3. StaleInv'
    BY <1>1, <2>1, <2>2 DEF StaleInv, Stale
  <2> QED BY <1>t, <2>1, <2>2, <2>3 DEF CallInv, RetInv
<1>5. CASE common_send_done
  <2>1. /\ pc = "wait" /\ pc' = "ret" /\ op' = op /\ mem[cur].expected = NULL /\ Posted'
        /\ ret' = IF mem[cur].failed THEN "failed" ELSE "ok"
    BY <1>5 DEF common_send_done, Goto, Posted
  <2>2. cur' = cur /\ mem' = mem
    BY <1>5 DEF common_send_done
  <2>3. ~Stale'
    BY <1>1, <1>t, <2>1, <2>2, NamesAssumption DEF StaleInv, Stale
  <2>4. Answered /\ (~mem[cur].failed => answer \in executed)
    BY <2>1 DEF CallInv
  <2>5. Answered'
    BY <1>1, <2>1, <2>4, AnsweredKept
  <2>6. CallInv'
    BY <1>p, <2>1 DEF CallInv
  <2>7. RetInv'
    BY <1>1, <2>1, <2>2, <2>4, <2>5 DEF RetInv
  <2> QED BY <2>3, <2>6, <2>7 DEF StaleInv
<1>6. CASE common_send_timeout
  <2>1. pc = "wait" /\ pc' = "expired" /\ op' = op /\ mem[cur].expected # NULL /\ Posted'
    BY <1>6 DEF common_send_timeout, Goto, Posted
  <2>2. cur' = cur /\ mem' = mem
    BY <1>6 DEF common_send_timeout
  <2>3. StaleInv'
    BY <1>1, <2>1, <2>2 DEF StaleInv, Stale, Posted
  <2>4. CallInv'
    BY <1>1, <1>p, <2>1, <2>2 DEF CallInv
  <2> QED BY <2>1, <2>3, <2>4 DEF RetInv
<1>7. CASE common_send_expired
  <2>1. /\ pc = "expired" /\ pc' = "ret" /\ op' = op /\ ret' = "timeout" /\ Posted'
        /\ expired' = expired \union {Len(log)}
    BY <1>7 DEF common_send_expired, Goto, Posted
  <2>2. cur' = cur /\ mem'[cur].handle = mem[cur].handle /\ mem'[cur].expected = NULL
    BY <1>7, <2>1, QuietView DEF common_send_arm, session_create, release_put, common_send_expired
  <2>3. StaleInv'
    BY <1>1, <2>1, <2>2 DEF StaleInv, Stale, Posted
  <2>4. CallInv'
    BY <1>p, <2>1 DEF CallInv
  <2>5. RetInv'
    BY <1>1, <2>1, <2>2 DEF RetInv
  <2> QED BY <2>3, <2>4, <2>5
<1>8. CASE common_send_return
  <2>1. /\ pc = "ret" /\ cur' = cur /\ mem' = mem /\ pc' \in {"owned", "arm", "clear"} /\ ~Posted'
    BY <1>8 DEF common_send_return, release_begins, Goto, Posted
  <2>2. Stale => op = CREATE /\ ret # "ok" /\ mem[cur].handle = NULL
    BY <2>1 DEF StaleInv
  <2>3. Stale => pc' = "clear"
    BY <1>8, <2>2, NamesAssumption DEF common_send_return, release_begins, Goto
  <2>4. StaleInv'
    BY <1>1, <2>1, <2>2, <2>3 DEF StaleInv, Stale
  <2> QED BY <1>p, <2>1, <2>4 DEF CallInv, RetInv
<1>9. CASE release_clear
  <2>1. pc' = "put" /\ cur' = cur /\ mem' = mem /\ ~Posted'
    BY <1>9 DEF release_clear, Goto, Posted
  <2> QED BY <1>1, <1>p, <2>1 DEF CallInv, RetInv, StaleInv, Stale
<1>10. CASE release_put
  <2>1. pc' = "idle" /\ cur' = NULL /\ ~Posted'
    BY <1>10 DEF release_put, Goto, Posted
  <2> QED BY <1>p, <2>1 DEF CallInv, RetInv, StaleInv, Stale
<1> QED BY <1>2, <1>3, <1>4, <1>5, <1>6, <1>7, <1>8, <1>9, <1>10 DEF QuietStep

-----------------------------------------------------------------------------
(* A command is posted.                                                    *)

\* A longer sequence, by its indices.
LEMMA AppendFacts ==
  ASSUME NEW S, NEW s \in Seq(S), NEW e \in S, NEW t, t = Append(s, e)
  PROVE  /\ Len(s) \in Nat /\ Len(t) = Len(s) + 1
         /\ t[Len(s) + 1] = e /\ Len(s) + 1 \in 1 .. Len(t)
         /\ \A i \in 1 .. Len(s) : t[i] = s[i] /\ i \in 1 .. Len(t)
         /\ \A i \in 1 .. Len(t) : i \in 1 .. Len(s) \/ i = Len(s) + 1
OBVIOUS

\* What was known of a message stays true when the log grows.
LEMMA LogGrows ==
  ASSUME Ready, common_send_post
  PROVE  /\ Len(log) \in Nat /\ Len(log') = Len(log) + 1 /\ log'[Len(log) + 1] = op
         /\ \A i \in 1 .. Len(log) : log'[i] = log[i]
         /\ \A m : m.id \in Nat /\ Good(m) => Good(m)' /\ m.id # Len(log')
<1>1. pc = "post" /\ log' = Append(log, op) /\ UNCHANGED <<op, answer, expired>> /\ op \in Opcodes
      /\ log \in Seq(Opcodes)
  BY DEF common_send_post, Ready, IInv, TypeInv, TypeOK, CallTyped
<1>2. /\ Len(log) \in Nat /\ Len(log') = Len(log) + 1 /\ log'[Len(log) + 1] = op
      /\ \A i \in 1 .. Len(log) : log'[i] = log[i]
  BY <1>1, AppendFacts
<1>3. ASSUME NEW m, m.id \in Nat, Good(m) PROVE Good(m)' /\ m.id # Len(log')
  <2>1. m.id \in 1 .. Len(log) /\ log[m.id] = m.op /\ answer < m.id
    BY <1>3 DEF Good, Known
  <2>2. Excused(m)
    BY <1>1, <1>3 DEF Good, Own, Posted
  <2>3. Excused(m)'
    BY <1>1, <1>2, <2>2 DEF Excused, Ready, AnswerInv, HistInv
  <2> QED BY <1>1, <1>2, <2>1, <2>3 DEF Good, Known
<1> QED BY <1>2, <1>3

\* The command goes to the end of the wire.
LEMMA PostWire ==
  ASSUME Ready, common_send_post, ~UNCHANGED cmds
  PROVE  /\ pc' = "wait"
         /\ Len(cmds) \in Nat /\ Len(cmds') = Len(cmds) + 1
         /\ cmds'[Len(cmds) + 1].op = op /\ cmds'[Len(cmds) + 1].id = Len(log')
         /\ cmds'[Len(cmds) + 1].dest = IF op = CREATE THEN NULL ELSE mem[cur].handle
         /\ \A i \in 1 .. Len(cmds) : cmds'[i] = cmds[i] /\ i \in 1 .. Len(cmds')
         /\ \A i \in 1 .. Len(cmds') : i \in 1 .. Len(cmds) \/ i = Len(cmds) + 1
<1> DEFINE c == [op |-> op, id |-> Len(log) + 1,
                 dest |-> IF op = CREATE THEN NULL ELSE mem[cur].handle]
<1>1. cmds' = Append(cmds, c) /\ pc' = "wait"
  BY DEF common_send_post, Goto
<1>2. cmds \in Seq(Command) /\ op \in Opcodes /\ cur \in Sessions /\ Len(log) + 1 \in Nat
  BY MessageTypes DEF common_send_post, Ready, IInv, TypeInv, TypeOK, CallTyped
<1>3. mem[cur].handle \in Handles \union {NULL}
  BY <1>2 DEF Ready, IInv, TypeInv, TypeOK, Session
<1>4. c \in Command
  BY <1>2, <1>3 DEF Command
<1>5. c.op = op /\ c.id = Len(log') /\ c.dest = IF op = CREATE THEN NULL ELSE mem[cur].handle
  BY LogGrows
<1> HIDE DEF c
<1>6. cmds' = Append(cmds, c)
  BY <1>1
<1> QED BY <1>1, <1>2, <1>4, <1>5, <1>6, AppendFacts

\* Posting, or failing to post.
LEMMA PostAnswers ==
  ASSUME Ready, common_send_post
  PROVE  AnswerInv'
<1> USE DEF Ready, AnswerInv
<1>1. /\ pc = "post" /\ pc' \in {"wait", "ret"} /\ Posted' /\ ~Posted
      /\ UNCHANGED <<mem, cur, op, reps, wpc, wcur, wmsg, executed, answer, expired>>
  BY DEF common_send_post, Goto, worker, Posted
<1>2. /\ Len(log) \in Nat /\ Len(log') = Len(log) + 1 /\ log'[Len(log) + 1] = op
      /\ \A i \in 1 .. Len(log) : log'[i] = log[i]
      /\ \A m : m.id \in Nat /\ Good(m) => Good(m)' /\ m.id # Len(log')
  BY LogGrows
<1>3. /\ \A i \in 1 .. Len(cmds) : cmds[i].id \in Nat /\ Good(cmds[i])
      /\ \A i \in 1 .. Len(reps) : reps[i].id \in Nat /\ Good(reps[i])
      /\ wpc = "match" => wmsg.id \in Nat /\ Good(wmsg)
      /\ Len(cmds) \in Nat /\ Len(reps) \in Nat
  BY MessageTypes DEF PendInv
<1>4. HistInv' /\ executed' \subseteq 1 .. Len(log') /\ answer' < Len(log')
  BY <1>1, <1>2 DEF HistInv, ExecInv
<1>5. \A m : m.id \in Nat /\ Good(m) => m.id < Len(log')
  BY <1>2 DEF Good, Known
<1>6. StaleInv'
  <2>1. pc' = "ret" => ret' = "unsent"
    BY DEF common_send_post, Goto
  <2>2. wpc' = "match" => wmsg'.id < Len(log')
    BY <1>1, <1>3, <1>5
  <2>3. Stale' => Stale
    BY <1>1 DEF Stale
  <2>4. Stale => mem[cur].handle = NULL /\ op = CREATE /\ mem[cur].expected = CREATE
    BY <1>1 DEF StaleInv
  <2>5. Stale' => (/\ mem[cur].handle = NULL /\ pc # "owned"
                   /\ op = CREATE
                   /\ pc = "ret" => ret \in {"timeout", "unsent"}
                   /\ mem[cur].expected = CREATE)'
    BY <1>1, <2>1, <2>3, <2>4
  <2> QED BY <1>4, <2>2, <2>5 DEF StaleInv
<1>7. CallInv'
  <2>1. mem[cur].expected \in {NULL, op} /\ (mem[cur].expected = NULL =>
            Answered /\ (~mem[cur].failed => answer \in executed))
    BY <1>1 DEF CallInv
  <2>2. Answered => Answered'
    BY <1>1, <1>2 DEF Answered, HistInv
  <2> QED BY <1>1, <1>2, <1>4, <2>1, <2>2 DEF CallInv
<1>8. \A i \in 1 .. Len(reps') : Good(reps[i])' /\ reps'[i] = reps[i] /\ reps[i].id # Len(log')
  BY <1>1, <1>2, <1>3
<1>9. wpc' = "match" => Good(wmsg)' /\ wmsg.id # Len(log')
  <2>1. \A m : m.id \in Nat /\ Good(m) => Good(m)' /\ m.id # Len(log')
    BY <1>2
  <2>2. wpc' = "match" => wmsg.id \in Nat /\ Good(wmsg) /\ wmsg' = wmsg
    BY <1>1, <1>3
  <2> QED BY <2>1, <2>2 DEF Good, Known, Own, Excused
<1>10. CASE UNCHANGED cmds
  <2>1. pc' = "ret" /\ ret' = "unsent"
    <3>1. ASSUME NEW c, cmds' = Append(cmds, c) PROVE FALSE
      BY <1>3, <1>10, <3>1
    <3> QED BY <3>1 DEF common_send_post, Goto
  <2>2. \A i \in 1 .. Len(cmds') : Good(cmds[i])' /\ cmds'[i] = cmds[i] /\ cmds[i].id # Len(log')
    BY <1>2, <1>3, <1>10
  <2>3. PendInv'
    BY <1>8, <1>9, <2>2 DEF PendInv, Good, Known, Own, Excused
  <2>4. WireInv' /\ ExecInv'
    BY <1>1, <1>4, <1>10 DEF WireInv, ExecInv
  <2>5. RetInv'
    BY <1>1, <1>4, <1>8, <1>9, <2>1, <2>2 DEF RetInv, Unanswered
  <2> QED BY <1>4, <1>6, <1>7, <2>3, <2>4, <2>5
<1>11. CASE ~UNCHANGED cmds
  <2>1. /\ pc' = "wait" /\ Len(cmds') = Len(cmds) + 1
        /\ cmds'[Len(cmds) + 1].op = op /\ cmds'[Len(cmds) + 1].id = Len(log')
        /\ \A i \in 1 .. Len(cmds) : cmds'[i] = cmds[i] /\ i \in 1 .. Len(cmds')
        /\ \A i \in 1 .. Len(cmds') : i \in 1 .. Len(cmds) \/ i = Len(cmds) + 1
    BY <1>11, PostWire
  <2>2. \A m : m.op = op /\ m.id = Len(log') => Good(m)'
    BY <1>1, <1>2, <1>4 DEF Good, Known, Own
  <2>3. \A i \in 1 .. Len(cmds') : \/ i \in 1 .. Len(cmds) /\ cmds'[i] = cmds[i] /\ Good(cmds[i])'
                                      /\ cmds'[i].id < Len(log')
                                   \/ i = Len(cmds) + 1 /\ cmds'[i].id = Len(log')
    BY <1>2, <1>3, <1>5, <2>1
  <2>4. PendInv'
    <3>1. ASSUME NEW i \in 1 .. Len(cmds') PROVE Good(cmds[i])'
      BY <2>1, <2>2, <2>3
    <3> QED BY <1>8, <1>9, <3>1 DEF PendInv
  <2>5. WireInv'
    <3>1. \A i, j \in 1 .. Len(cmds') : i < j => cmds'[i].id < cmds'[j].id
      BY <1>3, <2>3 DEF WireInv
    <3>2. \A i \in 1 .. Len(reps'), j \in 1 .. Len(cmds') : reps'[i].id < cmds'[j].id
      BY <1>1, <1>3, <1>5, <2>3 DEF WireInv
    <3>3. wpc' = "match" => \A i \in 1 .. Len(cmds') : wmsg'.id < cmds'[i].id
      BY <1>1, <1>3, <1>5, <2>3 DEF WireInv
    <3> QED BY <1>1, <3>1, <3>2, <3>3 DEF WireInv
  <2>6. ExecInv'
    <3>1. \A i \in 1 .. Len(cmds') : cmds'[i].id \notin executed'
      BY <1>1, <1>2, <2>3 DEF ExecInv
    <3> QED BY <1>1, <1>4, <3>1 DEF ExecInv
  <2>7. RetInv'
    BY <2>1 DEF RetInv
  <2> QED BY <1>4, <1>6, <1>7, <2>4, <2>5, <2>6, <2>7
<1> QED BY <1>10, <1>11

-----------------------------------------------------------------------------
(* The callback worker.                                                    *)

\* The worker's answer becomes the outcome of the caller's session.
Takes == session_callback /\ wcur = cur /\ accepts(mem[wcur], wmsg)

\* Nothing else of what the caller sees is touched by the worker.
LEMMA WorkerView ==
  ASSUME IInv, CallbackStep
  PROVE  /\ UNCHANGED <<slot, pc, cur, op, ret, cmds, alive, log, executed, expired, lost>>
         /\ Takes => /\ cur \in Sessions /\ mem'[cur].handle = wmsg.src
                     /\ mem'[cur].failed = wmsg.failed /\ mem'[cur].expected = NULL
         /\ ~Takes /\ cur # NULL => /\ mem'[cur].handle = mem[cur].handle
                                    /\ mem'[cur].failed = mem[cur].failed
                                    /\ mem'[cur].expected = mem[cur].expected
<1> USE DEF IInv, TypeInv, TypeOK, CallTyped, MemInv
<1>1. UNCHANGED <<slot, pc, cur, op, ret, cmds, alive, log, executed, expired, lost>>
  BY DEF CallbackStep, common_callback, session_callback, callback_put, caller, wire, ghosts
<1>2. CASE common_callback
  <2>1. ~Takes
    BY <1>2 DEF Takes, common_callback, session_callback
  <2>2. CASE slot = NULL
    BY <1>1, <1>2, <2>1, <2>2 DEF common_callback
  <2>3. CASE slot # NULL
    <3>1. mem' = [mem EXCEPT ![slot].ref = mem[slot].ref + 1] /\ slot \in Sessions
      BY <1>2, <2>3 DEF common_callback
    <3>2. \A s \in Sessions : mem[s] \in Session
      OBVIOUS
    <3>3. \A s \in Sessions : /\ mem'[s].handle = mem[s].handle /\ mem'[s].failed = mem[s].failed
                             /\ mem'[s].expected = mem[s].expected
      BY <3>1, <3>2 DEF Session
    <3> QED BY <1>1, <2>1, <3>3
  <2> QED BY <2>2, <2>3
<1>3. CASE session_callback
  <2>1. wcur \in Sessions /\ mem[wcur] \in Session
    BY <1>3 DEF session_callback
  <2>2. CASE accepts(mem[wcur], wmsg)
    <3>1. mem' = [mem EXCEPT ![wcur].handle = wmsg.src,
                             ![wcur].failed = wmsg.failed,
                             ![wcur].expected = NULL]
      BY <1>3, <2>2 DEF session_callback
    <3> QED BY <1>1, <1>3, <2>1, <2>2, <3>1 DEF Takes, Session
  <2>3. CASE ~accepts(mem[wcur], wmsg)
    BY <1>1, <1>3, <2>3 DEF session_callback, Takes
  <2> QED BY <2>2, <2>3
<1>4. CASE callback_put
  <2>1. ~Takes /\ wcur \in Sessions
    BY <1>4 DEF Takes, callback_put, session_callback
  <2>2. CASE cur = wcur
    <3>1. mem[wcur].ref = 2 /\ mem[wcur] \in Session
      BY <2>1, <2>2 DEF MemorySafe, Holders
    <3>2. mem' = [mem EXCEPT ![wcur].ref = mem[wcur].ref - 1]
      BY <1>4, <3>1 DEF callback_put, kref_put
    <3> QED BY <1>1, <2>1, <2>2, <3>1, <3>2 DEF Session
  <2>3. CASE cur # wcur
    BY <1>1, <1>4, <2>1, <2>3 DEF callback_put, kref_put
  <2> QED BY <2>2, <2>3
<1> QED BY <1>2, <1>3, <1>4 DEF CallbackStep

\* A shorter sequence, by its indices.
LEMMA TailFacts ==
  ASSUME NEW S, NEW s \in Seq(S), s # <<>>
  PROVE  /\ Len(s) \in Nat \ {0} /\ Len(Tail(s)) = Len(s) - 1
         /\ Head(s) = s[1] /\ 1 \in 1 .. Len(s)
         /\ \A i \in 1 .. Len(Tail(s)) : i + 1 \in 1 .. Len(s) /\ Tail(s)[i] = s[i + 1]
OBVIOUS

\* The worker takes the first answer, if there is a session for it.
LEMMA TakesFirst ==
  ASSUME IInv, common_callback
  PROVE  /\ Len(reps') = Len(reps) - 1 /\ Len(reps) \in Nat \ {0} /\ 1 \in 1 .. Len(reps)
         /\ \A i \in 1 .. Len(reps') : i + 1 \in 1 .. Len(reps) /\ reps'[i] = reps[i + 1]
         /\ wpc = "idle" /\ wcur = NULL
         /\ \/ slot # NULL /\ wpc' = "match" /\ wcur' = cur /\ wmsg' = reps[1]
            \/ slot = NULL /\ UNCHANGED <<wpc, wcur, wmsg>>
         /\ UNCHANGED answer
<1>1. reps \in Seq(Answer) /\ reps # <<>> /\ reps' = Tail(reps)
  BY DEF IInv, TypeInv, TypeOK, common_callback
<1>2. /\ Len(reps) \in Nat \ {0} /\ Len(Tail(reps)) = Len(reps) - 1
      /\ Head(reps) = reps[1] /\ 1 \in 1 .. Len(reps)
      /\ \A i \in 1 .. Len(Tail(reps)) : i + 1 \in 1 .. Len(reps) /\ Tail(reps)[i] = reps[i + 1]
  BY <1>1, TailFacts
<1>3. slot # NULL => slot = cur
  BY DEF IInv, MemInv
<1>4. wpc = "idle" /\ wcur = NULL /\ UNCHANGED answer
  BY DEF common_callback, IInv, MemInv, ghosts
<1>5. \/ slot # NULL /\ wpc' = "match" /\ wcur' = cur /\ wmsg' = reps[1]
      \/ slot = NULL /\ UNCHANGED <<wpc, wcur, wmsg>>
  BY <1>2, <1>3 DEF common_callback, worker
<1> QED BY <1>1, <1>2, <1>4, <1>5

\* What the caller knows, if a worker's step changes none of it.
LEMMA CallFrame ==
  ASSUME CallInv, RetInv, UNCHANGED <<pc, cur, op, ret, log, executed, expired, answer>>,
         cur # NULL => /\ mem'[cur].failed = mem[cur].failed
                       /\ mem'[cur].expected = mem[cur].expected,
         pc \in {"post", "wait", "expired", "ret"} => cur # NULL,
         \A n \in Nat : Unanswered(n) => Unanswered(n)',
         Len(log) \in Nat
  PROVE  CallInv' /\ RetInv'
<1>1. Posted' = Posted /\ Answered' = Answered
  BY DEF Posted, Answered
<1>2. CallInv'
  BY <1>1 DEF CallInv
<1>3. RetInv'
  BY <1>1 DEF RetInv
<1> QED BY <1>2, <1>3

\* The look-up of the session.
LEMMA LookupAnswers ==
  ASSUME Ready, common_callback
  PROVE  AnswerInv'
<1> USE DEF Ready, AnswerInv
<1>1. /\ Len(reps') = Len(reps) - 1 /\ Len(reps) \in Nat \ {0} /\ 1 \in 1 .. Len(reps)
      /\ \A i \in 1 .. Len(reps') : i + 1 \in 1 .. Len(reps) /\ reps'[i] = reps[i + 1]
      /\ wpc = "idle" /\ wcur = NULL
      /\ \/ slot # NULL /\ wpc' = "match" /\ wcur' = cur /\ wmsg' = reps[1]
         \/ slot = NULL /\ UNCHANGED <<wpc, wcur, wmsg>>
      /\ UNCHANGED answer
  BY TakesFirst
<1>2. ~Takes /\ CallbackStep
  BY <1>1 DEF Takes, session_callback, CallbackStep
<1>3. /\ UNCHANGED <<slot, pc, cur, op, ret, cmds, alive, log, executed, expired, lost>>
      /\ cur # NULL => /\ mem'[cur].handle = mem[cur].handle
                       /\ mem'[cur].failed = mem[cur].failed
                       /\ mem'[cur].expected = mem[cur].expected
  BY <1>2, WorkerView
<1>4. \A m : Good(m) => Good(m)'
  BY <1>1, <1>3 DEF Good, Known, Own, Excused, Posted
<1>5. PendInv'
  <2>1. ASSUME NEW i \in 1 .. Len(reps') PROVE Good(reps[i])'
    <3>1. Good(reps[i + 1]) /\ reps'[i] = reps[i + 1]
      BY <1>1 DEF PendInv
    <3> QED BY <1>1, <1>3, <3>1 DEF Good, Known, Own, Excused, Posted
  <2>2. ASSUME NEW i \in 1 .. Len(cmds') PROVE Good(cmds[i])'
    BY <1>1, <1>3 DEF PendInv, Good, Known, Own, Excused, Posted
  <2>3. ASSUME wpc' = "match" PROVE Good(wmsg)'
    <3>1. wmsg' = reps[1] /\ Good(reps[1])
      BY <1>1, <2>3 DEF PendInv
    <3> QED BY <1>1, <1>3, <3>1 DEF Good, Known, Own, Excused, Posted
  <2> QED BY <2>1, <2>2, <2>3 DEF PendInv
<1>6. WireInv'
  <2>0. /\ \A i, j \in 1 .. Len(cmds) : i < j => cmds[i].id < cmds[j].id
        /\ \A i, j \in 1 .. Len(reps) : i < j => reps[i].id < reps[j].id
        /\ \A i \in 1 .. Len(reps), j \in 1 .. Len(cmds) : reps[i].id < cmds[j].id
    BY DEF WireInv
  <2>1. \A i, j \in 1 .. Len(reps') : i < j => reps'[i].id < reps'[j].id
    <3>1. ASSUME NEW i \in 1 .. Len(reps'), NEW j \in 1 .. Len(reps'), i < j
          PROVE  reps'[i].id < reps'[j].id
      <4>1. i + 1 \in 1 .. Len(reps) /\ j + 1 \in 1 .. Len(reps) /\ i + 1 < j + 1
        BY <1>1, <3>1
      <4>2. reps'[i] = reps[i + 1] /\ reps'[j] = reps[j + 1]
        BY <1>1
      <4> QED BY <2>0, <4>1, <4>2
    <3> QED BY <3>1
  <2>2. \A i \in 1 .. Len(reps'), j \in 1 .. Len(cmds') : reps'[i].id < cmds'[j].id
    BY <1>1, <1>3, <2>0
  <2>3. wpc' = "match" => \A i \in 1 .. Len(reps') : wmsg'.id < reps'[i].id
    <3>1. \A i \in 1 .. Len(reps') : 1 < i + 1
      BY <1>1
    <3> QED BY <1>1, <2>0, <3>1
  <2>4. wpc' = "match" => \A i \in 1 .. Len(cmds') : wmsg'.id < cmds'[i].id
    BY <1>1, <1>3, <2>0
  <2> QED BY <1>3, <2>0, <2>1, <2>2, <2>3, <2>4 DEF WireInv
<1>7. ExecInv' /\ HistInv'
  BY <1>1, <1>3 DEF ExecInv, HistInv
<1>8. ~Stale'
  BY <1>1, <1>3 DEF Stale
<1>9. \A n \in Nat : Unanswered(n) => Unanswered(n)'
  BY <1>1, <1>3 DEF Unanswered
<1>10. CallInv' /\ RetInv'
  BY <1>1, <1>3, <1>9, CallFrame, MessageTypes, NamesAssumption DEF IInv, MemInv
<1> QED BY <1>5, <1>6, <1>7, <1>8, <1>10 DEF StaleInv

\* What an accepted answer tells the caller's call.
LEMMA AcceptedBy ==
  ASSUME Ready, Takes
  PROVE  /\ cur \in Sessions /\ wpc = "match" /\ answer' = wmsg.id
         /\ wmsg.op = mem[cur].expected /\ mem[cur].expected # NULL
         /\ wmsg.id \in 1 .. Len(log) /\ log[wmsg.id] = wmsg.op /\ answer < wmsg.id
         /\ Own(wmsg) \/ Excused(wmsg)
         /\ ~wmsg.failed => wmsg.id \in executed
<1>1. wpc = "match" /\ answer' = wmsg.id /\ wmsg.op = mem[cur].expected
  BY DEF Takes, session_callback, accepts
<1>2. wmsg.op # NULL /\ cur \in Sessions
  BY <1>1, MessageTypes, NamesAssumption DEF Ready, IInv, TypeInv, CallTyped, Opcodes, Takes
<1>3. Good(wmsg) /\ (~wmsg.failed => wmsg.id \in executed)
  BY <1>1 DEF Ready, AnswerInv, PendInv, ExecInv
<1> QED BY <1>1, <1>2, <1>3 DEF Good, Known

\* The match.
LEMMA MatchAnswers ==
  ASSUME Ready, session_callback
  PROVE  AnswerInv'
<1> USE DEF Ready, AnswerInv
<1>1. /\ wpc = "match" /\ wpc' = "put" /\ wcur' = wcur /\ wmsg' = wmsg /\ reps' = reps
      /\ wcur \in Sessions /\ wcur # NULL
      /\ \/ accepts(mem[wcur], wmsg) /\ answer' = wmsg.id
         \/ ~accepts(mem[wcur], wmsg) /\ answer' = answer
  BY NamesAssumption DEF session_callback, wire, IInv, TypeInv, CallTyped
<1>2. /\ UNCHANGED <<slot, pc, cur, op, ret, cmds, alive, log, executed, expired, lost>>
      /\ Takes => /\ cur \in Sessions /\ mem'[cur].handle = wmsg.src
                  /\ mem'[cur].failed = wmsg.failed /\ mem'[cur].expected = NULL
      /\ ~Takes /\ cur # NULL => /\ mem'[cur].handle = mem[cur].handle
                                 /\ mem'[cur].failed = mem[cur].failed
                                 /\ mem'[cur].expected = mem[cur].expected
  BY WorkerView DEF CallbackStep
<1>3. /\ wmsg.id \in 1 .. Len(log) /\ answer < wmsg.id /\ Len(log) \in Nat
      /\ \A i \in 1 .. Len(reps) : wmsg.id < reps[i].id
      /\ \A i \in 1 .. Len(cmds) : wmsg.id < cmds[i].id
  BY <1>1, MessageTypes DEF PendInv, WireInv, Good, Known
<1>4. PendInv' /\ HistInv'
  <2>1. \A m : Good(m) /\ wmsg.id < m.id => Good(m)'
    BY <1>1, <1>2 DEF Good, Known, Own, Excused, Posted
  <2>2. ASSUME NEW i \in 1 .. Len(reps') PROVE Good(reps[i])'
    <3>1. Good(reps[i]) /\ wmsg.id < reps[i].id /\ reps'[i] = reps[i]
      BY <1>1, <1>3 DEF PendInv
    <3> QED BY <2>1, <3>1 DEF Good, Known, Own, Excused
  <2>3. ASSUME NEW i \in 1 .. Len(cmds') PROVE Good(cmds[i])'
    <3>1. Good(cmds[i]) /\ wmsg.id < cmds[i].id /\ cmds'[i] = cmds[i]
      BY <1>2, <1>3 DEF PendInv
    <3> QED BY <2>1, <3>1 DEF Good, Known, Own, Excused
  <2>4. HistInv'
    BY <1>1, <1>2, <1>3 DEF HistInv
  <2> QED BY <1>1, <2>2, <2>3, <2>4 DEF PendInv
<1>5. WireInv' /\ ExecInv'
  BY <1>1, <1>2 DEF WireInv, ExecInv
<1>6. \A n \in Nat : Unanswered(n) => Unanswered(n)'
  BY <1>1, <1>2 DEF Unanswered
<1>7. CASE Takes
  <2>1. /\ answer' = wmsg.id
        /\ wmsg.op = mem[cur].expected /\ mem[cur].expected # NULL
        /\ log[wmsg.id] = wmsg.op
        /\ Own(wmsg) \/ Excused(wmsg)
        /\ ~wmsg.failed => wmsg.id \in executed
    BY <1>7, AcceptedBy
  <2>2. ~Stale'
    BY <1>1, <1>2, <1>7 DEF Stale, Takes
  <2>3. CallInv'
    <3>1. Posted' => Len(log') # 0 /\ log'[Len(log')] = op'
      BY <1>2 DEF CallInv, Posted
    <3>2. ASSUME pc \in {"post", "wait", "expired"}
          PROVE  Answered' /\ (~mem'[cur].failed => answer' \in executed')
      <4>1. wmsg.op = op
        BY <2>1, <3>2 DEF CallInv
      <4>2. Answered'
        BY <1>2, <1>3, <2>1, <4>1 DEF Answered, Own, Excused, Posted
      <4> QED BY <1>2, <1>7, <2>1, <4>2
    <3> QED BY <1>2, <1>7, <3>1, <3>2 DEF CallInv
  <2>4. RetInv'
    <3>1. pc = "ret" => ret = "unsent" /\ Unanswered(Len(log))
      BY <2>1 DEF RetInv
    <3>2. pc = "ret" => wmsg.id < Len(log)
      BY <1>1, <1>3, <3>1 DEF Unanswered
    <3> QED BY <1>2, <1>3, <1>6, <2>1, <3>1, <3>2 DEF RetInv
  <2> QED BY <1>4, <1>5, <2>2, <2>3, <2>4 DEF StaleInv
<1>8. CASE ~Takes /\ answer' = answer
  <2>1. CallInv' /\ RetInv'
    BY <1>2, <1>3, <1>6, <1>8, CallFrame, NamesAssumption DEF IInv, MemInv
  <2>2. StaleInv'
    BY <1>1, <1>2, <1>8 DEF StaleInv, Stale, Posted
  <2> QED BY <1>4, <1>5, <2>1, <2>2
<1>9. CASE ~Takes /\ answer' = wmsg.id
  <2>1. cur = NULL \/ Stale
    <3>1. answer < wmsg.id /\ answer \in Nat
      BY <1>3 DEF IInv, TypeInv, TypeOK
    <3>2. answer' # answer
      BY <1>9, <3>1
    <3> QED BY <1>1, <1>9, <3>2 DEF Takes, Stale
  <2>2. CASE cur = NULL
    <3>1. pc = "idle"
      BY <2>2 DEF IInv, MemInv
    <3> QED BY <1>2, <1>4, <1>5, <2>2, <3>1 DEF CallInv, RetInv, StaleInv, Stale, Posted
  <2>3. CASE Stale
    <3>1. /\ mem[cur].handle = NULL /\ pc # "owned"
          /\ pc \in {"arm", "post", "wait", "expired", "ret"} => op = CREATE
          /\ pc \in {"post", "wait", "expired"} => mem[cur].expected = CREATE
          /\ pc = "ret" => ret \in {"timeout", "unsent"}
          /\ Posted => answer' < Len(log)
      BY <1>1, <1>9, <2>3 DEF StaleInv
    <3>2. /\ mem'[cur].handle = mem[cur].handle
          /\ mem'[cur].failed = mem[cur].failed
          /\ mem'[cur].expected = mem[cur].expected
      BY <1>2, <1>9, <2>3 DEF Stale
    <3>3. Posted' = Posted
      BY <1>2 DEF Posted
    <3>4. StaleInv'
      BY <1>1, <1>2, <3>1, <3>2, <3>3 DEF StaleInv
    <3>5. CallInv'
      BY <1>2, <3>1, <3>2, <3>3, NamesAssumption DEF CallInv, Posted
    <3>6. RetInv'
      BY <1>2, <1>3, <1>6, <3>1, <3>2, <3>3 DEF RetInv, Posted
    <3> QED BY <1>4, <1>5, <3>4, <3>5, <3>6
  <2> QED BY <2>1, <2>2, <2>3
<1> QED BY <1>1, <1>7, <1>8, <1>9

\* The reference is dropped.
LEMMA PutAnswers ==
  ASSUME Ready, callback_put
  PROVE  AnswerInv'
<1> USE DEF Ready, AnswerInv
<1>1. wpc = "put" /\ wpc' = "idle" /\ wcur' = NULL /\ reps' = reps /\ answer' = answer
  BY DEF callback_put, wire, ghosts
<1>2. ~Takes /\ CallbackStep
  BY <1>1 DEF Takes, session_callback, CallbackStep
<1>3. /\ UNCHANGED <<slot, pc, cur, op, ret, cmds, alive, log, executed, expired, lost>>
      /\ cur # NULL => /\ mem'[cur].handle = mem[cur].handle
                       /\ mem'[cur].failed = mem[cur].failed
                       /\ mem'[cur].expected = mem[cur].expected
  BY <1>2, WorkerView
<1>4. PendInv' /\ WireInv' /\ ExecInv' /\ HistInv'
  BY <1>1, <1>3 DEF PendInv, WireInv, ExecInv, HistInv, Good, Known, Own, Excused, Posted
<1>5. \A n \in Nat : Unanswered(n) => Unanswered(n)'
  BY <1>1, <1>3 DEF Unanswered
<1>6. CallInv' /\ RetInv'
  BY <1>1, <1>3, <1>5, CallFrame, MessageTypes, NamesAssumption DEF IInv, MemInv
<1> QED BY <1>1, <1>4, <1>6 DEF StaleInv, Stale

-----------------------------------------------------------------------------
(* The DSP.                                                                *)

\* What the answer r says of the first command.
Outcome(r) ==
  /\ r.op = cmds[1].op /\ r.id = cmds[1].id
  /\ \/ /\ r.op = CREATE /\ ~r.failed
        /\ r.src \in Handles \ alive /\ alive' = alive \union {r.src}
        /\ executed' = executed \union {r.id}
     \/ /\ r.op # CREATE /\ ~r.failed /\ r.src = cmds[1].dest
        /\ alive' = IF r.op = DESTROY THEN alive \ {r.src} ELSE alive
        /\ executed' = executed \union {r.id}
     \/ /\ r.failed /\ r.src = cmds[1].dest
        /\ UNCHANGED <<alive, executed>>

Adds(r) ==
  /\ Len(reps') = Len(reps) + 1 /\ reps'[Len(reps) + 1] = r
  /\ \A i \in 1 .. Len(reps) : reps'[i] = reps[i] /\ i \in 1 .. Len(reps')
  /\ \A i \in 1 .. Len(reps') : i \in 1 .. Len(reps) \/ i = Len(reps) + 1

\* The first command leaves the wire, and its answer may enter it.
LEMMA Serves ==
  ASSUME IInv, dsp_serves
  PROVE  /\ Len(cmds') = Len(cmds) - 1 /\ Len(cmds) \in Nat \ {0} /\ 1 \in 1 .. Len(cmds)
         /\ \A i \in 1 .. Len(cmds') : i + 1 \in 1 .. Len(cmds) /\ cmds'[i] = cmds[i + 1]
         /\ UNCHANGED <<mem, slot, pc, cur, op, ret, wpc, wcur, wmsg, log, answer, expired, lost>>
         /\ \E r : r \in Answer /\ Outcome(r) /\ (reps' = reps \/ Adds(r))
<1>1. cmds \in Seq(Command) /\ cmds # <<>> /\ cmds' = Tail(cmds) /\ reps \in Seq(Answer)
  BY DEF IInv, TypeInv, TypeOK, dsp_serves
<1>2. /\ Len(cmds) \in Nat \ {0} /\ Len(Tail(cmds)) = Len(cmds) - 1
      /\ Head(cmds) = cmds[1] /\ 1 \in 1 .. Len(cmds)
      /\ \A i \in 1 .. Len(Tail(cmds)) : i + 1 \in 1 .. Len(cmds) /\ Tail(cmds)[i] = cmds[i + 1]
  BY <1>1, TailFacts
<1>3. UNCHANGED <<mem, slot, pc, cur, op, ret, wpc, wcur, wmsg, log, answer, expired, lost>>
  BY DEF dsp_serves, caller, worker
<1>4. ASSUME NEW r \in Answer, MayAnswer(r) PROVE reps' = reps \/ Adds(r)
  <2>1. CASE reps' = reps
    BY <2>1
  <2>2. CASE reps' = Append(reps, r)
    <3>1. \A S, s, e, t : s \in Seq(S) /\ e \in S /\ t = Append(s, e) =>
            /\ Len(t) = Len(s) + 1 /\ t[Len(s) + 1] = e
            /\ \A i \in 1 .. Len(s) : t[i] = s[i] /\ i \in 1 .. Len(t)
            /\ \A i \in 1 .. Len(t) : i \in 1 .. Len(s) \/ i = Len(s) + 1
      BY AppendFacts
    <3> QED BY <1>1, <1>4, <2>2, <3>1 DEF Adds
  <2> QED BY <1>4, <2>1, <2>2 DEF MayAnswer
<1>5. cmds[1] \in Command
  BY <1>1, <1>2
<1> DEFINE c == cmds[1]
<1>6. /\ c.op \in Opcodes /\ c.dest \in Handles \union {NULL} /\ c.id \in Nat
  BY <1>5 DEF Command
<1>7. CASE /\ c.op = CREATE
           /\ \E h \in Handles \ alive : alive' = alive \union {h} /\ MayAnswer(Reply(c, FALSE, h))
           /\ executed' = executed \union {c.id}
  <2>1. PICK h \in Handles \ alive : alive' = alive \union {h} /\ MayAnswer(Reply(c, FALSE, h))
    BY <1>7
  <2>2. Reply(c, FALSE, h) \in Answer /\ Outcome(Reply(c, FALSE, h))
    BY <1>6, <1>7, <2>1 DEF Reply, Answer, Outcome
  <2> QED BY <1>1, <1>2, <1>3, <1>4, <2>1, <2>2
<1>8. CASE /\ c.op # CREATE
           /\ alive' = IF c.op = DESTROY THEN alive \ {c.dest} ELSE alive
           /\ MayAnswer(Reply(c, FALSE, c.dest))
           /\ executed' = executed \union {c.id}
  <2>1. Reply(c, FALSE, c.dest) \in Answer /\ Outcome(Reply(c, FALSE, c.dest))
    BY <1>6, <1>8 DEF Reply, Answer, Outcome
  <2> QED BY <1>1, <1>2, <1>3, <1>4, <1>8, <2>1
<1>9. CASE MayAnswer(Reply(c, TRUE, c.dest)) /\ UNCHANGED <<alive, executed>>
  <2>1. Reply(c, TRUE, c.dest) \in Answer /\ Outcome(Reply(c, TRUE, c.dest))
    BY <1>6, <1>9 DEF Reply, Answer, Outcome
  <2> QED BY <1>1, <1>2, <1>3, <1>4, <1>9, <2>1
<1> QED BY <1>2, <1>7, <1>8, <1>9 DEF dsp_serves

\* An answer has the number of its command, and comes after those before it.
LEMMA DspAnswers ==
  ASSUME Ready, dsp_serves
  PROVE  AnswerInv'
<1> USE DEF Ready, AnswerInv
<1>1. /\ Len(cmds') = Len(cmds) - 1 /\ Len(cmds) \in Nat \ {0} /\ 1 \in 1 .. Len(cmds)
      /\ \A i \in 1 .. Len(cmds') : i + 1 \in 1 .. Len(cmds) /\ cmds'[i] = cmds[i + 1]
      /\ UNCHANGED <<mem, slot, pc, cur, op, ret, wpc, wcur, wmsg, log, answer, expired, lost>>
  BY Serves
<1>2. PICK r : r \in Answer /\ Outcome(r) /\ (reps' = reps \/ Adds(r))
  BY Serves
<1>3. r.op = cmds[1].op /\ r.id = cmds[1].id /\ r.id \in Nat
  BY <1>2 DEF Outcome, Answer
<1>4. /\ executed' = executed \/ executed' = executed \union {r.id}
      /\ ~r.failed => r.id \in executed'
  BY <1>2 DEF Outcome
<1>5. \A i \in 1 .. Len(reps') : \/ i \in 1 .. Len(reps) /\ reps'[i] = reps[i]
                                 \/ i = Len(reps) + 1 /\ reps'[i] = r
  BY <1>2 DEF Adds
<1>6. Len(reps) \in Nat /\ Len(log) \in Nat
  BY MessageTypes
<1>7. r.id \in 1 .. Len(log) /\ Good(cmds[1])
  BY <1>1, <1>3 DEF PendInv, Good, Known
<1>8. PendInv'
  <2>1. \A m : Good(m) => Good(m)'
    BY <1>1 DEF Good, Known, Own, Excused, Posted
  <2>2. Good(r)
    BY <1>3, <1>7 DEF Good, Known, Own, Excused
  <2>3. ASSUME NEW i \in 1 .. Len(reps') PROVE Good(reps[i])'
    <3>1. PICK m : Good(m) /\ reps'[i] = m
      BY <1>5, <2>2 DEF PendInv
    <3> QED BY <2>1, <3>1 DEF Good, Known, Own, Excused
  <2>4. ASSUME NEW i \in 1 .. Len(cmds') PROVE Good(cmds[i])'
    <3>1. PICK m : Good(m) /\ cmds'[i] = m
      BY <1>1 DEF PendInv
    <3> QED BY <2>1, <3>1 DEF Good, Known, Own, Excused
  <2>5. ASSUME wpc' = "match" PROVE Good(wmsg)'
    <3>1. PICK m : Good(m) /\ wmsg' = m
      BY <1>1, <2>5 DEF PendInv
    <3> QED BY <2>1, <3>1 DEF Good, Known, Own, Excused
  <2> QED BY <2>3, <2>4, <2>5 DEF PendInv
<1>9. WireInv'
  <2>0. /\ \A i, j \in 1 .. Len(cmds) : i < j => cmds[i].id < cmds[j].id
        /\ \A i, j \in 1 .. Len(reps) : i < j => reps[i].id < reps[j].id
        /\ \A i \in 1 .. Len(reps), j \in 1 .. Len(cmds) : reps[i].id < cmds[j].id
    BY DEF WireInv
  <2>1. \A i, j \in 1 .. Len(cmds') : i < j => cmds'[i].id < cmds'[j].id
    <3>1. ASSUME NEW i \in 1 .. Len(cmds'), NEW j \in 1 .. Len(cmds'), i < j
          PROVE  cmds'[i].id < cmds'[j].id
      <4>1. i + 1 \in 1 .. Len(cmds) /\ j + 1 \in 1 .. Len(cmds) /\ i + 1 < j + 1
        BY <1>1, <3>1
      <4>2. cmds'[i] = cmds[i + 1] /\ cmds'[j] = cmds[j + 1]
        BY <1>1
      <4> QED BY <2>0, <4>1, <4>2
    <3> QED BY <3>1
  <2>2. \A j \in 1 .. Len(cmds') : r.id < cmds'[j].id
    <3>1. ASSUME NEW j \in 1 .. Len(cmds') PROVE r.id < cmds'[j].id
      <4>1. j + 1 \in 1 .. Len(cmds) /\ 1 < j + 1 /\ cmds'[j] = cmds[j + 1]
        BY <1>1
      <4> QED BY <1>1, <1>3, <2>0, <4>1
    <3> QED BY <3>1
  <2>3. \A i \in 1 .. Len(reps) : reps[i].id < r.id
    BY <1>1, <1>3, <2>0
  <2>4. \A i, j \in 1 .. Len(reps') : i < j => reps'[i].id < reps'[j].id
    BY <1>5, <1>6, <2>0, <2>3
  <2>5. \A i \in 1 .. Len(reps'), j \in 1 .. Len(cmds') : reps'[i].id < cmds'[j].id
    BY <1>1, <1>5, <2>0, <2>2
  <2>6. wpc' = "match" => \A i \in 1 .. Len(reps') : wmsg'.id < reps'[i].id
    BY <1>1, <1>3, <1>5 DEF WireInv
  <2>7. wpc' = "match" => \A i \in 1 .. Len(cmds') : wmsg'.id < cmds'[i].id
    BY <1>1 DEF WireInv
  <2> QED BY <2>1, <2>4, <2>5, <2>6, <2>7 DEF WireInv
<1>10. ExecInv'
  <2>1. executed' \subseteq 1 .. Len(log')
    BY <1>1, <1>4, <1>7 DEF ExecInv
  <2>2. \A i \in 1 .. Len(cmds') : cmds'[i].id \notin executed'
    <3>1. ASSUME NEW i \in 1 .. Len(cmds') PROVE cmds'[i].id \notin executed'
      <4>1. i + 1 \in 1 .. Len(cmds) /\ 1 < i + 1 /\ cmds'[i] = cmds[i + 1]
        BY <1>1
      <4>2. cmds[1].id < cmds[i + 1].id
        BY <1>1, <4>1 DEF WireInv
      <4>3. cmds[i + 1].id # r.id
        BY <1>3, <4>2
      <4>4. cmds[i + 1].id \notin executed
        BY <4>1 DEF ExecInv
      <4> QED BY <1>4, <4>1, <4>3, <4>4
    <3> QED BY <3>1
  <2>3. \A i \in 1 .. Len(reps') : ~reps'[i].failed => reps'[i].id \in executed'
    BY <1>4, <1>5 DEF ExecInv
  <2>4. wpc' = "match" /\ ~wmsg'.failed => wmsg'.id \in executed'
    BY <1>1, <1>4 DEF ExecInv
  <2> QED BY <2>1, <2>2, <2>3, <2>4 DEF ExecInv
<1>11. \A n \in Nat : Unanswered(n) => Unanswered(n)'
  BY <1>1, <1>3, <1>5 DEF Unanswered
<1>12. Answered' = Answered /\ Posted' = Posted /\ Stale' = Stale /\ executed \subseteq executed'
  BY <1>1, <1>4 DEF Answered, Posted, Stale
<1>13. CallInv' /\ StaleInv' /\ HistInv'
  BY <1>1, <1>12 DEF CallInv, StaleInv, HistInv
<1>14. RetInv'
  BY <1>1, <1>6, <1>11, <1>12 DEF RetInv
<1> QED BY <1>8, <1>9, <1>10, <1>13, <1>14

-----------------------------------------------------------------------------
(* The invariant, and that success is the DSP's.                           *)

\* A kernel that starts has sent nothing.
LEMMA InitAnswers == Init => AnswerInv
<1> SUFFICES ASSUME Init PROVE AnswerInv
  OBVIOUS
<1>1. Len(log) = 0 /\ Len(cmds) = 0 /\ Len(reps) = 0 /\ pc = "idle" /\ wpc = "idle" /\ cur = NULL
      /\ executed = {} /\ expired = {} /\ answer = 0
  BY DEF Init
<1>2. PendInv /\ WireInv /\ ExecInv /\ HistInv
  BY <1>1 DEF PendInv, WireInv, ExecInv, HistInv
<1>3. CallInv /\ RetInv /\ StaleInv
  BY <1>1 DEF CallInv, RetInv, StaleInv, Stale, Posted
<1> QED BY <1>2, <1>3 DEF AnswerInv

\* All the steps together.
LEMMA AnswersStep ==
  ASSUME Ready, [Next]_vars
  PROVE  AnswerInv'
<1>1. CASE UNCHANGED vars
  <2>1. /\ UNCHANGED <<mem, pc, cur, op, ret, cmds, reps, wpc, wcur, wmsg>>
        /\ UNCHANGED <<log, executed, answer, expired>>
    BY <1>1 DEF vars, caller, wire, worker, ghosts
  <2>2. /\ PendInv' = PendInv /\ WireInv' = WireInv /\ ExecInv' = ExecInv /\ HistInv' = HistInv
    BY <2>1 DEF PendInv, WireInv, ExecInv, HistInv, Good, Known, Own, Excused, Posted
  <2>3. CallInv' = CallInv /\ RetInv' = RetInv /\ StaleInv' = StaleInv
    BY <2>1 DEF CallInv, RetInv, StaleInv, Stale, Answered, Posted, Unanswered
  <2> QED BY <2>2, <2>3 DEF Ready, AnswerInv
<1>2. CASE QuietStep
  BY <1>2, QuietPending, QuietCall DEF AnswerInv
<1>3. CASE common_send_post
  BY <1>3, PostAnswers
<1>4. CASE common_callback \/ session_callback \/ callback_put
  BY <1>4, LookupAnswers, MatchAnswers, PutAnswers
<1>5. CASE dsp_serves
  BY <1>5, DspAnswers
<1> QED BY <1>1, <1>2, <1>3, <1>4, <1>5 DEF Next, CallStep, CallbackStep, QuietStep

\* Memory, handles and answers are kept together.
LEMMA ReadyStep ==
  ASSUME Ready, [Next]_vars
  PROVE  Ready'
<1>1. IInv'
  BY TypeStep, MemoryStep DEF Ready, IInv
<1>2. HandleInv'
  BY HandleStep DEF Ready
<1> QED BY <1>1, <1>2, AnswersStep DEF Ready

\* Whose answers are under way, and which the present call has taken: the
\* invariant of the session layer.
THEOREM SessionInvariant == Spec => []Ready
<1>1. Ready /\ [Next]_vars => Ready'
  BY ReadyStep
<1>2. Init => Ready
  BY InitIInv, InitHandleInv, InitAnswers DEF Ready
<1> QED BY <1>1, <1>2, PTL DEF Spec

\* OkMeansExecuted: a call of common_send that returned 0 was answered for a
\* command the DSP executed, its own unless an earlier one of its opcode had
\* timed out; however answers are delayed, and whatever the worker overtakes.
THEOREM SuccessIsExecution == Spec => []OkMeansExecuted
<1>1. Ready => OkMeansExecuted
  <2> SUFFICES ASSUME Ready, pc = "ret", ret = "ok" PROVE OkMeansExecuted
    BY DEF OkMeansExecuted
  <2>1. Answered /\ answer \in executed
    BY DEF Ready, AnswerInv, RetInv
  <2> QED BY <2>1 DEF Answered, OkMeansExecuted
<1> QED BY <1>1, SessionInvariant, PTL

-----------------------------------------------------------------------------
(* The refinement of Q6Call.  First the mapping's terms, by name.          *)

TheCall == IF InCall THEN op ELSE NULL
IsDone  == Posted /\ Len(log) \in executed
Outlook == IF ~InCall THEN "none"
           ELSE IF pc = "ret" THEN IF ret \in {"ok", "failed"} THEN ret ELSE "error"
           ELSE IF mem[cur].expected # NULL THEN "none"
           ELSE IF mem[cur].failed THEN "failed" ELSE "ok"
IsOwn   == Posted /\ answer = Len(log)
Earlier(m) == Posted => m.id # Len(log)
Owed    == {m.op : m \in {q \in Pending : Earlier(q)}}

\* The contract's actions in these terms: something owed is forgotten, or
\* nothing happens.
LEMMA ContractForgets ==
  ASSUME UNCHANGED <<TheCall, IsDone, Outlook, IsOwn>>, Owed' \subseteq Owed
  PROVE  Contract!Next
BY DEF Contract!Next, Contract!Forget, TheCall, IsDone, Outlook, IsOwn, Owed, Earlier

\* A call begins.
LEMMA ContractBegins ==
  ASSUME TheCall = NULL, TheCall' \in Opcodes, UNCHANGED <<IsDone, Outlook, IsOwn, Owed>>
  PROVE  Contract!Next
BY DEF Contract!Next, Contract!Begin, TheCall, IsDone, Outlook, IsOwn, Owed, Earlier

\* The command in progress is executed.
LEMMA ContractExecutes ==
  ASSUME TheCall # NULL, ~IsDone, IsDone', UNCHANGED <<TheCall, Outlook, IsOwn, Owed>>
  PROVE  Contract!Next
BY DEF Contract!Next, Contract!Execute, TheCall, IsDone, Outlook, IsOwn, Owed, Earlier

\* It is answered, and nothing older is under way any more.
LEMMA ContractAnswers ==
  ASSUME TheCall # NULL, Outlook = "none",
         (IsDone /\ Outlook' = "ok") \/ Outlook' = "failed",
         IsOwn', Owed' = {}, UNCHANGED <<TheCall, IsDone>>
  PROVE  Contract!Next
BY DEF Contract!Next, Contract!OwnAnswer, TheCall, IsDone, Outlook, IsOwn, Owed, Earlier

\* A late answer is taken for it.
LEMMA ContractAnswersLate ==
  ASSUME TheCall \in Owed, Outlook = "none", Outlook' \in {"ok", "failed"},
         Owed' \subseteq Owed, UNCHANGED <<TheCall, IsDone, IsOwn>>
  PROVE  Contract!Next
BY DEF Contract!Next, Contract!LateAnswer, TheCall, IsDone, Outlook, IsOwn, Owed, Earlier

\* It is given up, whatever its outcome was to be.
LEMMA ContractGivesUp ==
  ASSUME TheCall # NULL, Outlook' = "error", UNCHANGED <<TheCall, IsDone, IsOwn, Owed>>
  PROVE  Contract!Next
BY DEF Contract!Next, Contract!GiveUp, TheCall, IsDone, Outlook, IsOwn, Owed, Earlier

\* It returns; what it leaves unanswered is owed.
LEMMA ContractReturns ==
  ASSUME TheCall # NULL, Outlook # "none",
         Owed' = Owed \/ (~IsOwn /\ Owed' = Owed \union {TheCall}),
         TheCall' = NULL, ~IsDone', Outlook' = "none", ~IsOwn'
  PROVE  Contract!Next
BY DEF Contract!Next, Contract!Return, TheCall, IsDone, Outlook, IsOwn, Owed, Earlier

\* The pending messages, by their places.
PendingIs ==
  \A m : m \in Pending <=> \/ \E i \in 1 .. Len(cmds) : m = cmds[i]
                           \/ \E i \in 1 .. Len(reps) : m = reps[i]
                           \/ wpc = "match" /\ m = wmsg

\* The places cover the set, since the wires are sequences.
LEMMA PendingForm == IInv => PendingIs
<1> SUFFICES ASSUME IInv PROVE PendingIs
  OBVIOUS
<1>0. \A S, s : s \in Seq(S) => DOMAIN s = 1 .. Len(s)
  OBVIOUS
<1>1. cmds \in Seq(Command) /\ reps \in Seq(Answer)
  BY DEF IInv, TypeInv, TypeOK
<1>2. DOMAIN cmds = 1 .. Len(cmds) /\ DOMAIN reps = 1 .. Len(reps)
  BY <1>0, <1>1
<1> QED BY <1>2 DEF Pending, PendingIs

\* So they do before and after a step.
LEMMA PendingForms ==
  ASSUME Ready, [Next]_vars
  PROVE  PendingIs /\ PendingIs'
<1>1. Ready'
  BY ReadyStep
<1>2. IInv /\ IInv'
  BY <1>1 DEF Ready
<1> QED BY <1>2, PendingForm, PTL

\* Each of them is good, and has a number and an opcode.
LEMMA PendingGood ==
  ASSUME Ready, NEW m \in Pending
  PROVE  Good(m) /\ m.id \in Nat /\ m.id \in 1 .. Len(log) /\ m.op \in Opcodes /\ m.op = log[m.id]
<1>1. PendingIs
  BY PendingForm DEF Ready
<1>2. Good(m) /\ m.id \in Nat /\ m.op \in Opcodes
  BY <1>1, MessageTypes DEF Ready, AnswerInv, PendInv, PendingIs
<1> QED BY <1>2 DEF Good, Known

\* What is owed goes with the pending messages.
LEMMA OwedShrinks ==
  ASSUME \A m \in Pending' : \E n \in Pending : n.op = m.op /\ n.id = m.id,
         Posted' = Posted, Len(log') = Len(log)
  PROVE  Owed' \subseteq Owed
<1>1. ASSUME NEW m \in Pending', Earlier(m)' PROVE m.op \in Owed
  <2>1. PICK n \in Pending : n.op = m.op /\ n.id = m.id
    OBVIOUS
  <2>2. Earlier(n)
    BY <1>1, <2>1 DEF Earlier
  <2> QED BY <2>1, <2>2 DEF Owed
<1>2. ASSUME NEW o, o \in Owed' PROVE o \in Owed
  <2>1. PICK m \in Pending' : Earlier(m)' /\ o = m.op
    BY <1>2 DEF Owed
  <2> QED BY <1>1, <2>1
<1> QED BY <1>2

\* What is owed stays while the messages and their places in time do.
LEMMA OwedStays ==
  ASSUME Pending' = Pending, \A m \in Pending : Earlier(m)' <=> Earlier(m)
  PROVE  Owed' = Owed
BY DEF Owed

\* Nothing is pending that was not before.
LEMMA PendingSame ==
  ASSUME IInv, UNCHANGED <<cmds, reps, wpc, wmsg>>
  PROVE  Pending' = Pending
BY DEF Pending

\* Before and between the calls the contract has nothing to say.
LEMMA ContractIdle ==
  ASSUME Ready, ~InCall, ~InCall', UNCHANGED <<cmds, reps, wpc, wmsg>>
  PROVE  Contract!Next
<1>1. ~Posted /\ ~Posted'
  BY DEF InCall, Posted
<1>2. Owed' = Owed
  BY <1>1, OwedStays, PendingSame DEF Ready, Earlier
<1>3. TheCall = NULL /\ TheCall' = NULL
  BY DEF TheCall
<1>4. Outlook = "none" /\ Outlook' = "none"
  BY DEF Outlook
<1>5. IsDone' = IsDone /\ IsOwn' = IsOwn
  BY <1>1 DEF IsDone, IsOwn
<1> QED BY <1>2, <1>3, <1>4, <1>5, ContractForgets

\* What a return leaves pending of the present call's is owed from now on.
LEMMA OwedAtReturn ==
  ASSUME Ready, pc = "ret", ~Posted', UNCHANGED <<cmds, reps, wpc, wmsg>>
  PROVE  Owed' = Owed \/ (~IsOwn /\ Owed' = Owed \union {op})
<1>1. Pending' = Pending /\ Posted
  BY PendingSame DEF Ready, Posted
<1>2. \A m \in Pending : Earlier(m)' /\ (Earlier(m) <=> m.id # Len(log))
  BY <1>1 DEF Earlier
<1>3. Owed' = {m.op : m \in Pending}
  BY <1>1, <1>2 DEF Owed
<1>4. Owed = {m.op : m \in {q \in Pending : q.id # Len(log)}}
  BY <1>2 DEF Owed
<1>5. CASE \A m \in Pending : m.id # Len(log)
  BY <1>3, <1>4, <1>5
<1>6. CASE \E m \in Pending : m.id = Len(log)
  <2>1. PICK m \in Pending : m.id = Len(log)
    BY <1>6
  <2>2. \A n \in Pending : n.id = Len(log) => n.op = op
    BY <1>1, PendingGood DEF Ready, AnswerInv, CallInv
  <2>3. answer < m.id
    BY PendingGood DEF Good
  <2>4. answer # Len(log)
    BY <2>1, <2>3, PendingGood DEF Ready, IInv, TypeInv, TypeOK
  <2>5. ~IsOwn
    BY <2>4 DEF IsOwn
  <2>6. m.op = op
    BY <2>1, <2>2
  <2>7. Owed' = Owed \union {op}
    <3>1. ASSUME NEW o, o \in Owed' PROVE o \in Owed \union {op}
      <4>1. PICK n \in Pending : o = n.op
        BY <1>3, <3>1
      <4> QED BY <1>4, <2>2, <4>1
    <3>2. ASSUME NEW o, o \in Owed \union {op} PROVE o \in Owed'
      BY <1>3, <1>4, <2>6, <3>2
    <3> QED BY <3>1, <3>2
  <2> QED BY <2>5, <2>7
<1> QED BY <1>5, <1>6

\* A quiet step begins a call, ends it, or is no concern of the contract.
LEMMA ContractQuiet ==
  ASSUME Ready, QuietStep
  PROVE  Contract!Next
<1> USE DEF Ready
<1>1. UNCHANGED <<cmds, reps, wpc, wcur, wmsg, log, executed, answer>>
  BY QuietFrame
<1>2. Pending' = Pending
  BY <1>1, PendingSame
<1>t. /\ pc \in {"arm", "post", "wait", "expired", "ret"} => op \in Opcodes
      /\ NULL \notin Opcodes
  BY NamesAssumption DEF IInv, TypeInv, CallTyped, Opcodes
<1>3. CASE session_create \/ session_command \/ session_release \/ release_clear \/ release_put
  <2>1. ~InCall /\ ~InCall'
    BY <1>3, NamesAssumption DEF session_create, session_command, session_release, release_begins,
       release_clear, release_put, Goto, InCall
  <2> QED BY <1>1, <2>1, ContractIdle
<1>4. CASE common_send_arm
  <2>1. pc = "arm" /\ pc' = "post" /\ op' = op /\ cur' = cur /\ mem'[cur].expected = op
    BY <1>4, QuietView DEF common_send_arm, session_create, release_put, common_send_expired, Goto
  <2>2. ~Posted /\ ~Posted' /\ ~InCall /\ InCall'
    BY <2>1 DEF Posted, InCall
  <2>3. Owed' = Owed
    BY <1>2, <2>2, OwedStays DEF Earlier
  <2>4. TheCall = NULL /\ TheCall' = op
    BY <2>1, <2>2 DEF TheCall
  <2>5. Outlook = "none" /\ Outlook' = "none"
    BY <1>t, <2>1, <2>2 DEF Outlook
  <2>6. IsDone' = IsDone /\ IsOwn' = IsOwn
    BY <2>2 DEF IsDone, IsOwn
  <2> QED BY <1>t, <2>1, <2>3, <2>4, <2>5, <2>6, ContractBegins
<1>5. CASE common_send_done \/ common_send_timeout
  <2>1. /\ op' = op /\ cur' = cur /\ mem' = mem /\ pc = "wait"
        /\ \/ /\ pc' = "ret" /\ mem[cur].expected = NULL
              /\ ret' = IF mem[cur].failed THEN "failed" ELSE "ok"
           \/ pc' = "expired" /\ mem[cur].expected # NULL
    BY <1>5 DEF common_send_done, common_send_timeout, Goto
  <2>2. Posted /\ Posted' /\ InCall /\ InCall'
    BY <2>1 DEF Posted, InCall
  <2>3. Owed' = Owed
    BY <1>1, <1>2, <2>2, OwedStays DEF Earlier
  <2>4. TheCall' = TheCall
    BY <2>1, <2>2 DEF TheCall
  <2>5. Outlook' = Outlook
    <3>1. CASE pc' = "ret"
      BY <2>1, <2>2, <3>1 DEF Outlook
    <3>2. CASE pc' = "expired"
      BY <2>1, <2>2, <3>2 DEF Outlook
    <3> QED BY <2>1, <3>1, <3>2
  <2>6. IsDone' = IsDone /\ IsOwn' = IsOwn
    BY <1>1, <2>2 DEF IsDone, IsOwn
  <2> QED BY <2>3, <2>4, <2>5, <2>6, ContractForgets
<1>6. CASE common_send_expired
  <2>1. pc = "expired" /\ pc' = "ret" /\ op' = op /\ ret' = "timeout"
    BY <1>6 DEF common_send_expired, Goto
  <2>2. Posted /\ Posted' /\ InCall /\ InCall'
    BY <2>1 DEF Posted, InCall
  <2>3. Owed' = Owed
    BY <1>1, <1>2, <2>2, OwedStays DEF Earlier
  <2>4. TheCall' = TheCall /\ TheCall # NULL
    BY <1>t, <2>1, <2>2 DEF TheCall
  <2>5. Outlook' = "error"
    BY <2>1, <2>2 DEF Outlook
  <2>6. IsDone' = IsDone /\ IsOwn' = IsOwn
    BY <1>1, <2>2 DEF IsDone, IsOwn
  <2> QED BY <2>3, <2>4, <2>5, <2>6, ContractGivesUp
<1>7. CASE common_send_return
  <2>1. pc = "ret" /\ pc' \in {"owned", "arm", "clear"}
    BY <1>7 DEF common_send_return, release_begins, Goto
  <2>2. Posted /\ ~Posted' /\ InCall /\ ~InCall'
    BY <2>1 DEF Posted, InCall
  <2>3. Owed' = Owed \/ (~IsOwn /\ Owed' = Owed \union {op})
    BY <1>1, <2>1, <2>2, OwedAtReturn
  <2>4. TheCall = op /\ op # NULL /\ TheCall' = NULL
    BY <1>t, <2>1, <2>2 DEF TheCall
  <2>5. Outlook # "none" /\ Outlook' = "none"
    BY <2>1, <2>2 DEF Outlook
  <2>6. ~IsDone' /\ ~IsOwn'
    BY <2>2 DEF IsDone, IsOwn
  <2>7. Owed' = Owed \/ (~IsOwn /\ Owed' = Owed \union {TheCall})
    BY <2>3, <2>4
  <2>8. TheCall # NULL
    BY <2>4
  <2> QED BY <2>4, <2>5, <2>6, <2>7, <2>8, ContractReturns
<1> QED BY <1>3, <1>4, <1>5, <1>6, <1>7 DEF QuietStep

\* Posting changes nothing for the contract; failing to is giving up.
LEMMA ContractPost ==
  ASSUME Ready, common_send_post
  PROVE  Contract!Next
<1> USE DEF Ready
<1>1. /\ pc = "post" /\ pc' \in {"wait", "ret"} /\ Posted' /\ ~Posted /\ InCall /\ InCall'
      /\ UNCHANGED <<mem, cur, op, reps, wpc, wcur, wmsg, executed, answer, expired>>
  BY DEF common_send_post, Goto, worker, Posted, InCall
<1>2. /\ Len(log) \in Nat /\ Len(log') = Len(log) + 1
      /\ \A m : m.id \in Nat /\ Good(m) => m.id # Len(log')
  BY LogGrows
<1>3. Len(log') \notin executed /\ answer # Len(log')
  BY <1>2 DEF AnswerInv, ExecInv, HistInv
<1>4. IsDone' = IsDone /\ IsOwn' = IsOwn
  BY <1>1, <1>3 DEF IsDone, IsOwn
<1>5. TheCall' = TheCall /\ TheCall # NULL
  BY <1>1, NamesAssumption DEF TheCall, IInv, TypeInv, CallTyped, Opcodes
<1>6. PendingIs /\ PendingIs'
  BY PendingForms DEF Next, CallStep
<1>7. \A m \in Pending : m.id # Len(log')
  BY <1>2, PendingGood
<1>8. Owed = {m.op : m \in Pending}
  BY <1>1 DEF Owed, Earlier
<1>9. Owed' = {m.op : m \in {q \in Pending' : q.id # Len(log')}}
  BY <1>1 DEF Owed, Earlier
<1>10. CASE UNCHANGED cmds
  <2>1. Pending' = Pending
    BY <1>1, <1>10, PendingSame
  <2>2. Owed' = Owed
    BY <1>7, <1>8, <1>9, <2>1
  <2>3. pc' = "ret" /\ ret' = "unsent"
    <3>1. ASSUME NEW c, cmds' = Append(cmds, c) PROVE FALSE
      BY <1>10, <3>1, MessageTypes
    <3> QED BY <3>1 DEF common_send_post, Goto
  <2>4. Outlook' = "error"
    BY <1>1, <2>3 DEF Outlook
  <2> QED BY <1>4, <1>5, <2>2, <2>4, ContractGivesUp
<1>11. CASE ~UNCHANGED cmds
  <2>1. /\ pc' = "wait"
        /\ Len(cmds) \in Nat /\ Len(cmds') = Len(cmds) + 1
        /\ cmds'[Len(cmds) + 1].op = op /\ cmds'[Len(cmds) + 1].id = Len(log')
        /\ \A i \in 1 .. Len(cmds) : cmds'[i] = cmds[i] /\ i \in 1 .. Len(cmds')
        /\ \A i \in 1 .. Len(cmds') : i \in 1 .. Len(cmds) \/ i = Len(cmds) + 1
    BY <1>11, PostWire
  <2>2. \A m : m \in Pending' /\ m.id # Len(log') => m \in Pending
    BY <1>1, <1>6, <2>1 DEF PendingIs
  <2>3. \A m : m \in Pending => m \in Pending'
    BY <1>1, <1>6, <2>1 DEF PendingIs
  <2>4. {q \in Pending' : q.id # Len(log')} = Pending
    BY <1>7, <2>2, <2>3
  <2>5. Owed' = Owed
    BY <1>8, <1>9, <2>4
  <2>6. Outlook' = Outlook
    BY <1>1, <2>1 DEF Outlook
  <2> QED BY <1>4, <1>5, <2>5, <2>6, ContractForgets
<1> QED BY <1>10, <1>11

\* The worker takes an answer, drops it, or leaves the session: at most it
\* forgets what was owed.
LEMMA ContractWorker ==
  ASSUME Ready, CallbackStep, ~Takes, UNCHANGED IsOwn
  PROVE  Contract!Next
<1> USE DEF Ready
<1>1. /\ UNCHANGED <<slot, pc, cur, op, ret, cmds, alive, log, executed, expired, lost>>
      /\ cur # NULL => /\ mem'[cur].handle = mem[cur].handle
                       /\ mem'[cur].failed = mem[cur].failed
                       /\ mem'[cur].expected = mem[cur].expected
  BY WorkerView
<1>2. Posted' = Posted /\ InCall' = InCall
  BY <1>1 DEF Posted, InCall
<1>3. UNCHANGED <<TheCall, IsDone>>
  BY <1>1, <1>2 DEF TheCall, IsDone
<1>4. Outlook' = Outlook
  <2>1. InCall => cur # NULL
    BY DEF InCall, IInv, MemInv
  <2>2. CASE InCall
    BY <1>1, <1>2, <2>1, <2>2 DEF Outlook
  <2>3. CASE ~InCall
    BY <1>2, <2>3 DEF Outlook
  <2> QED BY <2>2, <2>3
<1>5. PendingIs /\ PendingIs'
  BY PendingForms DEF Next
<1>6. \A m \in Pending' : m \in Pending
  <2>1. CASE common_callback
    <3>1. /\ \A i \in 1 .. Len(reps') : i + 1 \in 1 .. Len(reps) /\ reps'[i] = reps[i + 1]
          /\ 1 \in 1 .. Len(reps) /\ wpc = "idle"
          /\ \/ slot # NULL /\ wpc' = "match" /\ wcur' = cur /\ wmsg' = reps[1]
             \/ slot = NULL /\ UNCHANGED <<wpc, wcur, wmsg>>
      BY <2>1, TakesFirst
    <3> QED BY <1>1, <1>5, <3>1 DEF PendingIs
  <2>2. CASE session_callback \/ callback_put
    <3>1. reps' = reps /\ wpc' \in {"put", "idle"}
      BY <2>2 DEF session_callback, callback_put, wire
    <3> QED BY <1>1, <1>5, <3>1 DEF PendingIs
  <2> QED BY <2>1, <2>2 DEF CallbackStep
<1>7. Owed' \subseteq Owed
  BY <1>1, <1>2, <1>6, OwedShrinks
<1> QED BY <1>3, <1>4, <1>7, ContractForgets

\* A match: the call's own answer, or a late one of an earlier call; outside
\* of a call, and for a session that is gone, it means nothing.
LEMMA ContractMatch ==
  ASSUME Ready, session_callback
  PROVE  Contract!Next
<1> USE DEF Ready
<1>1. /\ wpc = "match" /\ wpc' = "put" /\ wcur' = wcur /\ wmsg' = wmsg /\ reps' = reps
      /\ \/ accepts(mem[wcur], wmsg) /\ answer' = wmsg.id
         \/ ~accepts(mem[wcur], wmsg) /\ answer' = answer
  BY DEF session_callback, wire
<1>2. /\ UNCHANGED <<slot, pc, cur, op, ret, cmds, alive, log, executed, expired, lost>>
      /\ Takes => /\ cur \in Sessions /\ mem'[cur].handle = wmsg.src
                  /\ mem'[cur].failed = wmsg.failed /\ mem'[cur].expected = NULL
  BY WorkerView DEF CallbackStep
<1>3. Posted' = Posted /\ InCall' = InCall
  BY <1>2 DEF Posted, InCall
<1>4. UNCHANGED <<TheCall, IsDone>>
  BY <1>2, <1>3 DEF TheCall, IsDone
<1>5. wmsg.id \in 1 .. Len(log) /\ answer < wmsg.id /\ Len(log) \in Nat /\ answer \in Nat
  BY <1>1, MessageTypes DEF AnswerInv, PendInv, Good, Known, IInv, TypeInv, TypeOK
<1>6. ~IsOwn
  BY <1>5 DEF IsOwn
<1>7. PendingIs /\ PendingIs'
  BY PendingForms DEF Next, CallbackStep
<1>8. \A m \in Pending' : m \in Pending /\ wmsg.id < m.id
  <2>1. \A m \in Pending' : \/ \E i \in 1 .. Len(cmds) : m = cmds[i]
                            \/ \E i \in 1 .. Len(reps) : m = reps[i]
    BY <1>1, <1>2, <1>7 DEF PendingIs
  <2> QED BY <1>1, <1>7, <2>1 DEF PendingIs, AnswerInv, WireInv
<1>9. Owed' \subseteq Owed
  BY <1>2, <1>3, <1>8, OwedShrinks
<1>10. CASE Takes
  <2>1. /\ answer' = wmsg.id
        /\ wmsg.op = mem[cur].expected /\ mem[cur].expected # NULL
        /\ ~wmsg.failed => wmsg.id \in executed
    BY <1>10, AcceptedBy
  <2>2. CASE pc \in {"post", "wait", "expired"}
    <3>1. wmsg.op = op /\ InCall
      BY <2>1, <2>2 DEF AnswerInv, CallInv, InCall
    <3>2. TheCall = op /\ TheCall # NULL
      BY <2>1, <3>1 DEF TheCall
    <3>3. Outlook = "none"
      BY <2>1, <2>2, <3>1 DEF Outlook
    <3>4. Outlook' = IF wmsg.failed THEN "failed" ELSE "ok"
      BY <1>2, <1>3, <1>10, <2>2, <3>1 DEF Outlook
    <3>5. CASE Own(wmsg)
      <4>1. Posted /\ wmsg.id = Len(log)
        BY <3>5 DEF Own
      <4>2. IsOwn'
        BY <1>2, <1>3, <2>1, <4>1 DEF IsOwn
      <4>3. Owed' = {}
        <5>1. \A m \in Pending' : FALSE
          BY <1>5, <1>8, <4>1, PendingGood
        <5> QED BY <5>1 DEF Owed
      <4>4. (IsDone /\ Outlook' = "ok") \/ Outlook' = "failed"
        BY <2>1, <3>4, <4>1 DEF IsDone
      <4> QED BY <1>4, <3>2, <3>3, <4>2, <4>3, <4>4, ContractAnswers
    <3>6. CASE ~Own(wmsg)
      <4>1. wmsg \in Pending /\ Earlier(wmsg)
        BY <1>1, <1>7, <3>6 DEF PendingIs, Own, Earlier
      <4>2. TheCall \in Owed
        BY <3>1, <3>2, <4>1 DEF Owed
      <4>3. ~IsOwn'
        BY <1>2, <1>3, <2>1, <3>6 DEF IsOwn, Own
      <4>4. Outlook' \in {"ok", "failed"}
        BY <3>4
      <4>5. IsOwn' = IsOwn
        BY <1>6, <4>3 DEF IsOwn
      <4> QED BY <1>4, <1>9, <3>3, <4>2, <4>4, <4>5, ContractAnswersLate
    <3> QED BY <3>5, <3>6
  <2>3. CASE pc = "ret"
    <3>1. Unanswered(Len(log)) /\ InCall
      BY <2>1, <2>3 DEF AnswerInv, RetInv, InCall
    <3>2. ~IsOwn'
      BY <1>1, <1>2, <2>1, <3>1 DEF IsOwn, Unanswered
    <3>3. Outlook' = Outlook
      BY <1>2, <1>3, <2>3, <3>1 DEF Outlook
    <3>4. IsOwn' = IsOwn
      BY <1>6, <3>2 DEF IsOwn
    <3> QED BY <1>4, <1>9, <3>3, <3>4, ContractForgets
  <2>4. CASE ~InCall
    <3>1. Outlook' = Outlook
      BY <1>3, <2>4 DEF Outlook
    <3>2. ~Posted /\ ~Posted'
      BY <1>3, <2>4 DEF InCall, Posted
    <3>3. IsOwn' = IsOwn
      BY <3>2 DEF IsOwn
    <3> QED BY <1>4, <1>9, <3>1, <3>3, ContractForgets
  <2> QED BY <2>2, <2>3, <2>4 DEF InCall
<1>11. CASE ~Takes
  <2>1. ~IsOwn'
    <3>1. CASE answer' = answer
      BY <1>2, <1>3, <1>6, <3>1 DEF IsOwn
    <3>2. CASE answer' # answer /\ Posted
      <4>1. Stale
        BY <1>1, <1>11, <3>2, NamesAssumption
           DEF Takes, Stale, session_callback, Posted, IInv, TypeInv, CallTyped, MemInv
      <4>2. wmsg.id < Len(log)
        BY <1>1, <3>2, <4>1 DEF AnswerInv, StaleInv
      <4> QED BY <1>1, <1>2, <1>5, <3>2, <4>2 DEF IsOwn
    <3>3. CASE ~Posted
      BY <1>3, <3>3 DEF IsOwn
    <3> QED BY <3>1, <3>2, <3>3
  <2>2. IsOwn' = IsOwn
    BY <1>6, <2>1 DEF IsOwn
  <2> QED BY <1>11, <2>2, ContractWorker DEF CallbackStep
<1> QED BY <1>10, <1>11

\* The DSP executes the present command, or an earlier one, or none.
LEMMA ContractDsp ==
  ASSUME Ready, dsp_serves
  PROVE  Contract!Next
<1> USE DEF Ready
<1>1. /\ Len(cmds') = Len(cmds) - 1 /\ Len(cmds) \in Nat \ {0} /\ 1 \in 1 .. Len(cmds)
      /\ \A i \in 1 .. Len(cmds') : i + 1 \in 1 .. Len(cmds) /\ cmds'[i] = cmds[i + 1]
      /\ UNCHANGED <<mem, slot, pc, cur, op, ret, wpc, wcur, wmsg, log, answer, expired, lost>>
  BY Serves
<1>2. PICK r : r \in Answer /\ Outcome(r) /\ (reps' = reps \/ Adds(r))
  BY Serves
<1>3. r.op = cmds[1].op /\ r.id = cmds[1].id
  BY <1>2 DEF Outcome
<1>4. executed' = executed \/ executed' = executed \union {r.id}
  BY <1>2 DEF Outcome
<1>5. \A i \in 1 .. Len(reps') : \/ i \in 1 .. Len(reps) /\ reps'[i] = reps[i]
                                 \/ reps'[i] = r
  BY <1>2 DEF Adds
<1>6. PendingIs /\ PendingIs'
  BY PendingForms DEF Next
<1>7. Posted' = Posted /\ InCall' = InCall
  BY <1>1 DEF Posted, InCall
<1>8. \A m \in Pending' : \E n \in Pending : n.op = m.op /\ n.id = m.id
  <2>1. cmds[1] \in Pending
    BY <1>1, <1>6 DEF PendingIs
  <2>2. \A m \in Pending' : m \in Pending \/ m = r
    BY <1>1, <1>5, <1>6 DEF PendingIs
  <2> QED BY <1>3, <2>1, <2>2
<1>9. Owed' \subseteq Owed
  BY <1>1, <1>7, <1>8, OwedShrinks
<1>10. UNCHANGED <<TheCall, Outlook, IsOwn>>
  BY <1>1, <1>7 DEF TheCall, Outlook, IsOwn
<1>11. CASE IsDone' = IsDone
  BY <1>9, <1>10, <1>11, ContractForgets
<1>12. CASE IsDone' # IsDone
  <2>1. Posted /\ executed' = executed \union {r.id} /\ r.id = Len(log)
    BY <1>1, <1>4, <1>7, <1>12 DEF IsDone
  <2>2. cmds[1].id \notin executed
    BY <1>1 DEF AnswerInv, ExecInv
  <2>3. ~IsDone
    BY <1>3, <2>1, <2>2 DEF IsDone
  <2>4. IsDone'
    BY <1>1, <1>7, <2>1 DEF IsDone
  <2>5. TheCall # NULL
    BY <2>1, NamesAssumption DEF TheCall, Posted, InCall, IInv, TypeInv, CallTyped, Opcodes
  <2>6. Owed \subseteq Owed'
    <3>1. ASSUME NEW m \in Pending, Earlier(m) PROVE m \in Pending'
      <4>1. m.id # r.id
        BY <2>1, <3>1 DEF Earlier
      <4>2. \A i \in 1 .. Len(cmds) : m = cmds[i] => i - 1 \in 1 .. Len(cmds') /\ m = cmds'[i - 1]
        <5>1. ASSUME NEW i \in 1 .. Len(cmds), m = cmds[i]
              PROVE  i - 1 \in 1 .. Len(cmds') /\ m = cmds'[i - 1]
          <6>1. i # 1
            BY <1>3, <4>1, <5>1
          <6>2. i - 1 \in 1 .. Len(cmds') /\ (i - 1) + 1 = i
            BY <1>1, <6>1
          <6> QED BY <1>1, <5>1, <6>2
        <5> QED BY <5>1
      <4>3. \A i \in 1 .. Len(reps) : i \in 1 .. Len(reps') /\ reps'[i] = reps[i]
        BY <1>2 DEF Adds
      <4> QED BY <1>1, <1>6, <4>2, <4>3 DEF PendingIs
    <3>2. ASSUME NEW o, o \in Owed PROVE o \in Owed'
      <4>1. PICK m \in Pending : Earlier(m) /\ o = m.op
        BY <3>2 DEF Owed
      <4>2. m \in Pending'
        BY <3>1, <4>1
      <4>3. Earlier(m)'
        BY <1>1, <1>7, <4>1 DEF Earlier
      <4> QED BY <4>1, <4>2, <4>3 DEF Owed
    <3> QED BY <3>2
  <2>7. Owed' = Owed
    BY <1>9, <2>6
  <2> QED BY <1>10, <2>3, <2>4, <2>5, <2>7, ContractExecutes
<1> QED BY <1>11, <1>12

\* Every step is a step of the contract, or none.
LEMMA ContractStep ==
  ASSUME Ready, [Next]_vars
  PROVE  [Contract!Next]_(Contract!vars)
<1>1. CASE UNCHANGED vars
  BY <1>1 DEF vars, caller, wire, worker, ghosts, Contract!vars, InCall, Posted, Pending
<1>2. CASE QuietStep
  BY <1>2, ContractQuiet
<1>3. CASE common_send_post
  BY <1>3, ContractPost
<1>4. CASE common_callback \/ callback_put
  <2>1. ~Takes /\ answer' = answer /\ UNCHANGED <<pc, log>>
    BY <1>4 DEF Takes, session_callback, common_callback, callback_put, ghosts, caller
  <2>2. IsOwn' = IsOwn
    BY <2>1 DEF IsOwn, Posted
  <2> QED BY <1>4, <2>1, <2>2, ContractWorker DEF CallbackStep
<1>5. CASE session_callback
  BY <1>5, ContractMatch
<1>6. CASE dsp_serves
  BY <1>6, ContractDsp
<1> QED BY <1>1, <1>2, <1>3, <1>4, <1>5, <1>6 DEF Next, CallStep, CallbackStep, QuietStep

\* KeepsContract: the session layer implements Q6Call, whatever the DSP
\* answers, to whichever command, and whenever the callback runs.
THEOREM ContractKept == Spec => KeepsContract
<1>1. Init => Contract!Init
  BY DEF Init, Contract!Init, InCall, Posted, Pending
<1>2. Ready /\ [Next]_vars => [Contract!Next]_(Contract!vars)
  BY ContractStep
<1> QED BY <1>1, <1>2, SessionInvariant, PTL DEF Spec, KeepsContract, Contract!Spec

-----------------------------------------------------------------------------
(* Leaks.  A handle is destroyed at most once: the answer to its destroy,  *)
(* which may come late, never meets a session that got the handle anew.    *)

Serving(h) ==
  /\ h # NULL /\ pc \in {"owned", "arm", "post", "wait", "expired", "ret"}
  /\ mem[cur].handle = h

SpentInv ==
  /\ \A i \in 1 .. Len(cmds) : cmds[i].op = DESTROY => Own(cmds[i]) \/ ~Serving(cmds[i].dest)
  /\ \A i \in 1 .. Len(reps) : reps[i].op = DESTROY =>
       /\ Own(reps[i]) \/ ~Serving(reps[i].src)
       /\ \A j \in 1 .. Len(reps) : j < i /\ Gives(reps[j]) => reps[j].src # reps[i].src
       /\ Delivered => wmsg.src # reps[i].src
  /\ wpc = "match" /\ wmsg.op = DESTROY => Own(wmsg) \/ ~Serving(wmsg.src)

\* So the answer that a destroy takes is its own, and a create that succeeds
\* has a handle.
OutcomeInv ==
  /\ \A i \in 1 .. Len(reps) : reps[i].op = CREATE /\ ~reps[i].failed => reps[i].src # NULL
  /\ wpc = "match" /\ wmsg.op = CREATE /\ ~wmsg.failed => wmsg.src # NULL
  /\ op = CREATE =>
       /\ pc \in {"post", "wait", "expired"} /\ mem[cur].expected = NULL /\ ~mem[cur].failed
            => mem[cur].handle # NULL
       /\ pc = "ret" /\ ret = "ok" => mem[cur].handle # NULL
  /\ op = DESTROY =>
       /\ pc = "post" => mem[cur].expected # NULL
       /\ pc \in {"arm", "post", "wait", "expired", "ret"} => mem[cur].handle # NULL
       /\ pc \in {"wait", "expired"} /\ mem[cur].expected = NULL => answer = Len(log)
       /\ pc = "ret" /\ ret = "ok" => answer = Len(log)

\* The sessions of the DSP, and the creates that may yet make one, against the
\* failures the caller was told of and the session it has.
Creates == {n \in 1 .. Len(log) : \E i \in 1 .. Len(cmds) : cmds[i].op = CREATE /\ cmds[i].id = n}
HasSession ==
  \/ pc = "owned"
  \/ pc \in {"arm", "post"} /\ op # CREATE
  \/ Posted /\ ~(op = DESTROY /\ Len(log) \in executed)

LeakInv ==
  /\ IsFiniteSet(alive)
  /\ Cardinality(alive) + Cardinality(Creates) <= lost + (IF HasSession THEN 1 ELSE 0)

SessionInv == Ready /\ SpentInv /\ OutcomeInv /\ LeakInv

\* There are only so many creates on the wire.
LEMMA CreatesFinite == Len(log) \in Nat => IsFiniteSet(Creates)
<1> SUFFICES ASSUME Len(log) \in Nat PROVE IsFiniteSet(Creates)
  OBVIOUS
<1>1. IsFiniteSet(1 .. Len(log))
  BY FS_Interval
<1> QED BY <1>1, FS_Subset DEF Creates

\* A message of a destroy that no session serves, or that is the call's own,
\* stays one over the quiet steps.
LEMMA QuietSpent ==
  ASSUME Ready, QuietStep, NEW m, NEW h, Known(m), m.op = DESTROY, Own(m) \/ ~Serving(h)
  PROVE  (Own(m) \/ ~Serving(h))'
<1> USE DEF Ready
<1>1. /\ UNCHANGED log
      /\ Posted => Posted' \/ pc = "ret"
  BY QuietFrame
<1>2. SUFFICES ASSUME Serving(h)' PROVE Own(m)'
  BY DEF Serving, Own
<1>3. ~session_create
  <2>1. ASSUME session_create PROVE FALSE
    <3>1. slot = NULL
      BY <2>1 DEF session_create, IInv, MemInv
    <3>2. PICK s \in Sessions : mem' = [mem EXCEPT ![s] = Fresh] /\ cur' = s
      BY <2>1, <3>1 DEF session_create
    <3>3. mem'[cur'].handle = NULL
      BY <3>2 DEF Fresh, IInv, TypeInv, TypeOK
    <3> QED BY <1>2, <3>3 DEF Serving
  <2> QED BY <2>1
<1>4. ~release_put
  BY <1>2 DEF release_put, Goto, Serving
<1>5. cur' = cur /\ mem'[cur].handle = mem[cur].handle
  BY <1>3, <1>4, QuietView
<1>6. pc \in {"owned", "arm", "post", "wait", "expired", "ret"}
  BY <1>2, <1>3, <1>4 DEF QuietStep, session_command, session_release, common_send_arm,
     common_send_done, common_send_timeout, common_send_expired, common_send_return,
     release_clear, Goto, Serving
<1>7. Own(m)
  BY <1>2, <1>5, <1>6 DEF Serving
<1>8. CASE Posted'
  BY <1>1, <1>7, <1>8 DEF Own
<1>9. CASE ~Posted'
  <2>1. pc = "ret" /\ op = DESTROY
    BY <1>1, <1>7, <1>9 DEF Own, Known, AnswerInv, CallInv
  <2>2. common_send_return
    BY <1>3, <1>4, <2>1 DEF QuietStep, session_command, session_release, common_send_arm,
       common_send_done, common_send_timeout, common_send_expired, release_clear
  <2>3. pc' = "clear"
    BY <2>1, <2>2, NamesAssumption DEF common_send_return, Goto
  <2> QED BY <1>2, <2>3 DEF Serving
<1> QED BY <1>8, <1>9

\* The quiet steps and the outcome of the present call.
LEMMA QuietOutcome ==
  ASSUME Ready, OutcomeInv, QuietStep
  PROVE  OutcomeInv'
<1> USE DEF Ready
<1>1. UNCHANGED <<reps, wpc, wmsg, log, answer>>
  BY QuietFrame
<1>2. /\ \A i \in 1 .. Len(reps') : reps'[i].op = CREATE /\ ~reps'[i].failed => reps'[i].src # NULL
      /\ wpc' = "match" /\ wmsg'.op = CREATE /\ ~wmsg'.failed => wmsg'.src # NULL
  BY <1>1 DEF OutcomeInv
<1> DEFINE Own2 ==
      /\ op = CREATE =>
           /\ pc \in {"post", "wait", "expired"} /\ mem[cur].expected = NULL /\ ~mem[cur].failed
                => mem[cur].handle # NULL
           /\ pc = "ret" /\ ret = "ok" => mem[cur].handle # NULL
      /\ op = DESTROY =>
           /\ pc = "post" => mem[cur].expected # NULL
           /\ pc \in {"arm", "post", "wait", "expired", "ret"} => mem[cur].handle # NULL
           /\ pc \in {"wait", "expired"} /\ mem[cur].expected = NULL => answer = Len(log)
           /\ pc = "ret" /\ ret = "ok" => answer = Len(log)
<1>o. Own2
  BY DEF OutcomeInv
<1>s. Own2' => OutcomeInv'
  BY <1>2 DEF OutcomeInv
<1>t. pc \in {"arm", "post", "wait", "expired", "ret"} => op # NULL
  BY NamesAssumption DEF IInv, TypeInv, CallTyped, Opcodes
<1>3. CASE session_create \/ session_command \/ session_release
  <2>1. \/ pc' = "arm" /\ op' # DESTROY
        \/ pc' = "arm" /\ op' = DESTROY /\ mem'[cur'].handle # NULL
        \/ pc' = "clear" \/ pc' = pc
    BY <1>3, NamesAssumption DEF session_create, session_command, session_release, release_begins,
       Goto
  <2>2. pc \in {"idle", "owned"}
    BY <1>3 DEF session_create, session_command, session_release
  <2>3. Own2'
    BY <2>1, <2>2, NamesAssumption
  <2> QED BY <1>s, <2>3
<1>4. CASE common_send_arm
  <2>1. pc = "arm" /\ pc' = "post" /\ op' = op /\ cur' = cur
        /\ mem'[cur].expected = op /\ mem'[cur].handle = mem[cur].handle
    BY <1>4, QuietView DEF common_send_arm, session_create, release_put, common_send_expired, Goto
  <2>2. Own2'
    BY <1>o, <1>t, <2>1, NamesAssumption
  <2> QED BY <1>s, <2>2
<1>5. CASE common_send_done \/ common_send_timeout
  <2>1. /\ op' = op /\ cur' = cur /\ mem' = mem /\ pc = "wait"
        /\ \/ /\ pc' = "ret" /\ mem[cur].expected = NULL
              /\ ret' = IF mem[cur].failed THEN "failed" ELSE "ok"
           \/ pc' = "expired"
    BY <1>5 DEF common_send_done, common_send_timeout, Goto
  <2>2. ret' = "ok" /\ pc' = "ret" => mem[cur].expected = NULL /\ ~mem[cur].failed
    BY <2>1
  <2>3. Own2'
    BY <1>1, <1>o, <2>1, <2>2
  <2> QED BY <1>s, <2>3
<1>6. CASE common_send_expired
  <2>1. pc = "expired" /\ pc' = "ret" /\ ret' = "timeout" /\ op' = op /\ cur' = cur
        /\ mem'[cur].handle = mem[cur].handle
    BY <1>6, QuietView DEF common_send_arm, session_create, release_put, common_send_expired, Goto
  <2>2. Own2'
    BY <1>o, <2>1
  <2> QED BY <1>s, <2>2
<1>7. CASE common_send_return \/ release_clear \/ release_put
  <2>1. \/ pc' \in {"owned", "clear", "put", "idle"}
        \/ pc' = "arm" /\ op' = DESTROY /\ mem'[cur'].handle # NULL
    BY <1>7, NamesAssumption DEF common_send_return, release_begins, release_clear, release_put, Goto
  <2>2. Own2'
    BY <2>1, NamesAssumption
  <2> QED BY <1>s, <2>2
<1> QED BY <1>3, <1>4, <1>5, <1>6, <1>7 DEF QuietStep

\* A quiet step that loses the caller's session reports a failure.
LEMMA QuietLeak ==
  ASSUME Ready, OutcomeInv, LeakInv, QuietStep
  PROVE  LeakInv'
<1> USE DEF Ready
<1>1. UNCHANGED <<cmds, alive, log, executed>>
  BY QuietFrame
<1>2. Creates' = Creates
  BY <1>1 DEF Creates
<1>3. lost \in Nat
  BY DEF IInv, TypeInv, TypeOK
<1>4. \/ lost' = lost + 1
      \/ lost' = lost /\ (HasSession => HasSession')
  <2>1. CASE session_create \/ release_clear \/ release_put
    <3>1. lost' = lost /\ ~HasSession
      BY <2>1 DEF session_create, release_clear, release_put, ghosts, HasSession, Posted
    <3> QED BY <3>1
  <2>2. CASE session_command
    <3>1. lost' = lost /\ HasSession'
      BY <2>2, NamesAssumption DEF session_command, ghosts, HasSession, Goto
    <3> QED BY <3>1
  <2>3. CASE session_release
    <3>1. mem[cur].handle # NULL
      BY <2>3 DEF session_release, HandleInv, NoHandleYet, Keeps
    <3>2. lost' = lost /\ HasSession'
      BY <2>3, <3>1, NamesAssumption DEF session_release, release_begins, ghosts, HasSession, Goto
    <3> QED BY <3>2
  <2>4. CASE common_send_arm
    <3>1. pc = "arm" /\ pc' = "post" /\ op' = op /\ lost' = lost
      BY <2>4 DEF common_send_arm, Goto, ghosts
    <3> QED BY <3>1 DEF HasSession, Posted
  <2>5. CASE common_send_done \/ common_send_timeout \/ common_send_expired
    <3>1. Posted /\ Posted' /\ op' = op /\ lost' = lost /\ pc \notin {"owned", "arm", "post"}
      BY <2>5 DEF common_send_done, common_send_timeout, common_send_expired, Goto, ghosts, Posted
    <3> QED BY <1>1, <3>1 DEF HasSession
  <2>6. CASE common_send_return
    <3>1. pc = "ret" /\ Posted
      BY <2>6 DEF common_send_return, Posted
    <3>2. CASE op \in {CREATE, DESTROY} /\ ret # "ok"
      BY <2>6, <3>2 DEF common_send_return
    <3>3. CASE op = CREATE /\ ret = "ok"
      <4>1. mem[cur].handle # NULL
        BY <3>1, <3>3 DEF OutcomeInv
      <4>2. pc' = "owned" /\ lost' = lost
        BY <2>6, <3>3, <4>1, NamesAssumption DEF common_send_return, Goto
      <4> QED BY <4>2 DEF HasSession
    <3>4. CASE op = DESTROY /\ ret = "ok"
      <4>1. answer = Len(log) /\ answer \in executed
        BY <3>1, <3>4 DEF OutcomeInv, AnswerInv, RetInv
      <4>2. ~HasSession
        BY <3>1, <3>4, <4>1 DEF HasSession
      <4>3. lost' = lost
        BY <2>6, <3>4 DEF common_send_return
      <4> QED BY <4>2, <4>3
    <3>5. CASE op \notin {CREATE, DESTROY}
      <4>1. pc' = "owned" /\ lost' = lost
        BY <2>6, <3>5 DEF common_send_return, Goto
      <4> QED BY <4>1 DEF HasSession
    <3> QED BY <3>2, <3>3, <3>4, <3>5
  <2> QED BY <2>1, <2>2, <2>3, <2>4, <2>5, <2>6 DEF QuietStep
<1> DEFINE a == Cardinality(alive)
           k == Cardinality(Creates)
<1>5. a \in Nat /\ k \in Nat
  BY FS_CardinalityType, CreatesFinite, MessageTypes DEF LeakInv
<1>6. a + k <= lost + (IF HasSession THEN 1 ELSE 0) /\ IsFiniteSet(alive)
  BY DEF LeakInv
<1>7. Cardinality(alive') = a /\ Cardinality(Creates') = k /\ IsFiniteSet(alive')
  BY <1>1, <1>2, <1>6
<1> HIDE DEF a, k
<1>8. a + k <= lost' + (IF HasSession' THEN 1 ELSE 0)
  BY <1>3, <1>4, <1>5, <1>6
<1> QED BY <1>7, <1>8 DEF LeakInv

\* The quiet steps.
LEMMA QuietAccounts ==
  ASSUME SessionInv, QuietStep
  PROVE  SpentInv' /\ OutcomeInv' /\ LeakInv'
<1> USE DEF SessionInv
<1>1. UNCHANGED <<cmds, reps, wpc, wmsg, log>>
  BY QuietFrame
<1>2. /\ \A i \in 1 .. Len(cmds) : Known(cmds[i])
      /\ \A i \in 1 .. Len(reps) : Known(reps[i])
      /\ wpc = "match" => Known(wmsg)
  BY DEF Ready, AnswerInv, PendInv, Good
<1>3. \A m, h : Known(m) /\ m.op = DESTROY /\ (Own(m) \/ ~Serving(h)) => (Own(m) \/ ~Serving(h))'
  BY QuietSpent
<1>4. ASSUME NEW i \in 1 .. Len(cmds), cmds[i].op = DESTROY
      PROVE  (Own(cmds[i]) \/ ~Serving(cmds[i].dest))'
  <2>1. Own(cmds[i]) \/ ~Serving(cmds[i].dest)
    BY <1>4 DEF SpentInv
  <2>2. PICK m, h : m = cmds[i] /\ h = cmds[i].dest
    OBVIOUS
  <2>3. (Own(m) \/ ~Serving(h))'
    BY <1>2, <1>3, <1>4, <2>1, <2>2
  <2> QED BY <1>1, <2>2, <2>3 DEF Own, Serving
<1>5. ASSUME NEW i \in 1 .. Len(reps), reps[i].op = DESTROY
      PROVE  (Own(reps[i]) \/ ~Serving(reps[i].src))'
  <2>1. Own(reps[i]) \/ ~Serving(reps[i].src)
    BY <1>5 DEF SpentInv
  <2>2. PICK m, h : m = reps[i] /\ h = reps[i].src
    OBVIOUS
  <2>3. (Own(m) \/ ~Serving(h))'
    BY <1>2, <1>3, <1>5, <2>1, <2>2
  <2> QED BY <1>1, <2>2, <2>3 DEF Own, Serving
<1>6. ASSUME wpc = "match", wmsg.op = DESTROY
      PROVE  (Own(wmsg) \/ ~Serving(wmsg.src))'
  <2>1. Own(wmsg) \/ ~Serving(wmsg.src)
    BY <1>6 DEF SpentInv
  <2>2. PICK m, h : m = wmsg /\ h = wmsg.src
    OBVIOUS
  <2>3. (Own(m) \/ ~Serving(h))'
    BY <1>2, <1>3, <1>6, <2>1, <2>2
  <2> QED BY <1>1, <2>2, <2>3 DEF Own, Serving
<1>7. Delivered' = Delivered
  BY <1>1 DEF Delivered, Gives
<1>8. SpentInv'
  BY <1>1, <1>4, <1>5, <1>6, <1>7 DEF SpentInv, Gives
<1> QED BY <1>8, QuietOutcome, QuietLeak

\* Posting a create makes it one that may yet make a session; posting a destroy
\* makes its answer the call's own.
LEMMA PostAccounts ==
  ASSUME SessionInv, common_send_post
  PROVE  SpentInv' /\ OutcomeInv' /\ LeakInv'
<1> USE DEF SessionInv
<1>1. /\ pc = "post" /\ pc' \in {"wait", "ret"} /\ Posted' /\ ~Posted
      /\ UNCHANGED <<mem, cur, op, reps, alive, wpc, wcur, wmsg, executed, answer, expired, lost>>
      /\ pc' = "ret" => ret' = "unsent"
  BY DEF common_send_post, Goto, worker, Posted
<1>2. /\ Len(log) \in Nat /\ Len(log') = Len(log) + 1
      /\ \A m : m.id \in Nat /\ Good(m) => m.id # Len(log')
  BY LogGrows
<1>3. /\ \A i \in 1 .. Len(cmds) : cmds[i].id \in Nat /\ Good(cmds[i])
      /\ Len(cmds) \in Nat
  BY MessageTypes DEF Ready, AnswerInv, PendInv
<1>4. Len(log') \notin executed
  BY <1>2 DEF Ready, AnswerInv, ExecInv
<1>5. \A h : Serving(h)' = Serving(h)
  BY <1>1 DEF Serving
<1>6. \A m : ~Own(m)
  BY <1>1 DEF Own
<1>7. Delivered' = Delivered
  BY <1>1 DEF Delivered, Gives
<1>8. HasSession'
  BY <1>1, <1>4 DEF HasSession
<1>9. OutcomeInv'
  <2>1. op = DESTROY => mem[cur].expected # NULL /\ mem[cur].handle # NULL
    BY <1>1 DEF OutcomeInv
  <2>2. op = CREATE /\ mem[cur].expected = NULL /\ ~mem[cur].failed => mem[cur].handle # NULL
    BY <1>1 DEF OutcomeInv
  <2>3. /\ \A i \in 1 .. Len(reps) : reps[i].op = CREATE /\ ~reps[i].failed => reps[i].src # NULL
        /\ wpc = "match" /\ wmsg.op = CREATE /\ ~wmsg.failed => wmsg.src # NULL
    BY DEF OutcomeInv
  <2> QED BY <1>1, <2>1, <2>2, <2>3 DEF OutcomeInv
<1>10. ASSUME \A i \in 1 .. Len(cmds') : \/ i \in 1 .. Len(cmds) /\ cmds'[i] = cmds[i]
                                         \/ cmds'[i].id = Len(log')
       PROVE  SpentInv'
  <2>1. ASSUME NEW i \in 1 .. Len(cmds'), cmds'[i].op = DESTROY
        PROVE  (Own(cmds[i]) \/ ~Serving(cmds[i].dest))'
    <3>1. CASE i \in 1 .. Len(cmds) /\ cmds'[i] = cmds[i]
      <4>1. ~Serving(cmds[i].dest)
        BY <1>6, <2>1, <3>1 DEF SpentInv
      <4> QED BY <1>1, <3>1, <4>1 DEF Serving
    <3>2. CASE cmds'[i].id = Len(log')
      BY <1>1, <3>2 DEF Own
    <3> QED BY <1>10, <2>1, <3>1, <3>2
  <2>2. ASSUME NEW i \in 1 .. Len(reps), reps[i].op = DESTROY
        PROVE  (~Serving(reps[i].src))'
    <3>1. ~Serving(reps[i].src)
      BY <1>6, <2>2 DEF SpentInv
    <3> QED BY <1>1, <3>1 DEF Serving
  <2>3. ASSUME wpc = "match", wmsg.op = DESTROY PROVE (~Serving(wmsg.src))'
    <3>1. ~Serving(wmsg.src)
      BY <1>6, <2>3 DEF SpentInv
    <3> QED BY <1>1, <3>1 DEF Serving
  <2>4. \A i \in 1 .. Len(reps) : reps[i].op = DESTROY =>
          /\ \A j \in 1 .. Len(reps) : j < i /\ Gives(reps[j]) => reps[j].src # reps[i].src
          /\ Delivered => wmsg.src # reps[i].src
    BY DEF SpentInv
  <2> QED BY <1>1, <1>7, <2>1, <2>2, <2>3, <2>4 DEF SpentInv, Gives
<1>11. /\ IsFiniteSet(alive) /\ IsFiniteSet(Creates) /\ Cardinality(alive) \in Nat
       /\ Cardinality(Creates) \in Nat /\ lost \in Nat
       /\ Cardinality(alive) + Cardinality(Creates) <= lost + (IF HasSession THEN 1 ELSE 0)
  BY <1>2, FS_CardinalityType, CreatesFinite DEF LeakInv, Ready, IInv, TypeInv, TypeOK
<1>12. ASSUME Creates' = Creates
      PROVE  LeakInv'
  BY <1>1, <1>8, <1>11, <1>12 DEF LeakInv
<1>13. CASE UNCHANGED cmds
  <2>1. Creates' = Creates
    BY <1>2, <1>3, <1>13 DEF Creates, Good, Known
  <2>2. SpentInv'
    BY <1>10, <1>13
  <2> QED BY <1>9, <1>12, <2>1, <2>2
<1>14. CASE ~UNCHANGED cmds
  <2>1. /\ pc' = "wait"
        /\ Len(cmds') = Len(cmds) + 1
        /\ cmds'[Len(cmds) + 1].op = op /\ cmds'[Len(cmds) + 1].id = Len(log')
        /\ \A i \in 1 .. Len(cmds) : cmds'[i] = cmds[i] /\ i \in 1 .. Len(cmds')
        /\ \A i \in 1 .. Len(cmds') : i \in 1 .. Len(cmds) \/ i = Len(cmds) + 1
    BY <1>14, PostWire
  <2>2. SpentInv'
    BY <1>10, <2>1
  <2>3. \A i \in 1 .. Len(cmds) : cmds[i].id \in 1 .. Len(log) /\ cmds[i].id \in 1 .. Len(log')
    BY <1>2, <1>3 DEF Good, Known
  <2>4. Len(log') \notin Creates /\ Len(log') \in 1 .. Len(log')
    BY <1>2 DEF Creates
  <2>5. CASE op = CREATE
    <3>1. Creates' = Creates \union {Len(log')}
      <4>1. \A n \in Creates' : n \in Creates \/ n = Len(log')
        BY <2>1, <2>3 DEF Creates
      <4>2. Len(log') \in Creates'
        <5>1. Len(cmds) + 1 \in 1 .. Len(cmds')
          BY <1>3, <2>1
        <5> QED BY <2>1, <2>4, <2>5, <5>1 DEF Creates
      <4>3. \A n \in Creates : n \in Creates'
        BY <1>2, <2>1, <2>3 DEF Creates
      <4> QED BY <4>1, <4>2, <4>3
    <3>2. Cardinality(Creates') = Cardinality(Creates) + 1
      BY <1>11, <2>4, <3>1, FS_AddElement
    <3>3. ~HasSession
      BY <1>1, <2>5 DEF HasSession
    <3>4. Cardinality(alive) + Cardinality(Creates) + 1 <= lost + 1
      BY <1>11, <3>3
    <3> DEFINE a == Cardinality(alive)
               k == Cardinality(Creates)
    <3>5. a + (k + 1) <= lost + 1
      BY <1>11, <3>4
    <3>6. LeakInv'
      BY <1>1, <1>8, <1>11, <3>2, <3>5 DEF LeakInv
    <3> QED BY <1>9, <2>2, <3>6
  <2>6. CASE op # CREATE
    <3>1. Creates' = Creates
      <4>1. \A n \in Creates' : n \in Creates
        BY <2>1, <2>3, <2>6 DEF Creates
      <4>2. \A n \in Creates : n \in Creates'
        BY <1>2, <2>1, <2>3 DEF Creates
      <4> QED BY <4>1, <4>2
    <3> QED BY <1>9, <1>12, <2>2, <3>1
  <2> QED BY <2>5, <2>6
<1> QED BY <1>13, <1>14

\* What the accounts see of a worker's step that does not reach the caller.
LEMMA WorkerAside ==
  ASSUME Ready, CallbackStep
  PROVE  /\ \A m : Own(m)' = Own(m)
         /\ Creates' = Creates /\ (LeakInv => LeakInv')
         /\ ~Takes => \A h : Serving(h)' = Serving(h)
<1> USE DEF Ready
<1>1. /\ UNCHANGED <<slot, pc, cur, op, ret, cmds, alive, log, executed, expired, lost>>
      /\ ~Takes /\ cur # NULL => mem'[cur].handle = mem[cur].handle
  BY WorkerView
<1>2. Posted' = Posted
  BY <1>1 DEF Posted
<1>3. \A m : Own(m)' = Own(m)
  BY <1>1, <1>2 DEF Own
<1>4. Creates' = Creates
  BY <1>1 DEF Creates
<1>5. HasSession' = HasSession
  BY <1>1, <1>2 DEF HasSession
<1>6. LeakInv => LeakInv'
  BY <1>1, <1>4, <1>5 DEF LeakInv
<1>7. pc \in {"owned", "arm", "post", "wait", "expired", "ret"} => cur # NULL
  BY DEF IInv, MemInv
<1>8. ~Takes => \A h : Serving(h)' = Serving(h)
  BY <1>1, <1>7 DEF Serving
<1> QED BY <1>3, <1>4, <1>6, <1>8

\* The worker takes a message from the wire.
LEMMA LookupAccounts ==
  ASSUME SessionInv, common_callback
  PROVE  SpentInv' /\ OutcomeInv'
<1> USE DEF SessionInv, Ready
<1>1. /\ Len(reps') = Len(reps) - 1 /\ Len(reps) \in Nat \ {0} /\ 1 \in 1 .. Len(reps)
      /\ \A i \in 1 .. Len(reps') : i + 1 \in 1 .. Len(reps) /\ reps'[i] = reps[i + 1]
      /\ wpc = "idle" /\ wcur = NULL
      /\ \/ slot # NULL /\ wpc' = "match" /\ wcur' = cur /\ wmsg' = reps[1]
         \/ slot = NULL /\ UNCHANGED <<wpc, wcur, wmsg>>
      /\ UNCHANGED answer
  BY TakesFirst
<1>2. ~Takes /\ CallbackStep
  BY <1>1 DEF Takes, session_callback, CallbackStep
<1>3. /\ UNCHANGED <<slot, pc, cur, op, ret, cmds, alive, log, executed, expired, lost>>
      /\ cur # NULL => /\ mem'[cur].handle = mem[cur].handle
                       /\ mem'[cur].failed = mem[cur].failed
                       /\ mem'[cur].expected = mem[cur].expected
  BY <1>2, WorkerView
<1>4. pc \in {"owned", "arm", "post", "wait", "expired", "ret"} => cur # NULL
  BY DEF IInv, MemInv
<1>5. Posted' = Posted
  BY <1>3 DEF Posted
<1>6. SpentInv'
  <2>1. ASSUME NEW i \in 1 .. Len(cmds'), cmds'[i].op = DESTROY
        PROVE  (Own(cmds[i]) \/ ~Serving(cmds[i].dest))'
    <3>1. Own(cmds[i]) \/ ~Serving(cmds[i].dest)
      BY <1>3, <2>1 DEF SpentInv
    <3> QED BY <1>3, <1>4, <1>5, <3>1 DEF Own, Serving
  <2>2. ASSUME NEW i \in 1 .. Len(reps'), reps'[i].op = DESTROY
        PROVE  /\ (Own(reps[i]) \/ ~Serving(reps[i].src))'
               /\ \A j \in 1 .. Len(reps') : j < i /\ Gives(reps'[j]) => reps'[j].src # reps'[i].src
               /\ Delivered' => wmsg'.src # reps'[i].src
    <3>1. i + 1 \in 1 .. Len(reps) /\ reps'[i] = reps[i + 1] /\ 1 < i + 1
      BY <1>1
    <3>2. /\ Own(reps[i + 1]) \/ ~Serving(reps[i + 1].src)
          /\ \A j \in 1 .. Len(reps) : j < i + 1 /\ Gives(reps[j]) => reps[j].src # reps[i + 1].src
      BY <2>2, <3>1 DEF SpentInv
    <3>3. (Own(reps[i]) \/ ~Serving(reps[i].src))'
      BY <1>3, <1>4, <1>5, <3>1, <3>2 DEF Own, Serving
    <3>4. ASSUME NEW j \in 1 .. Len(reps'), j < i, Gives(reps'[j]) PROVE reps'[j].src # reps'[i].src
      <4>1. j + 1 \in 1 .. Len(reps) /\ j + 1 < i + 1 /\ reps'[j] = reps[j + 1]
        BY <1>1, <3>4
      <4> QED BY <3>1, <3>2, <3>4, <4>1
    <3>5. ASSUME Delivered' PROVE wmsg'.src # reps'[i].src
      <4>1. wmsg' = reps[1] /\ Gives(reps[1])
        BY <1>1, <3>5 DEF Delivered, Gives
      <4> QED BY <1>1, <3>1, <3>2, <4>1
    <3> QED BY <3>3, <3>4, <3>5
  <2>3. ASSUME wpc' = "match", wmsg'.op = DESTROY PROVE (Own(wmsg) \/ ~Serving(wmsg.src))'
    <3>1. wmsg' = reps[1]
      BY <1>1, <2>3
    <3>2. Own(reps[1]) \/ ~Serving(reps[1].src)
      BY <1>1, <2>3, <3>1 DEF SpentInv
    <3> QED BY <1>3, <1>4, <1>5, <3>1, <3>2 DEF Own, Serving
  <2> QED BY <2>1, <2>2, <2>3 DEF SpentInv, Gives
<1>7. OutcomeInv'
  <2>1. \A i \in 1 .. Len(reps) : reps[i].op = CREATE /\ ~reps[i].failed => reps[i].src # NULL
    BY DEF OutcomeInv
  <2>2. \A i \in 1 .. Len(reps') : reps'[i].op = CREATE /\ ~reps'[i].failed => reps'[i].src # NULL
    BY <1>1, <2>1
  <2>3. wpc' = "match" /\ wmsg'.op = CREATE /\ ~wmsg'.failed => wmsg'.src # NULL
    BY <1>1, <2>1
  <2> QED BY <1>1, <1>3, <1>4, <2>2, <2>3 DEF OutcomeInv
<1> QED BY <1>6, <1>7

\* An answer that reaches the caller's session: a destroy takes its own only,
\* and a create gets no handle that a destroy has spent.
LEMMA MatchAccounts ==
  ASSUME SessionInv, session_callback
  PROVE  SpentInv' /\ OutcomeInv'
<1> USE DEF SessionInv, Ready
<1>1. /\ wpc = "match" /\ wpc' = "put" /\ wcur' = wcur /\ wmsg' = wmsg /\ reps' = reps
      /\ wcur \in Sessions /\ wcur # NULL /\ wmsg.op # NULL
      /\ \/ accepts(mem[wcur], wmsg) /\ answer' = wmsg.id
         \/ ~accepts(mem[wcur], wmsg) /\ answer' = answer
  BY NamesAssumption DEF session_callback, wire, IInv, TypeInv, CallTyped, Answer, Opcodes
<1>2. /\ UNCHANGED <<slot, pc, cur, op, ret, cmds, alive, log, executed, expired, lost>>
      /\ Takes => /\ cur \in Sessions /\ mem'[cur].handle = wmsg.src
                  /\ mem'[cur].failed = wmsg.failed /\ mem'[cur].expected = NULL
      /\ ~Takes /\ cur # NULL => /\ mem'[cur].handle = mem[cur].handle
                                 /\ mem'[cur].failed = mem[cur].failed
                                 /\ mem'[cur].expected = mem[cur].expected
  BY WorkerView DEF CallbackStep
<1>3. /\ \A m : Own(m)' = Own(m)
      /\ ~Takes => \A h : Serving(h)' = Serving(h)
  BY WorkerAside DEF CallbackStep
<1>4. pc \in {"owned", "arm", "post", "wait", "expired", "ret"} => cur # NULL
  BY DEF IInv, MemInv
<1>p. Posted' = Posted
  BY <1>2 DEF Posted
<1>5. ~Delivered'
  BY <1>1 DEF Delivered
<1>6. ASSUME Takes, mem[cur].handle = NULL,
             pc \in {"owned", "arm", "post", "wait", "expired", "ret"}
      PROVE  op = CREATE /\ wmsg.op = CREATE /\ (wmsg.src # NULL => Delivered)
  <2>1. Keeps
    BY <1>6 DEF OutcomeInv, Keeps
  <2>2. op = CREATE /\ mem[cur].expected \in {NULL, CREATE}
    BY <1>6, <2>1 DEF HandleInv, NoHandleYet
  <2>3. wmsg.op = mem[cur].expected
    BY <1>6 DEF Takes, accepts
  <2> QED BY <1>1, <2>2, <2>3 DEF Delivered, Gives
<1>7. ASSUME NEW h, Serving(h)', ~Serving(h) PROVE Delivered /\ h = wmsg.src
  <2>1. Takes
    BY <1>3, <1>7
  <2>2. pc \in {"owned", "arm", "post", "wait", "expired", "ret"} /\ h = wmsg.src /\ h # NULL
    BY <1>2, <1>7, <2>1 DEF Serving
  <2>3. mem[cur].handle = NULL
    BY <1>7, <2>1, <2>2 DEF Takes, accepts, Serving
  <2> QED BY <1>6, <2>1, <2>2, <2>3
<1>8. SpentInv'
  <2>1. ASSUME NEW i \in 1 .. Len(cmds), cmds[i].op = DESTROY
        PROVE  (Own(cmds[i]) \/ ~Serving(cmds[i].dest))'
    <3>1. Own(cmds[i]) \/ ~Serving(cmds[i].dest)
      BY <2>1 DEF SpentInv
    <3>2. Delivered => wmsg.src # cmds[i].dest
      BY <2>1, MessageTypes DEF HandleInv, DoomedAlive, Doomed
    <3>3. PICK m, h : m = cmds[i] /\ h = cmds[i].dest
      OBVIOUS
    <3>4. (Own(m) \/ ~Serving(h))'
      BY <1>3, <1>7, <3>1, <3>2, <3>3
    <3> QED BY <1>2, <3>3, <3>4 DEF Own, Serving
  <2>2. ASSUME NEW i \in 1 .. Len(reps), reps[i].op = DESTROY
        PROVE  (Own(reps[i]) \/ ~Serving(reps[i].src))'
    <3>1. (Own(reps[i]) \/ ~Serving(reps[i].src)) /\ (Delivered => wmsg.src # reps[i].src)
      BY <2>2 DEF SpentInv
    <3>2. PICK m, h : m = reps[i] /\ h = reps[i].src
      OBVIOUS
    <3>3. (Own(m) \/ ~Serving(h))'
      BY <1>3, <1>7, <3>1, <3>2
    <3> QED BY <1>1, <3>2, <3>3 DEF Own, Serving
  <2>3. \A i \in 1 .. Len(reps) : reps[i].op = DESTROY =>
          \A j \in 1 .. Len(reps) : j < i /\ Gives(reps[j]) => reps[j].src # reps[i].src
    BY DEF SpentInv
  <2> QED BY <1>1, <1>2, <1>5, <2>1, <2>2, <2>3 DEF SpentInv, Gives
<1>o. /\ \A i \in 1 .. Len(reps') : reps'[i].op = CREATE /\ ~reps'[i].failed => reps'[i].src # NULL
      /\ wpc' # "match"
  BY <1>1 DEF OutcomeInv
<1>9. CASE Takes
  <2>1. /\ answer' = wmsg.id
        /\ wmsg.op = mem[cur].expected /\ mem[cur].expected # NULL
    BY <1>9, AcceptedBy
  <2>2. CASE op = CREATE
    <3>1. pc \in {"post", "wait", "expired"} => wmsg.op = CREATE
      BY <2>1, <2>2 DEF AnswerInv, CallInv
    <3>2. wmsg.op = CREATE /\ ~wmsg.failed => wmsg.src # NULL
      BY <1>1 DEF OutcomeInv
    <3>3. ~(pc = "ret" /\ ret = "ok")
      BY <2>1 DEF AnswerInv, RetInv
    <3> QED BY <1>2, <1>8, <1>9, <1>o, <2>2, <3>1, <3>2, <3>3, NamesAssumption DEF OutcomeInv
  <2>3. CASE op = DESTROY
    <3>1. ASSUME pc \in {"arm", "post", "wait", "expired", "ret"}
          PROVE  wmsg.src = mem[cur].handle /\ mem[cur].handle # NULL
      BY <1>9, <2>3, <3>1 DEF OutcomeInv, Takes, accepts
    <3>2. ASSUME pc \in {"post", "wait", "expired"} PROVE Posted /\ wmsg.id = Len(log)
      <4>1. wmsg.op = DESTROY
        BY <2>1, <2>3, <3>2 DEF AnswerInv, CallInv
      <4>2. Serving(wmsg.src)
        BY <3>1, <3>2 DEF Serving
      <4> QED BY <1>1, <4>1, <4>2 DEF SpentInv, Own
    <3>3. pc # "post"
      BY <3>2 DEF Posted
    <3>4. ~(pc = "ret" /\ ret = "ok")
      BY <2>1 DEF AnswerInv, RetInv
    <3> QED BY <1>2, <1>8, <1>9, <1>o, <2>1, <2>3, <3>1, <3>2, <3>3, <3>4, NamesAssumption
            DEF OutcomeInv
  <2>4. CASE op \notin {CREATE, DESTROY}
    BY <1>2, <1>8, <1>o, <2>4 DEF OutcomeInv
  <2> QED BY <2>2, <2>3, <2>4
<1>10. CASE ~Takes /\ answer' = answer
  BY <1>2, <1>4, <1>8, <1>o, <1>10 DEF OutcomeInv
<1>11. CASE ~Takes /\ answer' # answer
  <2>1. cur = NULL \/ Stale
    BY <1>1, <1>11 DEF Takes, Stale
  <2>2. op = DESTROY => pc \notin {"arm", "post", "wait", "expired", "ret"}
    BY <1>4, <2>1, NamesAssumption DEF AnswerInv, StaleInv
  <2> QED BY <1>2, <1>4, <1>8, <1>11, <1>o, <2>2 DEF OutcomeInv
<1> QED BY <1>9, <1>10, <1>11

\* The worker's steps.
LEMMA WorkerAccounts ==
  ASSUME SessionInv, CallbackStep
  PROVE  SpentInv' /\ OutcomeInv' /\ LeakInv'
<1> USE DEF SessionInv
<1>1. LeakInv'
  BY WorkerAside
<1>2. CASE common_callback
  BY <1>1, <1>2, LookupAccounts
<1>3. CASE session_callback
  BY <1>1, <1>3, MatchAccounts
<1>4. CASE callback_put
  <2>1. wpc = "put" /\ wpc' = "idle" /\ reps' = reps /\ answer' = answer /\ ~Takes
    BY <1>4 DEF callback_put, wire, ghosts, Takes, session_callback
  <2>2. /\ UNCHANGED <<slot, pc, cur, op, ret, cmds, alive, log, executed, expired, lost>>
        /\ cur # NULL => /\ mem'[cur].handle = mem[cur].handle
                         /\ mem'[cur].failed = mem[cur].failed
                         /\ mem'[cur].expected = mem[cur].expected
    BY <2>1, WorkerView DEF Ready
  <2>3. pc \in {"owned", "arm", "post", "wait", "expired", "ret"} => cur # NULL
    BY DEF Ready, IInv, MemInv
  <2>4. Posted' = Posted /\ ~Delivered'
    BY <2>1, <2>2 DEF Posted, Delivered
  <2>5. \A h : Serving(h)' = Serving(h)
    BY <2>2, <2>3 DEF Serving
  <2>6. SpentInv'
    <3>1. ASSUME NEW i \in 1 .. Len(cmds), cmds[i].op = DESTROY
          PROVE  (Own(cmds[i]) \/ ~Serving(cmds[i].dest))'
      <4>1. Own(cmds[i]) \/ ~Serving(cmds[i].dest)
        BY <3>1 DEF SpentInv
      <4> QED BY <2>2, <2>3, <2>4, <4>1 DEF Own, Serving
    <3>2. ASSUME NEW i \in 1 .. Len(reps), reps[i].op = DESTROY
          PROVE  (Own(reps[i]) \/ ~Serving(reps[i].src))'
      <4>1. Own(reps[i]) \/ ~Serving(reps[i].src)
        BY <3>2 DEF SpentInv
      <4> QED BY <2>1, <2>2, <2>3, <2>4, <4>1 DEF Own, Serving
    <3>3. \A i \in 1 .. Len(reps) : reps[i].op = DESTROY =>
            \A j \in 1 .. Len(reps) : j < i /\ Gives(reps[j]) => reps[j].src # reps[i].src
      BY DEF SpentInv
    <3> QED BY <2>1, <2>2, <2>4, <3>1, <3>2, <3>3 DEF SpentInv, Gives
  <2>7. OutcomeInv'
    BY <2>1, <2>2, <2>3 DEF OutcomeInv
  <2> QED BY <1>1, <2>6, <2>7
<1> QED BY <1>2, <1>3, <1>4 DEF CallbackStep

\* The first command leaves the wire, and with it a create that may yet make a
\* session.
LEMMA CreateServed ==
  ASSUME Ready, dsp_serves
  PROVE  IF cmds[1].op = CREATE
         THEN cmds[1].id \in Creates /\ Creates' = Creates \ {cmds[1].id}
         ELSE Creates' = Creates
<1>1. /\ Len(cmds') = Len(cmds) - 1 /\ Len(cmds) \in Nat \ {0} /\ 1 \in 1 .. Len(cmds)
      /\ \A i \in 1 .. Len(cmds') : i + 1 \in 1 .. Len(cmds) /\ cmds'[i] = cmds[i + 1]
      /\ UNCHANGED log
  BY Serves DEF Ready
<1>2. \A i \in 1 .. Len(cmds) : cmds[i].id \in 1 .. Len(log) /\ cmds[i].id \in Nat
  BY MessageTypes DEF Ready, AnswerInv, PendInv, Good, Known
<1>3. \A i \in 1 .. Len(cmds) : i = 1 \/ (i - 1 \in 1 .. Len(cmds') /\ cmds'[i - 1] = cmds[i])
  <2>1. ASSUME NEW i \in 1 .. Len(cmds), i # 1
        PROVE  i - 1 \in 1 .. Len(cmds') /\ cmds'[i - 1] = cmds[i]
    <3>1. i - 1 \in 1 .. Len(cmds') /\ (i - 1) + 1 = i
      BY <1>1, <2>1
    <3>2. cmds'[i - 1] = cmds[(i - 1) + 1]
      BY <1>1, <3>1
    <3> QED BY <3>1, <3>2
  <2> QED BY <2>1
<1>4. \A i \in 1 .. Len(cmds') : cmds'[i].id # cmds[1].id
  <2>1. ASSUME NEW i \in 1 .. Len(cmds') PROVE cmds'[i].id # cmds[1].id
    <3>1. i + 1 \in 1 .. Len(cmds) /\ 1 < i + 1 /\ cmds'[i] = cmds[i + 1]
      BY <1>1
    <3>2. cmds[1].id < cmds[i + 1].id
      BY <1>1, <3>1 DEF Ready, AnswerInv, WireInv
    <3> QED BY <1>1, <1>2, <3>1, <3>2
  <2> QED BY <2>1
<1>5. \A n \in Creates' : n \in Creates /\ n # cmds[1].id
  BY <1>1, <1>4 DEF Creates
<1>6. \A n \in Creates : n \in Creates' \/ (n = cmds[1].id /\ cmds[1].op = CREATE)
  <2>1. ASSUME NEW n \in Creates PROVE n \in Creates' \/ (n = cmds[1].id /\ cmds[1].op = CREATE)
    <3>1. PICK i \in 1 .. Len(cmds) : cmds[i].op = CREATE /\ cmds[i].id = n
      BY <2>1 DEF Creates
    <3>2. CASE i = 1
      BY <3>1, <3>2
    <3>3. CASE i # 1
      <4>1. i - 1 \in 1 .. Len(cmds') /\ cmds'[i - 1] = cmds[i] /\ n \in 1 .. Len(log')
        BY <1>1, <1>3, <3>3, <2>1 DEF Creates
      <4> QED BY <3>1, <4>1 DEF Creates
    <3> QED BY <3>2, <3>3
  <2> QED BY <2>1
<1>7. CASE cmds[1].op = CREATE
  <2>1. cmds[1].id \in Creates
    BY <1>1, <1>2, <1>7 DEF Creates
  <2>2. \A n : n \in Creates' <=> n \in Creates /\ n # cmds[1].id
    BY <1>5, <1>6
  <2>3. Creates' = Creates \ {cmds[1].id}
    BY <2>2
  <2> QED BY <1>7, <2>1, <2>3
<1>8. CASE cmds[1].op # CREATE
  <2>1. \A n : n \in Creates' <=> n \in Creates
    BY <1>5, <1>6, <1>8
  <2>2. Creates' = Creates
    BY <2>1
  <2> QED BY <1>8, <2>2
<1> QED BY <1>7, <1>8

\* A create that is served becomes a session of the DSP, or nothing; a destroy
\* that is served ends one.
LEMMA DspLeak ==
  ASSUME Ready, LeakInv, dsp_serves
  PROVE  LeakInv'
<1> USE DEF Ready
<1>1. /\ 1 \in 1 .. Len(cmds)
      /\ UNCHANGED <<mem, slot, pc, cur, op, ret, wpc, wcur, wmsg, log, answer, expired, lost>>
  BY Serves
<1>2. PICK r : r \in Answer /\ Outcome(r) /\ (reps' = reps \/ Adds(r))
  BY Serves
<1>3. r.op = cmds[1].op /\ r.id = cmds[1].id /\ log[r.id] = r.op
  BY <1>1, <1>2 DEF Outcome, AnswerInv, PendInv, Good, Known
<1>4. Posted' = Posted
  BY <1>1 DEF Posted
<1>5. HasSession /\ ~HasSession' => r.op = DESTROY /\ executed' # executed
  <2>1. ASSUME HasSession, ~HasSession' PROVE r.op = DESTROY /\ executed' # executed
    <3>1. Posted /\ op = DESTROY /\ Len(log) \in executed' /\ Len(log) \notin executed
      BY <1>1, <1>4, <2>1 DEF HasSession
    <3>2. executed' = executed \union {r.id}
      BY <1>2, <3>1 DEF Outcome
    <3>3. r.id = Len(log)
      BY <3>1, <3>2
    <3>4. log[Len(log)] = op
      BY <3>1 DEF AnswerInv, CallInv
    <3> QED BY <1>3, <3>1, <3>3, <3>4
  <2> QED BY <2>1
<1>6. /\ IsFiniteSet(alive) /\ IsFiniteSet(Creates) /\ lost \in Nat
      /\ Cardinality(alive) + Cardinality(Creates) <= lost + (IF HasSession THEN 1 ELSE 0)
  BY CreatesFinite, MessageTypes DEF LeakInv, IInv, TypeInv, TypeOK
<1>7. Cardinality(alive) \in Nat /\ Cardinality(Creates) \in Nat
  BY <1>6, FS_CardinalityType
<1>8. IF r.op = CREATE THEN Cardinality(Creates') = Cardinality(Creates) - 1
                       ELSE Cardinality(Creates') = Cardinality(Creates)
  <2>1. IF r.op = CREATE THEN r.id \in Creates /\ Creates' = Creates \ {r.id}
                         ELSE Creates' = Creates
    BY <1>3, CreateServed
  <2> QED BY <1>6, <2>1, FS_RemoveElement
<1> DEFINE a == Cardinality(alive)
           k == Cardinality(Creates)
           h == IF HasSession THEN 1 ELSE 0
<1>9. /\ a \in Nat /\ k \in Nat /\ a + k <= lost + h
      /\ h \in 0 .. 1 /\ (HasSession => h = 1) /\ (~HasSession => h = 0)
  BY <1>6, <1>7
<1>10. CASE r.op = CREATE /\ ~r.failed
  <2>1. r.src \in Handles \ alive /\ alive' = alive \union {r.src}
    BY <1>2, <1>10 DEF Outcome
  <2>2. Cardinality(alive') = a + 1 /\ IsFiniteSet(alive')
    BY <1>6, <2>1, FS_AddElement
  <2>3. Cardinality(Creates') = k - 1
    BY <1>8, <1>10
  <2>4. HasSession => HasSession'
    BY <1>5, <1>10, NamesAssumption
  <2> HIDE DEF a, k, h
  <2>5. (a + 1) + (k - 1) <= lost + (IF HasSession' THEN 1 ELSE 0)
    BY <1>6, <1>9, <2>4
  <2> QED BY <1>1, <2>2, <2>3, <2>5 DEF LeakInv
<1>11. CASE r.op = DESTROY /\ ~r.failed
  <2>1. r.src = cmds[1].dest /\ alive' = alive \ {r.src}
    BY <1>2, <1>11, NamesAssumption DEF Outcome
  <2>2. r.src \in alive
    BY <1>1, <1>3, <1>11, <2>1 DEF HandleInv, DoomedAlive, Doomed
  <2>3. Cardinality(alive') = a - 1 /\ IsFiniteSet(alive')
    BY <1>6, <2>1, <2>2, FS_RemoveElement
  <2>4. Cardinality(Creates') = k
    BY <1>8, <1>11, NamesAssumption
  <2> HIDE DEF a, k, h
  <2>5. (a - 1) + k <= lost + (IF HasSession' THEN 1 ELSE 0)
    BY <1>6, <1>9
  <2> QED BY <1>1, <2>3, <2>4, <2>5 DEF LeakInv
<1>12. CASE r.failed \/ r.op \notin {CREATE, DESTROY}
  <2>1. alive' = alive /\ (r.failed => executed' = executed)
    BY <1>2, <1>12 DEF Outcome
  <2>2. Cardinality(Creates') \in {k, k - 1}
    BY <1>8
  <2>3. HasSession => HasSession'
    BY <1>5, <1>12, <2>1
  <2>4. IsFiniteSet(alive') /\ Cardinality(alive') = a
    BY <1>6, <2>1
  <2> DEFINE n == Cardinality(Creates')
  <2>5. n \in {k, k - 1}
    BY <2>2
  <2> HIDE DEF a, k, h, n
  <2>6. a + n <= lost + (IF HasSession' THEN 1 ELSE 0)
    BY <1>6, <1>9, <2>3, <2>5
  <2> QED BY <1>1, <2>4, <2>6 DEF LeakInv, n
<1> QED BY <1>2, <1>10, <1>11, <1>12 DEF Answer

\* The DSP answers the destroy that spent a handle, and gives a handle with
\* every create.
LEMMA DspAccounts ==
  ASSUME SessionInv, dsp_serves
  PROVE  SpentInv' /\ OutcomeInv' /\ LeakInv'
<1> USE DEF SessionInv, Ready
<1>1. /\ Len(cmds') = Len(cmds) - 1 /\ Len(cmds) \in Nat \ {0} /\ 1 \in 1 .. Len(cmds)
      /\ \A i \in 1 .. Len(cmds') : i + 1 \in 1 .. Len(cmds) /\ cmds'[i] = cmds[i + 1]
      /\ UNCHANGED <<mem, slot, pc, cur, op, ret, wpc, wcur, wmsg, log, answer, expired, lost>>
  BY Serves
<1>2. PICK r : r \in Answer /\ Outcome(r) /\ (reps' = reps \/ Adds(r))
  BY Serves
<1>3. r.op = cmds[1].op /\ r.id = cmds[1].id
  BY <1>2 DEF Outcome
<1>4. \A i \in 1 .. Len(reps') : \/ i \in 1 .. Len(reps) /\ reps'[i] = reps[i]
                                 \/ i = Len(reps) + 1 /\ reps'[i] = r
  BY <1>2 DEF Adds
<1>5. Len(reps) \in Nat
  BY MessageTypes
<1>6. Posted' = Posted /\ Delivered' = Delivered
  BY <1>1 DEF Posted, Delivered, Gives
<1>7. r.op = DESTROY => r.src = cmds[1].dest
  BY <1>2, NamesAssumption DEF Outcome
<1>8. SpentInv'
  <2>1. ASSUME NEW i \in 1 .. Len(cmds'), cmds'[i].op = DESTROY
        PROVE  (Own(cmds[i]) \/ ~Serving(cmds[i].dest))'
    <3>1. i + 1 \in 1 .. Len(cmds) /\ cmds'[i] = cmds[i + 1]
      BY <1>1
    <3>2. Own(cmds[i + 1]) \/ ~Serving(cmds[i + 1].dest)
      BY <2>1, <3>1 DEF SpentInv
    <3> QED BY <1>1, <1>6, <3>1, <3>2 DEF Own, Serving
  <2>2. ASSUME NEW i \in 1 .. Len(reps'), reps'[i].op = DESTROY
        PROVE  /\ (Own(reps[i]) \/ ~Serving(reps[i].src))'
               /\ \A j \in 1 .. Len(reps) : j < i /\ Gives(reps[j]) => reps[j].src # reps'[i].src
               /\ Delivered => wmsg.src # reps'[i].src
    <3>1. CASE i \in 1 .. Len(reps) /\ reps'[i] = reps[i]
      <4>1. /\ Own(reps[i]) \/ ~Serving(reps[i].src)
            /\ \A j \in 1 .. Len(reps) : j < i /\ Gives(reps[j]) => reps[j].src # reps[i].src
            /\ Delivered => wmsg.src # reps[i].src
        BY <2>2, <3>1 DEF SpentInv
      <4>2. (Own(reps[i]) \/ ~Serving(reps[i].src))'
        BY <1>1, <1>6, <3>1, <4>1 DEF Own, Serving
      <4> QED BY <3>1, <4>1, <4>2
    <3>2. CASE reps'[i] = r
      <4>1. Own(cmds[1]) \/ ~Serving(cmds[1].dest)
        BY <1>1, <1>3, <2>2, <3>2 DEF SpentInv
      <4>2. (Own(reps[i]) \/ ~Serving(reps[i].src))'
        BY <1>1, <1>3, <1>6, <1>7, <2>2, <3>2, <4>1 DEF Own, Serving
      <4>3. Doomed(1)
        BY <1>1, <1>3, <2>2, <3>2 DEF Doomed
      <4>4. /\ \A j \in Nat : GivenBy(j) => reps[j].src # cmds[1].dest
            /\ Delivered => wmsg.src # cmds[1].dest
        BY <4>3 DEF HandleInv, DoomedAlive
      <4>5. \A j \in 1 .. Len(reps) : Gives(reps[j]) => reps[j].src # r.src
        BY <1>3, <1>5, <1>7, <2>2, <3>2, <4>4 DEF GivenBy
      <4> QED BY <1>7, <2>2, <3>2, <4>2, <4>4, <4>5
    <3> QED BY <1>4, <3>1, <3>2
  <2>3. \A i, j \in 1 .. Len(reps') : j < i => j \in 1 .. Len(reps) /\ reps'[j] = reps[j]
    BY <1>4, <1>5
  <2>4. ASSUME wpc = "match", wmsg.op = DESTROY PROVE (Own(wmsg) \/ ~Serving(wmsg.src))'
    <3>1. Own(wmsg) \/ ~Serving(wmsg.src)
      BY <2>4 DEF SpentInv
    <3> QED BY <1>1, <1>6, <3>1 DEF Own, Serving
  <2>5. \A i, j \in 1 .. Len(reps') : reps'[i].op = DESTROY /\ j < i /\ Gives(reps'[j])
                                       => reps'[j].src # reps'[i].src
    <3>1. ASSUME NEW i \in 1 .. Len(reps'), NEW j \in 1 .. Len(reps'),
                 reps'[i].op = DESTROY, j < i, Gives(reps'[j])
          PROVE  reps'[j].src # reps'[i].src
      <4>1. j \in 1 .. Len(reps) /\ reps'[j] = reps[j]
        BY <2>3, <3>1
      <4> QED BY <2>2, <3>1, <4>1
    <3> QED BY <3>1
  <2> QED BY <1>1, <1>6, <2>1, <2>2, <2>4, <2>5 DEF SpentInv, Gives
<1>9. OutcomeInv'
  <2>1. r.op = CREATE /\ ~r.failed => r.src # NULL
    BY <1>2, NamesAssumption DEF Outcome
  <2>2. \A i \in 1 .. Len(reps') : reps'[i].op = CREATE /\ ~reps'[i].failed => reps'[i].src # NULL
    BY <1>4, <2>1 DEF OutcomeInv
  <2> QED BY <1>1, <2>2 DEF OutcomeInv
<1> QED BY <1>8, <1>9, DspLeak

\* A kernel that starts owes the DSP nothing.
LEMMA InitAccounts == Init => SpentInv /\ OutcomeInv /\ LeakInv
<1> SUFFICES ASSUME Init PROVE SpentInv /\ OutcomeInv /\ LeakInv
  OBVIOUS
<1>1. Len(log) = 0 /\ Len(cmds) = 0 /\ Len(reps) = 0 /\ pc = "idle" /\ wpc = "idle"
      /\ op = NULL /\ alive = {} /\ lost = 0
  BY DEF Init
<1>2. SpentInv /\ OutcomeInv
  BY <1>1 DEF SpentInv, OutcomeInv
<1>3. Creates = {} /\ ~HasSession
  BY <1>1 DEF Creates, HasSession, Posted
<1> QED BY <1>1, <1>2, <1>3, FS_EmptySet DEF LeakInv

\* All the steps together.
LEMMA AccountsStep ==
  ASSUME SessionInv, [Next]_vars
  PROVE  SessionInv'
<1>1. Ready'
  BY ReadyStep DEF SessionInv
<1>2. CASE UNCHANGED vars
  <2>1. /\ UNCHANGED <<mem, pc, cur, op, ret, cmds, reps, alive, wpc, wcur, wmsg>>
        /\ UNCHANGED <<log, executed, answer, expired, lost>>
    BY <1>2 DEF vars, caller, wire, worker, ghosts
  <2>2. SpentInv' = SpentInv
    BY <2>1 DEF SpentInv, Own, Posted, Serving, Gives, Delivered
  <2>3. OutcomeInv' = OutcomeInv
    BY <2>1 DEF OutcomeInv
  <2>4. LeakInv' = LeakInv
    BY <2>1 DEF LeakInv, Creates, HasSession, Posted
  <2> QED BY <1>1, <2>2, <2>3, <2>4 DEF SessionInv
<1>3. CASE QuietStep
  BY <1>1, <1>3, QuietAccounts DEF SessionInv
<1>4. CASE common_send_post
  BY <1>1, <1>4, PostAccounts DEF SessionInv
<1>5. CASE CallbackStep
  BY <1>1, <1>5, WorkerAccounts DEF SessionInv
<1>6. CASE dsp_serves
  BY <1>1, <1>6, DspAccounts DEF SessionInv
<1> QED BY <1>2, <1>3, <1>4, <1>5, <1>6 DEF Next, CallStep, QuietStep

\* LeaksAccounted: between calls, the sessions of the DSP that the driver does
\* not hold are at most as many as the creates and destroys that were reported
\* as not done.
THEOREM NothingLost == Spec => []LeaksAccounted
<1>1. SessionInv => LeaksAccounted
  <2> SUFFICES ASSUME SessionInv, pc \in {"idle", "owned"} PROVE LeaksAccounted
    BY DEF LeaksAccounted
  <2> USE DEF SessionInv, Ready
  <2>1. /\ IsFiniteSet(alive) /\ IsFiniteSet(Creates) /\ lost \in Nat
        /\ Cardinality(alive) + Cardinality(Creates) <= lost + (IF HasSession THEN 1 ELSE 0)
    BY CreatesFinite, MessageTypes DEF LeakInv, IInv, TypeInv, TypeOK
  <2>2. Cardinality(alive) \in Nat /\ Cardinality(Creates) \in Nat
    BY <2>1, FS_CardinalityType
  <2>3. CASE pc = "idle"
    <3>1. cur = NULL /\ ~HasSession
      BY <2>3 DEF IInv, MemInv, HasSession, Posted
    <3>2. alive \ (IF cur = NULL THEN {} ELSE {mem[cur].handle}) = alive
      BY <3>1
    <3>3. Cardinality(alive) <= lost
      BY <2>1, <2>2, <3>1
    <3> QED BY <3>2, <3>3 DEF LeaksAccounted
  <2>4. CASE pc = "owned"
    <3>1. cur # NULL /\ HasSession
      BY <2>4 DEF IInv, MemInv, HasSession
    <3>2. mem[cur].handle \in alive
      BY <2>4 DEF HandleInv, KeptAlive, NoHandleYet, Kept, Keeps
    <3>3. Cardinality(alive \ {mem[cur].handle}) = Cardinality(alive) - 1
      BY <2>1, <3>2, FS_RemoveElement
    <3>4. Cardinality(alive) - 1 <= lost
      BY <2>1, <2>2, <3>1
    <3> QED BY <3>1, <3>3, <3>4 DEF LeaksAccounted
  <2> QED BY <2>3, <2>4
<1>2. SessionInv /\ [Next]_vars => SessionInv'
  BY AccountsStep
<1>3. Init => SessionInv
  BY InitIInv, InitHandleInv, InitAnswers, InitAccounts DEF Ready, SessionInv
<1> QED BY <1>1, <1>2, <1>3, PTL DEF Spec

=============================================================================
