-------------------------- MODULE Q6SessionProofs --------------------------
(***************************************************************************)
(* Proofs about Q6Session, for any number of sessions, handles, opcodes    *)
(* and sends: the state is well typed, a session lives exactly as long as  *)
(* one of the two threads counts on it, and no way out of a create or a    *)
(* release leaves its slot taken.                                          *)
(***************************************************************************)
EXTENDS Q6Session, SequenceTheorems, TLAPS

-----------------------------------------------------------------------------
(* Typing.  TypeOK needs to know that a call has an opcode, and that the   *)
(* worker has an answer while it delivers one.                             *)

CallTyped ==
  /\ pc \in {"arm", "post", "wait", "expired", "ret"} => op \in Opcodes
  /\ pc # "idle" => cur \in Sessions
  /\ wpc # "idle" => wcur \in Sessions
  /\ wpc = "match" => wmsg \in Answer

TypeInv == TypeOK /\ CallTyped

\* What kref_put() leaves is a session, or one that was freed.
LEMMA KrefPutType ==
  ASSUME mem \in [Sessions -> Session], NEW s \in Sessions, kref_put(s),
         mem[s].ref # 0
  PROVE  mem' \in [Sessions -> Session]
<1>1. mem[s] \in Session
  OBVIOUS
<1>2. CASE mem[s].ref = 1
  BY <1>2 DEF kref_put, Freed, Session
<1>3. CASE mem[s].ref # 1
  <2>1. mem[s].ref - 1 \in Nat
    BY <1>1 DEF Session
  <2>2. mem' = [mem EXCEPT ![s].ref = mem[s].ref - 1]
    BY <1>3 DEF kref_put
  <2> QED
    BY <1>1, <2>1, <2>2 DEF Session
<1> QED
  BY <1>2, <1>3
-----------------------------------------------------------------------------
(* Who holds what.  The caller's pointer and the worker's are set exactly  *)
(* while they work, the slot is the caller's session until the release     *)
(* cleared it, and with that the kref is the number of pointers.           *)

MemInv ==
  /\ pc = "idle" <=> cur = NULL
  /\ wpc = "idle" <=> wcur = NULL
  /\ slot = IF pc \in {"idle", "put"} THEN NULL ELSE cur
  /\ ret # "busy"
  /\ MemorySafe

IInv == TypeInv /\ MemInv

\* The kernel starts without a session.
LEMMA InitIInv == Init => IInv
<1> SUFFICES ASSUME Init PROVE IInv
  OBVIOUS
<1> USE NamesAssumption
<1>1. TypeInv
  BY DEF Init, TypeInv, TypeOK, CallTyped, Freed, Session, NoMsg, Opcodes
<1>2. MemInv
  BY DEF Init, MemInv, MemorySafe, Holders, Freed
<1> QED
  BY <1>1, <1>2 DEF IInv

\* Types are kept by every step; only dropping a reference needs MemInv.
LEMMA TypeStep ==
  ASSUME IInv, [Next]_vars
  PROVE  TypeInv'
<1> USE DEF IInv, TypeInv, TypeOK, CallTyped, MemInv
<1>1. CASE session_create
  <2>1. Fresh \in Session
    BY DEF Fresh, Session
  <2> QED
    BY <1>1, <2>1 DEF session_create, Goto, Opcodes, wire, worker, ghosts
<1>2. CASE session_command
  BY <1>2 DEF session_command, Goto, Opcodes, wire, worker, ghosts
<1>3. CASE session_release
  BY <1>3 DEF session_release, release_begins, Goto, Opcodes, wire, worker, ghosts
<1>4. CASE common_send_arm
  <2>1. mem' \in [Sessions -> Session]
    <3>1. mem' = [mem EXCEPT ![cur].expected = op, ![cur].failed = FALSE] /\ op \in Opcodes
      BY <1>4 DEF common_send_arm, arm
    <3>2. ASSUME NEW s \in Sessions
          PROVE  [mem[s] EXCEPT !.expected = op, !.failed = FALSE] \in Session
      BY <3>1 DEF Session
    <3> QED BY <3>1, <3>2
  <2> QED
    BY <1>4, <2>1 DEF common_send_arm, Goto, wire, worker, ghosts
<1>5. CASE common_send_post
  <2>1. Len(log) + 1 \in Nat /\ log' \in Seq(Opcodes)
    BY <1>5 DEF common_send_post
  <2>2. cmds' \in Seq(Command)
    <3>1. (IF op = CREATE THEN NULL ELSE mem[cur].handle) \in Handles \union {NULL}
      BY <1>5 DEF common_send_post, Session
    <3>2. op \in Opcodes
      BY <1>5 DEF common_send_post
    <3> DEFINE c == [op |-> op, id |-> Len(log) + 1,
                     dest |-> IF op = CREATE THEN NULL ELSE mem[cur].handle]
    <3>3. c \in Command
      BY <2>1, <3>1, <3>2 DEF Command
    <3>4. cmds' \in {cmds, Append(cmds, c)}
      BY <1>5 DEF common_send_post
    <3> HIDE DEF c
    <3>5. Append(cmds, c) \in Seq(Command)
      BY <3>3, AppendProperties
    <3> QED
      BY <3>4, <3>5
  <2> QED
    BY <1>5, <2>1, <2>2 DEF common_send_post, Goto, worker
<1>6. CASE common_send_done
  BY <1>6 DEF common_send_done, Goto, wire, worker, ghosts
<1>7. CASE common_send_timeout
  BY <1>7 DEF common_send_timeout, Goto, wire, worker, ghosts
<1>8. CASE common_send_expired
  <2>1. mem' \in [Sessions -> Session]
    BY <1>8 DEF common_send_expired, Session
  <2> QED
    BY <1>8, <2>1 DEF common_send_expired, Goto, wire, worker
<1>9. CASE common_send_return
  BY <1>9 DEF common_send_return, release_begins, Goto, Opcodes, wire, worker
<1>10. CASE release_clear
  BY <1>10 DEF release_clear, Goto, wire, worker, ghosts
<1>11. CASE release_put
  <2>1. mem' \in [Sessions -> Session]
    <3>1. mem[cur].ref # 0
      BY <1>11 DEF release_put, MemorySafe, Holders
    <3> QED
      BY <1>11, <3>1, KrefPutType DEF release_put
  <2> QED
    BY <1>11, <2>1 DEF release_put, Goto, wire, worker, ghosts
<1>12. CASE common_callback
  <2>1. mem' \in [Sessions -> Session]
    <3>1. CASE slot = NULL
      BY <1>12, <3>1 DEF common_callback
    <3>2. CASE slot # NULL
      <4>1. mem[slot] \in Session /\ mem[slot].ref + 1 \in Nat
        BY <3>2 DEF Session
      <4>2. mem' = [mem EXCEPT ![slot].ref = mem[slot].ref + 1]
        BY <1>12, <3>2 DEF common_callback
      <4> QED
        BY <3>2, <4>1, <4>2 DEF Session
    <3> QED
      BY <3>1, <3>2
  <2>2. Head(reps) \in Answer /\ reps' \in Seq(Answer)
    BY <1>12 DEF common_callback
  <2> QED
    BY <1>12, <2>1, <2>2 DEF common_callback, caller, worker, ghosts
<1>13. CASE session_callback
  <2>1. wmsg.src \in Handles \union {NULL} /\ wmsg.failed \in BOOLEAN /\ wmsg.id \in Nat
    BY <1>13 DEF session_callback, Answer
  <2>2. mem' \in [Sessions -> Session]
    <3>1. CASE accepts(mem[wcur], wmsg)
      <4>1. wcur \in Sessions /\ mem[wcur] \in Session
        BY <1>13 DEF session_callback
      <4>2. mem' = [mem EXCEPT ![wcur].handle = wmsg.src,
                               ![wcur].failed = wmsg.failed,
                               ![wcur].expected = NULL]
        BY <1>13, <3>1 DEF session_callback
      <4> QED
        BY <2>1, <4>1, <4>2 DEF Session
    <3>2. CASE ~accepts(mem[wcur], wmsg)
      BY <1>13, <3>2 DEF session_callback
    <3> QED
      BY <3>1, <3>2
  <2> QED
    BY <1>13, <2>1, <2>2 DEF session_callback, caller, wire
<1>14. CASE callback_put
  <2>1. mem' \in [Sessions -> Session]
    <3>1. mem[wcur].ref # 0
      BY <1>14 DEF callback_put, MemorySafe, Holders
    <3> QED
      BY <1>14, <3>1, KrefPutType DEF callback_put
  <2> QED
    BY <1>14, <2>1 DEF callback_put, caller, wire, ghosts
<1>15. CASE dsp_serves
  <2>1. Head(cmds) \in Command /\ cmds' \in Seq(Command)
    BY <1>15 DEF dsp_serves
  <2>2. reps' \in Seq(Answer) /\ alive' \subseteq Handles /\ executed' \subseteq Nat
    <3> DEFINE c == Head(cmds)
    <3>1. c.op \in Opcodes /\ c.dest \in Handles \union {NULL} /\ c.id \in Nat
      BY <2>1 DEF Command
    <3>2. \A failed \in BOOLEAN, src \in Handles \union {NULL} :
             MayAnswer(Reply(c, failed, src)) => reps' \in Seq(Answer)
      <4> SUFFICES ASSUME NEW failed \in BOOLEAN, NEW src \in Handles \union {NULL},
                          MayAnswer(Reply(c, failed, src))
                   PROVE  reps' \in Seq(Answer)
        OBVIOUS
      <4>1. Reply(c, failed, src) \in Answer
        BY <3>1 DEF Reply, Answer
      <4> QED
        BY <4>1, AppendProperties DEF MayAnswer
    <3>3. \E failed \in BOOLEAN, src \in Handles \union {NULL} :
             MayAnswer(Reply(c, failed, src))
      BY <1>15, <3>1 DEF dsp_serves
    <3>4. alive' \subseteq Handles /\ executed' \subseteq Nat
      BY <1>15, <3>1 DEF dsp_serves
    <3> QED
      BY <3>2, <3>3, <3>4
  <2> QED
    BY <1>15, <2>1, <2>2 DEF dsp_serves, caller, worker
<1>16. CASE UNCHANGED vars
  BY <1>16 DEF vars, caller, worker, wire, ghosts
<1> QED
  BY <1>1, <1>2, <1>3, <1>4, <1>5, <1>6, <1>7, <1>8, <1>9, <1>10, <1>11, <1>12,
     <1>13, <1>14, <1>15, <1>16 DEF Next, CallStep, CallbackStep
\* The bookkeeping of memory, one step at a time.
LEMMA MemoryStep ==
  ASSUME IInv, TypeInv', [Next]_vars
  PROVE  MemInv'
<1> USE NamesAssumption DEF MemInv, MemorySafe, Holders
<1>t. TypeInv
  BY DEF IInv
<1>m. MemInv
  BY DEF IInv
<1>1. CASE session_create
  <2>1. CASE slot # NULL
    BY <1>1, <2>1, <1>t, <1>m DEF session_create, TypeInv, TypeOK
  <2>2. CASE slot = NULL
    <3>1. PICK s \in Sessions :
            /\ ~mem[s].live
            /\ mem' = [mem EXCEPT ![s] = Fresh]
            /\ slot' = s /\ cur' = s /\ pc' = "arm" /\ ret' = ret
            /\ wpc' = wpc /\ wcur' = wcur
      BY <1>1, <2>2 DEF session_create, Goto, worker
    <3>2. wcur # s /\ s # NULL
      BY <3>1, <1>m
    <3>3. mem'[s].live /\ mem'[s].ref = 1
      BY <3>1, <1>t DEF TypeInv, TypeOK, Fresh
    <3>4. \A r \in Sessions \ {s} : mem'[r] = mem[r]
      BY <3>1, <1>t DEF TypeInv, TypeOK
    <3>5. cur = NULL
      BY <1>1, <1>m DEF session_create
    <3>6. MemorySafe'
      BY <3>1, <3>2, <3>3, <3>4, <3>5, <1>m
    <3> QED
      BY <3>1, <3>2, <3>6, <1>m
  <2> QED
    BY <2>1, <2>2
<1>2. CASE session_command \/ session_release
  BY <1>2, <1>m DEF session_command, session_release, release_begins, Goto, worker
<1>3. CASE common_send_arm
  <2>1. \A s \in Sessions : mem'[s].live = mem[s].live /\ mem'[s].ref = mem[s].ref
    BY <1>3, <1>t DEF common_send_arm, arm, TypeInv, TypeOK, Session
  <2> QED
    BY <1>3, <2>1, <1>m DEF common_send_arm, Goto, worker
<1>4. CASE common_send_post \/ common_send_done \/ common_send_timeout
  BY <1>4, <1>m DEF common_send_post, common_send_done, common_send_timeout, Goto, worker
<1>5. CASE common_send_expired
  <2>1. \A s \in Sessions : mem'[s].live = mem[s].live /\ mem'[s].ref = mem[s].ref
    BY <1>5, <1>t DEF common_send_expired, TypeInv, TypeOK, Session
  <2> QED
    BY <1>5, <2>1, <1>m DEF common_send_expired, Goto, worker
<1>6. CASE common_send_return
  BY <1>6, <1>m DEF common_send_return, release_begins, Goto, worker
<1>7. CASE release_clear
  BY <1>7, <1>m DEF release_clear, Goto, worker
<1>8. CASE release_put
  <2>1. cur \in Sessions /\ cur # NULL /\ pc' = "idle" /\ cur' = NULL /\ slot' = slot
        /\ ret' = ret /\ wpc' = wpc /\ wcur' = wcur
    BY <1>8, <1>t, <1>m DEF release_put, Goto, worker, TypeInv, CallTyped
  <2>2. CASE wcur = cur
    <3>1. mem[cur].ref = 2
      BY <2>1, <2>2, <1>m
    <3>2. mem' = [mem EXCEPT ![cur].ref = 1]
      BY <1>8, <3>1 DEF release_put, kref_put
    <3> QED
      BY <2>1, <2>2, <3>2, <1>t, <1>m, <1>8 DEF release_put, TypeInv, TypeOK, Session
  <2>3. CASE wcur # cur
    <3>1. mem[cur].ref = 1
      BY <2>1, <2>3, <1>m
    <3>2. mem' = [mem EXCEPT ![cur] = Freed]
      BY <1>8, <3>1 DEF release_put, kref_put
    <3> QED
      BY <2>1, <2>3, <3>2, <1>t, <1>m, <1>8 DEF release_put, TypeInv, TypeOK, Freed
  <2> QED
    BY <2>2, <2>3
<1>9. CASE common_callback
  <2>1. CASE slot = NULL
    BY <1>9, <2>1, <1>m DEF common_callback, caller, worker
  <2>2. CASE slot # NULL
    <3>1. slot = cur /\ slot \in Sessions /\ mem[slot] \in Session /\ wcur = NULL
      BY <1>9, <2>2, <1>t, <1>m DEF common_callback, TypeInv, TypeOK
    <3>2. /\ mem' = [mem EXCEPT ![slot].ref = mem[slot].ref + 1]
          /\ wcur' = slot /\ wpc' = "match"
          /\ slot' = slot /\ pc' = pc /\ cur' = cur /\ ret' = ret
      BY <1>9, <2>2 DEF common_callback, caller
    <3>3. mem'[slot].live = mem[slot].live /\ mem'[slot].ref = mem[slot].ref + 1
      BY <3>1, <3>2, <1>t DEF TypeInv, TypeOK, Session
    <3>4. \A r \in Sessions \ {slot} : mem'[r] = mem[r]
      BY <3>2, <1>t DEF TypeInv, TypeOK
    <3>5. MemorySafe'
      BY <3>1, <3>2, <3>3, <3>4, <1>m
    <3> QED
      BY <2>2, <3>2, <3>5, <1>m
  <2> QED
    BY <2>1, <2>2
<1>10. CASE session_callback
  <2>1. \A s \in Sessions : mem'[s].live = mem[s].live /\ mem'[s].ref = mem[s].ref
    <3>1. CASE accepts(mem[wcur], wmsg)
      <4>1. mem' = [mem EXCEPT ![wcur].handle = wmsg.src,
                               ![wcur].failed = wmsg.failed,
                               ![wcur].expected = NULL]
        BY <1>10, <3>1 DEF session_callback
      <4> QED
        BY <4>1, <1>t DEF TypeInv, TypeOK, Session
    <3>2. CASE ~accepts(mem[wcur], wmsg)
      BY <1>10, <3>2 DEF session_callback
    <3> QED
      BY <3>1, <3>2
  <2> QED
    BY <1>10, <2>1, <1>m DEF session_callback, caller
<1>11. CASE callback_put
  <2>1. wcur \in Sessions /\ wcur # NULL /\ wpc' = "idle" /\ wcur' = NULL /\ slot' = slot
        /\ ret' = ret /\ pc' = pc /\ cur' = cur
    BY <1>11, <1>t, <1>m DEF callback_put, caller, TypeInv, CallTyped
  <2>2. CASE wcur = cur
    <3>1. mem[wcur].ref = 2
      BY <2>1, <2>2, <1>m
    <3>2. mem' = [mem EXCEPT ![wcur].ref = 1]
      BY <1>11, <3>1 DEF callback_put, kref_put
    <3> QED
      BY <2>1, <2>2, <3>2, <1>t, <1>m DEF TypeInv, TypeOK, Session
  <2>3. CASE wcur # cur
    <3>1. mem[wcur].ref = 1
      BY <2>1, <2>3, <1>m
    <3>2. mem' = [mem EXCEPT ![wcur] = Freed]
      BY <1>11, <3>1 DEF callback_put, kref_put
    <3> QED
      BY <2>1, <2>3, <3>2, <1>t, <1>m DEF TypeInv, TypeOK, Freed
  <2> QED
    BY <2>2, <2>3
<1>12. CASE dsp_serves
  BY <1>12, <1>m DEF dsp_serves, caller, worker
<1>13. CASE UNCHANGED vars
  BY <1>13, <1>m DEF vars, caller, worker
<1> QED
  BY <1>1, <1>2, <1>3, <1>4, <1>5, <1>6, <1>7, <1>8, <1>9, <1>10, <1>11, <1>12,
     <1>13 DEF Next, CallStep, CallbackStep

\* The invariant the theorems below come from.
THEOREM Inductive == Spec => []IInv
<1>1. IInv /\ [Next]_vars => IInv'
  BY TypeStep, MemoryStep DEF IInv
<1> QED
  BY InitIInv, <1>1, PTL DEF Spec

\* The variables keep their types; TypeOK itself is not inductive, since a kref
\* that is put must not be zero.
THEOREM TypeCorrect == Spec => []TypeOK
BY Inductive, PTL DEF IInv, TypeInv

\* MemorySafe for every number of sessions, and every interleaving of the
\* caller with the callback.
THEOREM MemoryIsSafe == Spec => []MemorySafe
BY Inductive, PTL DEF IInv, MemInv

\* SlotFree: no create meets the slot of an earlier session.
THEOREM SlotIsFree == Spec => []SlotFree
<1>1. IInv => SlotFree
  BY NamesAssumption DEF IInv, TypeInv, TypeOK, MemInv, MemorySafe, Holders, SlotFree
<1> QED
  BY Inductive, <1>1, PTL
-----------------------------------------------------------------------------
(* Handles.  At any time a handle of the DSP is in at most one place: in   *)
(* one answer to a create, in one destroy on its way, or with the caller;  *)
(* wherever it is, it is alive.  So a create may well take the handle of   *)
(* one that timed out, but never a handle that somebody else destroys.     *)

Gives(m) == m.op = CREATE /\ m.src # NULL
GivenBy(i) == i \in 1 .. Len(reps) /\ Gives(reps[i])
Delivered  == wpc = "match" /\ Gives(wmsg)
Doomed(i)  == i \in 1 .. Len(cmds) /\ cmds[i].op = DESTROY

\* From the create to the destroy the handle is the caller's.
Keeps == \/ pc \in {"owned", "arm", "post"}
         \/ pc \in {"wait", "expired", "ret"} /\ op # DESTROY
Kept  == Keeps /\ mem[cur].handle # NULL

GivenAlive ==
  \A i \in Nat : GivenBy(i) => reps[i].src \in alive
GivenOnce ==
  \A i, j \in Nat : GivenBy(i) /\ GivenBy(j) /\ reps[i].src = reps[j].src => i = j
DeliveredAlive ==
  Delivered => /\ wmsg.src \in alive
               /\ \A i \in Nat : GivenBy(i) => reps[i].src # wmsg.src
CreatesNowhere ==
  \A i \in 1 .. Len(cmds) : cmds[i].op = CREATE => cmds[i].dest = NULL
DoomedAlive ==
  \A i \in Nat : Doomed(i) =>
    /\ cmds[i].dest \in alive
    /\ \A j \in Nat : GivenBy(j) => reps[j].src # cmds[i].dest
    /\ Delivered => wmsg.src # cmds[i].dest
DoomedOnce ==
  \A i, j \in Nat : Doomed(i) /\ Doomed(j) /\ cmds[i].dest = cmds[j].dest => i = j
KeptAlive ==
  Kept => /\ mem[cur].handle \in alive
          /\ \A i \in Nat : GivenBy(i) => reps[i].src # mem[cur].handle
          /\ Delivered => wmsg.src # mem[cur].handle
          /\ \A i \in Nat : Doomed(i) => cmds[i].dest # mem[cur].handle
NoHandleYet ==
  Keeps /\ mem[cur].handle = NULL =>
    pc # "owned" /\ op = CREATE /\ mem[cur].expected \in {NULL, CREATE}

HandleInv ==
  /\ GivenAlive /\ GivenOnce /\ DeliveredAlive
  /\ CreatesNowhere /\ DoomedAlive /\ DoomedOnce
  /\ KeptAlive /\ NoHandleYet
\* And without a handle in use.
LEMMA InitHandleInv == Init => HandleInv
BY DEF Init, HandleInv, GivenAlive, GivenOnce, DeliveredAlive, CreatesNowhere, DoomedAlive,
   DoomedOnce, KeptAlive, NoHandleYet, Kept, Keeps, GivenBy, Doomed, Delivered

\* A step that touches neither the wire nor the worker, and after which the
\* caller keeps no handle it did not keep before.
LEMMA CallerStep ==
  ASSUME HandleInv, UNCHANGED <<wire, alive, wpc, wmsg>>,
         Kept' => Kept /\ mem'[cur'].handle = mem[cur].handle,
         NoHandleYet'
  PROVE  HandleInv'
BY DEF HandleInv, GivenAlive, GivenOnce, DeliveredAlive, CreatesNowhere, DoomedAlive,
   DoomedOnce, KeptAlive, Kept, GivenBy, Gives, Doomed, Delivered, wire
\* Steps of the caller; it gives its handle away when it posts a destroy.
LEMMA HandleCaller ==
  ASSUME IInv, HandleInv,
         \/ session_create \/ session_command \/ session_release \/ common_send_arm
         \/ common_send_done \/ common_send_timeout \/ common_send_expired
         \/ common_send_return \/ release_clear \/ release_put
  PROVE  HandleInv'
<1> USE NamesAssumption DEF IInv, TypeInv, TypeOK, CallTyped, MemInv, Keeps, Kept, NoHandleYet,
        Opcodes, Goto
<1>h. NoHandleYet
  BY DEF HandleInv
<1>1. CASE session_create
  <2>1. slot = NULL
    BY <1>1 DEF session_create
  <2>2. PICK s \in Sessions : mem' = [mem EXCEPT ![s] = Fresh] /\ cur' = s
    BY <1>1, <2>1 DEF session_create
  <2>3. mem'[cur'].handle = NULL /\ mem'[cur'].expected = NULL
    BY <2>2 DEF Fresh
  <2>4. op' = CREATE /\ pc' = "arm" /\ UNCHANGED <<wire, alive, wpc, wmsg>>
    BY <1>1, <2>1 DEF session_create, worker
  <2> QED
    BY <2>3, <2>4, CallerStep
<1>2. CASE session_command
  BY <1>2, <1>h, CallerStep DEF session_command, worker
<1>3. CASE session_release
  BY <1>3, <1>h, CallerStep DEF session_release, release_begins, worker
<1>4. CASE common_send_arm
  <2>1. cur \in Sessions /\ pc = "arm" /\ pc' = "post" /\ op' = op
        /\ UNCHANGED <<cur, wire, alive, wpc, wmsg>>
    BY <1>4 DEF common_send_arm, worker
  <2>2. mem'[cur].handle = mem[cur].handle /\ mem'[cur].expected = op
    BY <1>4, <2>1 DEF common_send_arm, arm, Session
  <2> QED
    BY <2>1, <2>2, <1>h, CallerStep
<1>5. CASE common_send_done \/ common_send_timeout
  BY <1>5, <1>h, CallerStep DEF common_send_done, common_send_timeout, worker
<1>6. CASE common_send_expired
  <2>1. cur \in Sessions /\ pc = "expired" /\ pc' = "ret" /\ op' = op
        /\ UNCHANGED <<cur, wire, alive, wpc, wmsg>>
    BY <1>6 DEF common_send_expired, worker
  <2>2. mem'[cur].handle = mem[cur].handle /\ mem'[cur].expected = NULL
    BY <1>6, <2>1 DEF common_send_expired, Session
  <2> QED
    BY <2>1, <2>2, <1>h, CallerStep
<1>7. CASE common_send_return
  BY <1>7, <1>h, CallerStep DEF common_send_return, release_begins, worker
<1>8. CASE release_clear
  BY <1>8, <1>h, CallerStep DEF release_clear, worker
<1>9. CASE release_put
  BY <1>9, <1>h, CallerStep DEF release_put, worker
<1> QED
  BY <1>1, <1>2, <1>3, <1>4, <1>5, <1>6, <1>7, <1>8, <1>9
\* The steps of the worker: the answer at hand moves from the wire to the
\* worker, and its handle to the session that waits for one.
LEMMA HandleWorker ==
  ASSUME IInv, HandleInv, CallbackStep
  PROVE  HandleInv'
<1> USE NamesAssumption DEF IInv, TypeInv, TypeOK, CallTyped, MemInv
<1>1. CASE common_callback
  <2>1. /\ reps # <<>>
        /\ reps \in Seq(Answer)
        /\ Len(reps') = Len(reps) - 1 /\ Len(reps') \in Nat
        /\ \A i \in 1 .. Len(reps') : reps'[i] = reps[i + 1]
    BY <1>1 DEF common_callback
  <2>2. \A i \in Nat : GivenBy(i)' => /\ i + 1 \in Nat /\ GivenBy(i + 1)
                                      /\ reps'[i] = reps[i + 1]
    BY <2>1 DEF GivenBy, Gives
  <2>3. Delivered' => \/ Delivered /\ wmsg' = wmsg
                      \/ wmsg' = reps[1] /\ GivenBy(1)
    BY <1>1, <2>1 DEF common_callback, Delivered, GivenBy, Gives, worker
  <2>4. Delivered => Delivered' /\ wmsg' = wmsg
    BY <1>1 DEF common_callback, Delivered
  <2>5. UNCHANGED <<pc, op, cur, cmds, alive>>
    BY <1>1 DEF common_callback, caller
  <2>6. cur # NULL => /\ mem'[cur].handle = mem[cur].handle
                      /\ mem'[cur].expected = mem[cur].expected
    BY <1>1 DEF common_callback, Session
  <2>7. GivenAlive' /\ GivenOnce'
    BY <2>2, <2>5 DEF HandleInv, GivenAlive, GivenOnce
  <2>8. DeliveredAlive'
    <3>1. \A i \in Nat : GivenBy(i)' => i + 1 # 1
      BY <2>1 DEF GivenBy
    <3>2. CASE Delivered /\ wmsg' = wmsg
      BY <2>2, <2>5, <3>2 DEF HandleInv, DeliveredAlive
    <3>3. CASE wmsg' = reps[1] /\ GivenBy(1)
      <4>1. wmsg'.src \in alive'
        BY <2>5, <3>3 DEF HandleInv, GivenAlive
      <4>2. ASSUME NEW i \in Nat, GivenBy(i)' PROVE reps'[i].src # wmsg'.src
        <5>1. i + 1 \in Nat /\ i + 1 # 1 /\ GivenBy(i + 1) /\ reps'[i] = reps[i + 1]
          BY <2>2, <3>1, <4>2
        <5> QED
          BY <3>3, <5>1 DEF HandleInv, GivenOnce
      <4> QED
        BY <4>1, <4>2 DEF DeliveredAlive
    <3> QED
      BY <2>3, <3>2, <3>3 DEF DeliveredAlive
  <2>9. CreatesNowhere' /\ DoomedOnce'
    BY <2>5 DEF HandleInv, CreatesNowhere, DoomedOnce, Doomed
  <2>10. DoomedAlive'
    BY <2>2, <2>3, <2>5 DEF HandleInv, DoomedAlive, Doomed
  <2>11. KeptAlive' /\ NoHandleYet'
    BY <2>2, <2>3, <2>5, <2>6 DEF HandleInv, KeptAlive, NoHandleYet, Kept, Keeps, Doomed
  <2> QED
    BY <2>7, <2>8, <2>9, <2>10, <2>11 DEF HandleInv
<1>2. CASE session_callback
  <2>1. UNCHANGED <<pc, op, cur, cmds, reps, alive>> /\ ~Delivered'
    BY <1>2 DEF session_callback, caller, wire, Delivered
  <2>2. GivenAlive' /\ GivenOnce' /\ DeliveredAlive' /\ CreatesNowhere' /\ DoomedAlive'
        /\ DoomedOnce'
    BY <2>1 DEF HandleInv, GivenAlive, GivenOnce, DeliveredAlive, CreatesNowhere,
       DoomedAlive, DoomedOnce, Doomed, GivenBy, Gives
  <2>3. CASE cur = wcur /\ accepts(mem[wcur], wmsg)
    <3>1. cur \in Sessions /\ wpc = "match" /\ wmsg \in Answer
      BY <1>2, <2>3 DEF session_callback
    <3>2. mem' = [mem EXCEPT ![cur].handle = wmsg.src,
                             ![cur].failed = wmsg.failed,
                             ![cur].expected = NULL]
      BY <1>2, <2>3 DEF session_callback
    <3>3. mem'[cur].handle = wmsg.src /\ mem'[cur].expected = NULL
      BY <3>1, <3>2 DEF Session
    <3>4. CASE mem[cur].handle # NULL
      BY <2>1, <2>2, <2>3, <3>3, <3>4
         DEF HandleInv, KeptAlive, NoHandleYet, Kept, Keeps, accepts, Doomed, GivenBy, Gives
    <3>5. CASE mem[cur].handle = NULL /\ Keeps
      <4>1. op = CREATE /\ pc # "owned" /\ wmsg.op = CREATE
        BY <2>3, <3>1, <3>5 DEF HandleInv, NoHandleYet, accepts, Answer, Opcodes
      <4>2. wmsg.src # NULL => Delivered
        BY <3>1, <4>1 DEF Delivered, Gives
      <4>3. KeptAlive'
        BY <2>1, <3>3, <4>2
           DEF HandleInv, DeliveredAlive, DoomedAlive, KeptAlive, Kept, Doomed, GivenBy, Gives
      <4> QED
        BY <2>1, <2>2, <3>3, <4>1, <4>3 DEF HandleInv, NoHandleYet
    <3>6. CASE ~Keeps
      BY <2>1, <2>2, <3>6 DEF HandleInv, KeptAlive, NoHandleYet, Kept, Keeps
    <3> QED
      BY <3>4, <3>5, <3>6
  <2>4. CASE cur # wcur \/ ~accepts(mem[wcur], wmsg)
    <3>1. cur # NULL => /\ mem'[cur].handle = mem[cur].handle
                        /\ mem'[cur].expected = mem[cur].expected
      BY <1>2, <2>4 DEF session_callback
    <3>2. KeptAlive' /\ NoHandleYet'
      BY <2>1, <3>1 DEF HandleInv, KeptAlive, NoHandleYet, Kept, Keeps, Doomed, GivenBy, Gives
    <3> QED
      BY <2>2, <3>2 DEF HandleInv
  <2> QED
    BY <2>3, <2>4
<1>3. CASE callback_put
  <2>1. UNCHANGED <<pc, op, cur, cmds, reps, alive>> /\ ~Delivered' /\ wcur \in Sessions
    BY <1>3 DEF callback_put, caller, wire, Delivered
  <2>2. cur # NULL => /\ mem'[cur].handle = mem[cur].handle
                      /\ mem'[cur].expected = mem[cur].expected
    <3>1. CASE cur = wcur
      <4>1. mem[wcur].ref = 2
        BY <2>1, <3>1 DEF MemorySafe, Holders
      <4> QED
        BY <1>3, <3>1, <4>1, <2>1 DEF callback_put, kref_put, Session
    <3>2. CASE cur # wcur
      BY <1>3, <3>2, <2>1 DEF callback_put, kref_put
    <3> QED
      BY <3>1, <3>2
  <2>3. GivenAlive' /\ GivenOnce' /\ DeliveredAlive' /\ CreatesNowhere' /\ DoomedAlive'
        /\ DoomedOnce'
    BY <2>1 DEF HandleInv, GivenAlive, GivenOnce, DeliveredAlive, CreatesNowhere,
       DoomedAlive, DoomedOnce, Doomed, GivenBy, Gives
  <2>4. KeptAlive' /\ NoHandleYet'
    BY <2>1, <2>2 DEF HandleInv, KeptAlive, NoHandleYet, Kept, Keeps, Doomed, GivenBy, Gives
  <2> QED
    BY <2>3, <2>4 DEF HandleInv
<1> QED
  BY <1>1, <1>2, <1>3 DEF CallbackStep
\* A destroy takes the caller's handle onto the wire; no other command does.
LEMMA HandlePost ==
  ASSUME IInv, HandleInv, common_send_post
  PROVE  HandleInv'
<1> USE NamesAssumption DEF IInv, TypeInv, TypeOK, CallTyped, common_send_post, Goto
<1>1. UNCHANGED <<mem, cur, op, reps, wpc, wmsg, alive>> /\ pc' \in {"wait", "ret"} /\ pc = "post"
  BY DEF worker
<1>2. CASE UNCHANGED cmds
  <2>1. UNCHANGED <<wire, alive, wpc, wmsg>>
    BY <1>1, <1>2 DEF wire
  <2> QED
    BY <1>1, <2>1, CallerStep DEF HandleInv, NoHandleYet, Kept, Keeps
<1>3. CASE ~UNCHANGED cmds
  <2> DEFINE d == IF op = CREATE THEN NULL ELSE mem[cur].handle
  <2>1. cmds' = Append(cmds, [op |-> op, id |-> Len(log) + 1, dest |-> d])
    BY <1>3
  <2>2. /\ Len(cmds') = Len(cmds) + 1 /\ Len(cmds) \in Nat
        /\ \A i \in 1 .. Len(cmds) : cmds'[i] = cmds[i]
        /\ cmds'[Len(cmds) + 1].op = op /\ cmds'[Len(cmds) + 1].dest = d
    BY <2>1
  <2>3. CreatesNowhere'
    <3> SUFFICES ASSUME NEW i \in 1 .. Len(cmds'), cmds'[i].op = CREATE
                 PROVE  cmds'[i].dest = NULL
      BY DEF CreatesNowhere
    <3>1. i \in 1 .. Len(cmds) \/ i = Len(cmds) + 1
      BY <2>2
    <3> QED
      BY <2>2, <3>1 DEF HandleInv, CreatesNowhere
  <2>4. \A i \in Nat : GivenBy(i)' <=> GivenBy(i)
    BY <1>1 DEF GivenBy, Gives
  <2>5. Delivered' <=> Delivered
    BY <1>1 DEF Delivered, Gives
  <2>6. GivenAlive' /\ GivenOnce' /\ DeliveredAlive'
    BY <1>1, <2>4, <2>5 DEF HandleInv, GivenAlive, GivenOnce, DeliveredAlive
  <2>7. NoHandleYet'
    BY <1>1 DEF HandleInv, NoHandleYet, Keeps
  <2>8. CASE op # DESTROY
    <3>1. \A i \in Nat : Doomed(i)' <=> Doomed(i)
      BY <2>2, <2>8 DEF Doomed
    <3>2. \A i \in Nat : Doomed(i) => cmds'[i] = cmds[i]
      BY <2>2 DEF Doomed
    <3> QED
      BY <1>1, <2>3, <2>4, <2>5, <2>6, <2>7, <3>1, <3>2
         DEF HandleInv, DoomedAlive, DoomedOnce, KeptAlive, Kept, Keeps
  <2>9. CASE op = DESTROY
    <3>1. Kept /\ d = mem[cur].handle
      BY <1>1, <2>9 DEF HandleInv, NoHandleYet, Kept, Keeps
    <3>2. ~Keeps'
      BY <1>1, <2>9 DEF Keeps
    <3>3. \A i \in Nat : Doomed(i)' => \/ Doomed(i) /\ cmds'[i] = cmds[i] /\ i # Len(cmds) + 1
                                       \/ i = Len(cmds) + 1 /\ cmds'[i].dest = mem[cur].handle
      BY <2>2, <3>1 DEF Doomed
    <3>4. DoomedAlive' /\ DoomedOnce'
      BY <1>1, <2>4, <2>5, <3>1, <3>3 DEF HandleInv, DoomedAlive, DoomedOnce, KeptAlive
    <3> QED
      BY <2>3, <2>6, <2>7, <3>2, <3>4 DEF HandleInv, KeptAlive, Kept
  <2> QED
    BY <2>8, <2>9
<1> QED
  BY <1>2, <1>3

\* The DSP gives a new handle to one answer, or destroys a doomed one.
LEMMA HandleDsp ==
  ASSUME IInv, HandleInv, dsp_serves
  PROVE  HandleInv'
<1> USE NamesAssumption DEF IInv, TypeInv, TypeOK
<1> DEFINE c == Head(cmds)
<1>1. /\ Len(cmds') = Len(cmds) - 1 /\ Len(cmds') \in Nat
      /\ \A i \in 1 .. Len(cmds') : cmds'[i] = cmds[i + 1]
      /\ c = cmds[1] /\ c \in Command /\ 1 \in 1 .. Len(cmds)
  BY DEF dsp_serves
<1>2. UNCHANGED <<mem, cur, op, pc, wpc, wmsg>>
  BY DEF dsp_serves, caller, worker
<1>3. \A i \in Nat : Doomed(i)' => /\ i + 1 \in Nat /\ Doomed(i + 1) /\ i + 1 # 1
                                   /\ cmds'[i] = cmds[i + 1]
  BY <1>1 DEF Doomed
<1>4. CreatesNowhere'
  <2>1. \A i \in 1 .. Len(cmds') : i + 1 \in 1 .. Len(cmds)
    BY <1>1
  <2> SUFFICES ASSUME NEW i \in 1 .. Len(cmds'), cmds'[i].op = CREATE
               PROVE  cmds'[i].dest = NULL
    BY DEF CreatesNowhere
  <2>2. i + 1 \in 1 .. Len(cmds) /\ cmds'[i] = cmds[i + 1]
    BY <1>1, <2>1
  <2> QED
    BY <2>2 DEF HandleInv, CreatesNowhere
<1>5. DoomedOnce'
  BY <1>3 DEF HandleInv, DoomedOnce
<1>6. NoHandleYet'
  BY <1>2 DEF HandleInv, NoHandleYet, Keeps
<1>7. (Delivered' <=> Delivered) /\ (Kept' <=> Kept)
  BY <1>2 DEF Delivered, Gives, Kept, Keeps
<1>a. ASSUME NEW r, r \in Answer, MayAnswer(r)
      PROVE  \A i \in Nat : GivenBy(i)' =>
               \/ GivenBy(i) /\ reps'[i] = reps[i] /\ i # Len(reps) + 1
               \/ i = Len(reps) + 1 /\ reps'[i] = r /\ Gives(r)
  <2>1. CASE reps' = reps
    BY <2>1 DEF GivenBy, Gives
  <2>2. CASE reps' = Append(reps, r)
    <3>1. /\ Len(reps') = Len(reps) + 1 /\ Len(reps) \in Nat
          /\ \A i \in 1 .. Len(reps) : reps'[i] = reps[i]
          /\ reps'[Len(reps) + 1] = r
      BY <2>2, <1>a, AppendProperties
    <3> QED
      BY <3>1 DEF GivenBy, Gives
  <2> QED
    BY <1>a, <2>1, <2>2 DEF MayAnswer
\* An answer that gives no handle, while no handle ends but a doomed one.
<1>b. ASSUME NEW r, r \in Answer, MayAnswer(r), ~Gives(r),
             alive' = alive \/ (c.op = DESTROY /\ alive' = alive \ {c.dest})
      PROVE  HandleInv'
  <2>1. \A i \in Nat : GivenBy(i)' => GivenBy(i) /\ reps'[i] = reps[i]
    BY <1>a, <1>b
  <2>2. c.op = DESTROY => Doomed(1) /\ cmds[1] = c
    BY <1>1 DEF Doomed
  <2> HIDE DEF c
  <2>3. GivenAlive' /\ GivenOnce' /\ DeliveredAlive'
    <3>1. GivenAlive'
      BY <1>b, <2>1, <2>2 DEF HandleInv, GivenAlive, DoomedAlive
    <3>2. GivenOnce'
      BY <2>1 DEF HandleInv, GivenOnce
    <3>3. DeliveredAlive'
      BY <1>2, <1>7, <1>b, <2>1, <2>2 DEF HandleInv, DeliveredAlive, DoomedAlive
    <3> QED
      BY <3>1, <3>2, <3>3
  <2>4. DoomedAlive'
    BY <1>2, <1>3, <1>7, <1>b, <2>1, <2>2 DEF HandleInv, DoomedAlive, DoomedOnce
  <2>5. KeptAlive'
    BY <1>2, <1>3, <1>7, <1>b, <2>1, <2>2 DEF HandleInv, KeptAlive
  <2> QED
    BY <1>4, <1>5, <1>6, <2>3, <2>4, <2>5 DEF HandleInv
<1>8. CASE \E h \in Handles \ alive : /\ alive' = alive \union {h}
                                      /\ MayAnswer(Reply(c, FALSE, h))
  <2>1. PICK h \in Handles \ alive : /\ alive' = alive \union {h}
                                     /\ MayAnswer(Reply(c, FALSE, h))
    BY <1>8
  <2>2. Reply(c, FALSE, h) \in Answer /\ Reply(c, FALSE, h).src = h
    BY <1>1 DEF Reply, Command, Answer
  <2>3. \A i \in Nat : GivenBy(i)' =>
               \/ GivenBy(i) /\ reps'[i] = reps[i] /\ i # Len(reps) + 1
               \/ i = Len(reps) + 1 /\ reps'[i].src = h
    BY <1>a, <2>1, <2>2
  <2> HIDE DEF c
  <2>4. GivenAlive' /\ GivenOnce' /\ DeliveredAlive'
    <3>1. GivenAlive'
      BY <2>1, <2>3 DEF HandleInv, GivenAlive
    <3>2. GivenOnce'
      BY <2>1, <2>3 DEF HandleInv, GivenAlive, GivenOnce
    <3>3. DeliveredAlive'
      BY <1>2, <1>7, <2>1, <2>3 DEF HandleInv, DeliveredAlive
    <3> QED BY <3>1, <3>2, <3>3
  <2>5. DoomedAlive'
    <3> SUFFICES ASSUME NEW i \in Nat, Doomed(i)'
                 PROVE  /\ cmds'[i].dest \in alive'
                        /\ \A j \in Nat : GivenBy(j)' => reps'[j].src # cmds'[i].dest
                        /\ Delivered' => wmsg'.src # cmds'[i].dest
      BY DEF DoomedAlive
    <3>1. /\ cmds'[i].dest \in alive
          /\ \A j \in Nat : GivenBy(j) => reps[j].src # cmds'[i].dest
          /\ Delivered => wmsg.src # cmds'[i].dest
      BY <1>3 DEF HandleInv, DoomedAlive
    <3> QED
      BY <1>2, <1>7, <2>1, <2>3, <3>1
  <2>6. KeptAlive'
    BY <1>2, <1>3, <1>7, <2>1, <2>3 DEF HandleInv, KeptAlive
  <2> QED
    BY <1>4, <1>5, <1>6, <2>4, <2>5, <2>6 DEF HandleInv
<1>9. CASE /\ c.op # CREATE
           /\ alive' = IF c.op = DESTROY THEN alive \ {c.dest} ELSE alive
           /\ MayAnswer(Reply(c, FALSE, c.dest))
  <2>1. Reply(c, FALSE, c.dest) \in Answer /\ ~Gives(Reply(c, FALSE, c.dest))
    BY <1>1, <1>9 DEF Reply, Command, Answer, Gives
  <2> QED
    BY <1>9, <1>b, <2>1
<1>10. CASE MayAnswer(Reply(c, TRUE, c.dest)) /\ alive' = alive
  <2>1. c.op = CREATE => c.dest = NULL
    BY <1>1 DEF HandleInv, CreatesNowhere
  <2>2. Reply(c, TRUE, c.dest) \in Answer /\ ~Gives(Reply(c, TRUE, c.dest))
    BY <1>1, <2>1 DEF Reply, Command, Answer, Gives
  <2> QED
    BY <1>10, <1>b, <2>2
<1> QED
  BY <1>8, <1>9, <1>10 DEF dsp_serves
\* All the steps together.
LEMMA HandleStep ==
  ASSUME IInv, HandleInv, [Next]_vars
  PROVE  HandleInv'
<1>1. CASE UNCHANGED vars
  <2>1. UNCHANGED <<wire, alive, wpc, wmsg>>
    BY <1>1 DEF vars, worker
  <2> QED
    BY <1>1, <2>1, CallerStep
       DEF HandleInv, NoHandleYet, Kept, Keeps, vars, caller
<1> QED
  BY <1>1, HandleCaller, HandlePost, HandleWorker, HandleDsp DEF Next, CallStep

\* HandleAlive: whatever the DSP answers and whenever, an established session
\* has a handle of its own, which nobody has destroyed.
THEOREM HandleStaysAlive == Spec => []HandleAlive
<1>1. IInv /\ HandleInv /\ [Next]_vars => HandleInv'
  BY HandleStep
<1>2. HandleInv => HandleAlive
  BY DEF HandleInv, KeptAlive, NoHandleYet, Kept, Keeps, HandleAlive
<1> QED
  BY Inductive, InitHandleInv, <1>1, <1>2, PTL DEF Spec

=============================================================================
