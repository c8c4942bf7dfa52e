-------------------------- MODULE LoraClientProofs --------------------------
(***************************************************************************)
(* A request that did not begin in the midst of the callback reads its own *)
(* reply, for every number of applications, of sequence numbers and of     *)
(* messages on their way, whenever applications are deleted.               *)
(***************************************************************************)
EXTENDS LoraClient, TLAPS

-----------------------------------------------------------------------------
(* Who is inside request_reply() has the mutex, and nobody else has it. *)
HolderInside ==
  \A task \in Task : at[task] \notin {"idle", "enter"} <=> mutex = task

(* The places of request_reply() at which outstanding_seq is set. *)
Asking == {"drain", "send", "wait", "late", "received"}

(* outstanding_seq is the number of the request under way. *)
OutstandingIsMine ==
  /\ \A task \in Task : at[task] \in Asking => my_seq[task] # 0 /\ outstanding_seq = my_seq[task]
  /\ (\A task \in Task : at[task] \notin Asking) => outstanding_seq = 0

(* The callback has the reply of the request under way, unless it overlaps. *)
CallbackIsMine ==
  \A task \in Task :
    at[task] \in Asking \union {"read"} /\ ~overlapped /\ callback # 0 => callback = my_seq[task]

(* Before it is sent, nothing on the way has the number of the request. *)
FreshUntilSent ==
  \A task \in Task :
    /\ at[task] \in {"drain", "send"}
         => my_seq[task] \notin requests \union replies \union {callback}
    /\ at[task] \in {"drain", "send"} /\ ~overlapped => callback = 0
    /\ at[task] = "send" /\ ~overlapped => ~reply_sem

(* From the drain on, a signalled reply is that of the request. *)
SignalIsMine ==
  ~overlapped =>
    \A task \in Task :
      \/ at[task] \in {"wait", "late"} /\ reply_sem
      \/ at[task] \in {"received", "read"}
      => reply_len /\ reply_buf = my_seq[task]

IInv ==
  /\ TypeOK /\ HolderInside /\ OutstandingIsMine /\ CallbackIsMine
  /\ FreshUntilSent /\ SignalIsMine

-----------------------------------------------------------------------------
(* The number of a request is never 0, and the counter wraps. *)
LEMMA NextSeqType ==
  ASSUME seq_ctr \in 0..(SeqMod - 1)
  PROVE  NextSeq \in Seq /\ (NextSeq + 1) % SeqMod \in 0..(SeqMod - 1)
BY LoraAssumption, SMT DEF NextSeq, Seq

LEMMA InitInv == Init => IInv
<1> SUFFICES ASSUME Init PROVE IInv
  OBVIOUS
<1>1. TypeOK
  BY LoraAssumption DEF Init, TypeOK, Place
<1>2. HolderInside
  BY LoraAssumption DEF Init, HolderInside
<1>3. OutstandingIsMine /\ CallbackIsMine /\ FreshUntilSent /\ SignalIsMine
  BY DEF Init, OutstandingIsMine, Asking, CallbackIsMine, FreshUntilSent, SignalIsMine
<1> QED
  BY <1>1, <1>2, <1>3 DEF IInv

-----------------------------------------------------------------------------
(* Every step keeps the types. *)
LEMMA NextType == IInv /\ [Next]_vars => TypeOK'
<1> SUFFICES ASSUME IInv, [Next]_vars PROVE TypeOK'
  OBVIOUS
<1> USE DEF IInv, TypeOK, Place, Goes
<1>1. ASSUME NEW task \in Task, Begin(task) PROVE TypeOK'
  BY <1>1, NextSeqType DEF Begin, link_vars
<1>2. ASSUME NEW task \in Task, Call(task) \/ Enter(task) \/ Drain(task) \/ Receive(task)
                                \/ TimeOut(task) \/ Read(task) \/ Leave(task) \/ Die(task)
      PROVE  TypeOK'
  BY <1>2 DEF Call, Enter, Drain, Receive, TimeOut, Read, Leave, Die, client_vars, link_vars
<1>3. ASSUME NEW task \in Task, SendFails(task) \/ Forget(task) PROVE TypeOK'
  BY <1>3 DEF SendFails, Forget, client_vars, link_vars
<1>4. ASSUME NEW task \in Task, Send(task) PROVE TypeOK'
  <2>1. my_seq[task] \in Seq
    BY <1>4 DEF Send, OutstandingIsMine, Asking
  <2> QED
    BY <1>4, <2>1 DEF Send, client_vars
<1>5. ASSUME NEW seq \in Seq, Answer(seq) \/ Lose(seq) \/ Accept(seq) \/ Drop(seq) PROVE TypeOK'
  BY <1>5 DEF Answer, Lose, Accept, Drop, client_vars
<1>6. CASE Copy
  BY <1>6 DEF Copy, link_vars
<1>7. CASE UNCHANGED vars
  BY <1>7 DEF vars
<1> QED
  BY <1>1, <1>2, <1>3, <1>4, <1>5, <1>6, <1>7 DEF Next, Request, lora_callback

(* A step of one application: the others are idle or at the mutex. *)
LEMMA OthersOutside ==
  ASSUME IInv, NEW task \in Task, at[task] \notin {"idle", "enter"},
         NEW other \in Task \ {task}
  PROVE  at[other] \in {"idle", "enter"} /\ at[other] \notin Asking
BY DEF IInv, HolderInside, Asking

LEMMA RequestKeepsInv ==
  ASSUME IInv, NEW task \in Task,
         Call(task) \/ Request(task) \/ Die(task)
  PROVE  HolderInside' /\ OutstandingIsMine' /\ CallbackIsMine'
         /\ FreshUntilSent' /\ SignalIsMine'
<1>t. at \in [Task -> Place] /\ my_seq \in [Task -> Seq \union {0}] /\ TypeOK
  BY DEF IInv, TypeOK
<1> USE DEF HolderInside, OutstandingIsMine, CallbackIsMine, FreshUntilSent, SignalIsMine,
            IInv, Asking, Goes
<1>1. CASE Call(task)
  BY <1>1, <1>t, LoraAssumption DEF Call, client_vars, link_vars
<1>2. CASE Enter(task)
  BY <1>2, <1>t, LoraAssumption DEF Enter, client_vars, link_vars
<1>3. CASE Begin(task)
  <2>1. NextSeq # 0
    BY <1>t, NextSeqType DEF TypeOK, Seq
  <2>2. \A other \in Task \ {task} : at[other] \in {"idle", "enter"}
    BY <1>3, OthersOutside DEF Begin
  <2> QED
    BY <1>3, <1>t, <2>1, <2>2 DEF Begin, link_vars, Forgotten
<1>4. CASE Drain(task)
  BY <1>4, <1>t, OthersOutside DEF Drain, client_vars, link_vars
<1>5. CASE Send(task)
  BY <1>5, <1>t, OthersOutside DEF Send, client_vars
<1>6. CASE SendFails(task)
  BY <1>6, <1>t, OthersOutside DEF SendFails, client_vars, link_vars
<1>7. CASE Receive(task)
  BY <1>7, <1>t, OthersOutside DEF Receive, client_vars, link_vars
<1>8. CASE TimeOut(task)
  BY <1>8, <1>t, OthersOutside DEF TimeOut, client_vars, link_vars
<1>9. CASE Forget(task)
  BY <1>9, <1>t, OthersOutside DEF Forget, client_vars, link_vars
<1>10. CASE Read(task)
  BY <1>10, <1>t, OthersOutside DEF Read, client_vars, link_vars
<1>11. CASE Leave(task)
  BY <1>11, <1>t, OthersOutside, LoraAssumption DEF Leave, client_vars, link_vars
<1>12. CASE Die(task)
  BY <1>12, <1>t DEF Die, client_vars, link_vars
<1> QED
  BY <1>1, <1>2, <1>3, <1>4, <1>5, <1>6, <1>7, <1>8, <1>9, <1>10, <1>11, <1>12 DEF Request

(* A step of the link or of the callback. *)
LEMMA LinkKeepsInv ==
  ASSUME IInv, NEW seq \in Seq, Answer(seq) \/ Lose(seq) \/ Accept(seq) \/ Drop(seq)
  PROVE  HolderInside' /\ OutstandingIsMine' /\ CallbackIsMine'
         /\ FreshUntilSent' /\ SignalIsMine'
<1> USE DEF HolderInside, OutstandingIsMine, CallbackIsMine, FreshUntilSent, SignalIsMine,
            IInv, Asking
<1>1. CASE Answer(seq) \/ Lose(seq) \/ Drop(seq)
  BY <1>1 DEF Answer, Lose, Drop, client_vars
<1>2. CASE Accept(seq)
  <2>1. \A task \in Task : at[task] \notin {"drain", "send"}
    BY <1>2 DEF Accept, Matches
  <2> QED
    BY <1>2, <2>1 DEF Accept, Matches, client_vars
<1> QED
  BY <1>1, <1>2

LEMMA CopyKeepsInv ==
  ASSUME IInv, Copy
  PROVE  HolderInside' /\ OutstandingIsMine' /\ CallbackIsMine'
         /\ FreshUntilSent' /\ SignalIsMine'
<1> USE DEF HolderInside, OutstandingIsMine, CallbackIsMine, FreshUntilSent, SignalIsMine,
            IInv, Asking, Copy, link_vars
<1>1. CASE overlapped
  BY <1>1
<1>2. CASE ~overlapped
  BY <1>2
<1> QED
  BY <1>1, <1>2

LEMMA NextInv == IInv /\ [Next]_vars => IInv'
<1> SUFFICES ASSUME IInv, [Next]_vars PROVE IInv'
  OBVIOUS
<1>1. TypeOK'
  BY NextType
<1>2. ASSUME NEW task \in Task, Call(task) \/ Request(task) \/ Die(task) PROVE IInv'
  BY <1>1, <1>2, RequestKeepsInv DEF IInv
<1>3. CASE lora_callback
  BY <1>1, <1>3, LinkKeepsInv, CopyKeepsInv DEF lora_callback, IInv
<1>4. ASSUME NEW seq \in Seq, Answer(seq) \/ Lose(seq) PROVE IInv'
  BY <1>1, <1>4, LinkKeepsInv DEF IInv
<1>5. CASE UNCHANGED vars
  BY <1>1, <1>5
  DEF vars, IInv, HolderInside, OutstandingIsMine, CallbackIsMine, FreshUntilSent,
      SignalIsMine, Asking
<1> QED
  BY <1>2, <1>3, <1>4, <1>5 DEF Next

(* A request that succeeds has its own reply in reply_buf, whatever came    *)
(* late, was lost or overtook, and whoever was deleted, unless it took its  *)
(* number while lora_callback() was between its check and its copy.        *)
THEOREM OwnReplyUnlessOverlapped == Spec => []OnlyOverlapMixesReplies
<1>1. IInv => OnlyOverlapMixesReplies
  BY DEF IInv, SignalIsMine, OnlyOverlapMixesReplies
<1>2. IInv /\ [Next]_vars => IInv'
  BY NextInv
<1> QED
  BY InitInv, <1>1, <1>2, PTL DEF Spec
=============================================================================
