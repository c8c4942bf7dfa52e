----------------------------- MODULE LoraClient -----------------------------
(***************************************************************************)
(* The LoRa client of badgevms/drivers/lora_proto_client.c: requests to    *)
(* the radio on the C6, one at a time under a mutex, each with a sequence  *)
(* number that its reply repeats.                                          *)
(*                                                                         *)
(* lora_callback() runs in the task of esp-hosted, on its own core.  The C6 *)
(* answers a request at most once, late or not at all, and in any order:   *)
(* it hands packets to transmit to another task.  An application may be     *)
(* deleted anywhere (FN + cross, Hades' orphans), and is not born again.   *)
(* What a request asks and what its reply says is left out, and so is the  *)
(* ring of received packets.                                               *)
(***************************************************************************)
EXTENDS Naturals, FiniteSets

CONSTANTS
  Task,                \* the applications
  NoTask,
  SeqMod,              \* sequence numbers are taken modulo this, 2^32
  FirstSeq,            \* values of seq_ctr to begin with
  MaxLate              \* bound: requests and replies on their way

ASSUME LoraAssumption ==
  /\ NoTask \notin Task
  /\ SeqMod \in Nat /\ SeqMod > 2
  /\ FirstSeq \subseteq 0..(SeqMod - 1)
  /\ MaxLate \in Nat /\ MaxLate < SeqMod - 1

VARIABLES
  alive,             \* the applications that are not deleted
  mutex,             \* its holder
  reply_sem, reply_buf, reply_len, outstanding_seq, seq_ctr,
  at, my_seq,        \* per application: where it is, and its request
  requests, replies, \* on their way to the C6 and back
  callback,          \* the reply that lora_callback() is at work on, 0 if none
  overlapped         \* history: the callback was at work on an earlier reply
                     \* when the request under way took its number

client_vars == <<reply_buf, reply_len, seq_ctr>>
link_vars   == <<requests, replies>>
vars == <<alive, mutex, reply_sem, reply_buf, reply_len, outstanding_seq, seq_ctr, at, my_seq,
          requests, replies, callback, overlapped>>

Seq == 1..(SeqMod - 1)
Place == {"idle", "enter", "begin", "drain", "send", "wait", "late", "received", "read", "leave"}

TypeOK ==
  /\ alive \subseteq Task /\ mutex \in Task \union {NoTask}
  /\ reply_sem \in BOOLEAN /\ reply_len \in BOOLEAN
  /\ reply_buf \in Seq \union {0} /\ outstanding_seq \in Seq \union {0}
  /\ seq_ctr \in 0..(SeqMod - 1)
  /\ at \in [Task -> Place] /\ my_seq \in [Task -> Seq \union {0}]
  /\ requests \subseteq Seq /\ replies \subseteq Seq
  /\ callback \in Seq \union {0} /\ overlapped \in BOOLEAN

Init ==
  /\ alive = Task /\ mutex = NoTask /\ reply_sem = FALSE /\ reply_buf = 0 /\ reply_len = FALSE
  /\ outstanding_seq = 0 /\ seq_ctr \in FirstSeq
  /\ at = [task \in Task |-> "idle"] /\ my_seq = [task \in Task |-> 0]
  /\ requests = {} /\ replies = {} /\ callback = 0 /\ overlapped = FALSE

-----------------------------------------------------------------------------
(* The application, in lora_get_status() and its like.                     *)
Goes(task, from, to) ==
  /\ task \in alive /\ at[task] = from
  /\ at' = [at EXCEPT ![task] = to] /\ UNCHANGED alive

Call(task) ==
  /\ Goes(task, "idle", "enter")
  /\ UNCHANGED <<mutex, reply_sem, outstanding_seq, client_vars, my_seq, link_vars, callback, overlapped>>

Enter(task) ==
  /\ Goes(task, "enter", "begin")
  /\ mutex = NoTask /\ mutex' = task
  /\ UNCHANGED <<reply_sem, outstanding_seq, client_vars, my_seq, link_vars, callback, overlapped>>

(* Zero is the sequence number of received packets.                        *)
NextSeq == IF seq_ctr = 0 THEN 1 ELSE seq_ctr

(* A number comes back after 2^32 requests, when no late message has it.   *)
Forgotten(seq) ==
  seq \notin requests \union replies \union {callback}

(* request_reply() up to outstanding_seq. *)
Begin(task) ==
  /\ Goes(task, "begin", "drain")
  /\ Forgotten(NextSeq)
  /\ my_seq' = [my_seq EXCEPT ![task] = NextSeq]
  /\ seq_ctr' = (NextSeq + 1) % SeqMod
  /\ reply_len' = FALSE /\ outstanding_seq' = NextSeq
  /\ overlapped' = (callback # 0)
  /\ UNCHANGED <<mutex, reply_sem, reply_buf, link_vars, callback>>

(* Mutant: the reply of an earlier request is not drained.                 *)
LeavesStale(task) ==
  /\ Goes(task, "drain", "send")
  /\ UNCHANGED <<mutex, reply_sem, outstanding_seq, client_vars, my_seq, link_vars, callback, overlapped>>

Drain(task) ==
  /\ Goes(task, "drain", "send")
  /\ reply_sem' = FALSE
  /\ UNCHANGED <<mutex, outstanding_seq, client_vars, my_seq, link_vars, callback, overlapped>>

Send(task) ==
  /\ Goes(task, "send", "wait")
  /\ Cardinality(requests \union replies) < MaxLate
  /\ requests' = requests \union {my_seq[task]}
  /\ UNCHANGED <<mutex, reply_sem, outstanding_seq, client_vars, my_seq, replies, callback, overlapped>>

(* Mutant: a request that cannot be sent is tried again without end.       *)
TriesAgain(task) ==
  /\ Goes(task, "send", "drain")
  /\ UNCHANGED <<mutex, reply_sem, outstanding_seq, client_vars, my_seq, link_vars, callback, overlapped>>

SendFails(task) ==
  /\ Goes(task, "send", "leave")
  /\ outstanding_seq' = 0
  /\ UNCHANGED <<mutex, reply_sem, client_vars, my_seq, link_vars, callback, overlapped>>

Receive(task) ==
  /\ Goes(task, "wait", "received")
  /\ reply_sem /\ reply_sem' = FALSE
  /\ UNCHANGED <<mutex, outstanding_seq, client_vars, my_seq, link_vars, callback, overlapped>>

(* LORA_REPLY_TIMEOUT_MS have passed; a reply may still come before        *)
(* outstanding_seq is cleared.                                             *)
TimeOut(task) ==
  /\ Goes(task, "wait", "late")
  /\ ~reply_sem
  /\ UNCHANGED <<mutex, reply_sem, outstanding_seq, client_vars, my_seq, link_vars, callback, overlapped>>

Forget(task) ==
  /\ Goes(task, "late", "leave") \/ Goes(task, "received", "read")
  /\ outstanding_seq' = 0
  /\ UNCHANGED <<mutex, reply_sem, client_vars, my_seq, link_vars, callback, overlapped>>

Read(task) ==
  /\ Goes(task, "read", "leave")
  /\ UNCHANGED <<mutex, reply_sem, outstanding_seq, client_vars, my_seq, link_vars, callback, overlapped>>

Leave(task) ==
  /\ Goes(task, "leave", "idle")
  /\ mutex' = NoTask
  /\ UNCHANGED <<reply_sem, outstanding_seq, client_vars, my_seq, link_vars, callback, overlapped>>

(* vTaskDelete() of an application, wherever it is: a FreeRTOS mutex stays   *)
(* with its holder.                                                        *)
Die(task) ==
  /\ task \in alive /\ alive' = alive \ {task}
  /\ UNCHANGED <<mutex, reply_sem, outstanding_seq, client_vars, at, my_seq, link_vars,
                 callback, overlapped>>

-----------------------------------------------------------------------------
(* The C6 and the way there and back. *)
Answer(seq) ==
  /\ seq \in requests
  /\ requests' = requests \ {seq} /\ replies' = replies \union {seq}
  /\ UNCHANGED <<mutex, reply_sem, outstanding_seq, client_vars, alive, at, my_seq, callback, overlapped>>

Lose(seq) ==
  /\ seq \in requests \union replies
  /\ requests' = requests \ {seq} /\ replies' = replies \ {seq}
  /\ UNCHANGED <<mutex, reply_sem, outstanding_seq, client_vars, alive, at, my_seq, callback, overlapped>>

-----------------------------------------------------------------------------
(* lora_callback(): the check, the copy, the semaphore. *)
Matches(seq) == outstanding_seq # 0 /\ seq = outstanding_seq

Accept(seq) ==
  /\ callback = 0 /\ seq \in replies /\ Matches(seq)
  /\ callback' = seq /\ replies' = replies \ {seq}
  /\ UNCHANGED <<mutex, reply_sem, outstanding_seq, client_vars, alive, at, my_seq, requests, overlapped>>

Drop(seq) ==
  /\ callback = 0 /\ seq \in replies /\ ~Matches(seq)
  /\ replies' = replies \ {seq}
  /\ UNCHANGED <<mutex, reply_sem, outstanding_seq, client_vars, alive, at, my_seq, requests, callback, overlapped>>

Copy ==
  /\ callback # 0 /\ callback' = 0
  /\ reply_buf' = callback /\ reply_len' = TRUE /\ reply_sem' = TRUE
  /\ UNCHANGED <<mutex, outstanding_seq, seq_ctr, alive, at, my_seq, link_vars, overlapped>>

Request(task) ==
  \/ Enter(task) \/ Begin(task) \/ Drain(task) \/ Send(task) \/ SendFails(task)
  \/ Receive(task) \/ TimeOut(task) \/ Forget(task) \/ Read(task) \/ Leave(task)

lora_callback == Copy \/ \E seq \in Seq : Accept(seq) \/ Drop(seq)

Next ==
  \/ \E task \in Task : Call(task) \/ Request(task) \/ Die(task)
  \/ lora_callback
  \/ \E seq \in Seq : Answer(seq) \/ Lose(seq)

Spec == Init /\ [][Next]_vars

(* The applications run, the mutex goes to the one that has waited longest, *)
(* and what is on its way arrives or is lost.                              *)
Fairness ==
  /\ WF_vars(lora_callback)
  /\ WF_vars(\E seq \in Seq : Answer(seq) \/ Lose(seq))
  /\ \A task \in Task : WF_vars(Request(task)) /\ SF_vars(Enter(task))

FairSpec == Spec /\ Fairness

-----------------------------------------------------------------------------
(* A request that succeeds reads its own reply, with replies that come      *)
(* late, out of order or never, time-outs that race the callback, and      *)
(* holders that die.  The one exception is a request that took its number  *)
(* while the callback was past its check and not yet past its copy.        *)
OnlyOverlapMixesReplies ==
  \A task \in Task :
    at[task] = "read" /\ ~overlapped => reply_len /\ reply_buf = my_seq[task]

(* The mutex was left behind by an application that was deleted. *)
Orphaned == mutex \notin alive \union {NoTask}

(* Every call returns: answered, refused, timed out, or after those before *)
(* it have let the mutex go.  Nothing but a deleted holder keeps one from  *)
(* it.                                                                     *)
RequestsReturn ==
  \A task \in Task : []<>(at[task] = "idle" \/ task \notin alive \/ Orphaned)

-----------------------------------------------------------------------------
(* Statements of the code's comments that the code does not keep. *)

(* "On success, reply_buf/reply_len hold the full reply." *)
ReplyIsForTheRequest ==
  \A task \in Task : at[task] = "read" => reply_len /\ reply_buf = my_seq[task]
=============================================================================
