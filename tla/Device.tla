------------------------------- MODULE Device -------------------------------
(***************************************************************************)
(* The device as an application sees it: several I/O queues in front of    *)
(* one namespace, and resets, shutdowns and queues created again under its *)
(* commands.  Composed from what the parts are shown to implement: each    *)
(* queue pair is the pair of sequences of CommandFifo (QueuePair), the     *)
(* namespace is the map of KvMap (KvNamespace).                            *)
(*                                                                         *)
(* The application writes a key only when its last write of that key has   *)
(* been answered, on any queue; it reads as it likes.  When the queues go  *)
(* down, it takes its unanswered commands for dead, and what they did for  *)
(* unknown.                                                                *)
(***************************************************************************)
EXTENDS KvTypes, Sequences

CONSTANTS
  Queue, \* the I/O queues
  Depth  \* commands that the application keeps in one of them

ASSUME DepthAssumption == Depth \in Nat

VARIABLES
  map, ednek, rsp, \* the namespace, as in KvMap
  up,              \* the queues that are enabled
  todo, answers,   \* for each queue: submitted; answered and not read
  lost,            \* queues that lost an answer: the host reads no more of them
  open,            \* application: the write of a key: "no", "todo" or "done"
  known            \* application: "present", "absent", or "unknown"

kv == <<map, ednek, rsp>>
rings == <<up, todo, answers, lost>>
vars == <<kv, rings, open, known>>

KV == INSTANCE KvMap

Answer == [cmd : Cmds, ok : BOOLEAN]
Writes(c) == c.opcode \in {"STORE", "DELETE"} /\ c.kl <= NVME_KV_MAX_KEY_SIZE

Init ==
  /\ KV!Init
  /\ up = {} /\ lost = {}
  /\ todo = [q \in Queue |-> <<>>] /\ answers = [q \in Queue |-> <<>>]
  /\ open = [k \in Key |-> "no"] /\ known = [k \in Key |-> "unknown"]

-----------------------------------------------------------------------------
(* The application.                                                        *)

Submit(q, c) ==
  /\ q \in up /\ Len(todo[q]) + Len(answers[q]) < Depth
  /\ Writes(c) => open[KeyOfCmd(c)] = "no"
  /\ todo' = [todo EXCEPT ![q] = Append(@, c)]
  /\ open' = IF Writes(c) THEN [open EXCEPT ![KeyOfCmd(c)] = "todo"] ELSE open
  /\ known' = IF Writes(c) THEN [known EXCEPT ![KeyOfCmd(c)] = "unknown"] ELSE known
  /\ UNCHANGED <<kv, up, answers, lost>>

(* What a successful write of a key tells about it.                        *)
Learned(a) == IF a.cmd.opcode = "STORE" THEN "present" ELSE "absent"

Read(q) ==
  LET a == Head(answers[q])
      k == KeyOfCmd(a.cmd)
  IN /\ q \in up /\ answers[q] # <<>>
     /\ answers' = [answers EXCEPT ![q] = Tail(@)]
     /\ open' = IF Writes(a.cmd) THEN [open EXCEPT ![k] = "no"] ELSE open
     /\ known' = IF Writes(a.cmd) /\ a.ok THEN [known EXCEPT ![k] = Learned(a)] ELSE known
     /\ UNCHANGED <<kv, up, todo, lost>>

(* CREATE_CQ and CREATE_SQ: the rings start empty.                         *)
CreateQueues(q) ==
  /\ q \notin up
  /\ up' = up \union {q} /\ lost' = lost \ {q}
  /\ todo' = [todo EXCEPT ![q] = <<>>] /\ answers' = [answers EXCEPT ![q] = <<>>]
  /\ UNCHANGED <<kv, open, known>>

-----------------------------------------------------------------------------
(* The device.                                                             *)

(* nvme_io_kv, by the actions of the map.                                  *)
nvme_io_kv(c) ==
  \/ KV!Fail(c) \/ KV!Store(c) \/ KV!Retrieve(c) \/ KV!Delete(c) \/ KV!Exist(c) \/ KV!List(c)

(* nvme_post_cqe: the answer is posted or lost, and then so are the next.  *)
Post(q, c) ==
  \/ /\ q \notin lost
     /\ answers' = [answers EXCEPT ![q] = Append(@, [cmd |-> c, ok |-> rsp'.status = "SUCCESS"])]
     /\ UNCHANGED lost
  \/ lost' = lost \union {q} /\ UNCHANGED answers

(* Variant: the entry stays in the queue.                                  *)
ExecuteKeepsEntry(q) ==
  LET c == Head(todo[q])
  IN /\ q \in up /\ todo[q] # <<>>
     /\ nvme_io_kv(c) /\ Post(q, c)
     /\ open' = IF Writes(c) THEN [open EXCEPT ![KeyOfCmd(c)] = "done"] ELSE open
     /\ UNCHANGED <<up, todo, known>>

(* One command of the loop of nvme_process_sq.                             *)
Execute(q) ==
  LET c == Head(todo[q])
  IN /\ q \in up /\ todo[q] # <<>>
     /\ nvme_io_kv(c) /\ Post(q, c)
     /\ todo' = [todo EXCEPT ![q] = Tail(@)]
     /\ open' = IF Writes(c) THEN [open EXCEPT ![KeyOfCmd(c)] = "done"] ELSE open
     /\ UNCHANGED <<up, known>>

(* Variant: only the admin queues go down.                                 *)
IoQueuesStayUp == UNCHANGED up

nvme_queues_down == up' = {}

(* Device reset, controller reset or shutdown: the queues go down and the  *)
(* namespace stays.  The application gives up what was not answered.       *)
Down ==
  /\ nvme_queues_down
  /\ open' = [k \in Key |-> "no"]
  /\ known' = [k \in Key |-> IF open[k] = "no" THEN known[k] ELSE "unknown"]
  /\ UNCHANGED <<kv, todo, answers, lost>>

(* Set Features, on the admin queue.                                       *)
SetEdnek == KV!SetEdnek /\ UNCHANGED <<rings, open, known>>

Next ==
  \/ \E q \in Queue : \/ \E c \in Cmds : Submit(q, c)
                      \/ Execute(q) \/ Read(q) \/ CreateQueues(q)
  \/ Down \/ SetEdnek

Spec == Init /\ [][Next]_vars

-----------------------------------------------------------------------------
(* Properties.                                                             *)

(* Every variable has its type, and no ring holds more than was put in.    *)
TypeOK ==
  /\ DOMAIN map \subseteq Key
  /\ ednek \in BOOLEAN
  /\ up \subseteq Queue /\ lost \subseteq Queue
  /\ todo \in [Queue -> Seq(Cmds)] /\ answers \in [Queue -> Seq(Answer)]
  /\ \A q \in Queue : Len(todo[q]) + Len(answers[q]) <= Depth
  /\ open \in [Key -> {"no", "todo", "done"}]
  /\ known \in [Key -> {"present", "absent", "unknown"}]

(* An acknowledged write is true for all queues and for good: a key whose  *)
(* STORE was answered with success is in the map, and one whose DELETE was *)
(* answered is not, until the application writes it again; whatever other  *)
(* queues do, through resets and shutdowns, and also when an earlier write *)
(* of the key was cut off by one: it is never executed later.              *)
AckedIsTrue ==
  \A k \in Key : /\ known[k] = "present" => k \in DOMAIN map
                 /\ known[k] = "absent" => k \notin DOMAIN map
=============================================================================
