---------------------------- MODULE CommandFifo ----------------------------
(***************************************************************************)
(* What a queue pair promises its host, without rings, doorbells or phase  *)
(* tags: commands are executed once each, in the order in which they were  *)
(* submitted, and their answers are read once each, in that order.         *)
(*                                                                         *)
(* Two things are said openly.  An asynchronous event request is executed  *)
(* and never answered.  And an answer may be lost, when its completion     *)
(* queue is gone or cannot be written: then nothing after it is ever read  *)
(* until the queue is created again, but nothing wrong is read either.     *)
(* Creating only the completion queue again loses the answers in it.       *)
(***************************************************************************)
EXTENDS Sequences

CONSTANTS
  Cmd,  \* the commands
  Aer   \* those among them that are asynchronous event requests

VARIABLES
  todo,    \* submitted and not executed
  answers, \* executed, the answer posted and not read
  intact   \* no answer was lost since the completion queue was created

vars == <<todo, answers, intact>>

Empty ==
  /\ todo = <<>>
  /\ answers = <<>>
  /\ intact = TRUE

Submit(c) ==
  /\ todo' = Append(todo, c)
  /\ UNCHANGED <<answers, intact>>

Answer(c) ==
  \/ c \in Aer /\ UNCHANGED <<answers, intact>>
  \/ c \notin Aer /\ intact /\ answers' = Append(answers, c) /\ UNCHANGED intact
  \/ c \notin Aer /\ intact' = FALSE /\ UNCHANGED answers

Execute ==
  /\ todo # <<>>
  /\ todo' = Tail(todo)
  /\ Answer(Head(todo))

Read ==
  /\ answers # <<>>
  /\ answers' = Tail(answers)
  /\ UNCHANGED <<todo, intact>>

Renew ==
  /\ answers' = <<>> /\ intact' = TRUE
  /\ UNCHANGED todo

Restart == todo' = <<>> /\ answers' = <<>> /\ intact' = TRUE

Next == (\E c \in Cmd : Submit(c)) \/ Execute \/ Read \/ Renew \/ Restart

Spec == Empty /\ [][Next]_vars

(* Commands do not stay unexecuted, nor answers unread.                    *)
FairSpec == Spec /\ WF_vars(Execute) /\ WF_vars(Read)
=============================================================================
