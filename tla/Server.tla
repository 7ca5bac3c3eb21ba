------------------------------- MODULE Server -------------------------------
(***************************************************************************)
(* The process of src/main.c: its options, the set-up of the device, the   *)
(* loop that attaches and serves one client after the other, signals, and  *)
(* the release of what was acquired.                                       *)
(*                                                                         *)
(* libvfio-user is external: each of its calls may fail, vfu_attach_ctx    *)
(* and vfu_run_ctx block until a client does something, and the reset      *)
(* callback is called when a client attaches.  A signal may come at any    *)
(* point.  Handlers are installed with signal(), which restarts a blocked  *)
(* system call, so a blocked call need not return because of one; when it  *)
(* does return EINTR, a handler has run.                                   *)
(***************************************************************************)
EXTENDS Integers, Sequences

CONSTANTS
  Options,         \* the command lines: sequences of options
  Word,            \* 2^64
  Kilo,            \* 1024
  slot,            \* NVME_KV_MAX_KEY_SIZE + NVME_KV_MAX_VAL_SIZE
  NVME_KV_HARD_MAX_NUM_KEYS,
  VFU_KVSSD_DEFAULT_CAPACITY

ASSUME CapacityAssumption ==
  /\ Word \in Nat \ {0} /\ Kilo \in Nat /\ slot \in Nat \ {0}
  /\ NVME_KV_HARD_MAX_NUM_KEYS \in Nat \ {0}
  /\ NVME_KV_HARD_MAX_NUM_KEYS * slot < Word
  /\ VFU_KVSSD_DEFAULT_CAPACITY \in 0 .. Word - 1

(* A size as strtoull and the suffix test see it: a sign, digits or none,  *)
(* a suffix of 1024^0 .. 1024^3, and whether anything follows.             *)
Size == [neg : BOOLEAN, digits : BOOLEAN, mag : Nat, suffix : 0 .. 3, rest : BOOLEAN]
Option == [opt : {"s", "c", "h", "V", "?"}, arg : Size]

ASSUME OptionsAssumption == Options \subseteq Seq(Option)

VARIABLES
  pc,           \* where main() is
  args,         \* the options not yet taken
  sock,         \* -s was given
  asked,        \* history: the argument of the last -c, <<>> before it
  capacity, max_num_keys,
  step,         \* set-up calls that have succeeded
  vfu, ns,      \* how often the context and the namespace are held
  regs,         \* ctrl's registers and queues
  g_stop,
  client,       \* "none", or attached: "new" until it was served a message
  ret,          \* how the last library call of the loop returned
  late,         \* history: library calls begun after the signal, up to 3
  status        \* what main() returned

opts == <<args, sock, asked, capacity, max_num_keys>>
vars == <<pc, opts, step, vfu, ns, regs, g_stop, client, ret, late, status>>

(* vfu_pci_init, the regions BAR0 and BAR4, the MSI-X capability, the DMA  *)
(* callbacks, the reset callback and the interrupts, in this order.        *)
SetupCalls == 7
ResetCallback == 6

Pcs == {"options", "slots", "create", "setup", "ctrl_init", "realize", "signals", "loop",
        "attach", "in_attach", "attached", "in_run", "ran", "done", "err_ctrl", "err", "exited"}
Results == {"ok", "EAGAIN", "EINTR", "ENOTCONN", "other"}
NoStatus == -1

Init ==
  /\ pc = "options"
  /\ args \in Options
  /\ sock = FALSE /\ asked = <<>>
  /\ capacity = VFU_KVSSD_DEFAULT_CAPACITY /\ max_num_keys = 0
  /\ step = 0 /\ vfu = 0 /\ ns = 0
  /\ regs = "undefined"
  /\ g_stop = FALSE /\ client = "none" /\ ret = "ok" /\ late = 0
  /\ status = NoStatus

Return(code) == pc' = "exited" /\ status' = code

-----------------------------------------------------------------------------
(* Options.                                                                *)

(* strtoull: an error beyond 2^64, a negative number modulo 2^64.          *)
strtoull(a) ==
  [err |-> ~a.digits \/ a.mag >= Word,
   n |-> IF a.neg THEN (Word - a.mag) % Word ELSE a.mag]

(* The factor of no suffix, K, M and G.                                    *)
Scale(suffix) == <<1, Kilo, Kilo * Kilo, Kilo * Kilo * Kilo>>[suffix + 1]

parse_size(a) ==
  LET s == strtoull(a)
  IN [ok |-> ~s.err /\ ~a.rest, out |-> (s.n * Scale(a.suffix)) % Word]

OptionSocket(o) ==
  /\ o.opt = "s"
  /\ sock' = TRUE
  /\ UNCHANGED <<pc, asked, capacity, status>>

OptionCapacity(o) ==
  /\ o.opt = "c"
  /\ IF parse_size(o.arg).ok
     THEN /\ capacity' = parse_size(o.arg).out
          /\ asked' = <<o.arg>>
          /\ UNCHANGED <<pc, status>>
     ELSE Return(2) /\ UNCHANGED <<asked, capacity>>
  /\ UNCHANGED sock

OptionReturns(o) ==
  /\ o.opt \in {"h", "V", "?"}
  /\ Return(IF o.opt = "?" THEN 2 ELSE 0)
  /\ UNCHANGED <<sock, asked, capacity>>

TakeOption ==
  /\ pc = "options" /\ args # <<>>
  /\ args' = Tail(args)
  /\ OptionSocket(Head(args)) \/ OptionCapacity(Head(args)) \/ OptionReturns(Head(args))
  /\ UNCHANGED <<max_num_keys, step, vfu, ns, regs, g_stop, client, ret, late>>

EndOfOptions ==
  /\ pc = "options" /\ args = <<>>
  /\ IF sock THEN pc' = "slots" /\ UNCHANGED status ELSE Return(2)
  /\ UNCHANGED <<opts, step, vfu, ns, regs, g_stop, client, ret, late>>

(* Variants: no cap; the slots are narrowed to 32 bits without the cap.    *)
KeysUncapped(slots) == slots
KeysWithoutCap(slots) == slots % (NVME_KV_HARD_MAX_NUM_KEYS + 1)

Keys(slots) ==
  IF slots > NVME_KV_HARD_MAX_NUM_KEYS THEN NVME_KV_HARD_MAX_NUM_KEYS ELSE slots

Slots ==
  /\ pc = "slots"
  /\ IF capacity \div slot = 0
     THEN Return(2) /\ UNCHANGED max_num_keys
     ELSE /\ max_num_keys' = Keys(capacity \div slot)
          /\ pc' = "create" /\ UNCHANGED status
  /\ UNCHANGED <<args, sock, asked, capacity, step, vfu, ns, regs, g_stop, client, ret, late>>

-----------------------------------------------------------------------------
(* Set-up.  What fails leads to the label that releases what is held.      *)

vfu_create_ctx ==
  /\ pc = "create"
  /\ \/ pc' = "setup" /\ vfu' = vfu + 1 /\ UNCHANGED status
     \/ Return(1) /\ UNCHANGED vfu
  /\ UNCHANGED <<opts, step, ns, regs, g_stop, client, ret, late>>

Setup ==
  /\ pc = "setup"
  /\ \/ step' = step + 1 /\ pc' = IF step + 1 = SetupCalls THEN "ctrl_init" ELSE "setup"
     \/ pc' = "err" /\ UNCHANGED step
  /\ UNCHANGED <<opts, vfu, ns, regs, g_stop, client, ret, late, status>>

(* Variant: a failed initialisation takes the later label.                 *)
CtrlInitToErrCtrl ==
  /\ pc = "ctrl_init"
  /\ \/ ns' = ns + 1 /\ pc' = "realize"
     \/ pc' = "err_ctrl" /\ UNCHANGED ns
  /\ regs' = "power_on"
  /\ UNCHANGED <<opts, step, vfu, g_stop, client, ret, late, status>>

(* The registers are set whether or not the namespace can be allocated.    *)
nvme_ctrl_init ==
  /\ pc = "ctrl_init"
  /\ \/ ns' = ns + 1 /\ pc' = "realize"
     \/ pc' = "err" /\ UNCHANGED ns
  /\ regs' = "power_on"
  /\ UNCHANGED <<opts, step, vfu, g_stop, client, ret, late, status>>

vfu_realize_ctx ==
  /\ pc = "realize"
  /\ pc' \in {"signals", "err_ctrl"}
  /\ UNCHANGED <<opts, step, vfu, ns, regs, g_stop, client, ret, late, status>>

InstallHandlers ==
  /\ pc = "signals"
  /\ pc' = "loop"
  /\ UNCHANGED <<opts, step, vfu, ns, regs, g_stop, client, ret, late, status>>

-----------------------------------------------------------------------------
(* Signals, and the loop.                                                  *)

Handled == pc \in {"loop", "attach", "in_attach", "attached", "in_run", "ran", "done"}

on_signal ==
  /\ Handled
  /\ g_stop' = TRUE
  /\ UNCHANGED <<pc, opts, step, vfu, ns, regs, client, ret, late, status>>

(* Variant: the outer loop does not look at g_stop.                        *)
LoopTestForever ==
  /\ pc = "loop"
  /\ pc' = "attach"
  /\ UNCHANGED <<opts, step, vfu, ns, regs, g_stop, client, ret, late, status>>

LoopTest ==
  /\ pc = "loop"
  /\ pc' = IF g_stop THEN "done" ELSE "attach"
  /\ UNCHANGED <<opts, step, vfu, ns, regs, g_stop, client, ret, late, status>>

(* A library call begins.  More than two late ones are counted as three.   *)
Call(into) ==
  /\ pc' = into
  /\ late' = IF g_stop /\ late < 3 THEN late + 1 ELSE late
  /\ UNCHANGED <<opts, step, vfu, ns, regs, g_stop, client, ret, status>>

CallAttach == pc = "attach" /\ Call("in_attach")

nvme_reset_cb == regs' = "power_on"

(* A client connects; the library resets the device for it.                *)
AttachReturns ==
  /\ pc = "in_attach"
  /\ \/ /\ ret' = "ok" /\ pc' = "attached" /\ client' = "new"
        /\ IF step >= ResetCallback THEN nvme_reset_cb ELSE UNCHANGED regs
     \/ /\ ret' \in {"EAGAIN", "EINTR"} /\ (ret' = "EINTR" => g_stop)
        /\ pc' = "loop" /\ UNCHANGED <<client, regs>>
     \/ ret' = "other" /\ pc' = "done" /\ UNCHANGED <<client, regs>>
  /\ UNCHANGED <<opts, step, vfu, ns, g_stop, late, status>>

CallRun == pc = "attached" /\ Call("in_run")

(* A message is served: a register access, a command, or a device reset.   *)
Serve ==
  /\ pc = "in_run" /\ client # "none"
  /\ client' = "served"
  /\ regs' = "driven" \/ nvme_reset_cb
  /\ UNCHANGED <<pc, opts, step, vfu, ns, g_stop, ret, late, status>>

RunReturns ==
  /\ pc = "in_run"
  /\ ret' \in {"ok", "EINTR", "ENOTCONN", "other"} /\ (ret' = "EINTR" => g_stop)
  /\ client' = IF ret' = "ENOTCONN" THEN "none" ELSE client
  /\ pc' = "ran"
  /\ UNCHANGED <<opts, step, vfu, ns, regs, g_stop, late, status>>

(* Variants: the inner loop does not look at g_stop; an error other than a *)
(* lost connection leads back to vfu_attach_ctx.                           *)
RanServesOn ==
  /\ pc = "ran"
  /\ pc' = CASE ret = "ok" -> "attached"
             [] ret = "other" -> "done"
             [] OTHER -> "loop"
  /\ UNCHANGED <<opts, step, vfu, ns, regs, g_stop, client, ret, late, status>>

RanRetries ==
  /\ pc = "ran"
  /\ pc' = IF ret = "ok" /\ ~g_stop THEN "attached" ELSE "loop"
  /\ UNCHANGED <<opts, step, vfu, ns, regs, g_stop, client, ret, late, status>>

(* The test of the inner loop and what follows it.                         *)
Ran ==
  /\ pc = "ran"
  /\ pc' = CASE ret = "ok" /\ ~g_stop -> "attached"
             [] ret = "other" -> "done"
             [] OTHER -> "loop"
  /\ UNCHANGED <<opts, step, vfu, ns, regs, g_stop, client, ret, late, status>>

-----------------------------------------------------------------------------
(* The ends of main().                                                     *)

Done ==
  /\ pc = "done"
  /\ ns' = ns - 1 /\ vfu' = vfu - 1
  /\ client' = "none"
  /\ Return(0)
  /\ UNCHANGED <<opts, step, regs, g_stop, ret, late>>

ErrCtrl ==
  /\ pc = "err_ctrl"
  /\ ns' = ns - 1
  /\ pc' = "err"
  /\ UNCHANGED <<opts, step, vfu, regs, g_stop, client, ret, late, status>>

Err ==
  /\ pc = "err"
  /\ vfu' = vfu - 1
  /\ Return(1)
  /\ UNCHANGED <<opts, step, ns, regs, g_stop, client, ret, late>>

Exited == pc = "exited" /\ UNCHANGED vars

main ==
  \/ TakeOption \/ EndOfOptions \/ Slots
  \/ vfu_create_ctx \/ Setup \/ nvme_ctrl_init \/ vfu_realize_ctx \/ InstallHandlers
  \/ LoopTest \/ CallAttach \/ CallRun \/ Ran
  \/ Done \/ ErrCtrl \/ Err

Next == main \/ AttachReturns \/ RunReturns \/ Serve \/ on_signal \/ Exited

Spec == Init /\ [][Next]_vars

(* The process runs, and the calls that wait for a client return: clients  *)
(* come, and they go.  Nothing else ends a blocked call.                   *)
FairSpec == Spec /\ WF_vars(main) /\ WF_vars(AttachReturns) /\ WF_vars(RunReturns)

-----------------------------------------------------------------------------
(* Properties.                                                             *)

(* Every variable has its type.                                            *)
TypeOK ==
  /\ pc \in Pcs /\ args \in Seq(Option) /\ sock \in BOOLEAN
  /\ asked \in Seq(Size) /\ Len(asked) <= 1
  /\ capacity \in 0 .. Word - 1 /\ max_num_keys \in 0 .. NVME_KV_HARD_MAX_NUM_KEYS
  /\ step \in 0 .. SetupCalls
  /\ vfu \in {0, 1} /\ ns \in {0, 1}
  /\ regs \in {"undefined", "power_on", "driven"}
  /\ g_stop \in BOOLEAN /\ client \in {"none", "new", "served"}
  /\ ret \in Results
  /\ late \in 0 .. 3
  /\ status \in {NoStatus, 0, 1, 2}

(* Whatever call of the set-up fails, and however the loop ends, each of   *)
(* the two resources is released exactly once before main() returns, and   *)
(* no client is served after the release or before the set-up.             *)
ReleasedOnce ==
  /\ vfu \in {0, 1} /\ ns \in {0, 1}
  /\ pc = "exited" => vfu = 0 /\ ns = 0 /\ client = "none"
  /\ client # "none" => vfu = 1 /\ ns = 1 /\ step = SetupCalls

(* Another client is waited for only when the last one is gone: an         *)
(* interrupted or finished vfu_run_ctx that leaves its client attached     *)
(* leads to the end, never back to vfu_attach_ctx.                         *)
OneClient == pc \in {"attach", "in_attach"} => client = "none"

(* And a client that has not been served yet finds the registers and       *)
(* queues of power-on, whatever its predecessor left: the callback is      *)
(* registered, and the library, it is assumed, calls it on every attach    *)
(* (the comment at src/main.c:106).                                        *)
ClientsInTurn == OneClient /\ (client = "new" => regs = "power_on")

(* After SIGINT or SIGTERM at most two more library calls are begun: the   *)
(* attach that was already decided on, and the one vfu_run_ctx that the    *)
(* do-while makes before it looks at g_stop.                               *)
StopBounded == late <= 2

(* Once a client is waited for, the namespace holds at least one key and   *)
(* no more bytes than --capacity, and wastes less than a slot unless the   *)
(* limit of the specification cuts it; an argument without a minus sign is *)
(* never exceeded.                                                         *)
CapacityHonoured ==
  vfu = 1 =>
    /\ max_num_keys \in 1 .. NVME_KV_HARD_MAX_NUM_KEYS
    /\ max_num_keys * slot <= capacity
    /\ max_num_keys < NVME_KV_HARD_MAX_NUM_KEYS => capacity - max_num_keys * slot < slot
    /\ asked = <<>> => capacity = VFU_KVSSD_DEFAULT_CAPACITY
    /\ asked # <<>> /\ ~asked[1].neg => capacity <= asked[1].mag * Scale(asked[1].suffix)

(* A stop request ends the process, provided clients come and go.          *)
StopIsSeen == g_stop ~> pc = "exited"

(* A device is created only for the size that was asked for: parse_size is *)
(* to "Parse a non-negative byte-count with optional K/M/G suffix (powers  *)
(* of 1024)" (src/main.c:51).                                              *)
CapacityIsTheByteCount ==
  vfu = 1 /\ asked # <<>> => ~asked[1].neg /\ capacity = asked[1].mag * Scale(asked[1].suffix)
=============================================================================
