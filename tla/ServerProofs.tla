---------------------------- MODULE ServerProofs ----------------------------
(***************************************************************************)
(* The server process, for every command line, word size and slot size:    *)
(* each resource released once, one client at a time, a bounded number of  *)
(* calls after a signal, and a capacity that is what was asked for.        *)
(***************************************************************************)
EXTENDS Server, TLAPS

-----------------------------------------------------------------------------
(* Arithmetic of the capacity.                                             *)

LEMMA DivisionBounds ==
  ASSUME NEW a \in Nat, NEW b \in Nat \ {0}
  PROVE  /\ a \div b \in Nat
         /\ (a \div b) * b <= a
         /\ a - (a \div b) * b < b
  BY SMTT(30)

LEMMA RemainderIsSmaller ==
  ASSUME NEW a \in Nat, NEW b \in Nat \ {0}
  PROVE  a % b \in 0 .. b - 1 /\ a % b <= a
  BY SMTT(30)

LEMMA ProductOrder ==
  ASSUME NEW a \in Nat, NEW b \in Nat, NEW c \in Nat, a <= b
  PROVE  a * c <= b * c
  BY SMTT(30)

LEMMA ScaleIsNat ==
  ASSUME NEW k \in 0 .. 3
  PROVE  Scale(k) \in Nat
<1>1. Kilo \in Nat /\ Kilo * Kilo \in Nat /\ Kilo * Kilo * Kilo \in Nat
  BY CapacityAssumption
<1>2. k = 0 \/ k = 1 \/ k = 2 \/ k = 3
  OBVIOUS
<1> QED BY <1>1, <1>2 DEF Scale

(* parse_size stays within the word, and a value without a sign is never   *)
(* larger than what was written.                                           *)
LEMMA ParseBounds ==
  ASSUME NEW a \in Size, parse_size(a).ok
  PROVE  /\ parse_size(a).out \in 0 .. Word - 1
         /\ ~a.neg => parse_size(a).out <= a.mag * Scale(a.suffix)
<1> DEFINE n == strtoull(a).n
           p == n * Scale(a.suffix)
<1>1. Word \in Nat \ {0} /\ a.mag \in Nat /\ a.suffix \in 0 .. 3 /\ a.mag < Word
  <2>1. Word \in Nat \ {0} /\ a.mag \in Nat /\ a.suffix \in 0 .. 3
    BY CapacityAssumption DEF Size
  <2>2. ~strtoull(a).err
    BY DEF parse_size
  <2>3. ~(a.mag >= Word)
    BY <2>2 DEF strtoull
  <2> QED BY <2>1, <2>3
<1>2. Scale(a.suffix) \in Nat
  BY <1>1, ScaleIsNat
<1>3. n \in Nat /\ (~a.neg => n = a.mag)
  <2>1. Word - a.mag \in Nat
    BY <1>1
  <2>2. (Word - a.mag) % Word \in Nat
    BY <1>1, <2>1, RemainderIsSmaller
  <2> QED BY <1>1, <2>2 DEF strtoull, Size
<1>4. p \in Nat
  <2> HIDE DEF n
  <2> QED BY <1>2, <1>3
<1>5. p % Word \in 0 .. Word - 1 /\ p % Word <= p
  <2> HIDE DEF p
  <2> QED BY <1>1, <1>4, RemainderIsSmaller
<1>6. parse_size(a).out = p % Word
  BY DEF parse_size
<1> QED BY <1>3, <1>5, <1>6

(* The slots a capacity is divided into.                                   *)
LEMMA KeysBounds ==
  ASSUME NEW c \in Nat, c \div slot # 0
  PROVE  LET k == Keys(c \div slot)
         IN /\ k \in 1 .. NVME_KV_HARD_MAX_NUM_KEYS
            /\ k * slot <= c
            /\ k < NVME_KV_HARD_MAX_NUM_KEYS => c - k * slot < slot
<1> DEFINE q == c \div slot
           M == NVME_KV_HARD_MAX_NUM_KEYS
<1>1. slot \in Nat \ {0} /\ M \in Nat \ {0}
  BY CapacityAssumption
<1>2. q \in Nat /\ q # 0 /\ q * slot <= c /\ c - q * slot < slot
  BY <1>1, DivisionBounds
<1>3. CASE q > M
  <2>1. Keys(q) = M
    BY <1>3 DEF Keys
  <2>2. M * slot <= q * slot
    <3> HIDE DEF q, M
    <3> QED BY <1>1, <1>2, <1>3, ProductOrder
  <2>3. M * slot <= c
    <3>1. M * slot \in Nat /\ q * slot \in Nat
      <4> HIDE DEF q, M
      <4> QED BY <1>1, <1>2
    <3> QED BY <1>2, <2>2, <3>1
  <2> QED BY <1>1, <2>1, <2>3
<1>4. CASE ~(q > M)
  <2>1. Keys(q) = q
    BY <1>4 DEF Keys
  <2>2. q \in 1 .. M
    <3> HIDE DEF q, M
    <3> QED BY <1>1, <1>2, <1>4
  <2> HIDE DEF q
  <2>3. Keys(q) \in 1 .. M /\ Keys(q) * slot <= c /\ (Keys(q) < M => c - Keys(q) * slot < slot)
    BY <1>2, <2>1, <2>2
  <2> QED BY <2>3 DEF q
<1> QED BY <1>3, <1>4

-----------------------------------------------------------------------------
(* The inductive invariant.                                                *)

Before == {"options", "slots", "create"}
Live == {"signals", "loop", "attach", "in_attach", "attached", "in_run", "ran", "done"}

(* What is held is a function of where main() is.                          *)
Held ==
  /\ vfu = IF pc \in Before \union {"exited"} THEN 0 ELSE 1
  /\ ns = IF pc \in Live \union {"realize", "err_ctrl"} THEN 1 ELSE 0
  /\ pc \in Live \union {"ctrl_init", "realize"} => step = SetupCalls
  /\ pc = "setup" => step < SetupCalls
  /\ pc \in Before => step = 0

(* A client stays attached only inside the loop, and at its head only if   *)
(* the loop is about to end.                                               *)
Attached ==
  /\ client # "none" => pc \in {"loop", "attached", "in_run", "ran", "done"}
  /\ client # "none" /\ pc = "loop" => g_stop
  /\ client # "none" /\ pc = "ran" => ret # "ENOTCONN" /\ (ret = "EINTR" => g_stop)
  /\ client = "new" => regs = "power_on"
  /\ pc = "ran" => ret \in {"ok", "EINTR", "ENOTCONN", "other"}

(* How many calls can have begun since the signal, at each point.          *)
Late ==
  /\ late \in 0 .. 2
  /\ ~g_stop \/ pc = "attach" => late = 0
  /\ pc \in {"in_attach", "attached"} => late <= 1

(* What is known of the capacity while and after it is read.               *)
Asked ==
  /\ asked = <<>> => capacity = VFU_KVSSD_DEFAULT_CAPACITY
  /\ asked # <<>> /\ ~asked[1].neg => capacity <= asked[1].mag * Scale(asked[1].suffix)
Divided ==
  pc \notin {"options", "slots", "exited"} =>
    /\ max_num_keys \in 1 .. NVME_KV_HARD_MAX_NUM_KEYS
    /\ max_num_keys * slot <= capacity
    /\ max_num_keys < NVME_KV_HARD_MAX_NUM_KEYS => capacity - max_num_keys * slot < slot

IInv == TypeOK /\ Held /\ Attached /\ Late /\ Asked /\ Divided

LEMMA InitInv == Init => IInv
<1> SUFFICES ASSUME Init PROVE IInv
  OBVIOUS
<1>1. args \in Seq(Option)
  BY OptionsAssumption DEF Init
<1>2. asked \in Seq(Size) /\ Len(asked) <= 1
  BY DEF Init
<1>3. TypeOK
  <2>1. capacity \in 0 .. Word - 1 /\ max_num_keys \in 0 .. NVME_KV_HARD_MAX_NUM_KEYS
    BY CapacityAssumption DEF Init
  <2>2. step \in 0 .. SetupCalls /\ late \in 0 .. 3 /\ vfu \in {0, 1} /\ ns \in {0, 1}
    BY DEF Init, SetupCalls
  <2>3. /\ pc \in Pcs /\ sock \in BOOLEAN /\ regs \in {"undefined", "power_on", "driven"}
        /\ g_stop \in BOOLEAN /\ client \in {"none", "new", "served"} /\ ret \in Results
        /\ status \in {NoStatus, 0, 1, 2}
    BY DEF Init, Pcs, Results
  <2> QED BY <1>1, <1>2, <2>1, <2>2, <2>3 DEF TypeOK
<1> QED BY <1>3 DEF Init, IInv, Held, Attached, Late, Asked, Divided, Before, Live, SetupCalls

-----------------------------------------------------------------------------
(* The options.                                                            *)

LEMMA TakeOptionInv == IInv /\ TakeOption => IInv'
<1> SUFFICES ASSUME IInv, TakeOption PROVE IInv'
  OBVIOUS
<1> DEFINE o == Head(args)
<1>1. pc = "options" /\ args \in Seq(Option) /\ args # <<>>
  BY DEF IInv, TypeOK, TakeOption
<1>2. o \in Option /\ Tail(args) \in Seq(Option)
  BY <1>1
<1>3. o.arg \in Size
  BY <1>2 DEF Option
<1>4. /\ UNCHANGED <<max_num_keys, step, vfu, ns, regs, g_stop, client, ret, late>>
      /\ args' \in Seq(Option)
  BY <1>2 DEF TakeOption
<1> HIDE DEF o
<1>5. /\ pc' \in {"options", "exited"} /\ sock' \in BOOLEAN /\ status' \in {NoStatus, 0, 1, 2}
      /\ \/ UNCHANGED <<capacity, asked>>
         \/ parse_size(o.arg).ok /\ capacity' = parse_size(o.arg).out /\ asked' = <<o.arg>>
  <2>1. CASE OptionSocket(o)
    BY <1>1, <2>1 DEF OptionSocket, IInv, TypeOK
  <2>2. CASE OptionCapacity(o)
    BY <1>1, <2>2 DEF OptionCapacity, Return, IInv, TypeOK
  <2>3. CASE OptionReturns(o)
    BY <1>1, <2>3 DEF OptionReturns, Return, IInv, TypeOK
  <2> QED BY <2>1, <2>2, <2>3 DEF TakeOption, o
<1>6. capacity' \in 0 .. Word - 1 /\ asked' \in Seq(Size) /\ Len(asked') <= 1 /\ Asked'
  <2>1. CASE UNCHANGED <<capacity, asked>>
    BY <2>1 DEF IInv, TypeOK, Asked
  <2>2. CASE parse_size(o.arg).ok /\ capacity' = parse_size(o.arg).out /\ asked' = <<o.arg>>
    <3>1. /\ parse_size(o.arg).out \in 0 .. Word - 1
          /\ ~o.arg.neg => parse_size(o.arg).out <= o.arg.mag * Scale(o.arg.suffix)
      BY <1>3, <2>2, ParseBounds
    <3>2. asked' \in Seq(Size) /\ Len(asked') = 1 /\ asked'[1] = o.arg
      BY <1>3, <2>2
    <3>3. asked' # <<>>
      BY <3>2
    <3> QED BY <2>2, <3>1, <3>2, <3>3 DEF Asked
  <2> QED BY <1>5, <2>1, <2>2
<1>7. TypeOK'
  BY <1>4, <1>5, <1>6 DEF IInv, TypeOK, Pcs
<1>8. Held' /\ Attached' /\ Late' /\ Divided'
  BY <1>1, <1>4, <1>5 DEF IInv, Held, Attached, Late, Divided, Before, Live
<1> QED BY <1>6, <1>7, <1>8 DEF IInv

LEMMA SlotsInv == IInv /\ Slots => IInv'
<1> SUFFICES ASSUME IInv, Slots PROVE IInv'
  OBVIOUS
<1>1. /\ UNCHANGED <<args, sock, asked, capacity, step, vfu, ns, regs, g_stop, client, ret, late>>
      /\ pc = "slots" /\ capacity \in Nat
  BY CapacityAssumption DEF Slots, IInv, TypeOK
<1>2. CASE capacity \div slot = 0
  <2>1. pc' = "exited" /\ status' = 2 /\ UNCHANGED max_num_keys
    BY <1>2 DEF Slots, Return
  <2> QED BY <1>1, <2>1 DEF IInv, TypeOK, Pcs, Held, Attached, Late, Asked, Divided, Before, Live
<1>3. CASE capacity \div slot # 0
  <2>1. pc' = "create" /\ max_num_keys' = Keys(capacity \div slot) /\ UNCHANGED status
    BY <1>3 DEF Slots
  <2>2. /\ max_num_keys' \in 1 .. NVME_KV_HARD_MAX_NUM_KEYS
        /\ max_num_keys' * slot <= capacity
        /\ max_num_keys' < NVME_KV_HARD_MAX_NUM_KEYS => capacity - max_num_keys' * slot < slot
    BY <1>1, <1>3, <2>1, KeysBounds
  <2>3. Divided'
    BY <1>1, <2>2 DEF Divided
  <2>4. TypeOK'
    BY <1>1, <2>1, <2>2, CapacityAssumption DEF IInv, TypeOK, Pcs
  <2> QED BY <1>1, <2>1, <2>3, <2>4 DEF IInv, Held, Attached, Late, Asked, Before, Live
<1> QED BY <1>2, <1>3

-----------------------------------------------------------------------------
(* Every other step leaves the options alone.                              *)

LEMMA KeepsOptions ==
  ASSUME IInv, UNCHANGED opts, pc' \in Pcs,
         pc' \in {"options", "slots", "exited"} \/ pc \notin {"options", "slots", "exited"},
         step' \in 0 .. SetupCalls, vfu' \in {0, 1}, ns' \in {0, 1},
         regs' \in {"undefined", "power_on", "driven"}, g_stop' \in BOOLEAN,
         client' \in {"none", "new", "served"}, ret' \in Results, late' \in 0 .. 3,
         status' \in {NoStatus, 0, 1, 2}
  PROVE  TypeOK' /\ Asked' /\ Divided'
  BY DEF IInv, TypeOK, Asked, Divided, opts

USE DEF SetupCalls, Before, Live, Pcs, Results

LEMMA SetupInv ==
  ASSUME IInv,
         \/ EndOfOptions \/ vfu_create_ctx \/ Setup \/ nvme_ctrl_init \/ vfu_realize_ctx
         \/ InstallHandlers \/ ErrCtrl \/ Err \/ Done
  PROVE  IInv'
<1>1. CASE EndOfOptions
  BY <1>1, KeepsOptions DEF EndOfOptions, Return, IInv, TypeOK, Held, Attached, Late
<1>2. CASE vfu_create_ctx
  BY <1>2, KeepsOptions DEF vfu_create_ctx, Return, IInv, TypeOK, Held, Attached, Late
<1>3. CASE Setup
  BY <1>3, KeepsOptions DEF Setup, IInv, TypeOK, Held, Attached, Late
<1>4. CASE nvme_ctrl_init
  BY <1>4, KeepsOptions DEF nvme_ctrl_init, IInv, TypeOK, Held, Attached, Late
<1>5. CASE vfu_realize_ctx
  BY <1>5, KeepsOptions DEF vfu_realize_ctx, IInv, TypeOK, Held, Attached, Late
<1>6. CASE InstallHandlers
  BY <1>6, KeepsOptions DEF InstallHandlers, IInv, TypeOK, Held, Attached, Late
<1>7. CASE ErrCtrl
  BY <1>7, KeepsOptions DEF ErrCtrl, IInv, TypeOK, Held, Attached, Late
<1>8. CASE Err
  BY <1>8, KeepsOptions DEF Err, Return, IInv, TypeOK, Held, Attached, Late
<1>9. CASE Done
  BY <1>9, KeepsOptions DEF Done, Return, IInv, TypeOK, Held, Attached, Late
<1> QED BY <1>1, <1>2, <1>3, <1>4, <1>5, <1>6, <1>7, <1>8, <1>9

LEMMA LoopInv ==
  ASSUME IInv,
         \/ on_signal \/ LoopTest \/ CallAttach \/ AttachReturns
         \/ CallRun \/ Serve \/ RunReturns \/ Ran
  PROVE  IInv'
<1>1. CASE on_signal
  BY <1>1, KeepsOptions DEF on_signal, Handled, IInv, TypeOK, Held, Attached, Late
<1>2. CASE LoopTest
  BY <1>2, KeepsOptions DEF LoopTest, IInv, TypeOK, Held, Attached, Late
<1>3. CASE CallAttach
  BY <1>3, KeepsOptions DEF CallAttach, Call, IInv, TypeOK, Held, Attached, Late
<1>4. CASE AttachReturns
  BY <1>4, KeepsOptions
     DEF AttachReturns, nvme_reset_cb, ResetCallback, IInv, TypeOK, Held, Attached, Late
<1>5. CASE CallRun
  BY <1>5, KeepsOptions DEF CallRun, Call, IInv, TypeOK, Held, Attached, Late
<1>6. CASE Serve
  BY <1>6, KeepsOptions DEF Serve, nvme_reset_cb, IInv, TypeOK, Held, Attached, Late
<1>7. CASE RunReturns
  BY <1>7, KeepsOptions DEF RunReturns, IInv, TypeOK, Held, Attached, Late
<1>8. CASE Ran
  BY <1>8, KeepsOptions DEF Ran, IInv, TypeOK, Held, Attached, Late
<1> QED BY <1>1, <1>2, <1>3, <1>4, <1>5, <1>6, <1>7, <1>8

LEMMA StutterInv == IInv /\ UNCHANGED vars => IInv'
  BY DEF IInv, vars, opts, TypeOK, Held, Attached, Late, Asked, Divided

LEMMA Invariance == Spec => []IInv
<1>1. Init => IInv
  BY InitInv
<1>2. IInv /\ [Next]_vars => IInv'
  BY TakeOptionInv, SlotsInv, SetupInv, LoopInv, StutterInv DEF Next, main, Exited
<1> QED BY <1>1, <1>2, PTL DEF Spec

-----------------------------------------------------------------------------
(* The theorems.                                                           *)

(* The process keeps its types.                                            *)
THEOREM TypeCorrect == Spec => []TypeOK
<1>1. IInv => TypeOK
  BY DEF IInv
<1> QED BY <1>1, Invariance, PTL

(* The context and the namespace are released exactly once on every way    *)
(* out of main(), and clients are served only between set-up and release.  *)
THEOREM ResourcesReleased == Spec => []ReleasedOnce
<1>1. IInv => ReleasedOnce
  BY DEF IInv, Held, Attached, ReleasedOnce, TypeOK
<1> QED BY <1>1, Invariance, PTL

(* No second client is waited for while one is attached, and the          *)
(* controller of a new client is in its power-on state.                    *)
THEOREM ClientsTakeTurns == Spec => []ClientsInTurn
<1>1. IInv => ClientsInTurn
  BY DEF IInv, Attached, OneClient, ClientsInTurn
<1> QED BY <1>1, Invariance, PTL

(* A signal is followed by at most two more calls of the library.          *)
THEOREM TwoCallsAfterStop == Spec => []StopBounded
<1>1. IInv => StopBounded
  BY DEF IInv, Late, StopBounded
<1> QED BY <1>1, Invariance, PTL

(* The namespace has the size --capacity asks for, for every word size.    *)
THEOREM CapacityIsHonoured == Spec => []CapacityHonoured
<1>1. IInv => CapacityHonoured
  BY DEF IInv, Held, Asked, Divided, CapacityHonoured
<1> QED BY <1>1, Invariance, PTL
=============================================================================
