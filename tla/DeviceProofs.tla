---------------------------- MODULE DeviceProofs ----------------------------
(***************************************************************************)
(* What was acknowledged is true, for any number of queues and keys, any   *)
(* depth and any commands.                                                 *)
(***************************************************************************)
EXTENDS Device, TLAPS

(* A write that waits in a queue that is up is the only open write of its  *)
(* key, and so is one whose answer waits; an answer of success is still    *)
(* true; and nothing is known of a key with an open write.                 *)
OpenTodo ==
  \A q \in up : \A i \in 1 .. Len(todo[q]) :
    Writes(todo[q][i]) => open[KeyOfCmd(todo[q][i])] = "todo"
OneTodo ==
  \A q, r \in up : \A i \in 1 .. Len(todo[q]), j \in 1 .. Len(todo[r]) :
    /\ Writes(todo[q][i]) /\ Writes(todo[r][j])
    /\ KeyOfCmd(todo[q][i]) = KeyOfCmd(todo[r][j])
    => q = r /\ i = j
OpenAnswer ==
  \A q \in up : \A i \in 1 .. Len(answers[q]) :
    Writes(answers[q][i].cmd) => open[KeyOfCmd(answers[q][i].cmd)] = "done"
OneAnswer ==
  \A q, r \in up : \A i \in 1 .. Len(answers[q]), j \in 1 .. Len(answers[r]) :
    /\ Writes(answers[q][i].cmd) /\ Writes(answers[r][j].cmd)
    /\ KeyOfCmd(answers[q][i].cmd) = KeyOfCmd(answers[r][j].cmd)
    => q = r /\ i = j
True(a) ==
  Writes(a.cmd) /\ a.ok =>
    IF a.cmd.opcode = "STORE" THEN KeyOfCmd(a.cmd) \in DOMAIN map
    ELSE KeyOfCmd(a.cmd) \notin DOMAIN map
AnswersTrue == \A q \in up : \A i \in 1 .. Len(answers[q]) : True(answers[q][i])
OpenUnknown == \A k \in Key : open[k] # "no" => known[k] = "unknown"

Inv ==
  /\ TypeOK
  /\ OpenTodo /\ OneTodo /\ OpenAnswer /\ OneAnswer
  /\ AnswersTrue /\ OpenUnknown /\ AckedIsTrue

-----------------------------------------------------------------------------
(* Commands and the map.                                                   *)

LEMMA KeyType == ASSUME NEW c \in Cmds PROVE KeyOfCmd(c) \in Key
<1>1. c \in NvmeKVCmd /\ Word \in Nat \ {0}
  BY InputAssumption, SizeAssumption
<1>2. KeyLen(c) \in 0 .. NVME_KV_MAX_KEY_SIZE
  BY <1>1 DEF KeyLen, NvmeKVCmd, NVME_KV_MAX_KEY_SIZE
<1>3. ASSUME NEW i \in 0 .. KeyLen(c) - 1
      PROVE  (IF i < Word THEN c.key[i] ELSE c.key_hi[i - Word]) \in Byte
  <2>1. c.key \in [0 .. Word - 1 -> Byte] /\ c.key_hi \in [0 .. Word - 1 -> Byte]
    BY <1>1 DEF NvmeKVCmd
  <2>2. CASE i < Word
    BY <1>1, <2>1, <2>2
  <2>3. CASE ~(i < Word)
    BY <1>1, <1>2, <2>1, <2>3 DEF NVME_KV_MAX_KEY_SIZE
  <2> QED BY <2>2, <2>3
<1>4. KeyOfCmd(c) \in [0 .. KeyLen(c) - 1 -> Byte]
  BY <1>3 DEF KeyOfCmd
<1> QED BY <1>2, <1>4 DEF Key

(* The names that KvMap brings mean the same.                              *)
LEMMA Same ==
  ASSUME NEW c
  PROVE  /\ KV!NVME_KV_MAX_KEY_SIZE = NVME_KV_MAX_KEY_SIZE
         /\ KV!KeyOfCmd(c) = KeyOfCmd(c)
  BY DEF KV!NVME_KV_MAX_KEY_SIZE, NVME_KV_MAX_KEY_SIZE, KV!KeyOfCmd, KeyOfCmd,
         KV!KeyLen, KeyLen

(* What a command may do to the map: only a write changes it, only at its  *)
(* key, and its success tells what is there now.                           *)
LEMMA MapEffect ==
  ASSUME NEW c \in Cmds, nvme_io_kv(c)
  PROVE  /\ ednek' = ednek
         /\ DOMAIN map' \subseteq DOMAIN map \union {KeyOfCmd(c)}
         /\ \A k : ~(Writes(c) /\ k = KeyOfCmd(c)) => (k \in DOMAIN map' <=> k \in DOMAIN map)
         /\ Writes(c) /\ rsp'.status = "SUCCESS" =>
              IF c.opcode = "STORE" THEN KeyOfCmd(c) \in DOMAIN map'
              ELSE KeyOfCmd(c) \notin DOMAIN map'
<1> DEFINE k == KeyOfCmd(c)
           Goal == /\ ednek' = ednek
                   /\ DOMAIN map' \subseteq DOMAIN map \union {k}
                   /\ \A x : ~(Writes(c) /\ x = k) => (x \in DOMAIN map' <=> x \in DOMAIN map)
                   /\ Writes(c) /\ rsp'.status = "SUCCESS" =>
                        IF c.opcode = "STORE" THEN k \in DOMAIN map' ELSE k \notin DOMAIN map'
<1>1. CASE KV!Fail(c)
  <2>1. PICK s \in KV!Status : rsp' = KV!Rsp(c, s) /\ KV!Fails(c, s)
    BY <1>1 DEF KV!Fail
  <2>2. rsp'.status = s
    BY <2>1 DEF KV!Rsp
  <2>3. s # "SUCCESS"
    BY <2>1 DEF KV!Fails
  <2>4. map' = map /\ ednek' = ednek
    BY <1>1 DEF KV!Fail
  <2> QED BY <2>2, <2>3, <2>4
<1>2. CASE KV!Store(c)
  <2>1. c.opcode = "STORE" /\ Writes(c) /\ ednek' = ednek
    BY <1>2, Same DEF KV!Store, Writes
  <2>2. PICK v : map' = KV!Put(k, v)
    BY <1>2, Same DEF KV!Store
  <2>3. DOMAIN map' = DOMAIN map \union {k}
    BY <2>2 DEF KV!Put
  <2> QED BY <2>1, <2>3
<1>3. CASE KV!Delete(c)
  <2>1. c.opcode = "DELETE" /\ Writes(c) /\ ednek' = ednek
    BY <1>3, Same DEF KV!Delete, Writes
  <2>2. map' = [x \in DOMAIN map \ {k} |-> map[x]]
    BY <1>3, Same DEF KV!Delete
  <2>3. DOMAIN map' = DOMAIN map \ {k}
    BY <2>2
  <2> QED BY <2>1, <2>3
<1>4. CASE KV!Retrieve(c) \/ KV!Exist(c) \/ KV!List(c)
  <2>1. map' = map /\ ednek' = ednek /\ ~Writes(c)
    BY <1>4 DEF KV!Retrieve, KV!Exist, KV!List, Writes
  <2> QED BY <2>1
<1> QED BY <1>1, <1>2, <1>3, <1>4 DEF nvme_io_kv

-----------------------------------------------------------------------------
(* The invariant is inductive.                                             *)

LEMMA InitInv == Init => Inv
<1> SUFFICES ASSUME Init PROVE Inv
  OBVIOUS
<1>1. DOMAIN map = {} /\ ednek = FALSE
  BY DEF Init, KV!Init
<1>2. todo \in [Queue -> Seq(Cmds)] /\ answers \in [Queue -> Seq(Answer)]
  BY DEF Init
<1>3. \A q \in Queue : Len(todo[q]) + Len(answers[q]) <= Depth
  BY DepthAssumption DEF Init
<1>4. TypeOK
  BY <1>1, <1>2, <1>3 DEF Init, TypeOK
<1> QED BY <1>4 DEF Inv, Init, OpenTodo, OneTodo, OpenAnswer, OneAnswer, AnswersTrue,
                    OpenUnknown, AckedIsTrue

LEMMA SubmitInv ==
  ASSUME Inv, NEW q \in Queue, NEW c \in Cmds, Submit(q, c)
  PROVE  Inv'
<1> DEFINE k == KeyOfCmd(c)
           n == Len(todo[q]) + 1
<1>1. k \in Key
  BY KeyType
<1>2. /\ q \in up /\ Len(todo[q]) + Len(answers[q]) < Depth
      /\ Writes(c) => open[k] = "no"
      /\ todo' = [todo EXCEPT ![q] = Append(@, c)]
      /\ open' = IF Writes(c) THEN [open EXCEPT ![k] = "todo"] ELSE open
      /\ known' = IF Writes(c) THEN [known EXCEPT ![k] = "unknown"] ELSE known
      /\ UNCHANGED <<map, ednek, up, answers, lost>>
  BY DEF Submit, kv
<1>3. /\ todo \in [Queue -> Seq(Cmds)] /\ answers \in [Queue -> Seq(Answer)]
      /\ up \subseteq Queue /\ Depth \in Nat
      /\ open \in [Key -> {"no", "todo", "done"}]
      /\ known \in [Key -> {"present", "absent", "unknown"}]
  BY DepthAssumption DEF Inv, TypeOK
<1>4. /\ todo'[q] \in Seq(Cmds) /\ Len(todo'[q]) = n /\ todo'[q][n] = c
      /\ \A i \in 1 .. n - 1 : todo'[q][i] = todo[q][i]
      /\ \A r \in Queue \ {q} : todo'[r] = todo[r]
  BY <1>2, <1>3
<1>5. TypeOK'
  BY <1>1, <1>2, <1>3, <1>4 DEF Inv, TypeOK
<1>6. ASSUME NEW r \in up, NEW i \in 1 .. Len(todo'[r])
      PROVE  \/ r = q /\ i = n /\ todo'[r][i] = c
             \/ i \in 1 .. Len(todo[r]) /\ todo'[r][i] = todo[r][i]
  <2>1. CASE r = q /\ i = n
    BY <1>4, <2>1
  <2>2. CASE ~(r = q /\ i = n)
    <3>1. CASE r = q
      BY <1>3, <1>4, <2>2, <3>1
    <3>2. CASE r # q
      BY <1>3, <1>4, <3>2
    <3> QED BY <3>1, <3>2
  <2> QED BY <2>1, <2>2
<1> HIDE DEF n, k
<1>7. ASSUME NEW r \in up, NEW i \in 1 .. Len(todo[r]), Writes(todo[r][i])
      PROVE  /\ KeyOfCmd(todo[r][i]) \in Key
             /\ open[KeyOfCmd(todo[r][i])] = "todo"
             /\ Writes(c) => KeyOfCmd(todo[r][i]) # k
  <2>1. todo[r][i] \in Cmds
    BY <1>3
  <2>2. open[KeyOfCmd(todo[r][i])] = "todo"
    BY <1>7 DEF Inv, OpenTodo
  <2> QED BY <1>2, <2>1, <2>2, KeyType
<1>8. OpenTodo' /\ OneTodo'
  <2>1. ASSUME NEW r \in up', NEW i \in 1 .. Len(todo'[r]), Writes(todo'[r][i])
        PROVE  open'[KeyOfCmd(todo'[r][i])] = "todo"
    <3> r \in up
      BY <1>2
    <3>1. CASE todo'[r][i] = c
      BY <1>1, <1>2, <1>3, <2>1, <3>1 DEF k
    <3>2. CASE i \in 1 .. Len(todo[r]) /\ todo'[r][i] = todo[r][i]
      BY <1>1, <1>2, <1>3, <1>7, <2>1, <3>2
    <3> QED BY <1>6, <3>1, <3>2
  <2>2. ASSUME NEW r \in up', NEW s \in up',
               NEW i \in 1 .. Len(todo'[r]), NEW j \in 1 .. Len(todo'[s]),
               Writes(todo'[r][i]), Writes(todo'[s][j]),
               KeyOfCmd(todo'[r][i]) = KeyOfCmd(todo'[s][j])
        PROVE  r = s /\ i = j
    <3> r \in up /\ s \in up
      BY <1>2
    <3>1. CASE r = q /\ i = n /\ todo'[r][i] = c
      BY <1>6, <1>7, <2>2, <3>1 DEF k
    <3>2. CASE s = q /\ j = n /\ todo'[s][j] = c
      BY <1>6, <1>7, <2>2, <3>2 DEF k
    <3>3. CASE /\ i \in 1 .. Len(todo[r]) /\ todo'[r][i] = todo[r][i]
               /\ j \in 1 .. Len(todo[s]) /\ todo'[s][j] = todo[s][j]
      BY <2>2, <3>3 DEF Inv, OneTodo
    <3> QED BY <1>6, <3>1, <3>2, <3>3
  <2>3. OneTodo'
    BY ONLY <2>2 DEF OneTodo
  <2> QED BY <2>1, <2>3 DEF OpenTodo
<1>9. OpenAnswer'
  <2>1. ASSUME NEW r \in up, NEW i \in 1 .. Len(answers[r]), Writes(answers[r][i].cmd)
        PROVE  open'[KeyOfCmd(answers[r][i].cmd)] = "done"
    <3>1. open[KeyOfCmd(answers[r][i].cmd)] = "done"
      BY <2>1 DEF Inv, OpenAnswer
    <3> QED BY <1>1, <1>2, <1>3, <3>1
  <2> QED BY <1>2, <2>1 DEF OpenAnswer
<1>10. OneAnswer' /\ AnswersTrue'
  BY <1>2 DEF Inv, OneAnswer, AnswersTrue, True
<1>11. OpenUnknown' /\ AckedIsTrue'
  BY <1>1, <1>2, <1>3 DEF Inv, OpenUnknown, AckedIsTrue
<1> QED BY <1>5, <1>8, <1>9, <1>10, <1>11 DEF Inv

LEMMA ReadInv ==
  ASSUME Inv, NEW q \in Queue, Read(q)
  PROVE  Inv'
<1> DEFINE a == Head(answers[q])
           k == KeyOfCmd(a.cmd)
<1>1. /\ todo \in [Queue -> Seq(Cmds)] /\ answers \in [Queue -> Seq(Answer)]
      /\ up \subseteq Queue /\ Depth \in Nat
      /\ open \in [Key -> {"no", "todo", "done"}]
      /\ known \in [Key -> {"present", "absent", "unknown"}]
  BY DepthAssumption DEF Inv, TypeOK
<1>2. /\ q \in up /\ answers[q] # <<>>
      /\ answers' = [answers EXCEPT ![q] = Tail(@)]
      /\ open' = IF Writes(a.cmd) THEN [open EXCEPT ![k] = "no"] ELSE open
      /\ known' = IF Writes(a.cmd) /\ a.ok THEN [known EXCEPT ![k] = Learned(a)] ELSE known
      /\ UNCHANGED <<map, ednek, up, todo, lost>>
  BY DEF Read, kv
<1>3. /\ a = answers[q][1] /\ 1 \in 1 .. Len(answers[q]) /\ a \in Answer
      /\ answers'[q] \in Seq(Answer) /\ Len(answers'[q]) = Len(answers[q]) - 1
      /\ \A i \in 1 .. Len(answers'[q]) : answers'[q][i] = answers[q][i + 1]
      /\ \A r \in Queue \ {q} : answers'[r] = answers[r]
  BY <1>1, <1>2
<1>4. a.cmd \in Cmds /\ k \in Key
  BY <1>3, KeyType DEF Answer
<1>5. Learned(a) \in {"present", "absent"}
  BY DEF Learned
<1>6. TypeOK'
  BY <1>1, <1>2, <1>3, <1>4, <1>5 DEF Inv, TypeOK
<1>7. Writes(a.cmd) => open[k] = "done" /\ known[k] = "unknown"
  BY <1>2, <1>3, <1>4 DEF Inv, OpenAnswer, OpenUnknown
<1>8. OpenTodo' /\ OneTodo'
  <2>1. ASSUME NEW r \in up, NEW i \in 1 .. Len(todo[r]), Writes(todo[r][i])
        PROVE  open'[KeyOfCmd(todo[r][i])] = "todo"
    <3>1. open[KeyOfCmd(todo[r][i])] = "todo" /\ KeyOfCmd(todo[r][i]) \in Key
      BY <1>1, <2>1, KeyType DEF Inv, OpenTodo
    <3> QED BY <1>1, <1>2, <1>4, <1>7, <3>1
  <2> QED BY <1>2, <2>1 DEF Inv, OpenTodo, OneTodo
<1> HIDE DEF a, k
<1>9. ASSUME NEW r \in up, NEW i \in 1 .. Len(answers'[r])
      PROVE  \E j \in 1 .. Len(answers[r]) :
               /\ answers'[r][i] = answers[r][j]
               /\ r = q => j = i + 1
               /\ r # q => j = i
  BY <1>1, <1>2, <1>3
<1>10. OpenAnswer'
  <2>1. ASSUME NEW r \in up, NEW i \in 1 .. Len(answers'[r]), Writes(answers'[r][i].cmd)
        PROVE  open'[KeyOfCmd(answers'[r][i].cmd)] = "done"
    <3>1. PICK j \in 1 .. Len(answers[r]) :
            answers'[r][i] = answers[r][j] /\ (r = q => j = i + 1) /\ (r # q => j = i)
      BY <1>9
    <3>2. answers[r][j] \in Answer
      BY <1>1
    <3>3. open[KeyOfCmd(answers[r][j].cmd)] = "done" /\ KeyOfCmd(answers[r][j].cmd) \in Key
      BY <2>1, <3>1, <3>2, KeyType DEF Inv, OpenAnswer, Answer
    <3>4. Writes(a.cmd) => KeyOfCmd(answers[r][j].cmd) # k
      <4> SUFFICES ASSUME Writes(a.cmd), KeyOfCmd(answers[r][j].cmd) = k PROVE FALSE
        OBVIOUS
      <4>1. r = q /\ j = 1
        BY <1>2, <1>3, <2>1, <3>1 DEF Inv, OneAnswer, k
      <4> QED BY <3>1, <4>1
    <3> QED BY <1>1, <1>2, <1>4, <3>1, <3>3, <3>4 DEF k
  <2> QED BY <1>2, <2>1 DEF OpenAnswer
<1>11. OneAnswer'
  <2>1. ASSUME NEW r \in up', NEW s \in up',
               NEW i \in 1 .. Len(answers'[r]), NEW j \in 1 .. Len(answers'[s]),
               Writes(answers'[r][i].cmd), Writes(answers'[s][j].cmd),
               KeyOfCmd(answers'[r][i].cmd) = KeyOfCmd(answers'[s][j].cmd)
        PROVE  r = s /\ i = j
    <3> r \in up /\ s \in up
      BY <1>2
    <3>1. PICK x \in 1 .. Len(answers[r]) :
            answers'[r][i] = answers[r][x] /\ (r = q => x = i + 1) /\ (r # q => x = i)
      BY <1>9
    <3>2. PICK y \in 1 .. Len(answers[s]) :
            answers'[s][j] = answers[s][y] /\ (s = q => y = j + 1) /\ (s # q => y = j)
      BY <1>9
    <3>3. r = s /\ x = y
      BY <2>1, <3>1, <3>2 DEF Inv, OneAnswer
    <3> QED BY <3>1, <3>2, <3>3
  <2> QED BY ONLY <2>1 DEF OneAnswer
<1>12. AnswersTrue'
  <2>1. ASSUME NEW r \in up, NEW i \in 1 .. Len(answers'[r])
        PROVE  True(answers'[r][i])
    BY <1>9 DEF Inv, AnswersTrue
  <2> QED BY <1>2, <2>1 DEF AnswersTrue, True
<1>13. True(a)
  BY <1>2, <1>3 DEF Inv, AnswersTrue
<1>14. OpenUnknown'
  BY <1>1, <1>2, <1>4, <1>7 DEF Inv, OpenUnknown, k
<1>15. AckedIsTrue'
  BY <1>1, <1>2, <1>4, <1>13 DEF Inv, AckedIsTrue, True, Learned, k
<1> QED BY <1>6, <1>8, <1>10, <1>11, <1>12, <1>14, <1>15 DEF Inv

LEMMA ExecuteInv ==
  ASSUME Inv, NEW q \in Queue, Execute(q)
  PROVE  Inv'
<1> DEFINE c == Head(todo[q])
           k == KeyOfCmd(c)
           a == [cmd |-> c, ok |-> rsp'.status = "SUCCESS"]
           m == Len(answers[q]) + 1
<1>1. /\ todo \in [Queue -> Seq(Cmds)] /\ answers \in [Queue -> Seq(Answer)]
      /\ up \subseteq Queue /\ lost \subseteq Queue /\ Depth \in Nat
      /\ open \in [Key -> {"no", "todo", "done"}]
      /\ known \in [Key -> {"present", "absent", "unknown"}]
      /\ DOMAIN map \subseteq Key
  BY DepthAssumption DEF Inv, TypeOK
<1>2. /\ q \in up /\ todo[q] # <<>>
      /\ nvme_io_kv(c) /\ Post(q, c)
      /\ todo' = [todo EXCEPT ![q] = Tail(@)]
      /\ open' = IF Writes(c) THEN [open EXCEPT ![k] = "done"] ELSE open
      /\ UNCHANGED <<up, known>>
  BY DEF Execute
<1>3. /\ c = todo[q][1] /\ 1 \in 1 .. Len(todo[q]) /\ c \in Cmds
      /\ todo'[q] \in Seq(Cmds) /\ Len(todo'[q]) = Len(todo[q]) - 1
      /\ \A i \in 1 .. Len(todo'[q]) : todo'[q][i] = todo[q][i + 1]
      /\ \A r \in Queue \ {q} : todo'[r] = todo[r]
  BY <1>1, <1>2
<1>4. k \in Key
  BY <1>3, KeyType
<1>5. /\ ednek' = ednek /\ DOMAIN map' \subseteq Key
      /\ \A x : ~(Writes(c) /\ x = k) => (x \in DOMAIN map' <=> x \in DOMAIN map)
      /\ Writes(c) /\ rsp'.status = "SUCCESS" =>
           IF c.opcode = "STORE" THEN k \in DOMAIN map' ELSE k \notin DOMAIN map'
  BY <1>1, <1>2, <1>3, <1>4, MapEffect
<1>6. Writes(c) => open[k] = "todo" /\ known[k] = "unknown"
  <2>1. Writes(c) => open[k] = "todo"
    BY <1>2, <1>3 DEF Inv, OpenTodo
  <2> QED BY <1>4, <2>1 DEF Inv, OpenUnknown
<1>7. a \in Answer /\ a.cmd = c /\ a.ok = (rsp'.status = "SUCCESS")
  BY <1>3 DEF Answer
<1> HIDE DEF c, k, a, m
<1>8. \/ answers' = answers /\ lost' \subseteq Queue
      \/ answers' = [answers EXCEPT ![q] = Append(@, a)] /\ lost' = lost
  BY <1>1, <1>2 DEF Post, a
<1>9. /\ answers' \in [Queue -> Seq(Answer)]
      /\ Len(answers'[q]) <= m
      /\ \A r \in Queue \ {q} : answers'[r] = answers[r]
      /\ \A i \in 1 .. Len(answers'[q]) :
           \/ i = m /\ answers'[q][i] = a
           \/ i \in 1 .. Len(answers[q]) /\ answers'[q][i] = answers[q][i]
  <2>1. CASE answers' = answers
    BY <1>1, <2>1 DEF m
  <2>2. CASE answers' = [answers EXCEPT ![q] = Append(@, a)]
    BY <1>1, <1>7, <2>2 DEF m
  <2> QED BY <1>8, <2>1, <2>2
<1>10. TypeOK'
  <2>1. ASSUME NEW r \in Queue PROVE Len(todo'[r]) + Len(answers'[r]) <= Depth
    <3>1. Len(todo[r]) + Len(answers[r]) <= Depth
      BY DEF Inv, TypeOK
    <3>2. CASE r = q
      BY <1>1, <1>3, <1>9, <3>1, <3>2 DEF m
    <3>3. CASE r # q
      BY <1>3, <1>9, <3>1, <3>3
    <3> QED BY <3>2, <3>3
  <2>2. lost' \subseteq Queue /\ up' \subseteq Queue
    BY <1>1, <1>2, <1>8
  <2>3. todo' \in [Queue -> Seq(Cmds)]
    BY <1>1, <1>2, <1>3
  <2>4. open' \in [Key -> {"no", "todo", "done"}]
    BY <1>1, <1>2, <1>4
  <2>5. ednek' \in BOOLEAN
    BY <1>5 DEF Inv, TypeOK
  <2> QED BY <1>1, <1>2, <1>5, <1>9, <2>1, <2>2, <2>3, <2>4, <2>5 DEF TypeOK
<1>11. ASSUME NEW r \in up, NEW i \in 1 .. Len(todo'[r])
       PROVE  \E j \in 1 .. Len(todo[r]) :
                todo'[r][i] = todo[r][j] /\ (r = q => j = i + 1) /\ (r # q => j = i)
  BY <1>1, <1>2, <1>3
<1>12. OpenTodo'
  <2>1. ASSUME NEW r \in up', NEW i \in 1 .. Len(todo'[r]), Writes(todo'[r][i])
        PROVE  open'[KeyOfCmd(todo'[r][i])] = "todo"
    <3> r \in up
      BY <1>2
    <3>1. PICK j \in 1 .. Len(todo[r]) :
            todo'[r][i] = todo[r][j] /\ (r = q => j = i + 1) /\ (r # q => j = i)
      BY <1>11
    <3>2. open[KeyOfCmd(todo[r][j])] = "todo" /\ KeyOfCmd(todo[r][j]) \in Key
      BY <1>1, <2>1, <3>1, KeyType DEF Inv, OpenTodo
    <3>3. Writes(c) => KeyOfCmd(todo[r][j]) # k
      <4> SUFFICES ASSUME Writes(c), KeyOfCmd(todo[r][j]) = k PROVE FALSE
        OBVIOUS
      <4>1. r = q /\ j = 1
        BY <1>2, <1>3, <2>1, <3>1 DEF Inv, OneTodo, k
      <4> QED BY <3>1, <4>1
    <3> QED BY <1>1, <1>2, <1>4, <3>1, <3>2, <3>3 DEF c, k
  <2> QED BY <2>1 DEF OpenTodo
<1>13. OneTodo'
  <2>1. ASSUME NEW r \in up', NEW s \in up',
               NEW i \in 1 .. Len(todo'[r]), NEW j \in 1 .. Len(todo'[s]),
               Writes(todo'[r][i]), Writes(todo'[s][j]),
               KeyOfCmd(todo'[r][i]) = KeyOfCmd(todo'[s][j])
        PROVE  r = s /\ i = j
    <3> r \in up /\ s \in up
      BY <1>2
    <3>1. PICK x \in 1 .. Len(todo[r]) :
            todo'[r][i] = todo[r][x] /\ (r = q => x = i + 1) /\ (r # q => x = i)
      BY <1>11
    <3>2. PICK y \in 1 .. Len(todo[s]) :
            todo'[s][j] = todo[s][y] /\ (s = q => y = j + 1) /\ (s # q => y = j)
      BY <1>11
    <3>3. r = s /\ x = y
      BY <2>1, <3>1, <3>2 DEF Inv, OneTodo
    <3> QED BY <3>1, <3>2, <3>3
  <2> QED BY ONLY <2>1 DEF OneTodo
<1>14. ASSUME NEW r \in up, NEW i \in 1 .. Len(answers'[r])
       PROVE  \/ r = q /\ i = m /\ answers'[r][i] = a
              \/ i \in 1 .. Len(answers[r]) /\ answers'[r][i] = answers[r][i]
  BY <1>1, <1>9
<1>15. ASSUME NEW r \in up, NEW i \in 1 .. Len(answers[r]), Writes(answers[r][i].cmd)
       PROVE  /\ open[KeyOfCmd(answers[r][i].cmd)] = "done"
              /\ KeyOfCmd(answers[r][i].cmd) \in Key
              /\ Writes(c) => KeyOfCmd(answers[r][i].cmd) # k
  <2>1. answers[r][i] \in Answer
    BY <1>1
  <2>2. KeyOfCmd(answers[r][i].cmd) \in Key
    BY <2>1, KeyType DEF Answer
  <2>3. open[KeyOfCmd(answers[r][i].cmd)] = "done"
    BY <1>15 DEF Inv, OpenAnswer
  <2> QED BY <1>6, <2>2, <2>3
<1>16. OpenAnswer'
  <2>1. ASSUME NEW r \in up', NEW i \in 1 .. Len(answers'[r]), Writes(answers'[r][i].cmd)
        PROVE  open'[KeyOfCmd(answers'[r][i].cmd)] = "done"
    <3> r \in up
      BY <1>2
    <3>1. CASE answers'[r][i] = a
      BY <1>1, <1>2, <1>4, <1>7, <2>1, <3>1 DEF k
    <3>2. CASE i \in 1 .. Len(answers[r]) /\ answers'[r][i] = answers[r][i]
      BY <1>1, <1>2, <1>4, <1>15, <2>1, <3>2 DEF k
    <3> QED BY <1>14, <3>1, <3>2
  <2> QED BY <2>1 DEF OpenAnswer
<1>17. OneAnswer'
  <2>1. ASSUME NEW r \in up', NEW s \in up',
               NEW i \in 1 .. Len(answers'[r]), NEW j \in 1 .. Len(answers'[s]),
               Writes(answers'[r][i].cmd), Writes(answers'[s][j].cmd),
               KeyOfCmd(answers'[r][i].cmd) = KeyOfCmd(answers'[s][j].cmd)
        PROVE  r = s /\ i = j
    <3> r \in up /\ s \in up
      BY <1>2
    <3>1. CASE r = q /\ i = m /\ answers'[r][i] = a
      BY <1>7, <1>14, <1>15, <2>1, <3>1 DEF k
    <3>2. CASE s = q /\ j = m /\ answers'[s][j] = a
      BY <1>7, <1>14, <1>15, <2>1, <3>2 DEF k
    <3>3. CASE /\ i \in 1 .. Len(answers[r]) /\ answers'[r][i] = answers[r][i]
               /\ j \in 1 .. Len(answers[s]) /\ answers'[s][j] = answers[s][j]
      BY <2>1, <3>3 DEF Inv, OneAnswer
    <3> QED BY <1>14, <3>1, <3>2, <3>3
  <2> QED BY ONLY <2>1 DEF OneAnswer
<1>18. AnswersTrue'
  <2>1. ASSUME NEW r \in up', NEW i \in 1 .. Len(answers'[r]),
               Writes(answers'[r][i].cmd), answers'[r][i].ok
        PROVE  IF answers'[r][i].cmd.opcode = "STORE"
               THEN KeyOfCmd(answers'[r][i].cmd) \in DOMAIN map'
               ELSE KeyOfCmd(answers'[r][i].cmd) \notin DOMAIN map'
    <3> r \in up
      BY <1>2
    <3>1. CASE answers'[r][i] = a
      BY <1>5, <1>7, <2>1, <3>1 DEF k
    <3>2. CASE i \in 1 .. Len(answers[r]) /\ answers'[r][i] = answers[r][i]
      <4>1. True(answers[r][i])
        BY <3>2 DEF Inv, AnswersTrue
      <4> QED BY <1>5, <1>15, <2>1, <3>2, <4>1 DEF True
    <3> QED BY <1>14, <3>1, <3>2
  <2> QED BY <2>1 DEF AnswersTrue, True
<1>19. OpenUnknown'
  BY <1>1, <1>2, <1>4, <1>6 DEF Inv, OpenUnknown, c, k
<1>20. AckedIsTrue'
  BY <1>2, <1>4, <1>5, <1>6 DEF Inv, AckedIsTrue
<1> QED BY <1>10, <1>12, <1>13, <1>16, <1>17, <1>18, <1>19, <1>20 DEF Inv

LEMMA CreateInv ==
  ASSUME Inv, NEW q \in Queue, CreateQueues(q)
  PROVE  Inv'
<1>1. /\ todo \in [Queue -> Seq(Cmds)] /\ answers \in [Queue -> Seq(Answer)]
      /\ up \subseteq Queue /\ lost \subseteq Queue /\ Depth \in Nat
  BY DepthAssumption DEF Inv, TypeOK
<1>2. /\ up' = up \union {q} /\ q \notin up /\ lost' = lost \ {q}
      /\ todo' = [todo EXCEPT ![q] = <<>>] /\ answers' = [answers EXCEPT ![q] = <<>>]
      /\ UNCHANGED <<map, ednek, open, known>>
  BY DEF CreateQueues, kv
<1>3. /\ Len(todo'[q]) = 0 /\ Len(answers'[q]) = 0
      /\ \A r \in up : todo'[r] = todo[r] /\ answers'[r] = answers[r]
  BY <1>1, <1>2
<1>4. TypeOK'
  BY <1>1, <1>2, <1>3 DEF Inv, TypeOK
<1>5. ASSUME NEW r \in up', 1 .. Len(todo'[r]) # {} \/ 1 .. Len(answers'[r]) # {}
      PROVE  r \in up
  BY <1>2, <1>3, <1>5
<1>6. OpenTodo' /\ OpenAnswer' /\ AnswersTrue'
  BY <1>2, <1>3, <1>5 DEF Inv, OpenTodo, OpenAnswer, AnswersTrue, True
<1>7. OneTodo'
  BY <1>2, <1>3, <1>5 DEF Inv, OneTodo
<1>8. OneAnswer'
  BY <1>2, <1>3, <1>5 DEF Inv, OneAnswer
<1>9. OpenUnknown' /\ AckedIsTrue'
  BY <1>2 DEF Inv, OpenUnknown, AckedIsTrue
<1> QED BY <1>4, <1>6, <1>7, <1>8, <1>9 DEF Inv

LEMMA DownInv ==
  ASSUME Inv, Down
  PROVE  Inv'
<1>1. /\ up' = {} /\ open' = [k \in Key |-> "no"]
      /\ known' = [k \in Key |-> IF open[k] = "no" THEN known[k] ELSE "unknown"]
      /\ UNCHANGED <<map, ednek, todo, answers, lost>>
  BY DEF Down, nvme_queues_down, kv
<1>2. TypeOK'
  BY <1>1 DEF Inv, TypeOK
<1>3. OpenTodo' /\ OneTodo' /\ OpenAnswer' /\ OneAnswer' /\ AnswersTrue'
  BY <1>1 DEF OpenTodo, OneTodo, OpenAnswer, OneAnswer, AnswersTrue
<1>4. OpenUnknown' /\ AckedIsTrue'
  BY <1>1 DEF Inv, OpenUnknown, AckedIsTrue
<1> QED BY <1>2, <1>3, <1>4 DEF Inv

(* Set Features, and steps that change nothing.                            *)
LEMMA IdleInv ==
  ASSUME Inv, ednek' \in BOOLEAN, UNCHANGED <<map, up, todo, answers, lost, open, known>>
  PROVE  Inv'
  BY DEF Inv, TypeOK, OpenTodo, OneTodo, OpenAnswer, OneAnswer, AnswersTrue, True,
         OpenUnknown, AckedIsTrue

LEMMA Invariance == Spec => []Inv
<1>1. ASSUME Inv, [Next]_vars PROVE Inv'
  <2>1. CASE SetEdnek
    BY <1>1, <2>1, IdleInv DEF SetEdnek, KV!SetEdnek, rings
  <2>2. CASE UNCHANGED vars
    <3>1. ednek \in BOOLEAN
      BY <1>1 DEF Inv, TypeOK
    <3> QED BY <1>1, <2>2, <3>1, IdleInv DEF vars, kv, rings
  <2> QED BY <1>1, <2>1, <2>2, SubmitInv, ExecuteInv, ReadInv, CreateInv, DownInv DEF Next
<1> QED BY <1>1, InitInv, PTL DEF Spec

-----------------------------------------------------------------------------
(* The theorems.                                                           *)

(* The queues never hold more than their depth, and the rest has its type. *)
THEOREM TypeCorrect == Spec => []TypeOK
<1>1. Inv => TypeOK
  BY DEF Inv
<1> QED BY <1>1, Invariance, PTL

(* A write that was acknowledged on one queue is true for all queues,      *)
(* through lost completions, resets and shutdowns, until the key is        *)
(* written again.                                                          *)
THEOREM AcknowledgedIsTrue == Spec => []AckedIsTrue
<1>1. Inv => AckedIsTrue
  BY DEF Inv
<1> QED BY <1>1, Invariance, PTL
=============================================================================
