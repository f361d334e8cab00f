--------------------------- MODULE ServiceProofs ----------------------------
(***************************************************************************)
(* Theorems about crud, upload-file and logs-writer: for every number of   *)
(* clients, records, uploads and calls, whatever faults the services have. *)
(***************************************************************************)
EXTENDS Services, FiniteSetTheorems, SequenceTheorems, WellFoundedInduction, TLAPS

(***************************************************************************)
(* crud                                                                    *)
(***************************************************************************)
Calls == [number : Nat, op : Operations, target : Records \union {NoCall.target}]

CrudTyped ==
    /\ begun \in Nat
    /\ executed \in Seq(Calls)
    /\ DOMAIN database = Records
    /\ step \in [Clients -> {"idle", "mutate", "fetch"}]
    /\ call \in [Clients -> Calls]
    /\ DOMAIN answer = Clients /\ \A c \in Clients : answer[c].how \in {"ok", "assert"} => answer[c].call \in Calls

Ran(n) == \E i \in DOMAIN executed : executed[i].number = n

\* Calls are numbered apart, and a number is executed at most once.
Numbered ==
    /\ \A i \in DOMAIN executed : executed[i].number \in 1..begun /\ executed[i].target \in Records
    /\ \A i, j \in DOMAIN executed : executed[i].number = executed[j].number => i = j
    /\ \A c \in Clients : step[c] # "idle" => call[c].number \in 1..begun /\ call[c].target \in Records
    /\ \A c, d \in Clients :
        step[c] # "idle" /\ step[d] # "idle" /\ call[c].number = call[d].number => c = d
    /\ \A c \in Clients : answer[c].how = "assert" => answer[c].call.number \in 1..begun
    /\ \A c, d \in Clients :
        answer[c].how = "assert" /\ step[d] # "idle" => call[d].number # answer[c].call.number

\* How far a call is tells whether it was executed.
Done ==
    /\ \A c \in Clients : step[c] = "mutate" => ~Ran(call[c].number)
    /\ \A c \in Clients : step[c] = "fetch" =>
        \E i \in DOMAIN executed : executed[i] = call[c]
    /\ \A c \in Clients :
        answer[c].how = "ok" /\ answer[c].call.op # "delete" => Ran(answer[c].call.number)
    /\ \A c \in Clients : answer[c].how = "assert" => ~Ran(answer[c].call.number)

Writes(r) == {i \in DOMAIN executed : executed[i].target = r}
IsLast(i, r) == i \in Writes(r) /\ \A j \in Writes(r) : j <= i
Value(k) == IF k.op = "delete" THEN Absent ELSE k.number

\* The database shows the last write of each record.
Shown ==
    \A r \in Records : Writes(r) # {} => \E i \in Nat : IsLast(i, r) /\ database[r] = Value(executed[i])

CrudInv == CrudTyped /\ Numbered /\ Done /\ Shown

LEMMA InitCrud == ASSUME CrudInit PROVE CrudInv
  <1>1. NoCall \in Calls /\ NoAnswer.how = "err"
    BY DEF NoCall, NoAnswer, Calls, Operations
  <1>2. executed = <<>> /\ DOMAIN executed = {}
    BY DEF CrudInit
  <1>3. CrudTyped
    BY <1>1, <1>2 DEF CrudInit, CrudTyped
  <1>4. Numbered /\ Done /\ Shown
    BY <1>1, <1>2 DEF CrudInit, Numbered, Done, Shown, Writes, Ran
  <1> QED
    BY <1>3, <1>4 DEF CrudInv

LEMMA BeginCrud ==
    ASSUME CrudInv, NEW c \in Clients, NEW op \in Operations, NEW target \in Records,
           Begin(c, op, target) \/ BeginNested(c, op, target)
    PROVE  CrudInv'
  <1>1. CrudTyped /\ Numbered /\ Done /\ Shown
    BY DEF CrudInv
  <1>2. /\ begun' = begun + 1 /\ database' = database /\ executed' = executed /\ step[c] = "idle"
        /\ call' = [call EXCEPT ![c] = [number |-> begun + 1, op |-> op, target |-> target]]
    BY DEF Begin, BeginNested, store
  <1>3. [number |-> begun + 1, op |-> op, target |-> target] \in Calls /\ begun \in Nat
    BY <1>1 DEF CrudTyped, Calls
  <1>4. /\ step' \in [Clients -> {"idle", "mutate", "fetch"}]
        /\ \A d \in Clients \ {c} : step'[d] = step[d] /\ call'[d] = call[d] /\ answer'[d] = answer[d]
        /\ step'[c] \in {"idle", "mutate"} /\ call'[c].number = begun + 1 /\ call'[c].target = target
    BY <1>1, <1>2 DEF Begin, BeginNested, CrudTyped
  <1>5. \/ answer'[c] = answer[c]
        \/ answer'[c].how = "assert" /\ answer'[c].call = call'[c] /\ step'[c] = "idle"
    BY <1>1 DEF Begin, BeginNested, CrudTyped
  <1>6. CrudTyped'
    <2>1. DOMAIN answer' = Clients
      BY <1>1 DEF Begin, BeginNested, CrudTyped
    <2>2. call' \in [Clients -> Calls]
      BY <1>1, <1>2, <1>3 DEF CrudTyped
    <2> QED
      BY <1>1, <1>2, <1>3, <1>4, <1>5, <2>1, <2>2 DEF CrudTyped, Calls
  <1>7. Numbered'
    <2>1. 1..begun \subseteq 1..begun' /\ begun + 1 \in 1..begun' /\ begun + 1 \notin 1..begun
      BY <1>2, <1>3
    <2>2. \A i \in DOMAIN executed' : executed'[i].number \in 1..begun' /\ executed'[i].target \in Records
      BY <1>1, <1>2, <2>1 DEF Numbered
    <2>3. \A i, j \in DOMAIN executed' : executed'[i].number = executed'[j].number => i = j
      BY <1>1, <1>2 DEF Numbered
    <2>4. \A d \in Clients : step'[d] # "idle" => call'[d].number \in 1..begun' /\ call'[d].target \in Records
      BY <1>1, <1>4, <2>1 DEF Numbered
    <2>5. \A d \in Clients \ {c} : step'[d] # "idle" => call'[d].number # begun + 1
      BY <1>1, <1>4, <2>1 DEF Numbered
    <2>6. \A d, e \in Clients :
            step'[d] # "idle" /\ step'[e] # "idle" /\ call'[d].number = call'[e].number => d = e
      BY <1>1, <1>4, <2>5 DEF Numbered
    <2>7. ASSUME NEW d \in Clients, answer'[d].how = "assert"
          PROVE  /\ answer'[d].call.number \in 1..begun'
                 /\ \A e \in Clients : step'[e] # "idle" => call'[e].number # answer'[d].call.number
      <3>1. CASE answer'[d] = answer[d]
        <4>1. answer[d].call.number \in 1..begun
          BY <1>1, <2>7, <3>1 DEF Numbered
        <4> QED
          BY <1>1, <1>4, <2>1, <2>7, <3>1, <4>1 DEF Numbered
      <3>2. CASE answer'[d] # answer[d]
        <4>1. d = c /\ answer'[d].call.number = begun + 1 /\ step'[c] = "idle"
          BY <1>4, <1>5, <3>2
        <4> QED
          BY <2>1, <2>5, <4>1
      <3> QED
        BY <3>1, <3>2
    <2> QED
      BY <2>2, <2>3, <2>4, <2>6, <2>7 DEF Numbered
  <1>8. Done'
    <2>1. ~Ran(begun + 1)
      BY <1>1, <1>3 DEF Numbered, Ran
    <2> QED
      BY <1>1, <1>2, <1>4, <1>5, <2>1 DEF Done, Ran
  <1>9. Shown'
    BY <1>1, <1>2 DEF Shown, IsLast, Writes
  <1> QED
    BY <1>6, <1>7, <1>8, <1>9 DEF CrudInv

\* A mutation that is executed is the last write of its record.
LEMMA ExecuteCrud ==
    ASSUME CrudInv, NEW c \in Clients, step[c] = "mutate", Execute(call[c]), UNCHANGED <<call, begun>>,
           step' \in [Clients -> {"idle", "mutate", "fetch"}], step'[c] # "mutate", DOMAIN answer' = Clients,
           \A d \in Clients \ {c} : step'[d] = step[d] /\ answer'[d] = answer[d],
           \/ answer'[c] = answer[c] \/ answer'[c].how = "err"
           \/ answer'[c].how = "ok" /\ answer'[c].call = call[c]
    PROVE  CrudInv'
  <1>1. CrudTyped /\ Numbered /\ Done /\ Shown
    BY DEF CrudInv
  <1>10. PICK n \in Nat : n = Len(executed) + 1
    BY <1>1 DEF CrudTyped
  <1>2. /\ call[c] \in Calls /\ call[c].target \in Records /\ call[c].number \in 1..begun
        /\ ~Ran(call[c].number) /\ Len(executed) \in Nat /\ DOMAIN executed = 1..Len(executed)
    BY <1>1 DEF CrudTyped, Numbered, Done
  <1>3. /\ executed' \in Seq(Calls) /\ DOMAIN executed' = 1..n /\ n \notin DOMAIN executed
        /\ \A i \in DOMAIN executed : executed'[i] = executed[i] /\ i < n /\ i \in Nat
        /\ executed'[n] = call[c] /\ DOMAIN executed' = DOMAIN executed \union {n} /\ n \in Nat
    <2>1. executed' = Append(executed, call[c]) /\ executed \in Seq(Calls)
      BY <1>1 DEF Execute, CrudTyped
    <2> QED
      BY <1>2, <1>10, <2>1, AppendProperties
  <1>8. \A i \in DOMAIN executed' :
          (i = n /\ executed'[i] = call[c]) \/ (i \in DOMAIN executed /\ executed'[i] = executed[i])
    BY <1>3
  <1>9. call' = call /\ begun' = begun
    OBVIOUS
  <1>4. CrudTyped'
    <2>1. DOMAIN database' = Records
      BY <1>1 DEF Execute, CrudTyped
    <2>2. \A d \in Clients : answer'[d].how \in {"ok", "assert"} => answer'[d].call \in Calls
      BY <1>1, <1>2 DEF CrudTyped
    <2> QED
      BY <1>1, <1>3, <2>1, <2>2 DEF CrudTyped
  <1>5. Numbered'
    <2>1. \A i, j \in DOMAIN executed' : executed'[i].number = executed'[j].number => i = j
      <3> SUFFICES ASSUME NEW i \in DOMAIN executed', NEW j \in DOMAIN executed',
                          executed'[i].number = executed'[j].number
                   PROVE  i = j
        OBVIOUS
      <3>1. CASE i = n \/ j = n
        BY <1>2, <1>3, <1>8, <3>1 DEF Ran
      <3>2. CASE i # n /\ j # n
        BY <1>1, <1>8, <3>2 DEF Numbered
      <3> QED
        BY <3>1, <3>2
    <2>2. \A i \in DOMAIN executed' : executed'[i].number \in 1..begun /\ executed'[i].target \in Records
      BY <1>1, <1>2, <1>8 DEF Numbered
    <2>3. \A d \in Clients : step'[d] # "idle" => step[d] # "idle"
      OBVIOUS
    <2>4. \A d \in Clients : answer'[d].how = "assert" => answer'[d] = answer[d]
      OBVIOUS
    <2> QED
      BY <1>1, <1>9, <2>1, <2>2, <2>3, <2>4 DEF Numbered
  <1>6. Done'
    <2>3. ASSUME NEW d \in Clients, step'[d] = "mutate" PROVE ~Ran(call[d].number)'
      <3>1. d # c /\ step[d] = "mutate" /\ ~Ran(call[d].number)
        BY <1>1, <2>3 DEF Done
      <3>2. call[d].number # call[c].number
        BY <1>1, <3>1 DEF Numbered
      <3> QED
        BY <1>8, <1>9, <3>1, <3>2 DEF Ran
    <2>4. ASSUME NEW d \in Clients, step'[d] = "fetch"
          PROVE  \E i \in DOMAIN executed' : executed'[i] = call[d]
      <3>1. CASE d = c
        BY <1>3, <3>1
      <3>2. CASE d # c
        <4>1. PICK i \in DOMAIN executed : executed[i] = call[d]
          BY <1>1, <2>4, <3>2 DEF Done
        <4> QED
          BY <1>3, <4>1
      <3> QED
        BY <3>1, <3>2
    <2>5. ASSUME NEW d \in Clients, answer'[d].how = "ok", answer'[d].call.op # "delete"
          PROVE  \E i \in DOMAIN executed' : executed'[i].number = answer'[d].call.number
      <3>1. CASE answer'[d] = answer[d]
        <4>1. PICK i \in DOMAIN executed : executed[i].number = answer[d].call.number
          BY <1>1, <2>5, <3>1 DEF Done, Ran
        <4>2. i \in DOMAIN executed' /\ executed'[i] = executed[i]
          BY <1>3, <4>1
        <4>3. executed'[i].number = answer'[d].call.number
          BY <3>1, <4>1, <4>2, Zenon
        <4> QED
          BY <4>2, <4>3, Zenon
      <3>2. CASE answer'[d] # answer[d]
        <4>1. answer'[d].call = call[c]
          BY <2>5, <3>2
        <4>2. n \in DOMAIN executed' /\ executed'[n] = call[c]
          BY <1>3
        <4> QED
          BY <4>1, <4>2, Zenon
      <3> QED
        BY <3>1, <3>2
    <2>6. ASSUME NEW d \in Clients, answer'[d].how = "assert" PROVE ~Ran(answer[d].call.number)'
      <3>1. answer'[d] = answer[d] /\ ~Ran(answer[d].call.number)
        BY <1>1, <2>6 DEF Done
      <3>2. call[c].number # answer[d].call.number
        BY <1>1, <2>6, <3>1 DEF Numbered
      <3> QED
        BY <1>8, <3>1, <3>2 DEF Ran
    <2> QED
      BY <1>9, <2>3, <2>4, <2>5, <2>6 DEF Done, Ran
  <1>7. Shown'
    <2> SUFFICES ASSUME NEW r \in Records, Writes(r)' # {}
                 PROVE  \E i \in Nat : IsLast(i, r)' /\ database'[r] = Value(executed'[i])
      BY DEF Shown
    <2>1. database' = [database EXCEPT ![call[c].target] = Value(call[c])]
      BY DEF Execute, Value
    <2>2. CASE r = call[c].target
      <3>1. IsLast(n, r)'
        <4>1. n \in Writes(r)'
          BY <1>3, <2>2 DEF Writes
        <4>2. \A j \in Writes(r)' : j <= n
          BY <1>3, <1>8 DEF Writes
        <4> QED
          BY <4>1, <4>2 DEF IsLast
      <3>2. database'[r] = Value(executed'[n])
        BY <1>1, <1>3, <2>1, <2>2 DEF CrudTyped
      <3> QED
        BY <1>3, <3>1, <3>2 DEF IsLast
    <2>3. CASE r # call[c].target
      <3>1. Writes(r)' = Writes(r) /\ database'[r] = database[r]
        BY <1>1, <1>3, <2>1, <2>3, ZenonT(40) DEF Writes, CrudTyped
      <3>2. PICK i \in Nat : IsLast(i, r) /\ database[r] = Value(executed[i])
        BY <1>1, <3>1 DEF Shown
      <3>3. executed'[i] = executed[i]
        BY <1>3, <3>2 DEF IsLast, Writes
      <3> QED
        BY <3>1, <3>2, <3>3 DEF IsLast
    <2> QED
      BY <2>2, <2>3
  <1> QED
    BY <1>4, <1>5, <1>6, <1>7 DEF CrudInv

\* The other steps of a call execute nothing.
LEMMA AnswerCrud ==
    ASSUME CrudInv, NEW c \in Clients, UNCHANGED <<call, begun, store>>,
           NEW how \in Answers \ {"assert"}, NEW record, Returns(c, how, record),
           step[c] # "idle", how = "ok" => step[c] = "fetch" \/ call[c].op = "delete"
    PROVE  CrudInv'
  <1>1. CrudTyped /\ Numbered /\ Done /\ Shown /\ database' = database /\ executed' = executed
    BY DEF CrudInv, store
  <1>2. /\ step' \in [Clients -> {"idle", "mutate", "fetch"}] /\ step'[c] = "idle" /\ DOMAIN answer' = Clients
        /\ \A d \in Clients \ {c} : step'[d] = step[d] /\ answer'[d] = answer[d]
        /\ answer'[c].how = how /\ answer'[c].call = call[c]
    BY <1>1 DEF Returns, CrudTyped
  <1>3. CrudTyped'
    BY <1>1, <1>2 DEF CrudTyped
  <1>4. Numbered'
    BY <1>1, <1>2 DEF Numbered
  <1>5. Done'
    BY <1>1, <1>2 DEF Done, Ran
  <1>6. Shown'
    BY <1>1 DEF Shown, IsLast, Writes
  <1> QED
    BY <1>3, <1>4, <1>5, <1>6 DEF CrudInv

LEMMA WorkCrud == ASSUME CrudInv, NEW c \in Clients, Work(c) PROVE CrudInv'
  <1>1. CrudTyped
    BY DEF CrudInv
  <1>2. CASE Mutate(c) \/ MutateLost(c)
    <2>1. /\ step' \in [Clients -> {"idle", "mutate", "fetch"}] /\ step'[c] # "mutate" /\ DOMAIN answer' = Clients
          /\ \A d \in Clients \ {c} : step'[d] = step[d] /\ answer'[d] = answer[d]
          /\ \/ answer'[c] = answer[c] \/ answer'[c].how = "err"
             \/ answer'[c].how = "ok" /\ answer'[c].call = call[c]
      BY <1>1, <1>2 DEF Mutate, MutateLost, Returns, CrudTyped
    <2> QED
      BY <1>2, <2>1, ExecuteCrud DEF Mutate, MutateLost
  <1>3. CASE MutateRefused(c)
    BY <1>3, AnswerCrud DEF MutateRefused, Answers
  <1>3a. CASE MutateErrors(c)
    <2>1. PICK how \in {"ok", "err"} : Returns(c, how, Absent) /\ (how = "ok" => call[c].op = "delete")
      BY <1>3a DEF MutateErrors
    <2> QED
      BY <1>3a, <2>1, AnswerCrud DEF MutateErrors, Answers
  <1>4. CASE Fetch(c)
    BY <1>4, AnswerCrud DEF Fetch, Answers
  <1>4a. CASE FetchErrors(c)
    <2>1. PICK how \in {"ok", "err"} : Returns(c, how, Absent)
      BY <1>4a DEF FetchErrors
    <2> QED
      BY <1>4a, <2>1, AnswerCrud DEF FetchErrors, Answers
  <1>5. CASE FetchFails(c)
    <2>1. PICK how \in {"err", "trap"} : Returns(c, how, Absent)
      BY <1>5 DEF FetchFails
    <2> QED
      BY <1>5, <2>1, AnswerCrud DEF FetchFails, Answers
  <1> QED
    BY <1>2, <1>3, <1>3a, <1>4, <1>4a, <1>5 DEF Work

LEMMA CrudStep == CrudInv /\ [Next]_vars => CrudInv'
  <1> SUFFICES ASSUME CrudInv, [Next]_vars PROVE CrudInv'
    OBVIOUS
  <1>1. CASE CrudNext
    BY <1>1, BeginCrud, WorkCrud DEF CrudNext
  <1>2. CASE UNCHANGED crudVars
    BY <1>2 DEF crudVars, CrudInv, CrudTyped, Numbered, Done, Ran, Shown, IsLast, Writes
  <1> QED
    BY <1>1, <1>2 DEF Next, vars, UploadActs, LogsActs

LEMMA CrudInvariant == Spec => []CrudInv
  <1>1. Init => CrudInv
    BY InitCrud DEF Init
  <1> QED
    BY <1>1, CrudStep, PTL DEF Spec

\* No mutation is executed twice; a create, update or upsert that returned Ok was
\* executed, one that was stopped by the assert on its mapping was not.
THEOREM Once == Spec => []ExecutedOnce
  <1>1. ASSUME CrudInv PROVE ExecutedOnce
    <2>1. \A n : Executions(n) = {} \/ \E i : Executions(n) = {i}
      BY <1>1 DEF CrudInv, Numbered, Executions
    <2>2. ASSUME NEW n PROVE Cardinality(Executions(n)) <= 1
      <3>1. CASE Executions(n) = {}
        BY <3>1, FS_EmptySet
      <3>2. CASE \E i : Executions(n) = {i}
        BY <3>2, FS_Singleton
      <3> QED
        BY <2>1, <3>1, <3>2
    <2>3. ASSUME NEW c \in Clients, answer[c].how = "ok", answer[c].call.op # "delete"
          PROVE  Cardinality(Executions(answer[c].call.number)) = 1
      <3>1. Executions(answer[c].call.number) # {}
        BY <1>1, <2>3 DEF CrudInv, Done, Ran, Executions
      <3> QED
        BY <2>1, <3>1, FS_Singleton
    <2>4. ASSUME NEW c \in Clients, answer[c].how = "assert"
          PROVE  Cardinality(Executions(answer[c].call.number)) = 0
      <3>1. Executions(answer[c].call.number) = {}
        BY <1>1, <2>4 DEF CrudInv, Done, Ran, Executions
      <3> QED
        BY <3>1, FS_EmptySet
    <2> QED
      BY <2>2, <2>3, <2>4 DEF ExecutedOnce
  <1> QED
    BY <1>1, CrudInvariant, PTL

\* What a call returns of its record is the last write.
Fresh(c) ==
    step[c] = "fetch" /\ answer'[c] # answer[c] /\ answer'[c].how = "ok" =>
        LET writes == {i \in DOMAIN executed : executed[i].target = call[c].target}
            last == executed[CHOOSE i \in writes : \A j \in writes : j <= i]
        IN  answer'[c].record # Absent => last.op # "delete" /\ answer'[c].record = last.number

LEMMA FetchFresh ==
    ASSUME CrudInv, [Next]_vars, NEW c \in Clients
    PROVE  Fresh(c)
  <1> SUFFICES ASSUME step[c] = "fetch", answer'[c] # answer[c], answer'[c].how = "ok"
               PROVE  Fresh(c)
    BY DEF Fresh
  <1> DEFINE r == call[c].target
  <1>1. CrudTyped /\ Numbered /\ Done /\ Shown
    BY DEF CrudInv
  <1>2. CrudNext
    BY DEF Next, vars, crudVars, UploadActs, LogsActs
  <1>3. PICK d \in Clients :
          \/ \E op \in Operations, target \in Records : Begin(d, op, target) \/ BeginNested(d, op, target)
          \/ Work(d)
    BY <1>2 DEF CrudNext
  <1>4. d = c
    BY <1>1, <1>3 DEF Begin, BeginNested, Work, Mutate, MutateRefused, MutateErrors, MutateLost, Fetch, FetchErrors, FetchFails,
       Returns, CrudTyped
  <1>5. Fetch(c) \/ FetchErrors(c) \/ FetchFails(c)
    BY <1>3, <1>4 DEF Begin, BeginNested, Work, Mutate, MutateRefused, MutateErrors, MutateLost
  <1>6. ~FetchFails(c)
    BY <1>1 DEF FetchFails, Returns, CrudTyped
  <1>7. answer'[c].record \in {database[r], Absent}
    BY <1>1, <1>5, <1>6 DEF Fetch, FetchErrors, Returns, CrudTyped
  <1>8. r \in Records /\ Writes(r) # {}
    BY <1>1 DEF Numbered, Done, Writes
  <1>9. PICK i \in Nat : IsLast(i, r) /\ database[r] = Value(executed[i])
    BY <1>1, <1>8 DEF Shown
  <1>10. Writes(r) \subseteq Nat
    BY <1>1 DEF Writes, CrudTyped
  <1> HIDE DEF r
  <1>11. (CHOOSE k \in Writes(r) : \A j \in Writes(r) : j <= k) = i
    <2>1. \A k \in Writes(r) : (\A j \in Writes(r) : j <= k) => k = i
      BY <1>9, <1>10 DEF IsLast
    <2> QED
      BY <1>9, <2>1 DEF IsLast
  <1>12. answer'[c].record # Absent =>
            answer'[c].record = executed[i].number /\ executed[i].op # "delete"
    BY <1>7, <1>9 DEF Value
  <1> QED
    BY <1>11, <1>12 DEF Fresh, Writes, r

THEOREM LastWrite == Spec => FetchSeesLastWrite
  <1>1. CrudInv /\ [Next]_vars => [\A c \in Clients : Fresh(c)]_crudVars
    BY FetchFresh
  <1>2. Spec => [][\A c \in Clients : Fresh(c)]_crudVars
    BY <1>1, CrudInvariant, PTL DEF Spec
  <1>3. FetchSeesLastWrite <=> [][\A c \in Clients : Fresh(c)]_crudVars
    BY DEF FetchSeesLastWrite, Fresh
  <1> QED
    BY <1>2, <1>3

LEMMA TypeStep == TypeOK /\ CrudInv /\ [Next]_vars => TypeOK'
  <1> SUFFICES ASSUME TypeOK, CrudInv, [Next]_vars PROVE TypeOK'
    OBVIOUS
  <1>1. CrudTyped /\ Numbered /\ MaxCalls \in Nat
    BY CrudAssumption DEF CrudInv
  <1>2. ASSUME NEW c \in Clients, NEW op \in Operations, NEW target \in Records,
               Begin(c, op, target) \/ BeginNested(c, op, target)
        PROVE  TypeOK'
    <2>1. database' = database /\ begun' = begun + 1 /\ begun < MaxCalls
      BY <1>2 DEF Begin, BeginNested, store
    <2>2. /\ step' \in [Clients -> {"idle", "mutate", "fetch"}] /\ step'[c] # "fetch"
          /\ \A d \in Clients \ {c} : step'[d] = step[d] /\ call'[d] = call[d] /\ answer'[d] = answer[d]
          /\ answer'[c].how \in {answer[c].how, "assert"}
      BY <1>1, <1>2 DEF Begin, BeginNested, CrudTyped
    <2> QED
      BY <1>1, <2>1, <2>2 DEF TypeOK, Answers
  <1>3. ASSUME NEW c \in Clients, Work(c) PROVE TypeOK'
    <2>1. database' \in [Records -> {Absent, Before} \union 1..MaxCalls]
      <3>1. CASE Execute(call[c]) /\ step[c] = "mutate"
        <4>1. call[c].number \in 1..MaxCalls
          BY <1>1, <3>1 DEF TypeOK, Numbered
        <4>2. database' = [database EXCEPT ![call[c].target] = Value(call[c])]
          BY <3>1 DEF Execute, Value
        <4>3. Value(call[c]) \in {Absent, Before} \union 1..MaxCalls
          BY <4>1 DEF Value
        <4> QED
          BY <4>2, <4>3 DEF TypeOK
      <3>2. CASE database' = database
        BY <3>2 DEF TypeOK
      <3> QED
        BY <1>3, <3>1, <3>2 DEF Work, Mutate, MutateRefused, MutateErrors, MutateLost, Fetch, FetchErrors, FetchFails, store
    <2>2. begun' = begun /\ call' = call
      BY <1>3 DEF Work, Mutate, MutateRefused, MutateErrors, MutateLost, Fetch, FetchErrors, FetchFails
    <2>3. /\ step' \in [Clients -> {"idle", "mutate", "fetch"}]
          /\ \A d \in Clients : step'[d] = "fetch" /\ step[d] # "fetch" => call[d].op # "delete"
      BY <1>1, <1>3 DEF Work, Mutate, MutateRefused, MutateErrors, MutateLost, Fetch, FetchErrors, FetchFails, Returns, CrudTyped
    <2>4. \A d \in Clients : answer'[d].how \in Answers
      BY <1>1, <1>3 DEF TypeOK, Work, Mutate, MutateRefused, MutateErrors, MutateLost, Fetch, FetchErrors, FetchFails, Returns,
         CrudTyped, Answers
    <2> QED
      BY <2>1, <2>2, <2>3, <2>4 DEF TypeOK
  <1>4. CASE UNCHANGED crudVars
    BY <1>4 DEF crudVars, TypeOK
  <1> QED
    BY <1>2, <1>3, <1>4 DEF Next, CrudNext, vars, UploadActs, LogsActs

\* The state of crud keeps its types, and a delete never asks for its record.
THEOREM TypeCorrect == Spec => []TypeOK
  <1>1. Init => TypeOK
    BY CrudAssumption DEF Init, CrudInit, TypeOK, NoAnswer, Answers
  <1> QED
    BY <1>1, TypeStep, CrudInvariant, PTL DEF Spec

-----------------------------------------------------------------------------
(***************************************************************************)
(* upload-file                                                             *)
(***************************************************************************)
\* The uploads that may have asked for a reference.
Asked == {u \in Uploads : phase[u] \in {"post", "done"} /\ file[u] # Undecodable}

UploadTyped ==
    /\ DOMAIN phase = Uploads /\ DOMAIN reply = Uploads /\ DOMAIN storage = References
    /\ reference \in [Uploads -> Nat] /\ issued \in Nat

\* References are given to one upload each, and no more than asked for one.
Given ==
    /\ issued <= Cardinality(Asked)
    /\ \A u \in Uploads : reference[u] <= issued
    /\ \A u, v \in Uploads : reference[u] = reference[v] /\ u # v => reference[u] = 0
    /\ \A u \in Uploads : phase[u] \in {"decode", "generate"} => reference[u] = 0
    /\ \A u \in Uploads : phase[u] = "generate" => file[u] # Undecodable
    /\ \A u \in Uploads : phase[u] = "post" => reference[u] # 0

\* Who was told of success has the file under the reference.
Kept == \A u \in Uploads : reply[u].ok =>
    /\ phase[u] = "done" /\ reply[u].reference = reference[u] /\ reference[u] # 0
    /\ storage[reference[u]] = file[u]

UploadInv == UploadTyped /\ Given /\ Kept

LEMMA AskedFinite ==
    /\ IsFiniteSet(Asked) /\ Cardinality(Asked) \in Nat /\ Cardinality(Asked) <= Cardinality(Uploads)
    /\ Cardinality(Uploads) \in Nat
  BY UploadAssumption, FS_Subset, FS_CardinalityType DEF Asked

LEMMA InitUpload == ASSUME UploadInit PROVE UploadInv
  <1>1. Cardinality(Asked) >= 0
    BY AskedFinite
  <1> QED
    BY <1>1 DEF UploadInit, UploadInv, UploadTyped, Given, Kept, Pending

\* A step that asks for nothing and stores nothing.
LEMMA AsideUpload ==
    ASSUME UploadInv, NEW u \in Uploads, UNCHANGED <<file, reference, issued, storage, reply>>,
           NEW s \in {"generate", "done"}, phase' = [phase EXCEPT ![u] = s],
           phase[u] # "done", ~reply[u].ok,
           s = "generate" => phase[u] = "decode" /\ file[u] # Undecodable
    PROVE  UploadInv'
  <1>1. UploadTyped /\ Given /\ Kept
    BY DEF UploadInv
  <1>2. /\ phase'[u] = s /\ DOMAIN phase' = Uploads
        /\ \A v \in Uploads \ {u} : phase'[v] = phase[v]
    BY <1>1 DEF UploadTyped
  <1>3. Asked \subseteq Asked'
    BY <1>2 DEF Asked
  <1>4. Cardinality(Asked) <= Cardinality(Asked')
    <2>1. IsFiniteSet(Asked')
      BY UploadAssumption, FS_Subset DEF Asked
    <2> QED
      BY <1>3, <2>1, FS_Subset
  <1>5. Cardinality(Asked') \in Nat /\ Cardinality(Asked) \in Nat
    <2>1. IsFiniteSet(Asked')
      BY UploadAssumption, FS_Subset DEF Asked
    <2> QED
      BY <2>1, FS_CardinalityType, AskedFinite
  <1>6. Given'
    BY <1>1, <1>2, <1>4, <1>5 DEF Given, UploadTyped
  <1>7. UploadTyped' /\ Kept'
    BY <1>1, <1>2 DEF UploadTyped, Kept
  <1> QED
    BY <1>6, <1>7 DEF UploadInv

LEMMA GenerateUpload ==
    ASSUME UploadInv, NEW u \in Uploads, Generate(u)
    PROVE  UploadInv'
  <1>1. UploadTyped /\ Given /\ Kept /\ phase[u] = "generate" /\ file[u] # Undecodable /\ u \notin Asked
    BY DEF UploadInv, Generate, Given, Asked
  <1>2. /\ issued' = issued + 1 /\ UNCHANGED <<file, storage, reply>> /\ DOMAIN phase' = Uploads
        /\ \A v \in Uploads \ {u} : phase'[v] = phase[v] /\ reference'[v] = reference[v]
        /\ \/ phase'[u] = "post" /\ reference'[u] = issued + 1
           \/ phase'[u] = "done" /\ reference'[u] = reference[u]
        /\ reference' \in [Uploads -> Nat]
    <2>1. CASE Goes(u, "post") /\ reference' = [reference EXCEPT ![u] = issued']
      BY <1>1, <2>1 DEF Generate, Goes, UploadTyped
    <2>2. CASE Fails(u) /\ UNCHANGED reference
      BY <1>1, <2>2 DEF Generate, Fails, UploadTyped
    <2> QED
      BY <2>1, <2>2 DEF Generate
  <1>3. Asked' = Asked \union {u}
    BY <1>1, <1>2 DEF Asked
  <1>4. Cardinality(Asked') = Cardinality(Asked) + 1
    BY <1>1, <1>3, AskedFinite, FS_AddElement
  <1>5. Given'
    BY <1>1, <1>2, <1>4, AskedFinite DEF Given, UploadTyped
  <1>6. UploadTyped' /\ Kept'
    BY <1>1, <1>2 DEF UploadTyped, Kept
  <1> QED
    BY <1>5, <1>6 DEF UploadInv

LEMMA PostUpload ==
    ASSUME UploadInv, NEW u \in Uploads, Post(u)
    PROVE  UploadInv'
  <1>1. UploadTyped /\ Given /\ Kept /\ phase[u] = "post"
    BY DEF UploadInv, Post
  <1>2. /\ UNCHANGED <<file, reference, issued>> /\ DOMAIN phase' = Uploads /\ phase'[u] = "done"
        /\ \A v \in Uploads \ {u} : phase'[v] = phase[v] /\ reply'[v] = reply[v]
        /\ storage' = [storage EXCEPT ![reference[u]] = file[u]] /\ DOMAIN reply' = Uploads
        /\ reply'[u] = reply[u] \/ reply'[u].reference = reference[u]
    BY <1>1 DEF Post, Fails, UploadTyped
  <1>3. Asked' = Asked
    BY <1>1, <1>2 DEF Asked
  <1>4. Given' /\ UploadTyped'
    BY <1>1, <1>2, <1>3 DEF Given, UploadTyped
  <1>5. reference[u] \in References
    BY <1>1, AskedFinite DEF Given, UploadTyped, References
  <1>6. Kept'
    <2>1. storage'[reference[u]] = file[u] /\ reference[u] # 0
      BY <1>1, <1>2, <1>5 DEF UploadTyped, Given
    <2>2. ASSUME NEW v \in Uploads \ {u}, reply[v].ok
          PROVE  storage'[reference[v]] = storage[reference[v]]
      <3>1. reference[v] # reference[u]
        BY <1>1, <2>1, <2>2 DEF Given
      <3> QED
        BY <1>1, <1>2, <3>1 DEF UploadTyped
    <2>3. ~reply[u].ok
      BY <1>1 DEF Kept
    <2> QED
      BY <1>1, <1>2, <2>1, <2>2, <2>3 DEF Kept
  <1> QED
    BY <1>4, <1>6 DEF UploadInv

LEMMA UploadStep == UploadInv /\ [Next]_vars => UploadInv'
  <1> SUFFICES ASSUME UploadInv, [Next]_vars PROVE UploadInv'
    OBVIOUS
  <1>1. CASE UploadNext
    <2>1. PICK u \in Uploads : DecodeFile(u) \/ Generate(u) \/ GenerateRefused(u) \/ Post(u) \/ PostRefused(u)
      BY <1>1 DEF UploadNext
    <2>2. CASE DecodeFile(u) \/ GenerateRefused(u) \/ PostRefused(u)
      <3>1. phase[u] # "done" /\ ~reply[u].ok
        BY <2>2 DEF UploadInv, Kept, DecodeFile, GenerateRefused, PostRefused
      <3>2. UNCHANGED <<file, reference, issued, storage, reply>>
        BY <2>2 DEF DecodeFile, GenerateRefused, PostRefused, Goes, Fails
      <3>3. \/ phase' = [phase EXCEPT ![u] = "done"]
            \/ phase' = [phase EXCEPT ![u] = "generate"] /\ phase[u] = "decode" /\ file[u] # Undecodable
        BY <2>2 DEF DecodeFile, GenerateRefused, PostRefused, Goes, Fails
      <3> QED
        BY <3>1, <3>2, <3>3, AsideUpload
    <2>3. CASE Generate(u)
      BY <2>3, GenerateUpload
    <2>4. CASE Post(u)
      BY <2>4, PostUpload
    <2> QED
      BY <2>1, <2>2, <2>3, <2>4
  <1>2. CASE UNCHANGED uploadVars
    BY <1>2 DEF uploadVars, UploadInv, UploadTyped, Given, Kept, Asked
  <1> QED
    BY <1>1, <1>2 DEF Next, vars, CrudActs, LogsActs

LEMMA UploadInvariant == Spec => []UploadInv
  <1>1. Init => UploadInv
    BY InitUpload DEF Init
  <1> QED
    BY <1>1, UploadStep, PTL DEF Spec

\* An upload that returns Ok has its own file under its own reference.
THEOREM Stored == Spec => []OkMeansStored
  <1>1. UploadInv => OkMeansStored
    BY DEF UploadInv, Kept, Given, OkMeansStored
  <1> QED
    BY <1>1, UploadInvariant, PTL

\* Nothing is generated for a file that cannot be decoded.
THEOREM Undecoded == Spec => []UndecodableAsksNothing
  <1>1. ASSUME UploadInv PROVE UndecodableAsksNothing
    <2> DEFINE decoded == {u \in Uploads : phase[u] # "decode" /\ file[u] # Undecodable}
    <2>1. Asked \subseteq decoded /\ decoded \subseteq Uploads
      BY DEF Asked
    <2>2. IsFiniteSet(decoded) /\ Cardinality(decoded) \in Nat
      BY <2>1, UploadAssumption, FS_Subset, FS_CardinalityType
    <2>3. Cardinality(Asked) <= Cardinality(decoded) /\ Cardinality(Asked) \in Nat
      BY <2>1, <2>2, FS_Subset, AskedFinite
    <2>4. issued \in Nat /\ issued <= Cardinality(Asked)
      BY <1>1 DEF UploadInv, UploadTyped, Given
    <2> QED
      BY <2>2, <2>3, <2>4 DEF UndecodableAsksNothing
  <1> QED
    BY <1>1, UploadInvariant, PTL

-----------------------------------------------------------------------------
(***************************************************************************)
(* logs-writer                                                             *)
(***************************************************************************)
Attempted ==
    /\ stage \in {"start", "logs", "variables", "done"}
    /\ stage \in {"start", "logs"} => posted = <<>>
    /\ stage = "variables" => posted = <<"logs">>
    /\ stage = "done" => posted = <<>> \/ posted = <<"logs", "variables">>

LEMMA AppendPair ==
    ASSUME NEW a, NEW b
    PROVE  Append(<<a>>, b) = <<a, b>>
  <1> DEFINE one == <<a>>
             both == <<a, b>>
             joined == Append(one, b)
  <1>1. /\ one \in Seq({a, b}) /\ Len(one) = 1 /\ one[1] = a
        /\ both \in Seq({a, b}) /\ Len(both) = 2 /\ both[1] = a /\ both[2] = b
    OBVIOUS
  <1> HIDE DEF one, both
  <1>2. joined \in Seq({a, b}) /\ Len(joined) = 2 /\ joined[1] = a /\ joined[2] = b
    BY <1>1, AppendProperties
  <1> HIDE DEF joined
  <1>3. \A i \in 1..2 : joined[i] = both[i]
    <2>1. \A i \in 1..2 : i = 1 \/ i = 2
      OBVIOUS
    <2> QED
      BY <1>1, <1>2, <2>1
  <1>4. joined = both
    BY <1>1, <1>2, <1>3, SeqEqual
  <1> QED
    BY <1>4 DEF joined, both, one

LEMMA LogsStep == Attempted /\ [Next]_vars => Attempted'
  <1> SUFFICES ASSUME Attempted, [Next]_vars PROVE Attempted'
    OBVIOUS
  <1>1. CASE LogsNext
    <2>1. CASE Prepare
      BY <2>1 DEF Prepare, Attempted
    <2>2. CASE PostLogs
      <3>1. Append(<<>>, "logs") = <<"logs">>
        OBVIOUS
      <3> QED
        BY <2>2, <3>1 DEF PostLogs, Attempted
    <2>3. CASE PostVariables
      <3>1. Append(<<"logs">>, "variables") = <<"logs", "variables">>
        BY AppendPair
      <3> QED
        BY <2>3, <3>1 DEF PostVariables, Attempted
    <2> QED
      BY <1>1, <2>1, <2>2, <2>3 DEF LogsNext
  <1>2. CASE UNCHANGED logsVars
    BY <1>2 DEF logsVars, Attempted
  <1> QED
    BY <1>1, <1>2 DEF Next, vars, CrudActs, UploadActs

\* Whatever becomes of the logs, the variables are sent too, each once.
THEOREM BothSent == Spec => []BothAreSent
  <1>1. Init => Attempted
    BY DEF Init, LogsInit, Attempted
  <1>2. Attempted => BothAreSent
    BY DEF Attempted, BothAreSent
  <1> QED
    BY <1>1, <1>2, LogsStep, PTL DEF Spec

-----------------------------------------------------------------------------
(***************************************************************************)
(* What the service gets of the logs.  InOrder chooses an enumeration: that *)
(* there is one is proved with a smallest counterexample, the induction    *)
(* theorems of the library being out of the provers' reach.                *)
(***************************************************************************)
\* Of the subsets of a finite set that are in a collection, one is smallest.
LEMMA Smallest ==
    ASSUME NEW S, IsFiniteSet(S), NEW Bad \in SUBSET (SUBSET S), Bad # {}
    PROVE  \E T \in Bad : IsFiniteSet(T) /\ \A x \in T : T \ {x} \notin Bad
  <1>1. Bad \subseteq FiniteSubsetsOf(S)
    BY FS_Subset DEF FiniteSubsetsOf
  <1>2. PICK T \in Bad : \A U \in Bad : ~(<<U, T>> \in StrictSubsetOrdering(S))
    BY <1>1, FS_StrictSubsetOrderingWellFounded, WFMin
  <1>3. ASSUME NEW x \in T, T \ {x} \in Bad PROVE FALSE
    <2>1. <<T \ {x}, T>> \in StrictSubsetOrdering(S)
      BY <1>3 DEF StrictSubsetOrdering
    <2> QED
      BY <1>2, <1>3, <2>1
  <1> QED
    BY <1>1, <1>2, <1>3 DEF FiniteSubsetsOf

IsMax(x, T) == x \in T /\ \A y \in T : y <= x

LEMMA HasMax ==
    ASSUME NEW S \in SUBSET Nat, IsFiniteSet(S), S # {}
    PROVE  \E x \in S : IsMax(x, S)
  <1> DEFINE Bad == {T \in SUBSET S : T # {} /\ ~\E x \in T : IsMax(x, T)}
  <1>1. SUFFICES ASSUME Bad # {} PROVE FALSE
    OBVIOUS
  <1>2. PICK T \in Bad : \A x \in T : T \ {x} \notin Bad
    BY <1>1, Smallest
  <1>3. PICK x \in T : TRUE
    OBVIOUS
  <1>4. CASE T = {x}
    BY <1>2, <1>4 DEF IsMax
  <1>5. CASE T # {x}
    <2>1. PICK m \in T \ {x} : IsMax(m, T \ {x})
      BY <1>2, <1>3, <1>5
    <2>2. IsMax(m, T) \/ IsMax(x, T)
      BY <2>1 DEF IsMax
    <2> QED
      BY <1>2, <2>1, <2>2
  <1> QED
    BY <1>4, <1>5

Increasing(s) == \A i, j \in DOMAIN s : i < j => s[i] < s[j]
Enumerations(T) == {s \in [1..Cardinality(T) -> T] : Increasing(s)}

\* An enumeration goes on with what is greater than all it has.
LEMMA Enumerated ==
    ASSUME NEW S \in SUBSET Nat, IsFiniteSet(S)
    PROVE  Enumerations(S) # {}
  <1> DEFINE Bad == {T \in SUBSET S : Enumerations(T) = {}}
  <1>1. SUFFICES ASSUME Bad # {} PROVE FALSE
    OBVIOUS
  <1>2. PICK T \in Bad : IsFiniteSet(T) /\ \A x \in T : T \ {x} \notin Bad
    BY <1>1, Smallest
  <1>3. CASE T = {}
    <2>1. [i \in {} |-> 0] \in Enumerations({})
      BY FS_EmptySet DEF Enumerations, Increasing
    <2> QED
      BY <1>2, <1>3, <2>1
  <1>4. CASE T # {}
    <2>1. PICK x \in T : IsMax(x, T)
      BY <1>2, <1>4, HasMax
    <2> DEFINE rest == T \ {x}
    <2>2. PICK n \in Nat : /\ n = Cardinality(rest) /\ Cardinality(T) = n + 1
      <3>1. IsFiniteSet(rest) /\ Cardinality(T) \in Nat /\ Cardinality(rest) = Cardinality(T) - 1
        BY <1>2, FS_RemoveElement, FS_CardinalityType
      <3>2. Cardinality(rest) \in Nat
        BY <3>1, FS_CardinalityType
      <3> QED
        BY <3>1, <3>2
    <2>3. PICK s \in Enumerations(rest) : TRUE
      BY <1>2
    <2>4. s \in [1..n -> rest] /\ \A i, j \in 1..n : i < j => s[i] < s[j]
      BY <2>2, <2>3 DEF Enumerations, Increasing
    <2> DEFINE longer == [i \in 1..(n + 1) |-> IF i = n + 1 THEN x ELSE s[i]]
    <2>5. longer \in [1..(n + 1) -> T]
      BY <2>4
    <2>6. \A y \in rest : y < x
      BY <2>1 DEF IsMax
    <2>7. \A i, j \in 1..(n + 1) : i < j => longer[i] < longer[j]
      <3> SUFFICES ASSUME NEW i \in 1..(n + 1), NEW j \in 1..(n + 1), i < j PROVE longer[i] < longer[j]
        OBVIOUS
      <3>1. i \in 1..n /\ longer[i] = s[i] /\ s[i] \in rest
        BY <2>4
      <3>2. CASE j = n + 1
        BY <2>6, <3>1, <3>2
      <3>3. CASE j \in 1..n
        BY <2>4, <3>1, <3>3
      <3> QED
        BY <3>2, <3>3
    <2>8. longer \in Enumerations(T)
      BY <2>2, <2>5, <2>7 DEF Enumerations, Increasing
    <2> QED
      BY <1>2, <2>8
  <1> QED
    BY <1>3, <1>4

LEMMA Ordered ==
    ASSUME NEW S \in SUBSET Nat, IsFiniteSet(S)
    PROVE  InOrder(S) \in [1..Cardinality(S) -> S] /\ Increasing(InOrder(S))
  BY Enumerated DEF Enumerations, Increasing, InOrder

\* What the two services may have taken at each stage.
OwnPlaces == {i \in DOMAIN messages : messages[i] = Own}

Sent ==
    /\ messages \in Seq(Applications)
    /\ stage \in {"start", "logs", "variables", "done"}
    /\ stage \in {"logs", "variables"} => AllParse
    /\ logs \in {NoLogs, [taken |-> TRUE, of |-> FilterMessages]}
    /\ logs.taken => AllParse
    /\ taken \in {NoVariables, [taken |-> TRUE, of |-> FilterVariables]}
    /\ stage \in {"start", "logs"} => logs = NoLogs

LEMMA InitSent == ASSUME LogsInit PROVE Sent
  <1>1. messages \in Seq(Applications)
    <2>1. PICK m \in 0..MaxMessages : messages \in [1..m -> Applications]
      BY DEF LogsInit, SeqOf
    <2> QED
      BY <2>1, LogsAssumption
  <1> QED
    BY <1>1 DEF LogsInit, Sent, NoLogs

LEMMA SentStep == Sent /\ [Next]_vars => Sent'
  <1> SUFFICES ASSUME Sent, [Next]_vars PROVE Sent'
    OBVIOUS
  <1>1. CASE UNCHANGED input
    <2>1. AllParse' = AllParse /\ FilterMessages' = FilterMessages /\ FilterVariables' = FilterVariables
          /\ messages' = messages
      BY <1>1 DEF input, AllParse, FilterMessages, FilterVariables
    <2>2. CASE LogsNext
      BY <2>1, <2>2 DEF LogsNext, Prepare, PostLogs, PostVariables, Sent, NoLogs
    <2>3. CASE UNCHANGED <<stage, logs, taken>>
      BY <2>1, <2>3 DEF Sent
    <2> QED
      BY <2>2, <2>3 DEF Next, vars, logsVars, CrudActs, UploadActs
  <1>2. UNCHANGED input
    BY DEF Next, vars, logsVars, input, CrudActs, UploadActs, LogsNext, Prepare, PostLogs, PostVariables
  <1> QED
    BY <1>1, <1>2

LEMMA SentInvariant == Spec => []Sent
  <1>1. Init => Sent
    BY InitSent DEF Init
  <1> QED
    BY <1>1, SentStep, PTL DEF Spec

LEMMA Places ==
    ASSUME Sent
    PROVE  OwnPlaces \in SUBSET Nat /\ IsFiniteSet(OwnPlaces) /\ Cardinality(OwnPlaces) \in Nat
  <1>1. DOMAIN messages = 1..Len(messages) /\ Len(messages) \in Nat
    BY DEF Sent
  <1>2. IsFiniteSet(1..Len(messages)) /\ OwnPlaces \subseteq 1..Len(messages)
    BY <1>1, FS_Interval DEF OwnPlaces
  <1>3. IsFiniteSet(OwnPlaces)
    BY <1>2, FS_Subset
  <1> QED
    BY <1>1, <1>2, <1>3, FS_CardinalityType

LEMMA LengthOf ==
    ASSUME NEW T, NEW n \in Nat, NEW f \in [1..n -> T]
    PROVE  Len(f) = n
  <1>1. f \in Seq(T)
    OBVIOUS
  <1> QED
    BY <1>1, LenProperties

\* What is posted of the messages: the application's, each in its order.
LEMMA Filtered ==
    ASSUME Sent
    PROVE  /\ DOMAIN FilterMessages = 1..Cardinality(OwnPlaces)
           /\ Len(FilterMessages) = Cardinality(OwnPlaces)
           /\ \A i \in DOMAIN FilterMessages : FilterMessages[i].of = Own
           /\ \A i, j \in DOMAIN FilterMessages : i < j => FilterMessages[i].at < FilterMessages[j].at
  <1> DEFINE kept == InOrder(OwnPlaces)
  <1>1. kept \in [1..Cardinality(OwnPlaces) -> OwnPlaces] /\ Increasing(kept) /\ Cardinality(OwnPlaces) \in Nat
    BY Places, Ordered
  <1>2. FilterMessages = [k \in DOMAIN kept |-> [at |-> kept[k], of |-> messages[kept[k]]]]
    BY DEF FilterMessages, OwnPlaces
  <1> HIDE DEF kept
  <1>3. \A k \in DOMAIN kept : messages[kept[k]] = Own
    BY <1>1 DEF OwnPlaces
  <1>4. DOMAIN FilterMessages = 1..Cardinality(OwnPlaces)
    BY <1>1, <1>2
  <1>5. Len(FilterMessages) = Cardinality(OwnPlaces)
    <2> DEFINE n == Cardinality(OwnPlaces)
    <2>1. n \in Nat /\ FilterMessages \in [1..n -> [at : OwnPlaces, of : {Own}]]
      BY <1>1, <1>2, <1>3
    <2> HIDE DEF n
    <2> QED
      BY <2>1, LengthOf DEF n
  <1> QED
    BY <1>1, <1>2, <1>3, <1>4, <1>5 DEF Increasing

\* Of the logs the service has all that are the application's, in their order,
\* or none, and none of a call of which something does not parse.
THEOREM LogsWhole == Spec => []LogsAllOrNothing
  <1>1. ASSUME Sent, logs.taken PROVE LogsAllOrNothing
    <2>1. logs.of = FilterMessages /\ AllParse
      BY <1>1 DEF Sent, NoLogs
    <2>2. DOMAIN messages = 1..Len(messages)
      BY <1>1 DEF Sent
    <2> QED
      BY <1>1, <2>1, <2>2, Filtered DEF LogsAllOrNothing, AllParse, OwnPlaces
  <1> QED
    BY <1>1, SentInvariant, PTL DEF LogsAllOrNothing
=============================================================================
