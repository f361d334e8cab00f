---------------------------- MODULE CaptureProofs ----------------------------
(***************************************************************************)
(* What holds of Capture whatever the service does: the types, that no     *)
(* mutation is sent twice, that Ok means sent, and what is sent first.     *)
(***************************************************************************)
EXTENDS CaptureInvariants, FiniteSetTheorems, SequenceTheorems, WellFoundedInduction, TLAPS

USE ServiceAssumption, CaptureAssumption

-----------------------------------------------------------------------------
(***************************************************************************)
(* Sequences, names and entries.                                           *)
(***************************************************************************)
LEMMA FrontLast ==
    ASSUME NEW S, NEW s \in Seq(S), s # <<>>
    PROVE  /\ Len(s) \in Nat \ {0}
           /\ Front(s) \in Seq(S)
           /\ Last(s) \in S
           /\ Len(Front(s)) = Len(s) - 1
           /\ \A i \in 1..Len(Front(s)) : Front(s)[i] = s[i]
  <1>1. Len(s) \in Nat \ {0}
    BY EmptySeq
  <1>2. s[Len(s)] \in S
    BY <1>1, ElementOfSeq
  <1>3. \A i \in 1..(Len(s) - 1) : s[i] \in S
    BY <1>1, ElementOfSeq
  <1>4. /\ SubSeq(s, 1, Len(s) - 1) \in Seq(S)
        /\ Len(SubSeq(s, 1, Len(s) - 1)) = Len(s) - 1
        /\ \A i \in 1..(Len(s) - 1) : SubSeq(s, 1, Len(s) - 1)[i] = s[i]
    <2> DEFINE n == Len(s) - 1
    <2>1. n \in Nat /\ 1 \in Int /\ n \in Int
      BY <1>1
    <2>2. /\ SubSeq(s, 1, n) \in Seq(S)
          /\ Len(SubSeq(s, 1, n)) = IF 1 <= n THEN n - 1 + 1 ELSE 0
          /\ \A i \in 1..(n - 1 + 1) : SubSeq(s, 1, n)[i] = s[1 + i - 1]
      <3> HIDE DEF n
      <3> QED
        BY <1>3, <2>1, SubSeqProperties DEF n
    <2>3. /\ Len(SubSeq(s, 1, n)) = n
          /\ \A i \in 1..n : SubSeq(s, 1, n)[i] = s[i]
      <3> HIDE DEF n
      <3> QED
        BY <2>1, <2>2
    <2> QED
      BY <2>2, <2>3
  <1> QED
    BY <1>1, <1>2, <1>4 DEF Front, Last

LEMMA RankIsPositive ==
    ASSUME names \in Seq(Models), NEW i \in 1..Len(names)
    PROVE  Rank(i) \in Nat \ {0}
  <1> DEFINE R == {j \in Places(names, names[i]) : j <= i}
  <1>1. IsFiniteSet(1..Len(names))
    BY FS_Interval
  <1>2. R \subseteq 1..Len(names) /\ i \in R
    BY DEF Places
  <1>3. IsFiniteSet(R) /\ Cardinality(R) \in Nat
    BY <1>1, <1>2, FS_Subset, FS_CardinalityType
  <1>4. Cardinality(R) # 0
    BY <1>2, <1>3, FS_EmptySet
  <1> QED
    BY <1>3, <1>4 DEF Rank

\* The ids given to the first n names, if there are enough of them.
LEMMA GivenType ==
    ASSUME TypeOK, NEW n \in 0..Len(names), \A i \in 1..n : Served(i)
    PROVE  /\ Given(n) \in Seq(Int)
           /\ Len(Given(n)) = n
           /\ \A i \in 1..n : Given(n)[i] = IdOf(i)
  <1>1. Len(names) \in Nat /\ n \in Nat
    BY LenProperties DEF TypeOK
  <1>2. ASSUME NEW i \in 1..n PROVE IdOf(i) \in Int
    <2>1. i \in 1..Len(names) /\ names[i] \in Models
      BY <1>1, ElementOfSeq DEF TypeOK
    <2>2. Rank(i) \in Nat \ {0} /\ Rank(i) <= Len(got[names[i]])
      BY <2>1, RankIsPositive DEF TypeOK, Served
    <2>3. got[names[i]] \in Seq(Int)
      BY <2>1 DEF TypeOK
    <2>4. Rank(i) \in 1..Len(got[names[i]])
      BY <2>2, <2>3, LenProperties
    <2> QED
      BY <2>3, <2>4, ElementOfSeq DEF IdOf
  <1>3. Given(n) \in Seq(Int)
    BY <1>1, <1>2, IsASeq DEF Given
  <1> QED
    BY <1>1, <1>3 DEF Given

\* A name that is in range is replaced by a name.
LEMMA ResolveType ==
    ASSUME NEW name \in Names, NEW s \in Seq(Int), InRange(name, s)
    PROVE  Resolve(name, s) \in Names
  BY DEF Names, InRange, Resolve

LEMMA NamesInRange ==
    /\ NoName \in Names
    /\ RealNames \subseteq Names
  BY DEF NoName, RealName, RealNames, Names

\* What the caller names.
LEMMA CallNames ==
    ASSUME TypeOK
    PROVE  MayRefer \subseteq Names /\ MayName \subseteq Names
  <1>1. ASSUME NEW l \in held PROVE Unseen(l) \in Names
    <2>1. l \in [num : Int, of : 0..MaxMutations]
      BY DEF TypeOK, Names
    <2> QED
      BY <2>1 DEF Unseen, Names
  <1>2. held \subseteq Names
    BY DEF TypeOK
  <1> QED
    BY <1>1, <1>2, NamesInRange DEF MayRefer, MayName

LEMMA NamedMay == MayName = RealNames \union held
  BY DEF MayName

LEMMA NoEntriesType == NoEntries \in Captures
  BY DEF NoEntries, Captures

\* Storing an entry in the top capture.
LEMMA StoreType ==
    ASSUME NEW st \in Seq(Captures), st # <<>>, NEW op \in Operations, NEW e \in Entries
    PROVE  [st EXCEPT ![Len(st)][op] = Append(@, e)] \in Seq(Captures)
  <1>1. Len(st) \in Nat \ {0} /\ Len(st) \in 1..Len(st)
    BY EmptySeq
  <1>2. st[Len(st)] \in Captures
    BY <1>1, ElementOfSeq
  <1>3. [st[Len(st)] EXCEPT ![op] = Append(@, e)] \in Captures
    BY <1>2 DEF Captures
  <1> QED
    BY <1>1, <1>3

\* The requests of an apply are well formed once its local ids are in range.
LEMMA RequestType ==
    ASSUME TypeInv, phase \in {"upsert", "delete"}, NEW m \in Models
    PROVE  /\ Request(m) \in Requests
           /\ todo \ Chunk(m) \subseteq Nat
  <1>1. /\ taken["create"] \in Seq(Entries)
        /\ taken["update"] \in Seq(Entries)
        /\ taken["delete"] \in Seq(Entries)
    BY DEF TypeInv, TypeOK, Captures, Operations
  <1>2. Batch \in Seq(Entries) /\ AllInRange(Batch, ids)
    BY <1>1 DEF TypeInv, SendInRange, Batch, Upserts
  <1>3. ASSUME NEW i \in DOMAIN Batch
        PROVE  Resolved(Batch[i]) \in Entries
    <2>1. Batch[i] \in Entries /\ InRange(Batch[i].id, ids) /\ InRange(Batch[i].ref, ids)
      BY <1>2, <1>3 DEF AllInRange
    <2>2. Resolve(Batch[i].id, ids) \in Names /\ Resolve(Batch[i].ref, ids) \in Names
      BY <2>1, ResolveType DEF TypeInv, TypeOK, Entries
    <2> QED
      BY <2>1, <2>2 DEF Resolved, Entries
  <1>4. Chunk(m) \subseteq DOMAIN Batch
    BY DEF Chunk, OfModel
  <1> QED
    BY <1>3, <1>4 DEF Request, Requests, TypeInv, TypeOK

-----------------------------------------------------------------------------
(***************************************************************************)
(* Type correctness.  It needs SendInRange: only a local id that is in     *)
(* range is replaced by an id.                                             *)
(***************************************************************************)
LEMMA TypeInit == Init => TypeInv
  <1> SUFFICES ASSUME Init PROVE TypeInv
    OBVIOUS
  <1>1. NoEntries \in Captures
    BY NoEntriesType
  <1>2. TypeOK
    BY <1>1 DEF Init, ServiceInit, TypeOK, Phases, NoCounts, NoIds
  <1>3. SendInRange
    BY DEF Init, SendInRange
  <1> QED
    BY <1>2, <1>3 DEF TypeInv

LEMMA TokensType ==
    ASSUME NEW c \in Captures
    PROVE  Tokens(c) \subseteq Mutations
  <1>1. ASSUME NEW op \in Operations
        PROVE  ToSet(c[op]) \subseteq Entries
    <2>1. c[op] \in Seq(Entries)
      BY DEF Captures
    <2> QED
      BY <2>1, ElementOfSeq, LenProperties DEF ToSet
  <1> QED
    BY <1>1 DEF Tokens, EntriesOf, Entries

LEMMA StackTokensType ==
    ASSUME TypeOK
    PROVE  WaitingTokens \subseteq Mutations
  <1>1. \A c \in ToSet(stack) : c \in Captures
    BY ElementOfSeq, LenProperties DEF ToSet, TypeOK
  <1> QED
    BY <1>1, TokensType DEF WaitingTokens

\* The end of an apply resets the locals of apply_capture.
LEMMA ReturnType ==
    ASSUME TypeInv, NEW r \in {"ok", "err"}, ApplyOver(r), failed' \subseteq Mutations,
           stack' \in Seq(Captures), names' \in Seq(Models),
           counts' \in [Models -> Nat], reserved' \in Seq(Int),
           granted' \in Seq(Models),
           wire' \in Seq(Requests)
    PROVE  TypeInv'
  <1>1. NoEntries \in Captures
    BY NoEntriesType
  <1>2. TypeOK'
    BY <1>1, SMTT(30) DEF ApplyOver, TypeInv, TypeOK, Phases, NoCounts, NoIds
  <1>3. SendInRange'
    BY DEF ApplyOver, SendInRange
  <1> QED
    BY <1>2, <1>3 DEF TypeInv

LEMMA ReturnedType ==
    ASSUME TypeInv, NEW r \in {"ok", "err"}, ApplyReturns(r)
    PROVE  ApplyOver(r) /\ failed' \subseteq Mutations
  <1>1. Tokens(taken) \subseteq Mutations /\ failed \subseteq Mutations
    BY TokensType DEF TypeInv, TypeOK
  <1> QED
    BY <1>1 DEF ApplyReturns

\* A reservation adds to the granted ids.
LEMMA ReserveType ==
    ASSUME granted \in Seq(Models), NEW m \in Models, NEW n \in Nat
    PROVE  /\ Reserve(m, n) => granted' \in Seq(Models)
           /\ FreshIds(n) \in Seq(Int)
           /\ Len(FreshIds(n)) = n
  <1>1. [i \in 1..n |-> m] \in Seq(Models)
    BY IsASeq
  <1>2. granted \o [i \in 1..n |-> m] \in Seq(Models)
    BY <1>1, ConcatProperties
  <1>3. Len(granted) \in Nat
    BY LenProperties
  <1>4. \A i \in 1..n : Existing + Len(granted) + i \in Int
    BY <1>3
  <1>5. FreshIds(n) \in Seq(Int)
    BY <1>4, IsASeq DEF FreshIds
  <1>6. Len(FreshIds(n)) = n
    BY DEF FreshIds
  <1> QED
    BY <1>2, <1>5, <1>6 DEF Reserve

LEMMA ExecuteType ==
    ASSUME TypeOK, NEW r \in Requests, Execute(r) \/ UNCHANGED serviceVars
    PROVE  wire' \in Seq(Requests) /\ granted' = granted
  <1>1. CASE Execute(r)
    BY <1>1, AppendProperties DEF Execute, TypeOK
  <1>2. CASE UNCHANGED serviceVars
    BY <1>2 DEF serviceVars, TypeOK
  <1> QED
    BY <1>1, <1>2

\* Outside of the sending phases TypeOK is all there is to show.
LEMMA NotSendingType ==
    ASSUME TypeOK', phase' \notin {"upsert", "delete"}
    PROVE  TypeInv'
  BY DEF TypeInv, SendInRange

LEMMA RawType ==
    ASSUME issued + 1 \in Mutations, NEW m \in Models, NEW id \in Names
    PROVE  /\ RawRequest(m, id) \in Requests
           /\ {x.tok : x \in RawRequest(m, id).inputs} = {issued + 1}
           /\ \A a, b \in RawRequest(m, id).inputs : a.tok = b.tok => a = b
  <1> DEFINE entry == [tok |-> issued + 1, model |-> m, id |-> id, ref |-> NoName]
  <1>1. entry \in Entries /\ entry.tok = issued + 1
    BY NamesInRange DEF Entries
  <1>2. RawRequest(m, id) = [op |-> "raw", model |-> m, inputs |-> {entry}]
    BY DEF RawRequest
  <1> HIDE DEF entry
  <1> QED
    BY <1>1, <1>2 DEF Requests

\* The calls of the capture api other than apply_capture.
LEMMA CallTypeStep ==
    ASSUME TypeInv, CallCapture
    PROVE  TypeInv'
  <1>0. TypeOK
    BY DEF TypeInv
  <1>1. ASSUME StartCapture PROVE TypeInv'
    <2>1. stack' \in Seq(Captures)
      BY <1>0, <1>1, NoEntriesType DEF StartCapture, TypeOK
    <2>2. TypeOK' /\ phase' = "idle"
      BY <1>0, <1>1, <2>1 DEF StartCapture, TypeOK, applyVars, callerVars, serviceVars
    <2> QED
      BY <2>2, NotSendingType
  <1>2. ASSUME DiscardCapture PROVE TypeInv'
    <2>1. stack' \in Seq(Captures) /\ Last(stack) \in Captures
      BY <1>0, <1>2, FrontLast DEF DiscardCapture, TypeOK
    <2>2. dropped' \subseteq Mutations
      BY <1>0, <1>2, <2>1, TokensType DEF DiscardCapture, TypeOK
    <2>3. TypeOK' /\ phase' = "idle"
      BY <1>0, <1>2, <2>1, <2>2 DEF DiscardCapture, TypeOK, applyVars, serviceVars
    <2> QED
      BY <2>3, NotSendingType
  <1>3. ASSUME NEW m \in Models, NEW ref \in MayRefer, CreateLocal(m, ref)
        PROVE  TypeInv'
    <2> DEFINE local == [num |-> NextLocal, of |-> issued + 1]
               entry == [tok |-> issued + 1, model |-> m, id |-> local, ref |-> ref]
    <2>1. Len(names) \in Nat /\ Len(reserved) \in Nat /\ issued + 1 \in Mutations
      BY <1>0, <1>3, LenProperties DEF TypeOK, CreateLocal, MayCapture, MayRequest, Mutations
    <2>2. local \in Names /\ ref \in Names
      <3>1. local \in Names
        BY <2>1 DEF Names, Mutations, NextLocal
      <3> QED
        BY <1>0, <3>1, CallNames
    <2>3. entry \in Entries
      BY <2>1, <2>2 DEF Entries
    <2>s. /\ stack # <<>>
          /\ stack' = [stack EXCEPT ![Len(stack)]["create"] = Append(@, entry)]
      BY <1>3 DEF CreateLocal, Capture, MayCapture
    <2>4. /\ phase = "idle"
          /\ names' = Append(names, m)
          /\ counts' = [counts EXCEPT ![m] = @ + 1]
          /\ held' = held \union {local}
          /\ issued' = issued + 1
          /\ result' = "ok"
          /\ UNCHANGED <<reserved, phase, applyVars, dropped, failed, serviceVars>>
      BY <1>3 DEF CreateLocal, Capture, MayCapture, MayRequest
    <2>5. stack' \in Seq(Captures)
      <3> HIDE DEF entry
      <3> QED
        BY <1>0, <2>3, <2>s, StoreType DEF TypeOK, Operations
    <2>6. /\ names' \in Seq(Models)
          /\ counts' \in [Models -> Nat]
          /\ held' \subseteq Names
      <3>1. names' \in Seq(Models)
        BY <1>0, <2>4, AppendProperties DEF TypeOK
      <3>2. counts' \in [Models -> Nat]
        BY <1>0, <2>4 DEF TypeOK
      <3>3. held' \subseteq Names
        BY <1>0, <2>2, <2>4 DEF TypeOK
      <3> QED
        BY <3>1, <3>2, <3>3
    <2>7. TypeOK' /\ phase' = "idle"
      BY <1>0, <2>1, <2>4, <2>5, <2>6, SMTT(30) DEF TypeOK, applyVars, serviceVars, Mutations
    <2> QED
      BY <2>7, NotSendingType
  <1>4. ASSUME NEW op \in Operations, NEW m \in Models, NEW id \in Names, NEW ref \in Names,
               Change(op, m, id, ref)
        PROVE  TypeInv'
    <2> DEFINE entry == [tok |-> issued + 1, model |-> m, id |-> id, ref |-> ref]
    <2>1. issued + 1 \in Mutations
      BY <1>0, <1>4 DEF TypeOK, Change, MayCapture, MayRequest, Mutations
    <2>2. entry \in Entries
      BY <2>1 DEF Entries
    <2>s. /\ stack # <<>>
          /\ stack' = [stack EXCEPT ![Len(stack)][op] = Append(@, entry)]
      BY <1>4 DEF Change, Capture, MayCapture
    <2>3. /\ phase = "idle"
          /\ issued' = issued + 1
          /\ result' = "ok"
          /\ UNCHANGED <<names, counts, held, reserved, phase, applyVars, dropped, failed, serviceVars>>
      BY <1>4 DEF Change, Capture, MayCapture, MayRequest
    <2>4. stack' \in Seq(Captures)
      <3> HIDE DEF entry
      <3> QED
        BY <1>0, <2>2, <2>s, StoreType DEF TypeOK
    <2>5. TypeOK' /\ phase' = "idle"
      BY <1>0, <2>1, <2>3, <2>4 DEF TypeOK, applyVars, serviceVars, Mutations
    <2> QED
      BY <2>5, NotSendingType
  <1>5. ASSUME NEW m \in Models, NEW id \in MayName, PassThrough(m, id) \/ PassThroughTraps(m, id)
        PROVE  TypeInv'
    <2>1. issued + 1 \in Mutations
      BY <1>0, <1>5 DEF TypeOK, PassThrough, PassThroughTraps, MayRequest, Mutations
    <2>2. RawRequest(m, id) \in Requests
      BY <1>0, <2>1, RawType, CallNames
    <2>3. /\ phase' \in {"idle", "trapped"}
          /\ issued' = issued + 1
          /\ result' \in {"ok", "err", result}
          /\ dropped' \subseteq dropped \union {issued + 1}
          /\ Execute(RawRequest(m, id)) \/ UNCHANGED serviceVars
          /\ UNCHANGED <<captureData, applyVars, held, failed>>
      BY <1>5 DEF PassThrough, PassThroughTraps, MayRequest, PassedOn, NotExecuted
    <2>4. wire' \in Seq(Requests) /\ granted' = granted
      BY <1>0, <2>2, <2>3, ExecuteType
    <2>5. issued' \in 0..MaxMutations /\ dropped' \subseteq Mutations
      BY <1>0, <2>1, <2>3 DEF TypeOK, Mutations
    <2>6. UNCHANGED <<stack, names, counts, reserved, taken, due, got, ids, todo, held, failed, granted>>
      BY <2>3, <2>4 DEF captureData, applyVars
    <2>7. result' \in {"ok", "err"} /\ phase' \in Phases
      BY <1>0, <2>3 DEF TypeOK, Phases
    <2>8. TypeOK'
      BY <1>0, <2>4, <2>5, <2>6, <2>7 DEF TypeOK
    <2> QED
      BY <2>3, <2>8, NotSendingType
  <1>7. ASSUME ApplyNothing PROVE TypeInv'
    <2>1. TypeOK' /\ phase' = "idle"
      BY <1>0, <1>7 DEF ApplyNothing, TypeOK, captureData, applyVars, callerVars, serviceVars
    <2> QED
      BY <2>1, NotSendingType
  <1>8. ASSUME ApplyCapture PROVE TypeInv'
    <2>1. stack' \in Seq(Captures) /\ taken' \in Captures
      BY <1>0, <1>8, FrontLast DEF ApplyCapture, TypeOK
    <2>2. TypeOK' /\ phase' = "reserve"
      BY <1>0, <1>8, <2>1 DEF ApplyCapture, TypeOK, Phases, NoCounts, callerVars, serviceVars
    <2> QED
      BY <2>2, NotSendingType
  <1>9. /\ MayRefer \subseteq Names
        /\ MayName \subseteq Names
        /\ NoName \in Names
        /\ RealNames \subseteq Names
        /\ {"create", "update", "delete"} = Operations
    BY <1>0, NamesInRange, CallNames DEF Operations
  <1> QED
    BY <1>1, <1>2, <1>3, <1>4, <1>5, <1>7, <1>8, <1>9 DEF CallCapture

\* The steps of apply_capture.
LEMMA ApplyTypeStep ==
    ASSUME TypeInv, RunApply
    PROVE  TypeInv'
  <1>0. TypeOK
    BY DEF TypeInv
  <1>1. ASSUME NEW m \in Models, ReserveIds(m)
        PROVE  TypeInv'
    <2>1. due[m] \in Nat
      BY <1>0 DEF TypeOK
    <2>2. granted' \in Seq(Models) /\ FreshIds(due[m]) \in Seq(Int)
      BY <1>0, <1>1, <2>1, ReserveType DEF TypeOK, ReserveIds
    <2>3. TypeOK' /\ phase' = "reserve"
      BY <1>0, <1>1, <2>2 DEF TypeOK, ReserveIds, Reserve, captureData, callerVars
    <2> QED
      BY <2>3, NotSendingType
  <1>2. ASSUME NEW m \in Models, ReserveMiscounts(m)
        PROVE  TypeInv'
    <2>1. PICK n \in {due[m] - 1, due[m] + 1} :
              Reserve(m, n) /\ got' = [got EXCEPT ![m] = FreshIds(n)]
      BY <1>2 DEF ReserveMiscounts
    <2>2. n \in Nat
      BY <1>0, <1>2 DEF TypeOK, ReserveMiscounts
    <2>3. granted' \in Seq(Models) /\ FreshIds(n) \in Seq(Int) /\ wire' = wire
      BY <1>0, <2>1, <2>2, ReserveType DEF TypeOK, Reserve
    <2>4. got' \in [Models -> Seq(Int)]
      BY <1>0, <2>1, <2>3 DEF TypeOK
    <2>5. TypeOK' /\ phase' = "reserve"
      BY <1>0, <1>2, <2>3, <2>4 DEF TypeOK, ReserveMiscounts, captureData, callerVars
    <2> QED
      BY <2>5, NotSendingType
  <1>3. ASSUME NEW m \in Models, ReserveFails(m)
        PROVE  TypeInv'
    <2>1. due[m] \in Nat
      BY <1>0 DEF TypeOK
    <2>2. granted' \in Seq(Models) /\ wire' = wire
      BY <1>0, <1>3, <2>1, ReserveType DEF TypeOK, ReserveFails, Reserve, serviceVars
    <2> QED
      BY <1>0, <1>3, <2>2, ReturnType, ReturnedType DEF TypeOK, ReserveFails, captureData
  <1>4. ASSUME NEW m \in Models, ReserveTraps(m)
        PROVE  TypeInv'
    <2>1. due[m] \in Nat
      BY <1>0 DEF TypeOK
    <2>2. granted' \in Seq(Models) /\ wire' = wire
      BY <1>0, <1>4, <2>1, ReserveType DEF TypeOK, ReserveTraps, Reserve, serviceVars
    <2>3. TypeOK' /\ phase' = "trapped"
      BY <1>0, <1>4, <2>2 DEF TypeOK, ReserveTraps, Traps, Phases, captureData, applyVars, callerVars
    <2> QED
      BY <2>3, NotSendingType
  <1>5. ASSUME NEW m \in Models, Send(m)
        PROVE  TypeInv'
    <2>1. Request(m) \in Requests /\ todo \ Chunk(m) \subseteq Nat
      BY <1>5, RequestType DEF Send, Turn
    <2>2. wire' \in Seq(Requests) /\ granted' = granted
      BY <1>0, <1>5, <2>1, AppendProperties DEF Send, Execute, TypeOK
    <2>3. UNCHANGED <<captureData, phase, taken, due, got, ids, result, callerVars>>
      BY <1>5 DEF Send
    <2>4. todo' \subseteq Nat
      BY <1>5, <2>1 DEF Send
    <2>5. TypeOK'
      BY <1>0, <2>2, <2>3, <2>4 DEF TypeOK, captureData, callerVars, Batch
    <2>6. SendInRange'
      BY <2>3 DEF TypeInv, SendInRange, AllInRange, InRange, Upserts
    <2> QED
      BY <2>5, <2>6 DEF TypeInv
  <1>6. ASSUME NEW m \in Models, SendFails(m)
        PROVE  TypeInv'
    <2>1. Request(m) \in Requests
      BY <1>6, RequestType DEF SendFails, Turn
    <2>2. wire' \in Seq(Requests) /\ granted' = granted
      BY <1>0, <1>6, <2>1, ExecuteType DEF SendFails
    <2> QED
      BY <1>0, <1>6, <2>2, ReturnType, ReturnedType DEF TypeOK, SendFails, captureData
  <1>7. ASSUME NEW m \in Models, SendTraps(m)
        PROVE  TypeInv'
    <2>1. Request(m) \in Requests
      BY <1>7, RequestType DEF SendTraps, Turn
    <2>2. wire' \in Seq(Requests) /\ granted' = granted
      BY <1>0, <1>7, <2>1, ExecuteType DEF SendTraps
    <2>3. TypeOK' /\ phase' = "trapped"
      BY <1>0, <1>7, <2>2 DEF TypeOK, SendTraps, Traps, Phases, captureData, applyVars, callerVars
    <2> QED
      BY <2>3, NotSendingType
  <1>8. ASSUME AssignIds PROVE TypeInv'
    <2>1. Given(Len(names)) \in Seq(Int)
      BY <1>0, <1>8, GivenType DEF AssignIds, AllServed
    <2>2. ids' \in Seq(Int) /\ reserved' \in Seq(Int)
      BY <1>0, <1>8, <2>1, ConcatProperties, EmptySeq DEF AssignIds, AllIds, Keep, TypeOK
    <2>3. /\ taken["create"] \in Seq(Entries)
          /\ taken["update"] \in Seq(Entries)
      BY <1>0 DEF TypeOK, Captures, Operations
    <2>4. DOMAIN Upserts \subseteq Nat /\ Upserts' = Upserts
      <3>1. Upserts \in Seq(Entries)
        BY <2>3, ConcatProperties DEF Upserts
      <3>2. taken' = taken
        BY <1>8 DEF AssignIds
      <3>3. DOMAIN Upserts = 1..Len(Upserts) /\ Len(Upserts) \in Nat
        BY <3>1, LenProperties
      <3>4. Upserts' = Upserts
        BY <3>2 DEF Upserts
      <3> QED
        BY <3>3, <3>4
    <2>5. /\ phase' \in Phases \ {"delete"}
          /\ phase' = "upsert" => AllInRange(Upserts, ids')
          /\ todo' \subseteq Nat
      BY <1>0, <1>8, <2>4 DEF AssignIds, TypeOK, Phases
    <2>6. TypeOK'
      BY <1>0, <1>8, <2>2, <2>5 DEF AssignIds, TypeOK, NoIds, callerVars, serviceVars
    <2>7. SendInRange'
      BY <2>4, <2>5 DEF SendInRange, AllInRange
    <2> QED
      BY <2>6, <2>7 DEF TypeInv
  <1>9. ASSUME AssignFails PROVE TypeInv'
    <2>1. PICK i \in 1..Len(names) :
              /\ \A j \in 1..(i - 1) : Served(j)
              /\ reserved' = reserved \o Given(i - 1)
      BY <1>9 DEF AssignFails
    <2>2. i - 1 \in 0..Len(names)
      BY <1>0, LenProperties DEF TypeOK
    <2>3. Given(i - 1) \in Seq(Int)
      BY <1>0, <2>1, <2>2, GivenType
    <2>4. reserved' \in Seq(Int)
      BY <1>0, <2>1, <2>3, ConcatProperties DEF TypeOK
    <2>5. /\ names' = <<>> /\ UNCHANGED <<stack, counts, granted, wire>>
          /\ ApplyOver("err") /\ failed' \subseteq Mutations
      BY <1>9, ReturnedType DEF AssignFails, serviceVars
    <2> QED
      BY <1>0, <2>4, <2>5, ReturnType, SMTT(30) DEF TypeOK
  <1>10. ASSUME PrepareDeletes PROVE TypeInv'
    <2>1. taken["delete"] \in Seq(Entries)
      BY <1>0 DEF TypeOK, Captures, Operations
    <2>2. /\ phase' \in Phases \ {"upsert"}
          /\ phase' = "delete" => AllInRange(taken["delete"], ids)
          /\ todo' \subseteq Nat
      BY <1>0, <1>10, <2>1, LenProperties DEF PrepareDeletes, TypeOK, Phases
    <2>3. TypeOK'
      BY <1>0, <1>10, <2>2 DEF PrepareDeletes, TypeOK, captureData, callerVars, serviceVars
    <2>4. SendInRange'
      BY <1>10, <2>2 DEF PrepareDeletes, SendInRange, AllInRange
    <2> QED
      BY <2>3, <2>4 DEF TypeInv
  <1>11. ASSUME ApplyDone PROVE TypeInv'
    BY <1>0, <1>11, ReturnType, ReturnedType DEF ApplyDone, TypeOK, captureData, serviceVars
  <1> QED
    BY <1>1, <1>2, <1>3, <1>4, <1>5, <1>6, <1>7, <1>8, <1>9, <1>10, <1>11 DEF RunApply

LEMMA TypeStep == TypeInv /\ [Next]_vars => TypeInv'
  <1> SUFFICES ASSUME TypeInv, [Next]_vars PROVE TypeInv'
    OBVIOUS
  <1>1. CASE CallCapture
    BY <1>1, CallTypeStep
  <1>2. CASE RunApply
    BY <1>2, ApplyTypeStep
  <1>3. CASE Reinstantiate
    <2>1. /\ stack' = <<>> /\ names' = <<>> /\ counts' = NoCounts /\ reserved' = <<>>
          /\ ApplyOver("err")
          /\ failed' = failed \union WaitingTokens \union (Tokens(taken) \ SentTokens)
          /\ UNCHANGED serviceVars
      BY <1>3 DEF Reinstantiate
    <2>2. NoCounts \in [Models -> Nat]
      BY DEF NoCounts
    <2>3. failed' \subseteq Mutations
      <3>1. WaitingTokens \subseteq Mutations
        BY StackTokensType DEF TypeInv
      <3>2. Tokens(taken) \subseteq Mutations /\ failed \subseteq Mutations
        BY TokensType DEF TypeInv, TypeOK
      <3> QED
        BY <2>1, <3>1, <3>2
    <2> QED
      BY <2>1, <2>2, <2>3, ReturnType, EmptySeq DEF TypeInv, TypeOK, serviceVars
  <1>4. CASE UNCHANGED vars
    BY <1>4 DEF vars, captureData, applyVars, callerVars, serviceVars, TypeInv, TypeOK,
        SendInRange, AllInRange, InRange, Upserts
  <1> QED
    BY <1>1, <1>2, <1>3, <1>4 DEF Next

\* The state always has the shape of the Rust types, whatever the service does
\* and however many mutations are captured.
THEOREM TypeCorrect == Spec => []TypeOK
  <1>1. Spec => []TypeInv
    BY TypeInit, TypeStep, PTL DEF Spec
  <1>2. TypeInv => TypeOK
    BY DEF TypeInv
  <1> QED
    BY <1>1, <1>2, PTL

-----------------------------------------------------------------------------
(***************************************************************************)
(* Mutations and their tokens.                                             *)
(***************************************************************************)
LEMMA TokenPlace ==
    \A c, x : x \in Tokens(c) <=> \E op \in Operations : \E i \in DOMAIN c[op] : x = c[op][i].tok
  <1> SUFFICES ASSUME NEW c, NEW x
               PROVE  x \in Tokens(c) <=> \E op \in Operations : \E i \in DOMAIN c[op] : x = c[op][i].tok
    OBVIOUS
  <1>1. \A e : e \in EntriesOf(c) <=> \E op \in Operations : \E i \in DOMAIN c[op] : e = c[op][i]
    BY DEF EntriesOf, ToSet
  <1> QED
    BY <1>1 DEF Tokens

LEMMA NothingStored == Tokens(NoEntries) = {} /\ Distinct(NoEntries)
  <1>1. \A op \in Operations : DOMAIN NoEntries[op] = {}
    BY DEF NoEntries
  <1> QED
    BY <1>1, TokenPlace DEF Distinct

LEMMA StackPlace ==
    \A st, x : x \in UNION {Tokens(c) : c \in ToSet(st)} <=> \E i \in DOMAIN st : x \in Tokens(st[i])
  BY DEF ToSet

LEMMA WaitingPlace ==
    /\ \A x : x \in WaitingTokens <=> \E i \in DOMAIN stack : x \in Tokens(stack[i])
    /\ \A x : x \in WaitingTokens' <=> \E i \in DOMAIN stack' : x \in Tokens(stack'[i])
  BY StackPlace DEF WaitingTokens

LEMMA StackDomain ==
    ASSUME NEW st \in Seq(Captures)
    PROVE  /\ DOMAIN st = 1..Len(st) /\ Len(st) \in Nat
           /\ \A i \in DOMAIN st : st[i] \in Captures
  BY LenProperties, ElementOfSeq

\* A capture with one more mutation, a new one.
LEMMA OneMoreDistinct ==
    ASSUME NEW c, Distinct(c), NEW top, NEW e, NEW op \in Operations, NEW k, e.tok \notin Tokens(c),
           \A q \in Operations : \A i \in DOMAIN top[q] :
               \/ i \in DOMAIN c[q] /\ top[q][i] = c[q][i]
               \/ q = op /\ i = k /\ top[q][i] = e,
           \A q \in Operations : \A i \in DOMAIN c[q] : i \in DOMAIN top[q] /\ top[q][i] = c[q][i],
           k \in DOMAIN top[op] /\ top[op][k] = e
    PROVE  Distinct(top) /\ Tokens(top) = Tokens(c) \union {e.tok}
  <1>1. \A q \in Operations : \A i \in DOMAIN c[q] : c[q][i].tok # e.tok
    BY TokenPlace
  <1>2. Tokens(top) = Tokens(c) \union {e.tok}
    <2>1. ASSUME NEW x \in Tokens(top) PROVE x \in Tokens(c) \union {e.tok}
      <3>1. PICK q \in Operations : \E i \in DOMAIN top[q] : x = top[q][i].tok
        BY TokenPlace
      <3>2. PICK i \in DOMAIN top[q] : x = top[q][i].tok
        BY <3>1
      <3>3. CASE i \in DOMAIN c[q] /\ top[q][i] = c[q][i]
        <4>1. x = c[q][i].tok
          BY <3>2, <3>3
        <4> QED
          BY <3>3, <4>1, TokenPlace
      <3> QED
        BY <3>2, <3>3
    <2>2. ASSUME NEW x \in Tokens(c) PROVE x \in Tokens(top)
      <3>1. PICK q \in Operations : \E i \in DOMAIN c[q] : x = c[q][i].tok
        BY TokenPlace
      <3>2. PICK i \in DOMAIN c[q] : x = c[q][i].tok
        BY <3>1
      <3>3. i \in DOMAIN top[q] /\ x = top[q][i].tok
        BY <3>2
      <3> QED
        BY <3>3, TokenPlace
    <2>3. e.tok \in Tokens(top)
      <3>1. e.tok = top[op][k].tok
        OBVIOUS
      <3> QED
        BY <3>1, TokenPlace
    <2> QED
      BY <2>1, <2>2, <2>3
  <1>3. ASSUME NEW q \in Operations, NEW p \in Operations, NEW i \in DOMAIN top[q],
               NEW j \in DOMAIN top[p], top[q][i].tok = top[p][j].tok
        PROVE  q = p /\ i = j
    BY <1>1, <1>3 DEF Distinct
  <1> QED
    BY <1>2, <1>3 DEF Distinct

LEMMA StoreApart ==
    ASSUME NEW c \in Captures, Distinct(c), NEW op \in Operations, NEW e \in Entries,
           e.tok \notin Tokens(c)
    PROVE  /\ Distinct([c EXCEPT ![op] = Append(@, e)])
           /\ Tokens([c EXCEPT ![op] = Append(@, e)]) = Tokens(c) \union {e.tok}
  <1> DEFINE top == [c EXCEPT ![op] = Append(@, e)]
             s == c[op]
             n == Len(s)
  <1>1. s \in Seq(Entries) /\ n \in Nat /\ DOMAIN s = 1..n
    BY LenProperties DEF Captures
  <1>2. /\ DOMAIN Append(s, e) = 1..(n + 1) /\ \A i \in 1..n : Append(s, e)[i] = s[i]
        /\ Append(s, e)[n + 1] = e
    BY <1>1, AppendProperties, LenProperties
  <1>3. \A q \in Operations : top[q] = IF q = op THEN Append(s, e) ELSE c[q]
    BY DEF Captures
  <1> HIDE DEF top, s, n
  <1>4. ASSUME NEW q \in Operations, NEW i \in DOMAIN top[q]
        PROVE  \/ i \in DOMAIN c[q] /\ top[q][i] = c[q][i]
               \/ q = op /\ i = n + 1 /\ top[q][i] = e
    <2>1. CASE q = op
      <3>1. top[q] = Append(s, e) /\ c[q] = s
        BY <1>3, <2>1 DEF s
      <3>2. i \in 1..n \/ i = n + 1
        BY <1>1, <1>2, <3>1
      <3> QED
        BY <1>1, <1>2, <2>1, <3>1, <3>2
    <2>2. CASE q # op
      BY <1>3, <2>2
    <2> QED
      BY <2>1, <2>2
  <1>5. ASSUME NEW q \in Operations, NEW i \in DOMAIN c[q]
        PROVE  i \in DOMAIN top[q] /\ top[q][i] = c[q][i]
    <2>1. CASE q = op
      <3>1. top[q] = Append(s, e) /\ c[q] = s
        BY <1>3, <2>1 DEF s
      <3> QED
        BY <1>1, <1>2, <3>1
    <2>2. CASE q # op
      BY <1>3, <2>2
    <2> QED
      BY <2>1, <2>2
  <1>6. n + 1 \in DOMAIN top[op] /\ top[op][n + 1] = e
    <2>1. top[op] = Append(s, e)
      BY <1>3
    <2> QED
      BY <1>1, <1>2, <2>1
  <1>7. Distinct(top) /\ Tokens(top) = Tokens(c) \union {e.tok}
    BY <1>4, <1>5, <1>6, OneMoreDistinct
  <1> QED
    BY <1>7 DEF top

LEMMA StoreInTop ==
    ASSUME TypeOK, Apart(stack), stack # <<>>, NEW op \in Operations, NEW e \in Entries,
           e.tok \notin WaitingTokens, stack' = [stack EXCEPT ![Len(stack)][op] = Append(@, e)]
    PROVE  Apart(stack') /\ WaitingTokens' = WaitingTokens \union {e.tok}
  <1> DEFINE n == Len(stack)
             c == stack[n]
             top == [c EXCEPT ![op] = Append(@, e)]
             after == stack'
  <1>1. n \in DOMAIN stack /\ c \in Captures
    BY StackDomain, EmptySeq DEF TypeOK
  <1>2. DOMAIN after = DOMAIN stack /\ \A i \in DOMAIN stack : after[i] = IF i = n THEN top ELSE stack[i]
    <2>1. after = [stack EXCEPT ![n] = top]
      OBVIOUS
    <2> HIDE DEF n, c, top, after
    <2> QED
      BY <2>1
  <1>3. \A i \in DOMAIN stack : e.tok \notin Tokens(stack[i])
    BY WaitingPlace
  <1>4. Distinct(top) /\ Tokens(top) = Tokens(c) \union {e.tok}
    BY <1>1, <1>3, StoreApart DEF Apart
  <1> HIDE DEF top, after
  <1>5. \A i \in DOMAIN stack : /\ Distinct(after[i])
                                /\ Tokens(after[i]) = Tokens(stack[i]) \union (IF i = n THEN {e.tok} ELSE {})
    BY <1>2, <1>4 DEF Apart
  <1> HIDE DEF n, c
  <1>6. Apart(after)
    <2> SUFFICES ASSUME NEW i \in DOMAIN stack, NEW j \in DOMAIN stack, i # j
                 PROVE  Tokens(after[i]) \intersect Tokens(after[j]) = {}
      BY <1>2, <1>5 DEF Apart
    <2>1. Tokens(stack[i]) \intersect Tokens(stack[j]) = {}
      BY DEF Apart
    <2>2. e.tok \notin Tokens(stack[i]) /\ e.tok \notin Tokens(stack[j])
      BY <1>3
    <2>3. /\ Tokens(after[i]) = Tokens(stack[i]) \union (IF i = n THEN {e.tok} ELSE {})
          /\ Tokens(after[j]) = Tokens(stack[j]) \union (IF j = n THEN {e.tok} ELSE {})
      BY <1>5
    <2>4. i # n \/ j # n
      OBVIOUS
    <2>5. CASE i # n
      BY <2>1, <2>2, <2>3, <2>5
    <2>6. CASE j # n
      BY <2>1, <2>2, <2>3, <2>6
    <2> QED
      BY <2>4, <2>5, <2>6
  <1>7. WaitingTokens' = WaitingTokens \union {e.tok}
    <2>1. \A x : x \in WaitingTokens' <=> \E i \in DOMAIN after : x \in Tokens(after[i])
      BY WaitingPlace DEF after
    <2> QED
      BY <1>1, <1>2, <1>5, <2>1, WaitingPlace
  <1> QED
    BY <1>6, <1>7 DEF after

\* A capture is opened.
LEMMA PushApart ==
    ASSUME TypeOK, Apart(stack), stack' = Append(stack, NoEntries)
    PROVE  Apart(stack') /\ WaitingTokens' = WaitingTokens
  <1> DEFINE n == Len(stack)
  <1>1. /\ n \in Nat /\ DOMAIN stack = 1..n /\ DOMAIN stack' = 1..(n + 1)
        /\ \A i \in 1..n : stack'[i] = stack[i]
        /\ stack'[n + 1] = NoEntries
    BY AppendProperties, LenProperties, NoEntriesType DEF TypeOK
  <1> HIDE DEF n
  <1>2. \A i \in DOMAIN stack' : \/ i \in DOMAIN stack /\ stack'[i] = stack[i]
                                 \/ i = n + 1 /\ stack'[i] = NoEntries
    BY <1>1
  <1>3. Apart(stack')
    BY <1>2, NothingStored DEF Apart
  <1>5. DOMAIN stack \subseteq DOMAIN stack'
    BY <1>1
  <1> QED
    BY <1>1, <1>2, <1>3, <1>5, NothingStored, WaitingPlace

\* A capture is popped.
LEMMA PopApart ==
    ASSUME TypeOK, Apart(stack), stack # <<>>, stack' = Front(stack)
    PROVE  /\ Apart(stack') /\ Distinct(Last(stack))
           /\ WaitingTokens = WaitingTokens' \union Tokens(Last(stack))
           /\ WaitingTokens' \intersect Tokens(Last(stack)) = {}
  <1> DEFINE n == Len(stack)
  <1>1. /\ n \in Nat \ {0} /\ DOMAIN stack = 1..n /\ DOMAIN stack' = 1..(n - 1)
        /\ \A i \in 1..(n - 1) : stack'[i] = stack[i]
        /\ Last(stack) = stack[n]
    <2>1. /\ n \in Nat \ {0} /\ Front(stack) \in Seq(Captures) /\ Len(Front(stack)) = n - 1
          /\ \A i \in 1..Len(Front(stack)) : Front(stack)[i] = stack[i]
      BY FrontLast DEF TypeOK
    <2> QED
      BY <2>1, LenProperties DEF TypeOK, Last
  <1> HIDE DEF n
  <1>2. n \in DOMAIN stack /\ \A i \in DOMAIN stack : i \in DOMAIN stack' \/ i = n
    BY <1>1
  <1>3. \A i \in DOMAIN stack' : i \in DOMAIN stack /\ i # n /\ stack'[i] = stack[i]
    BY <1>1
  <1>4. Apart(stack')
    BY <1>3 DEF Apart
  <1>6. WaitingTokens = WaitingTokens' \union Tokens(Last(stack))
    <2>1. ASSUME NEW x \in WaitingTokens PROVE x \in WaitingTokens' \union Tokens(Last(stack))
      BY <1>1, <1>2, <1>3, WaitingPlace
    <2>2. ASSUME NEW x \in WaitingTokens' \union Tokens(Last(stack)) PROVE x \in WaitingTokens
      BY <1>1, <1>2, <1>3, WaitingPlace
    <2> QED
      BY <2>1, <2>2
  <1>7. WaitingTokens' \intersect Tokens(Last(stack)) = {}
    BY <1>1, <1>2, <1>3, WaitingPlace DEF Apart
  <1> QED
    BY <1>1, <1>2, <1>4, <1>6, <1>7 DEF Apart

-----------------------------------------------------------------------------
\* A step that executes a request adds its inputs to what was sent.
LEMMA SentAppend ==
    ASSUME TypeOK, NEW r \in Requests, Execute(r)
    PROVE  /\ DOMAIN wire' = DOMAIN wire \union {Len(wire) + 1}
           /\ Len(wire) + 1 \notin DOMAIN wire
           /\ \A i \in DOMAIN wire : wire'[i] = wire[i]
           /\ wire'[Len(wire) + 1] = r
           /\ Sent' = Sent \union r.inputs
           /\ SentNames' = SentNames \union {n \in UNION {{e.id, e.ref} : e \in r.inputs} : n.num > 0}
           /\ SentTokens' = SentTokens \union {e.tok : e \in r.inputs}
  <1>1. /\ wire' = Append(wire, r) /\ wire \in Seq(Requests) /\ Len(wire) \in Nat
        /\ DOMAIN wire = 1..Len(wire) /\ DOMAIN wire' = 1..(Len(wire) + 1)
        /\ \A i \in 1..Len(wire) : wire'[i] = wire[i]
        /\ wire'[Len(wire) + 1] = r
    BY AppendProperties, LenProperties DEF Execute, TypeOK
  <1>2. ToSet(wire') = ToSet(wire) \union {r}
    <2>1. ASSUME NEW i \in DOMAIN wire' PROVE wire'[i] \in ToSet(wire) \union {r}
      BY <1>1 DEF ToSet
    <2>2. ASSUME NEW x \in ToSet(wire) \union {r} PROVE x \in ToSet(wire')
      BY <1>1 DEF ToSet
    <2> QED
      BY <2>1, <2>2 DEF ToSet
  <1>3. Sent' = Sent \union r.inputs
    BY <1>2 DEF Sent
  <1>4. /\ SentTokens' = SentTokens \union {e.tok : e \in r.inputs}
        /\ SentNames' = SentNames \union {n \in UNION {{e.id, e.ref} : e \in r.inputs} : n.num > 0}
    BY <1>3 DEF SentTokens, SentNames
  <1>5. /\ DOMAIN wire' = DOMAIN wire \union {Len(wire) + 1}
        /\ Len(wire) + 1 \notin DOMAIN wire
    <2>1. /\ 1..(Len(wire) + 1) = 1..Len(wire) \union {Len(wire) + 1}
          /\ Len(wire) + 1 \notin 1..Len(wire)
      BY <1>1
    <2> QED
      BY <1>1, <2>1
  <1> QED
    BY <1>1, <1>3, <1>4, <1>5

LEMMA SentTokensOf ==
    \A i \in DOMAIN wire : \A a \in wire[i].inputs : a.tok \in SentTokens
  BY DEF SentTokens, Sent, ToSet

\* Requests whose inputs are neither sent, gone nor waiting.
LEMMA NewSentOnce ==
    ASSUME TypeOK, SentAtMostOnce, NEW r \in Requests, Execute(r),
           \A a, b \in r.inputs : a.tok = b.tok => a = b,
           {e.tok : e \in r.inputs} \intersect (SentTokens \union Gone \union WaitingTokens) = {},
           (Gone' \ Gone) \intersect SentTokens' = {}, WaitingTokens' = WaitingTokens
    PROVE  SentAtMostOnce' /\ SentTokens' = SentTokens \union {e.tok : e \in r.inputs}
  <1> DEFINE n == Len(wire) + 1
             new == {e.tok : e \in r.inputs}
  <1>1. /\ DOMAIN wire' = DOMAIN wire \union {n} /\ n \notin DOMAIN wire
        /\ \A i \in DOMAIN wire : wire'[i] = wire[i]
        /\ wire'[n] = r
        /\ SentTokens' = SentTokens \union new
    BY SentAppend
  <1>2. \A a \in r.inputs : a.tok \in new
    OBVIOUS
  <1> HIDE DEF n, new
  <1>3. new \intersect SentTokens = {} /\ new \intersect Gone = {} /\ new \intersect WaitingTokens = {}
    BY DEF new
  <1>4. ASSUME NEW i \in DOMAIN wire', NEW j \in DOMAIN wire', NEW a \in wire'[i].inputs,
               NEW b \in wire'[j].inputs, a.tok = b.tok
        PROVE  i = j /\ a = b
    <2>1. CASE i = n /\ j = n
      BY <1>1, <1>4, <2>1
    <2>2. CASE i # n /\ j # n
      BY <1>1, <1>4, <2>2 DEF SentAtMostOnce
    <2>3. CASE i = n /\ j # n
      <3>1. a.tok \in new /\ b.tok \in SentTokens
        BY <1>1, <1>2, <2>3, SentTokensOf
      <3> QED
        BY <1>3, <1>4, <3>1
    <2>4. CASE i # n /\ j = n
      <3>1. b.tok \in new /\ a.tok \in SentTokens
        BY <1>1, <1>2, <2>4, SentTokensOf
      <3> QED
        BY <1>3, <1>4, <3>1
    <2> QED
      BY <2>1, <2>2, <2>3, <2>4
  <1>5. SentTokens' \intersect Gone' = {} /\ SentTokens' \intersect WaitingTokens' = {}
    BY <1>1, <1>3 DEF SentAtMostOnce
  <1>6. SentTokens' = SentTokens \union {e.tok : e \in r.inputs}
    BY <1>1 DEF new
  <1> QED
    BY <1>4, <1>5, <1>6 DEF SentAtMostOnce

LEMMA SameSentOnce ==
    ASSUME SentAtMostOnce, wire' = wire, SentTokens \intersect (Gone' \union WaitingTokens') = {}
    PROVE  SentAtMostOnce' /\ SentTokens' = SentTokens
  BY DEF SentAtMostOnce, SentTokens, Sent

\* Nothing is taken between two calls.
LEMMA IdleStages ==
    ASSUME phase' = "idle", taken' = NoEntries,
           WaitingTokens' \union SentTokens' \union Gone' \subseteq 1..issued',
           Gone' \intersect WaitingTokens' = {}
    PROVE  Stages' /\ Distinct(taken')
  <1>1. Tokens(taken') = {} /\ Unsent' = {}
    BY NothingStored DEF Unsent
  <1> QED
    BY <1>1, NothingStored DEF Stages

LEMMA TrapStages ==
    ASSUME phase' = "trapped", taken' = taken, Stages, WaitingTokens' = WaitingTokens,
           SentTokens' \union Gone' \subseteq 1..issued', 1..issued \subseteq 1..issued',
           Gone' \intersect (WaitingTokens \union Tokens(taken)) = {}
    PROVE  Stages'
  <1>1. Unsent' = {}
    BY DEF Unsent
  <1> QED
    BY <1>1 DEF Stages

-----------------------------------------------------------------------------
(***************************************************************************)
(* The calls of the capture api.                                           *)
(***************************************************************************)
LEMMA CallTokens ==
    ASSUME TypeOK, TokensInv, CallCapture
    PROVE  TokensInv'
  <1>1. /\ phase = "idle" /\ taken = NoEntries /\ Tokens(taken) = {} /\ issued \in Nat
        /\ Apart(stack) /\ SentAtMostOnce /\ Stages
        /\ WaitingTokens \subseteq 1..issued /\ SentTokens \subseteq 1..issued
        /\ Gone \subseteq 1..issued /\ Gone \intersect WaitingTokens = {}
        /\ SentTokens \intersect Gone = {} /\ SentTokens \intersect WaitingTokens = {}
    <2>1. phase = "idle"
      BY DEF CallCapture, StartCapture, DiscardCapture, CreateLocal, Change, PassThrough, MayCapture,
         MayRequest, PassThroughTraps, ApplyNothing, ApplyCapture
    <2> QED
      BY <2>1, NothingStored DEF TokensInv, Stages, SentAtMostOnce, TypeOK
  <1>2. ASSUME NEW op \in Operations, NEW e \in Entries, e.tok = issued + 1,
               stack # <<>>, Capture(op, e)
        PROVE  TokensInv'
    <2>1. /\ stack' = [stack EXCEPT ![Len(stack)][op] = Append(@, e)] /\ issued' = issued + 1
          /\ UNCHANGED <<phase, taken, Gone, wire>>
      BY <1>2 DEF Capture, Gone, applyVars, serviceVars
    <2>2. issued + 1 \notin 1..issued /\ 1..issued' = 1..issued \union {issued + 1}
      BY <1>1, <2>1
    <2>3. Apart(stack') /\ WaitingTokens' = WaitingTokens \union {issued + 1}
      BY <1>1, <1>2, <2>1, <2>2, StoreInTop
    <2>4. SentAtMostOnce' /\ SentTokens' = SentTokens
      BY <1>1, <2>1, <2>2, <2>3, SameSentOnce
    <2>5. Stages' /\ Distinct(taken')
      BY <1>1, <2>1, <2>2, <2>3, <2>4, IdleStages
    <2> QED
      BY <2>3, <2>4, <2>5 DEF TokensInv
  <1>3. ASSUME NEW m \in Models, NEW ref \in MayRefer, CreateLocal(m, ref) PROVE TokensInv'
    <2> DEFINE e == [tok |-> issued + 1, model |-> m,
                     id |-> [num |-> NextLocal, of |-> issued + 1], ref |-> ref]
    <2>1. stack # <<>> /\ Capture("create", e) /\ issued + 1 \in Mutations
      BY <1>1, <1>3 DEF CreateLocal, MayCapture, MayRequest, Mutations
    <2>2. e \in Entries
      <3>1. ref \in Names
        BY CallNames
      <3>2. [num |-> NextLocal, of |-> issued + 1] \in Names
        BY <2>1, LenProperties DEF Names, NextLocal, Mutations, TypeOK
      <3> QED
        BY <2>1, <3>1, <3>2 DEF Entries
    <2>3. e.tok = issued + 1 /\ "create" \in Operations
      BY DEF Operations
    <2> HIDE DEF e
    <2> QED
      BY <1>2, <2>1, <2>2, <2>3
  <1>4. ASSUME NEW op \in Operations, NEW m \in Models, NEW id \in RealNames \union held,
               NEW ref \in MayRefer, Change(op, m, id, ref)
        PROVE  TokensInv'
    <2> DEFINE e == [tok |-> issued + 1, model |-> m, id |-> id, ref |-> ref]
    <2>1. stack # <<>> /\ Capture(op, e) /\ issued + 1 \in Mutations
      BY <1>1, <1>4 DEF Change, MayCapture, MayRequest, Mutations
    <2>2. e \in Entries
      BY <2>1, CallNames, NamedMay DEF Entries
    <2>3. e.tok = issued + 1
      OBVIOUS
    <2> HIDE DEF e
    <2> QED
      BY <1>2, <2>1, <2>2, <2>3
  <1>5. ASSUME NEW m \in Models, NEW id \in MayName, PassThrough(m, id) \/ PassThroughTraps(m, id)
        PROVE  TokensInv'
    <2>1. /\ issued' = issued + 1 /\ UNCHANGED <<stack, taken>> /\ issued + 1 \in Mutations
          /\ phase' \in {"idle", "trapped"}
          /\ \/ Execute(RawRequest(m, id)) /\ Gone' = Gone
             \/ wire' = wire /\ Gone' = Gone \union {issued + 1}
      BY <1>1, <1>5 DEF PassThrough, PassThroughTraps, PassedOn, NotExecuted, Gone, MayRequest,
         captureData, applyVars, serviceVars, Mutations
    <2>2. /\ RawRequest(m, id) \in Requests
          /\ {x.tok : x \in RawRequest(m, id).inputs} = {issued + 1}
          /\ \A a, b \in RawRequest(m, id).inputs : a.tok = b.tok => a = b
      BY <2>1, RawType, CallNames
    <2>3. issued + 1 \notin 1..issued /\ 1..issued' = 1..issued \union {issued + 1}
      BY <1>1, <2>1
    <2>4. WaitingTokens' = WaitingTokens
      BY <2>1 DEF WaitingTokens
    <2>5. /\ SentAtMostOnce' /\ SentTokens' \union Gone' \subseteq 1..issued'
          /\ Gone' \intersect WaitingTokens = {}
      <3>1. CASE Execute(RawRequest(m, id)) /\ Gone' = Gone
        <4> DEFINE r == RawRequest(m, id)
        <4> HIDE DEF r
        <4>2. r \in Requests /\ Execute(r) /\ \A a, b \in r.inputs : a.tok = b.tok => a = b
          BY <2>2, <3>1 DEF r
        <4>3. {e.tok : e \in r.inputs} = {issued + 1} /\ (Gone' \ Gone) = {}
          BY <2>2, <3>1 DEF r
        <4>4. {e.tok : e \in r.inputs} \intersect (SentTokens \union Gone \union WaitingTokens) = {}
          BY <1>1, <2>3, <4>3
        <4>1. SentAtMostOnce' /\ SentTokens' = SentTokens \union {issued + 1}
          BY <1>1, <2>4, <4>2, <4>3, <4>4, NewSentOnce
        <4> QED
          BY <1>1, <2>3, <3>1, <4>1
      <3>2. CASE wire' = wire /\ Gone' = Gone \union {issued + 1}
        <4>1. SentAtMostOnce' /\ SentTokens' = SentTokens
          BY <1>1, <2>3, <2>4, <3>2, SameSentOnce
        <4> QED
          BY <1>1, <2>3, <3>2, <4>1
      <3> QED
        BY <2>1, <3>1, <3>2
    <2>6. Stages'
      <3>1. CASE phase' = "idle"
        BY <1>1, <2>1, <2>3, <2>4, <2>5, <3>1, IdleStages
      <3>2. CASE phase' = "trapped"
        BY <1>1, <2>1, <2>3, <2>4, <2>5, <3>2, TrapStages
      <3> QED
        BY <2>1, <3>1, <3>2
    <2> QED
      BY <1>1, <2>1, <2>5, <2>6, NothingStored DEF TokensInv
  <1>7. CASE StartCapture
    <2>1. stack' = Append(stack, NoEntries) /\ UNCHANGED <<phase, taken, Gone, issued, wire>>
      BY <1>7 DEF StartCapture, Gone, applyVars, callerVars, serviceVars
    <2>2. Apart(stack') /\ WaitingTokens' = WaitingTokens
      BY <1>1, <2>1, PushApart
    <2>3. SentAtMostOnce' /\ SentTokens' = SentTokens
      BY <1>1, <2>1, <2>2, SameSentOnce
    <2>4. Stages' /\ Distinct(taken')
      BY <1>1, <2>1, <2>2, <2>3, IdleStages
    <2> QED
      BY <2>2, <2>3, <2>4 DEF TokensInv
  <1>8. CASE DiscardCapture
    <2>1. /\ stack # <<>> /\ stack' = Front(stack) /\ Gone' = Gone \union Tokens(Last(stack))
          /\ UNCHANGED <<phase, taken, issued, wire>>
      BY <1>8 DEF DiscardCapture, Gone, applyVars, serviceVars
    <2>2. /\ Apart(stack') /\ WaitingTokens = WaitingTokens' \union Tokens(Last(stack))
          /\ WaitingTokens' \intersect Tokens(Last(stack)) = {}
      BY <1>1, <2>1, PopApart
    <2>3. SentAtMostOnce' /\ SentTokens' = SentTokens
      BY <1>1, <2>1, <2>2, SameSentOnce
    <2>4. Stages' /\ Distinct(taken')
      BY <1>1, <2>1, <2>2, <2>3, IdleStages
    <2> QED
      BY <2>2, <2>3, <2>4 DEF TokensInv
  <1>9. CASE ApplyCapture
    <2>1. /\ stack # <<>> /\ stack' = Front(stack) /\ taken' = Last(stack) /\ phase' = "reserve"
          /\ UNCHANGED <<Gone, issued, wire>>
      BY <1>9 DEF ApplyCapture, Gone, callerVars, serviceVars
    <2>2. /\ Apart(stack') /\ Distinct(Last(stack))
          /\ WaitingTokens = WaitingTokens' \union Tokens(Last(stack))
          /\ WaitingTokens' \intersect Tokens(Last(stack)) = {}
      BY <1>1, <2>1, PopApart
    <2>3. SentAtMostOnce' /\ SentTokens' = SentTokens
      BY <1>1, <2>1, <2>2, SameSentOnce
    <2>4. Unsent' = Tokens(taken')
      BY <2>1 DEF Unsent
    <2>5. Stages'
      BY <1>1, <2>1, <2>2, <2>3, <2>4 DEF Stages
    <2> QED
      BY <2>1, <2>2, <2>3, <2>5 DEF TokensInv
  <1>10. CASE ApplyNothing
    <2>1. UNCHANGED <<stack, phase, taken, Gone, issued, wire>>
      BY <1>10 DEF ApplyNothing, Gone, captureData, applyVars, callerVars, serviceVars
    <2>2. WaitingTokens' = WaitingTokens
      BY <2>1 DEF WaitingTokens
    <2>3. SentAtMostOnce' /\ SentTokens' = SentTokens
      BY <1>1, <2>1, <2>2, SameSentOnce
    <2>4. Stages' /\ Distinct(taken')
      BY <1>1, <2>1, <2>2, <2>3, IdleStages
    <2> QED
      BY <1>1, <2>1, <2>3, <2>4 DEF TokensInv
  <1>11. NoName \in MayRefer
    BY DEF MayRefer
  <1> QED
    BY <1>3, <1>4, <1>5, <1>7, <1>8, <1>9, <1>10, <1>11 DEF CallCapture, MayName, Operations

-----------------------------------------------------------------------------
(***************************************************************************)
(* The steps of an apply.                                                  *)
(***************************************************************************)
LEMMA UpsertPlaces ==
    ASSUME TypeOK
    PROVE  /\ \A i \in DOMAIN Upserts :
                \E op \in {"create", "update"} : \E j \in DOMAIN taken[op] :
                    Upserts[i] = taken[op][j] /\ i = j + (IF op = "create" THEN 0 ELSE Len(taken["create"]))
           /\ \A op \in {"create", "update"} : \A j \in DOMAIN taken[op] :
                \E i \in DOMAIN Upserts : Upserts[i] = taken[op][j]
           /\ \A op \in Operations : \A j \in DOMAIN taken[op] : taken[op][j] \in Entries
  <1> DEFINE c == taken["create"]
             u == taken["update"]
             n == Len(c)
  <1>1. c \in Seq(Entries) /\ u \in Seq(Entries) /\ \A op \in Operations : taken[op] \in Seq(Entries)
    BY DEF TypeOK, Captures, Operations
  <1>2. Upserts = c \o u
    BY DEF Upserts
  <1>3. \A op \in Operations : \A j \in DOMAIN taken[op] : taken[op][j] \in Entries
    BY <1>1, ElementOfSeq, LenProperties
  <1> HIDE DEF c, u
  <1>4. /\ n \in Nat /\ Len(u) \in Nat /\ DOMAIN c = 1..n /\ DOMAIN u = 1..Len(u)
        /\ DOMAIN Upserts = 1..(n + Len(u))
        /\ \A i \in 1..(n + Len(u)) : Upserts[i] = IF i <= n THEN c[i] ELSE u[i - n]
    BY <1>1, <1>2, ConcatProperties, LenProperties
  <1> HIDE DEF n
  <1>5. ASSUME NEW i \in DOMAIN Upserts
        PROVE  \/ i \in DOMAIN c /\ Upserts[i] = c[i] /\ i = i + 0
               \/ i - n \in DOMAIN u /\ Upserts[i] = u[i - n] /\ i = (i - n) + n
    BY <1>4
  <1>6. \A j \in DOMAIN c : j \in DOMAIN Upserts /\ Upserts[j] = c[j]
    BY <1>4
  <1>7. ASSUME NEW j \in DOMAIN u PROVE n + j \in DOMAIN Upserts /\ Upserts[n + j] = u[j]
    <2>1. n + j \in 1..(n + Len(u)) /\ ~(n + j <= n) /\ (n + j) - n = j
      BY <1>4
    <2> QED
      BY <1>4, <2>1
  <1>8. ASSUME NEW i \in DOMAIN Upserts
        PROVE  \E op \in {"create", "update"} : \E j \in DOMAIN taken[op] :
                   Upserts[i] = taken[op][j] /\ i = j + (IF op = "create" THEN 0 ELSE Len(taken["create"]))
    <2>1. CASE i \in DOMAIN c /\ Upserts[i] = c[i] /\ i = i + 0
      BY <2>1 DEF c
    <2>2. CASE i - n \in DOMAIN u /\ Upserts[i] = u[i - n] /\ i = (i - n) + n
      BY <2>2 DEF c, u, n
    <2> QED
      BY <1>5, <2>1, <2>2
  <1>9. ASSUME NEW op \in {"create", "update"}, NEW j \in DOMAIN taken[op]
        PROVE  \E i \in DOMAIN Upserts : Upserts[i] = taken[op][j]
    BY <1>6, <1>7 DEF c, u
  <1> QED
    BY <1>3, <1>8, <1>9

\* No two mutations to be sent are the same.
LEMMA UpsertsApart ==
    ASSUME TypeOK, Distinct(taken)
    PROVE  /\ \A i, j \in DOMAIN Upserts : Upserts[i].tok = Upserts[j].tok => i = j
           /\ \A i \in DOMAIN Upserts, j \in DOMAIN taken["delete"] :
                Upserts[i].tok # taken["delete"][j].tok
           /\ Tokens(taken) = TokensAt(Upserts, DOMAIN Upserts)
                              \union TokensAt(taken["delete"], DOMAIN taken["delete"])
  <1>1. ASSUME NEW i \in DOMAIN Upserts, NEW j \in DOMAIN Upserts, Upserts[i].tok = Upserts[j].tok
        PROVE  i = j
    <2>1. PICK op \in {"create", "update"} : \E k \in DOMAIN taken[op] :
              Upserts[i] = taken[op][k] /\ i = k + (IF op = "create" THEN 0 ELSE Len(taken["create"]))
      BY UpsertPlaces
    <2>2. PICK k \in DOMAIN taken[op] :
              Upserts[i] = taken[op][k] /\ i = k + (IF op = "create" THEN 0 ELSE Len(taken["create"]))
      BY <2>1
    <2>3. PICK q \in {"create", "update"} : \E l \in DOMAIN taken[q] :
              Upserts[j] = taken[q][l] /\ j = l + (IF q = "create" THEN 0 ELSE Len(taken["create"]))
      BY UpsertPlaces
    <2>4. PICK l \in DOMAIN taken[q] :
              Upserts[j] = taken[q][l] /\ j = l + (IF q = "create" THEN 0 ELSE Len(taken["create"]))
      BY <2>3
    <2>5. op = q /\ k = l
      BY <1>1, <2>2, <2>4 DEF Distinct, Operations
    <2> QED
      BY <2>2, <2>4, <2>5
  <1>2. ASSUME NEW i \in DOMAIN Upserts, NEW j \in DOMAIN taken["delete"]
        PROVE  Upserts[i].tok # taken["delete"][j].tok
    <2>1. PICK op \in {"create", "update"} : \E k \in DOMAIN taken[op] : Upserts[i] = taken[op][k]
      BY UpsertPlaces
    <2> QED
      BY <2>1 DEF Distinct, Operations
  <1>3. ASSUME NEW x \in Tokens(taken)
        PROVE  x \in TokensAt(Upserts, DOMAIN Upserts)
                    \union TokensAt(taken["delete"], DOMAIN taken["delete"])
    <2>1. PICK op \in Operations : \E j \in DOMAIN taken[op] : x = taken[op][j].tok
      BY TokenPlace
    <2>2. PICK j \in DOMAIN taken[op] : x = taken[op][j].tok
      BY <2>1
    <2>3. CASE op = "delete"
      BY <2>2, <2>3 DEF TokensAt
    <2>4. CASE op \in {"create", "update"}
      <3>1. PICK i \in DOMAIN Upserts : Upserts[i] = taken[op][j]
        BY <2>4, UpsertPlaces
      <3> QED
        BY <2>2, <3>1 DEF TokensAt
    <2> QED
      BY <2>3, <2>4 DEF Operations
  <1>4. ASSUME NEW i \in DOMAIN Upserts PROVE Upserts[i].tok \in Tokens(taken)
    <2>1. PICK op \in {"create", "update"} : \E k \in DOMAIN taken[op] : Upserts[i] = taken[op][k]
      BY UpsertPlaces
    <2>2. op \in Operations /\ \E k \in DOMAIN taken[op] : Upserts[i].tok = taken[op][k].tok
      BY <2>1 DEF Operations
    <2> QED
      BY <2>2, TokenPlace
  <1>5. ASSUME NEW j \in DOMAIN taken["delete"] PROVE taken["delete"][j].tok \in Tokens(taken)
    BY TokenPlace DEF Operations
  <1> QED
    BY <1>1, <1>2, <1>3, <1>4, <1>5 DEF TokensAt

\* A chunk is what is still to be sent, all of it once.
LEMMA ChunkTokens ==
    ASSUME TypeInv, TokensInv, NEW m \in Models, Turn(m)
    PROVE  /\ Request(m) \in Requests
           /\ {e.tok : e \in Request(m).inputs} = TokensAt(Batch, Chunk(m))
           /\ \A a, b \in Request(m).inputs : a.tok = b.tok => a = b
           /\ TokensAt(Batch, Chunk(m)) \subseteq Unsent
           /\ TokensAt(Batch, Chunk(m)) \subseteq Tokens(taken)
           /\ Chunk(m) \subseteq todo
           /\ \A i, j \in DOMAIN Batch : Batch[i].tok = Batch[j].tok => i = j
  <1>1. /\ TypeOK /\ Distinct(taken) /\ phase \in {"upsert", "delete"} /\ todo \subseteq DOMAIN Batch
        /\ Chunk(m) \subseteq todo /\ Request(m).inputs = {Resolved(Batch[i]) : i \in Chunk(m)}
    BY DEF TypeInv, TokensInv, Stages, Turn, Chunk, Request
  <1>2. Request(m) \in Requests
    BY <1>1, RequestType
  <1>3. \A i, j \in DOMAIN Batch : Batch[i].tok = Batch[j].tok => i = j
    <2>1. CASE phase = "delete"
      BY <1>1, <2>1 DEF Batch, Distinct, Operations
    <2>2. CASE phase # "delete"
      BY <1>1, <2>2, UpsertsApart DEF Batch
    <2> QED
      BY <2>1, <2>2
  <1>4. \A i \in DOMAIN Batch : Batch[i] \in Entries
    <2>1. CASE phase = "delete"
      BY <1>1, <2>1, UpsertPlaces DEF Batch, Operations
    <2>2. CASE phase # "delete"
      <3> SUFFICES ASSUME NEW i \in DOMAIN Upserts PROVE Upserts[i] \in Entries
        BY <2>2 DEF Batch
      <3>1. PICK op \in {"create", "update"} : \E j \in DOMAIN taken[op] : Upserts[i] = taken[op][j]
        BY <1>1, UpsertPlaces
      <3> QED
        BY <1>1, <3>1, UpsertPlaces DEF Operations
    <2> QED
      BY <2>1, <2>2
  <1>5. \A i \in Chunk(m) : Resolved(Batch[i]).tok = Batch[i].tok
    BY <1>1, <1>4 DEF Resolved, Entries
  <1>6. {e.tok : e \in Request(m).inputs} = TokensAt(Batch, Chunk(m))
    BY <1>1, <1>5 DEF TokensAt
  <1>7. \A a, b \in Request(m).inputs : a.tok = b.tok => a = b
    BY <1>1, <1>3, <1>5
  <1>8. TokensAt(Batch, Chunk(m)) \subseteq Unsent /\ TokensAt(Batch, Chunk(m)) \subseteq Tokens(taken)
    <2>1. CASE phase = "delete"
      <3>1. Batch = taken["delete"] /\ Unsent = TokensAt(taken["delete"], todo)
        BY <2>1 DEF Batch, Unsent
      <3>2. \A i \in todo : taken["delete"][i].tok \in Tokens(taken)
        BY <1>1, <3>1, TokenPlace DEF Operations
      <3> QED
        BY <1>1, <3>1, <3>2 DEF TokensAt
    <2>2. CASE phase = "upsert"
      <3>1. Batch = Upserts /\ TokensAt(Upserts, todo) \subseteq Unsent
        BY <2>2 DEF Batch, Unsent
      <3>2. TokensAt(Upserts, DOMAIN Upserts) \subseteq Tokens(taken)
        BY <1>1, UpsertsApart
      <3> QED
        BY <1>1, <3>1, <3>2 DEF TokensAt
    <2> QED
      BY <1>1, <2>1, <2>2
  <1> QED
    BY <1>1, <1>2, <1>3, <1>6, <1>7, <1>8

LEMMA ChunkSentOnce ==
    ASSUME TypeInv, TokensInv, NEW m \in Models, Turn(m), Execute(Request(m)),
           stack' = stack, (Gone' \ Gone) \intersect SentTokens' = {}
    PROVE  /\ SentAtMostOnce' /\ SentTokens' = SentTokens \union TokensAt(Batch, Chunk(m))
           /\ SentTokens' \subseteq 1..issued
  <1> DEFINE new == TokensAt(Batch, Chunk(m))
  <1>1. /\ TypeOK /\ SentAtMostOnce /\ Stages /\ WaitingTokens' = WaitingTokens
        /\ new \subseteq Unsent /\ new \subseteq Tokens(taken)
    BY ChunkTokens DEF TypeInv, TokensInv, WaitingTokens
  <1>2. Request(m) \in Requests /\ {e.tok : e \in Request(m).inputs} = new
        /\ \A a, b \in Request(m).inputs : a.tok = b.tok => a = b
    BY ChunkTokens
  <1> HIDE DEF new
  <1>3. new \intersect (SentTokens \union Gone \union WaitingTokens) = {}
    BY <1>1 DEF Stages
  <1>4. SentAtMostOnce' /\ SentTokens' = SentTokens \union new
    BY <1>1, <1>2, <1>3, NewSentOnce
  <1> QED
    BY <1>1, <1>4 DEF Stages, new

\* After a chunk the rest is still to be sent.
LEMMA SendTokens ==
    ASSUME TypeInv, TokensInv, NEW m \in Models, Send(m)
    PROVE  TokensInv'
  <1> DEFINE new == TokensAt(Batch, Chunk(m))
  <1>1. /\ TypeOK /\ Stages /\ Distinct(taken) /\ Turn(m) /\ phase \in {"upsert", "delete"}
        /\ todo' = todo \ Chunk(m) /\ Execute(Request(m))
        /\ UNCHANGED <<stack, phase, taken, Gone, issued>>
    BY DEF TypeInv, TokensInv, Send, Turn, Gone, captureData, callerVars
  <1>2. SentAtMostOnce' /\ SentTokens' = SentTokens \union new /\ SentTokens' \subseteq 1..issued
    BY <1>1, ChunkSentOnce
  <1>3. /\ new \subseteq Unsent /\ Chunk(m) \subseteq todo /\ todo \subseteq DOMAIN Batch
        /\ \A i, j \in DOMAIN Batch : Batch[i].tok = Batch[j].tok => i = j
    BY <1>1, ChunkTokens DEF Stages
  <1>4. WaitingTokens' = WaitingTokens /\ Batch' = Batch
    BY <1>1 DEF WaitingTokens, Batch, Upserts
  <1>5. /\ TokensAt(Batch, todo) = TokensAt(Batch, todo') \union new
        /\ TokensAt(Batch, todo') \intersect new = {}
    <2>1. \A i \in todo : i \in todo' \/ i \in Chunk(m)
      BY <1>1
    <2>2. \A i \in todo' : i \in todo /\ i \notin Chunk(m)
      BY <1>1
    <2> QED
      BY <1>3, <2>1, <2>2 DEF TokensAt
  <1> HIDE DEF new
  <1>6. Unsent = Unsent' \union new /\ Unsent' \intersect new = {}
    <2>1. CASE phase = "delete"
      <3>1. Unsent = TokensAt(Batch, todo) /\ Unsent' = TokensAt(Batch, todo')
        BY <1>1, <2>1 DEF Unsent, Batch
      <3> QED
        BY <1>5, <3>1
    <2>2. CASE phase = "upsert"
      <3> DEFINE later == TokensAt(taken["delete"], DOMAIN taken["delete"])
      <3>1. /\ Unsent = TokensAt(Batch, todo) \union later /\ Unsent' = TokensAt(Batch, todo') \union later
            /\ Batch = Upserts
        BY <1>1, <2>2 DEF Unsent, Batch, Upserts
      <3>2. TokensAt(Batch, Chunk(m)) \intersect later = {}
        BY <1>1, <1>3, <3>1, UpsertsApart DEF TokensAt
      <3> HIDE DEF later
      <3> QED
        BY <1>5, <3>1, <3>2 DEF new
    <2> QED
      BY <1>1, <2>1, <2>2
  <1>7. Stages'
    BY <1>1, <1>2, <1>3, <1>4, <1>6 DEF Stages
  <1> QED
    BY <1>1, <1>2, <1>7 DEF TokensInv

\* What an apply that returns has taken is sent or gone.
LEMMA ReturnGone ==
    ASSUME NEW r, ApplyReturns(r)
    PROVE  /\ phase' = "idle" /\ taken' = NoEntries /\ issued' = issued
           /\ Gone' \subseteq Gone \union (Tokens(taken) \ SentTokens')
  BY DEF ApplyReturns, ApplyOver, Gone

LEMMA ReturnTokens ==
    ASSUME TokensInv, NEW r, ApplyReturns(r), Apart(stack'), WaitingTokens' \subseteq WaitingTokens,
           SentAtMostOnce', SentTokens' \subseteq 1..issued
    PROVE  TokensInv'
  <1>1. /\ phase' = "idle" /\ taken' = NoEntries /\ issued' = issued
        /\ Gone' \subseteq Gone \union Tokens(taken)
    BY ReturnGone
  <1>2. Stages' /\ Distinct(taken')
    BY <1>1, IdleStages DEF TokensInv, Stages
  <1> QED
    BY <1>2 DEF TokensInv

\* A trap leaves everything as it was but what was sent.
LEMMA TrapTokens ==
    ASSUME TokensInv, Traps, SentAtMostOnce', SentTokens' \subseteq 1..issued
    PROVE  TokensInv'
  <1>1. phase' = "trapped" /\ UNCHANGED <<stack, taken, issued, Gone>>
    BY DEF Traps, Gone, captureData, applyVars, callerVars
  <1>2. WaitingTokens' = WaitingTokens
    BY <1>1 DEF WaitingTokens
  <1>3. Stages'
    BY <1>1, <1>2, TrapStages DEF TokensInv, Stages
  <1> QED
    BY <1>1, <1>3 DEF TokensInv

LEMMA ApplyTokens ==
    ASSUME TypeInv, TokensInv, RunApply
    PROVE  TokensInv'
  <1>1. /\ TypeOK /\ Apart(stack) /\ Distinct(taken) /\ Stages /\ SentAtMostOnce
        /\ SentTokens \subseteq 1..issued
    BY DEF TypeInv, TokensInv, Stages
  <1>2. ASSUME UNCHANGED <<stack, wire>>, (Gone' \ Gone) \intersect SentTokens' = {}
        PROVE  SentAtMostOnce' /\ SentTokens' = SentTokens /\ WaitingTokens' = WaitingTokens
    <2>1. WaitingTokens' = WaitingTokens
      BY <1>2 DEF WaitingTokens
    <2>2. SentTokens' = SentTokens
      BY <1>2 DEF SentTokens, Sent
    <2> QED
      BY <1>1, <1>2, <2>1, <2>2, SameSentOnce DEF SentAtMostOnce
  <1>3. ASSUME NEW m \in Models, Turn(m), stack' = stack, (Gone' \ Gone) \intersect SentTokens' = {},
               UNCHANGED serviceVars \/ Execute(Request(m))
        PROVE  SentAtMostOnce' /\ SentTokens' \subseteq 1..issued /\ WaitingTokens' = WaitingTokens
    <2>1. WaitingTokens' = WaitingTokens
      BY <1>3 DEF WaitingTokens
    <2>2. CASE UNCHANGED serviceVars
      BY <1>1, <1>2, <1>3, <2>2 DEF serviceVars
    <2>3. CASE Execute(Request(m))
      BY <1>3, <2>1, <2>3, ChunkSentOnce
    <2> QED
      BY <1>3, <2>1, <2>2, <2>3
  <1>4. ASSUME phase' = phase, UNCHANGED <<stack, taken, todo, Gone, issued, wire>> PROVE TokensInv'
    <2>1. Unsent' = Unsent /\ Batch' = Batch
      BY <1>4 DEF Unsent, Upserts, Batch
    <2>2. Stages'
      BY <1>1, <1>2, <1>4, <2>1 DEF Stages
    <2> QED
      BY <1>1, <1>2, <1>4, <2>2 DEF TokensInv
  <1>5. ASSUME NEW m \in Models, ReserveIds(m) \/ ReserveMiscounts(m) PROVE TokensInv'
    BY <1>4, <1>5 DEF ReserveIds, ReserveMiscounts, Reserve, Gone, captureData, callerVars
  <1>6. ASSUME NEW m \in Models, ReserveFails(m) PROVE TokensInv'
    <2>1. UNCHANGED <<stack, wire>> /\ ApplyReturns("err") /\ (Gone' \ Gone) \intersect SentTokens' = {}
      BY <1>6, ReturnGone DEF ReserveFails, Reserve, captureData, serviceVars
    <2> QED
      BY <1>1, <1>2, <2>1, ReturnTokens
  <1>7. ASSUME NEW m \in Models, ReserveTraps(m) PROVE TokensInv'
    <2>1. UNCHANGED <<stack, Gone, wire>> /\ Traps
      BY <1>7 DEF ReserveTraps, Reserve, Traps, Gone, captureData, callerVars, serviceVars
    <2> QED
      BY <1>1, <1>2, <2>1, TrapTokens
  <1>8. ASSUME NEW m \in Models, SendFails(m) PROVE TokensInv'
    <2>1. /\ Turn(m) /\ stack' = stack /\ ApplyReturns("err") /\ (Gone' \ Gone) \intersect SentTokens' = {}
          /\ UNCHANGED serviceVars \/ Execute(Request(m))
      BY <1>8, ReturnGone DEF SendFails, captureData
    <2> QED
      BY <1>1, <1>3, <2>1, ReturnTokens
  <1>9. ASSUME NEW m \in Models, SendTraps(m) PROVE TokensInv'
    <2>1. /\ Turn(m) /\ UNCHANGED <<stack, Gone>> /\ Traps
          /\ UNCHANGED serviceVars \/ Execute(Request(m))
      BY <1>9 DEF SendTraps, Traps, Gone, captureData, callerVars
    <2> QED
      BY <1>3, <2>1, TrapTokens
  <1>10. CASE AssignIds
    <2>1. /\ phase = "reserve" /\ UNCHANGED <<stack, taken, Gone, issued, wire>>
          /\ \/ phase' = "upsert" /\ todo' = DOMAIN Upserts
             \/ phase' = "trapped"
      BY <1>10 DEF AssignIds, AllAnswered, Gone, callerVars, serviceVars
    <2>2. SentAtMostOnce' /\ SentTokens' = SentTokens /\ WaitingTokens' = WaitingTokens
      BY <1>2, <2>1
    <2>3. CASE phase' = "upsert" /\ todo' = DOMAIN Upserts
      <3>1. Batch' = Upserts /\ Unsent = Tokens(taken) /\ Unsent' = Tokens(taken)
        BY <1>1, <2>1, <2>3, UpsertsApart DEF Batch, Unsent, Upserts
      <3>2. Stages'
        BY <1>1, <2>1, <2>2, <2>3, <3>1 DEF Stages
      <3> QED
        BY <1>1, <2>1, <2>2, <3>2 DEF TokensInv
    <2>4. CASE phase' = "trapped"
      <3>1. Stages'
        BY <1>1, <2>1, <2>2, <2>4, TrapStages DEF Stages
      <3> QED
        BY <1>1, <2>1, <2>2, <3>1 DEF TokensInv
    <2> QED
      BY <2>1, <2>3, <2>4
  <1>11. CASE AssignFails
    <2>1. UNCHANGED <<stack, wire>> /\ ApplyReturns("err") /\ (Gone' \ Gone) \intersect SentTokens' = {}
      BY <1>11, ReturnGone DEF AssignFails, serviceVars
    <2> QED
      BY <1>1, <1>2, <2>1, ReturnTokens
  <1>12. CASE PrepareDeletes
    <2>1. /\ phase = "upsert" /\ todo = {} /\ UNCHANGED <<stack, taken, Gone, issued, wire>>
          /\ \/ phase' = "delete" /\ todo' = DOMAIN taken["delete"]
             \/ phase' = "trapped"
      BY <1>12 DEF PrepareDeletes, Gone, captureData, callerVars, serviceVars
    <2>2. SentAtMostOnce' /\ SentTokens' = SentTokens /\ WaitingTokens' = WaitingTokens
      BY <1>2, <2>1
    <2>3. CASE phase' = "delete" /\ todo' = DOMAIN taken["delete"]
      <3>1. Batch' = taken["delete"] /\ Unsent' = Unsent
        BY <2>1, <2>3 DEF Batch, Unsent, TokensAt
      <3>2. Stages'
        BY <1>1, <2>1, <2>2, <2>3, <3>1 DEF Stages
      <3> QED
        BY <1>1, <2>1, <2>2, <3>2 DEF TokensInv
    <2>4. CASE phase' = "trapped"
      <3>1. Stages'
        BY <1>1, <2>1, <2>2, <2>4, TrapStages DEF Stages
      <3> QED
        BY <1>1, <2>1, <2>2, <3>1 DEF TokensInv
    <2> QED
      BY <2>1, <2>3, <2>4
  <1>13. CASE ApplyDone
    <2>1. UNCHANGED <<stack, wire>> /\ ApplyReturns("ok") /\ (Gone' \ Gone) \intersect SentTokens' = {}
      BY <1>13, ReturnGone DEF ApplyDone, captureData, serviceVars
    <2> QED
      BY <1>1, <1>2, <2>1, ReturnTokens
  <1>14. ASSUME NEW m \in Models, Send(m) PROVE TokensInv'
    BY <1>14, SendTokens
  <1> QED
    BY <1>5, <1>6, <1>7, <1>8, <1>9, <1>10, <1>11, <1>12, <1>13, <1>14 DEF RunApply

LEMMA TokensInit == Init => TokensInv
  <1> SUFFICES ASSUME Init PROVE TokensInv
    OBVIOUS
  <1>1. /\ stack = <<>> /\ taken = NoEntries /\ phase = "idle" /\ wire = <<>> /\ Gone = {}
    BY DEF Init, ServiceInit, Gone
  <1>2. WaitingTokens = {} /\ SentTokens = {} /\ Unsent = {}
    BY <1>1 DEF WaitingTokens, SentTokens, Sent, ToSet, Unsent
  <1>3. Apart(stack) /\ SentAtMostOnce
    BY <1>1, <1>2 DEF Apart, SentAtMostOnce
  <1>4. Stages
    BY <1>1, <1>2, NothingStored DEF Stages
  <1> QED
    BY <1>1, <1>3, <1>4, NothingStored DEF TokensInv

LEMMA TokensStep ==
    ASSUME TypeInv, TokensInv, [Next]_vars
    PROVE  TokensInv'
  <1>1. CASE CallCapture
    BY <1>1, CallTokens DEF TypeInv
  <1>2. CASE RunApply
    BY <1>2, ApplyTokens
  <1>3. CASE Reinstantiate
    <2>1. /\ stack' = <<>> /\ phase' = "idle" /\ taken' = NoEntries /\ UNCHANGED <<issued, wire>>
          /\ Gone' = Gone \union WaitingTokens \union (Tokens(taken) \ SentTokens)
      BY <1>3 DEF Reinstantiate, ApplyOver, Gone, serviceVars
    <2>2. WaitingTokens' = {} /\ Apart(stack')
      BY <2>1 DEF WaitingTokens, ToSet, Apart
    <2>3. SentAtMostOnce' /\ SentTokens' = SentTokens
      BY <2>1, <2>2, SameSentOnce DEF TokensInv, SentAtMostOnce
    <2>4. Stages' /\ Distinct(taken')
      BY <2>1, <2>2, <2>3, IdleStages DEF TokensInv, Stages
    <2> QED
      BY <2>2, <2>3, <2>4 DEF TokensInv
  <1>4. CASE UNCHANGED vars
    <2>1. UNCHANGED <<stack, phase, taken, todo, Gone, issued, wire>>
      BY <1>4 DEF vars, Gone, captureData, applyVars, callerVars, serviceVars
    <2>2. WaitingTokens' = WaitingTokens /\ Unsent' = Unsent /\ Batch' = Batch
      BY <2>1 DEF WaitingTokens, Unsent, Upserts, Batch
    <2>3. SentAtMostOnce' /\ SentTokens' = SentTokens
      BY <2>1, <2>2, SameSentOnce DEF TokensInv, SentAtMostOnce
    <2>4. Stages'
      BY <2>1, <2>2, <2>3 DEF TokensInv, Stages
    <2> QED
      BY <2>1, <2>3, <2>4 DEF TokensInv
  <1> QED
    BY <1>1, <1>2, <1>3, <1>4 DEF Next

\* No mutation reaches the service twice or after it was discarded, whichever
\* requests are refused, lost or miscounted and however the caller goes on.
THEOREM AtMostOnce == Spec => []SentAtMostOnce
  <1>1. TypeInv /\ TokensInv /\ [Next]_vars => TypeInv' /\ TokensInv'
    BY TypeStep, TokensStep
  <1>2. TokensInv => SentAtMostOnce
    BY DEF TokensInv
  <1> QED
    BY <1>1, <1>2, TypeInit, TokensInit, PTL DEF Spec

\* An apply that returns Ok has sent every mutation of the capture it popped.
THEOREM OkSends == Spec => OkMeansSent
  <1>1. TypeInv /\ TokensInv /\ [Next]_vars => TypeInv' /\ TokensInv'
    BY TypeStep, TokensStep
  <1>2. TypeInv /\ TokensInv /\ [Next]_vars
        => [phase # "idle" /\ phase' = "idle" /\ result' = "ok" => Tokens(taken) \subseteq SentTokens]_vars
    <2> SUFFICES ASSUME TypeInv, TokensInv, Next, phase # "idle", phase' = "idle", result' = "ok"
                 PROVE  Tokens(taken) \subseteq SentTokens
      OBVIOUS
    <2>1. ApplyDone
      <3>1. ~CallCapture
        BY DEF CallCapture, StartCapture, DiscardCapture, CreateLocal, Change, PassThrough, MayCapture,
           MayRequest, PassThroughTraps, ApplyNothing, ApplyCapture
      <3>2. ~Reinstantiate
        BY DEF Reinstantiate, ApplyReturns, ApplyOver
      <3>3. \A m \in Models :
              ~(ReserveIds(m) \/ ReserveMiscounts(m) \/ ReserveFails(m) \/ ReserveTraps(m))
        BY DEF ReserveIds, ReserveMiscounts, ReserveFails, ReserveTraps, ApplyReturns, ApplyOver, Traps
      <3>4. \A m \in Models : ~(Send(m) \/ SendFails(m) \/ SendTraps(m))
        BY DEF Send, Turn, SendFails, SendTraps, ApplyReturns, ApplyOver, Traps
      <3>5. ~AssignIds /\ ~AssignFails /\ ~PrepareDeletes
        BY DEF AssignIds, AssignFails, PrepareDeletes, ApplyReturns, ApplyOver
      <3> QED
        BY <3>1, <3>2, <3>3, <3>4, <3>5 DEF Next, RunApply
    <2>2. phase = "delete" /\ todo = {}
      BY <2>1 DEF ApplyDone
    <2>3. Unsent = {}
      BY <2>2 DEF Unsent, TokensAt
    <2> QED
      BY <2>2, <2>3 DEF TokensInv, Stages
  <1> QED
    BY <1>1, <1>2, TypeInit, TokensInit, PTL DEF Spec, OkMeansSent

-----------------------------------------------------------------------------
\* Where a mutation goes when it leaves its capture.
LEMMA AccountStep ==
    ASSUME TypeInv, TokensInv, AccountedFor, [Next]_vars
    PROVE  AccountedFor'
  <1>0. TypeOK /\ Apart(stack) /\ Stages /\ issued \in Nat
    BY DEF TypeInv, TokensInv, TypeOK
  <1>1. ASSUME UNCHANGED <<stack, taken, Gone, issued, wire>> PROVE AccountedFor'
    BY <1>1 DEF AccountedFor, WaitingTokens, SentTokens, Sent
  <1>2. CASE CallCapture
    <2>1. phase = "idle" /\ Tokens(taken) = {}
      <3>1. phase = "idle"
        BY <1>2 DEF CallCapture, StartCapture, DiscardCapture, CreateLocal, Change, PassThrough,
           MayCapture, MayRequest, PassThroughTraps, ApplyNothing, ApplyCapture
      <3> QED
        BY <1>0, <3>1, NothingStored DEF Stages
    <2>2. ASSUME NEW op \in Operations, NEW e \in Entries, e.tok = issued + 1, stack # <<>>, Capture(op, e)
          PROVE  AccountedFor'
      <3>1. /\ stack' = [stack EXCEPT ![Len(stack)][op] = Append(@, e)] /\ issued' = issued + 1
            /\ UNCHANGED <<taken, Gone, wire>>
        BY <2>2 DEF Capture, Gone, applyVars, serviceVars
      <3>2. e.tok \notin WaitingTokens
        BY <1>0, <2>2 DEF Stages
      <3>3. WaitingTokens' = WaitingTokens \union {issued + 1} /\ SentTokens' = SentTokens
        BY <1>0, <2>2, <3>1, <3>2, StoreInTop DEF SentTokens, Sent
      <3>4. 1..issued' = 1..issued \union {issued + 1}
        BY <1>0, <3>1
      <3> QED
        BY <3>1, <3>3, <3>4 DEF AccountedFor
    <2>3. ASSUME NEW m \in Models, NEW ref \in MayRefer, CreateLocal(m, ref) PROVE AccountedFor'
      <3> DEFINE e == [tok |-> issued + 1, model |-> m,
                       id |-> [num |-> NextLocal, of |-> issued + 1], ref |-> ref]
      <3>1. stack # <<>> /\ Capture("create", e) /\ issued + 1 \in Mutations
        BY <1>0, <2>3 DEF CreateLocal, MayCapture, MayRequest, Mutations
      <3>2. ref \in Names
        BY <1>0, CallNames
      <3>3. [num |-> NextLocal, of |-> issued + 1] \in Names
        BY <1>0, <3>1, LenProperties DEF Names, NextLocal, Mutations, TypeOK
      <3>4. e \in Entries /\ e.tok = issued + 1 /\ "create" \in Operations
        BY <3>1, <3>2, <3>3 DEF Entries, Operations
      <3> HIDE DEF e
      <3> QED
        BY <2>2, <3>1, <3>4
    <2>4. ASSUME NEW op \in Operations, NEW m \in Models, NEW id \in RealNames \union held,
                 NEW ref \in MayRefer, Change(op, m, id, ref)
          PROVE  AccountedFor'
      <3> DEFINE e == [tok |-> issued + 1, model |-> m, id |-> id, ref |-> ref]
      <3>1. stack # <<>> /\ Capture(op, e) /\ issued + 1 \in Mutations
        BY <1>0, <2>4 DEF Change, MayCapture, MayRequest, Mutations
      <3>2. e \in Entries /\ e.tok = issued + 1
        BY <1>0, <3>1, CallNames, NamedMay DEF Entries
      <3> HIDE DEF e
      <3> QED
        BY <2>2, <3>1, <3>2
    <2>5. ASSUME NEW m \in Models, NEW id \in MayName, PassThrough(m, id) \/ PassThroughTraps(m, id)
          PROVE  AccountedFor'
      <3>1. /\ issued' = issued + 1 /\ UNCHANGED <<stack, taken>> /\ issued + 1 \in Mutations
            /\ \/ Execute(RawRequest(m, id)) /\ Gone' = Gone
               \/ wire' = wire /\ Gone' = Gone \union {issued + 1}
        BY <1>0, <2>5 DEF PassThrough, PassThroughTraps, PassedOn, NotExecuted, Gone, MayRequest,
           captureData, applyVars, serviceVars, Mutations
      <3>2. WaitingTokens' = WaitingTokens /\ 1..issued' = 1..issued \union {issued + 1}
        BY <1>0, <3>1 DEF WaitingTokens
      <3>3. CASE Execute(RawRequest(m, id)) /\ Gone' = Gone
        <4>1. SentTokens' = SentTokens \union {issued + 1}
          BY <1>0, <3>1, <3>3, RawType, CallNames, SentAppend
        <4> QED
          BY <3>1, <3>2, <3>3, <4>1 DEF AccountedFor
      <3>4. CASE wire' = wire /\ Gone' = Gone \union {issued + 1}
        BY <3>1, <3>2, <3>4 DEF AccountedFor, SentTokens, Sent
      <3> QED
        BY <3>1, <3>3, <3>4
    <2>7. CASE StartCapture
      <3>1. stack' = Append(stack, NoEntries) /\ UNCHANGED <<taken, Gone, issued, wire>>
        BY <2>7 DEF StartCapture, Gone, applyVars, callerVars, serviceVars
      <3>2. WaitingTokens' = WaitingTokens
        BY <1>0, <3>1, PushApart
      <3> QED
        BY <3>1, <3>2 DEF AccountedFor, SentTokens, Sent
    <2>8. CASE DiscardCapture
      <3>1. /\ stack # <<>> /\ stack' = Front(stack) /\ Gone' = Gone \union Tokens(Last(stack))
            /\ UNCHANGED <<taken, issued, wire>>
        BY <2>8 DEF DiscardCapture, Gone, applyVars, serviceVars
      <3>2. WaitingTokens = WaitingTokens' \union Tokens(Last(stack))
        BY <1>0, <3>1, PopApart
      <3>3. SentTokens' = SentTokens
        BY <3>1 DEF SentTokens, Sent
      <3> QED
        BY <3>1, <3>2, <3>3 DEF AccountedFor
    <2>9. CASE ApplyCapture
      <3>1. /\ stack # <<>> /\ stack' = Front(stack) /\ taken' = Last(stack)
            /\ UNCHANGED <<Gone, issued, wire>>
        BY <2>9 DEF ApplyCapture, Gone, callerVars, serviceVars
      <3>2. WaitingTokens = WaitingTokens' \union Tokens(Last(stack))
        BY <1>0, <3>1, PopApart
      <3>3. SentTokens' = SentTokens
        BY <3>1 DEF SentTokens, Sent
      <3> QED
        BY <2>1, <3>1, <3>2, <3>3 DEF AccountedFor
    <2>10. CASE ApplyNothing
      BY <1>1, <2>10 DEF ApplyNothing, Gone, captureData, applyVars, callerVars, serviceVars
    <2>11. NoName \in MayRefer
      BY DEF MayRefer
    <2> QED
      BY <1>2, <2>3, <2>4, <2>5, <2>7, <2>8, <2>9, <2>10, <2>11 DEF CallCapture, MayName, Operations
  <1>3. CASE RunApply
    <2>1. ASSUME NEW r, ApplyReturns(r), r # "ok", stack' = stack, SentTokens \subseteq SentTokens',
                 SentTokens' \subseteq 1..issued
          PROVE  AccountedFor'
      <3>1. /\ taken' = NoEntries /\ issued' = issued /\ WaitingTokens' = WaitingTokens
            /\ Gone' = Gone \union (Tokens(taken) \ SentTokens')
        BY <2>1 DEF ApplyReturns, ApplyOver, Gone, WaitingTokens
      <3> QED
        BY <2>1, <3>1, NothingStored DEF AccountedFor
    <2>2. ASSUME NEW m \in Models, Turn(m), Execute(Request(m)) \/ UNCHANGED serviceVars
          PROVE  /\ SentTokens' = SentTokens \/ SentTokens' = SentTokens \union TokensAt(Batch, Chunk(m))
                 /\ TokensAt(Batch, Chunk(m)) \subseteq Tokens(taken)
      <3>1. /\ Request(m) \in Requests
            /\ {e.tok : e \in Request(m).inputs} = TokensAt(Batch, Chunk(m))
            /\ TokensAt(Batch, Chunk(m)) \subseteq Tokens(taken)
        BY <2>2, ChunkTokens
      <3>2. CASE Execute(Request(m))
        BY <1>0, <3>1, <3>2, SentAppend
      <3>3. CASE UNCHANGED serviceVars
        BY <3>1, <3>3 DEF SentTokens, Sent, serviceVars
      <3> QED
        BY <2>2, <3>2, <3>3
    <2>3. ASSUME NEW m \in Models, ReserveIds(m) \/ ReserveMiscounts(m) \/ ReserveTraps(m)
          PROVE  AccountedFor'
      BY <1>1, <2>3 DEF ReserveIds, ReserveMiscounts, ReserveTraps, Traps, Reserve, Gone, captureData,
         applyVars, callerVars, serviceVars
    <2>4. CASE AssignIds \/ PrepareDeletes
      BY <1>1, <2>4 DEF AssignIds, PrepareDeletes, Gone, captureData, callerVars, serviceVars
    <2>5. ASSUME NEW m \in Models, Send(m) \/ SendTraps(m) PROVE AccountedFor'
      <3>1. /\ Turn(m)
            /\ Execute(Request(m)) \/ UNCHANGED serviceVars
            /\ UNCHANGED <<stack, taken, Gone, issued>>
        BY <2>5 DEF Send, SendTraps, Traps, Gone, captureData, applyVars, callerVars
      <3>2. /\ SentTokens' = SentTokens \/ SentTokens' = SentTokens \union TokensAt(Batch, Chunk(m))
            /\ TokensAt(Batch, Chunk(m)) \subseteq Tokens(taken)
        BY <2>2, <3>1
      <3> QED
        BY <3>1, <3>2 DEF AccountedFor, WaitingTokens
    <2>6. ASSUME NEW m \in Models, SendFails(m) PROVE AccountedFor'
      <3>1. /\ Turn(m)
            /\ Execute(Request(m)) \/ UNCHANGED serviceVars
            /\ stack' = stack /\ ApplyReturns("err")
        BY <2>6 DEF SendFails, captureData
      <3>2. /\ SentTokens' = SentTokens \/ SentTokens' = SentTokens \union TokensAt(Batch, Chunk(m))
            /\ TokensAt(Batch, Chunk(m)) \subseteq Tokens(taken)
        BY <2>2, <3>1
      <3>3. SentTokens' \subseteq 1..issued /\ SentTokens \subseteq SentTokens'
        BY <1>0, <3>2 DEF Stages
      <3> QED
        BY <2>1, <3>1, <3>3
    <2>7. ASSUME NEW m \in Models, ReserveFails(m) PROVE AccountedFor'
      <3>1. wire' = wire /\ stack' = stack /\ ApplyReturns("err")
        BY <2>7 DEF ReserveFails, Reserve, captureData, serviceVars
      <3>2. SentTokens' = SentTokens /\ SentTokens \subseteq 1..issued
        BY <1>0, <3>1 DEF SentTokens, Sent, Stages
      <3> QED
        BY <2>1, <3>1, <3>2
    <2>8. CASE AssignFails
      <3>1. wire' = wire /\ stack' = stack /\ ApplyReturns("err")
        BY <2>8 DEF AssignFails, serviceVars
      <3>2. SentTokens' = SentTokens /\ SentTokens \subseteq 1..issued
        BY <1>0, <3>1 DEF SentTokens, Sent, Stages
      <3> QED
        BY <2>1, <3>1, <3>2
    <2>9. CASE ApplyDone
      <3>1. /\ phase = "delete" /\ todo = {} /\ taken' = NoEntries
            /\ UNCHANGED <<stack, Gone, issued, wire>>
        BY <2>9 DEF ApplyDone, ApplyReturns, ApplyOver, Gone, captureData, serviceVars
      <3>2. Unsent = {}
        BY <3>1 DEF Unsent, TokensAt
      <3>3. Tokens(taken) \subseteq SentTokens
        BY <1>0, <3>1, <3>2 DEF Stages
      <3>4. WaitingTokens' = WaitingTokens /\ SentTokens' = SentTokens /\ Tokens(taken') = {}
        BY <3>1, NothingStored DEF WaitingTokens, SentTokens, Sent
      <3> QED
        BY <3>1, <3>3, <3>4 DEF AccountedFor
    <2> QED
      BY <1>3, <2>3, <2>4, <2>5, <2>6, <2>7, <2>8, <2>9 DEF RunApply
  <1>4. CASE Reinstantiate
    <2>1. /\ stack' = <<>> /\ taken' = NoEntries /\ UNCHANGED <<issued, wire>>
          /\ Gone' = Gone \union WaitingTokens \union (Tokens(taken) \ SentTokens)
      BY <1>4 DEF Reinstantiate, ApplyOver, Gone, serviceVars
    <2>2. WaitingTokens' = {} /\ SentTokens' = SentTokens /\ Tokens(taken') = {}
      BY <2>1, NothingStored DEF WaitingTokens, SentTokens, Sent, ToSet
    <2> QED
      BY <2>1, <2>2 DEF AccountedFor
  <1>5. CASE UNCHANGED vars
    BY <1>1, <1>5 DEF vars, Gone, captureData, applyVars, callerVars, serviceVars
  <1> QED
    BY <1>2, <1>3, <1>4, <1>5 DEF Next

\* Whatever fails no mutation disappears behind an Ok: each waits in a capture,
\* is being applied, was executed or was discarded by the caller, or the caller
\* was told of the failure that left it unsent.
THEOREM Accounted == Spec => []AccountedFor
  <1>1. TypeInv /\ TokensInv /\ [Next]_vars => TypeInv' /\ TokensInv'
    BY TypeStep, TokensStep
  <1>2. TypeInv /\ TokensInv /\ AccountedFor /\ [Next]_vars => AccountedFor'
    BY AccountStep
  <1>3. Init => AccountedFor
    <2> SUFFICES ASSUME Init PROVE AccountedFor
      OBVIOUS
    <2>1. stack = <<>> /\ taken = NoEntries /\ wire = <<>> /\ Gone = {} /\ issued = 0
      BY DEF Init, ServiceInit, Gone
    <2>2. WaitingTokens = {} /\ SentTokens = {}
      BY <2>1 DEF WaitingTokens, SentTokens, Sent, ToSet
    <2> QED
      BY <2>1, <2>2, NothingStored DEF AccountedFor
  <1> QED
    BY <1>1, <1>2, <1>3, TypeInit, TokensInit, PTL DEF Spec

-----------------------------------------------------------------------------
\* Of two mutations of a model the later one is never in an earlier chunk.
LEMMA ChunkTakesFirst ==
    ASSUME TypeOK, TokensInv, NEW m \in Models, Turn(m), NEW j \in Chunk(m),
           NEW i \in todo \intersect OfModel(m), i < j
    PROVE  i \in Chunk(m)
  <1> DEFINE below(k) == {l \in todo \intersect OfModel(m) : l < k}
  <1>1. todo \subseteq DOMAIN Batch /\ todo \subseteq Nat
    BY DEF TokensInv, Stages, Turn, TypeOK
  <1>2. IsFiniteSet(todo)
    <2>1. \E n \in Nat : DOMAIN Batch = 1..n
      <3>1. Batch \in Seq(Entries)
        BY DEF Batch, Upserts, TypeOK, Captures, Operations
      <3> QED
        BY <3>1, LenProperties
    <2>2. IsFiniteSet(DOMAIN Batch)
      BY <2>1, FS_Interval
    <2> QED
      BY <1>1, <2>2, FS_Subset
  <1>3. IsFiniteSet(below(j)) /\ below(i) \subseteq below(j)
    <2>1. below(j) \subseteq todo
      OBVIOUS
    <2>2. i \in Nat /\ j \in Nat
      BY <1>1 DEF Chunk
    <2>3. below(i) \subseteq below(j)
      BY <1>1, <2>2
    <2> QED
      BY <1>2, <2>1, <2>3, FS_Subset
  <1>4. /\ Cardinality(below(i)) <= Cardinality(below(j))
        /\ Cardinality(below(i)) \in Nat /\ Cardinality(below(j)) \in Nat
    BY <1>3, FS_Subset, FS_CardinalityType
  <1>5. Cardinality(below(j)) < ChunkSize
    BY DEF Chunk
  <1>6. Cardinality(below(i)) < ChunkSize
    BY <1>4, <1>5
  <1> QED
    BY <1>6 DEF Chunk

LEMMA ChunkInOrder ==
    ASSUME TypeInv, TokensInv, CreateSentFirst, NEW m \in Models, Turn(m), taken' = taken,
           UNCHANGED serviceVars \/ (Execute(Request(m)) /\ UNCHANGED <<stack, dropped, failed>>)
    PROVE  CreateSentFirst'
  <1>0. CASE UNCHANGED serviceVars
    BY <1>0 DEF CreateSentFirst, SentTokens, Sent, serviceVars
  <1>1. CASE Execute(Request(m)) /\ UNCHANGED <<stack, dropped, failed>>
    <2> SUFFICES ASSUME NEW k \in DOMAIN taken["create"], NEW op \in {"update", "delete"},
                        NEW l \in DOMAIN taken[op], taken["create"][k].model = taken[op][l].model,
                        taken["create"][k].id = taken[op][l].id, taken[op][l].tok \in SentTokens'
                 PROVE  taken["create"][k].tok \in SentTokens'
      BY DEF CreateSentFirst, ToSet
    <2> DEFINE c == taken["create"][k]
               e == taken[op][l]
               new == TokensAt(Batch, Chunk(m))
    <2>1. /\ TypeOK /\ Distinct(taken) /\ Stages /\ phase \in {"upsert", "delete"}
          /\ todo \subseteq DOMAIN Batch /\ Tokens(taken) \ Unsent \subseteq SentTokens
          /\ c.tok \in Tokens(taken)
      BY TokenPlace DEF TypeInv, TokensInv, Stages, Turn, Operations
    <2>2. SentTokens' = SentTokens \union new
      BY <1>1, ChunkSentOnce DEF Gone
    <2>3. CASE e.tok \in SentTokens
      <3>1. c.tok \in SentTokens
        BY <2>3 DEF CreateSentFirst, ToSet
      <3> QED
        BY <2>2, <3>1
    <2>4. CASE c.tok \notin Unsent
      BY <2>1, <2>2, <2>4
    <2>5. CASE e.tok \in new /\ c.tok \in Unsent
      <3>1. phase = "upsert"
        <4> SUFFICES ASSUME phase = "delete" PROVE FALSE
          BY <2>1
        <4>1. PICK i \in todo : i \in DOMAIN taken["delete"] /\ c.tok = taken["delete"][i].tok
          BY <2>1, <2>5 DEF Unsent, TokensAt, Batch
        <4> QED
          BY <2>1, <4>1 DEF Distinct, Operations
      <3>2. Batch = Upserts
        BY <3>1 DEF Batch
      <3>3. PICK j \in Chunk(m) : e.tok = Upserts[j].tok
        BY <2>5, <3>2 DEF TokensAt
      <3>4. j \in todo \intersect OfModel(m) /\ j \in DOMAIN Upserts
        BY <2>1, <3>2 DEF Chunk
      <3>5. PICK i \in todo : c.tok = Upserts[i].tok /\ i \in DOMAIN Upserts
        <4>1. c.tok \notin TokensAt(taken["delete"], DOMAIN taken["delete"])
          BY <2>1 DEF TokensAt, Distinct, Operations
        <4> QED
          BY <2>1, <2>5, <3>1, <3>2, <4>1 DEF Unsent, TokensAt
      <3>6. Upserts[j] = e /\ Upserts[i] = c /\ i < j
        <4>1. PICK q \in {"create", "update"} : \E x \in DOMAIN taken[q] :
                  Upserts[j] = taken[q][x] /\ j = x + (IF q = "create" THEN 0 ELSE Len(taken["create"]))
          BY <2>1, <3>4, UpsertPlaces
        <4>2. PICK x \in DOMAIN taken[q] :
                  Upserts[j] = taken[q][x] /\ j = x + (IF q = "create" THEN 0 ELSE Len(taken["create"]))
          BY <4>1
        <4>3. PICK p \in {"create", "update"} : \E y \in DOMAIN taken[p] :
                  Upserts[i] = taken[p][y] /\ i = y + (IF p = "create" THEN 0 ELSE Len(taken["create"]))
          BY <2>1, <3>5, UpsertPlaces
        <4>4. PICK y \in DOMAIN taken[p] :
                  Upserts[i] = taken[p][y] /\ i = y + (IF p = "create" THEN 0 ELSE Len(taken["create"]))
          BY <4>3
        <4>5. q = op /\ x = l /\ p = "create" /\ y = k
          BY <2>1, <3>3, <3>5, <4>2, <4>4 DEF Distinct, Operations
        <4>6. op = "update" /\ j = l + Len(taken["create"]) /\ i = k
          BY <2>1, <4>2, <4>4, <4>5 DEF TypeOK, Captures, Operations
        <4>7. l \in Nat \ {0} /\ k \in 1..Len(taken["create"]) /\ Len(taken["create"]) \in Nat
          <5>1. taken["create"] \in Seq(Entries) /\ taken["update"] \in Seq(Entries)
            BY <2>1 DEF TypeOK, Captures, Operations
          <5> QED
            BY <4>6, <5>1, LenProperties
        <4> QED
          BY <4>2, <4>4, <4>5, <4>6, <4>7
      <3>7. i \in todo \intersect OfModel(m)
        <4>1. e.model = m
          BY <3>2, <3>4, <3>6 DEF OfModel
        <4> QED
          BY <3>2, <3>5, <3>6, <4>1 DEF OfModel
      <3>8. i \in Chunk(m)
        BY <2>1, <3>6, <3>7, ChunkTakesFirst
      <3>9. c.tok \in new
        BY <3>2, <3>5, <3>8 DEF TokensAt
      <3> QED
        BY <2>2, <3>9
    <2> QED
      BY <2>2, <2>3, <2>4, <2>5
  <1> QED
    BY <1>0, <1>1

LEMMA CreateFirstStep ==
    ASSUME TypeInv, TokensInv, CreateSentFirst, [Next]_vars
    PROVE  CreateSentFirst'
  <1>1. ASSUME UNCHANGED <<taken, wire>> PROVE CreateSentFirst'
    BY <1>1 DEF CreateSentFirst, SentTokens, Sent
  <1>2. ASSUME taken' = NoEntries PROVE CreateSentFirst'
    BY <1>2 DEF CreateSentFirst, NoEntries, ToSet, Operations
  <1>3. CASE CallCapture
    <2>1. phase = "idle" /\ taken = NoEntries
      <3>1. phase = "idle"
        BY <1>3 DEF CallCapture, StartCapture, DiscardCapture, CreateLocal, Change, PassThrough,
           MayCapture, MayRequest, PassThroughTraps, ApplyNothing, ApplyCapture
      <3> QED
        BY <3>1 DEF TokensInv, Stages
    <2>2. taken' = taken \/ ApplyCapture
      BY <1>3 DEF CallCapture, StartCapture, DiscardCapture, CreateLocal, Change, Capture, PassThrough,
         PassThroughTraps, ApplyNothing, captureData, applyVars
    <2>3. CASE ApplyCapture
      <3>1. stack # <<>> /\ stack' = Front(stack) /\ taken' = Last(stack) /\ wire' = wire
        BY <2>3 DEF ApplyCapture, serviceVars
      <3>2. Tokens(taken') \subseteq WaitingTokens
        BY <3>1, PopApart DEF TypeInv, TokensInv
      <3>3. SentTokens' = SentTokens
        BY <3>1 DEF SentTokens, Sent
      <3>4. \A op \in {"update", "delete"} : \A i \in DOMAIN taken'[op] : taken'[op][i].tok \in Tokens(taken')
        BY TokenPlace DEF Operations
      <3>5. \A e \in ToSet(taken'["update"]) \union ToSet(taken'["delete"]) : e.tok \notin SentTokens'
        BY <3>2, <3>3, <3>4 DEF ToSet, TokensInv, SentAtMostOnce
      <3> QED
        BY <3>5 DEF CreateSentFirst
    <2> QED
      BY <1>2, <2>1, <2>2, <2>3
  <1>4. CASE RunApply
    <2>1. ASSUME NEW m \in Models, Send(m) \/ SendTraps(m) PROVE CreateSentFirst'
      <3>1. /\ Turn(m) /\ taken' = taken
            /\ UNCHANGED serviceVars \/ (Execute(Request(m)) /\ UNCHANGED <<stack, dropped, failed>>)
        BY <2>1 DEF Send, SendTraps, Traps, captureData, applyVars, callerVars
      <3> QED
        BY <3>1, ChunkInOrder
    <2>2. ASSUME NEW m \in Models, ReserveFails(m) \/ SendFails(m) PROVE CreateSentFirst'
      BY <1>2, <2>2 DEF ReserveFails, SendFails, ApplyReturns, ApplyOver
    <2>3. ASSUME NEW m \in Models, ReserveIds(m) \/ ReserveMiscounts(m) \/ ReserveTraps(m)
          PROVE  CreateSentFirst'
      BY <1>1, <2>3 DEF ReserveIds, ReserveMiscounts, ReserveTraps, Reserve, Traps, applyVars, serviceVars
    <2>4. CASE AssignIds \/ PrepareDeletes
      BY <1>1, <2>4 DEF AssignIds, PrepareDeletes, serviceVars
    <2>5. CASE AssignFails \/ ApplyDone
      BY <1>2, <2>5 DEF AssignFails, ApplyDone, ApplyReturns, ApplyOver
    <2> QED
      BY <1>4, <2>1, <2>2, <2>3, <2>4, <2>5 DEF RunApply
  <1>5. CASE Reinstantiate
    BY <1>2, <1>5 DEF Reinstantiate, ApplyReturns, ApplyOver
  <1>6. CASE UNCHANGED vars
    BY <1>1, <1>6 DEF vars, applyVars, serviceVars
  <1> QED
    BY <1>3, <1>4, <1>5, <1>6 DEF Next

\* A record is created before the mutations of the same capture that change or
\* delete it, into however many chunks they fall and whichever chunk fails.
THEOREM CreateFirst == Spec => []CreateSentFirst
  <1>1. /\ TypeInv /\ TokensInv /\ [Next]_vars => TypeInv' /\ TokensInv'
        /\ TypeInv /\ TokensInv /\ CreateSentFirst /\ [Next]_vars => CreateSentFirst'
    BY TypeStep, TokensStep, CreateFirstStep
  <1>2. Init => CreateSentFirst
    BY DEF Init, CreateSentFirst, NoEntries, ToSet, Operations
  <1> QED
    BY <1>1, <1>2, TypeInit, TokensInit, PTL DEF Spec

-----------------------------------------------------------------------------
(***************************************************************************)
(* Progress of an apply.                                                   *)
(***************************************************************************)
\* The model whose turn it is has something in its chunk.
LEMMA ChunkHasSome ==
    ASSUME TypeOK, NEW m \in Models, Turn(m)
    PROVE  \E i \in todo : i \in Chunk(m)
  <1> DEFINE mine == todo \intersect OfModel(m)
  <1>1. mine # {} /\ mine \subseteq Nat
    BY DEF Turn, TypeOK
  <1>2. PICK i \in mine : \A j \in mine : <<j, i>> \notin OpToRel(<, Nat)
    BY <1>1, NatLessThanWellFounded, WFMin
  <1>3. {j \in mine : j < i} = {}
    BY <1>1, <1>2 DEF OpToRel
  <1>4. Cardinality({j \in mine : j < i}) < ChunkSize
    BY <1>3, FS_EmptySet, CaptureAssumption
  <1> QED
    BY <1>2, <1>4 DEF Chunk

LEMMA StepAdvances ==
    ASSUME TypeOK, Next, Stage(phase) < 4
    PROVE  \/ Stage(phase') > Stage(phase)
           \/ /\ phase' = phase
              /\ \/ phase = "reserve" /\ Due' \subseteq Due /\ Due' # Due
                 \/ phase # "reserve" /\ todo' \subseteq todo /\ todo' # todo
  <1>1. phase \in {"reserve", "upsert", "delete"}
    BY DEF Stage
  <1>2. RunApply
    <2>1. ~CallCapture
      BY <1>1 DEF CallCapture, StartCapture, DiscardCapture, CreateLocal, Change, PassThrough, MayCapture,
         MayRequest, PassThroughTraps, ApplyNothing, ApplyCapture
    <2>2. ~Reinstantiate
      BY <1>1 DEF Reinstantiate
    <2> QED
      BY <2>1, <2>2 DEF Next
  <1>3. phase' \in {"idle", "trapped"} => Stage(phase') > Stage(phase)
    BY <1>1 DEF Stage
  <1>4. ASSUME NEW m \in Models, ReserveIds(m) \/ ReserveMiscounts(m)
        PROVE  phase = "reserve" /\ phase' = phase /\ Due' \subseteq Due /\ Due' # Due
    <2>1. phase = "reserve" /\ phase' = phase /\ due[m] > 0 /\ due' = [due EXCEPT ![m] = 0]
      BY <1>4 DEF ReserveIds, ReserveMiscounts
    <2>2. m \in Due /\ Due' = Due \ {m}
      BY <2>1 DEF Due, TypeOK
    <2> QED
      BY <2>1, <2>2
  <1>5. ASSUME NEW m \in Models, Send(m)
        PROVE  phase # "reserve" /\ phase' = phase /\ todo' \subseteq todo /\ todo' # todo
    <2>1. phase # "reserve" /\ phase' = phase /\ todo' = todo \ Chunk(m) /\ Turn(m)
      BY <1>5 DEF Send, Turn
    <2> QED
      BY <2>1, ChunkHasSome
  <1>6. ASSUME NEW m \in Models, ReserveFails(m) \/ ReserveTraps(m) \/ SendFails(m) \/ SendTraps(m)
        PROVE  phase' \in {"idle", "trapped"}
    BY <1>6 DEF ReserveFails, ReserveTraps, SendFails, SendTraps, ApplyReturns, ApplyOver, Traps
  <1>7. AssignFails \/ ApplyDone => phase' \in {"idle", "trapped"}
    BY DEF AssignFails, ApplyDone, ApplyReturns, ApplyOver
  <1>8. CASE AssignIds
    <2>1. phase = "reserve" /\ phase' \in {"upsert", "trapped"}
      BY <1>8 DEF AssignIds, AllAnswered
    <2> QED
      BY <2>1 DEF Stage
  <1>9. CASE PrepareDeletes
    <2>1. phase = "upsert" /\ phase' \in {"delete", "trapped"}
      BY <1>9 DEF PrepareDeletes
    <2> QED
      BY <2>1 DEF Stage
  <1> QED
    BY <1>2, <1>3, <1>4, <1>5, <1>6, <1>7, <1>8, <1>9 DEF RunApply

\* Whatever the service answers, an apply goes forward with every step, for any
\* models, captures and chunk size.
THEOREM Advances == Spec => ApplyAdvances
  <1>1. TypeInv /\ [Next]_vars
        => [Stage(phase) < 4 =>
            \/ Stage(phase') > Stage(phase)
            \/ /\ phase' = phase
               /\ \/ phase = "reserve" /\ Due' \subseteq Due /\ Due' # Due
                  \/ phase # "reserve" /\ todo' \subseteq todo /\ todo' # todo]_vars
    BY StepAdvances DEF TypeInv
  <1> QED
    BY <1>1, TypeStep, TypeInit, PTL DEF Spec, ApplyAdvances
=============================================================================
