------------------------ MODULE CaptureBindingProofs ------------------------
(***************************************************************************)
(* While reservations are answered a local id stands for one record, from  *)
(* the create that was answered with it to the last mutation that names    *)
(* it, in whatever captures they were stored and whichever other requests  *)
(* fail; and the vectors and the map of CaptureData implement LocalIds:    *)
(* every step of Capture is one of LocalIds or changes nothing there.      *)
(* And whatever fails, a local id itself is never sent.                    *)
(***************************************************************************)
EXTENDS CaptureBooksProofs, CaptureRefinement

USE ServiceAssumption, CaptureAssumption

LEMMA BindingType ==
    ASSUME TypeOK
    PROVE  /\ Binding \in Seq(Int) /\ Len(Binding) \in Nat /\ GrantedIds \subseteq Nat
           /\ Len(granted) \in Nat
           /\ \A m \in Models : got[m] \in Seq(Int) /\ Len(got[m]) \in Nat
  BY LenProperties DEF TypeOK, Binding, GrantedIds

LEMMA ConcatInts ==
    ASSUME NEW a \in Seq(Int), NEW b \in Seq(Int)
    PROVE  /\ Len(a \o b) = Len(a) + Len(b)
           /\ \A k \in 1..(Len(a) + Len(b)) :
                  (a \o b)[k] = IF k <= Len(a) THEN a[k] ELSE b[k - Len(a)]
  BY ConcatProperties

\* A reservation adds ids of its model to the ids that have been granted.
LEMMA GrantedGrows ==
    ASSUME TypeOK, NEW m \in Models, Reserve(m, due[m])
    PROVE  /\ granted \in Seq(Models) /\ Len(granted) \in Nat /\ due[m] \in Nat
           /\ granted' \in Seq(Models) /\ Len(granted') = Len(granted) + due[m]
           /\ \A i \in 1..(Len(granted) + due[m]) :
                  granted'[i] = IF i <= Len(granted) THEN granted[i] ELSE m
           /\ GrantedIds \subseteq GrantedIds'
           /\ \A q : ReservedFor(q) \subseteq ReservedFor(q)'
  <1> DEFINE n == due[m]
             g == Len(granted)
             more == [i \in 1..n |-> m]
  <1>1. n \in Nat /\ g \in Nat /\ granted \in Seq(Models) /\ granted' = granted \o more
    BY BindingType DEF Reserve, TypeOK
  <1> HIDE DEF n, g
  <1>2. more \in Seq(Models) /\ Len(more) = n /\ \A i \in 1..n : more[i] = m
    <2>1. more \in [1..n -> Models]
      OBVIOUS
    <2> QED
      BY <1>1, <2>1
  <1> HIDE DEF more
  <1>3. /\ granted' \in Seq(Models) /\ Len(granted') = g + n
        /\ \A i \in 1..(g + n) : granted'[i] = IF i <= g THEN granted[i] ELSE more[i - g]
    BY <1>1, <1>2, ConcatProperties DEF g
  <1>4. \A i \in 1..(g + n) : granted'[i] = IF i <= g THEN granted[i] ELSE m
    BY <1>1, <1>2, <1>3
  <1>5. GrantedIds \subseteq GrantedIds'
    BY <1>1, <1>3 DEF GrantedIds, g
  <1>6. \A q : ReservedFor(q) \subseteq ReservedFor(q)'
    BY <1>1, <1>3, <1>4 DEF ReservedFor, g
  <1> QED
    BY <1>1, <1>3, <1>4, <1>5, <1>6 DEF n, g

-----------------------------------------------------------------------------
\* Sent names that are bound or whose numbering is over name one record each.
LEMMA OneOfEach ==
    ASSUME HeldOnce, BoundOnce, Len(Binding) \in Nat, Len(names) \in Nat, held \subseteq Names,
           NEW a \in Names, NEW b \in Names, Open(a, held, Binding),
           Open(b, held, Binding) \/ Closed(b, held, Binding, got)
    PROVE  a.of = b.of <=> a.num = b.num
  <1>1. PICK l \in held : l.of = a.of /\ -l.num <= Len(Binding) /\ Binding[-l.num] = a.num
    BY DEF Open
  <1>2. l.num \in Int /\ -l.num \in 1..Len(Binding)
    BY <1>1 DEF HeldOnce, Names, Locals
  <1>3. CASE Open(b, held, Binding)
    <2>1. PICK k \in held : k.of = b.of /\ -k.num <= Len(Binding) /\ Binding[-k.num] = b.num
      BY <1>3 DEF Open
    <2>2. k.num \in Int /\ -k.num \in 1..Len(Binding)
      BY <2>1 DEF HeldOnce, Names, Locals
    <2>3. a.num = b.num <=> -l.num = -k.num
      BY <1>1, <1>2, <2>1, <2>2 DEF BoundOnce
    <2>4. a.of = b.of <=> l.num = k.num
      BY <1>1, <2>1 DEF HeldOnce
    <2> QED
      BY <1>2, <2>2, <2>3, <2>4
  <1>4. CASE Closed(b, held, Binding, got)
    <2>1. a.of # b.of /\ a.num # b.num
      BY <1>1, <1>2, <1>4 DEF Closed
    <2> QED
      BY <2>1
  <1> QED
    BY <1>3, <1>4

\* Calls and steps that bind nothing.
LEMMA NothingBound ==
    ASSUME TypeOK, TypeOK', Bindings, Binding' = Binding, got' = got, granted' = granted,
           held \subseteq held', \A l \in held' \ held : l.of > issued, issued <= issued',
           \A s \in SentNames' \ SentNames : s.of = 0
    PROVE  Bindings'
  <1>1. BoundOnce /\ AnsweredOnce /\ SentBound /\ OneRecordPerName /\ GrantedIds' = GrantedIds
        /\ issued \in Nat /\ issued' \in Nat
    BY DEF Bindings, GrantedIds, TypeOK
  <1>2. BoundOnce' /\ AnsweredOnce'
    BY <1>1 DEF BoundOnce, AnsweredOnce
  <1>3. ASSUME NEW s \in SentNames', s.of # 0
        PROVE  /\ s.of \in 1..issued' /\ s.num \in GrantedIds'
               /\ Open(s, held', Binding') \/ Closed(s, held', Binding', got')
    <2>1. /\ s \in SentNames /\ s.of \in 1..issued /\ s.num \in GrantedIds
          /\ Open(s, held, Binding) \/ Closed(s, held, Binding, got)
      BY <1>1, <1>3 DEF SentBound
    <2>2. Open(s, held, Binding) => Open(s, held', Binding')
      BY DEF Open
    <2>3. Closed(s, held, Binding, got) => Closed(s, held', Binding', got')
      BY <1>1, <2>1 DEF Closed
    <2> QED
      BY <1>1, <2>1, <2>2, <2>3
  <1>4. OneRecordPerName'
    BY <1>1 DEF OneRecordPerName
  <1> QED
    BY <1>2, <1>3, <1>4 DEF Bindings, SentBound

\* The ids that are answered are new: nothing was sent or bound with them.
LEMMA ReserveBinds ==
    ASSUME TypeOK, Books, Bindings, NEW m \in Models, ReserveIds(m)
    PROVE  Bindings'
  <1> DEFINE n == due[m]
             g == Len(granted)
  <1>1. /\ BoundOnce /\ AnsweredOnce /\ SentBound /\ OneRecordPerName
        /\ n \in Nat \ {0} /\ g \in Nat /\ got' = [got EXCEPT ![m] = FreshIds(n)]
        /\ Reserve(m, n)
        /\ UNCHANGED <<names, reserved, phase, ids, issued, held, wire>>
    BY BindingType DEF Bindings, ReserveIds, Reserve, captureData, callerVars, TypeOK
  <1>2. Binding' = Binding /\ SentNames' = SentNames
    BY <1>1 DEF Binding, Sending, SentNames, Sent
  <1>3. Len(granted') = g + n
    BY <1>1, GrantedGrows
  <1>4. GrantedIds \subseteq GrantedIds'
    BY <1>1, GrantedGrows
  <1>5. /\ Len(got'[m]) = n
        /\ \A i \in 1..n : got'[m][i] = Existing + g + i /\ got'[m][i] \in GrantedIds'
                           /\ got'[m][i] \notin GrantedIds
    <2>1. got'[m] = FreshIds(n) /\ Len(FreshIds(n)) = n
      BY <1>1, ReserveType DEF TypeOK
    <2>2. \A i \in 1..n : FreshIds(n)[i] = Existing + g + i
      BY DEF FreshIds
    <2> HIDE DEF n, g
    <2> QED
      BY <1>1, <1>3, <2>1, <2>2 DEF GrantedIds, g
  <1>6. \A k \in Models \ {m} : got'[k] = got[k]
    BY <1>1 DEF TypeOK
  <1> HIDE DEF n, g
  <1>7. BoundOnce'
    BY <1>1, <1>2, <1>4 DEF BoundOnce
  <1>8. AnsweredOnce'
    <2>1. ASSUME NEW k \in Models, NEW i \in 1..Len(got'[k])
          PROVE  got'[k][i] \in GrantedIds' /\ \A j \in 1..Len(Binding) : got'[k][i] # Binding[j]
      <3>1. CASE k = m
        BY <1>1, <1>5, <3>1 DEF BoundOnce
      <3>2. CASE k # m
        BY <1>1, <1>4, <1>6, <3>2 DEF AnsweredOnce
      <3> QED
        BY <3>1, <3>2
    <2>2. ASSUME NEW k \in Models, NEW i \in 1..Len(got'[k]), NEW l \in Models, NEW j \in 1..Len(got'[l]),
                 got'[k][i] = got'[l][j]
          PROVE  k = l /\ i = j
      <3>1. CASE k = m /\ l = m
        <4>1. i \in 1..n /\ j \in 1..n /\ Existing + g + i = Existing + g + j
          BY <1>5, <2>2, <3>1
        <4> QED
          BY <1>1, <3>1, <4>1
      <3>2. CASE k # m /\ l # m
        BY <1>1, <1>6, <2>2, <3>2 DEF AnsweredOnce
      <3>3. CASE k = m /\ l # m
        BY <1>1, <1>5, <1>6, <2>2, <3>3 DEF AnsweredOnce
      <3>4. CASE k # m /\ l = m
        BY <1>1, <1>5, <1>6, <2>2, <3>4 DEF AnsweredOnce
      <3> QED
        BY <3>1, <3>2, <3>3, <3>4
    <2> QED
      BY <1>2, <2>1, <2>2 DEF AnsweredOnce
  <1>9. SentBound'
    <2> SUFFICES ASSUME NEW s \in SentNames, s.of # 0
                 PROVE  /\ s.of \in 1..issued /\ s.num \in GrantedIds'
                        /\ Open(s, held, Binding) \/ Closed(s, held, Binding, got')
      BY <1>1, <1>2 DEF SentBound
    <2>1. /\ s.of \in 1..issued /\ s.num \in GrantedIds
          /\ Open(s, held, Binding) \/ Closed(s, held, Binding, got)
      BY <1>1 DEF SentBound
    <2>2. Closed(s, held, Binding, got) => Closed(s, held, Binding, got')
      BY <1>5, <1>6, <2>1 DEF Closed
    <2> QED
      BY <1>4, <2>1, <2>2
  <1> QED
    BY <1>1, <1>2, <1>7, <1>8, <1>9 DEF Bindings, OneRecordPerName

-----------------------------------------------------------------------------
\* The names of one model have ranks of their own.
LEMMA RankApart ==
    ASSUME names \in Seq(Models), NEW i \in 1..Len(names), NEW j \in 1..Len(names),
           names[i] = names[j], i < j
    PROVE  Rank(i) # Rank(j)
  <1> DEFINE upto(k) == {l \in Places(names, names[j]) : l <= k}
  <1>1. names[j] \in Models
    BY ElementOfSeq
  <1>2. IsFiniteSet(upto(j)) /\ upto(i) \subseteq upto(j)
    <2>1. IsFiniteSet(Places(names, names[j])) /\ Places(names, names[j]) \subseteq 1..Len(names)
      BY <1>1, PlacesFinite
    <2>2. upto(j) \subseteq Places(names, names[j])
      OBVIOUS
    <2>3. IsFiniteSet(upto(j))
      BY <2>1, <2>2, FS_Subset
    <2>4. upto(i) \subseteq upto(j)
      BY <2>1
    <2> QED
      BY <2>3, <2>4
  <1>3. j \in upto(j) /\ j \notin upto(i)
    BY DEF Places
  <1>4. Cardinality(upto(i)) # Cardinality(upto(j))
    <2> HIDE DEF upto
    <2> QED
      BY <1>2, <1>3, FS_Subset
  <1> QED
    BY <1>4 DEF Rank

\* The ids that are given are those that were answered, each once.
LEMMA GivenAnswered ==
    ASSUME TypeOK, AllServed
    PROVE  /\ Given(Len(names)) \in Seq(Int) /\ Len(Given(Len(names))) = Len(names)
           /\ \A i \in 1..Len(names) :
                /\ names[i] \in Models /\ Rank(i) \in 1..Len(got[names[i]])
                /\ Given(Len(names))[i] = got[names[i]][Rank(i)]
  <1>1. Len(names) \in Nat /\ names \in Seq(Models)
    BY LenProperties DEF TypeOK
  <1>2. ASSUME NEW i \in 1..Len(names)
        PROVE  names[i] \in Models /\ Rank(i) \in 1..Len(got[names[i]])
    <2>1. names[i] \in Models /\ Len(got[names[i]]) \in Nat
      BY <1>1, ElementOfSeq, BindingType
    <2>2. Rank(i) \in Nat \ {0} /\ Rank(i) <= Len(got[names[i]])
      BY <1>1, RankIsPositive DEF AllServed, Served
    <2> QED
      BY <2>1, <2>2
  <1> QED
    BY <1>1, <1>2, GivenType DEF AllServed, IdOf

LEMMA AssignBinds ==
    ASSUME TypeOK, TypeOK', Books, Books', Bindings, AssignIds
    PROVE  Bindings'
  <1> DEFINE given == Given(Len(names))
  <1>1. /\ BoundOnce /\ AnsweredOnce /\ SentBound /\ OneRecordPerName
        /\ phase = "reserve" /\ AllServed /\ ids' = reserved \o given /\ got' = NoIds
        /\ UNCHANGED <<issued, held, granted, wire>>
    BY DEF Bindings, AssignIds, AllAnswered, AllIds, callerVars, serviceVars
  <1>2. phase' = "upsert"
    BY AssignKeepsBooks
  <1>3. Binding = reserved /\ Binding' = ids' /\ GrantedIds' = GrantedIds /\ SentNames' = SentNames
    BY <1>1, <1>2 DEF Binding, Sending, GrantedIds, SentNames, Sent
  <1>4. /\ given \in Seq(Int) /\ Len(given) = Len(names)
        /\ \A i \in 1..Len(names) :
             /\ names[i] \in Models /\ Rank(i) \in 1..Len(got[names[i]])
             /\ given[i] = got[names[i]][Rank(i)]
    BY <1>1, GivenAnswered
  <1>5. names \in Seq(Models) /\ Len(names) \in Nat /\ reserved \in Seq(Int) /\ Len(reserved) \in Nat
    BY LenProperties DEF TypeOK
  <1> HIDE DEF given
  <1>6. /\ Len(ids') = Len(reserved) + Len(names)
        /\ \A k \in 1..Len(reserved) : ids'[k] = reserved[k]
        /\ \A i \in 1..Len(names) : ids'[Len(reserved) + i] = given[i]
    <2> DEFINE all == reserved \o given
    <2>1. /\ Len(all) = Len(reserved) + Len(given)
          /\ \A k \in 1..(Len(reserved) + Len(given)) :
                all[k] = IF k <= Len(reserved) THEN reserved[k] ELSE given[k - Len(reserved)]
      BY <1>4, <1>5, ConcatInts
    <2> HIDE DEF all
    <2>2. ids' = all
      BY <1>1 DEF all
    <2>3. ASSUME NEW i \in 1..Len(names) PROVE all[Len(reserved) + i] = given[i]
      <3> DEFINE p == Len(reserved) + i
      <3>1. /\ p \in 1..(Len(reserved) + Len(given)) /\ ~(p <= Len(reserved))
            /\ p - Len(reserved) = i
        BY <1>4, <1>5
      <3> HIDE DEF p
      <3>2. all[p] = given[i]
        BY <2>1, <3>1
      <3> QED
        BY <3>2 DEF p
    <2> QED
      BY <1>4, <1>5, <2>1, <2>2, <2>3
  <1>7. \A i, j \in 1..Len(names) : given[i] = given[j] => i = j
    <2> SUFFICES ASSUME NEW i \in 1..Len(names), NEW j \in 1..Len(names), given[i] = given[j], i # j
                 PROVE  FALSE
      OBVIOUS
    <2>1. names[i] = names[j] /\ Rank(i) = Rank(j)
      <3> DEFINE k == names[i]
                 l == names[j]
                 q == Rank(i)
                 t == Rank(j)
      <3>1. /\ k \in Models /\ l \in Models /\ q \in 1..Len(got[k]) /\ t \in 1..Len(got[l])
            /\ got[k][q] = got[l][t]
        BY <1>4
      <3>3. \A a, b \in Models : \A x \in 1..Len(got[a]), y \in 1..Len(got[b]) :
                got[a][x] = got[b][y] => a = b /\ x = y
        BY <1>1 DEF AnsweredOnce
      <3> HIDE DEF k, l, q, t
      <3>2. k = l /\ q = t
        BY <3>1, <3>3
      <3> QED
        BY <3>2 DEF k, l, q, t
    <2>2. i < j \/ j < i
      BY <1>5
    <2> QED
      BY <1>5, <2>1, <2>2, RankApart
  <1>8. \A i \in 1..Len(names) : given[i] \in GrantedIds /\ \A k \in 1..Len(reserved) : given[i] # reserved[k]
    <2> SUFFICES ASSUME NEW i \in 1..Len(names)
                 PROVE  given[i] \in GrantedIds /\ \A k \in 1..Len(reserved) : given[i] # reserved[k]
      OBVIOUS
    <2> DEFINE m == names[i]
               q == Rank(i)
    <2>1. m \in Models /\ q \in 1..Len(got[m]) /\ given[i] = got[m][q]
      BY <1>4
    <2> HIDE DEF m, q
    <2> QED
      BY <1>1, <1>3, <2>1 DEF AnsweredOnce
  <1>9. \A k \in 1..Len(ids') :
          \/ k \in 1..Len(reserved) /\ ids'[k] = reserved[k]
          \/ k - Len(reserved) \in 1..Len(names) /\ ids'[k] = given[k - Len(reserved)]
    <2> SUFFICES ASSUME NEW k \in 1..Len(ids'), k \notin 1..Len(reserved)
                 PROVE  k - Len(reserved) \in 1..Len(names) /\ ids'[k] = given[k - Len(reserved)]
      BY <1>6
    <2> DEFINE i == k - Len(reserved)
    <2>1. i \in 1..Len(names) /\ Len(reserved) + i = k
      BY <1>5, <1>6
    <2> QED
      BY <1>6, <2>1
  <1>10. BoundOnce'
    <2>1. \A k \in 1..Len(ids') : ids'[k] \in GrantedIds
      BY <1>1, <1>3, <1>8, <1>9 DEF BoundOnce
    <2>2. ASSUME NEW j \in 1..Len(ids'), NEW k \in 1..Len(ids'), ids'[j] = ids'[k]
          PROVE  j = k
      <3>1. CASE j \in 1..Len(reserved) /\ k \in 1..Len(reserved)
        BY <1>1, <1>3, <1>6, <2>2, <3>1 DEF BoundOnce
      <3>2. CASE j \notin 1..Len(reserved) /\ k \notin 1..Len(reserved)
        <4>1. j - Len(reserved) = k - Len(reserved)
          BY <1>7, <1>9, <2>2, <3>2
        <4> QED
          BY <1>5, <4>1
      <3>3. CASE j \in 1..Len(reserved) /\ k \notin 1..Len(reserved)
        BY <1>6, <1>8, <1>9, <2>2, <3>3
      <3>4. CASE j \notin 1..Len(reserved) /\ k \in 1..Len(reserved)
        BY <1>6, <1>8, <1>9, <2>2, <3>4
      <3> QED
        BY <3>1, <3>2, <3>3, <3>4
    <2> QED
      BY <1>3, <2>1, <2>2 DEF BoundOnce
  <1>11. AnsweredOnce'
    BY <1>1 DEF AnsweredOnce, NoIds
  <1>12. SentBound'
    <2> SUFFICES ASSUME NEW s \in SentNames, s.of # 0
                 PROVE  /\ s.of \in 1..issued /\ s.num \in GrantedIds
                        /\ Open(s, held, ids') \/ Closed(s, held, ids', NoIds)
      BY <1>1, <1>3 DEF SentBound
    <2>1. /\ s.of \in 1..issued /\ s.num \in GrantedIds
          /\ Open(s, held, reserved) \/ Closed(s, held, reserved, got)
      BY <1>1, <1>3 DEF SentBound
    <2>2. ASSUME Open(s, held, reserved) PROVE Open(s, held, ids')
      <3>1. PICK l \in held : l.of = s.of /\ -l.num <= Len(reserved) /\ reserved[-l.num] = s.num
        BY <2>2 DEF Open
      <3>2. -l.num \in 1..Len(reserved) /\ l.num \in Int
        <4>1. Locals \in Nat /\ l.num \in (-Locals)..(-1)
          BY IdleLocals DEF Books, HeldOnce
        <4> QED
          BY <1>5, <3>1, <4>1
      <3>3. ids'[-l.num] = s.num /\ -l.num <= Len(ids')
        BY <1>5, <1>6, <3>1, <3>2
      <3> QED
        BY <3>1, <3>3 DEF Open
    <2>3. ASSUME Closed(s, held, reserved, got) PROVE Closed(s, held, ids', NoIds)
      <3>1. \A i \in 1..Len(names) : given[i] # s.num
        BY <1>4, <2>3 DEF Closed
      <3>2. \A k \in 1..Len(ids') : ids'[k] # s.num
        BY <1>9, <2>3, <3>1 DEF Closed
      <3> QED
        BY <2>3, <3>2 DEF Closed, NoIds
    <2> QED
      BY <2>1, <2>2, <2>3
  <1> QED
    BY <1>1, <1>3, <1>10, <1>11, <1>12 DEF Bindings, OneRecordPerName

-----------------------------------------------------------------------------
\* What is sent in an apply is bound.
LEMMA ResolvedOpen ==
    ASSUME TypeOK, Books, Sending, NEW name \in Names, Sound(name, held), name.of # 0
    PROVE  LET s == Resolve(name, ids)
           IN  /\ s \in Names /\ s.of = name.of /\ -name.num \in 1..Len(Binding)
               /\ s.num = Binding[-name.num] /\ Open(s, held, Binding) /\ s.of \in 1..issued
  <1>1. name.num < 0 /\ name \in held /\ name.num \in Int
    BY DEF Sound, Names
  <1>2. Len(names) = 0
    BY DEF Books, AllBound
  <1>3. -name.num \in 1..Len(Binding) /\ name.of \in 1..issued
    BY <1>1, <1>2, BindingType DEF Books, HeldOnce, Locals
  <1>4. Binding = ids /\ ids \in Seq(Int)
    BY DEF Binding, TypeOK
  <1>5. Resolve(name, ids) = [name EXCEPT !.num = ids[-name.num]]
    BY <1>1 DEF Resolve
  <1>6. ids[-name.num] \in Int
    BY <1>3, <1>4, ElementOfSeq
  <1>7. /\ Resolve(name, ids) \in Names /\ Resolve(name, ids).of = name.of
        /\ Resolve(name, ids).num = ids[-name.num]
    BY <1>5, <1>6 DEF Names
  <1> QED
    BY <1>1, <1>3, <1>4, <1>7 DEF Open

\* The entries of an apply are sound, and those a request sends are among them.
LEMMA BatchSound ==
    ASSUME TypeOK, Books, NEW i \in DOMAIN Batch
    PROVE  /\ Batch[i] \in Entries /\ Sound(Batch[i].id, held) /\ SoundRef(Batch[i].ref, held)
           /\ \E op \in Operations : \E j \in DOMAIN taken[op] : Batch[i] = taken[op][j]
  <1>1. /\ taken["create"] \in Seq(Entries) /\ taken["update"] \in Seq(Entries)
        /\ taken["delete"] \in Seq(Entries)
    BY DEF TypeOK, Captures, Operations
  <1>2. ASSUME NEW op \in Operations, NEW j \in DOMAIN taken[op]
        PROVE  taken[op][j] \in Entries /\ Sound(taken[op][j].id, held) /\ SoundRef(taken[op][j].ref, held)
    <2>1. taken[op] \in Seq(Entries) /\ j \in 1..Len(taken[op])
      BY DEF TypeOK, Captures
    <2> QED
      BY <2>1, ElementOfSeq DEF Books, CapturesSound, SoundCapture
  <1>3. \E op \in Operations : \E j \in DOMAIN taken[op] : Batch[i] = taken[op][j]
    <2>1. CASE phase = "delete"
      BY <2>1 DEF Batch, Operations
    <2>2. CASE phase # "delete"
      <3> DEFINE c == taken["create"]
                 u == taken["update"]
      <3>1. Batch = c \o u /\ c \in Seq(Entries) /\ u \in Seq(Entries)
        BY <1>1, <2>2 DEF Batch, Upserts
      <3>5. \A k \in DOMAIN c : \E op \in Operations : \E j \in DOMAIN taken[op] : c[k] = taken[op][j]
        BY DEF Operations
      <3>6. \A k \in DOMAIN u : \E op \in Operations : \E j \in DOMAIN taken[op] : u[k] = taken[op][j]
        BY DEF Operations
      <3> HIDE DEF c, u
      <3>7. DOMAIN c = 1..Len(c) /\ DOMAIN u = 1..Len(u) /\ Len(c) \in Nat /\ Len(u) \in Nat
        BY <3>1, LenProperties
      <3>2. /\ DOMAIN Batch = 1..(Len(c) + Len(u))
            /\ \A k \in 1..(Len(c) + Len(u)) : Batch[k] = IF k <= Len(c) THEN c[k] ELSE u[k - Len(c)]
        BY <3>1, <3>7, ConcatProperties
      <3>3. CASE i <= Len(c)
        BY <3>2, <3>3, <3>5, <3>7
      <3>4. CASE ~(i <= Len(c))
        <4>1. i - Len(c) \in DOMAIN u /\ Batch[i] = u[i - Len(c)]
          BY <3>2, <3>4, <3>7
        <4> QED
          BY <3>6, <4>1
      <3> QED
        BY <3>3, <3>4
    <2> QED
      BY <2>1, <2>2
  <1> QED
    BY <1>2, <1>3

\* What a request sends for local ids is bound, and so names one record each.
LEMMA SentOnce ==
    ASSUME TypeInv, TypeOK', Books, Bindings, NEW m \in Models, Turn(m), Execute(Request(m))
    PROVE  /\ OneRecordPerName'
           /\ \A s \in SentNames' : s.of # 0 =>
                /\ s.of \in 1..issued /\ s.num \in GrantedIds
                /\ Open(s, held, Binding) \/ Closed(s, held, Binding, got)
  <1>0. TypeOK
    BY DEF TypeInv
  <1>1. /\ BoundOnce /\ AnsweredOnce /\ SentBound /\ OneRecordPerName /\ HeldOnce /\ Sending
    BY DEF Bindings, Books, Turn, Sending
  <1>3. Request(m) \in Requests
    BY <1>1, RequestType DEF Sending
  <1>4. SentNames' = SentNames \union {n \in UNION {{e.id, e.ref} : e \in Request(m).inputs} : n.num > 0}
    BY <1>0, <1>1, <1>3, SentAppend
  <1>5. ASSUME NEW s \in SentNames' \ SentNames, s.of # 0
        PROVE  s \in Names /\ s.of \in 1..issued /\ s.num \in GrantedIds /\ Open(s, held, Binding)
    <2>1. PICK e \in Request(m).inputs : s \in {e.id, e.ref} /\ s.num > 0
      BY <1>4, <1>5
    <2>2. PICK i \in Chunk(m) : e = Resolved(Batch[i])
      BY <2>1 DEF Request
    <2>3. i \in DOMAIN Batch
      BY <2>2 DEF Chunk, OfModel
    <2>4. Batch[i] \in Entries /\ Sound(Batch[i].id, held) /\ SoundRef(Batch[i].ref, held)
      BY <1>0, <2>3, BatchSound
    <2>5. e.id = Resolve(Batch[i].id, ids) /\ e.ref = Resolve(Batch[i].ref, ids)
      BY <2>2, <2>4 DEF Resolved, Entries
    <2>6. PICK name \in Names : Sound(name, held) /\ s = Resolve(name, ids)
      BY <2>1, <2>4, <2>5 DEF Entries, SoundRef, Resolve
    <2>7. name.of = s.of
      BY <2>6 DEF Resolve, Names
    <2>8. /\ s \in Names /\ s.of \in 1..issued /\ Open(s, held, Binding)
          /\ -name.num \in 1..Len(Binding) /\ s.num = Binding[-name.num]
      BY <1>0, <1>1, <1>5, <2>6, <2>7, ResolvedOpen
    <2> QED
      BY <1>1, <2>8 DEF BoundOnce
  <1>7. \A s \in SentNames' : s.of # 0 =>
          /\ s.of \in 1..issued /\ s.num \in GrantedIds
          /\ Open(s, held, Binding) \/ Closed(s, held, Binding, got)
    BY <1>1, <1>5 DEF SentBound
  <1>8. SentNames' \subseteq Names
    <2>1. wire' \in Seq(Requests) /\ DOMAIN wire' = 1..Len(wire')
      BY DEF TypeOK
    <2>2. \A r \in ToSet(wire') : r \in Requests
      BY <2>1, ElementOfSeq DEF ToSet
    <2> QED
      BY <2>2 DEF SentNames, Sent, Requests, Entries
  <1>9. OneRecordPerName'
    <2> SUFFICES ASSUME NEW a \in SentNames', NEW b \in SentNames', a.of # 0, b.of # 0
                 PROVE  a.of = b.of <=> a.num = b.num
      BY DEF OneRecordPerName
    <2>1. a \in Names /\ b \in Names /\ held \subseteq Names /\ Len(Binding) \in Nat /\ Len(names) \in Nat
      BY <1>0, <1>8, BindingType, IdleLocals DEF TypeOK
    <2>2. CASE a \in SentNames /\ b \in SentNames
      BY <1>1, <2>2 DEF OneRecordPerName
    <2>3. CASE a \notin SentNames
      BY <1>1, <1>5, <1>7, <2>1, <2>3, OneOfEach
    <2>4. CASE b \notin SentNames
      <3>1. b.of = a.of <=> b.num = a.num
        BY <1>1, <1>5, <1>7, <2>1, <2>4, OneOfEach
      <3> QED
        BY <3>1
    <2> QED
      BY <2>2, <2>3, <2>4
  <1> QED
    BY <1>7, <1>9

LEMMA SendBinds ==
    ASSUME TypeInv, TypeOK', Books, Bindings, NEW m \in Models, Send(m)
    PROVE  Bindings'
  <1>1. /\ Turn(m) /\ Execute(Request(m)) /\ BoundOnce /\ AnsweredOnce
        /\ UNCHANGED <<reserved, phase, got, ids, issued, held, granted>>
    BY DEF Bindings, Send, captureData, callerVars, Execute
  <1>2. Binding' = Binding /\ GrantedIds' = GrantedIds
    BY <1>1 DEF Binding, Sending, GrantedIds
  <1>3. BoundOnce' /\ AnsweredOnce'
    BY <1>1, <1>2 DEF BoundOnce, AnsweredOnce
  <1>4. OneRecordPerName' /\ SentBound'
    BY <1>1, <1>2, SentOnce DEF SentBound
  <1> QED
    BY <1>3, <1>4 DEF Bindings

\* When an apply returns while it sends, what was sent, with its last request
\* too, stays bound or its numbering is over.
LEMMA ReturnBinds ==
    ASSUME TypeOK, Books, Bindings, Sending, NEW r, ApplyOver(r), UNCHANGED captureData,
           granted' = granted, OneRecordPerName',
           \A s \in SentNames' : s.of # 0 =>
                /\ s.of \in 1..issued /\ s.num \in GrantedIds
                /\ Open(s, held, Binding) \/ Closed(s, held, Binding, got)
    PROVE  Bindings'
  <1>1. /\ phase' = "idle" /\ got' = NoIds
        /\ held' = IF stack' = <<>> /\ names' = <<>> /\ reserved' = <<>> THEN {} ELSE held
        /\ GrantedIds' = GrantedIds
        /\ UNCHANGED <<stack, names, reserved, issued>>
    BY DEF ApplyOver, captureData, GrantedIds
  <1>2. /\ names = <<>> /\ got = NoIds
        /\ reserved = IF stack = <<>> THEN <<>> ELSE ids
    BY DEF Books, AllBound, Booked, Sending
  <1>3. AnsweredOnce'
    BY <1>1 DEF AnsweredOnce, NoIds
  <1>4. CASE stack # <<>>
    <2>1. Binding' = Binding /\ held' = held
      BY <1>1, <1>2, <1>4 DEF Binding, Sending
    <2>2. BoundOnce' /\ SentBound'
      BY <1>1, <1>2, <2>1 DEF Bindings, BoundOnce, SentBound
    <2> QED
      BY <1>3, <2>2 DEF Bindings
  <1>5. CASE stack = <<>>
    <2>1. Binding' = <<>> /\ held' = {}
      BY <1>1, <1>2, <1>5 DEF Binding, Sending
    <2>2. BoundOnce'
      BY <2>1 DEF BoundOnce
    <2>3. \A s : Closed(s, {}, <<>>, NoIds)
      BY DEF Closed, NoIds
    <2>4. SentBound'
      BY <1>1, <2>1, <2>3 DEF SentBound
    <2> QED
      BY <1>3, <2>2, <2>4 DEF Bindings
  <1> QED
    BY <1>4, <1>5

LEMMA SendFailsBinds ==
    ASSUME TypeInv, TypeOK', Books, Bindings, NEW m \in Models, SendFails(m)
    PROVE  Bindings'
  <1>1. /\ TypeOK /\ Turn(m) /\ Sending /\ ApplyOver("err") /\ granted' = granted
        /\ UNCHANGED captureData
        /\ Execute(Request(m)) \/ wire' = wire
    BY DEF TypeInv, SendFails, Turn, Sending, ApplyReturns, Execute, serviceVars
  <1>2. CASE Execute(Request(m))
    BY <1>1, <1>2, SentOnce, ReturnBinds
  <1>3. CASE wire' = wire
    <2>1. SentNames' = SentNames
      BY <1>3 DEF SentNames, Sent
    <2> QED
      BY <1>1, <2>1, ReturnBinds DEF Bindings, SentBound, OneRecordPerName
  <1> QED
    BY <1>1, <1>2, <1>3

LEMMA DoneBinds ==
    ASSUME TypeOK, Books, Bindings, ApplyDone
    PROVE  Bindings'
  <1>1. Sending /\ ApplyOver("ok") /\ UNCHANGED <<captureData, granted, wire>>
    BY DEF ApplyDone, Sending, ApplyReturns, serviceVars
  <1>2. SentNames' = SentNames
    BY <1>1 DEF SentNames, Sent
  <1> QED
    BY <1>1, <1>2, ReturnBinds DEF captureData, Bindings, SentBound, OneRecordPerName

\* A new instance binds nothing, and what the one before it bound stays apart.
LEMMA RestartBinds ==
    ASSUME BindingInv, Reinstantiate
    PROVE  Bindings'
  <1>1. /\ phase' = "idle" /\ reserved' = <<>> /\ got' = NoIds /\ held' = {}
        /\ UNCHANGED <<issued, granted, wire>>
    BY DEF Reinstantiate, ApplyOver, serviceVars
  <1>2. Binding' = <<>> /\ GrantedIds' = GrantedIds /\ SentNames' = SentNames
    BY <1>1 DEF Binding, Sending, GrantedIds, SentNames, Sent
  <1>3. BoundOnce' /\ AnsweredOnce'
    BY <1>1, <1>2 DEF BoundOnce, AnsweredOnce, NoIds
  <1>4. \A s : Closed(s, {}, <<>>, NoIds)
    BY DEF Closed, NoIds
  <1>5. SentBound'
    BY <1>1, <1>2, <1>4 DEF BindingInv, SentGranted, SentBound
  <1>6. OneRecordPerName'
    BY <1>2 DEF BindingInv, OneRecordPerName
  <1> QED
    BY <1>3, <1>5, <1>6 DEF Bindings

-----------------------------------------------------------------------------
LEMMA BindingInit == Init => BindingInv
  <1> SUFFICES ASSUME Init PROVE BindingInv
    OBVIOUS
  <1>1. Binding = <<>> /\ got = NoIds /\ wire = <<>>
    BY DEF Init, ServiceInit, Binding, Sending
  <1>2. SentNames = {}
    BY <1>1 DEF SentNames, Sent, ToSet
  <1> QED
    BY <1>1, <1>2 DEF BindingInv, SentGranted, Bindings, BoundOnce, AnsweredOnce, SentBound,
       OneRecordPerName, NoIds

\* A local id in a request that is passed on is not replaced by a record, and is
\* not one of that request's own.
LEMMA PassedNames ==
    ASSUME TypeOK, Books, MayRequest, NEW m \in Models, NEW id \in MayName,
           PassedOn(m, id) \/ NotExecuted
    PROVE  /\ granted' = granted
           /\ \A e \in Sent' \ Sent : e.id.of # e.tok
           /\ \A s \in SentNames' \ SentNames : s.of = 0
  <1>1. CASE PassedOn(m, id)
    <2> DEFINE entry == [tok |-> issued + 1, model |-> m, id |-> id, ref |-> NoName]
               request == [op |-> "raw", model |-> m, inputs |-> {entry}]
    <2>1. Execute(request) /\ issued + 1 \in Mutations /\ issued \in Nat
      BY <1>1 DEF PassedOn, RawRequest, MayRequest, Mutations, TypeOK
    <2>2. entry \in Entries
      BY <2>1, NamesInRange, CallNames DEF Entries
    <2>3. request \in Requests
      BY <2>2 DEF Requests
    <2>4. /\ SentNames' = SentNames \union {n \in UNION {{e.id, e.ref} : e \in {entry}} : n.num > 0}
          /\ Sent' = Sent \union {entry}
      BY <2>1, <2>3, SentAppend
    <2>5. id.of # issued + 1 /\ (id.num > 0 => id.of = 0) /\ NoName.of = 0
      <3>1. CASE id \in RealNames
        BY <2>1, <3>1 DEF RealNames, RealName, NoName
      <3>2. CASE id \in held
        <4>1. id.num \in (-Locals)..(-1) /\ id.of \in 1..issued
          BY <3>2 DEF Books, HeldOnce
        <4> QED
          BY <2>1, <4>1, IdleLocals DEF NoName
      <3> QED
        BY <3>1, <3>2, NamedMay
    <2> QED
      BY <2>1, <2>4, <2>5 DEF Execute
  <1>2. CASE NotExecuted
    BY <1>2 DEF NotExecuted, serviceVars, SentNames, Sent
  <1> QED
    BY <1>1, <1>2

LEMMA CallBinds ==
    ASSUME TypeOK, TypeOK', Books, Bindings, CallCapture, ~Trapped'
    PROVE  Bindings'
  <1>1. issued \in Nat /\ Len(names) \in Nat
    BY LenProperties DEF TypeOK
  <1>2. ASSUME NEW m \in Models, NEW ref, CreateLocal(m, ref) PROVE Bindings'
    <2>1. /\ held' = held \union {[num |-> NextLocal, of |-> issued + 1]} /\ issued' = issued + 1
          /\ UNCHANGED <<phase, reserved, ids, got, granted, wire>>
      BY <1>2 DEF CreateLocal, Capture, applyVars, serviceVars
    <2>2. \A l \in held' \ held : l.of > issued
      BY <1>1, <2>1
    <2>3. Binding' = Binding /\ SentNames' = SentNames
      BY <2>1 DEF Binding, Sending, SentNames, Sent
    <2> QED
      BY <1>1, <2>1, <2>2, <2>3, NothingBound
  <1>3. ASSUME NEW op, NEW m, NEW id, NEW ref, Change(op, m, id, ref) PROVE Bindings'
    <2>1. issued' = issued + 1 /\ UNCHANGED <<phase, reserved, ids, got, granted, wire, held>>
      BY <1>3 DEF Change, Capture, applyVars, serviceVars
    <2>2. Binding' = Binding /\ SentNames' = SentNames
      BY <2>1 DEF Binding, Sending, SentNames, Sent
    <2> QED
      BY <1>1, <2>1, <2>2, NothingBound
  <1>4. ASSUME NEW m \in Models, NEW id \in MayName, PassThrough(m, id) PROVE Bindings'
    <2>1. /\ MayRequest /\ issued' = issued + 1
          /\ PassedOn(m, id) \/ NotExecuted
          /\ UNCHANGED <<phase, reserved, ids, got, held>>
      BY <1>4 DEF PassThrough, captureData, applyVars
    <2>2. granted' = granted /\ \A s \in SentNames' \ SentNames : s.of = 0
      BY <2>1, PassedNames
    <2>3. Binding' = Binding
      BY <2>1 DEF Binding, Sending
    <2> QED
      BY <1>1, <2>1, <2>2, <2>3, NothingBound
  <1>5. CASE StartCapture \/ DiscardCapture \/ ApplyNothing \/ ApplyCapture
    <2>1. /\ UNCHANGED <<reserved, ids, got, granted, wire, held, issued>>
          /\ phase \in {"idle", "reserve"} /\ phase' \in {"idle", "reserve"}
      BY <1>5 DEF StartCapture, DiscardCapture, ApplyNothing, ApplyCapture, captureData, applyVars,
         callerVars, serviceVars
    <2>2. Binding' = Binding /\ SentNames' = SentNames
      BY <2>1 DEF Binding, Sending, SentNames, Sent
    <2> QED
      BY <1>1, <2>1, <2>2, NothingBound
  <1>6. \A m \in Models, id \in MayName : ~PassThroughTraps(m, id)
    BY DEF PassThroughTraps, Trapped
  <1> QED
    BY <1>2, <1>3, <1>4, <1>5, <1>6 DEF CallCapture

LEMMA ApplyBinds ==
    ASSUME ReserveFaults \subseteq {"status"}, TypeInv, TypeInv', Books, Books', Bindings, RunApply,
           ~Trapped'
    PROVE  Bindings'
  <1>1. TypeOK /\ TypeOK'
    BY DEF TypeInv
  <1>2. ASSUME PrepareDeletes PROVE Bindings'
    <2>1. /\ phase = "upsert" /\ phase' = "delete"
          /\ UNCHANGED <<ids, got, granted, wire, held, issued>>
      BY <1>1, <1>2, PrepareDeletesKeepsBooks DEF PrepareDeletes, callerVars, serviceVars
    <2>2. Binding' = Binding /\ SentNames' = SentNames
      BY <2>1 DEF Binding, Sending, SentNames, Sent
    <2>3. issued \in Nat
      BY <1>1 DEF TypeOK
    <2> QED
      BY <1>1, <2>1, <2>2, <2>3, NothingBound
  <1>3. \A m \in Models : ~ReserveTraps(m) /\ ~SendTraps(m)
    BY DEF ReserveTraps, SendTraps, Traps, Trapped
  <1> QED
    BY <1>1, <1>2, <1>3, ApplySteps, ReserveBinds, AssignBinds, SendBinds, SendFailsBinds, DoneBinds

\* The request whose answer loses the instance may have been executed.
LEMMA TrapBinds ==
    ASSUME TypeInv, TypeOK', Books, Bindings, ~Trapped, Trapped', [Next]_vars
    PROVE  OneRecordPerName' /\ SentGranted'
  <1>0. TypeOK /\ issued \in Nat
    BY SMTT(30) DEF TypeInv, TypeOK
  <1>1. TypeOK /\ OneRecordPerName /\ SentBound /\ issued \in Nat
    BY <1>0 DEF Bindings
  <1>2. ASSUME NEW m \in Models, NEW id \in MayName, PassThroughTraps(m, id)
        PROVE  OneRecordPerName' /\ SentGranted'
    <2>1. MayRequest /\ issued' = issued + 1
      BY <1>2 DEF PassThroughTraps
    <2>2. PassedOn(m, id) \/ NotExecuted
      BY <1>2 DEF PassThroughTraps
    <2>3. GrantedIds' = GrantedIds /\ \A s \in SentNames' \ SentNames : s.of = 0
      BY <1>1, <2>1, <2>2, PassedNames DEF GrantedIds
    <2> QED
      BY <1>1, <2>1, <2>3 DEF OneRecordPerName, SentBound, SentGranted
  <1>3. ASSUME NEW m \in Models, ReserveTraps(m)
        PROVE  OneRecordPerName' /\ SentGranted'
    <2>1. wire' = wire /\ issued' = issued
      BY <1>3 DEF ReserveTraps, Reserve, Traps, callerVars, serviceVars
    <2>2. GrantedIds \subseteq GrantedIds'
      BY <1>1, <1>3, GrantedGrows DEF ReserveTraps, GrantedIds, serviceVars
    <2>3. SentNames' = SentNames
      BY <2>1 DEF SentNames, Sent
    <2> QED
      BY <1>1, <2>1, <2>2, <2>3 DEF OneRecordPerName, SentBound, SentGranted
  <1>4. ASSUME NEW m \in Models, SendTraps(m)
        PROVE  OneRecordPerName' /\ SentGranted'
    <2>1. /\ Turn(m) /\ issued' = issued /\ GrantedIds' = GrantedIds
          /\ Execute(Request(m)) \/ wire' = wire
      BY <1>4 DEF SendTraps, Traps, Execute, callerVars, serviceVars, GrantedIds
    <2>2. CASE Execute(Request(m))
      BY <2>1, <2>2, SentOnce DEF SentGranted
    <2>3. CASE wire' = wire
      <3>1. SentNames' = SentNames
        BY <2>3 DEF SentNames, Sent
      <3> QED
        BY <1>1, <2>1, <3>1 DEF OneRecordPerName, SentBound, SentGranted
    <2> QED
      BY <2>1, <2>2, <2>3
  <1> QED
    BY <1>1, <1>2, <1>3, <1>4, TrapSteps

LEMMA BindingStep ==
    ASSUME ReserveFaults \subseteq {"status"}, TypeInv, TypeInv', BooksInv, BooksInv', BindingInv,
           [Next]_vars
    PROVE  BindingInv'
  <1>0. TypeOK /\ TypeOK'
    BY DEF TypeInv
  <1>1. Bindings' => BindingInv'
    BY DEF Bindings, BindingInv, SentBound, SentGranted
  <1>2. CASE UNCHANGED vars
    <2>1. UNCHANGED <<phase, reserved, ids, got, granted, wire, held, issued>>
      BY <1>2 DEF vars, captureData, applyVars, callerVars, serviceVars
    <2>2. Binding' = Binding /\ SentNames' = SentNames /\ GrantedIds' = GrantedIds
      BY <2>1 DEF Binding, Sending, SentNames, Sent, GrantedIds
    <2> QED
      BY <2>1, <2>2 DEF BindingInv, Trapped, Bindings, BoundOnce, AnsweredOnce, SentBound,
         SentGranted, OneRecordPerName
  <1>3. CASE Trapped
    BY <1>1, <1>2, <1>3, TrappedStep, RestartBinds
  <1>4. CASE ~Trapped /\ Trapped'
    BY <1>4, TrapBinds DEF BindingInv, BooksInv, TypeInv
  <1>5. CASE ~Trapped /\ ~Trapped'
    <2>1. Books /\ Books' /\ Bindings
      BY <1>5 DEF BooksInv, BindingInv
    <2>2. ~Reinstantiate
      BY <1>5 DEF Reinstantiate, Trapped
    <2> QED
      BY <1>0, <1>1, <1>2, <1>5, <2>1, <2>2, CallBinds, ApplyBinds DEF Next
  <1> QED
    BY <1>3, <1>4, <1>5

\* What the caller named by one create is one record, and what it named by two
\* is two, in whatever captures the mutations were.
THEOREM OneRecord ==
    ASSUME ReserveFaults \subseteq {"status"}
    PROVE  Spec => []OneRecordPerName
  <1> DEFINE Inv == TypeInv /\ BooksInv /\ BindingInv
  <1>1. Inv /\ [Next]_vars => Inv'
    <2>1. TypeInv /\ BooksInv /\ [Next]_vars => BooksInv'
      BY BooksStep DEF TypeInv
    <2> QED
      BY <2>1, TypeStep, BindingStep
  <1>2. Init => Inv
    BY TypeInit, BooksInit, BindingInit DEF BooksInv
  <1>3. Inv => OneRecordPerName
    BY DEF BindingInv
  <1> QED
    BY <1>1, <1>2, <1>3, PTL DEF Spec

-----------------------------------------------------------------------------
(***************************************************************************)
(* A record created under a local id gets an id of its own model: the      *)
(* local id is among the names of its model until ids that were reserved   *)
(* for that model are given out.                                           *)
(***************************************************************************)
LEMMA EntriesOfType ==
    ASSUME NEW c \in Captures
    PROVE  \A e \in EntriesOf(c) : \E op \in Operations : \E i \in DOMAIN c[op] :
               e = c[op][i] /\ e \in Entries
  <1> SUFFICES ASSUME NEW e \in EntriesOf(c)
               PROVE  \E op \in Operations : \E i \in DOMAIN c[op] : e = c[op][i] /\ e \in Entries
    OBVIOUS
  <1>1. PICK op \in Operations : e \in ToSet(c[op])
    BY DEF EntriesOf
  <1>2. PICK i \in DOMAIN c[op] : e = c[op][i]
    BY <1>1 DEF ToSet
  <1>3. c[op] \in Seq(Entries) /\ i \in 1..Len(c[op])
    BY <1>2 DEF Captures
  <1> QED
    BY <1>2, <1>3, ElementOfSeq

\* What is stored are mutations that name local ids the caller was given.
LEMMA StoredNamesHeld ==
    ASSUME TypeOK, CapturesSound, NEW e \in Stored
    PROVE  e \in Entries /\ Sound(e.id, held)
  <1>1. ASSUME NEW c \in Captures, SoundCapture(c, held), e \in EntriesOf(c)
        PROVE  e \in Entries /\ Sound(e.id, held)
    <2>1. PICK op \in Operations : \E i \in DOMAIN c[op] : e = c[op][i] /\ e \in Entries
      BY <1>1, EntriesOfType
    <2> QED
      BY <1>1, <2>1 DEF SoundCapture
  <1>2. CASE e \in EntriesOf(taken)
    BY <1>1, <1>2 DEF CapturesSound, TypeOK
  <1>3. CASE e \notin EntriesOf(taken)
    <2>1. PICK i \in DOMAIN stack : e \in EntriesOf(stack[i])
      BY <1>3 DEF Stored, ToSet
    <2>2. i \in 1..Len(stack) /\ stack[i] \in Captures
      BY ElementOfSeq DEF TypeOK
    <2> QED
      BY <1>1, <2>1, <2>2 DEF CapturesSound
  <1> QED
    BY <1>2, <1>3

\* The id of a stored create that was answered with a local id is that local id.
LEMMA CreatesNumbered ==
    ASSUME TypeOK, Books, NEW e \in Stored, e.id.of = e.tok
    PROVE  /\ e.id \in held /\ e.id.num \in Int /\ -e.id.num \in 1..Locals
           /\ e.tok \in 1..issued /\ e.model \in Models
  <1>1. e \in Entries /\ Sound(e.id, held) /\ HeldOnce
    BY StoredNamesHeld DEF Books
  <1>2. e.tok \in Nat \ {0} /\ e.id.num \in Int /\ e.model \in Models
    BY <1>1 DEF Entries, Mutations, Names
  <1>3. e.id \in held
    BY <1>1, <1>2 DEF Sound
  <1> QED
    BY <1>1, <1>2, <1>3, IdleLocals, SMTT(30) DEF HeldOnce

LEMMA ModelsKept ==
    ASSUME Meanings, Stored' \subseteq Stored, Binding' = Binding,
           UNCHANGED <<names, got, granted>>, \A e \in Sent' \ Sent : e.id.of # e.tok
    PROVE  Meanings'
  <1>1. \A m : ReservedFor(m)' = ReservedFor(m)
    BY DEF ReservedFor
  <1>2. AnsweredFor'
    BY <1>1 DEF Meanings, AnsweredFor
  <1>3. \A local, m : Means(local, m)' = Means(local, m)
    BY <1>1 DEF Means
  <1>4. CreatesMean'
    BY <1>3 DEF Meanings, CreatesMean
  <1>5. RecordOfItsModel'
    BY <1>1 DEF Meanings, RecordOfItsModel
  <1> QED
    BY <1>2, <1>4, <1>5 DEF Meanings

LEMMA ModelInit == Init => ModelInv
  <1> SUFFICES ASSUME Init PROVE ModelInv
    OBVIOUS
  <1>1. stack = <<>> /\ taken = NoEntries /\ got = NoIds /\ wire = <<>>
    BY DEF Init, ServiceInit
  <1>2. Sent = {} /\ Stored = {}
    BY <1>1 DEF Sent, Stored, ToSet, EntriesOf, NoEntries
  <1> QED
    BY <1>1, <1>2 DEF ModelInv, Meanings, AnsweredFor, CreatesMean, RecordOfItsModel, NoIds

\* Only storing adds to what is stored.
LEMMA StoreAdds ==
    ASSUME TypeOK, stack # <<>>, NEW op \in Operations, NEW e \in Entries, taken' = taken,
           stack' = [stack EXCEPT ![Len(stack)][op] = Append(@, e)]
    PROVE  Stored' \subseteq Stored \union {e}
  <1> DEFINE n == Len(stack)
             top == [stack[n] EXCEPT ![op] = Append(@, e)]
  <1>1. n \in DOMAIN stack /\ stack[n] \in Captures
    BY StackTop DEF TypeOK
  <1>2. DOMAIN stack' = DOMAIN stack /\ \A i \in DOMAIN stack : stack'[i] = IF i = n THEN top ELSE stack[i]
    <2>1. stack' = [stack EXCEPT ![n] = top]
      OBVIOUS
    <2> HIDE DEF n, top
    <2> QED
      BY <2>1
  <1>3. EntriesOf(top) \subseteq EntriesOf(stack[n]) \union {e}
    <2> DEFINE c == stack[n]
    <2>1. c \in Captures /\ top = [c EXCEPT ![op] = Append(c[op], e)]
      BY <1>1
    <2> HIDE DEF c, top, n
    <2> SUFFICES ASSUME NEW q \in Operations, NEW x \in ToSet(top[q]) PROVE x \in ToSet(c[q]) \union {e}
      BY DEF EntriesOf, c
    <2>2. c[op] \in Seq(Entries) /\ c[q] \in Seq(Entries)
      BY <2>1 DEF Captures
    <2>3. top[q] = IF q = op THEN Append(c[op], e) ELSE c[q]
      BY <2>1 DEF Captures
    <2>4. PICK i \in DOMAIN top[q] : x = top[q][i]
      BY DEF ToSet
    <2>5. CASE q = op
      <3> DEFINE s == c[op]
      <3>1. s \in Seq(Entries) /\ Len(s) \in Nat /\ DOMAIN s = 1..Len(s) /\ i \in DOMAIN Append(s, e)
            /\ x = Append(s, e)[i]
        BY <2>2, <2>3, <2>4, <2>5, LenProperties
      <3>2. /\ i \in 1..(Len(s) + 1) /\ (i \in 1..Len(s) => x = s[i])
            /\ (i = Len(s) + 1 => x = e)
        BY <3>1, AppendProperties
      <3>3. x = e \/ x \in ToSet(s)
        BY <3>1, <3>2 DEF ToSet
      <3> QED
        BY <2>5, <3>3
    <2>6. CASE q # op
      BY <2>3, <2>6
    <2> QED
      BY <2>5, <2>6
  <1>4. ASSUME NEW i \in DOMAIN stack PROVE EntriesOf(stack'[i]) \subseteq Stored \union {e}
    <2>1. EntriesOf(stack[i]) \subseteq Stored
      BY DEF Stored, ToSet
    <2> HIDE DEF top, n
    <2>2. CASE i = n
      BY <1>2, <1>3, <2>1, <2>2
    <2>3. CASE i # n
      BY <1>2, <2>1, <2>3
    <2> QED
      BY <2>2, <2>3
  <1> HIDE DEF top, n
  <1>5. ASSUME NEW c \in ToSet(stack') PROVE EntriesOf(c) \subseteq Stored \union {e}
    <2>1. PICK i \in DOMAIN stack' : c = stack'[i]
      BY DEF ToSet
    <2> QED
      BY <1>2, <1>4, <2>1
  <1> QED
    BY <1>5 DEF Stored

LEMMA PopKeeps ==
    ASSUME TypeOK, stack # <<>>
    PROVE  /\ EntriesOf(Last(stack)) \subseteq Stored
           /\ UNION {EntriesOf(c) : c \in ToSet(Front(stack))} \subseteq Stored
  <1>1. /\ stack \in Seq(Captures) /\ DOMAIN stack = 1..Len(stack) /\ Len(stack) \in Nat \ {0}
        /\ Front(stack) \in Seq(Captures)
        /\ Len(Front(stack)) = Len(stack) - 1
        /\ \A i \in 1..Len(Front(stack)) : Front(stack)[i] = stack[i]
    BY FrontLast, LenProperties DEF TypeOK
  <1>2. DOMAIN Front(stack) = 1..Len(Front(stack))
    BY <1>1, LenProperties
  <1>3. Last(stack) \in ToSet(stack)
    BY <1>1 DEF Last, ToSet
  <1>4. ToSet(Front(stack)) \subseteq ToSet(stack)
    BY <1>1, <1>2 DEF ToSet
  <1> QED
    BY <1>3, <1>4 DEF Stored

\* A create that gets the next local id is the only one of that number.
LEMMA CreateMeans ==
    ASSUME TypeOK, Books, Meanings, NEW m \in Models, NEW ref \in MayRefer, CreateLocal(m, ref)
    PROVE  Meanings'
  <1> DEFINE local == [num |-> NextLocal, of |-> issued + 1]
             entry == [tok |-> issued + 1, model |-> m, id |-> local, ref |-> ref]
             n == Len(names)
             k == Len(reserved)
  <1>1. /\ phase = "idle" /\ phase' = "idle" /\ stack # <<>> /\ names' = Append(names, m)
        /\ stack' = [stack EXCEPT ![Len(stack)]["create"] = Append(@, entry)]
        /\ issued + 1 \in Mutations /\ NextLocal = -(n + 1 + k)
        /\ UNCHANGED <<reserved, taken, ids, got, granted, wire>>
    <2>1. MayCapture /\ names' = Append(names, m) /\ Capture("create", entry)
      BY DEF CreateLocal
    <2>2. NextLocal = -(n + 1 + k)
      BY DEF NextLocal
    <2>3. phase = "idle" /\ stack # <<>> /\ issued + 1 \in Mutations
      BY <2>1 DEF MayCapture, MayRequest, Mutations, TypeOK
    <2>4. /\ phase' = phase
          /\ stack' = [stack EXCEPT ![Len(stack)]["create"] = Append(@, entry)]
          /\ UNCHANGED <<reserved, taken, ids, got, granted, wire>>
      BY <2>1 DEF Capture, applyVars, serviceVars
    <2> HIDE DEF entry
    <2> QED
      BY <2>1, <2>2, <2>3, <2>4
  <1>2. /\ n \in Nat /\ k \in Nat /\ names \in Seq(Models) /\ Binding = reserved /\ Binding' = Binding
        /\ Locals = k + n
    BY <1>1, IdleLocals DEF Binding, Sending, TypeOK
  <1>3. local \in Names /\ entry \in Entries
    <2>1. ref \in Names
      BY CallNames
    <2>2. local \in Names
      BY <1>1, <1>2 DEF Names, Mutations
    <2> QED
      BY <1>1, <2>1, <2>2 DEF Entries
  <1>4. Stored' \subseteq Stored \union {entry}
    BY <1>1, <1>3, StoreAdds DEF Operations
  <1>5. \A q : ReservedFor(q)' = ReservedFor(q)
    BY <1>1 DEF ReservedFor
  <1>6. AnsweredFor' /\ RecordOfItsModel'
    BY <1>1, <1>5 DEF Meanings, AnsweredFor, RecordOfItsModel, Sent
  <1>7. /\ \A i \in 1..n : names'[i] = names[i]
        /\ names'[n + 1] = m
    BY <1>1, <1>2, AppendProperties
  <1>8. ASSUME NEW e \in Stored', e.id.of = e.tok PROVE Means(e.id, e.model)'
    <2>1. CASE e = entry
      <3>1. -e.id.num = n + 1 + k /\ e.model = m
        BY <1>1, <1>2, <2>1
      <3> HIDE DEF entry, local, n, k
      <3>2. ~(-e.id.num <= Len(Binding')) /\ -e.id.num - Len(Binding') = n + 1
        BY <1>2, <3>1 DEF n, k
      <3> QED
        BY <1>7, <3>1, <3>2 DEF Means
    <2>2. CASE e # entry
      <3>1. e \in Stored
        BY <1>4, <2>2
      <3> DEFINE p == -e.id.num
      <3>2. p \in 1..(k + n) /\ Means(e.id, e.model)
        BY <1>2, <1>8, <3>1, CreatesNumbered DEF Meanings, CreatesMean
      <3> HIDE DEF entry, local, p
      <3>3. p <= k \/ p - k \in 1..n
        BY <1>2, <3>2
      <3> QED
        BY <1>2, <1>5, <1>7, <3>2, <3>3 DEF Means, p
    <2> QED
      BY <2>1, <2>2
  <1> QED
    BY <1>6, <1>8 DEF Meanings, CreatesMean

\* No other call stores a create that is to have a local id.
LEMMA CallMeans ==
    ASSUME TypeOK, Books, Meanings, CallCapture, ~Trapped'
    PROVE  Meanings'
  <1>1. ASSUME NEW op \in Operations, NEW m \in Models, NEW id \in MayName,
               NEW ref \in MayRefer, Change(op, m, id, ref)
        PROVE  Meanings'
    <2> DEFINE entry == [tok |-> issued + 1, model |-> m, id |-> id, ref |-> ref]
    <2>1. /\ phase = "idle" /\ phase' = "idle" /\ stack # <<>>
          /\ stack' = [stack EXCEPT ![Len(stack)][op] = Append(@, entry)]
          /\ UNCHANGED <<names, reserved, taken, ids, got, granted, wire>>
      BY <1>1 DEF Change, MayCapture, MayRequest, Capture, applyVars, serviceVars
    <2>2. issued + 1 \in Mutations /\ issued \in Nat
      BY <1>1, CaptureAssumption DEF Change, MayCapture, MayRequest, Mutations, TypeOK
    <2>3. entry \in Entries
      BY <2>1, <2>2, CallNames DEF Entries
    <2>4. Stored' \subseteq Stored \union {entry}
      BY <2>1, <2>2, <2>3, StoreAdds, ZenonT(40)
    <2>5. id.of # issued + 1
      BY <2>1, <2>2, NamedMay DEF Books, HeldOnce, RealNames, RealName
    <2>6. \A q : ReservedFor(q)' = ReservedFor(q)
      BY <2>1 DEF ReservedFor
    <2>7. \A local, q : Means(local, q)' = Means(local, q)
      BY <2>1, <2>6 DEF Means, Binding, Sending
    <2>8. AnsweredFor' /\ RecordOfItsModel'
      BY <2>1, <2>6 DEF Meanings, AnsweredFor, RecordOfItsModel, Sent
    <2>9. CreatesMean'
      BY <2>4, <2>5, <2>7 DEF Meanings, CreatesMean
    <2> QED
      BY <2>8, <2>9 DEF Meanings
  <1>2. ASSUME NEW m \in Models, NEW id \in MayName, PassThrough(m, id) PROVE Meanings'
    <2>1. /\ MayRequest
          /\ PassedOn(m, id) \/ NotExecuted
          /\ UNCHANGED <<stack, names, reserved, phase, taken, ids, got>>
      BY <1>2 DEF PassThrough, captureData, applyVars
    <2>2. granted' = granted /\ \A e \in Sent' \ Sent : e.id.of # e.tok
      BY <2>1, PassedNames
    <2>3. Stored' = Stored /\ Binding' = Binding
      BY <2>1 DEF Stored, Binding, Sending
    <2> QED
      BY <2>1, <2>2, <2>3, ModelsKept
  <1>3. ASSUME \/ StartCapture
               \/ DiscardCapture
               \/ ApplyNothing
               \/ ApplyCapture
        PROVE  Meanings'
    <2>1. /\ UNCHANGED <<names, reserved, ids, got, granted, wire>>
          /\ phase \in {"idle", "reserve"} /\ phase' \in {"idle", "reserve"}
      BY <1>3 DEF StartCapture, DiscardCapture, ApplyNothing, ApplyCapture, captureData, applyVars,
         callerVars, serviceVars
    <2>2. Binding' = Binding /\ Sent' = Sent
      BY <2>1 DEF Binding, Sending, Sent
    <2>3. CASE StartCapture
      <3>1. /\ stack' = Append(stack, NoEntries) /\ taken' = taken /\ stack \in Seq(Captures)
            /\ Len(stack) \in Nat /\ DOMAIN stack = 1..Len(stack)
        BY <2>3, LenProperties DEF StartCapture, applyVars, TypeOK
      <3>2. ToSet(stack') \subseteq ToSet(stack) \union {NoEntries}
        BY <3>1, AppendProperties, NoEntriesType DEF ToSet
      <3>3. EntriesOf(NoEntries) = {}
        BY DEF EntriesOf, NoEntries, ToSet
      <3>4. Stored' \subseteq Stored
        BY <3>1, <3>2, <3>3 DEF Stored
      <3> QED
        BY <2>1, <2>2, <3>4, ModelsKept
    <2>4. CASE DiscardCapture
      <3>1. stack # <<>> /\ stack' = Front(stack) /\ taken' = taken
        BY <2>4 DEF DiscardCapture, applyVars
      <3>2. Stored' \subseteq Stored
        BY <3>1, PopKeeps DEF Stored
      <3> QED
        BY <2>1, <2>2, <3>2, ModelsKept
    <2>5. CASE ApplyCapture
      <3>1. stack # <<>> /\ stack' = Front(stack) /\ taken' = Last(stack)
        BY <2>5 DEF ApplyCapture
      <3>2. Stored' \subseteq Stored
        BY <3>1, PopKeeps DEF Stored
      <3> QED
        BY <2>1, <2>2, <3>2, ModelsKept
    <2>6. CASE ApplyNothing
      <3>1. Stored' = Stored
        BY <2>6 DEF ApplyNothing, captureData, applyVars, Stored
      <3> QED
        BY <2>1, <2>2, <3>1, ModelsKept
    <2> QED
      BY <1>3, <2>3, <2>4, <2>5, <2>6
  <1>4. \A m \in Models, id \in MayName : ~PassThroughTraps(m, id)
    BY DEF PassThroughTraps, Trapped
  <1>5. NoName \in MayRefer /\ RealNames \subseteq MayName
    BY NamedMay DEF MayRefer
  <1>6. ASSUME NEW m \in Models, NEW ref \in MayRefer, CreateLocal(m, ref) PROVE Meanings'
    BY <1>6, CreateMeans
  <1> QED
    BY <1>1, <1>2, <1>3, <1>4, <1>5, <1>6 DEF CallCapture, Operations

-----------------------------------------------------------------------------
(***************************************************************************)
(* Ids are reserved, given out and sent for the model of their name.       *)
(***************************************************************************)
LEMMA ReserveMeans ==
    ASSUME TypeOK, Books, Meanings, NEW m \in Models, ReserveIds(m)
    PROVE  Meanings'
  <1> DEFINE n == due[m]
             g == Len(granted)
  <1>1. /\ n \in Nat \ {0} /\ g \in Nat /\ got' = [got EXCEPT ![m] = FreshIds(n)]
        /\ Reserve(m, n)
        /\ UNCHANGED <<stack, names, reserved, phase, taken, ids, wire>>
    BY BindingType DEF ReserveIds, Reserve, captureData, TypeOK
  <1>2. /\ Len(granted') = g + n
        /\ \A i \in 1..(g + n) : granted'[i] = IF i <= g THEN granted[i] ELSE m
        /\ \A q : ReservedFor(q) \subseteq ReservedFor(q)'
    BY <1>1, GrantedGrows
  <1>3. \A q : ReservedFor(q) \subseteq ReservedFor(q)'
    BY <1>2
  <1>4. Binding' = Binding /\ Stored' = Stored /\ Sent' = Sent
    BY <1>1 DEF Binding, Sending, Stored, Sent
  <1>5. CreatesMean' /\ RecordOfItsModel'
    <2>1. \A local, q : Means(local, q) => Means(local, q)'
      BY <1>1, <1>3, <1>4 DEF Means
    <2> QED
      BY <1>3, <1>4, <2>1 DEF Meanings, CreatesMean, RecordOfItsModel
  <1>6. ASSUME NEW q \in Models, NEW i \in 1..Len(got'[q]) PROVE got'[q][i] \in ReservedFor(q)'
    <2>1. CASE q = m
      <3>1. got'[m] = FreshIds(n) /\ Len(FreshIds(n)) = n
        BY <1>1, ReserveType DEF TypeOK
      <3>2. i \in 1..n /\ got'[q][i] = Existing + (g + i)
        BY <1>1, <2>1, <3>1 DEF FreshIds
      <3>3. g + i \in 1..Len(granted') /\ granted'[g + i] = m
        BY <1>1, <1>2, <3>2
      <3> HIDE DEF n, g
      <3> QED
        BY <2>1, <3>2, <3>3 DEF ReservedFor
    <2>2. CASE q # m
      <3>1. got'[q] = got[q]
        BY <1>1, <2>2 DEF TypeOK
      <3> QED
        BY <1>3, <3>1 DEF Meanings, AnsweredFor
    <2> QED
      BY <2>1, <2>2
  <1> QED
    BY <1>5, <1>6 DEF Meanings, AnsweredFor

LEMMA AssignMeans ==
    ASSUME TypeOK, Books, Books', Meanings, AssignIds
    PROVE  Meanings'
  <1> DEFINE given == Given(Len(names))
             k == Len(reserved)
             n == Len(names)
  <1>1. /\ phase = "reserve" /\ phase' = "upsert" /\ AllServed
        /\ ids' = reserved \o given /\ got' = NoIds
        /\ UNCHANGED <<stack, taken, granted, wire>>
    BY AssignKeepsBooks DEF AssignIds, AllAnswered, AllIds, callerVars, serviceVars
  <1>2. /\ given \in Seq(Int) /\ Len(given) = n
        /\ \A i \in 1..n : names[i] \in Models /\ given[i] \in ReservedFor(names[i])
    <2>1. /\ given \in Seq(Int) /\ Len(given) = n
          /\ \A i \in 1..n :
               /\ names[i] \in Models /\ Rank(i) \in 1..Len(got[names[i]])
               /\ given[i] = got[names[i]][Rank(i)]
      BY <1>1, GivenAnswered
    <2> HIDE DEF given, n
    <2> QED
      BY <2>1 DEF Meanings, AnsweredFor
  <1>3. /\ n \in Nat /\ k \in Nat /\ reserved \in Seq(Int) /\ Binding = reserved /\ Binding' = ids'
        /\ Locals = k + n
    BY <1>1, IdleLocals DEF Binding, Sending, TypeOK
  <1> HIDE DEF given
  <1>4. /\ Len(ids') = k + n
        /\ \A i \in 1..(k + n) : ids'[i] = IF i <= k THEN reserved[i] ELSE given[i - k]
    BY <1>1, <1>2, <1>3, ConcatInts
  <1>5. Stored' = Stored /\ \A q : ReservedFor(q)' = ReservedFor(q)
    BY <1>1 DEF Stored, ReservedFor
  <1>6. AnsweredFor' /\ RecordOfItsModel'
    BY <1>1, <1>5 DEF Meanings, AnsweredFor, RecordOfItsModel, Sent, NoIds
  <1>7. ASSUME NEW e \in Stored, e.id.of = e.tok PROVE Means(e.id, e.model)'
    <2> DEFINE p == -e.id.num
    <2>1. p \in 1..(k + n) /\ Means(e.id, e.model)
      BY <1>3, <1>7, CreatesNumbered DEF Meanings, CreatesMean
    <2> HIDE DEF p
    <2>2. ids'[p] \in ReservedFor(e.model)
      <3>1. CASE p <= k
        BY <1>3, <1>4, <2>1, <3>1 DEF Means, p
      <3>2. CASE ~(p <= k)
        <4>1. p - k \in 1..n /\ names[p - k] = e.model /\ ids'[p] = given[p - k]
          BY <1>3, <1>4, <2>1, <3>2 DEF Means, p
        <4> QED
          BY <1>2, <4>1
      <3> QED
        BY <3>1, <3>2
    <2> QED
      BY <1>3, <1>4, <1>5, <2>1, <2>2 DEF Means, p
  <1> QED
    BY <1>5, <1>6, <1>7 DEF Meanings, CreatesMean

LEMMA SentOfItsModel ==
    ASSUME TypeInv, Books, Meanings, NEW m \in Models, Turn(m), Execute(Request(m))
    PROVE  RecordOfItsModel'
  <1>0. TypeOK
    BY DEF TypeInv
  <1>1. Sending /\ Binding = ids /\ names = <<>> /\ granted' = granted
    BY DEF Books, AllBound, Turn, Sending, Binding, Execute
  <1>2. Sent' = Sent \union Request(m).inputs
    BY <1>0, <1>1, RequestType, SentAppend DEF Sending
  <1>3. ASSUME NEW e \in Request(m).inputs, e.id.of = e.tok
        PROVE  e.id.num \in ReservedFor(e.model)
    <2>1. PICK i \in Chunk(m) : e = Resolved(Batch[i])
      BY DEF Request
    <2> DEFINE b == Batch[i]
    <2>2. i \in DOMAIN Batch
      BY DEF Chunk, OfModel
    <2>3. b \in Entries /\ \E op \in Operations : \E j \in DOMAIN taken[op] : b = taken[op][j]
      BY <1>0, <2>2, BatchSound
    <2>4. b \in Stored
      BY <2>3 DEF Stored, EntriesOf, ToSet
    <2>5. e = Resolved(b)
      BY <2>1
    <2> HIDE DEF b
    <2>6. /\ e.id = Resolve(b.id, ids) /\ e.model = b.model /\ e.tok = b.tok
      BY <2>3, <2>5 DEF Resolved, Entries
    <2>7. b.id \in Names
      BY <2>3 DEF Entries
    <2>8. b.id.of = b.tok
      BY <1>3, <2>6, <2>7 DEF Resolve, Names
    <2>9. /\ b.id.num \in Int /\ -b.id.num \in 1..Locals /\ Means(b.id, b.model)
      BY <1>0, <2>4, <2>8, CreatesNumbered DEF Meanings, CreatesMean
    <2>10. Locals = Len(ids) /\ Len(ids) \in Nat
      <3>1. Len(names) = 0
        BY <1>1
      <3> QED
        BY <1>0, <1>1, <3>1, IdleLocals DEF Locals
    <2>11. ids[-b.id.num] \in ReservedFor(b.model)
      BY <1>1, <2>9, <2>10 DEF Means
    <2>12. e.id.num = ids[-b.id.num]
      BY <2>6, <2>7, <2>9, <2>10 DEF Resolve, Names
    <2> QED
      BY <2>6, <2>11, <2>12
  <1>4. \A q : ReservedFor(q)' = ReservedFor(q)
    BY <1>1 DEF ReservedFor
  <1> QED
    BY <1>2, <1>3, <1>4 DEF Meanings, RecordOfItsModel

LEMMA SendMeans ==
    ASSUME TypeInv, Books, Meanings, NEW m \in Models, Send(m)
    PROVE  Meanings'
  <1>1. /\ Turn(m) /\ Execute(Request(m))
        /\ UNCHANGED <<stack, names, reserved, phase, taken, got, ids, granted>>
    BY DEF Send, captureData, Execute
  <1>2. \A q : ReservedFor(q)' = ReservedFor(q)
    BY <1>1 DEF ReservedFor
  <1>3. RecordOfItsModel'
    BY <1>1, SentOfItsModel
  <1>4. Stored' = Stored /\ \A local, q : Means(local, q)' = Means(local, q)
    BY <1>1, <1>2 DEF Stored, Means, Binding, Sending
  <1> QED
    BY <1>1, <1>2, <1>3, <1>4 DEF Meanings, AnsweredFor, CreatesMean

\* When an apply returns the numbering goes on, or nothing is stored any more.
LEMMA ReturnMeans ==
    ASSUME TypeOK, Books, Meanings, Sending, NEW r, ApplyOver(r), UNCHANGED captureData,
           granted' = granted, RecordOfItsModel'
    PROVE  Meanings'
  <1>1. /\ phase' = "idle" /\ taken' = NoEntries /\ got' = NoIds
        /\ names = <<>> /\ reserved = IF stack = <<>> THEN <<>> ELSE ids
        /\ UNCHANGED <<stack, names, reserved>>
    BY DEF ApplyOver, captureData, Books, AllBound
  <1>2. EntriesOf(NoEntries) = {}
    BY DEF EntriesOf, NoEntries, ToSet
  <1>3. \A q : ReservedFor(q)' = ReservedFor(q)
    BY DEF ReservedFor
  <1>4. AnsweredFor'
    BY <1>1 DEF AnsweredFor, NoIds
  <1>5. CASE stack = <<>>
    <2>1. Stored' = {}
      BY <1>1, <1>2, <1>5 DEF Stored, ToSet
    <2> QED
      BY <1>4, <2>1 DEF Meanings, CreatesMean
  <1>6. CASE stack # <<>>
    <2>1. Binding' = Binding
      BY <1>1, <1>6 DEF Binding, Sending
    <2>2. Stored' \subseteq Stored
      BY <1>1, <1>2 DEF Stored
    <2>3. \A local, q : Means(local, q)' = Means(local, q)
      BY <1>1, <1>3, <2>1 DEF Means
    <2> QED
      BY <1>4, <2>2, <2>3 DEF Meanings, CreatesMean
  <1> QED
    BY <1>5, <1>6

LEMMA ApplyMeans ==
    ASSUME ReserveFaults \subseteq {"status"}, TypeInv, Books, Books', Meanings, RunApply, ~Trapped'
    PROVE  Meanings'
  <1>0. TypeOK
    BY DEF TypeInv
  <1>1. ASSUME PrepareDeletes PROVE Meanings'
    <2>1. /\ phase = "upsert" /\ phase' = "delete"
          /\ UNCHANGED <<stack, names, taken, ids, got, granted, wire>>
      BY <1>0, <1>1, PrepareDeletesKeepsBooks DEF PrepareDeletes, captureData, serviceVars
    <2>2. Binding' = Binding /\ Stored' = Stored /\ Sent' = Sent
      BY <2>1 DEF Binding, Sending, Stored, Sent
    <2> QED
      BY <2>1, <2>2, ModelsKept
  <1>2. ASSUME NEW m \in Models, SendFails(m) PROVE Meanings'
    <2>1. /\ Turn(m) /\ Sending /\ ApplyOver("err") /\ UNCHANGED captureData /\ granted' = granted
          /\ Execute(Request(m)) \/ wire' = wire
      BY <1>2 DEF SendFails, Turn, Sending, ApplyReturns, Execute, serviceVars
    <2>2. RecordOfItsModel'
      <3>1. CASE Execute(Request(m))
        BY <2>1, <3>1, SentOfItsModel
      <3>2. CASE wire' = wire
        BY <2>1, <3>2 DEF Meanings, RecordOfItsModel, Sent, ReservedFor
      <3> QED
        BY <2>1, <3>1, <3>2
    <2> QED
      BY <1>0, <2>1, <2>2, ReturnMeans
  <1>3. ASSUME ApplyDone PROVE Meanings'
    <2>1. Sending /\ ApplyOver("ok") /\ UNCHANGED <<captureData, granted, wire>>
      BY <1>3 DEF ApplyDone, Sending, ApplyReturns, serviceVars
    <2>2. RecordOfItsModel'
      BY <2>1 DEF Meanings, RecordOfItsModel, Sent, ReservedFor
    <2> QED
      BY <1>0, <2>1, <2>2, ReturnMeans DEF captureData
  <1>4. \A m \in Models : ~ReserveTraps(m) /\ ~SendTraps(m)
    BY DEF ReserveTraps, SendTraps, Traps, Trapped
  <1> QED
    BY <1>0, <1>1, <1>2, <1>3, <1>4, ApplySteps, ReserveMeans, AssignMeans, SendMeans

\* The request whose answer loses the instance may have been executed.
LEMMA TrapMeans ==
    ASSUME TypeInv, Books, Meanings, ~Trapped, Trapped', [Next]_vars
    PROVE  RecordOfItsModel'
  <1>0. TypeOK /\ RecordOfItsModel
    BY DEF TypeInv, Meanings
  <1>1. ASSUME NEW m \in Models, NEW id \in MayName, PassThroughTraps(m, id)
        PROVE  RecordOfItsModel'
    <2>1. MayRequest
      BY <1>1 DEF PassThroughTraps
    <2>2. PassedOn(m, id) \/ NotExecuted
      BY <1>1 DEF PassThroughTraps
    <2>3. granted' = granted /\ \A e \in Sent' \ Sent : e.id.of # e.tok
      BY <1>0, <2>1, <2>2, PassedNames
    <2> QED
      BY <1>0, <2>3 DEF RecordOfItsModel, ReservedFor
  <1>2. ASSUME NEW m \in Models, ReserveTraps(m)
        PROVE  RecordOfItsModel'
    <2>1. wire' = wire
      BY <1>2 DEF ReserveTraps, Reserve, serviceVars
    <2>2. \A q : ReservedFor(q) \subseteq ReservedFor(q)'
      BY <1>0, <1>2, GrantedGrows DEF ReserveTraps, ReservedFor, serviceVars
    <2> QED
      BY <1>0, <2>1, <2>2 DEF RecordOfItsModel, Sent
  <1>3. ASSUME NEW m \in Models, SendTraps(m)
        PROVE  RecordOfItsModel'
    <2>1. Turn(m) /\ granted' = granted
      BY <1>3 DEF SendTraps, Execute, serviceVars
    <2>2. CASE Execute(Request(m))
      BY <2>1, <2>2, SentOfItsModel
    <2>3. CASE UNCHANGED serviceVars
      BY <1>0, <2>3 DEF RecordOfItsModel, Sent, ReservedFor, serviceVars
    <2> QED
      BY <1>3, <2>2, <2>3 DEF SendTraps
  <1> QED
    BY <1>0, <1>1, <1>2, <1>3, TrapSteps

LEMMA RestartMeans ==
    ASSUME RecordOfItsModel, Reinstantiate
    PROVE  Meanings'
  <1>1. /\ stack' = <<>> /\ taken' = NoEntries /\ got' = NoIds /\ UNCHANGED <<granted, wire>>
    BY DEF Reinstantiate, ApplyOver, serviceVars
  <1>2. Stored' = {}
    BY <1>1 DEF Stored, EntriesOf, NoEntries, ToSet
  <1>3. RecordOfItsModel'
    BY <1>1 DEF RecordOfItsModel, Sent, ReservedFor
  <1> QED
    BY <1>1, <1>2, <1>3 DEF Meanings, AnsweredFor, CreatesMean, NoIds

LEMMA ModelStep ==
    ASSUME ReserveFaults \subseteq {"status"}, TypeInv, BooksInv, BooksInv', ModelInv, [Next]_vars
    PROVE  ModelInv'
  <1>1. Meanings' => ModelInv'
    BY DEF Meanings, ModelInv
  <1>2. CASE UNCHANGED vars
    <2>1. UNCHANGED <<stack, names, reserved, phase, taken, got, ids, granted, wire>>
      BY <1>2 DEF vars, captureData, applyVars, callerVars, serviceVars
    <2>2. /\ Binding' = Binding /\ Stored' = Stored /\ Sent' = Sent
          /\ \A q : ReservedFor(q)' = ReservedFor(q)
      BY <2>1 DEF Binding, Sending, Stored, Sent, ReservedFor
    <2>3. RecordOfItsModel' /\ (Trapped' => Trapped)
      BY <2>1, <2>2 DEF ModelInv, RecordOfItsModel, Trapped
    <2>4. ~Trapped => Meanings'
      BY <2>1, <2>2, ModelsKept DEF ModelInv
    <2> QED
      BY <2>1, <2>3, <2>4 DEF ModelInv, Trapped
  <1>3. CASE Trapped
    BY <1>1, <1>2, <1>3, TrappedStep, RestartMeans DEF ModelInv
  <1>4. CASE ~Trapped /\ Trapped'
    BY <1>4, TrapMeans DEF ModelInv, BooksInv
  <1>5. CASE ~Trapped /\ ~Trapped'
    <2>1. TypeOK /\ Books /\ Books' /\ Meanings
      BY <1>5 DEF TypeInv, BooksInv, ModelInv
    <2>2. ~Reinstantiate
      BY <1>5 DEF Reinstantiate, Trapped
    <2> QED
      BY <1>1, <1>2, <1>5, <2>1, <2>2, CallMeans, ApplyMeans DEF Next
  <1> QED
    BY <1>3, <1>4, <1>5

\* A record created under a local id gets an id that was reserved for its own
\* model, whatever the models, captures and discards around it were.
THEOREM OwnModel ==
    ASSUME ReserveFaults \subseteq {"status"}
    PROVE  Spec => []RecordOfItsModel
  <1> DEFINE Inv == TypeInv /\ BooksInv /\ ModelInv
  <1>1. Inv /\ [Next]_vars => Inv'
    <2>1. TypeInv /\ BooksInv /\ [Next]_vars => BooksInv'
      BY BooksStep DEF TypeInv
    <2> QED
      BY <2>1, TypeStep, ModelStep
  <1>2. Init => Inv
    BY TypeInit, BooksInit, ModelInit DEF BooksInv
  <1>3. Inv => RecordOfItsModel
    BY DEF ModelInv
  <1> QED
    BY <1>1, <1>2, <1>3, PTL DEF Spec

-----------------------------------------------------------------------------
(***************************************************************************)
(* The refinement of LocalIds.                                             *)
(***************************************************************************)
RefinementInv == TypeInv /\ BooksInv /\ BindingInv /\ ModelInv

LEMMA RefinementInit == Init => RefinementInv
  BY TypeInit, BooksInit, BindingInit, ModelInit DEF RefinementInv, BooksInv

LEMMA RefinementStep ==
    ASSUME ReserveFaults \subseteq {"status"}, RefinementInv, [Next]_vars
    PROVE  RefinementInv'
  <1>1. TypeInv' /\ BooksInv'
    BY TypeStep, BooksStep DEF RefinementInv, TypeInv
  <1>2. BindingInv' /\ ModelInv'
    BY <1>1, BindingStep, ModelStep DEF RefinementInv
  <1> QED
    BY <1>1, <1>2 DEF RefinementInv

-----------------------------------------------------------------------------
LEMMA FromOneType ==
    ASSUME NEW s \in Seq(Int)
    PROVE  /\ FromOne(s) \in Seq(Int) /\ Len(FromOne(s)) = Len(s) /\ Len(s) \in Nat
           /\ \A k \in 1..Len(s) : FromOne(s)[k] = s[k] - Existing
  <1>1. Len(s) \in Nat /\ \A k \in 1..Len(s) : s[k] \in Int
    BY LenProperties, ElementOfSeq
  <1>2. FromOne(s) \in [1..Len(s) -> Int]
    BY <1>1 DEF FromOne
  <1> QED
    BY <1>1, <1>2 DEF FromOne

\* What is numbered, place by place.
LEMMA NumberedPlaces ==
    ASSUME NEW r \in Seq(Int), NEW ns \in Seq(Models), NEW gr \in Seq(Models),
           \A k \in 1..Len(r) : r[k] \in (Existing + 1)..(Existing + Len(gr)),
           NEW all, all = [k \in 1..Len(r) |-> gr[r[k] - Existing]] \o ns
    PROVE  /\ all \in Seq(Models) /\ Len(all) = Len(r) + Len(ns)
           /\ \A k \in 1..(Len(r) + Len(ns)) :
                  all[k] = IF k <= Len(r) THEN gr[r[k] - Existing] ELSE ns[k - Len(r)]
  <1> DEFINE f == [k \in 1..Len(r) |-> gr[r[k] - Existing]]
  <1>1. Len(r) \in Nat /\ Len(gr) \in Nat /\ Len(ns) \in Nat
    BY LenProperties
  <1>2. \A k \in 1..Len(r) : gr[r[k] - Existing] \in Models
    <2> SUFFICES ASSUME NEW k \in 1..Len(r) PROVE gr[r[k] - Existing] \in Models
      OBVIOUS
    <2>1. r[k] - Existing \in 1..Len(gr)
      BY <1>1
    <2> QED
      BY <2>1, ElementOfSeq
  <1>3. f \in [1..Len(r) -> Models]
    BY <1>2
  <1>4. f \in Seq(Models) /\ Len(f) = Len(r) /\ \A k \in 1..Len(r) : f[k] = gr[r[k] - Existing]
    BY <1>1, <1>3
  <1> HIDE DEF f
  <1>5. all = f \o ns
    BY DEF f
  <1>6. /\ all \in Seq(Models) /\ Len(all) = Len(f) + Len(ns)
        /\ \A k \in 1..(Len(f) + Len(ns)) : all[k] = IF k <= Len(f) THEN f[k] ELSE ns[k - Len(f)]
    BY <1>4, <1>5, ConcatProperties
  <1> QED
    BY <1>1, <1>4, <1>6

LEMMA PrefixIs ==
    ASSUME NEW S, NEW s \in Seq(S), NEW t \in Seq(S), Len(t) <= Len(s),
           \A i \in 1..Len(t) : s[i] = t[i]
    PROVE  SubSeq(s, 1, Len(t)) = t
  <1> DEFINE n == Len(t)
             p == SubSeq(s, 1, n)
  <1>1. n \in Nat /\ 1 \in Int /\ n \in Int /\ \A i \in 1..n : s[i] \in S
    BY LenProperties, ElementOfSeq
  <1>2. p \in Seq(S) /\ Len(p) = n /\ \A i \in 1..n : p[i] = s[i]
    <2> HIDE DEF n
    <2>1. /\ p \in Seq(S) /\ Len(p) = (IF 1 <= n THEN n - 1 + 1 ELSE 0)
          /\ \A i \in 1..(n - 1 + 1) : p[i] = s[1 + i - 1]
      BY <1>1, SubSeqProperties
    <2> HIDE DEF p
    <2> QED
      BY <1>1, <2>1
  <1>3. \A i \in 1..n : p[i] = t[i]
    BY <1>2
  <1> HIDE DEF p
  <1>4. p = t
    BY <1>2, <1>3, SeqEqual
  <1> QED
    BY <1>4 DEF p

LEMMA InitRefines == Init => Numbering!Init
  <1> SUFFICES ASSUME Init PROVE Numbering!Init
    OBVIOUS
  <1>1. /\ stack = <<>> /\ names = <<>> /\ reserved = <<>> /\ ids = <<>> /\ got = NoIds
        /\ granted = <<>>
    BY DEF Init, ServiceInit
  <1>2. Len(stack) = 0 /\ FromOne(<<>>) = <<>>
    BY <1>1 DEF FromOne
  <1>3. Numbered = <<>>
    BY <1>1 DEF Numbered
  <1>4. Spare = {}
    BY <1>1, <1>2 DEF Spare, NoIds, ToSet
  <1> QED
    BY <1>1, <1>2, <1>3, <1>4 DEF Numbering!Init, Trapped, Init

-----------------------------------------------------------------------------
LEMMA ReservedGranted ==
    ASSUME TypeOK, AllBound, BoundOnce
    PROVE  \A k \in 1..Len(reserved) : reserved[k] \in (Existing + 1)..(Existing + Len(granted))
  <1>1. CASE Sending /\ stack = <<>>
    BY <1>1 DEF AllBound
  <1>2. CASE ~(Sending /\ stack = <<>>)
    <2>1. reserved = Binding
      BY <1>2 DEF AllBound, Binding
    <2> QED
      BY <2>1 DEF BoundOnce, GrantedIds
  <1> QED
    BY <1>1, <1>2

LEMMA NumberedType ==
    ASSUME TypeOK, AllBound, BoundOnce
    PROVE  /\ Numbered \in Seq(Models) /\ Len(Numbered) = Len(reserved) + Len(names)
           /\ Len(reserved) \in Nat /\ Len(names) \in Nat
           /\ \A k \in 1..(Len(reserved) + Len(names)) :
                  Numbered[k] = IF k <= Len(reserved) THEN granted[reserved[k] - Existing]
                                ELSE names[k - Len(reserved)]
  <1>1. /\ reserved \in Seq(Int) /\ names \in Seq(Models) /\ granted \in Seq(Models)
        /\ Len(reserved) \in Nat /\ Len(names) \in Nat
    BY LenProperties DEF TypeOK
  <1> QED
    BY <1>1, ReservedGranted, NumberedPlaces, SMTT(30) DEF Numbered

\* What does not touch the numbers, the ids and the depth of the stack.
LEMMA Unnumbered ==
    ASSUME UNCHANGED <<names, reserved, got, ids, granted>>
    PROVE  /\ Numbered' = Numbered /\ FromOne(reserved)' = FromOne(reserved)
           /\ Spare' = Spare /\ FromOne(ids)' = FromOne(ids)
  BY DEF Numbered, FromOne, Spare

\* Storing a mutation leaves the depth of the stack alone.
LEMMA SameDepth ==
    ASSUME TypeOK, NEW op, NEW e, stack' = [stack EXCEPT ![Len(stack)][op] = Append(@, e)]
    PROVE  Len(stack') = Len(stack)
  <1>1. Len(stack) \in Nat /\ DOMAIN stack = 1..Len(stack) /\ DOMAIN stack' = DOMAIN stack
    BY LenProperties DEF TypeOK
  <1> QED
    BY <1>1

LEMMA CreateRefines ==
    ASSUME TypeOK, TypeOK', Books, Bindings, NEW m \in Models, NEW ref, CreateLocal(m, ref)
    PROVE  Numbering!Number
  <1>1. /\ stack # <<>> /\ names' = Append(names, m)
        /\ UNCHANGED <<phase, reserved, got, ids, granted>>
    BY DEF CreateLocal, MayCapture, Capture, applyVars, serviceVars
  <1>2. Len(stack') = Len(stack)
    BY SameDepth DEF CreateLocal, Capture
  <1>3. Len(stack) > 0
    BY <1>1, StackTop
  <1>4. /\ FromOne(reserved)' = FromOne(reserved) /\ Spare' = Spare /\ FromOne(ids)' = FromOne(ids)
    BY <1>1 DEF FromOne, Spare
  <1>5. Numbered' = Append(Numbered, m)
    <2>1. AllBound /\ BoundOnce
      BY DEF Books, Bindings
    <2> DEFINE r == Len(reserved)
               n == Len(names)
               after == Append(Numbered, m)
    <2>2. /\ Numbered \in Seq(Models) /\ Len(Numbered) = r + n /\ r \in Nat /\ n \in Nat
          /\ \A k \in 1..(r + n) :
                Numbered[k] = IF k <= r THEN granted[reserved[k] - Existing] ELSE names[k - r]
      BY <2>1, NumberedType
    <2>3. /\ Numbered' \in Seq(Models) /\ Len(Numbered') = r + Len(names')
          /\ \A k \in 1..(r + Len(names')) :
                Numbered'[k] = IF k <= r THEN granted[reserved[k] - Existing] ELSE names'[k - r]
      <3>1. /\ names' \in Seq(Models) /\ reserved \in Seq(Int) /\ granted \in Seq(Models)
            /\ Numbered' = [k \in 1..Len(reserved) |-> granted[reserved[k] - Existing]] \o names'
        BY <1>1 DEF TypeOK, Numbered
      <3>2. \A k \in 1..Len(reserved) : reserved[k] \in (Existing + 1)..(Existing + Len(granted))
        BY <2>1, ReservedGranted
      <3> QED
        BY <3>1, <3>2, NumberedPlaces
    <2>4. /\ names \in Seq(Models) /\ Len(names') = n + 1
          /\ \A k \in 1..n : names'[k] = names[k]
          /\ names'[n + 1] = m
      BY <1>1, AppendProperties DEF TypeOK
    <2>5. /\ after \in Seq(Models) /\ Len(after) = r + n + 1
          /\ \A k \in 1..(r + n) : after[k] = Numbered[k]
          /\ after[r + n + 1] = m
      BY <2>2, AppendProperties
    <2> HIDE DEF after, r, n
    <2>6. ASSUME NEW k \in 1..(r + n + 1) PROVE Numbered'[k] = after[k]
      <3>1. CASE k <= r
        <4>1. k \in 1..(r + n) /\ k \in 1..(r + Len(names'))
          BY <2>2, <2>4, <3>1
        <4> QED
          BY <2>2, <2>3, <2>5, <3>1, <4>1
      <3>2. CASE r < k /\ k <= r + n
        <4>1. /\ k - r \in 1..n /\ ~(k <= r) /\ k \in 1..(r + n)
              /\ k \in 1..(r + Len(names'))
          BY <2>2, <2>4, <3>2
        <4>2. Numbered'[k] = names'[k - r]
          BY <2>3, <4>1
        <4>3. after[k] = names[k - r]
          BY <2>2, <2>5, <4>1
        <4> QED
          BY <2>4, <4>1, <4>2, <4>3
      <3>3. CASE k = r + n + 1
        <4>1. k - r = n + 1 /\ ~(k <= r) /\ k \in 1..(r + Len(names'))
          BY <2>2, <2>4, <3>3
        <4>2. Numbered'[k] = names'[k - r]
          BY <2>3, <4>1
        <4> QED
          BY <2>4, <2>5, <3>3, <4>1, <4>2
      <3> QED
        BY <2>2, <3>1, <3>2, <3>3
    <2>7. Len(Numbered') = r + n + 1
      BY <2>2, <2>3, <2>4
    <2>8. Numbered' = after
      BY <2>3, <2>5, <2>6, <2>7, SeqEqual
    <2> QED
      BY <2>8 DEF after
  <1> QED
    BY <1>1, <1>2, <1>3, <1>4, <1>5 DEF Numbering!Number, Trapped

\* What a reservation does to the ids of the service, answered or not.
LEMMA ReserveExtends ==
    ASSUME TypeOK, Books, Bindings, NEW m \in Models, due[m] > 0, Reserve(m, due[m]),
           UNCHANGED <<names, reserved>>
    PROVE  /\ Len(granted') > Len(granted) /\ SubSeq(granted', 1, Len(granted)) = granted
           /\ Numbered' = Numbered
  <1> DEFINE g == Len(granted)
  <1>1. /\ granted \in Seq(Models) /\ g \in Nat /\ due[m] \in Nat
        /\ granted' \in Seq(Models) /\ Len(granted') = g + due[m]
        /\ \A i \in 1..g : granted'[i] = granted[i]
    BY GrantedGrows
  <1>2. Len(granted') > g /\ Len(granted) <= Len(granted')
    BY <1>1
  <1>3. SubSeq(granted', 1, Len(granted)) = granted
    BY <1>1, <1>2, PrefixIs
  <1>4. Numbered' = Numbered
    <2> DEFINE f == [k \in 1..Len(reserved) |-> granted[reserved[k] - Existing]]
               h == [k \in 1..Len(reserved) |-> granted'[reserved[k] - Existing]]
    <2>1. \A k \in 1..Len(reserved) : reserved[k] \in (Existing + 1)..(Existing + g)
      BY ReservedGranted DEF Books, Bindings
    <2>2. \A k \in 1..Len(reserved) : reserved[k] - Existing \in 1..g
      BY <1>1, <2>1
    <2> HIDE DEF g
    <2>3. f = h
      BY <1>1, <2>2
    <2>4. Numbered = f \o names /\ Numbered' = h \o names
      BY DEF Numbered
    <2> QED
      BY <2>3, <2>4
  <1> QED
    BY <1>2, <1>3, <1>4

LEMMA ReserveRefines ==
    ASSUME TypeOK, Books, Bindings, NEW m \in Models, ReserveIds(m)
    PROVE  Numbering!Reserve
  <1> DEFINE n == due[m]
             g == Len(granted)
  <1>1. /\ n \in Nat \ {0} /\ g \in Nat /\ got' = [got EXCEPT ![m] = FreshIds(n)]
        /\ Reserve(m, n) /\ got[m] = <<>>
        /\ UNCHANGED <<stack, names, reserved, ids>>
    BY BindingType, SMTT(30) DEF ReserveIds, Reserve, captureData, TypeOK, Books, Booked
  <1>2. Len(granted') = g + n
    BY <1>1, GrantedGrows
  <1>3. /\ Len(granted') > g /\ SubSeq(granted', 1, g) = granted
        /\ Numbered' = Numbered
    BY <1>1, ReserveExtends
  <1>4. Spare' = Spare \union (g + 1)..Len(granted')
    <2>1. got \in [Models -> Seq(Int)] /\ got'[m] = FreshIds(n) /\ Len(FreshIds(n)) = n
      BY <1>1, ReserveType DEF TypeOK
    <2>2. ToSet(FromOne(FreshIds(n))) = (g + 1)..(g + n)
      <3>1. FromOne(FreshIds(n)) = [i \in 1..n |-> g + i]
        BY <1>1, <2>1 DEF FromOne, FreshIds
      <3> HIDE DEF n, g
      <3>2. ASSUME NEW x \in (g + 1)..(g + n) PROVE \E i \in 1..n : x = g + i
        <4>1. x - g \in 1..n /\ x = g + (x - g)
          BY <1>1
        <4> QED
          BY <4>1
      <3>3. \A i \in 1..n : g + i \in (g + 1)..(g + n)
        BY <1>1
      <3> QED
        BY <3>1, <3>2, <3>3 DEF ToSet
    <2>3. ToSet(FromOne(got[m])) = {}
      BY <1>1 DEF FromOne, ToSet
    <2>4. \A q \in Models : q # m => got'[q] = got[q]
      BY <1>1, <2>1
    <2>5. Spare' = UNION {ToSet(FromOne(got'[q])) : q \in Models}
      BY DEF Spare, FromOne
    <2> HIDE DEF n, g
    <2>6. ToSet(FromOne(got'[m])) = (g + 1)..Len(granted')
      BY <1>2, <2>1, <2>2
    <2> QED
      BY <2>3, <2>4, <2>5, <2>6 DEF Spare
  <1>5. FromOne(reserved)' = FromOne(reserved) /\ FromOne(ids)' = FromOne(ids)
    BY <1>1 DEF FromOne
  <1> QED
    BY <1>1, <1>3, <1>4, <1>5 DEF Numbering!Reserve, Trapped

\* An apply that has all its ids binds all local ids numbered so far.
LEMMA AssignRefines ==
    ASSUME TypeOK, TypeOK', Books, Books', Bindings, Bindings', Meanings, AssignIds
    PROVE  Numbering!Bind
  <1> DEFINE given == Given(Len(names))
             r == Len(reserved)
             n == Len(names)
             bound == FromOne(reserved)
             view == FromOne(ids')
  <1>1. /\ phase = "reserve" /\ phase' = "upsert" /\ AllServed /\ ids' = reserved \o given
        /\ names' = <<>> /\ got' = NoIds /\ reserved' = Keep(ids')
        /\ UNCHANGED <<stack, granted>>
    BY AssignKeepsBooks DEF AssignIds, AllAnswered, AllIds, serviceVars
  <1>2. /\ reserved \in Seq(Int) /\ ids' \in Seq(Int) /\ names \in Seq(Models)
        /\ granted \in Seq(Models) /\ stack \in Seq(Captures)
        /\ r \in Nat /\ n \in Nat /\ Len(granted) \in Nat
    BY LenProperties DEF TypeOK
  <1>3. /\ given \in Seq(Int) /\ Len(given) = n
        /\ \A i \in 1..n : /\ names[i] \in Models /\ given[i] \in ReservedFor(names[i])
                           /\ given[i] - Existing \in Spare
    <2>1. /\ given \in Seq(Int) /\ Len(given) = n
          /\ \A i \in 1..n :
               /\ names[i] \in Models /\ Rank(i) \in 1..Len(got[names[i]])
               /\ given[i] = got[names[i]][Rank(i)]
      BY <1>1, GivenAnswered
    <2>2. \A m \in Models : \A i \in 1..Len(got[m]) : got[m][i] \in ReservedFor(m)
      BY DEF Meanings, AnsweredFor
    <2>3. \A m \in Models : \A i \in 1..Len(got[m]) : got[m][i] - Existing \in Spare
      BY DEF Spare, FromOne, ToSet
    <2> HIDE DEF given, n
    <2> QED
      BY <2>1, <2>2, <2>3
  <1> HIDE DEF given
  <1>4. /\ Len(ids') = r + n
        /\ \A k \in 1..(r + n) : ids'[k] = IF k <= r THEN reserved[k] ELSE given[k - r]
    <2> DEFINE all == reserved \o given
    <2>1. /\ Len(all) = r + Len(given)
          /\ \A k \in 1..(r + Len(given)) : all[k] = IF k <= r THEN reserved[k] ELSE given[k - r]
      BY <1>2, <1>3, ConcatProperties, ZenonT(40)
    <2> HIDE DEF all
    <2>2. ids' = all
      BY <1>1 DEF all
    <2> QED
      BY <1>3, <2>1, <2>2
  <1>5. /\ \A k \in 1..(r + n) : ids'[k] \in (Existing + 1)..(Existing + Len(granted))
        /\ \A j, k \in 1..(r + n) : ids'[j] = ids'[k] => j = k
    <2>1. Binding' = ids' /\ GrantedIds' = (Existing + 1)..(Existing + Len(granted))
      BY <1>1 DEF Binding, Sending, GrantedIds
    <2>2. BoundOnce'
      BY DEF Bindings
    <2> HIDE DEF r, n
    <2> QED
      BY <1>4, <2>1, <2>2 DEF BoundOnce
  <1>6. /\ Numbered \in Seq(Models) /\ Len(Numbered) = r + n
        /\ \A k \in 1..(r + n) :
             Numbered[k] = IF k <= r THEN granted[reserved[k] - Existing] ELSE names[k - r]
    BY NumberedType DEF Books, Bindings
  <1>7. /\ view \in Seq(Int) /\ Len(view) = r + n /\ DOMAIN view = 1..(r + n)
        /\ \A k \in 1..(r + n) : view[k] = ids'[k] - Existing
    BY <1>2, <1>4, FromOneType, LenProperties
  <1>8. bound \in Seq(Int) /\ Len(bound) = r /\ \A k \in 1..r : bound[k] = reserved[k] - Existing
    BY <1>2, FromOneType
  <1> HIDE DEF r, n, bound, view
  \* The name of every local id is the model of the id that it gets.
  <1>9. ASSUME NEW k \in (r + 1)..(r + n)
        PROVE  view[k] \in Spare /\ granted[view[k]] = Numbered[k]
    <2>1. /\ k - r \in 1..n /\ k \in 1..(r + n) /\ ~(k <= r)
      BY <1>2
    <2>2. view[k] = given[k - r] - Existing /\ Numbered[k] = names[k - r]
      BY <1>4, <1>6, <1>7, <2>1
    <2>3. given[k - r] \in ReservedFor(names[k - r]) /\ given[k - r] - Existing \in Spare
      BY <1>3, <2>1
    <2>4. granted[given[k - r] - Existing] = names[k - r]
      <3>1. PICK i \in 1..Len(granted) : given[k - r] = Existing + i /\ granted[i] = names[k - r]
        BY <2>3 DEF ReservedFor
      <3>2. given[k - r] - Existing = i
        BY <1>2, <3>1
      <3> QED
        BY <3>1, <3>2
    <2> QED
      BY <2>2, <2>3, <2>4
  <1>10. Numbering!Completes(view)
    <2>1. SubSeq(view, 1, Len(bound)) = bound
      <3>1. ASSUME NEW k \in 1..Len(bound) PROVE view[k] = bound[k]
        <4>1. k \in 1..r /\ k \in 1..(r + n) /\ k <= r
          BY <1>2, <1>8
        <4> QED
          BY <1>4, <1>7, <1>8, <4>1
      <3>2. Len(bound) <= Len(view)
        BY <1>2, <1>7, <1>8
      <3> QED
        BY <1>7, <1>8, <3>1, <3>2, PrefixIs
    <2>2. \A j, k \in DOMAIN view : view[j] = view[k] => j = k
      <3>1. \A k \in 1..(r + n) : ids'[k] \in Int /\ view[k] = ids'[k] - Existing
        BY <1>2, <1>5, <1>7
      <3>2. \A j, k \in 1..(r + n) : view[j] = view[k] => ids'[j] = ids'[k]
        BY <3>1
      <3> QED
        BY <1>5, <1>7, <3>2
    <2>3. Len(view) = Len(Numbered)
      BY <1>6, <1>7
    <2>4. \A k \in (Len(bound) + 1)..Len(view) : view[k] \in Spare /\ granted[view[k]] = Numbered[k]
      BY <1>7, <1>8, <1>9
    <2> QED
      BY <2>1, <2>2, <2>3, <2>4 DEF Numbering!Completes, bound
  <1>11. Spare' = {}
    BY <1>1 DEF Spare, FromOne, NoIds, ToSet
  <1>12. FromOne(ids)' = view
    BY DEF view, FromOne
  <1>13. CASE stack = <<>>
    <2>1. Len(stack) = 0 /\ reserved' = <<>>
      BY <1>1, <1>13 DEF Keep
    <2>2. FromOne(reserved)' = <<>> /\ Numbered' = <<>>
      BY <1>1, <2>1 DEF FromOne, Numbered
    <2> QED
      BY <1>1, <1>10, <1>11, <1>12, <2>1, <2>2 DEF Numbering!Bind, Trapped
  <1>14. CASE stack # <<>>
    <2>1. reserved' = ids'
      BY <1>1, <1>14 DEF Keep
    <2>2. FromOne(reserved)' = view
      BY <2>1 DEF FromOne, view
    <2>3. Numbered' = Numbered
      <3>1. /\ Numbered' \in Seq(Models) /\ Len(Numbered') = r + n
            /\ \A k \in 1..(r + n) : Numbered'[k] = granted[ids'[k] - Existing]
        <4> DEFINE all == Numbered'
        <4>1. <<>> \in Seq(Models) /\ Len(<<>>) = 0
          OBVIOUS
        <4>2. all = [k \in 1..Len(ids') |-> granted[ids'[k] - Existing]] \o <<>>
          BY <1>1, <2>1 DEF Numbered
        <4> HIDE DEF all
        <4>3. \A k \in 1..Len(ids') : ids'[k] \in (Existing + 1)..(Existing + Len(granted))
          BY <1>4, <1>5
        <4>4. /\ all \in Seq(Models) /\ Len(all) = Len(ids') + Len(<<>>)
              /\ \A k \in 1..(Len(ids') + Len(<<>>)) :
                   all[k] = IF k <= Len(ids') THEN granted[ids'[k] - Existing]
                            ELSE <<>>[k - Len(ids')]
          BY <1>2, <4>1, <4>2, <4>3, NumberedPlaces
        <4>5. /\ all \in Seq(Models) /\ Len(all) = r + n
              /\ \A k \in 1..(r + n) : all[k] = granted[ids'[k] - Existing]
          BY <1>2, <1>4, <4>1, <4>4
        <4> QED
          BY <4>5 DEF all
      <3>2. ASSUME NEW k \in 1..(r + n) PROVE Numbered'[k] = Numbered[k]
        <4>1. CASE k <= r
          BY <1>4, <1>6, <3>1, <4>1
        <4>2. CASE ~(k <= r)
          <5>1. k \in (r + 1)..(r + n)
            BY <1>2, <4>2
          <5> QED
            BY <1>7, <1>9, <3>1, <5>1
        <4> QED
          BY <4>1, <4>2
      <3> QED
        BY <1>6, <3>1, <3>2, SeqEqual
    <2> QED
      BY <1>1, <1>10, <1>11, <1>12, <2>2, <2>3 DEF Numbering!Bind, Trapped
  <1> QED
    BY <1>13, <1>14

\* What leaves the numbers, the ids and the depth of the stack alone may still
\* lose the resource.
LEMMA NothingNumbered ==
    ASSUME Len(stack') = Len(stack), UNCHANGED <<names, reserved, got, ids, granted>>,
           Trapped => Trapped'
    PROVE  Numbering!Next \/ UNCHANGED Numbering!vars
  <1>1. /\ Numbered' = Numbered /\ FromOne(reserved)' = FromOne(reserved)
        /\ Spare' = Spare /\ FromOne(ids)' = FromOne(ids)
    BY Unnumbered
  <1>2. CASE Trapped' = Trapped
    BY <1>1, <1>2 DEF Numbering!vars
  <1>3. CASE ~Trapped /\ Trapped'
    <2>1. Numbering!Lose
      BY <1>1, <1>3 DEF Numbering!Lose, Trapped
    <2> QED
      BY <1>3, <2>1 DEF Numbering!Next
  <1> QED
    BY <1>2, <1>3 DEF Trapped

LEMMA CallRefines ==
    ASSUME TypeOK, TypeOK', Books, Bindings, CallCapture
    PROVE  Numbering!Next \/ UNCHANGED Numbering!vars
  <1>1. ~Trapped
    BY DEF CallCapture, StartCapture, DiscardCapture, CreateLocal, Change, MayCapture,
       MayRequest, PassThrough, PassThroughTraps, ApplyNothing, ApplyCapture, Trapped
  <1>2. ASSUME Len(stack') \in {Len(stack) + 1, Len(stack) - 1}, ~Trapped',
               UNCHANGED <<names, reserved, got, ids, granted>>
        PROVE  Numbering!Next
    BY <1>1, <1>2, Unnumbered DEF Numbering!OpenOrClose, Numbering!Next, Trapped
  <1>3. ASSUME NEW m \in Models, NEW ref, CreateLocal(m, ref) PROVE Numbering!Next
    BY <1>1, <1>3, CreateRefines DEF Numbering!Next
  <1>4. ASSUME NEW op, NEW m, NEW id, NEW ref, Change(op, m, id, ref)
        PROVE  Numbering!Next \/ UNCHANGED Numbering!vars
    <2>1. UNCHANGED <<names, reserved, got, ids, granted>>
      BY <1>4 DEF Change, Capture, applyVars, serviceVars
    <2>2. Len(stack') = Len(stack)
      BY <1>4, SameDepth DEF Change, Capture
    <2> QED
      BY <1>1, <2>1, <2>2, NothingNumbered
  <1>5. ASSUME NEW m, NEW id, PassThrough(m, id) \/ PassThroughTraps(m, id)
        PROVE  Numbering!Next \/ UNCHANGED Numbering!vars
    <2>1. stack' = stack /\ UNCHANGED <<names, reserved, got, ids, granted>>
      BY <1>5 DEF PassThrough, PassThroughTraps, PassedOn, NotExecuted, Execute, captureData,
         applyVars, serviceVars
    <2> QED
      BY <1>1, <2>1, NothingNumbered
  <1>6. CASE StartCapture
    <2>1. Len(stack') = Len(stack) + 1
      BY <1>6, AppendProperties, NoEntriesType DEF StartCapture, TypeOK
    <2> QED
      BY <1>2, <1>6, <2>1 DEF StartCapture, applyVars, serviceVars, Trapped
  <1>7. CASE DiscardCapture \/ ApplyCapture
    <2>1. /\ stack # <<>> /\ stack' = Front(stack) /\ UNCHANGED <<names, reserved, got, ids, granted>>
          /\ ~Trapped'
      BY <1>7 DEF DiscardCapture, ApplyCapture, applyVars, serviceVars, Trapped
    <2>2. Len(stack') = Len(stack) - 1
      BY <2>1, FrontLast DEF TypeOK
    <2> QED
      BY <1>2, <2>1, <2>2
  <1>8. CASE ApplyNothing
    BY <1>1, <1>8, NothingNumbered DEF ApplyNothing, captureData, applyVars, serviceVars
  <1> QED
    BY <1>3, <1>4, <1>5, <1>6, <1>7, <1>8 DEF CallCapture

\* An apply that returns while it sends leaves the numbers and the bindings.
LEMMA ReturnRefines ==
    ASSUME Books, Sending, NEW r, ApplyOver(r), UNCHANGED captureData, granted' = granted
    PROVE  Numbering!Next
  <1>1. /\ ~Trapped /\ ~Trapped' /\ got = NoIds /\ got' = NoIds /\ ids' = <<>>
        /\ UNCHANGED <<stack, names, reserved, granted>>
    BY DEF ApplyOver, Books, Booked, Sending, Trapped, captureData
  <1>2. /\ Numbered' = Numbered /\ FromOne(reserved)' = FromOne(reserved) /\ Spare' = Spare
    BY <1>1 DEF Numbered, FromOne, Spare
  <1>3. FromOne(ids)' = <<>>
    BY <1>1 DEF FromOne
  <1>4. Numbering!ApplyEnds
    BY <1>1, <1>2, <1>3 DEF Numbering!ApplyEnds, Trapped
  <1> QED
    BY <1>1, <1>4 DEF Numbering!Next

\* A reservation may be executed without that the resource can read its answer.
LEMMA ReserveTrapsRefines ==
    ASSUME TypeOK, Books, Bindings, NEW m \in Models, ReserveTraps(m)
    PROVE  Numbering!Next \/ UNCHANGED Numbering!vars
  <1>1. /\ ~Trapped /\ Trapped' /\ due[m] > 0
        /\ UNCHANGED <<stack, names, reserved, got, ids>>
    BY DEF ReserveTraps, Traps, Trapped, captureData, applyVars
  <1>2. CASE UNCHANGED serviceVars
    BY <1>1, <1>2, NothingNumbered DEF serviceVars
  <1>3. CASE Reserve(m, due[m])
    <2>1. Len(granted') > Len(granted) /\ SubSeq(granted', 1, Len(granted)) = granted
          /\ Numbered' = Numbered
      BY <1>1, <1>3, ReserveExtends
    <2>2. /\ FromOne(reserved)' = FromOne(reserved) /\ FromOne(ids)' = FromOne(ids)
          /\ Spare' = Spare
      BY <1>1 DEF FromOne, Spare
    <2>3. Numbering!Reserve
      BY <1>1, <2>1, <2>2 DEF Numbering!Reserve, Trapped
    <2> QED
      BY <1>1, <2>3 DEF Numbering!Next
  <1> QED
    BY <1>2, <1>3 DEF ReserveTraps

LEMMA ApplyRefines ==
    ASSUME ReserveFaults \subseteq {"status"}, RefinementInv, RefinementInv', ~Trapped, RunApply
    PROVE  Numbering!Next \/ UNCHANGED Numbering!vars
  <1>1. /\ TypeOK /\ TypeOK' /\ Books /\ Bindings /\ Meanings
        /\ ~Trapped' => Books' /\ Bindings'
    BY DEF RefinementInv, TypeInv, BooksInv, BindingInv, ModelInv
  <1>2. ASSUME NEW m \in Models, ReserveIds(m) PROVE Numbering!Next
    BY <1>1, <1>2, ReserveRefines DEF Numbering!Next
  <1>3. ASSUME NEW m \in Models, ReserveTraps(m)
        PROVE  Numbering!Next \/ UNCHANGED Numbering!vars
    BY <1>1, <1>3, ReserveTrapsRefines
  <1>4. ASSUME NEW m \in Models, Send(m) \/ SendTraps(m)
        PROVE  Numbering!Next \/ UNCHANGED Numbering!vars
    <2>1. stack' = stack /\ UNCHANGED <<names, reserved, got, ids, granted>>
      BY <1>4 DEF Send, SendTraps, Traps, Execute, captureData, applyVars, serviceVars
    <2> QED
      BY <2>1, NothingNumbered
  <1>5. ASSUME NEW m \in Models, SendFails(m) PROVE Numbering!Next
    BY <1>1, <1>5, ReturnRefines
    DEF SendFails, Turn, Sending, ApplyReturns, Execute, serviceVars
  <1>6. CASE AssignIds
    <2>1. ~Trapped'
      BY <1>1, <1>6, AssignKeepsBooks DEF Trapped
    <2> QED
      BY <1>1, <1>6, <2>1, AssignRefines DEF Numbering!Next
  <1>7. CASE PrepareDeletes
    BY <1>7, NothingNumbered DEF PrepareDeletes, captureData, serviceVars
  <1>8. CASE ApplyDone
    BY <1>1, <1>8, ReturnRefines DEF ApplyDone, ApplyReturns, Sending, serviceVars
  <1> QED
    BY <1>1, <1>2, <1>3, <1>4, <1>5, <1>6, <1>7, <1>8, ApplySteps

LEMMA RestartRefines ==
    ASSUME Reinstantiate
    PROVE  Numbering!Next
  <1>1. /\ Trapped /\ ~Trapped' /\ stack' = <<>> /\ names' = <<>> /\ reserved' = <<>> /\ got' = NoIds
        /\ ids' = <<>> /\ granted' = granted
    BY DEF Reinstantiate, ApplyOver, Trapped, serviceVars
  <1>2. Len(stack') = 0 /\ FromOne(reserved)' = <<>> /\ FromOne(ids)' = <<>>
    BY <1>1 DEF FromOne
  <1>3. Numbered' = <<>>
    BY <1>1 DEF Numbered
  <1>4. Spare' = {}
    BY <1>1 DEF Spare, FromOne, NoIds, ToSet
  <1> QED
    BY <1>1, <1>2, <1>3, <1>4 DEF Numbering!Restart, Numbering!Next, Trapped

LEMMA StepRefines ==
    ASSUME ReserveFaults \subseteq {"status"}, RefinementInv, [Next]_vars
    PROVE  [Numbering!Next]_(Numbering!vars)
  <1>1. RefinementInv'
    BY RefinementStep
  <1>2. CASE UNCHANGED vars
    <2>1. stack' = stack /\ phase' = phase /\ UNCHANGED <<names, reserved, got, ids, granted>>
      BY <1>2 DEF vars, captureData, applyVars, serviceVars
    <2> QED
      BY <2>1, NothingNumbered DEF Trapped
  <1>3. CASE Trapped
    BY <1>2, <1>3, TrappedStep, RestartRefines
  <1>4. CASE ~Trapped
    <2>1. TypeOK /\ TypeOK' /\ Books /\ Bindings
      BY <1>1, <1>4 DEF RefinementInv, TypeInv, BooksInv, BindingInv
    <2>2. ~Reinstantiate
      BY <1>4 DEF Reinstantiate, Trapped
    <2> QED
      BY <1>1, <1>2, <1>4, <2>1, <2>2, CallRefines, ApplyRefines DEF Next
  <1> QED
    BY <1>3, <1>4

\* CaptureData implements the promise of the capture api: a local id means one
\* record of its model until numbering restarts, and that takes every capture
\* to be closed.
THEOREM Refines ==
    ASSUME ReserveFaults \subseteq {"status"}
    PROVE  Spec => NumberingRefined
  <1>1. RefinementInv /\ [Next]_vars => RefinementInv'
    BY RefinementStep
  <1>2. RefinementInv /\ [Next]_vars => [Numbering!Next]_(Numbering!vars)
    BY StepRefines
  <1>3. Init => Numbering!Init
    BY InitRefines
  <1> QED
    BY <1>1, <1>2, <1>3, RefinementInit, PTL DEF Spec, NumberingRefined, Numbering!Spec
-----------------------------------------------------------------------------
(***************************************************************************)
(* Whatever fails, an apply sends no local id that it sees: a name that it *)
(* sends is one of a record, because only reserved ids get where local ids *)
(* are looked up.                                                          *)
(***************************************************************************)
LEMMA RecordsKept ==
    ASSUME RecordsInv, RecordIds \subseteq RecordIds', Stored' \subseteq Stored, held' \subseteq held,
           ToSet(reserved') \union ToSet(ids') \subseteq RecordIds',
           \A m \in Models : ToSet(got'[m]) \subseteq RecordIds',
           \A s \in AppliedNames' \ AppliedNames : s.num \in {0} \union RecordIds
    PROVE  RecordsInv'
  BY DEF RecordsInv, IdsReserved, NamesKnown, OnlyRecordsSent

\* A request of an apply adds its names to those of applies, a raw one does not.
LEMMA AppliedAppend ==
    ASSUME TypeOK, NEW r \in Requests, Execute(r)
    PROVE  /\ r.op # "raw" => AppliedNames' = AppliedNames \union UNION {{e.id, e.ref} : e \in r.inputs}
           /\ r.op = "raw" => AppliedNames' = AppliedNames
  <1>1. /\ DOMAIN wire' = DOMAIN wire \union {Len(wire) + 1}
        /\ \A i \in DOMAIN wire : wire'[i] = wire[i]
        /\ Len(wire) + 1 \notin DOMAIN wire /\ wire'[Len(wire) + 1] = r
    BY SentAppend
  <1>2. ToSet(wire') = ToSet(wire) \union {r}
    <2>1. ASSUME NEW i \in DOMAIN wire' PROVE wire'[i] \in ToSet(wire) \union {r}
      BY <1>1 DEF ToSet
    <2>2. ASSUME NEW x \in ToSet(wire) \union {r} PROVE x \in ToSet(wire')
      BY <1>1 DEF ToSet
    <2> QED
      BY <2>1, <2>2 DEF ToSet
  <1> QED
    BY <1>2 DEF AppliedNames

\* A reservation adds to the ids of records.
LEMMA ReserveRecords ==
    ASSUME TypeOK, NEW m \in Models, NEW n \in Nat, Reserve(m, n)
    PROVE  /\ RecordIds \subseteq RecordIds' /\ AppliedNames' = AppliedNames
           /\ ToSet(FreshIds(n)) \subseteq RecordIds'
  <1> DEFINE more == [i \in 1..n |-> m]
             g == Len(granted)
  <1>1. g \in Nat /\ granted \in Seq(Models) /\ granted' = granted \o more /\ wire' = wire
    BY BindingType DEF Reserve, TypeOK
  <1>2. more \in Seq(Models) /\ Len(more) = n
    BY IsASeq
  <1>3. Len(granted') = g + n
    <2> HIDE DEF more
    <2> QED
      BY <1>1, <1>2, ConcatProperties
  <1>4. \A k \in 1..n : Existing + g + k \in 1..(Existing + (g + n))
    BY <1>1
  <1>5. ToSet(FreshIds(n)) \subseteq RecordIds'
    BY <1>3, <1>4 DEF FreshIds, ToSet, RecordIds
  <1>6. RecordIds \subseteq RecordIds'
    <2> HIDE DEF g, more
    <2> QED
      BY <1>1, <1>3 DEF RecordIds, g
  <1> QED
    BY <1>1, <1>5, <1>6 DEF AppliedNames

\* The ids that are given out were answered.
LEMMA GivenRecords ==
    ASSUME TypeOK, IdsReserved, NEW n \in 0..Len(names), \A i \in 1..n : Served(i)
    PROVE  ToSet(reserved \o Given(n)) \subseteq RecordIds
  <1> DEFINE given == Given(n)
             k == Len(reserved)
  <1>1. /\ Len(names) \in Nat /\ n \in Nat /\ names \in Seq(Models)
        /\ reserved \in Seq(Int) /\ k \in Nat /\ DOMAIN reserved = 1..k
    BY LenProperties DEF TypeOK
  <1>2. given \in Seq(Int) /\ Len(given) = n
    BY GivenType
  <1>3. ASSUME NEW i \in 1..n PROVE given[i] \in RecordIds
    <2>1. i \in 1..Len(names) /\ names[i] \in Models
      BY <1>1, ElementOfSeq
    <2>2. /\ Rank(i) \in Nat \ {0} /\ Rank(i) <= Len(got[names[i]])
          /\ got[names[i]] \in Seq(Int) /\ Len(got[names[i]]) \in Nat
      BY <1>1, <2>1, RankIsPositive, BindingType DEF Served
    <2>3. Rank(i) \in DOMAIN got[names[i]]
      BY <2>2
    <2>4. given[i] = got[names[i]][Rank(i)]
      BY GivenType DEF IdOf
    <2> QED
      BY <2>1, <2>3, <2>4 DEF IdsReserved, ToSet
  <1>4. \A i \in 1..k : reserved[i] \in RecordIds
    BY <1>1 DEF IdsReserved, ToSet
  <1> HIDE DEF given, k
  <1>5. /\ DOMAIN (reserved \o given) = 1..(k + n)
        /\ \A i \in 1..(k + n) : (reserved \o given)[i] = IF i <= k THEN reserved[i] ELSE given[i - k]
    <2>1. /\ reserved \o given \in Seq(Int) /\ Len(reserved \o given) = k + n
          /\ \A i \in 1..(k + n) : (reserved \o given)[i] = IF i <= k THEN reserved[i] ELSE given[i - k]
      BY <1>1, <1>2, ConcatProperties, ConcatInts DEF k
    <2> QED
      BY <2>1, LenProperties
  <1>6. \A i \in 1..(k + n) : (reserved \o given)[i] \in RecordIds
    <2> TAKE i \in 1..(k + n)
    <2>1. i <= k => i \in 1..k
      BY <1>1
    <2>2. ~(i <= k) => i - k \in 1..n
      BY <1>1
    <2> QED
      BY <1>3, <1>4, <1>5, <2>1, <2>2
  <1> QED
    BY <1>5, <1>6 DEF ToSet, given

\* What is sent next names records: local ids are looked up, and real ones are
\* those from the start.
LEMMA RequestRecords ==
    ASSUME TypeInv, RecordsInv, phase \in {"upsert", "delete"}, NEW m \in Models,
           NEW e \in Request(m).inputs
    PROVE  e.id.num \in {0} \union RecordIds /\ e.ref.num \in {0} \union RecordIds
  <1>1. PICK i \in Chunk(m) : e = Resolved(Batch[i])
    BY DEF Request
  <1> DEFINE b == Batch[i]
  <1>2. i \in DOMAIN Batch
    BY DEF Chunk, OfModel
  <1>3. b \in EntriesOf(taken) /\ b \in Entries
    <2>1. CASE phase = "delete"
      <3>1. i \in DOMAIN taken["delete"] /\ b = taken["delete"][i] /\ "delete" \in Operations
        BY <1>2, <2>1 DEF Batch, Operations
      <3>2. b \in ToSet(taken["delete"])
        BY <3>1 DEF ToSet
      <3> QED
        BY <3>1, <3>2, UpsertPlaces DEF TypeInv, EntriesOf
    <2>2. CASE phase = "upsert"
      <3>1. i \in DOMAIN Upserts /\ b = Upserts[i]
        BY <1>2, <2>2 DEF Batch
      <3>2. PICK op \in {"create", "update"} : \E j \in DOMAIN taken[op] : b = taken[op][j]
        BY <3>1, UpsertPlaces DEF TypeInv
      <3>3. op \in Operations /\ b \in ToSet(taken[op])
        BY <3>2 DEF Operations, ToSet
      <3> QED
        BY <3>2, <3>3, UpsertPlaces DEF TypeInv, EntriesOf
    <2> QED
      BY <2>1, <2>2
  <1>4. b.id.num <= Existing /\ b.ref.num <= Existing /\ b.id \in Names /\ b.ref \in Names
    BY <1>3 DEF RecordsInv, NamesKnown, Stored, Entries
  <1>5. InRange(b.id, ids) /\ InRange(b.ref, ids)
    BY <1>2 DEF TypeInv, SendInRange, AllInRange, Batch
  <1>6. ids \in Seq(Int) /\ Len(ids) \in Nat /\ DOMAIN ids = 1..Len(ids) /\ Len(granted) \in Nat
    BY LenProperties DEF TypeInv, TypeOK
  <1>7. ASSUME NEW name \in Names, name.num <= Existing, InRange(name, ids)
        PROVE  Resolve(name, ids).num \in {0} \union RecordIds
    <2>1. name.num \in Int
      BY DEF Names
    <2>2. CASE name.num < 0
      <3>1. -name.num \in DOMAIN ids
        BY <1>6, <1>7, <2>1, <2>2 DEF InRange
      <3>2. ids[-name.num] \in RecordIds
        BY <3>1 DEF RecordsInv, IdsReserved, ToSet
      <3>3. Resolve(name, ids).num = ids[-name.num]
        BY <2>2 DEF Resolve, Names
      <3> QED
        BY <3>2, <3>3
    <2>3. CASE ~(name.num < 0)
      BY <1>6, <1>7, <2>1, <2>3 DEF Resolve, RecordIds
    <2> QED
      BY <2>2, <2>3
  <1>8. e.id = Resolve(b.id, ids) /\ e.ref = Resolve(b.ref, ids)
    BY <1>1, <1>3 DEF Resolved, Entries
  <1> QED
    BY <1>4, <1>5, <1>7, <1>8

LEMMA SendRecords ==
    ASSUME TypeInv, RecordsInv, NEW m \in Models, Turn(m),
           Execute(Request(m)) \/ UNCHANGED serviceVars
    PROVE  /\ granted' = granted
           /\ \A s \in AppliedNames' \ AppliedNames : s.num \in {0} \union RecordIds
  <1>1. CASE UNCHANGED serviceVars
    BY <1>1 DEF serviceVars, AppliedNames
  <1>2. CASE Execute(Request(m))
    <2>1. phase \in {"upsert", "delete"} /\ TypeOK
      BY DEF Turn, TypeInv
    <2>2. Request(m) \in Requests
      BY <2>1, RequestType
    <2>3. AppliedNames' = AppliedNames \union UNION {{e.id, e.ref} : e \in Request(m).inputs}
      BY <1>2, <2>1, <2>2, AppliedAppend DEF Request
    <2> QED
      BY <1>2, <2>1, <2>3, RequestRecords DEF Execute
  <1> QED
    BY <1>1, <1>2

LEMMA PassedRecords ==
    ASSUME TypeOK, MayRequest, NEW m \in Models, NEW id \in MayName,
           PassedOn(m, id) \/ NotExecuted
    PROVE  granted' = granted /\ AppliedNames' = AppliedNames
  <1>1. CASE PassedOn(m, id)
    <2>1. issued + 1 \in Mutations /\ id \in Names
      BY CallNames DEF MayRequest, Mutations, TypeOK
    <2>2. RawRequest(m, id) \in Requests /\ RawRequest(m, id).op = "raw"
      BY <2>1, RawType DEF RawRequest
    <2> QED
      BY <1>1, <2>2, AppliedAppend DEF PassedOn, Execute
  <1>2. CASE NotExecuted
    BY <1>2 DEF NotExecuted, serviceVars, AppliedNames
  <1> QED
    BY <1>1, <1>2

LEMMA NothingStoredKept == EntriesOf(NoEntries) = {}
  BY DEF EntriesOf, NoEntries, ToSet

\* An apply that is over leaves its locals behind.
LEMMA OverRecords ==
    ASSUME RecordsInv, NEW r, ApplyOver(r), stack' \in {stack, <<>>},
           RecordIds \subseteq RecordIds', ToSet(reserved') \subseteq RecordIds,
           \A s \in AppliedNames' \ AppliedNames : s.num \in {0} \union RecordIds
    PROVE  RecordsInv'
  <1>1. taken' = NoEntries /\ got' = NoIds /\ ids' = <<>> /\ held' \subseteq held
    BY DEF ApplyOver
  <1>2. ToSet(ids') = {} /\ \A m \in Models : ToSet(got'[m]) = {}
    BY <1>1 DEF NoIds, ToSet
  <1>3. Stored' \subseteq Stored
    <2>1. ToSet(stack') \subseteq ToSet(stack)
      BY DEF ToSet
    <2> QED
      BY <1>1, <2>1, NothingStoredKept DEF Stored
  <1> QED
    BY <1>1, <1>2, <1>3, RecordsKept

\* Storing a mutation that names what the caller knows.
LEMMA StoreRecords ==
    ASSUME TypeOK, RecordsInv, stack # <<>>, NEW op \in Operations, NEW e \in Entries,
           e.id.num <= Existing, e.ref.num <= Existing,
           taken' = taken, stack' = [stack EXCEPT ![Len(stack)][op] = Append(@, e)],
           \A h \in held' \ held : h.num < 0,
           UNCHANGED <<reserved, ids, got, granted, wire>>
    PROVE  RecordsInv'
  <1>1. Stored' \subseteq Stored \union {e}
    BY StoreAdds
  <1>2. RecordIds' = RecordIds /\ AppliedNames' = AppliedNames
    BY DEF RecordIds, AppliedNames
  <1> QED
    BY <1>1, <1>2 DEF RecordsInv, IdsReserved, NamesKnown, OnlyRecordsSent

LEMMA CallRecords ==
    ASSUME TypeOK, RecordsInv, CallCapture
    PROVE  RecordsInv'
  <1>1. \A h \in MayRefer \union MayName : h.num <= Existing /\ h \in Names
    <2>1. \A h \in held : h.num < 0 /\ h.num \in Int /\ Unseen(h).num = 0
      BY DEF RecordsInv, NamesKnown, TypeOK, Names, Unseen
    <2>2. \A h \in RealNames : h.num <= Existing
      BY DEF RealNames, RealName
    <2> QED
      BY <2>1, <2>2, CallNames, NamesInRange DEF MayRefer, MayName, NoName
  <1>2. NoName \in MayRefer /\ RealNames \subseteq MayName
    BY NamedMay DEF MayRefer
  <1>3. ASSUME NEW m \in Models, NEW ref \in MayRefer, CreateLocal(m, ref) PROVE RecordsInv'
    <2> DEFINE local == [num |-> NextLocal, of |-> issued + 1]
               entry == [tok |-> issued + 1, model |-> m, id |-> local, ref |-> ref]
    <2>1. /\ stack # <<>> /\ taken' = taken /\ "create" \in Operations
          /\ held' = held \union {local}
          /\ UNCHANGED <<reserved, ids, got, granted, wire>>
      BY <1>3 DEF CreateLocal, Capture, MayCapture, applyVars, serviceVars, Operations
    <2>2. stack' = [stack EXCEPT ![Len(stack)]["create"] = Append(@, entry)]
      BY <1>3 DEF CreateLocal, Capture
    <2>3. issued + 1 \in Mutations
      BY <1>3 DEF CreateLocal, MayCapture, MayRequest, Mutations, TypeOK
    <2>4. NextLocal \in Int /\ NextLocal < 0
      BY LenProperties DEF NextLocal, TypeOK
    <2>5. local \in Names /\ local.num < 0 /\ local.num <= Existing
      BY <2>3, <2>4 DEF Names, Mutations
    <2>6. entry \in Entries /\ entry.id = local /\ entry.ref = ref /\ ref.num <= Existing
      BY <1>1, <1>2, <2>3, <2>5 DEF Entries
    <2> HIDE DEF entry, local
    <2> QED
      BY <2>1, <2>2, <2>5, <2>6, StoreRecords
  <1>4. ASSUME NEW op \in Operations, NEW m \in Models, NEW id \in MayName,
               NEW ref \in MayRefer, Change(op, m, id, ref)
        PROVE  RecordsInv'
    <2> DEFINE entry == [tok |-> issued + 1, model |-> m, id |-> id, ref |-> ref]
    <2>1. /\ stack # <<>> /\ taken' = taken /\ held' = held
          /\ UNCHANGED <<reserved, ids, got, granted, wire>>
      BY <1>4 DEF Change, Capture, MayCapture, applyVars, serviceVars
    <2>2. stack' = [stack EXCEPT ![Len(stack)][op] = Append(@, entry)]
      BY <1>4 DEF Change, Capture
    <2>3. issued + 1 \in Mutations
      BY <1>4 DEF Change, MayCapture, MayRequest, Mutations, TypeOK
    <2>4. entry \in Entries /\ entry.id = id /\ entry.ref = ref
      BY <1>1, <2>3 DEF Entries
    <2> HIDE DEF entry
    <2> QED
      BY <1>1, <2>1, <2>2, <2>4, StoreRecords
  <1>5. ASSUME NEW m \in Models, NEW id \in MayName, PassThrough(m, id) \/ PassThroughTraps(m, id)
        PROVE  RecordsInv'
    <2>1. /\ MayRequest
          /\ PassedOn(m, id) \/ NotExecuted
          /\ UNCHANGED <<stack, reserved, taken, ids, got, held>>
      BY <1>5 DEF PassThrough, PassThroughTraps, captureData, applyVars
    <2>2. granted' = granted /\ AppliedNames' = AppliedNames
      BY <2>1, PassedRecords
    <2>3. RecordIds' = RecordIds /\ Stored' = Stored
      BY <2>1, <2>2 DEF RecordIds, Stored
    <2> QED
      BY <2>1, <2>2, <2>3 DEF RecordsInv, IdsReserved, NamesKnown, OnlyRecordsSent
  <1>6. CASE StartCapture \/ DiscardCapture \/ ApplyNothing \/ ApplyCapture
    <2>1. UNCHANGED <<reserved, ids, got, granted, wire, held>>
      BY <1>6 DEF StartCapture, DiscardCapture, ApplyNothing, ApplyCapture, captureData, applyVars,
         callerVars, serviceVars
    <2>2. RecordIds' = RecordIds /\ AppliedNames' = AppliedNames
      BY <2>1 DEF RecordIds, AppliedNames
    <2>3. Stored' \subseteq Stored
      <3>1. CASE StartCapture
        <4>1. /\ stack' = Append(stack, NoEntries) /\ taken' = taken /\ stack \in Seq(Captures)
              /\ Len(stack) \in Nat /\ DOMAIN stack = 1..Len(stack)
          BY <3>1, LenProperties DEF StartCapture, applyVars, TypeOK
        <4>2. ToSet(stack') \subseteq ToSet(stack) \union {NoEntries}
          BY <4>1, AppendProperties, NoEntriesType DEF ToSet
        <4> QED
          BY <4>1, <4>2, NothingStoredKept DEF Stored
      <3>2. CASE DiscardCapture
        BY <3>2, PopKeeps DEF DiscardCapture, applyVars, Stored
      <3>3. CASE ApplyNothing
        BY <3>3 DEF ApplyNothing, captureData, applyVars, Stored
      <3>4. CASE ApplyCapture
        BY <3>4, PopKeeps DEF ApplyCapture, Stored
      <3> QED
        BY <1>6, <3>1, <3>2, <3>3, <3>4
    <2> QED
      BY <2>1, <2>2, <2>3, RecordsKept DEF RecordsInv, IdsReserved
  <1>7. {"create", "update", "delete"} = Operations
    BY DEF Operations
  <1> QED
    BY <1>2, <1>3, <1>4, <1>5, <1>6, <1>7 DEF CallCapture

LEMMA ApplyRecords ==
    ASSUME TypeInv, RecordsInv, RunApply
    PROVE  RecordsInv'
  <1>0. TypeOK
    BY DEF TypeInv
  <1>1. ASSUME NEW m \in Models, NEW n \in Nat, Reserve(m, n), got' = [got EXCEPT ![m] = FreshIds(n)],
               UNCHANGED <<stack, reserved, taken, ids, held>>
        PROVE  RecordsInv'
    <2>1. RecordIds \subseteq RecordIds' /\ AppliedNames' = AppliedNames /\ ToSet(FreshIds(n)) \subseteq RecordIds'
      BY <1>0, <1>1, ReserveRecords
    <2>2. \A q \in Models : got'[q] = IF q = m THEN FreshIds(n) ELSE got[q]
      BY <1>0, <1>1 DEF TypeOK
    <2>3. \A q \in Models : ToSet(got'[q]) \subseteq RecordIds'
      BY <2>1, <2>2 DEF RecordsInv, IdsReserved
    <2> QED
      BY <1>1, <2>1, <2>3, RecordsKept DEF RecordsInv, IdsReserved, Stored
  <1>2. ASSUME NEW m \in Models, ReserveIds(m) \/ ReserveMiscounts(m) PROVE RecordsInv'
    <2>1. due[m] \in Nat /\ due[m] > 0
      BY <1>0, <1>2 DEF TypeOK, ReserveIds, ReserveMiscounts
    <2>2. due[m] - 1 \in Nat /\ due[m] + 1 \in Nat
      BY <2>1
    <2>3. PICK n \in Nat : Reserve(m, n) /\ got' = [got EXCEPT ![m] = FreshIds(n)]
      BY <1>2, <2>1, <2>2 DEF ReserveIds, ReserveMiscounts
    <2>4. UNCHANGED <<stack, reserved, taken, ids, held>>
      BY <1>2 DEF ReserveIds, ReserveMiscounts, captureData, callerVars
    <2> QED
      BY <1>1, <2>3, <2>4
  <1>3. ASSUME NEW m \in Models, ReserveFails(m) \/ ReserveTraps(m) PROVE RecordsInv'
    <2>1. due[m] \in Nat /\ (UNCHANGED serviceVars \/ Reserve(m, due[m]))
      BY <1>0, <1>3 DEF TypeOK, ReserveFails, ReserveTraps
    <2>2. RecordIds \subseteq RecordIds' /\ AppliedNames' = AppliedNames
      BY <1>0, <2>1, ReserveRecords DEF serviceVars, RecordIds, AppliedNames
    <2>3. CASE ReserveFails(m)
      BY <2>2, <2>3, OverRecords DEF ReserveFails, ApplyReturns, captureData, RecordsInv, IdsReserved
    <2>4. CASE ReserveTraps(m)
      <3>1. UNCHANGED <<stack, reserved, taken, ids, got, held>>
        BY <2>4 DEF ReserveTraps, Traps, captureData, applyVars, callerVars
      <3> QED
        BY <2>2, <3>1, RecordsKept DEF RecordsInv, IdsReserved, Stored
    <2> QED
      BY <1>3, <2>3, <2>4
  <1>4. ASSUME NEW m \in Models, Send(m) \/ SendFails(m) \/ SendTraps(m) PROVE RecordsInv'
    <2>1. Turn(m) /\ (Execute(Request(m)) \/ UNCHANGED serviceVars)
      BY <1>4 DEF Send, SendFails, SendTraps
    <2>2. granted' = granted /\ \A s \in AppliedNames' \ AppliedNames : s.num \in {0} \union RecordIds
      BY <2>1, SendRecords
    <2>3. RecordIds' = RecordIds
      BY <2>2 DEF RecordIds
    <2>4. CASE SendFails(m)
      BY <2>2, <2>3, <2>4, OverRecords DEF SendFails, ApplyReturns, captureData, RecordsInv, IdsReserved
    <2>5. CASE Send(m) \/ SendTraps(m)
      <3>1. UNCHANGED <<stack, reserved, taken, ids, got, held>>
        BY <2>5 DEF Send, SendTraps, Traps, captureData, applyVars, callerVars
      <3> QED
        BY <2>2, <2>3, <3>1, RecordsKept DEF RecordsInv, IdsReserved, Stored
    <2> QED
      BY <1>4, <2>4, <2>5
  <1>5. ASSUME AssignIds PROVE RecordsInv'
    <2>1. /\ ids' = reserved \o Given(Len(names)) /\ got' = NoIds /\ AllServed
          /\ reserved' = IF stack = <<>> THEN <<>> ELSE ids'
          /\ UNCHANGED <<stack, taken, held, granted, wire>>
      BY <1>5 DEF AssignIds, AllIds, Keep, callerVars, serviceVars
    <2>2. Len(names) \in 0..Len(names)
      BY <1>0, LenProperties DEF TypeOK
    <2>3. ToSet(ids') \subseteq RecordIds
      BY <1>0, <2>1, <2>2, GivenRecords DEF AllServed, RecordsInv
    <2>4. ToSet(reserved') \subseteq RecordIds /\ \A m \in Models : ToSet(got'[m]) \subseteq RecordIds
      BY <2>1, <2>3 DEF NoIds, ToSet
    <2>5. RecordIds' = RecordIds /\ AppliedNames' = AppliedNames /\ Stored' = Stored
      BY <2>1 DEF RecordIds, AppliedNames, Stored
    <2> QED
      BY <2>1, <2>3, <2>4, <2>5, RecordsKept
  <1>6. ASSUME AssignFails PROVE RecordsInv'
    <2>1. PICK i \in 1..Len(names) :
            (\A j \in 1..(i - 1) : Served(j)) /\ reserved' = reserved \o Given(i - 1)
      BY <1>6 DEF AssignFails
    <2>2. i - 1 \in 0..Len(names)
      BY <1>0, <2>1, LenProperties DEF TypeOK
    <2>3. ToSet(reserved') \subseteq RecordIds
      BY <1>0, <2>1, <2>2, GivenRecords DEF RecordsInv
    <2>4. ApplyOver("err") /\ stack' = stack /\ UNCHANGED serviceVars
      BY <1>6 DEF AssignFails, ApplyReturns
    <2>5. RecordIds' = RecordIds /\ AppliedNames' = AppliedNames
      BY <2>4 DEF serviceVars, RecordIds, AppliedNames
    <2> QED
      BY <2>3, <2>4, <2>5, OverRecords
  <1>7. ASSUME PrepareDeletes PROVE RecordsInv'
    <2>1. UNCHANGED <<stack, reserved, taken, ids, got, held, granted, wire>>
      BY <1>7 DEF PrepareDeletes, captureData, callerVars, serviceVars
    <2>2. RecordIds' = RecordIds /\ AppliedNames' = AppliedNames /\ Stored' = Stored
      BY <2>1 DEF RecordIds, AppliedNames, Stored
    <2> QED
      BY <2>1, <2>2, RecordsKept DEF RecordsInv, IdsReserved
  <1>8. ASSUME ApplyDone PROVE RecordsInv'
    <2>1. ApplyOver("ok") /\ UNCHANGED <<stack, reserved, granted, wire>>
      BY <1>8 DEF ApplyDone, ApplyReturns, captureData, serviceVars
    <2>2. RecordIds' = RecordIds /\ AppliedNames' = AppliedNames
      BY <2>1 DEF RecordIds, AppliedNames
    <2> QED
      BY <2>1, <2>2, OverRecords DEF RecordsInv, IdsReserved
  <1> QED
    BY <1>2, <1>3, <1>4, <1>5, <1>6, <1>7, <1>8 DEF RunApply

LEMMA RecordsStep ==
    ASSUME TypeInv, RecordsInv, [Next]_vars
    PROVE  RecordsInv'
  <1>1. CASE CallCapture
    BY <1>1, CallRecords DEF TypeInv
  <1>2. CASE RunApply
    BY <1>2, ApplyRecords
  <1>3. CASE Reinstantiate
    <2>1. ApplyOver("err") /\ stack' = <<>> /\ reserved' = <<>> /\ UNCHANGED <<granted, wire>>
      BY <1>3 DEF Reinstantiate, serviceVars
    <2>2. RecordIds' = RecordIds /\ AppliedNames' = AppliedNames /\ ToSet(reserved') = {}
      BY <2>1 DEF RecordIds, AppliedNames, ToSet
    <2> QED
      BY <2>1, <2>2, OverRecords
  <1>4. CASE UNCHANGED vars
    <2>1. UNCHANGED <<stack, reserved, taken, ids, got, held, granted, wire>>
      BY <1>4 DEF vars, captureData, applyVars, callerVars, serviceVars
    <2>2. RecordIds' = RecordIds /\ AppliedNames' = AppliedNames /\ Stored' = Stored
      BY <2>1 DEF RecordIds, AppliedNames, Stored
    <2> QED
      BY <2>1, <2>2, RecordsKept DEF RecordsInv, IdsReserved
  <1> QED
    BY <1>1, <1>2, <1>3, <1>4 DEF Next

\* Whatever requests fail, are miscounted or lose the instance, every id that an
\* apply sees as a number goes out as that of a record that exists or was
\* reserved, never as the local id it was stored under (replace_id,
\* replace_negative_ids_in_mutation_input).
THEOREM OnlyRecords == Spec => []OnlyRecordsSent
  <1>1. Init => RecordsInv
    <2> SUFFICES ASSUME Init PROVE RecordsInv
      OBVIOUS
    <2>1. /\ stack = <<>> /\ taken = NoEntries /\ got = NoIds /\ ids = <<>> /\ reserved = <<>>
          /\ held = {} /\ wire = <<>>
      BY DEF Init, ServiceInit
    <2>2. AppliedNames = {} /\ Stored = {}
      BY <2>1 DEF AppliedNames, Stored, ToSet, EntriesOf, NoEntries
    <2> QED
      BY <2>1, <2>2 DEF RecordsInv, IdsReserved, NamesKnown, OnlyRecordsSent, NoIds, ToSet
  <1>2. TypeInv /\ [Next]_vars => TypeInv'
    BY TypeStep
  <1>3. TypeInv /\ RecordsInv /\ [Next]_vars => RecordsInv'
    BY RecordsStep
  <1>4. RecordsInv => OnlyRecordsSent
    BY DEF RecordsInv
  <1> QED
    BY <1>1, <1>2, <1>3, <1>4, TypeInit, PTL DEF Spec
=============================================================================
