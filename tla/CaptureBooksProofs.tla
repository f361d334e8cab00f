------------------------- MODULE CaptureBooksProofs -------------------------
(***************************************************************************)
(* While reservations are answered the bookkeeping of CaptureData is       *)
(* exact, whichever requests with mutations fail: as many ids are          *)
(* requested per model as there are names, every local id in a captured    *)
(* mutation gets its real id, and so no apply fails for want of an id or   *)
(* indexes outside the reserved ids.                                       *)
(***************************************************************************)
EXTENDS CaptureProofs

USE ServiceAssumption, CaptureAssumption

-----------------------------------------------------------------------------
(***************************************************************************)
(* Counting the places of a model.                                         *)
(***************************************************************************)
LEMMA PlacesFinite ==
    ASSUME NEW s \in Seq(Models), NEW m \in Models
    PROVE  /\ Places(s, m) \subseteq 1..Len(s)
           /\ IsFiniteSet(Places(s, m))
           /\ Cardinality(Places(s, m)) \in Nat
  <1>1. Len(s) \in Nat /\ IsFiniteSet(1..Len(s))
    BY LenProperties, FS_Interval
  <1>2. Places(s, m) \subseteq 1..Len(s)
    BY DEF Places
  <1> QED
    BY <1>1, <1>2, FS_Subset, FS_CardinalityType

LEMMA PlacesEmpty ==
    ASSUME NEW m \in Models
    PROVE  Cardinality(Places(<<>>, m)) = 0
  <1>1. Places(<<>>, m) = {}
    BY DEF Places
  <1> QED
    BY <1>1, FS_EmptySet

LEMMA PlacesAppend ==
    ASSUME NEW s \in Seq(Models), NEW m \in Models, NEW k \in Models
    PROVE  Cardinality(Places(Append(s, k), m)) =
               Cardinality(Places(s, m)) + (IF m = k THEN 1 ELSE 0)
  <1> DEFINE t == Append(s, k)
             n == Len(s) + 1
  <1>1. /\ Len(s) \in Nat
        /\ Len(t) = n
        /\ \A i \in 1..Len(s) : t[i] = s[i]
        /\ t[n] = k
    BY LenProperties, AppendProperties
  <1>2. n \notin Places(s, m)
    BY <1>1 DEF Places
  <1>3. CASE m = k
    <2>1. Places(t, m) = Places(s, m) \union {n}
      <3> HIDE DEF t
      <3> QED
        BY <1>1, <1>3 DEF Places
    <2> QED
      BY <1>2, <1>3, <2>1, PlacesFinite, FS_AddElement
  <1>4. CASE m # k
    <2>1. Places(t, m) = Places(s, m)
      <3> HIDE DEF t
      <3> QED
        BY <1>1, <1>4 DEF Places
    <2> QED
      BY <1>4, <2>1, PlacesFinite
  <1> QED
    BY <1>3, <1>4

LEMMA RankInPlaces ==
    ASSUME names \in Seq(Models), NEW i \in 1..Len(names)
    PROVE  Rank(i) <= Cardinality(Places(names, names[i]))
  <1>1. names[i] \in Models
    BY ElementOfSeq
  <1>2. IsFiniteSet(Places(names, names[i]))
    BY <1>1, PlacesFinite
  <1>3. {j \in Places(names, names[i]) : j <= i} \subseteq Places(names, names[i])
    OBVIOUS
  <1> QED
    BY <1>2, <1>3, FS_Subset DEF Rank

-----------------------------------------------------------------------------
(***************************************************************************)
(* Names that are sound are in range, and stay sound.                      *)
(***************************************************************************)
LEMMA SoundGrows ==
    ASSUME NEW h, NEW g, h \subseteq g, NEW c, SoundCapture(c, h)
    PROVE  SoundCapture(c, g)
  BY DEF SoundCapture, SoundRef, Sound

LEMMA NoEntriesSound == \A h : SoundCapture(NoEntries, h)
  BY DEF SoundCapture, NoEntries

LEMMA StoreSound ==
    ASSUME NEW c \in Captures, NEW h, SoundCapture(c, h), NEW op \in Operations, NEW e \in Entries,
           Sound(e.id, h), SoundRef(e.ref, h)
    PROVE  SoundCapture([c EXCEPT ![op] = Append(@, e)], h)
  <1> DEFINE d == [c EXCEPT ![op] = Append(@, e)]
  <1>1. SUFFICES ASSUME NEW o \in Operations, NEW i \in DOMAIN d[o]
                 PROVE  Sound(d[o][i].id, h) /\ SoundRef(d[o][i].ref, h)
    BY DEF SoundCapture
  <1>2. CASE o # op
    <2>1. d[o] = c[o]
      BY <1>2 DEF Captures
    <2> QED
      BY <1>1, <2>1 DEF SoundCapture
  <1>3. CASE o = op
    <2>1. c[op] \in Seq(Entries) /\ d[o] = Append(c[op], e)
      BY <1>3 DEF Captures
    <2>2. /\ Len(c[op]) \in Nat
          /\ DOMAIN c[op] = 1..Len(c[op])
          /\ i \in 1..(Len(c[op]) + 1)
          /\ \A j \in 1..Len(c[op]) : d[o][j] = c[op][j]
          /\ d[o][Len(c[op]) + 1] = e
      BY <1>1, <2>1, LenProperties, AppendProperties
    <2>3. CASE i = Len(c[op]) + 1
      BY <2>2, <2>3
    <2>4. CASE i # Len(c[op]) + 1
      <3>1. i \in DOMAIN c[op] /\ d[o][i] = c[op][i]
        BY <2>2, <2>4
      <3> QED
        BY <3>1 DEF SoundCapture
    <2> QED
      BY <2>3, <2>4
  <1> QED
    BY <1>2, <1>3

LEMMA SoundInRange ==
    ASSUME NEW h \in SUBSET Names, NEW s, Len(s) \in Nat, \A l \in h : -l.num <= Len(s),
           NEW c, SoundCapture(c, h), NEW op \in Operations
    PROVE  AllInRange(c[op], s)
  BY DEF SoundCapture, SoundRef, Sound, AllInRange, InRange, Names

LEMMA ConcatInRange ==
    ASSUME NEW a \in Seq(Entries), NEW b \in Seq(Entries), NEW s, AllInRange(a, s), AllInRange(b, s)
    PROVE  AllInRange(a \o b, s)
  <1> DEFINE n == Len(a)
             k == Len(b)
             c == a \o b
  <1>1. n \in Nat /\ k \in Nat /\ DOMAIN a = 1..n /\ DOMAIN b = 1..k
    BY LenProperties
  <1>2. /\ c \in Seq(Entries)
        /\ Len(c) = n + k
        /\ \A i \in 1..(n + k) : c[i] = IF i <= n THEN a[i] ELSE b[i - n]
    BY ConcatProperties
  <1>3. DOMAIN c = 1..(n + k)
    BY <1>2, LenProperties
  <1>4. ASSUME NEW i \in 1..(n + k)
        PROVE  InRange(c[i].id, s) /\ InRange(c[i].ref, s)
    <2> HIDE DEF n, k, c
    <2>1. CASE i <= n
      <3>1. i \in DOMAIN a /\ c[i] = a[i]
        BY <1>1, <1>2, <2>1
      <3> QED
        BY <3>1 DEF AllInRange
    <2>2. CASE ~(i <= n)
      <3>1. i - n \in DOMAIN b
        BY <1>1, <2>2
      <3>2. c[i] = b[i - n]
        BY <1>2, <2>2
      <3> QED
        BY <3>1, <3>2 DEF AllInRange
    <2> QED
      BY <2>1, <2>2
  <1> HIDE DEF c, n, k
  <1>5. AllInRange(c, s)
    BY <1>3, <1>4 DEF AllInRange
  <1> QED
    BY <1>5 DEF c

-----------------------------------------------------------------------------
(***************************************************************************)
(* The invariant.                                                          *)
(***************************************************************************)
LEMMA BooksInit == Init => Books
  <1> SUFFICES ASSUME Init PROVE Books
    OBVIOUS
  <1>1. AllBound /\ HeldOnce
    BY DEF Init, AllBound, Sending, HeldOnce
  <1>2. Booked
    BY PlacesEmpty DEF Init, Booked, NoCounts, NoIds
  <1>3. CapturesSound
    BY NoEntriesSound DEF Init, CapturesSound
  <1> QED
    BY <1>1, <1>2, <1>3 DEF Books

\* What is true of Locals outside of the sending phases.
LEMMA IdleLocals ==
    ASSUME TypeOK
    PROVE  /\ Len(names) \in Nat /\ Len(reserved) \in Nat /\ Len(ids) \in Nat
           /\ Len(Binding) \in Nat /\ Locals \in Nat
           /\ phase \in {"idle", "reserve"} => Locals = Len(reserved) + Len(names)
  BY LenProperties DEF TypeOK, Locals, Binding, Sending

LEMMA StackTop ==
    ASSUME TypeOK, stack # <<>>
    PROVE  /\ Len(stack) \in 1..Len(stack)
           /\ \A i \in 1..Len(stack) : stack[i] \in Captures
  <1>1. Len(stack) \in Nat \ {0}
    BY EmptySeq DEF TypeOK
  <1> QED
    BY <1>1, ElementOfSeq DEF TypeOK

\* A step that leaves the names, counts and ids alone and may add to held.
LEMMA SameBooks ==
    ASSUME Books, UNCHANGED <<names, counts, reserved, phase, due, got, ids, held>>,
           issued \in Nat, issued' \in Nat, issued <= issued',
           Sending => stack' = stack
    PROVE  Booked' /\ AllBound' /\ HeldOnce'
  <1>1. Locals' = Locals
    BY DEF Locals, Binding, Sending
  <1>2. HeldOnce'
    BY <1>1 DEF Books, HeldOnce
  <1>3. Booked'
    BY DEF Books, Booked, Places
  <1>4. AllBound'
    BY DEF Books, AllBound, Sending
  <1> QED
    BY <1>2, <1>3, <1>4

\* A mutation is stored: the top capture stays sound.
LEMMA StoredSound ==
    ASSUME TypeOK, CapturesSound, stack # <<>>, NEW op \in Operations, NEW e \in Entries,
           stack' = [stack EXCEPT ![Len(stack)][op] = Append(@, e)],
           taken' = taken, held \subseteq held', Sound(e.id, held'), SoundRef(e.ref, held')
    PROVE  CapturesSound'
  <1>1. /\ Len(stack) \in 1..Len(stack)
        /\ \A i \in 1..Len(stack) : stack[i] \in Captures /\ SoundCapture(stack[i], held')
    BY StackTop, SoundGrows DEF CapturesSound
  <1> DEFINE n == Len(stack)
             top == [stack[n] EXCEPT ![op] = Append(@, e)]
  <1>2. /\ Len(stack') = n
        /\ \A i \in 1..n : stack'[i] = IF i = n THEN top ELSE stack[i]
    <2>1. stack \in Seq(Captures) /\ DOMAIN stack = 1..n /\ n \in Nat
      BY LenProperties DEF TypeOK
    <2> HIDE DEF n
    <2>2. stack' = [stack EXCEPT ![n] = top]
      BY DEF n
    <2> HIDE DEF top
    <2>3. stack' = [i \in 1..n |-> IF i = n THEN top ELSE stack[i]]
      BY <2>1, <2>2
    <2>4. Len(stack') = n
      BY <2>1, <2>3
    <2>5. \A i \in 1..n : stack'[i] = IF i = n THEN top ELSE stack[i]
      BY <2>3
    <2> QED
      BY <2>4, <2>5
  <1>3. ASSUME NEW i \in 1..n
        PROVE  SoundCapture(stack'[i], held')
    <2>1. SoundCapture(top, held')
      BY <1>1, StoreSound
    <2> HIDE DEF top, n
    <2> QED
      BY <1>1, <1>2, <2>1 DEF n
  <1>4. SoundCapture(taken', held')
    BY SoundGrows DEF CapturesSound
  <1> HIDE DEF n, top
  <1> QED
    BY <1>2, <1>3, <1>4 DEF CapturesSound

\* The names the caller may use are sound.
LEMMA NameSound ==
    ASSUME HeldOnce
    PROVE  /\ \A id \in MayName : Sound(id, held)
           /\ \A ref \in MayRefer : SoundRef(ref, held)
  <1>1. \A local \in held : Unseen(local).num = 0
    BY DEF Unseen, HeldOnce
  <1> QED
    BY <1>1 DEF HeldOnce, Sound, SoundRef, MayName, MayRefer, RealNames, RealName, NoName

\* Popping the top capture leaves the others sound.
LEMMA PoppedSound ==
    ASSUME TypeOK, CapturesSound, stack # <<>>
    PROVE  /\ Len(Front(stack)) = Len(stack) - 1
           /\ \A i \in 1..Len(Front(stack)) : SoundCapture(Front(stack)[i], held)
           /\ SoundCapture(Last(stack), held)
  <1>1. Len(stack) \in 1..Len(stack) /\ Len(stack) \in Nat
    BY StackTop
  <1>2. /\ Front(stack) \in Seq(Captures)
        /\ Len(Front(stack)) = Len(stack) - 1
        /\ \A i \in 1..Len(Front(stack)) : Front(stack)[i] = stack[i]
    BY FrontLast DEF TypeOK
  <1>3. Last(stack) = stack[Len(stack)]
    BY DEF Last
  <1> QED
    BY <1>1, <1>2, <1>3 DEF CapturesSound

-----------------------------------------------------------------------------
(***************************************************************************)
(* The calls of the capture api keep the books.                            *)
(***************************************************************************)
LEMMA StartKeepsBooks ==
    ASSUME TypeOK, Books, StartCapture
    PROVE  Books'
  <1>1. issued \in Nat
    BY DEF TypeOK
  <1>2. Booked' /\ AllBound' /\ HeldOnce'
    BY <1>1, SameBooks DEF StartCapture, Sending, applyVars, callerVars
  <1>3. SoundCapture(NoEntries, held)
    BY NoEntriesSound
  <1>4. /\ Len(stack') = Len(stack) + 1
        /\ Len(stack) \in Nat
        /\ \A i \in 1..Len(stack) : stack'[i] = stack[i]
        /\ stack'[Len(stack) + 1] = NoEntries
    BY LenProperties, AppendProperties DEF StartCapture, TypeOK
  <1>5. ASSUME NEW i \in 1..Len(stack')
        PROVE  SoundCapture(stack'[i], held)
    <2>1. CASE i = Len(stack) + 1
      BY <1>3, <1>4, <2>1
    <2>2. CASE i # Len(stack) + 1
      BY <1>4, <2>2 DEF Books, CapturesSound
    <2> QED
      BY <2>1, <2>2
  <1>6. held' = held /\ taken' = taken
    BY DEF StartCapture, applyVars, callerVars
  <1>7. CapturesSound'
    BY <1>5, <1>6 DEF Books, CapturesSound
  <1> QED
    BY <1>2, <1>7 DEF Books

LEMMA DiscardKeepsBooks ==
    ASSUME TypeOK, Books, DiscardCapture
    PROVE  Books'
  <1>1. issued \in Nat
    BY DEF TypeOK
  <1>2. Booked' /\ AllBound' /\ HeldOnce'
    BY <1>1, SameBooks DEF DiscardCapture, Sending, applyVars
  <1>3. stack' = Front(stack) /\ held' = held /\ taken' = taken
    BY DEF DiscardCapture, applyVars
  <1>4. \A i \in 1..Len(Front(stack)) : SoundCapture(Front(stack)[i], held)
    BY PoppedSound DEF DiscardCapture, Books
  <1>5. CapturesSound'
    BY <1>3, <1>4 DEF Books, CapturesSound
  <1> QED
    BY <1>2, <1>5 DEF Books

LEMMA CreateLocalKeepsBooks ==
    ASSUME TypeOK, Books, NEW m \in Models, NEW ref \in MayRefer, CreateLocal(m, ref)
    PROVE  Books'
  <1> DEFINE n == Len(names) + 1 + Len(reserved)
             local == [num |-> -n, of |-> issued + 1]
             entry == [tok |-> issued + 1, model |-> m, id |-> local, ref |-> ref]
  <1>0. /\ Len(names) \in Nat /\ Len(reserved) \in Nat /\ n \in Nat \ {0}
        /\ issued \in Nat /\ issued + 1 \in Mutations
    BY LenProperties DEF TypeOK, CreateLocal, MayCapture, MayRequest, Mutations
  <1>1. /\ phase = "idle" /\ phase' = "idle"
        /\ stack # <<>>
        /\ stack' = [stack EXCEPT ![Len(stack)]["create"] = Append(@, entry)]
        /\ names' = Append(names, m)
        /\ counts' = [counts EXCEPT ![m] = @ + 1]
        /\ held' = held \union {local}
        /\ issued' = issued + 1
        /\ UNCHANGED <<reserved, taken, due, got, ids, todo>>
    BY DEF CreateLocal, Capture, NextLocal, MayCapture, MayRequest, applyVars
  <1> HIDE DEF n
  <1>2. Booked'
    <2>1. due = NoCounts /\ got = NoIds
      BY <1>1 DEF Books, Booked
    <2>2. ASSUME NEW k \in Models
          PROVE  counts'[k] + due'[k] + Len(got'[k]) = Cardinality(Places(names', k))
      <3>1. Cardinality(Places(names', k)) = Cardinality(Places(names, k)) + (IF k = m THEN 1 ELSE 0)
        BY <1>1, PlacesAppend DEF TypeOK
      <3>2. counts'[k] = counts[k] + (IF k = m THEN 1 ELSE 0)
        <4>1. counts \in [Models -> Nat] /\ counts' = [counts EXCEPT ![m] = @ + 1]
          BY <1>1 DEF TypeOK
        <4> QED
          BY <4>1
      <3>3. due'[k] = 0 /\ got'[k] = <<>>
        BY <1>1, <2>1 DEF NoCounts, NoIds
      <3>4. counts[k] + 0 + 0 = Cardinality(Places(names, k))
        BY <2>1 DEF Books, Booked, NoCounts, NoIds
      <3>5. counts[k] \in Nat
        BY DEF TypeOK
      <3> QED
        BY <3>1, <3>2, <3>3, <3>4, <3>5
    <2>3. \A k \in Models : due'[k] = 0
      BY <1>1, <2>1 DEF NoCounts
    <2> QED
      BY <1>1, <2>1, <2>2, <2>3 DEF Booked
  <1>3. HeldOnce'
    <2>1. Len(names') = Len(names) + 1
      BY <1>1, AppendProperties DEF TypeOK
    <2>2. Locals \in Nat /\ n = Locals + 1 /\ Locals' = Locals + 1
      BY <1>0, <1>1, <2>1 DEF n, Locals, Binding, Sending
    <2>3. /\ \A h \in held : h.num \in -Locals..-1 /\ h.of \in 1..issued
          /\ \A a, b \in held : a.num = b.num <=> a.of = b.of
      BY DEF Books, HeldOnce
    <2>4. local.num = -(Locals + 1) /\ local.of = issued + 1
      BY <2>2
    <2>h. held' = held \union {local} /\ issued' = issued + 1 /\ issued \in Nat
      BY <1>0, <1>1
    <2> HIDE DEF local
    <2>5. \A h \in held' : h.num \in -Locals'..-1 /\ h.of \in 1..issued'
      <3>1. ASSUME NEW h \in held PROVE h.num \in -Locals'..-1 /\ h.of \in 1..issued'
        BY <2>2, <2>3, <2>h
      <3>2. local.num \in -Locals'..-1 /\ local.of \in 1..issued'
        BY <2>2, <2>4, <2>h
      <3> QED
        BY <2>h, <3>1, <3>2
    <2>6. ASSUME NEW a \in held', NEW b \in held'
          PROVE  a.num = b.num <=> a.of = b.of
      <3>1. ASSUME NEW h \in held PROVE h.num # local.num /\ h.of # local.of
        BY <2>2, <2>3, <2>4, <2>h
      <3> QED
        BY <2>3, <2>h, <3>1
    <2> QED
      BY <2>5, <2>6 DEF HeldOnce
  <1>4. CapturesSound'
    <2>1. entry \in Entries
      <3>1. -n \in Int /\ issued + 1 \in 0..MaxMutations
        BY <1>0 DEF Mutations
      <3>2. local \in Names
        BY <3>1 DEF Names
      <3>3. ref \in Names
        BY CallNames
      <3> QED
        BY <1>0, <3>2, <3>3 DEF Entries
    <2>2. Sound(local, held')
      <3>1. -n < 0
        BY <1>0
      <3> QED
        BY <1>1, <3>1 DEF Sound
    <2>3. SoundRef(ref, held')
      <3>1. SoundRef(ref, held)
        BY NameSound DEF Books
      <3> QED
        BY <1>1, <3>1 DEF SoundRef, Sound
    <2>4. entry.id = local /\ entry.ref = ref
      OBVIOUS
    <2> HIDE DEF entry, local
    <2>5. "create" \in Operations /\ held \subseteq held' /\ taken' = taken
      BY <1>1 DEF Operations
    <2> QED
      BY <1>1, <2>1, <2>2, <2>3, <2>4, <2>5, StoredSound DEF Books
  <1>5. AllBound'
    BY <1>1 DEF AllBound, Sending
  <1> QED
    BY <1>2, <1>3, <1>4, <1>5 DEF Books

LEMMA ChangeKeepsBooks ==
    ASSUME TypeOK, Books, NEW op \in Operations, NEW m \in Models,
           NEW id \in MayName, NEW ref \in MayRefer, Change(op, m, id, ref)
    PROVE  Books'
  <1> DEFINE entry == [tok |-> issued + 1, model |-> m, id |-> id, ref |-> ref]
  <1>0. issued \in Nat /\ issued + 1 \in Mutations
    BY DEF TypeOK, Change, MayCapture, MayRequest, Mutations
  <1>1. /\ phase = "idle"
        /\ stack # <<>>
        /\ stack' = [stack EXCEPT ![Len(stack)][op] = Append(@, entry)]
        /\ issued' = issued + 1
        /\ UNCHANGED <<names, counts, held, reserved, phase, taken, due, got, ids>>
    BY DEF Change, Capture, MayCapture, MayRequest, applyVars
  <1>2. entry \in Entries
    BY <1>0, CallNames DEF Entries
  <1>3. Sound(entry.id, held) /\ SoundRef(entry.ref, held)
    BY NameSound DEF Books
  <1> HIDE DEF entry
  <1>4. Booked' /\ AllBound' /\ HeldOnce'
    <2>1. ~Sending /\ issued' \in Nat /\ issued <= issued'
      BY <1>0, <1>1 DEF Sending
    <2> QED
      BY <1>0, <1>1, <2>1, SameBooks
  <1>5. CapturesSound'
    BY <1>1, <1>2, <1>3, StoredSound DEF Books
  <1> QED
    BY <1>4, <1>5 DEF Books

\* A step that touches neither the captures nor the books.
LEMMA ElsewhereKeepsBooks ==
    ASSUME TypeOK, Books,
           UNCHANGED <<stack, names, counts, reserved, phase, taken, due, got, ids, held>>,
           issued' \in Nat, issued <= issued'
    PROVE  Books'
  <1>1. issued \in Nat
    BY DEF TypeOK
  <1>2. Booked' /\ AllBound' /\ HeldOnce'
    BY <1>1, SameBooks
  <1>3. CapturesSound'
    BY DEF Books, CapturesSound
  <1> QED
    BY <1>2, <1>3 DEF Books

-----------------------------------------------------------------------------
(***************************************************************************)
(* apply_capture keeps the books while no fault occurs.                    *)
(***************************************************************************)
LEMMA ApplyKeepsBooks ==
    ASSUME TypeOK, Books, ApplyCapture
    PROVE  Books'
  <1>1. /\ phase = "idle" /\ phase' = "reserve"
        /\ stack # <<>>
        /\ taken' = Last(stack)
        /\ stack' = Front(stack)
        /\ due' = counts
        /\ counts' = NoCounts
        /\ UNCHANGED <<names, reserved, got, ids, issued, held>>
    BY DEF ApplyCapture, callerVars
  <1>2. Booked'
    <2>1. due = NoCounts /\ got = NoIds
      BY <1>1 DEF Books, Booked
    <2>2. ASSUME NEW m \in Models
          PROVE  /\ got'[m] = <<>>
                 /\ counts'[m] + due'[m] + Len(got'[m]) = Cardinality(Places(names', m))
      <3>1. counts[m] \in Nat /\ due[m] = 0 /\ got[m] = <<>>
        BY <2>1 DEF TypeOK, NoCounts, NoIds
      <3>2. counts[m] + 0 + 0 = Cardinality(Places(names, m))
        BY <3>1 DEF Books, Booked
      <3>3. counts'[m] = 0 /\ due'[m] = counts[m] /\ got'[m] = <<>> /\ names' = names
        BY <1>1, <3>1 DEF NoCounts
      <3> QED
        BY <3>1, <3>2, <3>3
    <2> QED
      BY <1>1, <2>2 DEF Booked
  <1>3. HeldOnce'
    <2>1. Locals' = Locals
      BY <1>1 DEF Locals, Binding, Sending
    <2> QED
      BY <1>1, <2>1 DEF Books, HeldOnce
  <1>4. CapturesSound'
    BY <1>1, PoppedSound DEF Books, CapturesSound
  <1>5. AllBound'
    BY <1>1 DEF AllBound, Sending
  <1> QED
    BY <1>2, <1>3, <1>4, <1>5 DEF Books

LEMMA ReserveKeepsBooks ==
    ASSUME TypeOK, Books, NEW m \in Models, ReserveIds(m)
    PROVE  Books'
  <1>1. /\ phase = "reserve"
        /\ due[m] > 0 /\ due[m] \in Nat
        /\ got' = [got EXCEPT ![m] = FreshIds(due[m])]
        /\ due' = [due EXCEPT ![m] = 0]
        /\ UNCHANGED <<stack, names, counts, reserved, phase, taken, ids, issued, held>>
    BY DEF ReserveIds, captureData, callerVars, TypeOK
  <1>2. Len(FreshIds(due[m])) = due[m]
    BY <1>1, ReserveType DEF TypeOK
  <1>3. Booked'
    <2>1. ASSUME NEW k \in Models
          PROVE  /\ due'[k] > 0 => got'[k] = <<>>
                 /\ counts'[k] + due'[k] + Len(got'[k]) = Cardinality(Places(names', k))
      <3>1. counts[k] \in Nat /\ due[k] \in Nat /\ Len(got[k]) \in Nat
        BY LenProperties DEF TypeOK
      <3>2. /\ counts[k] + due[k] + Len(got[k]) = Cardinality(Places(names, k))
            /\ due[k] > 0 => got[k] = <<>>
        BY DEF Books, Booked
      <3>3. CASE k = m
        <4>1. due'[k] = 0 /\ got'[k] = FreshIds(due[m]) /\ Len(got[k]) = 0
          BY <1>1, <3>2, <3>3 DEF TypeOK
        <4> QED
          BY <1>1, <1>2, <3>1, <3>2, <3>3, <4>1
      <3>4. CASE k # m
        <4>1. due'[k] = due[k] /\ got'[k] = got[k]
          BY <1>1, <3>4 DEF TypeOK
        <4> QED
          BY <1>1, <3>2, <4>1
      <3> QED
        BY <3>3, <3>4
    <2> QED
      BY <1>1, <2>1 DEF Books, Booked
  <1>4. HeldOnce'
    <2>1. Locals' = Locals
      BY <1>1 DEF Locals, Binding, Sending
    <2> QED
      BY <1>1, <2>1 DEF Books, HeldOnce
  <1>5. CapturesSound'
    BY <1>1 DEF Books, CapturesSound
  <1>6. AllBound'
    BY <1>1 DEF AllBound, Sending
  <1> QED
    BY <1>3, <1>4, <1>5, <1>6 DEF Books

\* Every held local id is at most Locals below zero.
LEMMA HeldInRange ==
    ASSUME TypeOK, Books, NEW s, Len(s) = Locals, NEW c, SoundCapture(c, held),
           NEW op \in Operations
    PROVE  AllInRange(c[op], s)
  <1>1. held \in SUBSET Names /\ Locals \in Nat
    BY IdleLocals DEF TypeOK
  <1>2. \A l \in held : -l.num <= Len(s)
    BY <1>1 DEF Books, HeldOnce, Names
  <1> QED
    BY <1>1, <1>2, SoundInRange

\* Once all reservations are answered there is an id for every name.
LEMMA AnsweredServed ==
    ASSUME TypeOK, Books, AllAnswered
    PROVE  AllServed
  <1>1. ASSUME NEW i \in 1..Len(names)
        PROVE  Rank(i) <= Len(got[names[i]])
    <2>1. names[i] \in Models /\ names \in Seq(Models)
      BY ElementOfSeq DEF TypeOK
    <2>2. Rank(i) <= Cardinality(Places(names, names[i]))
      BY <2>1, RankInPlaces
    <2>3. counts[names[i]] = 0 /\ due[names[i]] = 0
      BY <2>1 DEF AllAnswered, Books, Booked, NoCounts
    <2>4. Len(got[names[i]]) \in Nat
      BY <2>1, LenProperties DEF TypeOK
    <2>5. 0 + 0 + Len(got[names[i]]) = Cardinality(Places(names, names[i]))
      BY <2>1, <2>3 DEF Books, Booked
    <2> QED
      BY <2>2, <2>4, <2>5
  <1> QED
    BY <1>1 DEF AllServed, Served

LEMMA AssignKeepsBooks ==
    ASSUME TypeOK, Books, AssignIds
    PROVE  phase' = "upsert" /\ Books'
  <1>1. /\ phase = "reserve" /\ due = NoCounts
        /\ ids' = reserved \o Given(Len(names))
        /\ reserved' = IF stack = <<>> THEN <<>> ELSE ids'
        /\ names' = <<>>
        /\ got' = NoIds
        /\ UNCHANGED <<stack, counts, taken, due, issued, held>>
    BY DEF AssignIds, AllIds, Keep, AllAnswered, callerVars
  <1>2. Len(names) \in Nat /\ Len(reserved) \in Nat /\ Locals = Len(reserved) + Len(names)
    BY <1>1, IdleLocals
  <1>3. Len(ids') = Locals
    <2>1. Given(Len(names)) \in Seq(Int) /\ Len(Given(Len(names))) = Len(names)
      BY <1>2, GivenType DEF AssignIds, AllServed
    <2>2. reserved \in Seq(Int)
      BY DEF TypeOK
    <2>3. Len(reserved \o Given(Len(names))) = Len(reserved) + Len(names)
      BY <2>1, <2>2, ConcatProperties, ZenonT(40)
    <2> QED
      BY <1>1, <1>2, <2>3
  <1>4. AllInRange(Upserts, ids')
    <2>1. AllInRange(taken["create"], ids') /\ AllInRange(taken["update"], ids')
      BY <1>3, HeldInRange DEF Books, CapturesSound, Operations
    <2>2. taken["create"] \in Seq(Entries) /\ taken["update"] \in Seq(Entries)
      BY DEF TypeOK, Captures, Operations
    <2> QED
      BY <2>1, <2>2, ConcatInRange DEF Upserts
  <1>5. phase' = "upsert"
    BY <1>4 DEF AssignIds
  <1>6. Booked'
    <2>1. counts = NoCounts
      BY <1>1 DEF Books, Booked
    <2>2. ASSUME NEW m \in Models
          PROVE  /\ got'[m] = <<>>
                 /\ counts'[m] + due'[m] + Len(got'[m]) = Cardinality(Places(names', m))
      <3>1. counts'[m] = 0 /\ due'[m] = 0 /\ got'[m] = <<>> /\ names' = <<>>
        BY <1>1, <2>1 DEF NoCounts, NoIds
      <3> QED
        BY <3>1, PlacesEmpty
    <2> QED
      BY <1>1, <1>5, <2>2 DEF Booked
  <1>7. AllBound'
    BY <1>1 DEF AllBound
  <1>8. HeldOnce'
    <2>1. Locals' = Len(ids') + 0
      BY <1>1, <1>5 DEF Locals, Binding, Sending
    <2>2. Locals' = Locals
      BY <1>2, <1>3, <2>1
    <2> QED
      BY <1>1, <2>2 DEF Books, HeldOnce
  <1>9. CapturesSound'
    BY <1>1 DEF Books, CapturesSound
  <1> QED
    BY <1>5, <1>6, <1>7, <1>8, <1>9 DEF Books

LEMMA PrepareDeletesKeepsBooks ==
    ASSUME TypeOK, Books, PrepareDeletes
    PROVE  phase' = "delete" /\ Books'
  <1>1. /\ phase = "upsert"
        /\ UNCHANGED <<stack, names, counts, reserved, taken, due, got, ids, issued, held>>
    BY DEF PrepareDeletes, captureData, callerVars
  <1>2. Len(ids) = Locals
    <2>1. names = <<>>
      BY <1>1 DEF Books, AllBound, Sending
    <2>2. Locals = Len(ids) + 0 /\ Len(ids) \in Nat
      BY <1>1, <2>1, IdleLocals DEF Locals, Binding, Sending
    <2> QED
      BY <2>2
  <1>3. AllInRange(taken["delete"], ids)
    BY <1>2, HeldInRange DEF Books, CapturesSound, Operations
  <1>4. phase' = "delete"
    BY <1>3 DEF PrepareDeletes
  <1>5. Locals' = Locals
    BY <1>1, <1>4 DEF Locals, Binding, Sending
  <1>6. HeldOnce'
    BY <1>1, <1>5 DEF Books, HeldOnce
  <1>7. Booked'
    BY <1>1, <1>4 DEF Books, Booked, Places
  <1>8. AllBound'
    BY <1>1, <1>4 DEF Books, AllBound, Sending
  <1>9. CapturesSound'
    BY <1>1 DEF Books, CapturesSound
  <1> QED
    BY <1>4, <1>6, <1>7, <1>8, <1>9 DEF Books

\* When an apply returns while it sends, the numbering goes on or is over.
LEMMA ReturnKeepsBooks ==
    ASSUME TypeOK, Books, Sending, NEW r, ApplyOver(r), UNCHANGED captureData
    PROVE  Books'
  <1>1. /\ phase' = "idle"
        /\ taken' = NoEntries /\ due' = NoCounts /\ got' = NoIds
        /\ held' = IF stack' = <<>> /\ names' = <<>> /\ reserved' = <<>> THEN {} ELSE held
        /\ UNCHANGED <<stack, names, counts, reserved, issued>>
    BY DEF ApplyOver, captureData
  <1>2. /\ names = <<>>
        /\ reserved = IF stack = <<>> THEN <<>> ELSE ids
        /\ due = NoCounts /\ got = NoIds
    BY DEF Books, AllBound, Booked, Sending
  <1>3. AllBound'
    BY <1>1 DEF AllBound, Sending
  <1>4. Booked'
    BY <1>1, <1>2 DEF Books, Booked, Places, NoCounts, NoIds
  <1>5. CASE stack = <<>>
    <2>1. held' = {} /\ stack' = <<>>
      BY <1>1, <1>2, <1>5
    <2>2. HeldOnce'
      BY <2>1 DEF HeldOnce
    <2>3. CapturesSound'
      BY <1>1, <2>1, NoEntriesSound DEF CapturesSound
    <2> QED
      BY <1>3, <1>4, <2>2, <2>3 DEF Books
  <1>6. CASE stack # <<>>
    <2>1. held' = held /\ reserved = ids
      BY <1>1, <1>2, <1>6
    <2>2. Locals' = Locals
      BY <1>1, <2>1 DEF Locals, Binding, Sending
    <2>3. HeldOnce'
      BY <1>1, <2>1, <2>2 DEF Books, HeldOnce
    <2>4. CapturesSound'
      BY <1>1, <2>1, NoEntriesSound DEF Books, CapturesSound
    <2> QED
      BY <1>3, <1>4, <2>3, <2>4 DEF Books
  <1> QED
    BY <1>5, <1>6

\* A new instance has nothing in its books.
LEMMA RestartBooks ==
    ASSUME Reinstantiate
    PROVE  Books'
  <1>1. /\ phase' = "idle" /\ stack' = <<>> /\ names' = <<>> /\ counts' = NoCounts
        /\ reserved' = <<>> /\ taken' = NoEntries /\ due' = NoCounts /\ got' = NoIds /\ held' = {}
    BY DEF Reinstantiate, ApplyOver
  <1>2. AllBound' /\ HeldOnce'
    BY <1>1 DEF AllBound, Sending, HeldOnce
  <1>3. Booked'
    BY <1>1, PlacesEmpty DEF Booked, NoCounts, NoIds
  <1>4. CapturesSound'
    BY <1>1, NoEntriesSound DEF CapturesSound
  <1> QED
    BY <1>2, <1>3, <1>4 DEF Books

-----------------------------------------------------------------------------
\* A lost instance only makes room for the next one.
LEMMA TrappedStep ==
    ASSUME Trapped, [Next]_vars
    PROVE  Reinstantiate \/ UNCHANGED vars
  <1>1. ~CallCapture
    BY DEF Trapped, CallCapture, StartCapture, DiscardCapture, CreateLocal, Change, MayCapture,
       MayRequest, PassThrough, PassThroughTraps, ApplyNothing, ApplyCapture
  <1>2. ~RunApply
    BY DEF Trapped, RunApply, ReserveIds, ReserveMiscounts, ReserveFails, ReserveTraps, Turn, Send,
       SendFails, SendTraps, AllAnswered, AssignIds, AssignFails, PrepareDeletes, ApplyDone
  <1> QED
    BY <1>1, <1>2 DEF Next

\* No apply fails before it has all its ids.
LEMMA ApplySteps ==
    ASSUME ReserveFaults \subseteq {"status"}, TypeOK, Books, RunApply
    PROVE  \/ \E m \in Models : \/ ReserveIds(m)
                                \/ ReserveTraps(m)
                                \/ Send(m)
                                \/ SendFails(m)
                                \/ SendTraps(m)
           \/ AssignIds
           \/ PrepareDeletes
           \/ ApplyDone
  <1>1. ~AssignFails
    BY AnsweredServed DEF AssignFails, AllServed
  <1>2. \A m \in Models : ~ReserveMiscounts(m) /\ ~ReserveFails(m)
    BY DEF ReserveMiscounts, ReserveFails
  <1> QED
    BY <1>1, <1>2 DEF RunApply

\* What loses the instance is an answer that it cannot read.
LEMMA TrapSteps ==
    ASSUME TypeOK, Books, ~Trapped, Trapped', [Next]_vars
    PROVE  \E m \in Models : \/ \E id \in MayName : PassThroughTraps(m, id)
                            \/ ReserveTraps(m)
                            \/ SendTraps(m)
  <1>1. CASE CallCapture
    BY <1>1 DEF CallCapture, Trapped, StartCapture, DiscardCapture, CreateLocal, Change, Capture,
       PassThrough, ApplyNothing, ApplyCapture
  <1>2. CASE RunApply
    <2>1. ~AssignIds /\ ~PrepareDeletes
      BY AssignKeepsBooks, PrepareDeletesKeepsBooks DEF Trapped
    <2> QED
      BY <1>2, <2>1 DEF RunApply, Trapped, ReserveIds, ReserveMiscounts, ReserveFails, Send,
         SendFails, AssignFails, ApplyDone, ApplyReturns, ApplyOver
  <1>3. ~Reinstantiate
    BY DEF Reinstantiate, Trapped
  <1>4. ~UNCHANGED vars
    BY DEF vars, Trapped
  <1> QED
    BY <1>1, <1>2, <1>3, <1>4 DEF Next

LEMMA BooksStep ==
    ASSUME ReserveFaults \subseteq {"status"}, TypeOK, BooksInv, [Next]_vars
    PROVE  BooksInv'
  <1> SUFFICES ASSUME ~Trapped' PROVE Books'
    BY DEF BooksInv
  <1>1. CASE Trapped
    <2>1. Reinstantiate \/ UNCHANGED vars
      BY <1>1, TrappedStep
    <2>2. CASE UNCHANGED vars
      BY <1>1, <2>2 DEF vars, Trapped
    <2> QED
      BY <2>1, <2>2, RestartBooks
  <1>2. CASE ~Trapped
    <2>0. Books
      BY <1>2 DEF BooksInv
    <2>1. CASE CallCapture
      <3>1. ASSUME NEW m \in Models, NEW id \in MayName, PassThrough(m, id)
            PROVE  Books'
        <4>1. /\ issued' = issued + 1 /\ issued \in Nat
              /\ UNCHANGED <<captureData, phase, applyVars, held>>
          BY <3>1 DEF PassThrough, TypeOK
        <4>2. issued' \in Nat /\ issued <= issued'
          BY <4>1
        <4> QED
          BY <2>0, <4>1, <4>2, ElsewhereKeepsBooks DEF captureData, applyVars
      <3>2. ASSUME ApplyNothing PROVE Books'
        <4>1. issued' = issued /\ issued \in Nat
          BY <3>2 DEF ApplyNothing, callerVars, TypeOK
        <4> QED
          BY <2>0, <3>2, <4>1, ElsewhereKeepsBooks
          DEF ApplyNothing, captureData, applyVars, callerVars
      <3>3. \A m \in Models, id \in MayName : ~PassThroughTraps(m, id)
        BY DEF PassThroughTraps, Trapped
      <3>4. /\ NoName \in MayRefer
            /\ RealNames \subseteq MayName
            /\ {"create", "update", "delete"} = Operations
        BY NamedMay DEF MayRefer, Operations
      <3> QED
        BY <2>0, <2>1, <3>1, <3>2, <3>3, <3>4, StartKeepsBooks, DiscardKeepsBooks,
           CreateLocalKeepsBooks, ChangeKeepsBooks, ApplyKeepsBooks DEF CallCapture
    <2>2. CASE RunApply
      <3>1. ASSUME NEW m \in Models, Send(m)
            PROVE  Books'
        <4>1. /\ UNCHANGED <<captureData, phase, taken, due, got, ids, callerVars>>
              /\ issued \in Nat
          BY <3>1 DEF Send, TypeOK
        <4>2. UNCHANGED <<stack, names, counts, reserved, phase, taken, due, got, ids, held, issued>>
          BY <4>1 DEF captureData, callerVars
        <4> QED
          BY <2>0, <4>1, <4>2, ElsewhereKeepsBooks
      <3>2. ASSUME NEW m \in Models, SendFails(m)
            PROVE  Books'
        BY <2>0, <3>2, ReturnKeepsBooks DEF SendFails, ApplyReturns, Turn, Sending
      <3>3. ASSUME ApplyDone PROVE Books'
        BY <2>0, <3>3, ReturnKeepsBooks DEF ApplyDone, ApplyReturns, Sending
      <3>4. \A m \in Models : ~ReserveTraps(m) /\ ~SendTraps(m)
        BY DEF ReserveTraps, SendTraps, Traps, Trapped
      <3> QED
        BY <2>0, <2>2, <3>1, <3>2, <3>3, <3>4, ApplySteps, ReserveKeepsBooks, AssignKeepsBooks,
           PrepareDeletesKeepsBooks
    <2>3. CASE Reinstantiate
      BY <2>3, RestartBooks
    <2>4. CASE UNCHANGED vars
      <3>1. issued' = issued /\ issued \in Nat
        BY <2>4 DEF vars, callerVars, TypeOK
      <3> QED
        BY <2>0, <2>4, <3>1, ElsewhereKeepsBooks DEF vars, captureData, applyVars, callerVars
    <2> QED
      BY <2>1, <2>2, <2>3, <2>4 DEF Next
  <1> QED
    BY <1>1, <1>2

LEMMA BooksAlways ==
    ASSUME ReserveFaults \subseteq {"status"}
    PROVE  Spec => [](TypeInv /\ BooksInv)
  <1>1. TypeInv /\ BooksInv /\ [Next]_vars => BooksInv'
    BY BooksStep DEF TypeInv
  <1>2. Init => TypeInv /\ BooksInv
    BY TypeInit, BooksInit DEF BooksInv
  <1> QED
    BY <1>1, <1>2, TypeStep, PTL DEF Spec

\* While reservations are answered, no sequence of captures, nested or not, and
\* no failure of another request makes apply_capture index outside the reserved
\* ids.
THEOREM NeverTraps ==
    ASSUME ReserveFaults \subseteq {"status"}
    PROVE  Spec => NoTrap
  <1>1. ASSUME TypeInv, BooksInv, AssignIds \/ PrepareDeletes
        PROVE  phase' # "trapped"
    <2>1. TypeOK /\ Books
      BY <1>1 DEF TypeInv, BooksInv, Trapped, AssignIds, AllAnswered, PrepareDeletes
    <2>2. CASE AssignIds
      BY <2>1, <2>2, AssignKeepsBooks
    <2>3. CASE PrepareDeletes
      BY <2>1, <2>3, PrepareDeletesKeepsBooks
    <2> QED
      BY <1>1, <2>2, <2>3
  <1>2. TypeInv /\ BooksInv => [AssignIds \/ PrepareDeletes => phase' # "trapped"]_vars
    BY <1>1
  <1> QED
    BY <1>2, BooksAlways, PTL DEF NoTrap

-----------------------------------------------------------------------------
(***************************************************************************)
(* What data-api.wit says of apply-capture is true of a service that never *)
(* fails.                                                                  *)
(***************************************************************************)
Unfailed == failed = {} /\ ~Trapped

LEMMA UnfailedStep ==
    ASSUME ReserveFaults = {}, MutationFaults = {}, TypeOK, BooksInv, Unfailed, [Next]_vars
    PROVE  Unfailed'
  <1>1. Books /\ ~Trapped
    BY DEF BooksInv, Unfailed
  <1>2. \A m \in Models : /\ \A id \in MayName : ~PassThroughTraps(m, id)
                          /\ ~ReserveTraps(m) /\ ~SendTraps(m) /\ ~SendFails(m)
    BY DEF PassThroughTraps, ReserveTraps, SendTraps, SendFails
  <1>3. ~Trapped'
    BY <1>1, <1>2, TrapSteps
  <1>4. CASE CallCapture
    <2>1. failed' = failed
      BY <1>2, <1>4 DEF CallCapture, StartCapture, DiscardCapture, CreateLocal, Change, Capture,
         PassThrough, ApplyNothing, ApplyCapture, callerVars
    <2> QED
      BY <1>3, <2>1 DEF Unfailed
  <1>5. CASE RunApply
    <2>1. failed' = failed
      BY <1>1, <1>2, <1>5, ApplySteps DEF ReserveIds, Send, AssignIds, PrepareDeletes, ApplyDone,
         ApplyReturns, callerVars
    <2> QED
      BY <1>3, <2>1 DEF Unfailed
  <1>6. ~Reinstantiate
    BY <1>1 DEF Reinstantiate, Trapped
  <1>7. CASE UNCHANGED vars
    BY <1>3, <1>7 DEF vars, callerVars, Unfailed
  <1> QED
    BY <1>4, <1>5, <1>6, <1>7 DEF Next

\* When no request fails, an Ok with no capture left open means that every
\* mutation the caller did not discard was executed, however captures were
\* nested: what capture_retry shows needs a failure (apply_capture).
THEOREM OkAppliesAll ==
    ASSUME ReserveFaults = {}, MutationFaults = {}
    PROVE  Spec => OkMeansAllApplied
  <1>1. TypeInv /\ TokensInv /\ [Next]_vars => TypeInv' /\ TokensInv'
    BY TypeStep, TokensStep
  <1>2. TypeInv /\ BooksInv /\ Unfailed /\ [Next]_vars => Unfailed'
    BY UnfailedStep DEF TypeInv
  <1>3. Init => Unfailed
    BY DEF Init, Unfailed, Trapped
  <1>4. ASSUME TokensInv', AccountedFor', Unfailed', stack' = <<>>, issued' = issued, phase' = "idle"
        PROVE  1..issued \subseteq SentTokens' \union dropped'
    <2>1. taken' = NoEntries /\ Tokens(taken') = {}
      BY <1>4, NothingStored DEF TokensInv, Stages
    <2>2. WaitingTokens' = {}
      BY <1>4 DEF WaitingTokens, ToSet
    <2>3. Gone' = dropped'
      BY <1>4 DEF Gone, Unfailed
    <2> QED
      BY <1>4, <2>1, <2>2, <2>3 DEF AccountedFor
  <1>5. TokensInv' /\ AccountedFor' /\ Unfailed'
        => [stack = <<>> /\ stack' = <<>> /\ issued' = issued /\ phase' = "idle" /\ result' = "ok"
              => 1..issued \subseteq SentTokens' \union dropped']_vars
    BY <1>4
  <1>6. Spec => [](TypeInv /\ BooksInv)
    BY BooksAlways
  <1> QED
    BY <1>1, <1>2, <1>3, <1>5, <1>6, Accounted, TypeInit, TokensInit, PTL DEF Spec, OkMeansAllApplied
=============================================================================
