--------------------------- MODULE RequestProofs ---------------------------
(***************************************************************************)
(* Theorems about CaptureRequest, for every number of models, requests and *)
(* stored mutations.                                                       *)
(***************************************************************************)
EXTENDS CaptureRequest, FiniteSetTheorems, SequenceTheorems, TLAPS

Verbs == {"create", "update", "delete"}
Entries == [model : Models, id : Int, sets : Sets]

RequestTyped ==
    /\ names \in Seq(Models)
    /\ counts \in [Models -> Nat]
    /\ stored \in [Verbs -> Seq(Entries)]

Locals == {i \in DOMAIN stored["create"] : stored["create"][i].id < 0}

\* The local ids of the creates count up as they were stored, one per name.
Told ==
    /\ \A k \in DOMAIN names : \E i \in Locals : stored["create"][i].id = -k
    /\ \A i \in Locals :
        LET create == stored["create"][i]
        IN  -create.id \in DOMAIN names /\ create.model = names[-create.id]
    /\ \A i, j \in Locals : i < j => stored["create"][i].id > stored["create"][j].id

Named(m) == {k \in DOMAIN names : names[k] = m}

Counted == \A m \in Models : IsFiniteSet(Named(m)) /\ counts[m] = Cardinality(Named(m))

BooksInv == RequestTyped /\ Told /\ Counted

-----------------------------------------------------------------------------
Sights == [word : BOOLEAN, brace : BOOLEAN, rest : {"short", "long", "many"},
           paren : BOOLEAN, name : Verbs \union {"short", "other"}]

LEMMA SeenAs ==
    ASSUME NEW document \in Documents
    PROVE  Seen[document] \in Sights
  <1>1. \A brace, paren \in BOOLEAN, rest \in {"short", "long", "many"}, name \in Verbs \union {"short", "other"} :
          Mention(brace, rest, paren, name) \in Sights
    BY DEF Mention, Sights
  <1>2. Silent \in Sights
    BY DEF Mention, Silent, Sights
  <1>3. document \in {"plainQuery", "queryLogs", "queryWideLogs", "queryHistory", "createMany", "deleteMany",
                      "reserve", "login", "upsert", "ping", "create", "update", "delete"}
    BY DEF Documents, Seen
  <1> HIDE DEF Silent, Mention, Sights
  <1>4. /\ Seen["plainQuery"] \in Sights /\ Seen["queryLogs"] \in Sights /\ Seen["queryWideLogs"] \in Sights
        /\ Seen["queryHistory"] \in Sights
    BY <1>1, <1>2 DEF Seen, Verbs
  <1>5. /\ Seen["createMany"] \in Sights /\ Seen["deleteMany"] \in Sights /\ Seen["reserve"] \in Sights
        /\ Seen["login"] \in Sights /\ Seen["upsert"] \in Sights
    BY <1>1, <1>2 DEF Seen, Verbs
  <1>6. /\ Seen["ping"] \in Sights /\ Seen["create"] \in Sights /\ Seen["update"] \in Sights
        /\ Seen["delete"] \in Sights
    BY <1>1, <1>2 DEF Seen, Verbs
  <1> QED
    BY <1>3, <1>4, <1>5, <1>6

LEMMA BooksInit == RequestInit => BooksInv
  <1> SUFFICES ASSUME RequestInit PROVE BooksInv
    OBVIOUS
  <1>1. DOMAIN names = {} /\ DOMAIN stored["create"] = {} /\ \A m \in Models : Named(m) = {}
    BY DEF RequestInit, NoEntries, Named
  <1>2. RequestTyped
    BY DEF RequestInit, NoEntries, NoCounts, RequestTyped, Verbs
  <1>3. Told
    BY <1>1 DEF Told, Locals
  <1>4. Counted
    BY <1>1, FS_EmptySet DEF RequestInit, NoCounts, Counted
  <1> QED
    BY <1>2, <1>3, <1>4 DEF BooksInv

\* What a capture has gets one more.
LEMMA Appended ==
    ASSUME NEW S, NEW s \in Seq(S), NEW e \in S
    PROVE  /\ Append(s, e) \in Seq(S) /\ Len(s) \in Nat /\ DOMAIN s = 1..Len(s)
           /\ DOMAIN Append(s, e) = 1..(Len(s) + 1) /\ Append(s, e)[Len(s) + 1] = e
           /\ \A i \in 1..Len(s) : Append(s, e)[i] = s[i]
  BY AppendProperties, LenProperties

\* An entry that is no create without id leaves the books as they are.
LEMMA StoreAsBooks ==
    ASSUME BooksInv, NEW verb \in Verbs, NEW m \in Models, NEW id \in Int, NEW sets \in Sets,
           verb = "create" => id >= 0, StoreAs(verb, m, id, sets)
    PROVE  BooksInv'
  <1>1. RequestTyped /\ Told /\ Counted
    BY DEF BooksInv
  <1>2. PICK e \in Entries :
          e.id = id /\ stored' = [stored EXCEPT ![verb] = Append(@, e)] /\ names' = names /\ counts' = counts
    <2> DEFINE one == [model |-> m, id |-> id, sets |-> IF verb = "delete" THEN "default" ELSE sets]
    <2>1. one \in Entries /\ one.id = id
      BY DEF Entries, Sets
    <2>2. stored' = [stored EXCEPT ![verb] = Append(@, one)] /\ names' = names /\ counts' = counts
      BY DEF StoreAs, Store
    <2> QED
      BY <2>1, <2>2
  <1>3. /\ stored[verb] \in Seq(Entries) /\ stored'[verb] = Append(stored[verb], e)
        /\ stored' \in [Verbs -> Seq(Entries)]
        /\ \A v \in Verbs \ {verb} : stored'[v] = stored[v]
    <2>1. stored[verb] \in Seq(Entries) /\ Append(stored[verb], e) \in Seq(Entries)
      BY <1>1, Appended DEF RequestTyped
    <2> QED
      BY <1>1, <1>2, <2>1 DEF RequestTyped
  <1>4. Locals' = Locals /\ \A i \in Locals : stored'["create"][i] = stored["create"][i]
    <2>1. CASE verb = "create"
      <3> DEFINE n == Len(stored["create"])
      <3>1. /\ n \in Nat /\ DOMAIN stored["create"] = 1..n /\ DOMAIN stored'["create"] = 1..(n + 1)
            /\ stored'["create"][n + 1] = e /\ \A i \in 1..n : stored'["create"][i] = stored["create"][i]
        BY <1>3, <2>1, Appended
      <3> HIDE DEF n
      <3> QED
        BY <1>2, <2>1, <3>1 DEF Locals
    <2>2. CASE verb # "create"
      BY <1>3, <2>2 DEF Locals, Verbs
    <2> QED
      BY <2>1, <2>2
  <1>5. RequestTyped' /\ Counted'
    BY <1>1, <1>2, <1>3 DEF RequestTyped, Counted, Named
  <1>6. Told'
    BY <1>1, <1>2, <1>4 DEF Told
  <1> QED
    BY <1>5, <1>6 DEF BooksInv

\* A create without id gets the next local id, and its model the next name.
LEMMA StoreLocalBooks ==
    ASSUME BooksInv, NEW m \in Models, NEW sets \in Sets, StoreLocal(m, sets)
    PROVE  BooksInv'
  <1>1. RequestTyped /\ Told /\ Counted
    BY DEF BooksInv
  <1> DEFINE n == Len(names)
             q == Len(stored["create"])
             e == [model |-> m, id |-> -(n + 1), sets |-> sets]
  <1>2. /\ names' = Append(names, m) /\ n \in Nat /\ DOMAIN names = 1..n /\ DOMAIN names' = 1..(n + 1)
        /\ names' \in Seq(Models) /\ Len(names') = n + 1
        /\ names'[n + 1] = m /\ \A k \in 1..n : names'[k] = names[k]
    BY <1>1, Appended, LenProperties DEF StoreLocal, RequestTyped
  <1>3. e \in Entries
    BY <1>2 DEF Entries
  <1>4. counts' = [counts EXCEPT ![m] = @ + 1] /\ stored' = [stored EXCEPT !["create"] = Append(@, e)]
    BY <1>2 DEF StoreLocal, Store
  <1>5. stored["create"] \in Seq(Entries)
    BY <1>1 DEF RequestTyped, Verbs
  <1>6. /\ Append(stored["create"], e) \in Seq(Entries) /\ q \in Nat /\ DOMAIN stored["create"] = 1..q
        /\ DOMAIN Append(stored["create"], e) = 1..(q + 1) /\ Append(stored["create"], e)[q + 1] = e
        /\ \A i \in 1..q : Append(stored["create"], e)[i] = stored["create"][i]
    BY <1>3, <1>5, Appended
  <1>7. stored'["create"] = Append(stored["create"], e) /\ stored' \in [Verbs -> Seq(Entries)]
    BY <1>1, <1>4, <1>6 DEF RequestTyped, Verbs
  <1>8. RequestTyped'
    BY <1>1, <1>2, <1>4, <1>7 DEF RequestTyped
  <1>9. /\ e.id = -(n + 1) /\ e.model = m
        /\ DOMAIN stored'["create"] = 1..(q + 1) /\ stored'["create"][q + 1] = e
        /\ \A i \in 1..q : stored'["create"][i] = stored["create"][i]
    BY <1>6, <1>7
  <1> HIDE DEF n, q, e
  <1>10. Locals' = Locals \union {q + 1} /\ Locals \subseteq 1..q
    BY <1>2, <1>6, <1>9 DEF Locals
  <1>11. ASSUME NEW i \in Locals
         PROVE  stored["create"][i].id \in Int /\ -stored["create"][i].id \in 1..n
    <2>1. stored["create"][i] \in Entries
      BY <1>5, <1>6, <1>10
    <2> QED
      BY <1>1, <1>2, <2>1 DEF Told, Entries
  <1>12. Told'
    <2>1. ASSUME NEW k \in DOMAIN names' PROVE \E i \in Locals' : stored'["create"][i].id = -k
      <3>1. CASE k = n + 1
        BY <1>9, <1>10, <3>1
      <3>2. CASE k \in 1..n
        <4>1. PICK i \in Locals : stored["create"][i].id = -k
          BY <1>1, <1>2, <3>2 DEF Told
        <4> QED
          BY <1>9, <1>10, <4>1
      <3> QED
        BY <1>2, <2>1, <3>1, <3>2
    <2>2. ASSUME NEW i \in Locals'
          PROVE  /\ -stored'["create"][i].id \in DOMAIN names'
                 /\ stored'["create"][i].model = names'[-stored'["create"][i].id]
      <3>1. CASE i = q + 1
        BY <1>2, <1>9, <3>1
      <3>2. CASE i \in Locals
        <4> DEFINE create == stored["create"][i]
        <4>1. create = stored'["create"][i] /\ -create.id \in 1..n
          BY <1>9, <1>10, <1>11, <3>2
        <4>2. create.model = names[-create.id]
          BY <1>1, <3>2 DEF Told
        <4> HIDE DEF create
        <4> QED
          BY <1>2, <4>1, <4>2
      <3> QED
        BY <1>10, <3>1, <3>2
    <2>3. ASSUME NEW i \in Locals', NEW j \in Locals', i < j
          PROVE  stored'["create"][i].id > stored'["create"][j].id
      <3>1. i \in Locals
        BY <1>6, <1>10, <2>3
      <3>2. CASE j = q + 1
        <4> DEFINE a == stored["create"][i].id
        <4>1. a \in Int /\ -a \in 1..n
          BY <1>11, <3>1
        <4>2. a = stored'["create"][i].id
          BY <1>9, <1>10, <3>1
        <4>3. stored'["create"][j].id = -(n + 1)
          BY <1>9, <3>2
        <4> HIDE DEF a
        <4> QED
          BY <1>2, <4>1, <4>2, <4>3
      <3>3. CASE j \in Locals
        BY <1>1, <1>9, <1>10, <2>3, <3>1, <3>3 DEF Told
      <3> QED
        BY <1>10, <3>2, <3>3
    <2> QED
      BY <2>1, <2>2, <2>3 DEF Told
  <1>13. Counted'
    <2> SUFFICES ASSUME NEW d \in Models
                 PROVE  IsFiniteSet(Named(d)') /\ counts'[d] = Cardinality(Named(d)')
      BY DEF Counted
    <2>1. IsFiniteSet(Named(d)) /\ counts[d] = Cardinality(Named(d)) /\ n + 1 \notin Named(d)
      BY <1>1, <1>2 DEF Counted, Named
    <2>2. CASE d = m
      <3>1. Named(d)' = Named(d) \union {n + 1}
        BY <1>2, <2>2 DEF Named
      <3> QED
        BY <1>1, <1>4, <2>1, <2>2, <3>1, FS_AddElement DEF RequestTyped
    <2>3. CASE d # m
      <3>1. Named(d)' = Named(d)
        BY <1>2, <2>3 DEF Named
      <3> QED
        BY <1>1, <1>4, <2>1, <2>3, <3>1 DEF RequestTyped
    <2> QED
      BY <2>2, <2>3
  <1> QED
    BY <1>8, <1>12, <1>13 DEF BooksInv

LEMMA KeptBooks ==
    ASSUME BooksInv, UNCHANGED capture
    PROVE  BooksInv'
  BY DEF BooksInv, capture, RequestTyped, Told, Counted, Named, Locals

\* A request ends without a word, or it stores an entry.
LEMMA Requested ==
    ASSUME NEW document \in Documents, NEW m \in Models, NEW variables \in Variables,
           Request(document, m, variables)
    PROVE  \/ outcome' \in {"passed", "err", "trapped"} /\ UNCHANGED capture
           \/ StoreLocal(m, variables.sets)
           \/ \E verb \in Verbs : /\ StoreAs(verb, m, variables.id.n, variables.sets)
                                  /\ verb = "create" => variables.id.n >= 0
  <1> DEFINE seen == Seen[document]
             verb == seen.name
             Ended == outcome' \in {"passed", "err", "trapped"} /\ UNCHANGED capture
  <1>1. Extract(seen, m, variables)
    BY DEF Request
  <1>2. Ended \/ (verb \in Verbs /\ Mutate(verb, m, variables))
    <2>1. seen \in Sights
      BY SeenAs
    <2> HIDE DEF seen
    <2>2. /\ seen.word \in BOOLEAN /\ seen.brace \in BOOLEAN /\ seen.paren \in BOOLEAN
          /\ seen.rest \in {"short", "long", "many"} /\ seen.name \in Verbs \union {"short", "other"}
      BY <2>1 DEF Sights
    <2>3. Ended \/ (Mutate(seen.name, m, variables) /\ seen.name \notin {"short", "other"})
      BY <1>1, <2>2 DEF Extract, Ends
    <2> QED
      BY <2>2, <2>3 DEF Verbs
  <1>3. variables.id.n \in Int
    BY RequestAssumption DEF Variables, IdInputs, AbsentId, OtherId
  <1> HIDE DEF seen, verb
  <1>4. ASSUME verb \in Verbs, Mutate(verb, m, variables), ~Ended
        PROVE  \/ StoreLocal(m, variables.sets)
               \/ /\ StoreAs(verb, m, variables.id.n, variables.sets)
                  /\ verb = "create" => variables.id.n >= 0
    BY <1>3, <1>4 DEF Mutate, Ends
  <1> QED
    BY <1>2, <1>4

LEMMA RequestBooks ==
    ASSUME BooksInv, NEW document \in Documents, NEW m \in Models, NEW variables \in Variables,
           Request(document, m, variables)
    PROVE  BooksInv'
  <1>1. variables.sets \in Sets /\ variables.id.n \in Int
    BY RequestAssumption DEF Variables, IdInputs, AbsentId, OtherId
  <1> QED
    BY <1>1, Requested, StoreAsBooks, StoreLocalBooks, KeptBooks

LEMMA BooksStep == BooksInv /\ [RequestNext]_requestVars => BooksInv'
  <1> SUFFICES ASSUME BooksInv, [RequestNext]_requestVars PROVE BooksInv'
    OBVIOUS
  <1>1. CASE \E document \in Documents, m \in Models, variables \in Variables :
               Request(document, m, variables)
    BY <1>1, RequestBooks
  <1>2. CASE ApplyStored
    <2>1. /\ DOMAIN names' = {} /\ DOMAIN stored'["create"] = {} /\ \A m \in Models : Named(m)' = {}
      BY <1>2 DEF ApplyStored, NoEntries, Named
    <2>2. RequestTyped'
      BY <1>2 DEF ApplyStored, NoEntries, NoCounts, RequestTyped, Verbs
    <2>3. Told'
      BY <2>1 DEF Told, Locals
    <2>4. Counted'
      BY <1>2, <2>1, FS_EmptySet DEF ApplyStored, NoCounts, Counted
    <2> QED
      BY <2>2, <2>3, <2>4 DEF BooksInv
  <1>3. CASE MergeEntry \/ SendUpserts \/ UNCHANGED requestVars
    BY <1>3, KeptBooks DEF MergeEntry, SendUpserts, requestVars
  <1> QED
    BY <1>1, <1>2, <1>3 DEF RequestNext

\* Whatever is refused, traps or passes through in between, the names and the
\* counts tell the creates that are stored without an id.
THEOREM BooksTold == RequestSpec => []BooksTellCreates
  <1>1. BooksInv => BooksTellCreates
    BY DEF BooksInv, Told, Locals, Counted, Named, BooksTellCreates
  <1> QED
    BY <1>1, BooksInit, BooksStep, PTL DEF RequestSpec

-----------------------------------------------------------------------------
(***************************************************************************)
(* The validation sets of an apply.                                        *)
(***************************************************************************)
\* Some entry of the model, a create or an update, asks for no validation.
Asking(e, m) == e.model = m /\ e.sets = "empty"
Asks(s, m) == \E op \in {"create", "update"} : \E i \in DOMAIN s[op] : Asking(s[op][i], m)

\* What is merged so far is told by the entries that are.
MergedInv ==
    outcome \in {"applying", "applied"} =>
        /\ taken \in [Verbs -> Seq(Entries)]
        /\ done \in 0..Len(Upserts)
        /\ outcome = "applied" => done = Len(Upserts)
        /\ sent \in [Models -> Sets]
        /\ \A m \in Models : sent[m] = "empty" <=> \E i \in 1..done : Asking(Upserts[i], m)

LEMMA Concatenated ==
    ASSUME taken \in [Verbs -> Seq(Entries)]
    PROVE  LET c == taken["create"]
               u == taken["update"]
           IN  /\ Upserts \in Seq(Entries)
               /\ Len(c) \in Nat /\ DOMAIN c = 1..Len(c) /\ Len(u) \in Nat /\ DOMAIN u = 1..Len(u)
               /\ Len(Upserts) = Len(c) + Len(u) /\ Len(Upserts) \in Nat
               /\ \A i \in 1..Len(Upserts) : Upserts[i] = IF i <= Len(c) THEN c[i] ELSE u[i - Len(c)]
  <1> DEFINE c == taken["create"]
             u == taken["update"]
  <1>1. c \in Seq(Entries) /\ u \in Seq(Entries) /\ Upserts = c \o u
    BY DEF Verbs, Upserts
  <1> HIDE DEF c, u
  <1>2. c \o u \in Seq(Entries) /\ Len(c \o u) = Len(c) + Len(u)
        /\ \A i \in 1..(Len(c) + Len(u)) : (c \o u)[i] = IF i <= Len(c) THEN c[i] ELSE u[i - Len(c)]
    BY <1>1, ConcatProperties
  <1>3. Len(c) \in Nat /\ DOMAIN c = 1..Len(c) /\ Len(u) \in Nat /\ DOMAIN u = 1..Len(u)
    BY <1>1, LenProperties
  <1>4. /\ Upserts \in Seq(Entries) /\ Len(Upserts) = Len(c) + Len(u)
        /\ \A i \in 1..Len(Upserts) : Upserts[i] = IF i <= Len(c) THEN c[i] ELSE u[i - Len(c)]
    BY <1>1, <1>2
  <1>5. Len(Upserts) \in Nat
    BY <1>3, <1>4
  <1> QED
    BY <1>3, <1>4, <1>5, Zenon DEF c, u

\* When all are merged, each create and each update is.
LEMMA UpsertsAsk ==
    ASSUME taken \in [Verbs -> Seq(Entries)], NEW m \in Models
    PROVE  (\E i \in 1..Len(Upserts) : Asking(Upserts[i], m)) <=> Asks(taken, m)
  <1> DEFINE c == taken["create"]
             u == taken["update"]
             asked == \E i \in 1..Len(Upserts) : Asking(Upserts[i], m)
  <1>1. /\ Len(c) \in Nat /\ DOMAIN c = 1..Len(c) /\ Len(u) \in Nat /\ DOMAIN u = 1..Len(u)
        /\ Len(Upserts) = Len(c) + Len(u)
        /\ \A i \in 1..Len(Upserts) : Upserts[i] = IF i <= Len(c) THEN c[i] ELSE u[i - Len(c)]
    BY Concatenated
  <1>2. Asks(taken, m) <=> (\E i \in DOMAIN c : Asking(c[i], m)) \/ \E i \in DOMAIN u : Asking(u[i], m)
    BY DEF Asks
  <1> HIDE DEF c, u
  <1>3. ASSUME NEW i \in DOMAIN c, Asking(c[i], m) PROVE asked
    <2>1. i \in 1..Len(Upserts) /\ Upserts[i] = c[i]
      BY <1>1
    <2> QED
      BY <1>3, <2>1
  <1>4. ASSUME NEW i \in DOMAIN u, Asking(u[i], m) PROVE asked
    <2>1. i + Len(c) \in 1..Len(Upserts) /\ Upserts[i + Len(c)] = u[i]
      BY <1>1
    <2> QED
      BY <1>4, <2>1
  <1>5. ASSUME NEW i \in 1..Len(Upserts), Asking(Upserts[i], m)
        PROVE  (\E k \in DOMAIN c : Asking(c[k], m)) \/ \E k \in DOMAIN u : Asking(u[k], m)
    <2>1. CASE i <= Len(c)
      BY <1>1, <1>5, <2>1
    <2>2. CASE ~(i <= Len(c))
      <3>1. i - Len(c) \in DOMAIN u /\ Upserts[i] = u[i - Len(c)]
        BY <1>1, <2>2
      <3> QED
        BY <1>5, <3>1
    <2> QED
      BY <2>1, <2>2
  <1> QED
    BY <1>2, <1>3, <1>4, <1>5

LEMMA MergedStep == BooksInv /\ MergedInv /\ [RequestNext]_requestVars => MergedInv'
  <1> SUFFICES ASSUME BooksInv, MergedInv, [RequestNext]_requestVars PROVE MergedInv'
    OBVIOUS
  <1>1. CASE \E document \in Documents, m \in Models, variables \in Variables :
               Request(document, m, variables)
    <2>1. outcome' \notin {"applying", "applied"}
      BY <1>1, Requested DEF StoreLocal, StoreAs, Store
    <2> QED
      BY <2>1 DEF MergedInv
  <1>2. CASE ApplyStored
    <2>1. /\ taken' \in [Verbs -> Seq(Entries)] /\ done' = 0 /\ outcome' = "applying"
          /\ sent' = [m \in Models |-> "default"]
      BY <1>2 DEF ApplyStored, BooksInv, RequestTyped
    <2>2. Len(Upserts') \in Nat
      BY <2>1, Concatenated
    <2> QED
      BY <2>1, <2>2 DEF MergedInv, Sets
  <1>3. CASE MergeEntry
    <2>1. CASE outcome' = "trapped"
      BY <2>1 DEF MergedInv
    <2>2. CASE outcome' # "trapped"
      <3> DEFINE entry == Upserts[done + 1]
                 n == done + 1
      <3>1. /\ taken' = taken /\ taken \in [Verbs -> Seq(Entries)] /\ outcome' = "applying"
            /\ done' = n /\ done \in Nat /\ n <= Len(Upserts) /\ done < n
            /\ sent' = [sent EXCEPT ![entry.model] = Merged(@, entry.sets)]
        BY <1>3, <2>2, Concatenated DEF MergedInv, MergeEntry
      <3>2. Upserts' = Upserts /\ Upserts \in Seq(Entries) /\ Len(Upserts) \in Nat
        BY <3>1, Concatenated DEF Upserts
      <3>3. entry \in Entries /\ n \in 1..Len(Upserts)
        BY <3>1, <3>2
      <3>4. entry.model \in Models /\ entry.sets \in Sets
        BY <3>3 DEF Entries
      <3>5. sent \in [Models -> Sets] /\ \A m \in Models : sent[m] = "empty" <=> \E i \in 1..done : Asking(Upserts[i], m)
        BY <1>3 DEF MergedInv, MergeEntry
      <3>6. \A m \in Models : (\E i \in 1..n : Asking(Upserts[i], m)) <=>
                               Asking(entry, m) \/ \E i \in 1..done : Asking(Upserts[i], m)
        <4>1. 1..n = 1..done \union {n}
          BY <3>1
        <4> QED
          BY <4>1
      <3> HIDE DEF entry, n
      <3>7. sent' \in [Models -> Sets]
        BY <3>1, <3>4, <3>5 DEF Merged, Sets
      <3>8. ASSUME NEW m \in Models
            PROVE  sent'[m] = "empty" <=> \E i \in 1..n : Asking(Upserts[i], m)
        <4>1. CASE m = entry.model
          <5>1. sent'[m] = Merged(sent[m], entry.sets) /\ sent[m] \in Sets
            BY <3>1, <3>5, <4>1
          <5>2. sent'[m] = "empty" <=> sent[m] = "empty" \/ entry.sets = "empty"
            BY <3>4, <5>1 DEF Merged, Sets
          <5> QED
            BY <3>5, <3>6, <4>1, <5>2 DEF Asking
        <4>2. CASE m # entry.model
          <5>1. sent'[m] = sent[m] /\ ~Asking(entry, m)
            BY <3>1, <3>5, <4>2 DEF Asking
          <5> QED
            BY <3>5, <3>6, <5>1
        <4> QED
          BY <4>1, <4>2
      <3>9. n \in 0..Len(Upserts)
        BY <3>3, <3>2
      <3> QED
        BY <3>1, <3>2, <3>7, <3>8, <3>9 DEF MergedInv
    <2> QED
      BY <2>1, <2>2
  <1>4. CASE SendUpserts
    BY <1>4 DEF SendUpserts, apply, MergedInv, Upserts
  <1>5. CASE UNCHANGED requestVars
    BY <1>5 DEF requestVars, apply, MergedInv, Upserts
  <1> QED
    BY <1>1, <1>2, <1>3, <1>4, <1>5 DEF RequestNext

\* A model is written without validation exactly when one of its captured
\* creates and updates asked for that, whatever was stored in what order.
THEOREM Unvalidated == RequestSpec => []UnvalidatedOnRequest
  <1>1. RequestInit => MergedInv
    BY DEF RequestInit, MergedInv
  <1>2. MergedInv => UnvalidatedOnRequest
    <2> SUFFICES ASSUME MergedInv, outcome = "applied", NEW m \in Models
                 PROVE  sent[m] = "empty" <=> Asks(taken, m)
      BY DEF UnvalidatedOnRequest, Asks, Asking
    <2> QED
      BY UpsertsAsk DEF MergedInv
  <1> QED
    BY <1>1, <1>2, BooksInit, BooksStep, MergedStep, PTL DEF RequestSpec
=============================================================================
