--------------------------- MODULE VersionProofs ----------------------------
(***************************************************************************)
(* Theorems about VersionBumps, for every number of requests and packages. *)
(***************************************************************************)
EXTENDS VersionBumps, SequenceTheorems, TLAPS

Trees == [Packages -> [version : Int, code : SUBSET Pulls, other : SUBSET Pulls]]

TypeInv ==
    /\ base \in Seq(Trees) /\ Len(base) > 0
    /\ event \in [Pulls -> [start : Nat, own : Trees, at : Nat, head : Trees]]
    /\ verdict \in [Pulls -> {"none", "pending", "passed", "refused"}]
    /\ checked \in [Pulls -> Nat]

\* What a request was started from and merged with is in the history of the
\* base branch; what passed a check of the base as it is now is in order.
Judged(u) ==
    /\ event[u].start \in 1..Len(base) /\ event[u].at \in event[u].start..Len(base)
    /\ \A p \in Packages :
        event[u].own[p].version = Absent => base[event[u].start][p].version = Absent
    /\ verdict[u] # "none" =>
        event[u].head = Merged(base[event[u].start], event[u].own, base[event[u].at])
    /\ checked[u] <= Len(base)
    /\ verdict[u] = "passed" /\ checked[u] = Len(base) => \A p \in Packages : ~RequireBump(u, p)

VersionInv == TypeInv /\ \A u \in Pulls : Judged(u)

-----------------------------------------------------------------------------
LEMMA MergedType ==
    ASSUME NEW start \in Trees, NEW ours \in Trees, NEW theirs \in Trees
    PROVE  Merged(start, ours, theirs) \in Trees
  BY DEF Merged, Trees

LEMMA EditedType ==
    ASSUME NEW u \in Pulls, NEW t \in Trees, NEW e \in [Packages -> Edits]
    PROVE  /\ Edited(u, t, e) \in Trees
           /\ \A p \in Packages : Edited(u, t, e)[p].version = Absent => t[p].version = Absent
  <1>1. \A p \in Packages : e[p].version \in Int
    BY VersionAssumption
  <1>2. \A p \in Packages : /\ Touched(t[p].code, e[p], "code", u) \in SUBSET Pulls
                            /\ Touched(t[p].other, e[p], "other", u) \in SUBSET Pulls
    BY DEF Touched, Trees
  <1> QED
    BY <1>1, <1>2 DEF Edited, Trees, Kept

\* The base branch keeps its history and has a tip.
LEMMA TipType ==
    ASSUME TypeInv
    PROVE  /\ Len(base) \in Nat \ {0} /\ Tip \in Trees
           /\ \A i \in 1..Len(base) : base[i] \in Trees
  <1>1. Len(base) \in Nat \ {0} /\ \A i \in 1..Len(base) : base[i] \in Trees
    BY ElementOfSeq DEF TypeInv
  <1> QED
    BY <1>1 DEF Tip

LEMMA InitVersions == ASSUME Init PROVE VersionInv
  <1>1. PICK t \in Trees : base = <<t>>
    <2>1. \A t \in [Packages -> {Package(Absent), Package(1)}] : t \in Trees
      BY DEF Package, Absent, Trees
    <2> QED
      BY <2>1 DEF Init
  <1>2. base \in Seq(Trees) /\ Len(base) = 1 /\ base[1] = t /\ Tip = t
    BY <1>1 DEF Tip
  <1> QED
    BY <1>1, <1>2 DEF Init, VersionInv, TypeInv, Judged

LEMMA PushVersions ==
    ASSUME VersionInv, NEW u \in Pulls, Push(u)
    PROVE  VersionInv'
  <1>1. TypeInv /\ Judged(u) /\ Len(base) \in Nat \ {0} /\ Tip \in Trees
    BY TipType DEF VersionInv
  <1>2. PICK start \in {event[u].start, Len(base)}, e \in [Packages -> Edits] :
          event' = [event EXCEPT ![u] = [start |-> start, own |-> Edited(u, base[start], e),
              at |-> Len(base), head |-> Merged(base[start], Edited(u, base[start], e), Tip)]]
    BY DEF Push
  <1> DEFINE own == Edited(u, base[start], e)
  <1>3. start \in 1..Len(base) /\ base[start] \in Trees
    <2>1. start \in 1..Len(base)
      BY <1>1, <1>2 DEF Judged
    <2> QED
      BY <1>1, <2>1, TipType
  <1>4. own \in Trees /\ \A p \in Packages : own[p].version = Absent => base[start][p].version = Absent
    BY <1>3, EditedType
  <1>5. Merged(base[start], own, Tip) \in Trees
    BY <1>1, <1>3, <1>4, MergedType
  <1> HIDE DEF own
  <1>6. base' = base /\ verdict' = [verdict EXCEPT ![u] = "pending"] /\ checked' = checked
    BY DEF Push
  <1>7. event'[u] = [start |-> start, own |-> own, at |-> Len(base), head |-> Merged(base[start], own, Tip)]
    BY <1>1, <1>2 DEF TypeInv, own
  <1>8. TypeInv'
    <2>1. [start |-> start, own |-> own, at |-> Len(base), head |-> Merged(base[start], own, Tip)]
            \in [start : Nat, own : Trees, at : Nat, head : Trees]
      BY <1>1, <1>3, <1>4, <1>5
    <2> QED
      BY <1>1, <1>2, <1>6, <2>1 DEF TypeInv, own
  <1>9. Judged(u)'
    BY <1>1, <1>3, <1>4, <1>6, <1>7, SMTT(30) DEF Judged, TypeInv, Tip
  <1>10. ASSUME NEW d \in Pulls \ {u} PROVE Judged(d)'
    <2>1. event'[d] = event[d] /\ verdict'[d] = verdict[d] /\ Judged(d)
      BY <1>1, <1>2, <1>6 DEF VersionInv, TypeInv
    <2> QED
      BY <1>6, <2>1 DEF Judged, RequireBump, Hits, Changed, Tip
  <1> QED
    BY <1>8, <1>9, <1>10 DEF VersionInv

LEMMA CheckVersions ==
    ASSUME VersionInv, NEW u \in Pulls, Check(u)
    PROVE  VersionInv'
  <1>0. Len(base) \in Nat
    BY TipType DEF VersionInv
  <1>1. TypeInv' /\ base' = base /\ event' = event /\ checked' = [checked EXCEPT ![u] = Len(base)]
    BY <1>0 DEF VersionInv, TypeInv, Check
  <1>2. ASSUME NEW d \in Pulls PROVE Judged(d)'
    <2>1. Judged(d)
      BY DEF VersionInv
    <2>2. \/ verdict'[d] = verdict[d] /\ checked'[d] = checked[d]
          \/ /\ checked'[d] = Len(base)
             /\ verdict'[d] = "passed" => \A p \in Packages : ~RequireBump(d, p)
      BY <1>1 DEF VersionInv, TypeInv, Check
    <2>3. verdict'[d] # "none" => verdict[d] # "none"
      BY DEF VersionInv, TypeInv, Check
    <2>4. \A p \in Packages : RequireBump(d, p)' <=> RequireBump(d, p)
      BY <1>1 DEF RequireBump, Hits, Changed, Tip
    <2> QED
      BY <1>0, <1>1, <2>1, <2>2, <2>3, <2>4 DEF Judged
  <1> QED
    BY <1>1, <1>2 DEF VersionInv

LEMMA MergeVersions ==
    ASSUME VersionInv, NEW u \in Pulls, Merge(u)
    PROVE  VersionInv'
  <1> DEFINE result == Merged(base[event[u].start], event[u].own, Tip)
  <1>1. /\ TypeInv /\ Judged(u) /\ Len(base) \in Nat \ {0} /\ Tip \in Trees
        /\ base' = Append(base, result) /\ event' = event /\ verdict' = verdict /\ checked' = checked
    BY TipType DEF VersionInv, Merge
  <1>2. result \in Trees
    <2>1. base[event[u].start] \in Trees /\ event[u].own \in Trees
      BY <1>1, TipType DEF Judged, TypeInv
    <2> QED
      BY <1>1, <2>1, MergedType
  <1> HIDE DEF result
  <1>3. /\ base' \in Seq(Trees) /\ Len(base') = Len(base) + 1
        /\ \A i \in 1..Len(base) : base'[i] = base[i]
    BY <1>1, <1>2, AppendProperties DEF TypeInv
  <1>4. ASSUME NEW d \in Pulls PROVE Judged(d)'
    <2>1. Judged(d)
      BY DEF VersionInv
    <2>2. event[d].start \in 1..Len(base) /\ event[d].at \in event[d].start..Len(base) /\ event[d].at \in 1..Len(base)
      BY <1>1, <2>1 DEF Judged
    <2>3. base'[event[d].start] = base[event[d].start] /\ base'[event[d].at] = base[event[d].at]
      BY <1>3, <2>2
    <2>4. event[d].start \in 1..Len(base') /\ event[d].at \in event[d].start..Len(base')
      BY <1>1, <1>3, <2>2
    <2>5. checked'[d] <= Len(base') /\ checked'[d] # Len(base')
      BY <1>1, <1>3, <2>1 DEF Judged, TypeInv
    <2> QED
      BY <1>1, <2>1, <2>3, <2>4, <2>5 DEF Judged
  <1> QED
    BY <1>1, <1>3, <1>4 DEF VersionInv, TypeInv

LEMMA VersionStep == VersionInv /\ [Next]_vars => VersionInv'
  <1> SUFFICES ASSUME VersionInv, [Next]_vars PROVE VersionInv'
    OBVIOUS
  <1>1. CASE \E u \in Pulls : Push(u)
    BY <1>1, PushVersions
  <1>2. CASE \E u \in Pulls : Check(u)
    BY <1>2, CheckVersions
  <1>3. CASE \E u \in Pulls : Merge(u)
    BY <1>3, MergeVersions
  <1>4. CASE UNCHANGED vars
    BY <1>4 DEF vars, VersionInv, TypeInv, Judged, RequireBump, Hits, Changed, Tip
  <1> QED
    BY <1>1, <1>2, <1>3, <1>4 DEF Next

-----------------------------------------------------------------------------
(***************************************************************************)
(* Refusals.  A request is compared with the merge that was made when it   *)
(* was pushed; that what others did is not held against it rests on the    *)
(* base branch never losing a change.                                      *)
(***************************************************************************)
Grows == \A i, j \in 1..Len(base) : i <= j =>
    \A p \in Packages : base[i][p].code \subseteq base[j][p].code

\* The package p gave the cause for a refusal of u.
Cause(u, p) ==
    LET own == event[u].own[p]
        start == base[event[u].start][p]
    IN  /\ <<own.code, own.version>> # <<start.code, start.version>>
        /\ own.version = Undeclared
           \/ \E i \in event[u].start..Len(base) : own.version = base[i][p].version

Caused == \A u \in Pulls : verdict[u] = "refused" => \E p \in Packages : Cause(u, p)

CauseInv == VersionInv /\ Grows /\ Caused

\* What RequireBump finds is the request's own doing.
LEMMA RequiredForCause ==
    ASSUME VersionInv, Grows, NEW u \in Pulls, NEW p \in Packages, verdict[u] # "none", RequireBump(u, p)
    PROVE  Cause(u, p)
  <1> DEFINE own == event[u].own[p]
             start == base[event[u].start][p]
             met == base[event[u].at][p]
             now == event[u].head[p]
  <1>1. TypeInv /\ Judged(u) /\ Len(base) \in Nat \ {0}
    BY TipType DEF VersionInv
  <1>2. /\ event[u].start \in 1..Len(base) /\ event[u].at \in 1..Len(base)
        /\ event[u].start <= event[u].at /\ event[u].at \in event[u].start..Len(base)
    BY <1>1 DEF Judged
  <1>3. start.code \subseteq met.code
    BY <1>2, SMTT(30) DEF Grows
  <1>4. /\ now.code = own.code \union met.code
        /\ now.version = IF own.version = start.version THEN met.version ELSE own.version
    BY <1>1 DEF Judged, Merged
  <1>5. now.code # met.code \/ now.version # met.version
    BY DEF RequireBump, Hits, Changed
  <1>6. now.version \in {Undeclared, Tip[p].version}
    BY DEF RequireBump
  <1>7. Tip = base[Len(base)] /\ Len(base) \in event[u].start..Len(base)
        /\ event[u].start \in event[u].start..Len(base)
    BY <1>1, <1>2 DEF Tip
  <1> HIDE DEF own, start, met, now
  <1>8. <<own.code, own.version>> # <<start.code, start.version>>
    BY <1>3, <1>4, <1>5
  <1>9. own.version = Undeclared \/ own.version = start.version \/ own.version = base[Len(base)][p].version
    BY <1>4, <1>6, <1>7
  <1> QED
    BY <1>7, <1>8, <1>9 DEF Cause, own, start

\* The cause stays one while the base branch goes on.
LEMMA CauseStays ==
    ASSUME VersionInv, NEW u \in Pulls, NEW p \in Packages, Cause(u, p), event'[u] = event[u],
           Len(base) <= Len(base'), Len(base') \in Nat,
           \A i \in 1..Len(base) : base'[i] = base[i]
    PROVE  Cause(u, p)'
  <1>1. /\ Len(base) \in Nat \ {0} /\ event[u].start \in 1..Len(base)
    BY TipType DEF VersionInv, Judged
  <1>2. base'[event[u].start] = base[event[u].start]
    BY <1>1
  <1>3. \A i \in event[u].start..Len(base) : i \in event[u].start..Len(base') /\ base'[i] = base[i]
    BY <1>1
  <1> QED
    BY <1>2, <1>3 DEF Cause

LEMMA CauseInit == Init => CauseInv
  <1> SUFFICES ASSUME Init PROVE CauseInv
    OBVIOUS
  <1>1. Len(base) = 1 /\ Caused
    BY DEF Init, Caused
  <1> QED
    BY <1>1, InitVersions DEF CauseInv, Grows

LEMMA CauseStep == CauseInv /\ [Next]_vars => CauseInv'
  <1> SUFFICES ASSUME CauseInv, [Next]_vars PROVE CauseInv'
    OBVIOUS
  <1>1. /\ VersionInv /\ VersionInv' /\ Grows /\ TypeInv
        /\ \A u \in Pulls : verdict[u] = "refused" => \E p \in Packages : Cause(u, p)
    BY VersionStep DEF CauseInv, VersionInv, Caused
  <1>2. Len(base) \in Nat \ {0} /\ Tip \in Trees /\ Tip = base[Len(base)]
        /\ \A i \in 1..Len(base) : base[i] \in Trees
    BY <1>1, TipType DEF Tip
  <1>3. CASE \E u \in Pulls : Push(u)
    <2>1. PICK u \in Pulls : Push(u)
      BY <1>3
    <2>2. base' = base /\ verdict' = [verdict EXCEPT ![u] = "pending"]
          /\ \A d \in Pulls \ {u} : event'[d] = event[d]
      BY <1>1, <2>1 DEF Push, TypeInv
    <2>3. ASSUME NEW d \in Pulls, verdict'[d] = "refused" PROVE \E p \in Packages : Cause(d, p)'
      <3>1. d # u /\ verdict[d] = "refused"
        BY <1>1, <2>2, <2>3 DEF TypeInv
      <3>2. PICK p \in Packages : Cause(d, p)
        BY <1>1, <3>1
      <3> QED
        BY <1>1, <1>2, <2>2, <3>1, <3>2, CauseStays
    <2> QED
      BY <1>1, <2>2, <2>3 DEF CauseInv, Grows, Caused
  <1>4. CASE \E u \in Pulls : Check(u)
    <2>1. PICK u \in Pulls : Check(u)
      BY <1>4
    <2>2. base' = base /\ event' = event
      BY <2>1 DEF Check
    <2>3. ASSUME NEW d \in Pulls, verdict'[d] = "refused" PROVE \E p \in Packages : Cause(d, p)
      <3>1. verdict[d] = "refused" \/ (verdict[d] # "none" /\ \E p \in Packages : RequireBump(d, p))
        BY <1>1, <2>1, <2>3 DEF Check, TypeInv
      <3> QED
        BY <1>1, <3>1, RequiredForCause
    <2>4. \A d \in Pulls, p \in Packages : Cause(d, p)' <=> Cause(d, p)
      BY <2>2 DEF Cause
    <2> QED
      BY <1>1, <2>2, <2>3, <2>4 DEF CauseInv, Grows, Caused
  <1>5. CASE \E u \in Pulls : Merge(u)
    <2>1. PICK u \in Pulls : Merge(u)
      BY <1>5
    <2> DEFINE result == Merged(base[event[u].start], event[u].own, Tip)
    <2>2. base' = Append(base, result) /\ event' = event /\ verdict' = verdict
      BY <2>1 DEF Merge
    <2>3. \A p \in Packages : Tip[p].code \subseteq result[p].code
      BY DEF Merged
    <2> HIDE DEF result
    <2>4. /\ Len(base') = Len(base) + 1 /\ base'[Len(base) + 1] = result
          /\ \A i \in 1..Len(base) : base'[i] = base[i]
      BY <1>1, <1>2, <2>2 DEF TypeInv
    <2>5. Grows'
      <3> SUFFICES ASSUME NEW i \in 1..Len(base'), NEW j \in 1..Len(base'), i <= j, NEW p \in Packages
                   PROVE  base'[i][p].code \subseteq base'[j][p].code
        BY DEF Grows
      <3>1. CASE j \in 1..Len(base)
        BY <1>1, <1>2, <2>4, <3>1 DEF Grows
      <3>2. CASE i \in 1..Len(base) /\ j = Len(base) + 1
        <4>1. base[i][p].code \subseteq Tip[p].code
          BY <1>1, <1>2, <3>2 DEF Grows
        <4> QED
          BY <2>3, <2>4, <3>2, <4>1
      <3>3. CASE i = Len(base) + 1 /\ j = Len(base) + 1
        BY <3>3
      <3> QED
        BY <1>2, <2>4, <3>1, <3>2, <3>3
    <2>6. ASSUME NEW d \in Pulls, verdict'[d] = "refused" PROVE \E p \in Packages : Cause(d, p)'
      <3>1. PICK p \in Packages : Cause(d, p)
        BY <1>1, <2>2, <2>6
      <3> QED
        BY <1>1, <1>2, <2>2, <2>4, <3>1, CauseStays
    <2> QED
      BY <1>1, <2>5, <2>6 DEF CauseInv, Caused
  <1>6. CASE UNCHANGED vars
    BY <1>1, <1>6 DEF vars, CauseInv, Grows, Caused, Cause
  <1> QED
    BY <1>3, <1>4, <1>5, <1>6 DEF Next

\* A refused request gave the cause itself, whatever was merged meanwhile and
\* however often the check was run again.
THEOREM ForCause == Spec => []RefusedForCause
  <1>1. CauseInv => RefusedForCause
    BY DEF CauseInv, Caused, Cause, RefusedForCause
  <1> QED
    BY <1>1, CauseInit, CauseStep, PTL DEF Spec

-----------------------------------------------------------------------------
(***************************************************************************)
(* Merges.  What passed the check of the tree it is merged into is in      *)
(* order with it, although its own merge was made with an older one.       *)
(***************************************************************************)
Bumps(u) ==
    \A p \in Packages :
        LET before == Tip[p]
            after == Tip'[p]
            gives == event[u].own[p].version # base[event[u].start][p].version
        IN  /\ gives \/ event[u].at = Len(base)
            /\ before.code # after.code
            /\ before.version \notin {Absent, Undeclared}
            => after.version \notin {before.version, Undeclared}

LEMMA MergeBumps ==
    ASSUME CauseInv, NEW u \in Pulls, Merge(u), checked[u] = Len(base)
    PROVE  Bumps(u)
  <1> DEFINE own == event[u].own
             start == base[event[u].start]
             met == base[event[u].at]
             head == event[u].head
             result == Merged(start, own, Tip)
  <1>1. /\ TypeInv /\ Judged(u) /\ Grows /\ Len(base) \in Nat \ {0} /\ Tip \in Trees
        /\ verdict[u] = "passed"
    BY TipType DEF CauseInv, VersionInv, Merge
  <1>2. /\ event[u].at \in 1..Len(base) /\ event[u].start \in 1..Len(base)
        /\ head = Merged(start, own, met)
        /\ \A p \in Packages : ~RequireBump(u, p)
        /\ \A p \in Packages : own[p].version = Absent => start[p].version = Absent
    BY <1>1 DEF Judged
  <1>3. \A p \in Packages : met[p].code \subseteq Tip[p].code
    BY <1>1, <1>2 DEF Grows, Tip
  <1>4. Tip' = result
    <2>1. result \in Trees
      BY <1>1, <1>2, MergedType, TipType DEF TypeInv
    <2>2. base' = Append(base, result)
      BY DEF Merge
    <2>3. Len(base') = Len(base) + 1 /\ base'[Len(base) + 1] = result
      BY <1>1, <2>1, <2>2, AppendProperties DEF TypeInv
    <2> QED
      BY <2>3 DEF Tip
  <1>5. ASSUME NEW p \in Packages, own[p].version # start[p].version \/ event[u].at = Len(base),
               Tip[p].code # result[p].code, Tip[p].version \notin {Absent, Undeclared}
        PROVE  result[p].version \notin {Tip[p].version, Undeclared}
    <2>1. /\ head[p].code = own[p].code \union met[p].code
          /\ result[p].code = own[p].code \union Tip[p].code
          /\ head[p].version = IF own[p].version = start[p].version THEN met[p].version ELSE own[p].version
          /\ result[p].version = IF own[p].version = start[p].version THEN Tip[p].version ELSE own[p].version
      <3>1. head = Merged(start, own, met)
        BY <1>2
      <3> HIDE DEF head, start, own, met
      <3> QED
        BY <3>1 DEF Merged
    <2>2. event[u].at = Len(base) => met[p] = Tip[p]
      BY DEF Tip
    <2>3. head[p].version = result[p].version
      BY <1>5, <2>1, <2>2
    <2>4. head[p].code # met[p].code
      BY <1>3, <1>5, <2>1
    <2>5. Hits(u, p)
      BY <2>4 DEF Hits, Changed
    <2>6. head[p].version # Absent
      BY <1>2, <1>5, <2>1, <2>2
    <2> QED
      BY <1>2, <1>5, <2>3, <2>5, <2>6 DEF RequireBump
  <1> HIDE DEF result
  <1> QED
    BY <1>4, <1>5 DEF Bumps

\* No package changes its code under its version by a merge of a request that
\* gives it a version, or that was pushed last of all, and whose last check read
\* the tree it is merged into, however many requests are pushed, checked, checked
\* again and merged.
THEOREM Bumped == Spec => CheckedMergeBumps
  <1>1. CauseInv /\ [Next]_vars => [\A u \in merged' \ merged : checked[u] = Len(base) => Bumps(u)]_vars
    <2> SUFFICES ASSUME CauseInv, [Next]_vars, NEW u \in merged' \ merged, checked[u] = Len(base)
                 PROVE  Bumps(u)
      OBVIOUS
    <2>1. u \in Pulls /\ Merge(u)
      BY DEF Next, vars, Push, Check, Merge
    <2> QED
      BY <2>1, MergeBumps
  <1>2. Spec => []CauseInv
    BY CauseInit, CauseStep, PTL DEF Spec
  <1>3. Spec => [][\A u \in merged' \ merged : checked[u] = Len(base) => Bumps(u)]_vars
    BY <1>1, <1>2, PTL DEF Spec
  <1> QED
    BY <1>3 DEF CheckedMergeBumps, Bumps
=============================================================================
