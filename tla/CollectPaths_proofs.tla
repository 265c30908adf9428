------------------------ MODULE CollectPaths_proofs ------------------------
(***************************************************************************)
(* What holds of CollectPaths for every database and every input.  The     *)
(* argument for ClosureExact: a visited id either had its references       *)
(* queued or was already deleted when it was visited; a deleted row never  *)
(* comes back, so the filter fails on each id of the second kind.          *)
(***************************************************************************)
EXTENDS CollectPaths, FiniteSetTheorems, TLAPS

\* The elements of a sequence.
Elements(s) == { s[i] : i \in DOMAIN s }

\* The ids in the result and in the queue were rows of the table once.
IdsKnown == result \cup Elements(queue) \subseteq valid \cup deleted

\* Nothing is found before the input is canonical; then, before the closure, the
\* input is split between `todo' and `result'.
Resolving ==
  /\ pc \in {"open", "read", "canonicalize"} => result = {} /\ queue = <<>>
  /\ pc = "resolve" => result \cup todo = input /\ queue = <<>>

\* From the closure on, the input is found or queued, and what is found or
\* queued is in every closed set that holds the input.
Computing == pc \in {"closure", "key", "filter", "ready"} /\ ~options.no_closure

WithinClosure ==
  Computing =>
    /\ input \subseteq result \cup Elements(queue)
    /\ \A D \in SUBSET Rows :
         input \subseteq D /\ ClosedUnderRefs(D) => result \cup Elements(queue) \subseteq D

\* A visited id has its references found or queued, unless its row is gone.
Visited ==
  Computing =>
    \A r \in result : r \in deleted \/ Refs[r] \subseteq result \cup Elements(queue)

\* Only a push with closure computes one; after it the queue is empty, and
\* --no-closure keeps the input.
Computed ==
  /\ pc = "closure" => ~options.no_closure
  /\ pc \in {"key", "filter", "ready"} => queue = <<>>
  /\ pc \in {"key", "filter", "ready"} /\ options.no_closure => result = input

\* An id that went through the filter has its references found.
Screened ==
  /\ pc \in {"filter", "ready"} => todo \subseteq result
  /\ pc \in {"filter", "ready"} /\ ~options.no_closure =>
       \A r \in result \ todo : Refs[r] \subseteq result
  /\ pc = "ready" => todo = {}

IInv ==
  /\ TypeOK
  /\ RefsIntact
  /\ IdsKnown
  /\ Resolving
  /\ WithinClosure
  /\ Visited
  /\ Computed
  /\ Screened

----------------------------------------------------------------------------
(* Sequences.                                                              *)

\* An order of S is a sequence of rows with the elements of S.
LEMMA OrdersElements ==
  ASSUME NEW S \in SUBSET Rows, NEW s \in Orders(S)
  PROVE  s \in Seq(Rows) /\ Elements(s) = S
<1>1. IsFiniteSet(S)
  BY RowsAssumption, FS_Subset
<1>2. Cardinality(S) \in Nat
  BY <1>1, FS_CardinalityType
<1>3. s \in [1..Cardinality(S) -> S] /\ \A x \in S : \E i \in DOMAIN s : s[i] = x
  BY DEF Orders
<1>4. s \in Seq(Rows)
  BY <1>2, <1>3
<1>5. Elements(s) = S
  BY <1>2, <1>3 DEF Elements
<1> QED BY <1>4, <1>5

\* Popping the head of a queue splits its elements.
LEMMA ElementsPop ==
  ASSUME NEW q \in Seq(Rows), q # <<>>
  PROVE  /\ Head(q) \in Rows
         /\ Tail(q) \in Seq(Rows)
         /\ Elements(q) = {Head(q)} \cup Elements(Tail(q))
<1>1. Len(q) \in Nat \ {0} /\ DOMAIN q = 1..Len(q) /\ Head(q) = q[1]
  OBVIOUS
<1>2. Head(q) \in Rows /\ Tail(q) \in Seq(Rows)
  BY <1>1
<1>3. DOMAIN Tail(q) = 1..(Len(q) - 1) /\ \A i \in 1..(Len(q) - 1) : Tail(q)[i] = q[i + 1]
  BY <1>1
<1>4. ASSUME NEW x \in Elements(q)
      PROVE  x \in {Head(q)} \cup Elements(Tail(q))
  <2>1. PICK i \in 1..Len(q) : q[i] = x
    BY <1>1 DEF Elements
  <2>2. CASE i = 1
    BY <1>1, <2>1, <2>2
  <2>3. CASE i # 1
    <3>1. i - 1 \in 1..(Len(q) - 1) /\ Tail(q)[i - 1] = x
      BY <1>1, <1>3, <2>1, <2>3
    <3> QED BY <1>3, <3>1 DEF Elements
  <2> QED BY <2>2, <2>3
<1>5. ASSUME NEW x \in {Head(q)} \cup Elements(Tail(q))
      PROVE  x \in Elements(q)
  <2>1. CASE x = Head(q)
    BY <1>1, <2>1 DEF Elements
  <2>2. CASE x \in Elements(Tail(q))
    <3>1. PICK i \in 1..(Len(q) - 1) : Tail(q)[i] = x
      BY <1>3, <2>2 DEF Elements
    <3>2. i + 1 \in 1..Len(q) /\ q[i + 1] = x
      BY <1>1, <1>3, <3>1
    <3> QED BY <1>1, <3>2 DEF Elements
  <2> QED BY <1>5, <2>1, <2>2
<1> QED BY <1>2, <1>4, <1>5

\* Appending a sequence adds its elements.
LEMMA ElementsConcat ==
  ASSUME NEW q \in Seq(Rows), NEW t \in Seq(Rows)
  PROVE  q \o t \in Seq(Rows) /\ Elements(q \o t) = Elements(q) \cup Elements(t)
<1>1. /\ q \o t \in Seq(Rows)
      /\ Len(q) \in Nat /\ Len(t) \in Nat
      /\ DOMAIN q = 1..Len(q) /\ DOMAIN t = 1..Len(t)
      /\ DOMAIN (q \o t) = 1..(Len(q) + Len(t))
      /\ \A i \in 1..(Len(q) + Len(t)) :
           (q \o t)[i] = IF i <= Len(q) THEN q[i] ELSE t[i - Len(q)]
  OBVIOUS
<1>2. ASSUME NEW x \in Elements(q \o t)
      PROVE  x \in Elements(q) \cup Elements(t)
  <2>1. PICK i \in 1..(Len(q) + Len(t)) : (q \o t)[i] = x
    BY <1>1 DEF Elements
  <2>2. CASE i <= Len(q)
    BY <1>1, <2>1, <2>2 DEF Elements
  <2>3. CASE ~(i <= Len(q))
    <3>1. i - Len(q) \in 1..Len(t) /\ t[i - Len(q)] = x
      BY <1>1, <2>1, <2>3
    <3> QED BY <1>1, <3>1 DEF Elements
  <2> QED BY <2>2, <2>3
<1>3. ASSUME NEW x \in Elements(q)
      PROVE  x \in Elements(q \o t)
  <2>1. PICK i \in 1..Len(q) : q[i] = x
    BY <1>1, <1>3 DEF Elements
  <2>2. i \in 1..(Len(q) + Len(t)) /\ (q \o t)[i] = x
    BY <1>1, <2>1
  <2> QED BY <1>1, <2>2 DEF Elements
<1>4. ASSUME NEW x \in Elements(t)
      PROVE  x \in Elements(q \o t)
  <2>1. PICK i \in 1..Len(t) : t[i] = x
    BY <1>1, <1>4 DEF Elements
  <2>2. i + Len(q) \in 1..(Len(q) + Len(t)) /\ (q \o t)[i + Len(q)] = x
    BY <1>1, <2>1
  <2> QED BY <1>1, <2>2 DEF Elements
<1> QED BY <1>1, <1>2, <1>3, <1>4

LEMMA ElementsEmpty == Elements(<<>>) = {}
BY DEF Elements

----------------------------------------------------------------------------
(* Each step preserves the inductive invariant.                            *)

LEMMA InitIInv == Init => IInv
<1> SUFFICES ASSUME Init PROVE IInv
  OBVIOUS
<1> USE DEF Init, DbInit
<1>1. TypeOK
  BY SigsAssumption DEF TypeOK, DbTypeOK
<1>2. IdsKnown
  BY ElementsEmpty DEF IdsKnown
<1> QED
  BY <1>1, <1>2 DEF IInv, Resolving, Computing, WithinClosure, Visited, Computed, Screened

\* The other users of the database: a row leaves `valid' only for `deleted'.
LEMMA DbStepIInv == IInv /\ DbNext /\ UNCHANGED pushVars => IInv'
<1> SUFFICES ASSUME IInv, DbNext, UNCHANGED pushVars PROVE IInv'
  OBVIOUS
<1> USE DEF IInv, pushVars
<1>1. TypeOK'
  <2>1. DbTypeOK'
    BY SigsAssumption DEF TypeOK, DbTypeOK, DbNext, Register, Delete, Sign
  <2> QED BY <2>1 DEF TypeOK
<1>2. RefsIntact'
  BY RefsAssumption DEF TypeOK, DbTypeOK, RefsIntact, DbNext, Register, Delete, Sign
<1>3. deleted \subseteq deleted' /\ valid \cup deleted \subseteq valid' \cup deleted'
  BY DEF DbNext, Register, Delete, Sign
<1>4. IdsKnown'
  BY <1>3 DEF IdsKnown
<1>5. Visited'
  BY <1>3 DEF Visited, Computing
<1> QED
  BY <1>1, <1>2, <1>4, <1>5
  DEF Resolving, WithinClosure, ClosedUnderRefs, Computing, Computed, Screened

LEMMA FailIInv == IInv /\ Fail => IInv'
BY ElementsEmpty
DEF IInv, Fail, dbVars, TypeOK, DbTypeOK, RefsIntact, IdsKnown, Resolving, Computing,
    WithinClosure, Visited, Computed, Screened

\* The input ends, or push() moves on towards canonicalization.
LEMMA ReadingIInv ==
  ASSUME IInv, EndOfInput \/ OpenDb \/ ReadInput \/ (Canonicalize /\ Goto("circling")), ~Fail
  PROVE  IInv'
<1> USE DEF IInv, dbVars
<1>1. /\ pc \in {"open", "read", "canonicalize"}
      /\ pc' \in {"open", "read", "canonicalize", "circling"}
      /\ UNCHANGED <<dbVars, options, todo, queue, result, filtered>>
  BY DEF EndOfInput, OpenDb, ReadInput, Canonicalize, Goto
<1>2. stdin' \in {"open", "ended", "broken"} /\ input' \in SUBSET Rows
      /\ stray' \in SUBSET {"rejected", "circular"}
  BY DEF EndOfInput, OpenDb, ReadInput, Canonicalize, Goto, TypeOK
<1> QED
  BY <1>1, <1>2
  DEF TypeOK, DbTypeOK, RefsIntact, IdsKnown, Resolving, Computing, WithinClosure, Visited,
      Computed, Screened

LEMMA ResolvingIInv ==
  ASSUME IInv, (Canonicalize /\ ~Goto("circling")) \/ (\E r \in Rows : Resolve(r)), ~Fail
  PROVE  IInv'
<1> USE DEF IInv, dbVars
<1>1. TypeOK'
  BY DEF Canonicalize, Resolve, TypeOK, DbTypeOK
<1>2. pc' = "resolve" /\ queue' = <<>> /\ result' \cup todo' = input' /\ result' \subseteq result \cup valid
  BY DEF Canonicalize, Resolve, Resolving
<1>3. IdsKnown'
  BY <1>2, ElementsEmpty DEF Canonicalize, Resolve, IdsKnown, Resolving
<1> QED
  BY <1>1, <1>2, <1>3
  DEF Canonicalize, Resolve, RefsIntact, Resolving, Computing, WithinClosure, Visited, Computed,
      Screened

LEMMA ResolvedIInv == IInv /\ Resolved => IInv'
<1> SUFFICES ASSUME IInv, Resolved PROVE IInv'
  OBVIOUS
<1> USE DEF IInv, dbVars
<1>1. result = input /\ queue = <<>> /\ result \in SUBSET Rows
  BY DEF Resolved, Resolving, TypeOK
<1>2. CASE options.no_closure
  <2>1. pc' = "key" /\ queue' = <<>> /\ result' = input' /\ options'.no_closure
    BY <1>1, <1>2 DEF Resolved
  <2> QED
    BY <1>2, <2>1
    DEF Resolved, TypeOK, DbTypeOK, RefsIntact, IdsKnown, Resolving, Computing, WithinClosure,
        Visited, Computed, Screened
<1>3. CASE ~options.no_closure
  <2>1. queue' \in Seq(Rows) /\ Elements(queue') = input
    BY <1>1, <1>3, OrdersElements DEF Resolved
  <2>2. pc' = "closure" /\ result' = {}
    BY <1>3 DEF Resolved
  <2>3. IdsKnown'
    BY <1>1, <2>1, <2>2 DEF Resolved, IdsKnown
  <2>4. WithinClosure'
    BY <2>1, <2>2 DEF Resolved, WithinClosure
  <2> QED
    BY <2>1, <2>2, <2>3, <2>4
    DEF Resolved, TypeOK, DbTypeOK, RefsIntact, Resolving, Visited, Computed, Screened
<1> QED BY <1>2, <1>3

LEMMA SkipIInv == IInv /\ Skip => IInv'
<1> SUFFICES ASSUME IInv, Skip PROVE IInv'
  OBVIOUS
<1> USE DEF IInv, Skip, Popped, dbVars
<1>1. queue' \in Seq(Rows) /\ Elements(queue) = {Head(queue)} \cup Elements(queue')
  BY ElementsPop DEF TypeOK
<1>2. result' \cup Elements(queue') = result \cup Elements(queue)
  BY <1>1
<1>3. IdsKnown'
  BY <1>2 DEF IdsKnown
<1>4. WithinClosure'
  BY <1>2 DEF WithinClosure, ClosedUnderRefs, Computing
<1>5. Visited'
  BY <1>2 DEF Visited, Computing
<1> QED
  BY <1>1, <1>3, <1>4, <1>5
  DEF TypeOK, DbTypeOK, RefsIntact, Resolving, Computed, Screened

LEMMA VisitIInv == IInv /\ Visit /\ ~Fail => IInv'
<1> SUFFICES ASSUME IInv, Visit, ~Fail PROVE IInv'
  OBVIOUS
<1> USE DEF IInv
<1> DEFINE r == Head(queue)
<1>1. /\ pc = "closure" /\ queue # <<>> /\ r \notin result
      /\ result' = result \cup {r}
      /\ UNCHANGED <<dbVars, options, stdin, input, stray, pc, todo, filtered>>
  BY DEF Visit
<1>2. PICK refs \in Orders(QueryReferences(r)) : queue' = Tail(queue) \o refs
  BY DEF Visit, Extended, Popped
<1>3. /\ r \in Rows
      /\ Tail(queue) \in Seq(Rows)
      /\ Elements(queue) = {r} \cup Elements(Tail(queue))
  BY <1>1, ElementsPop DEF TypeOK
<1>4. QueryReferences(r) \in SUBSET Rows
  BY <1>3, RefsAssumption DEF QueryReferences
<1>5. refs \in Seq(Rows) /\ Elements(refs) = QueryReferences(r)
  BY <1>2, <1>4, OrdersElements
<1>6. queue' \in Seq(Rows) /\ Elements(queue') = Elements(Tail(queue)) \cup QueryReferences(r)
  BY <1>2, <1>3, <1>5, ElementsConcat
<1>7. result' \cup Elements(queue') = result \cup Elements(queue) \cup QueryReferences(r)
  BY <1>1, <1>3, <1>6
<1>8. TypeOK'
  BY <1>1, <1>3, <1>6 DEF TypeOK, DbTypeOK, dbVars
<1>9. IdsKnown'
  <2>1. QueryReferences(r) \subseteq valid
    BY DEF QueryReferences, RefsIntact
  <2> QED BY <1>1, <1>7, <2>1 DEF IdsKnown, dbVars
<1>10. WithinClosure'
  <2>1. SUFFICES ASSUME Computing
        PROVE  /\ input \subseteq result' \cup Elements(queue')
               /\ \A D \in SUBSET Rows :
                    input \subseteq D /\ ClosedUnderRefs(D) =>
                      result' \cup Elements(queue') \subseteq D
    BY <1>1 DEF WithinClosure, Computing, ClosedUnderRefs
  <2>2. input \subseteq result' \cup Elements(queue')
    BY <1>7, <2>1 DEF WithinClosure
  <2>3. ASSUME NEW D \in SUBSET Rows, input \subseteq D, ClosedUnderRefs(D)
        PROVE  result' \cup Elements(queue') \subseteq D
    <3>1. result \cup Elements(queue) \subseteq D
      BY <2>1, <2>3 DEF WithinClosure
    <3>2. r \in D
      BY <1>3, <3>1
    <3>3. QueryReferences(r) \subseteq D
      BY <2>3, <3>2 DEF ClosedUnderRefs, QueryReferences
    <3> QED BY <1>7, <3>1, <3>3
  <2> QED BY <2>2, <2>3
<1>11. Visited'
  <2>1. r \in valid \cup deleted
    BY <1>3 DEF IdsKnown
  <2>2. r \in deleted \/ Refs[r] \subseteq Elements(queue')
    BY <1>6, <2>1 DEF QueryReferences
  <2> QED BY <1>1, <1>7, <2>2 DEF Visited, Computing, dbVars
<1> QED
  BY <1>1, <1>8, <1>9, <1>10, <1>11
  DEF RefsIntact, Resolving, Computed, Screened, dbVars

LEMMA ClosureDoneIInv == IInv /\ ClosureDone => IInv'
BY DEF IInv, ClosureDone, dbVars, TypeOK, DbTypeOK, RefsIntact, IdsKnown, Resolving, Computing,
       WithinClosure, ClosedUnderRefs, Visited, Computed, Screened

LEMMA ReadKeyIInv == IInv /\ ReadKey /\ ~Fail => IInv'
<1> SUFFICES ASSUME IInv, ReadKey, ~Fail PROVE IInv'
  OBVIOUS
<1> USE DEF IInv, dbVars
<1>1. /\ pc = "key" /\ pc' = "filter" /\ todo' = result
      /\ UNCHANGED <<dbVars, options, stdin, input, stray, queue, result, filtered>>
  BY DEF ReadKey
<1>2. WithinClosure' /\ Visited'
  BY <1>1 DEF WithinClosure, ClosedUnderRefs, Visited, Computing
<1> QED
  BY <1>1, <1>2 DEF TypeOK, DbTypeOK, RefsIntact, IdsKnown, Resolving, Computed, Screened

LEMMA FilterIInv == ASSUME NEW r \in Rows PROVE IInv /\ Filter(r) /\ ~Fail => IInv'
<1> SUFFICES ASSUME IInv, Filter(r), ~Fail PROVE IInv'
  OBVIOUS
<1> USE DEF IInv
<1>1. /\ pc = "filter" /\ r \in todo /\ r \in valid /\ todo' = todo \ {r}
      /\ UNCHANGED <<dbVars, options, stdin, input, stray, pc, queue, result>>
  BY DEF Filter, RowThere
<1>2. filtered' \in SUBSET Rows
  BY <1>1 DEF Filter, TypeOK
<1>3. TypeOK' /\ IdsKnown'
  BY <1>1, <1>2 DEF TypeOK, DbTypeOK, IdsKnown, dbVars
<1>4. WithinClosure' /\ Visited'
  BY <1>1 DEF WithinClosure, ClosedUnderRefs, Visited, Computing, dbVars
<1>5. ~options.no_closure => Refs[r] \subseteq result
  <2> SUFFICES ASSUME ~options.no_closure PROVE Refs[r] \subseteq result
    OBVIOUS
  <2>1. r \in result /\ r \notin deleted
    BY <1>1 DEF Screened, TypeOK, DbTypeOK
  <2>2. Elements(queue) = {}
    BY <1>1, ElementsEmpty DEF Computed
  <2> QED BY <1>1, <2>1, <2>2 DEF Visited, Computing
<1>6. Screened'
  BY <1>1, <1>5 DEF Screened
<1> QED
  BY <1>1, <1>3, <1>4, <1>6 DEF RefsIntact, Resolving, Computed, dbVars

LEMMA FilterDoneIInv == IInv /\ FilterDone => IInv'
BY DEF IInv, FilterDone, dbVars, TypeOK, DbTypeOK, RefsIntact, IdsKnown, Resolving, Computing,
       WithinClosure, ClosedUnderRefs, Visited, Computed, Screened

LEMMA StutterIInv == IInv /\ UNCHANGED vars => IInv'
BY DEF IInv, vars, dbVars, pushVars, TypeOK, DbTypeOK, RefsIntact, IdsKnown, Resolving, Computing,
       WithinClosure, ClosedUnderRefs, Visited, Computed, Screened

LEMMA NextIInv == IInv /\ [Next]_vars => IInv'
<1> SUFFICES ASSUME IInv, [Next]_vars PROVE IInv'
  OBVIOUS
<1>1. CASE Fail
  BY <1>1, FailIInv
<1>2. CASE Collect /\ ~Fail
  BY <1>2, ReadingIInv, ResolvingIInv, ResolvedIInv, SkipIInv, StutterIInv, VisitIInv, ClosureDoneIInv, ReadKeyIInv,
     FilterIInv, FilterDoneIInv
  DEF Collect, Circle
<1>3. CASE EndOfInput /\ ~Fail
  BY <1>3, ReadingIInv
<1>4. CASE DbNext /\ UNCHANGED pushVars
  BY <1>4, DbStepIInv
<1>5. CASE UNCHANGED vars
  BY <1>5, StutterIInv
<1> QED BY <1>1, <1>2, <1>3, <1>4, <1>5 DEF Next, Ended

----------------------------------------------------------------------------

LEMMA IInvClosureExact == IInv => ClosureExact
<1> SUFFICES ASSUME IInv, pc = "ready"
    PROVE  IF options.no_closure THEN result = input ELSE IsClosure(result, input)
  BY DEF ClosureExact
<1> USE DEF IInv
<1>1. CASE options.no_closure
  BY <1>1 DEF Computed
<1>2. CASE ~options.no_closure
  <2>1. Elements(queue) = {} /\ todo = {}
    BY ElementsEmpty DEF Computed, Screened
  <2>2. ClosedUnderRefs(result)
    BY <1>2, <2>1 DEF Screened, ClosedUnderRefs
  <2>3. /\ input \subseteq result
        /\ \A D \in SUBSET Rows : input \subseteq D /\ ClosedUnderRefs(D) => result \subseteq D
    BY <1>2, <2>1 DEF WithinClosure, Computing
  <2> QED BY <1>2, <2>2, <2>3 DEF IsClosure
<1> QED BY <1>1, <1>2

\* The state of push() and of the database has its type, and Refs keeps to
\* its foreign keys, throughout every run.
THEOREM TypeCorrect == Spec => [](TypeOK /\ RefsIntact)
<1>1. IInv => TypeOK /\ RefsIntact
  BY DEF IInv
<1> QED BY <1>1, InitIInv, NextIInv, PTL DEF Spec

\* For every database, every input and every interleaving with garbage
\* collection, builds and signing: a push that reaches its tasks has the exact
\* closure of its input.
THEOREM PushesExactClosure == Spec => []ClosureExact
BY InitIInv, NextIInv, IInvClosureExact, PTL DEF Spec

----------------------------------------------------------------------------
(* The filter.                                                             *)

Justified(names) ==
  \E n \in names : n \in ExcludedNames \/ (n = OwnName /\ ~options.already_signed)

\* An id that went through the filter and did not pass has an excluding
\* signature, from then on.
RejectedJustified ==
  pc \in {"filter", "ready"} => \A r \in result \ (todo \cup filtered) : Justified(sigs[r])

LEMMA FilterRejects ==
  ASSUME NEW r \in Rows, IInv, RejectedJustified, Filter(r)
  PROVE  RejectedJustified'
<1>1. CASE Fail
  BY <1>1 DEF Fail, RejectedJustified
<1>2. CASE ~Fail
  <2>1. /\ pc = "filter" /\ r \in todo /\ todo' = todo \ {r}
        /\ filtered' = IF Excluded(sigs[r]) THEN filtered ELSE filtered \cup {r}
        /\ UNCHANGED <<dbVars, options, stdin, input, stray, pc, queue, result>>
    BY <1>2 DEF Filter
  <2>2. Excluded(sigs[r]) => Justified(sigs[r])
    BY DEF Excluded, Justified
  <2> QED BY <2>1, <2>2 DEF RejectedJustified, Justified, dbVars
<1> QED BY <1>1, <1>2

LEMMA NextRejects == IInv /\ RejectedJustified /\ [Next]_vars => RejectedJustified'
<1> SUFFICES ASSUME IInv, RejectedJustified, [Next]_vars PROVE RejectedJustified'
  OBVIOUS
<1>1. CASE \E r \in Rows : Filter(r)
  BY <1>1, FilterRejects
<1>2. CASE ReadKey
  BY <1>2 DEF ReadKey, Fail, RejectedJustified
<1>3. CASE FilterDone
  BY <1>3 DEF FilterDone, RejectedJustified, Justified, dbVars
<1>4. CASE OpenDb \/ ReadInput \/ Canonicalize \/ EndOfInput
  BY <1>4 DEF OpenDb, ReadInput, Canonicalize, EndOfInput, Goto, Fail, RejectedJustified
<1>5. CASE (\E r \in Rows : Resolve(r)) \/ Resolved \/ Skip \/ Visit \/ ClosureDone
  BY <1>5 DEF Resolve, Resolved, Skip, Visit, ClosureDone, Fail, RejectedJustified
<1>6. CASE DbNext /\ UNCHANGED pushVars
  <2>1. \A r \in Rows : sigs[r] \subseteq sigs'[r]
    BY <1>6 DEF IInv, TypeOK, DbTypeOK, DbNext, Register, Delete, Sign
  <2> QED
    BY <1>6, <2>1 DEF RejectedJustified, Justified, pushVars, IInv, TypeOK
<1>7. CASE UNCHANGED vars
  BY <1>7 DEF vars, pushVars, dbVars, RejectedJustified, Justified
<1> QED BY <1>1, <1>2, <1>3, <1>4, <1>5, <1>6, <1>7 DEF Next, Collect, Circle, Ended

\* No path of the closure is left out for want of anything but an excluding
\* signature it still carries when the push tasks start.
THEOREM ExclusionsAreJustified == Spec => []ExclusionJustified
<1>1. Init => RejectedJustified
  BY DEF Init, RejectedJustified
<1>2. IInv /\ RejectedJustified => ExclusionJustified
  BY DEF IInv, Screened, RejectedJustified, Justified, ExclusionJustified
<1> QED BY <1>1, <1>2, InitIInv, NextIInv, NextRejects, PTL DEF Spec
=============================================================================
