----------------------- MODULE JournalReporterProofs -----------------------
(***************************************************************************)
(* The milestone reporter writes the journal, for every set of tasks and   *)
(* plans and every journal.  Induction is over the position in the         *)
(* journal, in the form the provers take: the first position at which a    *)
(* claim fails.  With it, the flattening of a sequence of sequences is     *)
(* that of all but the last one and the last one, and what a drain of a    *)
(* journal writes grows with the journal at its end.                       *)
(***************************************************************************)
EXTENDS JournalReporter, FiniteSetTheorems, SequenceTheorems, TLAPS

-----------------------------------------------------------------------------
(* Flattening *)

\* A set of numbers that is not empty has a smallest one: the provers take
\* induction in this form.
LEMMA Earliest ==
    ASSUME NEW T \in SUBSET Nat, T # {}
    PROVE  \E i \in T : \A j \in T : i <= j
  <1> DEFINE R == OpToRel(<, Nat)
  <1>1. PICK i \in T : \A j \in T : <<j, i>> \notin R
    BY NatLessThanWellFounded, WFMin
  <1>2. \A j \in T : <<j, i>> \in R <=> j < i
    BY DEF OpToRel
  <1>3. \A j \in T : ~ (j < i)
    BY <1>1, <1>2
  <1> QED
    BY <1>3

\* f[i] is the first i sequences of s in one.
Flattens(f, s, n) ==
    \A i \in 1..n : f[i] = IF i = 1 THEN s[i] ELSE f[i - 1] \o s[i]

Flatten(s) == CHOOSE f : f = [i \in 1..Len(s) |-> IF i = 1 THEN s[i] ELSE f[i - 1] \o s[i]]

LEMMA FlattenSeqIs ==
    ASSUME NEW s
    PROVE  FlattenSeq(s) = IF Len(s) = 0 THEN s ELSE Flatten(s)[Len(s)]
  BY Zenon DEF FlattenSeq, Flatten

LEMMA FlattenExists ==
    ASSUME NEW S, NEW s \in Seq(Seq(S))
    PROVE  \E f \in [1..Len(s) -> Seq(S)] : Flattens(f, s, Len(s))
  <1> DEFINE Good(n) == \E f \in [1..n -> Seq(S)] : Flattens(f, s, n)
             Bad == {n \in 0..Len(s) : ~ Good(n)}
  <1>1. Len(s) \in Nat /\ \A i \in 1..Len(s) : s[i] \in Seq(S)
    OBVIOUS
  <1>2. SUFFICES ASSUME Bad # {} PROVE FALSE
    <2>1. Bad = {} => Good(Len(s))
      BY <1>1
    <2> QED
      BY <2>1
  <1>3. PICK m \in Bad : \A j \in Bad : m <= j
    <2>1. Bad \in SUBSET Nat
      BY <1>1
    <2> HIDE DEF Bad
    <2> QED
      BY <1>2, <2>1, Earliest
  <1>4. Good(0)
    <2>1. [i \in 1..0 |-> s[i]] \in [1..0 -> Seq(S)] /\ Flattens([i \in 1..0 |-> s[i]], s, 0)
      BY DEF Flattens
    <2> QED
      BY <2>1
  <1>5. m \in 1..Len(s) /\ Good(m - 1)
    <2> HIDE DEF Good
    <2>1. m \in 0..Len(s) /\ ~ Good(m)
      BY <1>3
    <2>2. m # 0
      BY <1>4, <2>1
    <2>3. m - 1 \in 0..Len(s) /\ ~ (m <= m - 1)
      BY <1>1, <2>1, <2>2
    <2> QED
      BY <1>1, <1>3, <2>1, <2>2, <2>3
  <1>6. PICK f \in [1..(m - 1) -> Seq(S)] : Flattens(f, s, m - 1)
    BY <1>5
  <1> DEFINE last == IF m = 1 THEN s[m] ELSE f[m - 1] \o s[m]
             g == [i \in 1..m |-> IF i = m THEN last ELSE f[i]]
  <1>7. last \in Seq(S)
    <2>1. CASE m = 1
      BY <1>1, <1>5, <2>1
    <2>2. CASE m # 1
      <3>1. f[m - 1] \in Seq(S) /\ s[m] \in Seq(S)
        BY <1>1, <1>5, <1>6, <2>2
      <3> QED
        BY <2>2, <3>1, ConcatProperties
    <2> QED
      BY <2>1, <2>2
  <1>8. g \in [1..m -> Seq(S)]
    <2> HIDE DEF last
    <2>1. \A i \in 1..m : i # m => i \in 1..(m - 1)
      BY <1>5
    <2> QED
      BY <1>6, <1>7, <2>1
  <1>9. Flattens(g, s, m)
    <2> SUFFICES ASSUME NEW i \in 1..m PROVE g[i] = IF i = 1 THEN s[i] ELSE g[i - 1] \o s[i]
      BY DEF Flattens
    <2>1. CASE i = m
      <3>1. m # 1 => m - 1 \in 1..m /\ m - 1 # m
        BY <1>5
      <3>2. m # 1 => g[m - 1] = f[m - 1]
        BY <3>1
      <3> QED
        BY <2>1, <3>2
    <2>2. CASE i # m
      <3>1. i \in 1..(m - 1) /\ (i # 1 => i - 1 \in 1..m /\ i - 1 # m)
        BY <1>5, <2>2
      <3>2. g[i] = f[i] /\ (i # 1 => g[i - 1] = f[i - 1])
        BY <2>2, <3>1
      <3>3. f[i] = IF i = 1 THEN s[i] ELSE f[i - 1] \o s[i]
        BY <1>6, <3>1 DEF Flattens
      <3> HIDE DEF g
      <3> QED
        BY <3>2, <3>3
    <2> QED
      BY <2>1, <2>2
  <1> HIDE DEF g
  <1>10. Good(m)
    BY <1>8, <1>9
  <1> QED
    BY <1>3, <1>10

LEMMA FlattenUnique ==
    ASSUME NEW f, NEW g, NEW s, NEW n \in Nat, Flattens(f, s, n), Flattens(g, s, n)
    PROVE  \A i \in 1..n : f[i] = g[i]
  <1> DEFINE Bad == {i \in 1..n : f[i] # g[i]}
  <1>1. SUFFICES ASSUME Bad # {} PROVE FALSE
    OBVIOUS
  <1>2. PICK m \in Bad : \A j \in Bad : m <= j
    <2>1. Bad \in SUBSET Nat
      OBVIOUS
    <2> HIDE DEF Bad
    <2> QED
      BY <1>1, <2>1, Earliest
  <1>3. m \in 1..n /\ f[m] # g[m]
    BY <1>2
  <1>4. m # 1 => m - 1 \in 1..n /\ f[m - 1] = g[m - 1]
    BY <1>2
  <1> QED
    BY <1>3, <1>4 DEF Flattens

LEMMA FlattenDefined ==
    ASSUME NEW S, NEW s \in Seq(Seq(S))
    PROVE  /\ Flattens(Flatten(s), s, Len(s))
           /\ \A i \in 1..Len(s) : Flatten(s)[i] \in Seq(S)
  <1> DEFINE Body(f) == [i \in 1..Len(s) |-> IF i = 1 THEN s[i] ELSE f[i - 1] \o s[i]]
  <1>1. PICK f \in [1..Len(s) -> Seq(S)] : Flattens(f, s, Len(s))
    BY FlattenExists
  <1>2. f = Body(f)
    BY <1>1 DEF Flattens
  <1>3. Flatten(s) = CHOOSE h : h = Body(h)
    BY DEF Flatten
  <1>4. Flatten(s) = Body(Flatten(s))
    <2> HIDE DEF Body
    <2> QED
      BY <1>2, <1>3
  <1>5. Flattens(Flatten(s), s, Len(s))
    BY <1>4 DEF Flattens
  <1>6. Len(s) \in Nat
    OBVIOUS
  <1> QED
    BY <1>1, <1>5, <1>6, FlattenUnique

\* One more sequence comes after all before it.
LEMMA FlattenOneMore ==
    ASSUME NEW S, NEW s \in Seq(Seq(S)), NEW n \in Nat, Len(s) = n + 1,
           NEW r, r = [i \in 1..n |-> s[i]]
    PROVE  /\ FlattenSeq(s) \in Seq(S) /\ FlattenSeq(r) \in Seq(S)
           /\ FlattenSeq(s) = FlattenSeq(r) \o s[n + 1]
  <1>1. n + 1 \in 1..Len(s) /\ \A i \in 1..Len(s) : s[i] \in Seq(S)
    OBVIOUS
  <1>2. r \in Seq(Seq(S)) /\ Len(r) = n
    BY <1>1
  <1>3. Flattens(Flatten(s), s, n + 1) /\ \A i \in 1..(n + 1) : Flatten(s)[i] \in Seq(S)
    BY FlattenDefined
  <1>4. Flattens(Flatten(r), r, n) /\ \A i \in 1..n : Flatten(r)[i] \in Seq(S)
    BY <1>2, FlattenDefined
  <1>5. FlattenSeq(s) = Flatten(s)[n + 1]
    BY FlattenSeqIs
  <1>6. Flattens(Flatten(s), r, n)
    BY <1>3 DEF Flattens
  <1>7. CASE n = 0
    <2>1. FlattenSeq(r) = <<>>
      BY <1>2, <1>7, FlattenSeqIs
    <2>2. FlattenSeq(s) = s[1]
      BY <1>3, <1>5, <1>7 DEF Flattens
    <2>3. s[1] \in Seq(S) /\ n + 1 = 1
      BY <1>1, <1>7
    <2>4. <<>> \in Seq(S) /\ <<>> \o s[1] = s[1]
      BY <2>3, EmptySeq, ConcatEmptySeq
    <2> QED
      BY <2>1, <2>2, <2>3, <2>4
  <1>8. CASE n # 0
    <2>1. n \in 1..n /\ n + 1 \in 1..(n + 1) /\ n + 1 # 1 /\ (n + 1) - 1 = n
      BY <1>8
    <2>2. FlattenSeq(r) = Flatten(r)[n]
      BY <1>2, <1>8, FlattenSeqIs
    <2>3. Flatten(r)[n] = Flatten(s)[n]
      BY <1>4, <1>6, <2>1, FlattenUnique
    <2>4. Flatten(s)[n + 1] = Flatten(s)[n] \o s[n + 1]
      BY <1>3, <2>1 DEF Flattens
    <2> QED
      BY <1>3, <1>4, <1>5, <2>1, <2>2, <2>3, <2>4
  <1> QED
    BY <1>7, <1>8

LEMMA FlattenType ==
    ASSUME NEW S, NEW s \in Seq(Seq(S))
    PROVE  FlattenSeq(s) \in Seq(S)
  <1>1. CASE Len(s) = 0
    <2>1. FlattenSeq(s) = <<>>
      BY <1>1, FlattenSeqIs
    <2> QED
      BY <2>1, EmptySeq
  <1>2. CASE Len(s) # 0
    BY <1>2, FlattenSeqIs, FlattenDefined
  <1> QED
    BY <1>1, <1>2

-----------------------------------------------------------------------------
(* The lines of the terminal *)

StepsOf(c) == {c.steps[i] : i \in DOMAIN c.steps}

Line ==
    {<<"event">>}
    \cup ({"accepted"} \X Task \X Nat)
    \cup ({"step"} \X Nat \X UNION {StepsOf(c) : c \in Content})
    \cup ({"current"} \X {c.current : c \in Content})
    \cup ({"focus"} \X {c.focus : c \in Content})
    \cup ({"status"} \X {c.status : c \in Content})

Revision == {[revision |-> n, content |-> c] : n \in Nat, c \in Content}

Entry == Others \cup {Revised(t, p) : t \in Task, p \in Revision}

LEMMA IfChangedType ==
    ASSUME NEW old, NEW new, NEW line \in Line
    PROVE  IfChanged(old, new, line) \in Seq(Line)
  BY DEF IfChanged

LEMMA StepLinesType ==
    ASSUME NEW old, NEW c \in Content
    PROVE  StepLines(old, c) \in Seq(Line)
  <1> DEFINE n == Len(c.steps)
             at(i) == IfChanged(IF i \in DOMAIN old.steps THEN old.steps[i] ELSE "", c.steps[i],
                                <<"step", i, c.steps[i]>>)
             s == [i \in 1..n |-> at(i)]
  <1>1. n \in Nat /\ DOMAIN c.steps = 1..n
    BY JournalAssumption
  <1>2. ASSUME NEW i \in 1..n PROVE at(i) \in Seq(Line)
    <2>0. c.steps[i] \in UNION {StepsOf(d) : d \in Content}
      BY <1>1 DEF StepsOf
    <2>1. <<"step", i, c.steps[i]>> \in Line
      BY <1>1, <2>0 DEF Line
    <2> QED
      BY <2>1, IfChangedType
  <1>3. s \in Seq(Seq(Line))
    <2> HIDE DEF at, n
    <2> QED
      BY <1>1, <1>2
  <1>4. StepLines(old, c) = FlattenSeq(s)
    BY <1>1 DEF StepLines
  <1> HIDE DEF s
  <1> QED
    BY <1>3, <1>4, FlattenType

LEMMA PlanLinesType ==
    ASSUME NEW t \in Task, NEW old, NEW new \in Revision
    PROVE  PlanLines(t, old, new) \in Seq(Line)
  <1>1. PICK n \in Nat, c \in Content : new = [revision |-> n, content |-> c]
    BY DEF Revision
  <1>2. new.revision = n /\ new.content = c
    BY <1>1
  <1>3. <<<<"accepted", t, n>>>> \in Seq(Line)
    <2>1. <<"accepted", t, n>> \in Line
      BY DEF Line
    <2> QED
      BY <2>1
  <1>4. StepLines(old.content, c) \in Seq(Line)
    BY StepLinesType
  <1>5. IfChanged(old.content.current, c.current, <<"current", c.current>>) \in Seq(Line)
    <2>1. <<"current", c.current>> \in Line
      BY DEF Line
    <2> QED
      BY <2>1, IfChangedType
  <1>6. IfChanged(old.content.focus, c.focus, <<"focus", c.focus>>) \in Seq(Line)
    <2>1. <<"focus", c.focus>> \in Line
      BY DEF Line
    <2> QED
      BY <2>1, IfChangedType
  <1>7. (IF old = NoPlan THEN <<>>
         ELSE IfChanged(old.content.status, c.status, <<"status", c.status>>)) \in Seq(Line)
    <2>1. <<"status", c.status>> \in Line
      BY DEF Line
    <2> QED
      BY <2>1, IfChangedType, EmptySeq
  <1> QED
    BY <1>2, <1>3, <1>4, <1>5, <1>6, <1>7, ConcatProperties DEF PlanLines

LEMMA LinesType ==
    ASSUME NEW e \in Entry, NEW old
    PROVE  Lines(e, old) \in Seq(Line)
  <1>1. CASE e.kind = "revised"
    <2>1. PICK t \in Task, p \in Revision : e = Revised(t, p)
      BY <1>1 DEF Entry, Others
    <2>2. e.task = t /\ e.plan = p
      BY <2>1 DEF Revised
    <2> QED
      BY <1>1, <2>2, PlanLinesType, EmptySeq DEF Lines
  <1>2. CASE e.kind = "event"
    <2>1. <<"event">> \in Line
      BY DEF Line
    <2> QED
      BY <1>2, <2>1 DEF Lines
  <1>3. CASE e.kind # "revised" /\ e.kind # "event"
    BY <1>3, EmptySeq DEF Lines
  <1> QED
    BY <1>1, <1>2, <1>3

-----------------------------------------------------------------------------
(* What one drain of the first n entries of a journal writes *)

RevisionsOf(j, t) == {i \in DOMAIN j : j[i].kind = "revised" /\ j[i].task = t}

LastOf(T) == CHOOSE i \in T : \A k \in T : k <= i

UpTo(j, t, n) == {k \in RevisionsOf(j, t) : k <= n}

LastPlan(j, t, n) ==
    IF UpTo(j, t, n) = {} THEN NoPlan
    ELSE j[LastOf(UpTo(j, t, n))].plan

LinesAt(j, i) ==
    Lines(j[i], IF j[i].kind = "revised" THEN LastPlan(j, j[i].task, i - 1) ELSE NoPlan)

Reported(j, n) == FlattenSeq([i \in 1..n |-> LinesAt(j, i)])

LEMMA TranscriptIs ==
    ASSUME journal \in Seq(Entry)
    PROVE  Transcript = Reported(journal, Len(journal))
  <1>1. DOMAIN journal = 1..Len(journal) /\ Len(journal) \in Nat
    OBVIOUS
  <1>2. ASSUME NEW i \in 1..Len(journal)
        PROVE  Previous(i) = LastPlan(journal, journal[i].task, i - 1)
    <2>1. {k \in Revisions(journal[i].task) : k < i} = UpTo(journal, journal[i].task, i - 1)
      BY <1>1 DEF Revisions, RevisionsOf, UpTo
    <2>2. Previous(i) =
             IF {k \in Revisions(journal[i].task) : k < i} = {} THEN NoPlan
             ELSE journal[LastOf({k \in Revisions(journal[i].task) : k < i})].plan
      BY DEF Previous, LastOf
    <2> QED
      BY <2>1, <2>2 DEF LastPlan
  <1>3. [i \in DOMAIN journal |->
           Lines(journal[i], IF journal[i].kind = "revised" THEN Previous(i) ELSE NoPlan)]
          = [i \in 1..Len(journal) |-> LinesAt(journal, i)]
    BY <1>1, <1>2 DEF LinesAt
  <1> QED
    BY <1>3 DEF Transcript, Reported

\* A set of numbers up to n that is not empty has a largest one.
LEMMA Latest ==
    ASSUME NEW n \in Nat, NEW T \in SUBSET (0..n), T # {}
    PROVE  \E i \in T : \A j \in T : j <= i
  <1> DEFINE U == {n - i : i \in T}
  <1>1. U \in SUBSET Nat /\ U # {}
    <2>1. PICK i \in T : TRUE
      OBVIOUS
    <2>2. n - i \in U
      BY <2>1
    <2>3. \A k \in T : n - k \in Nat
      OBVIOUS
    <2> QED
      BY <2>2, <2>3
  <1>2. PICK u \in U : \A v \in U : u <= v
    <2> HIDE DEF U
    <2> QED
      BY <1>1, Earliest
  <1>3. PICK i \in T : u = n - i
    BY <1>2
  <1>4. \A j \in T : n - i <= n - j
    BY <1>2, <1>3
  <1> QED
    BY <1>3, <1>4

LEMMA LastPlanSame ==
    ASSUME NEW j \in Seq(Entry), NEW k \in Seq(Entry), NEW n \in Nat,
           n <= Len(j), n <= Len(k), \A i \in 1..n : k[i] = j[i], NEW t
    PROVE  LastPlan(j, t, n) = LastPlan(k, t, n)
  <1> DEFINE T == UpTo(j, t, n)
  <1>1. UpTo(k, t, n) = T
    BY DEF UpTo, RevisionsOf
  <1>2. T \in SUBSET (0..n) /\ T \in SUBSET (1..n)
    BY DEF UpTo, RevisionsOf
  <1> HIDE DEF T
  <1>3. CASE T = {}
    BY <1>1, <1>3 DEF LastPlan, T
  <1>4. CASE T # {}
    <2> DEFINE c == LastOf(T)
    <2>1. \E i \in T : \A l \in T : l <= i
      BY <1>2, <1>4, Latest
    <2>2. c \in T
      BY <2>1 DEF LastOf
    <2>3. LastPlan(j, t, n) = j[c].plan /\ LastPlan(k, t, n) = k[c].plan
      BY <1>1, <1>4 DEF LastPlan, T
    <2> HIDE DEF c
    <2> QED
      BY <1>2, <2>2, <2>3
  <1> QED
    BY <1>3, <1>4

LEMMA ReportedSame ==
    ASSUME NEW j \in Seq(Entry), NEW k \in Seq(Entry), NEW n \in Nat,
           n <= Len(j), n <= Len(k), \A i \in 1..n : k[i] = j[i]
    PROVE  Reported(j, n) = Reported(k, n)
  <1>1. ASSUME NEW i \in 1..n PROVE LinesAt(j, i) = LinesAt(k, i)
    <2>1. i - 1 \in Nat /\ i - 1 <= Len(j) /\ i - 1 <= Len(k) /\ \A l \in 1..(i - 1) : k[l] = j[l]
      OBVIOUS
    <2>2. LastPlan(j, j[i].task, i - 1) = LastPlan(k, j[i].task, i - 1)
      BY <2>1, LastPlanSame
    <2> QED
      BY <2>2 DEF LinesAt
  <1>2. [i \in 1..n |-> LinesAt(j, i)] = [i \in 1..n |-> LinesAt(k, i)]
    BY <1>1
  <1> QED
    BY <1>2 DEF Reported

LEMMA LinesAtType ==
    ASSUME NEW j \in Seq(Entry), NEW i \in 1..Len(j)
    PROVE  LinesAt(j, i) \in Seq(Line)
  <1>1. j[i] \in Entry
    OBVIOUS
  <1> QED
    BY <1>1, LinesType DEF LinesAt

LEMMA ReportedNext ==
    ASSUME NEW j \in Seq(Entry), NEW n \in Nat, n < Len(j)
    PROVE  /\ Reported(j, n) \in Seq(Line) /\ Reported(j, n + 1) \in Seq(Line)
           /\ Reported(j, n + 1) = Reported(j, n) \o LinesAt(j, n + 1)
  <1> DEFINE s == [i \in 1..(n + 1) |-> LinesAt(j, i)]
             r == [i \in 1..n |-> LinesAt(j, i)]
  <1>1. \A i \in 1..(n + 1) : LinesAt(j, i) \in Seq(Line)
    BY LinesAtType
  <1>2. s \in Seq(Seq(Line)) /\ Len(s) = n + 1 /\ s[n + 1] = LinesAt(j, n + 1)
    BY <1>1
  <1>3. r = [i \in 1..n |-> s[i]]
    OBVIOUS
  <1>4. Reported(j, n + 1) = FlattenSeq(s) /\ Reported(j, n) = FlattenSeq(r)
    BY DEF Reported
  <1> HIDE DEF s, r
  <1>5. /\ FlattenSeq(s) \in Seq(Line) /\ FlattenSeq(r) \in Seq(Line)
        /\ FlattenSeq(s) = FlattenSeq(r) \o s[n + 1]
    BY <1>2, <1>3, FlattenOneMore
  <1> QED
    BY <1>2, <1>4, <1>5

LEMMA ReportedNothing == ASSUME NEW j PROVE Reported(j, 0) = <<>>
  <1>1. [i \in 1..0 |-> LinesAt(j, i)] = <<>>
    OBVIOUS
  <1> QED
    BY <1>1, FlattenSeqIs DEF Reported

LEMMA ReportedType ==
    ASSUME NEW j \in Seq(Entry), NEW n \in 0..Len(j)
    PROVE  Reported(j, n) \in Seq(Line)
  <1>1. [i \in 1..n |-> LinesAt(j, i)] \in Seq(Seq(Line))
    BY LinesAtType
  <1> QED
    BY <1>1, FlattenType DEF Reported

\* What an earlier drain writes is the beginning of what a later one does.
LEMMA ReportedGrows ==
    ASSUME NEW j \in Seq(Entry), NEW n \in Nat, NEW m \in n..Len(j)
    PROVE  \E rest \in Seq(Line) : Reported(j, n) \o rest = Reported(j, m)
  <1> DEFINE Good(k) == \E rest \in Seq(Line) : Reported(j, n) \o rest = Reported(j, k)
             Bad == {k \in n..Len(j) : ~ Good(k)}
  <1>1. Len(j) \in Nat /\ n \in 0..Len(j)
    OBVIOUS
  <1>2. SUFFICES ASSUME Bad # {} PROVE FALSE
    OBVIOUS
  <1>3. PICK k \in Bad : \A l \in Bad : k <= l
    <2>1. Bad \in SUBSET Nat
      BY <1>1
    <2> HIDE DEF Bad
    <2> QED
      BY <1>2, <2>1, Earliest
  <1>4. Good(n)
    <2>1. Reported(j, n) \o <<>> = Reported(j, n)
      BY <1>1, ReportedType, ConcatEmptySeq
    <2> QED
      BY <2>1, EmptySeq
  <1>5. k \in n..Len(j) /\ k # n /\ ~ Good(k) /\ Good(k - 1)
    <2> HIDE DEF Good
    <2>1. k \in n..Len(j) /\ ~ Good(k) /\ k # n
      BY <1>3, <1>4
    <2>2. k - 1 \in n..Len(j) /\ ~ (k <= k - 1)
      BY <1>1, <2>1
    <2> QED
      BY <1>3, <2>1, <2>2
  <1>6. PICK rest \in Seq(Line) : Reported(j, n) \o rest = Reported(j, k - 1)
    BY <1>5
  <1>7. k - 1 \in Nat /\ k - 1 < Len(j) /\ (k - 1) + 1 = k /\ k \in 1..Len(j)
    BY <1>1, <1>5
  <1>8. Reported(j, k) = Reported(j, k - 1) \o LinesAt(j, k)
    BY <1>7, ReportedNext
  <1>9. LinesAt(j, k) \in Seq(Line) /\ Reported(j, n) \in Seq(Line)
    BY <1>1, <1>7, LinesAtType, ReportedType
  <1>10. Reported(j, n) \o (rest \o LinesAt(j, k)) = Reported(j, k)
    <2>1. (Reported(j, n) \o rest) \o LinesAt(j, k) = Reported(j, n) \o (rest \o LinesAt(j, k))
      BY <1>9, ConcatAssociative
    <2> QED
      BY <1>6, <1>8, <2>1
  <1>11. rest \o LinesAt(j, k) \in Seq(Line)
    BY <1>9, ConcatProperties
  <1> QED
    BY <1>5, <1>10, <1>11

LEMMA BeginningIs ==
    ASSUME NEW S, NEW s \in Seq(S), NEW t \in Seq(S)
    PROVE  IsPrefix(s, s \o t)
  <1>1. Len(s \o t) = Len(s) + Len(t) /\ Len(s) \in Nat /\ Len(t) \in Nat /\ s \o t \in Seq(S)
    BY ConcatProperties, LenProperties
  <1>2. SubSeq(s, 1, Len(s)) = SubSeq(s \o t, 1, Len(s))
    <2>1. CASE Len(s) = 0
      BY <2>1, SubSeqEmpty
    <2>2. CASE Len(s) # 0
      BY <1>1, <2>2, SubSeqOfConcat1
    <2> QED
      BY <2>1, <2>2
  <1> QED
    BY <1>1, <1>2 DEF IsPrefix

-----------------------------------------------------------------------------
(* The invariant: what is written and what is still to be written of the     *)
(* entry under way are what one drain up to it writes, and the plans kept    *)
(* are the last ones up to it; a failed reporter is behind the journal for   *)
(* good.                                                                     *)

LastPlans(n) == [t \in Task |-> LastPlan(journal, t, n)]

Places ==
    /\ journal \in Seq(Entry)
    /\ next \in Nat \ {0} /\ end \in 0..Len(journal) /\ cursor \in 0..Len(journal)
    /\ next <= end + 1
    /\ written \in Seq(Line) /\ pending \in Seq(Line)
    /\ pending # <<>> => next <= end
    /\ next <= end => end = Len(journal)
    /\ failed \in {"no", "yes"}

Working ==
    /\ cursor < next
    /\ next > end => cursor = end
    /\ pending = <<>> => written = Reported(journal, next - 1) /\ plans = LastPlans(next - 1)
    /\ pending # <<>> => written \o pending = Reported(journal, next) /\ plans = LastPlans(next)

Stopped ==
    /\ Idle /\ cursor < Len(journal)
    /\ \E rest \in Seq(Line) : written \o rest = Reported(journal, Len(journal))

JournalInv ==
    /\ Places
    /\ failed = "no" => Working
    /\ failed = "yes" => Stopped

LEMMA JournalInvReports ==
    ASSUME JournalInv
    PROVE  ReportsJournal
  <1>1. Places
    BY DEF JournalInv
  <1>2. Transcript = Reported(journal, Len(journal)) /\ Len(journal) \in Nat
    BY <1>1, TranscriptIs DEF Places
  <1>3. CASE failed = "yes"
    <2>1. Stopped
      BY <1>3 DEF JournalInv
    <2>2. PICK rest \in Seq(Line) : written \o rest = Transcript
      BY <1>2, <2>1 DEF Stopped
    <2>3. IsPrefix(written, Transcript)
      BY <1>1, <2>2, BeginningIs DEF Places
    <2>4. cursor # Len(journal)
      BY <1>1, <1>2, <2>1 DEF Stopped, Places
    <2> QED
      BY <2>3, <2>4 DEF ReportsJournal
  <1>4. CASE failed = "no"
    <2>1. Working
      BY <1>4 DEF JournalInv
    <2>2. CASE pending = <<>>
      <3>1. written = Reported(journal, next - 1) /\ next - 1 \in Nat /\ Len(journal) \in (next - 1)..Len(journal)
        BY <1>1, <1>2, <2>1, <2>2 DEF Working, Places
      <3>2. PICK rest \in Seq(Line) : written \o rest = Transcript
        BY <1>1, <1>2, <3>1, ReportedGrows DEF Places
      <3>3. IsPrefix(written, Transcript)
        BY <1>1, <3>2, BeginningIs DEF Places
      <3>4. ASSUME Idle, cursor = Len(journal) PROVE written = Transcript
        <4>1. next - 1 = Len(journal)
          BY <1>1, <2>1, <3>4 DEF Idle, Working, Places
        <4> QED
          BY <1>2, <3>1, <4>1
      <3> QED
        BY <3>3, <3>4 DEF ReportsJournal
    <2>3. CASE pending # <<>>
      <3>1. written \o pending = Reported(journal, next) /\ next \in Nat /\ Len(journal) \in next..Len(journal)
        BY <1>1, <1>2, <2>1, <2>3 DEF Working, Places
      <3>2. PICK rest \in Seq(Line) : (written \o pending) \o rest = Transcript
        BY <1>1, <1>2, <3>1, ReportedGrows DEF Places
      <3>3. written \o (pending \o rest) = Transcript /\ pending \o rest \in Seq(Line)
        <4>1. written \in Seq(Line) /\ pending \in Seq(Line)
          BY <1>1 DEF Places
        <4>2. (written \o pending) \o rest = written \o (pending \o rest)
          BY <4>1, ConcatAssociative
        <4> QED
          BY <3>2, <4>1, <4>2, ConcatProperties
      <3>4. IsPrefix(written, Transcript)
        BY <1>1, <3>3, BeginningIs DEF Places
      <3>5. ~ Idle
        BY <2>3 DEF Idle
      <3> QED
        BY <3>4, <3>5 DEF ReportsJournal
    <2> QED
      BY <2>2, <2>3
  <1> QED
    BY <1>1, <1>3, <1>4 DEF Places

LEMMA JournalStarts == Init => JournalInv
  <1> SUFFICES ASSUME Init PROVE JournalInv
    OBVIOUS
  <1>1. journal = <<>> /\ cursor = 0 /\ next = 1 /\ end = 0 /\ pending = <<>> /\ written = <<>>
        /\ failed = "no" /\ plans = [t \in Task |-> NoPlan]
    BY DEF Init
  <1>2. journal \in Seq(Entry) /\ Len(journal) = 0
    BY <1>1, EmptySeq
  <1>3. written \in Seq(Line) /\ pending \in Seq(Line)
    BY <1>1, EmptySeq
  <1>4. Places
    BY <1>1, <1>2, <1>3 DEF Places
  <1>5. next - 1 = 0
    BY <1>1
  <1>6. written = Reported(journal, next - 1)
    BY <1>1, <1>5, ReportedNothing
  <1>7. plans = LastPlans(next - 1)
    <2>1. \A t \in Task : UpTo(journal, t, 0) = {}
      BY <1>2 DEF UpTo, RevisionsOf
    <2>2. \A t \in Task : LastPlan(journal, t, 0) = NoPlan
      BY <2>1 DEF LastPlan
    <2> QED
      BY <1>1, <1>5, <2>2 DEF LastPlans
  <1>8. Working
    BY <1>1, <1>6, <1>7 DEF Working
  <1> QED
    BY <1>1, <1>4, <1>8 DEF JournalInv

-----------------------------------------------------------------------------
(* The steps *)

\* The store's part: entries only follow the others.
LEMMA CommitKeeps ==
    ASSUME JournalInv, Commit
    PROVE  JournalInv'
  <1>1. Places /\ Idle /\ UNCHANGED <<cursor, plans, failed, next, end, pending, written>>
    BY DEF JournalInv, Commit
  <1>2. PICK e \in Entry : journal' = Append(journal, e)
    <2>1. CASE \E e \in Others : journal' = Append(journal, e)
      BY <2>1 DEF Entry
    <2>2. CASE ~ \E e \in Others : journal' = Append(journal, e)
      <3>1. PICK t \in Task, c \in Content :
               journal' = Append(journal, Revised(t, [revision |-> Cardinality(Revisions(t)) + 1,
                                                      content |-> c]))
        BY <2>2 DEF Commit
      <3>2. Cardinality(Revisions(t)) + 1 \in Nat
        <4>1. Revisions(t) \in SUBSET (1..Len(journal)) /\ Len(journal) \in Nat
          BY <1>1 DEF Revisions, Places
        <4>2. IsFiniteSet(1..Len(journal))
          BY <4>1, FS_Interval
        <4> QED
          BY <4>1, <4>2, FS_Subset, FS_CardinalityType
      <3>3. [revision |-> Cardinality(Revisions(t)) + 1, content |-> c] \in Revision
        BY <3>2 DEF Revision
      <3> QED
        BY <3>1, <3>3 DEF Entry
    <2> QED
      BY <2>1, <2>2
  <1> DEFINE n == Len(journal)
  <1>3. /\ journal \in Seq(Entry) /\ journal' \in Seq(Entry)
        /\ n \in Nat /\ Len(journal') = n + 1
        /\ \A i \in 1..n : journal'[i] = journal[i]
    BY <1>1, <1>2 DEF Places
  <1>4. next = end + 1 /\ end \in 0..n /\ pending = <<>> /\ next - 1 \in 0..n /\ cursor \in 0..n
    BY <1>1, <1>3 DEF Places, Idle
  <1>5. PICK j, k : j = journal /\ k = journal'
    OBVIOUS
  <1>6. \A m \in 0..n : Reported(j, m) = Reported(k, m) /\ \A t : LastPlan(j, t, m) = LastPlan(k, t, m)
    BY <1>3, <1>5, ReportedSame, LastPlanSame
  <1>7. Places'
    BY <1>1, <1>3, <1>4 DEF Places
  <1>8. ASSUME failed' = "no" PROVE Working'
    <2>1. Working /\ failed = "no"
      BY <1>1, <1>8 DEF JournalInv
    <2>2. written' = Reported(k, next - 1)
      BY <1>1, <1>4, <1>5, <1>6, <2>1 DEF Working
    <2>3. plans' = [t \in Task |-> LastPlan(k, t, next - 1)]
      BY <1>1, <1>4, <1>5, <1>6, <2>1 DEF Working, LastPlans
    <2> QED
      BY <1>1, <1>4, <1>5, <2>1, <2>2, <2>3 DEF Working, LastPlans
  <1>9. ASSUME failed' = "yes" PROVE Stopped'
    <2>1. Stopped /\ failed = "yes"
      BY <1>1, <1>9 DEF JournalInv
    <2>2. PICK rest \in Seq(Line) : written \o rest = Reported(k, n)
      BY <1>3, <1>5, <1>6, <2>1 DEF Stopped
    <2>3. PICK more \in Seq(Line) : Reported(k, n) \o more = Reported(k, n + 1)
      <3>1. k \in Seq(Entry) /\ n \in Nat /\ n + 1 \in n..Len(k)
        BY <1>3, <1>5
      <3> HIDE DEF n
      <3> QED
        BY <3>1, ReportedGrows
    <2>4. (written \o rest) \o more = written \o (rest \o more) /\ rest \o more \in Seq(Line)
      <3>1. written \in Seq(Line)
        BY <1>1 DEF Places
      <3> QED
        BY <3>1, ConcatAssociative, ConcatProperties
    <2>5. written \o (rest \o more) = Reported(k, n + 1)
      BY <2>2, <2>3, <2>4
    <2>6. Idle' /\ (cursor < Len(journal))'
      BY <1>1, <1>3, <1>4 DEF Idle
    <2> QED
      BY <1>1, <1>3, <1>5, <2>4, <2>5, <2>6 DEF Stopped
  <1> QED
    BY <1>7, <1>8, <1>9 DEF JournalInv

LEMMA DrainKeeps ==
    ASSUME JournalInv, Drain
    PROVE  JournalInv'
  <1>1. Places /\ Working /\ failed = "no" /\ UNCHANGED <<journal, cursor, plans, failed, pending, written>>
    BY DEF JournalInv, Drain
  <1>2. /\ next > end /\ pending = <<>> /\ cursor < Len(journal)
        /\ next' = cursor + 1 /\ end' = Len(journal) /\ Len(journal) \in Nat
    BY <1>1 DEF Drain, Idle, Places
  <1>3. next' = next /\ cursor = end /\ next = end + 1
    BY <1>1, <1>2 DEF Working, Places
  <1>4. Places'
    BY <1>1, <1>2, <1>3 DEF Places
  <1>5. (written = Reported(journal, next - 1) /\ plans = LastPlans(next - 1))'
    BY <1>1, <1>2, <1>3 DEF Working, LastPlans
  <1>6. Working'
    <2>1. (cursor < next)' /\ ~ (next > end)' /\ pending' = <<>>
      BY <1>1, <1>2, <1>3, <1>4 DEF Places
    <2> QED
      BY <1>5, <2>1 DEF Working
  <1> QED
    BY <1>1, <1>4, <1>6 DEF JournalInv

LEMMA WriteFailsKeeps ==
    ASSUME JournalInv, WriteFails
    PROVE  JournalInv'
  <1>1. /\ Places /\ UNCHANGED <<journal, cursor, plans, end, written>>
        /\ pending # <<>> /\ failed' = "yes" /\ pending' = <<>> /\ next' = end + 1
    BY DEF JournalInv, WriteFails
  <1>2. failed = "no" /\ Working
    BY <1>1 DEF JournalInv, Stopped, Places, Idle
  <1>3. Places'
    BY <1>1, EmptySeq DEF Places
  <1>4. next <= end /\ end = Len(journal) /\ next \in Nat /\ Len(journal) \in Nat
    BY <1>1 DEF Places
  <1>5. cursor < Len(journal)
    BY <1>1, <1>2, <1>4 DEF Working, Places
  <1>6. PICK rest \in Seq(Line) : Reported(journal, next) \o rest = Reported(journal, Len(journal))
    <2>1. journal \in Seq(Entry) /\ Len(journal) \in next..Len(journal)
      BY <1>1, <1>4 DEF Places
    <2> QED
      BY <1>4, <2>1, ReportedGrows
  <1>7. written \o (pending \o rest) = Reported(journal, Len(journal)) /\ pending \o rest \in Seq(Line)
    <2>1. written \in Seq(Line) /\ pending \in Seq(Line) /\ written \o pending = Reported(journal, next)
      BY <1>1, <1>2 DEF Places, Working
    <2>2. (written \o pending) \o rest = written \o (pending \o rest)
      <3>1. written \in Seq(Line) /\ pending \in Seq(Line) /\ rest \in Seq(Line)
        BY <1>6, <2>1
      <3> QED
        BY <3>1, ConcatAssociative
    <2> QED
      BY <1>6, <2>1, <2>2, ConcatProperties
  <1>8. Stopped'
    <2>1. Idle' /\ (cursor < Len(journal))'
      BY <1>1, <1>4, <1>5 DEF Idle
    <2>2. \E r \in Seq(Line) : written \o r = Reported(journal, Len(journal))
      BY <1>7
    <2>3. (\E r \in Seq(Line) : written \o r = Reported(journal, Len(journal)))'
      BY <1>1, <2>2
    <2> QED
      BY <2>1, <2>3 DEF Stopped
  <1> QED
    BY <1>1, <1>3, <1>8 DEF JournalInv

\* The last plan up to an entry is the entry's own, or the one before it.
LEMMA LastPlanNext ==
    ASSUME NEW j \in Seq(Entry), NEW i \in 1..Len(j), NEW t
    PROVE  LastPlan(j, t, i) = IF j[i].kind = "revised" /\ j[i].task = t
                               THEN j[i].plan ELSE LastPlan(j, t, i - 1)
  <1>1. CASE j[i].kind = "revised" /\ j[i].task = t
    <2> DEFINE T == UpTo(j, t, i)
    <2>1. i \in T /\ \A k \in T : k \in Nat /\ k <= i
      BY <1>1 DEF UpTo, RevisionsOf
    <2> HIDE DEF T
    <2>2. LastOf(T) = i
      <3>1. \E x \in T : \A k \in T : k <= x
        BY <2>1
      <3>2. LastOf(T) \in T /\ \A k \in T : k <= LastOf(T)
        BY <3>1 DEF LastOf
      <3>3. LastOf(T) <= i /\ i <= LastOf(T) /\ LastOf(T) \in Nat /\ i \in Nat
        BY <2>1, <3>2
      <3> QED
        BY <3>3
    <2> QED
      BY <1>1, <2>1, <2>2 DEF LastPlan, T
  <1>2. CASE ~ (j[i].kind = "revised" /\ j[i].task = t)
    <2>1. UpTo(j, t, i) = UpTo(j, t, i - 1)
      BY <1>2 DEF UpTo, RevisionsOf
    <2> QED
      BY <1>2, <2>1 DEF LastPlan
  <1> QED
    BY <1>1, <1>2

LEMMA ProcessKeeps ==
    ASSUME JournalInv, Process
    PROVE  JournalInv'
  <1> DEFINE entry == journal[next]
             lines == Lines(entry, IF entry.kind = "revised" THEN plans[entry.task] ELSE NoPlan)
  <1>1. /\ Places /\ next <= end /\ pending = <<>> /\ UNCHANGED <<journal, failed, end, written>>
        /\ plans' = IF entry.kind = "revised" THEN [plans EXCEPT ![entry.task] = entry.plan]
                                              ELSE plans
        /\ pending' = lines
        /\ lines = <<>> => Advance(entry) /\ next' = next + 1
        /\ lines # <<>> => UNCHANGED <<cursor, next>>
    BY DEF JournalInv, Process
  <1>2. failed = "no" /\ Working
    BY <1>1 DEF JournalInv, Stopped, Places, Idle
  <1>3. /\ journal \in Seq(Entry) /\ next \in 1..Len(journal) /\ next - 1 \in Nat
        /\ next - 1 < Len(journal) /\ (next - 1) + 1 = next /\ end = Len(journal)
    BY <1>1 DEF Places
  <1>4. written = Reported(journal, next - 1) /\ plans = LastPlans(next - 1)
    BY <1>1, <1>2 DEF Working
  <1>5. entry.kind = "revised" => entry.task \in Task
    <2>1. entry \in Entry
      BY <1>3
    <2>2. entry \in Others => entry.kind # "revised"
      BY DEF Others
    <2>3. \A t \in Task, p \in Revision : entry = Revised(t, p) => entry.task = t
      BY DEF Revised
    <2> HIDE DEF entry
    <2> QED
      BY <2>1, <2>2, <2>3 DEF Entry
  <1>6. lines = LinesAt(journal, next)
    BY <1>4, <1>5 DEF LinesAt, LastPlans
  <1>7. written \o lines = Reported(journal, next) /\ lines \in Seq(Line)
    BY <1>3, <1>4, <1>6, ReportedNext, LinesAtType
  <1>8. plans' = LastPlans(next)
    <2>1. ASSUME NEW t \in Task
          PROVE  LastPlan(journal, t, next) = IF entry.kind = "revised" /\ entry.task = t
                                              THEN entry.plan ELSE LastPlan(journal, t, next - 1)
      BY <1>3, LastPlanNext
    <2> HIDE DEF entry
    <2> QED
      BY <1>1, <1>4, <1>5, <2>1 DEF LastPlans
  <1> HIDE DEF lines
  <1>9. CASE lines = <<>>
    <2>1. /\ next' = next + 1 /\ pending' = <<>> /\ cursor' \in {cursor, next}
          /\ next = end => cursor' = next
      BY <1>1, <1>9 DEF Advance
    <2>2. Places'
      BY <1>1, <1>2, <1>3, <2>1, EmptySeq DEF Places
    <2>3. (cursor < next)' /\ (next > end => cursor = end)' /\ next' - 1 = next
      BY <1>1, <1>2, <1>3, <2>1 DEF Places, Working
    <2>4. written' = Reported(journal, next)
      BY <1>1, <1>7, <1>9, ConcatEmptySeq DEF Places
    <2>5. (written = Reported(journal, next - 1) /\ plans = LastPlans(next - 1))'
      BY <1>1, <1>8, <2>3, <2>4 DEF LastPlans
    <2>6. Working'
      BY <2>1, <2>3, <2>5 DEF Working
    <2> QED
      BY <1>1, <1>2, <2>2, <2>6 DEF JournalInv
  <1>10. CASE lines # <<>>
    <2>1. next' = next /\ cursor' = cursor /\ pending' # <<>>
      BY <1>1, <1>10
    <2>2. Places'
      BY <1>1, <1>3, <1>7, <2>1 DEF Places
    <2>3. (cursor < next)' /\ ~ (next > end)'
      BY <1>1, <1>2, <1>3, <2>1 DEF Working
    <2>4. (written \o pending = Reported(journal, next) /\ plans = LastPlans(next))'
      BY <1>1, <1>7, <1>8, <2>1 DEF LastPlans
    <2>5. Working'
      BY <2>1, <2>3, <2>4 DEF Working
    <2> QED
      BY <1>1, <1>2, <2>2, <2>5 DEF JournalInv
  <1> QED
    BY <1>9, <1>10

LEMMA HeadMoves ==
    ASSUME NEW S, NEW s \in Seq(S), NEW t \in Seq(S), t # <<>>
    PROVE  /\ Append(s, Head(t)) \in Seq(S) /\ Tail(t) \in Seq(S)
           /\ Append(s, Head(t)) \o Tail(t) = s \o t
           /\ Len(t) = 1 <=> Tail(t) = <<>>
  <1>1. Head(t) \in S /\ Tail(t) \in Seq(S) /\ Len(t) \in Nat \ {0} /\ Len(Tail(t)) = Len(t) - 1
    BY HeadTailProperties, EmptySeq
  <1>2. Append(s, Head(t)) = s \o <<Head(t)>> /\ Append(s, Head(t)) \in Seq(S)
    BY <1>1, AppendIsConcat, AppendProperties
  <1>3. <<Head(t)>> \in Seq(S)
    BY <1>1
  <1>4. <<Head(t)>> \o Tail(t) = t
    <2>1. /\ <<Head(t)>> \o Tail(t) \in Seq(S)
          /\ Len(<<Head(t)>> \o Tail(t)) = Len(t)
      BY <1>1, <1>3, ConcatProperties
    <2>2. \A i \in 1..Len(t) : (<<Head(t)>> \o Tail(t))[i] = t[i]
      BY <1>1, <1>3
    <2> QED
      BY <2>1, <2>2, SeqEqual
  <1>5. (s \o <<Head(t)>>) \o Tail(t) = s \o (<<Head(t)>> \o Tail(t))
    BY <1>1, <1>3, ConcatAssociative
  <1>6. Len(t) = 1 <=> Tail(t) = <<>>
    BY <1>1, EmptySeq
  <1> QED
    BY <1>1, <1>2, <1>4, <1>5, <1>6

LEMMA WriteLineKeeps ==
    ASSUME JournalInv, WriteLine
    PROVE  JournalInv'
  <1>1. /\ Places /\ pending # <<>> /\ UNCHANGED <<journal, plans, failed, end>>
        /\ written' = Append(written, Head(pending)) /\ pending' = Tail(pending)
        /\ Len(pending) = 1 => cursor' = next /\ next' = next + 1
        /\ Len(pending) # 1 => UNCHANGED <<cursor, next>>
    BY DEF JournalInv, WriteLine
  <1>2. failed = "no" /\ Working
    BY <1>1 DEF JournalInv, Stopped, Places, Idle
  <1>3. /\ written' \in Seq(Line) /\ pending' \in Seq(Line)
        /\ written' \o pending' = written \o pending
        /\ Len(pending) = 1 <=> pending' = <<>>
    BY <1>1, HeadMoves DEF Places
  <1>4. /\ written' \o pending' = Reported(journal, next) /\ plans = LastPlans(next)
        /\ cursor < next /\ next <= end /\ end = Len(journal) /\ next \in Nat \ {0}
        /\ end \in Nat
    <2>1. written \o pending = Reported(journal, next) /\ plans = LastPlans(next) /\ cursor < next
      BY <1>1, <1>2 DEF Working
    <2>2. next <= end /\ end = Len(journal) /\ next \in Nat \ {0} /\ end \in Nat
      BY <1>1 DEF Places
    <2> QED
      BY <1>3, <2>1, <2>2
  <1>5. CASE Len(pending) = 1
    <2>1. Places'
      BY <1>1, <1>3, <1>4, <1>5 DEF Places
    <2>2. written' = Reported(journal, next)
      BY <1>3, <1>4, <1>5, ConcatEmptySeq
    <2>3. (cursor < next)' /\ (next > end => cursor = end)' /\ pending' = <<>> /\ next' - 1 = next
      BY <1>1, <1>3, <1>4, <1>5
    <2>4. (written = Reported(journal, next - 1) /\ plans = LastPlans(next - 1))'
      BY <1>1, <1>4, <2>2, <2>3 DEF LastPlans
    <2>5. Working'
      BY <2>3, <2>4 DEF Working
    <2> QED
      BY <1>1, <1>2, <2>1, <2>5 DEF JournalInv
  <1>6. CASE Len(pending) # 1
    <2>1. Places'
      BY <1>1, <1>3, <1>4, <1>6 DEF Places
    <2>2. (cursor < next)' /\ ~ (next > end)' /\ pending' # <<>>
      BY <1>1, <1>3, <1>4, <1>6
    <2>3. (written \o pending = Reported(journal, next) /\ plans = LastPlans(next))'
      BY <1>1, <1>4, <1>6 DEF LastPlans
    <2>4. Working'
      BY <2>2, <2>3 DEF Working
    <2> QED
      BY <1>1, <1>2, <2>1, <2>4 DEF JournalInv
  <1> QED
    BY <1>5, <1>6

LEMMA JournalStep == JournalInv /\ [Next]_vars => JournalInv'
  <1> SUFFICES ASSUME JournalInv, [Next]_vars PROVE JournalInv'
    OBVIOUS
  <1>1. CASE UNCHANGED vars
    BY <1>1 DEF vars, JournalInv, Places, Working, Stopped, Idle, LastPlans
  <1> QED
    BY <1>1, CommitKeeps, DrainKeeps, ProcessKeeps, WriteLineKeeps, WriteFailsKeeps DEF Next

\* However commits and drains alternate and wherever a write fails, the
\* terminal holds the beginning of what one drain of the whole journal would
\* write, and all of it once a drain has succeeded (milestones.go drain): for
\* every set of tasks and plans, and every journal.
THEOREM ReportsJournalHolds == Spec => []ReportsJournal
  <1>1. JournalInv => ReportsJournal
    BY JournalInvReports
  <1> QED
    BY <1>1, JournalStarts, JournalStep, PTL DEF Spec

=============================================================================
