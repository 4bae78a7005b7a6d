-------------------------- MODULE FieldTablesProofs --------------------------
(***************************************************************************)
(* Rules for comparing tables of fields.  The tables are long; the rules   *)
(* take them apart along the operators that they are built from, so that   *)
(* what a table has is found without ever listing its fields.              *)
(***************************************************************************)
EXTENDS FieldTables, SequenceTheorems, TLAPS

\* The first table has every field of the second one.
Covers(t, u) == DOMAIN u \subseteq DOMAIN t

\* A path through structs.
IsPath(f) == \E names : f \in Seq(names)

\* Only the given fields of the table are sent without a check of their width.
CutOnlyAt(t, paths) ==
    \A f \in DOMAIN t : IsPath(f) /\ (t[f] = "cut" => f \in paths)

\* All fields of the table lie at the given paths.
AllWithin(t, paths) ==
    \A f \in DOMAIN t : IsPath(f) /\ Within(f, paths)

\* The operators without infix notation.  The provers expand an operator everywhere
\* or nowhere, and a table written with @@ is too long to be expanded.
LEMMA Merge ==
    ASSUME NEW a, NEW b
    PROVE  a @@ b = [f \in DOMAIN a \cup DOMAIN b |->
                         IF f \in DOMAIN a THEN a[f] ELSE b[f]]
BY DEF @@

LEMMA DomainOfAs ==
    ASSUME NEW class, NEW names
    PROVE  DOMAIN As(class, names) = Paths(names)
BY DEF As, Paths

LEMMA DomainOfIn ==
    ASSUME NEW parent, NEW t
    PROVE  DOMAIN In(parent, t) = Below(parent, DOMAIN t)
BY DEF In, Below

LEMMA DomainOfMerge ==
    ASSUME NEW a, NEW b
    PROVE  DOMAIN (a @@ b) = DOMAIN a \cup DOMAIN b
BY Merge

-----------------------------------------------------------------------------
(* When one table has the fields of another *)

LEMMA HasAs ==
    ASSUME NEW class, NEW names, NEW n \in names
    PROVE  <<n>> \in DOMAIN As(class, names)
BY DomainOfAs DEF Paths

LEMMA HasMerge ==
    ASSUME NEW a, NEW b, NEW f, f \in DOMAIN a \/ f \in DOMAIN b
    PROVE  f \in DOMAIN (a @@ b)
BY DomainOfMerge

LEMMA CoversSelf ==
    ASSUME NEW t
    PROVE  Covers(t, t)
BY DEF Covers

LEMMA CoversAs ==
    ASSUME NEW t, NEW class, NEW names, \A n \in names : <<n>> \in DOMAIN t
    PROVE  Covers(t, As(class, names))
<1>1. Paths(names) \subseteq DOMAIN t
  BY DEF Paths
<1> QED
  BY <1>1, DomainOfAs DEF Covers

LEMMA CoversIn ==
    ASSUME NEW parent, NEW t, NEW u, Covers(t, u)
    PROVE  Covers(In(parent, t), In(parent, u))
<1>1. Below(parent, DOMAIN u) \subseteq Below(parent, DOMAIN t)
  BY DEF Covers, Below
<1> QED
  BY <1>1, DomainOfIn DEF Covers

LEMMA CoversBoth ==
    ASSUME NEW t, NEW a, NEW b, Covers(t, a), Covers(t, b)
    PROVE  Covers(t, a @@ b)
BY DomainOfMerge DEF Covers

LEMMA CoversLeft ==
    ASSUME NEW u, NEW a, NEW b, Covers(a, u) \/ Covers(b, u)
    PROVE  Covers(a @@ b, u)
BY DomainOfMerge DEF Covers

\* Where a field is, if two tables together have all those of a third one.
LEMMA CoveredApart ==
    ASSUME NEW a, NEW b, NEW u, Covers(a @@ b, u), NEW f \in DOMAIN u
    PROVE  f \in DOMAIN a \/ f \in DOMAIN b
<1>1. f \in DOMAIN (a @@ b)
  BY DEF Covers
<1>2. f \in DOMAIN a \cup DOMAIN b
  BY <1>1, DomainOfMerge, Zenon
<1> QED
  BY <1>2

-----------------------------------------------------------------------------
(* Which fields are cut *)

LEMMA OneStep ==
    ASSUME NEW n
    PROVE  /\ IsPath(<<n>>) /\ Len(<<n>>) = 1 /\ <<n>>[1] = n
           /\ \A names : n \in names => <<n>> \in Seq(names)
<1>1. <<n>>[1] = n
  OBVIOUS
<1>2. Len(<<n>>) = 1
  OBVIOUS
<1>3. ASSUME NEW names, n \in names  PROVE <<n>> \in Seq(names)
  BY <1>3
<1>4. <<n>> \in Seq({n})
  BY <1>3
<1> QED
  BY <1>1, <1>2, <1>3, <1>4 DEF IsPath

\* What one step down from a struct leads to.
LEMMA StepDown ==
    ASSUME NEW n, NEW g, IsPath(g)
    PROVE  /\ IsPath(<<n>> \o g)
           /\ Len(g) \in Nat /\ Len(<<n>> \o g) = 1 + Len(g)
           /\ (<<n>> \o g)[1] = n
           /\ \A i \in 1..Len(g) : (<<n>> \o g)[i + 1] = g[i]
<1>1. PICK S : g \in Seq(S)
  BY DEF IsPath
<1> DEFINE T == S \cup {n}
<1>2. g \in Seq(T)
  BY <1>1, SeqMonotonic, Zenon
<1>3. <<n>> \in Seq(T) /\ Len(<<n>>) = 1
  BY OneStep
<1> HIDE DEF T
<1>4. /\ <<n>> \o g \in Seq(T)
      /\ Len(<<n>> \o g) = 1 + Len(g) /\ Len(g) \in Nat
      /\ \A i \in 1..(1 + Len(g)) :
             (<<n>> \o g)[i] = IF i <= 1 THEN <<n>>[i] ELSE g[i - 1]
  BY <1>2, <1>3, ConcatProperties, LenProperties
<1>5. (<<n>> \o g)[1] = n
  <2>1. 1 \in 1..(1 + Len(g))
    BY <1>4
  <2> QED
    BY <1>4, <2>1, OneStep
<1>6. ASSUME NEW i \in 1..Len(g)  PROVE (<<n>> \o g)[i + 1] = g[i]
  <2>1. i + 1 \in 1..(1 + Len(g)) /\ ~(i + 1 <= 1) /\ (i + 1) - 1 = i
    BY <1>4
  <2> QED
    BY <1>4, <2>1
<1>7. IsPath(<<n>> \o g)
  BY <1>4 DEF IsPath
<1> QED
  BY <1>4, <1>5, <1>6, <1>7

LEMMA TailOfStep ==
    ASSUME NEW n, NEW g, IsPath(g)
    PROVE  Tail(<<n>> \o g) = g
<1> DEFINE f == <<n>> \o g
<1>1. /\ IsPath(f) /\ Len(f) = 1 + Len(g) /\ Len(g) \in Nat
      /\ \A i \in 1..Len(g) : f[i + 1] = g[i]
  BY StepDown
<1> HIDE DEF f
<1>2. PICK S : f \in Seq(S)
  BY <1>1 DEF IsPath
<1>3. PICK T : g \in Seq(T)
  BY DEF IsPath
<1>4. f # << >>
  BY <1>1, EmptySeq
<1>5. /\ Tail(f) \in Seq(S) /\ Len(Tail(f)) = Len(f) - 1
      /\ \A i \in 1..Len(Tail(f)) : Tail(f)[i] = f[i + 1]
  BY <1>2, <1>4, HeadTailProperties
<1>6. Tail(f) \in Seq(S \cup T) /\ g \in Seq(S \cup T)
  BY <1>3, <1>5, SeqMonotonic, Zenon
<1>7. Len(Tail(f)) = Len(g)
  BY <1>1, <1>5
<1>8. \A i \in 1..Len(Tail(f)) : Tail(f)[i] = g[i]
  BY <1>1, <1>5, <1>7
<1>9. Tail(f) = g
  BY <1>6, <1>7, <1>8, SeqEqual
<1> QED
  BY <1>9 DEF f

LEMMA CutAs ==
    ASSUME NEW class, NEW names, NEW paths,
           class # "cut" \/ Paths(names) \subseteq paths
    PROVE  CutOnlyAt(As(class, names), paths)
<1>1. \A f \in Paths(names) : IsPath(f)
  BY OneStep DEF Paths
<1>2. ASSUME NEW f \in Paths(names)  PROVE As(class, names)[f] = class
  BY <1>2 DEF As, Paths
<1> QED
  BY <1>1, <1>2, DomainOfAs DEF CutOnlyAt

LEMMA CutIn ==
    ASSUME NEW parent, NEW t, NEW paths, CutOnlyAt(t, {})
    PROVE  CutOnlyAt(In(parent, t), paths)
<1>1. ASSUME NEW g \in DOMAIN t
      PROVE  /\ IsPath(<<parent>> \o g)
             /\ In(parent, t)[<<parent>> \o g] # "cut"
  <2>1. IsPath(g) /\ t[g] # "cut"
    BY DEF CutOnlyAt
  <2>2. IsPath(<<parent>> \o g) /\ Tail(<<parent>> \o g) = g
    BY <2>1, StepDown, TailOfStep
  <2>3. In(parent, t)[<<parent>> \o g] = t[Tail(<<parent>> \o g)]
    BY DEF In
  <2> QED
    BY <2>1, <2>2, <2>3
<1>2. \A f \in Below(parent, DOMAIN t) : \E g \in DOMAIN t : f = <<parent>> \o g
  BY DEF Below
<1> QED
  BY <1>1, <1>2, DomainOfIn DEF CutOnlyAt

LEMMA CutInAt ==
    ASSUME NEW parent, NEW t, NEW paths, CutOnlyAt(t, paths)
    PROVE  CutOnlyAt(In(parent, t), Below(parent, paths))
<1>1. ASSUME NEW g \in DOMAIN t, In(parent, t)[<<parent>> \o g] = "cut"
      PROVE  <<parent>> \o g \in Below(parent, paths)
  <2>1. IsPath(g) /\ (t[g] = "cut" => g \in paths)
    BY DEF CutOnlyAt
  <2>2. Tail(<<parent>> \o g) = g
    BY <2>1, TailOfStep
  <2>3. In(parent, t)[<<parent>> \o g] = t[Tail(<<parent>> \o g)]
    BY DEF In
  <2>4. g \in paths
    BY <1>1, <2>1, <2>2, <2>3
  <2> QED
    BY <2>4 DEF Below
<1>2. \A f \in Below(parent, DOMAIN t) : \E g \in DOMAIN t : f = <<parent>> \o g
  BY DEF Below
<1>3. \A g \in DOMAIN t : IsPath(<<parent>> \o g)
  BY StepDown DEF CutOnlyAt
<1> QED
  BY <1>1, <1>2, <1>3, DomainOfIn DEF CutOnlyAt

LEMMA CutMerge ==
    ASSUME NEW a, NEW b, NEW paths,
           CutOnlyAt(a, paths), CutOnlyAt(b, paths)
    PROVE  CutOnlyAt(a @@ b, paths)
BY Merge DEF CutOnlyAt

-----------------------------------------------------------------------------
(* Sets of paths *)

LEMMA HasPath ==
    ASSUME NEW names, NEW n \in names
    PROVE  <<n>> \in Paths(names)
BY DEF Paths

\* Sets of two paths, and what is below a union, taken apart.
LEMMA PathsApart ==
    ASSUME NEW a, NEW b
    PROVE  Paths({a, b}) \subseteq Paths({a}) \cup Paths({b})
BY DEF Paths

LEMMA BelowApart ==
    ASSUME NEW parent, NEW P, NEW A, NEW B, P \subseteq A \cup B
    PROVE  Below(parent, P) \subseteq Below(parent, A) \cup Below(parent, B)
BY DEF Below

-----------------------------------------------------------------------------
(* Which fields lie at a path *)

\* A path leads to itself, and what is inside a struct lies at the struct.
LEMMA WithinSelf ==
    ASSUME NEW f, IsPath(f), NEW paths, f \in paths
    PROVE  Within(f, paths)
<1>1. Len(f) <= Len(f) /\ SubSeq(f, 1, Len(f)) = f
  BY SubSeqFull, LenProperties DEF IsPath
<1> QED
  BY <1>1 DEF Within

LEMMA WithinParent ==
    ASSUME NEW names, NEW n \in names, NEW g, IsPath(g)
    PROVE  Within(<<n>> \o g, Paths(names))
<1> DEFINE f == <<n>> \o g
<1>1. IsPath(f) /\ 1 <= Len(f) /\ Len(f) \in Nat /\ f[1] = n
  BY StepDown
<1> HIDE DEF f
<1>2. PICK S : f \in Seq(S)
  BY <1>1 DEF IsPath
<1>3. SubSeq(f, 1, 1) = <<n>>
  <2>1. /\ SubSeq(f, 1, 1) \in Seq(S) /\ Len(SubSeq(f, 1, 1)) = 1
        /\ \A i \in 1..1 : SubSeq(f, 1, 1)[i] = f[1 + i - 1]
    BY <1>1, <1>2, SubSeqProperties
  <2>2. ASSUME NEW i \in 1..1  PROVE SubSeq(f, 1, 1)[i] = <<n>>[i]
    <3>1. i = 1 /\ 1 + i - 1 = 1
      OBVIOUS
    <3>2. SubSeq(f, 1, 1)[i] = f[1]
      BY <2>1, <3>1
    <3> QED
      BY <1>1, <3>1, <3>2, OneStep
  <2>3. n \in S
    BY <1>1, <1>2, ElementOfSeq
  <2>4. <<n>> \in Seq(S)
    BY <2>3, OneStep
  <2> DEFINE top == SubSeq(f, 1, 1)
  <2>5. /\ top \in Seq(S) /\ Len(top) = Len(<<n>>)
        /\ \A i \in 1..Len(top) : top[i] = <<n>>[i]
    BY <2>1, <2>2, OneStep
  <2> HIDE DEF top
  <2>6. top = <<n>>
    BY <2>4, <2>5, SeqEqual
  <2> QED
    BY <2>6 DEF top
<1>4. <<n>> \in Paths(names) /\ Len(<<n>>) <= Len(f)
  BY <1>1, OneStep DEF Paths
<1>5. Within(f, Paths(names))
  BY <1>3, <1>4, OneStep DEF Within
<1> QED
  BY <1>5 DEF f

LEMMA AllWithinAs ==
    ASSUME NEW class, NEW names, NEW paths, \A n \in names : <<n>> \in paths
    PROVE  AllWithin(As(class, names), paths)
<1>1. \A f \in Paths(names) : IsPath(f) /\ f \in paths
  BY OneStep DEF Paths
<1> QED
  BY <1>1, DomainOfAs, WithinSelf DEF AllWithin

LEMMA AllWithinIn ==
    ASSUME NEW names, NEW n \in names, NEW t, CutOnlyAt(t, {})
    PROVE  AllWithin(In(n, t), Paths(names))
<1>1. ASSUME NEW g \in DOMAIN t
      PROVE  IsPath(<<n>> \o g) /\ Within(<<n>> \o g, Paths(names))
  <2>1. IsPath(g)
    BY DEF CutOnlyAt
  <2> QED
    BY <2>1, StepDown, WithinParent
<1>2. \A f \in Below(n, DOMAIN t) : \E g \in DOMAIN t : f = <<n>> \o g
  BY DEF Below
<1> QED
  BY <1>1, <1>2, DomainOfIn DEF AllWithin

LEMMA AllWithinMerge ==
    ASSUME NEW a, NEW b, NEW paths, AllWithin(a, paths), AllWithin(b, paths)
    PROVE  AllWithin(a @@ b, paths)
BY DomainOfMerge DEF AllWithin

-----------------------------------------------------------------------------
(* Structs in parts, and fields deep inside structs *)

LEMMA CoversThrough ==
    ASSUME NEW t, NEW u, NEW v, Covers(t, u), Covers(u, v)
    PROVE  Covers(t, v)
BY DEF Covers

\* A struct that several tables have a part of.
LEMMA CoversParts ==
    ASSUME NEW n, NEW t, NEW a, NEW b, Covers(t, In(n, a)), Covers(t, In(n, b))
    PROVE  Covers(t, In(n, a @@ b))
<1>1. /\ Below(n, DOMAIN a) \subseteq DOMAIN t
      /\ Below(n, DOMAIN b) \subseteq DOMAIN t
  BY DomainOfIn DEF Covers
<1>2. DOMAIN (a @@ b) = DOMAIN a \cup DOMAIN b
  BY DomainOfMerge, Zenon
<1>3. Below(n, DOMAIN (a @@ b)) \subseteq DOMAIN t
  BY <1>1, <1>2 DEF Below
<1> QED
  BY <1>3, DomainOfIn DEF Covers

\* All of them are paths that lead somewhere.
ArePaths(paths) == \A p \in paths : IsPath(p) /\ 1 <= Len(p)

LEMMA ArePathsOf ==
    /\ \A names : ArePaths(Paths(names))
    /\ \A n, paths : ArePaths(paths) => ArePaths(Below(n, paths))
    /\ \A a, b : ArePaths(a) /\ ArePaths(b) => ArePaths(a \cup b)
<1>1. ASSUME NEW names  PROVE ArePaths(Paths(names))
  BY OneStep DEF ArePaths, Paths
<1>2. ASSUME NEW n, NEW paths, ArePaths(paths)  PROVE ArePaths(Below(n, paths))
  <2>1. ASSUME NEW g \in paths  PROVE IsPath(<<n>> \o g) /\ 1 <= Len(<<n>> \o g)
    BY <1>2, StepDown DEF ArePaths
  <2> QED
    BY <2>1 DEF ArePaths, Below
<1>3. ASSUME NEW a, NEW b, ArePaths(a), ArePaths(b)  PROVE ArePaths(a \cup b)
  BY <1>3 DEF ArePaths
<1> QED
  BY <1>1, <1>2, <1>3

\* Whether a path begins with another one is decided below the struct they share.
LEMMA PrefixBelow ==
    ASSUME NEW n, NEW g, IsPath(g), NEW p, IsPath(p), Len(p) <= Len(g)
    PROVE  SubSeq(<<n>> \o g, 1, Len(<<n>> \o p)) = <<n>> \o p
             <=> SubSeq(g, 1, Len(p)) = p
<1> DEFINE f == <<n>> \o g
           q == <<n>> \o p
<1>1. /\ IsPath(f) /\ Len(g) \in Nat /\ Len(f) = 1 + Len(g) /\ f[1] = n
      /\ \A i \in 1..Len(g) : f[i + 1] = g[i]
  BY StepDown
<1>2. /\ IsPath(q) /\ Len(p) \in Nat /\ Len(q) = 1 + Len(p) /\ q[1] = n
      /\ \A i \in 1..Len(p) : q[i + 1] = p[i]
  BY StepDown
<1> HIDE DEF f, q
<1>3. PICK A : f \in Seq(A)
  BY <1>1 DEF IsPath
<1>4. PICK B : q \in Seq(B)
  BY <1>2 DEF IsPath
<1>5. PICK D : g \in Seq(D)
  BY DEF IsPath
<1>6. PICK E : p \in Seq(E)
  BY DEF IsPath
<1> DEFINE fq == SubSeq(f, 1, Len(q))
           gp == SubSeq(g, 1, Len(p))
<1>7. /\ fq \in Seq(A) /\ Len(fq) = Len(q)
      /\ \A i \in 1..Len(q) : fq[i] = f[i]
  <2>1. Len(q) <= Len(f) /\ Len(q) \in Nat
    BY <1>1, <1>2
  <2>2. /\ fq \in Seq(A) /\ Len(fq) = Len(q)
        /\ \A i \in 1..Len(q) : fq[i] = f[1 + i - 1]
    <3>1. \A i \in 1..Len(q) : i \in 1..Len(f)
      BY <1>1, <2>1
    <3>2. 1 \in 1..Len(f) + 1 /\ Len(q) \in 0..Len(f)
      BY <1>1, <2>1
    <3> QED
      BY <1>1, <1>2, <1>3, <2>1, <3>1, <3>2, SubSeqProperties
  <2>3. \A i \in 1..Len(q) : 1 + i - 1 = i
    BY <2>1
  <2> QED
    BY <2>2, <2>3
<1>8. /\ gp \in Seq(D) /\ Len(gp) = Len(p)
      /\ \A i \in 1..Len(p) : gp[i] = g[i]
  <2>1. \A i \in 1..Len(p) : i \in 1..Len(g)
    BY <1>1, <1>2
  <2>2. 1 \in 1..Len(g) + 1 /\ Len(p) \in 0..Len(g)
    BY <1>1, <1>2
  <2>3. /\ gp \in Seq(D) /\ Len(gp) = Len(p)
        /\ \A i \in 1..Len(p) : gp[i] = g[1 + i - 1]
    BY <1>1, <1>2, <1>5, <2>1, <2>2, SubSeqProperties
  <2>4. \A i \in 1..Len(p) : 1 + i - 1 = i
    BY <1>2
  <2> QED
    BY <2>3, <2>4
<1> HIDE DEF fq, gp
<1>9. ASSUME fq = q  PROVE gp = p
  <2>1. ASSUME NEW i \in 1..Len(p)  PROVE gp[i] = p[i]
    <3>1. i + 1 \in 1..Len(q) /\ i \in 1..Len(g)
      BY <1>1, <1>2
    <3>2. fq[i + 1] = f[i + 1] /\ f[i + 1] = g[i] /\ q[i + 1] = p[i]
      BY <1>1, <1>2, <1>7, <3>1
    <3> QED
      BY <1>8, <1>9, <3>2
  <2>2. gp \in Seq(D \cup E) /\ p \in Seq(D \cup E)
    BY <1>6, <1>8, SeqMonotonic, Zenon
  <2> QED
    BY <1>8, <2>1, <2>2, SeqEqual
<1>10. ASSUME gp = p  PROVE fq = q
  <2>1. ASSUME NEW i \in 1..Len(q)  PROVE fq[i] = q[i]
    <3>1. CASE i = 1
      BY <1>1, <1>2, <1>7, <3>1
    <3>2. CASE i # 1
      <4> DEFINE j == i - 1
      <4>1. j \in 1..Len(p) /\ j \in 1..Len(g) /\ i = j + 1
        BY <1>1, <1>2, <3>2
      <4> HIDE DEF j
      <4>2. f[j + 1] = g[j] /\ q[j + 1] = p[j] /\ gp[j] = g[j]
        BY <1>1, <1>2, <1>8, <4>1
      <4> QED
        BY <1>7, <1>10, <4>1, <4>2
    <3> QED
      BY <3>1, <3>2
  <2>2. fq \in Seq(A \cup B) /\ q \in Seq(A \cup B)
    BY <1>4, <1>7, SeqMonotonic, Zenon
  <2> QED
    BY <1>7, <2>1, <2>2, SeqEqual
<1> QED
  BY <1>9, <1>10 DEF fq, gp, f, q

LEMMA WithinBelow ==
    ASSUME NEW n, NEW g, IsPath(g), NEW paths, ArePaths(paths), Within(g, paths)
    PROVE  Within(<<n>> \o g, Below(n, paths))
<1>1. PICK p \in paths : Len(p) <= Len(g) /\ SubSeq(g, 1, Len(p)) = p
  BY DEF Within
<1>2. IsPath(p)
  BY DEF ArePaths
<1>3. Len(<<n>> \o p) <= Len(<<n>> \o g)
  BY <1>1, <1>2, StepDown
<1>4. SubSeq(<<n>> \o g, 1, Len(<<n>> \o p)) = <<n>> \o p
  BY <1>1, <1>2, PrefixBelow
<1>5. <<n>> \o p \in Below(n, paths)
  BY DEF Below
<1> QED
  BY <1>3, <1>4, <1>5 DEF Within

LEMMA AllWithinBelow ==
    ASSUME NEW n, NEW t, NEW paths, ArePaths(paths), AllWithin(t, paths)
    PROVE  AllWithin(In(n, t), Below(n, paths))
<1>1. ASSUME NEW g \in DOMAIN t
      PROVE  IsPath(<<n>> \o g) /\ Within(<<n>> \o g, Below(n, paths))
  BY StepDown, WithinBelow DEF AllWithin
<1>2. \A f \in Below(n, DOMAIN t) : \E g \in DOMAIN t : f = <<n>> \o g
  BY DEF Below
<1> QED
  BY <1>1, <1>2, DomainOfIn DEF AllWithin

LEMMA AllWithinMore ==
    ASSUME NEW t, NEW a, NEW b, AllWithin(t, a) \/ AllWithin(t, b)
    PROVE  AllWithin(t, a \cup b)
BY DEF AllWithin, Within

\* No path leads to a struct that the field lies in.
Bypassed(f, paths) ==
    \A p \in paths : Len(p) < Len(f) => SubSeq(f, 1, Len(p)) # p

LEMMA BypassedTop ==
    ASSUME NEW n, NEW paths, ArePaths(paths)
    PROVE  Bypassed(<<n>>, paths)
<1>1. ASSUME NEW p \in paths  PROVE ~(Len(p) < Len(<<n>>))
  <2>1. 1 <= Len(p) /\ Len(p) \in Nat /\ Len(<<n>>) = 1
    BY OneStep, StepDown DEF ArePaths
  <2> QED
    BY <2>1
<1> QED
  BY <1>1 DEF Bypassed

LEMMA BypassedFirst ==
    ASSUME NEW n, NEW g, IsPath(g), NEW paths, ArePaths(paths),
           \A p \in paths : p[1] # n
    PROVE  Bypassed(<<n>> \o g, paths)
<1> DEFINE f == <<n>> \o g
<1>1. IsPath(f) /\ f[1] = n /\ Len(f) \in Nat /\ 1 <= Len(f)
  BY StepDown
<1> HIDE DEF f
<1>2. PICK S : f \in Seq(S)
  BY <1>1 DEF IsPath
<1>3. ASSUME NEW p \in paths, Len(p) < Len(f), SubSeq(f, 1, Len(p)) = p
      PROVE  FALSE
  <2>1. 1 <= Len(p) /\ Len(p) \in Nat
    BY StepDown DEF ArePaths
  <2>2. 1 \in 1..Len(p) /\ Len(p) \in 0..Len(f) /\ 1 \in 1..Len(f) + 1
    BY <1>1, <1>3, <2>1
  <2>3. SubSeq(f, 1, Len(p))[1] = f[1 + 1 - 1]
    <3>1. \A i \in 1..Len(p) : i \in 1..Len(f)
      BY <1>1, <1>3, <2>1
    <3> QED
      BY <1>2, <2>1, <2>2, <3>1, SubSeqProperties
  <2>4. f[1 + 1 - 1] = f[1]
    OBVIOUS
  <2> QED
    BY <1>1, <1>3, <2>3, <2>4
<1>4. Bypassed(f, paths)
  BY <1>3 DEF Bypassed
<1> QED
  BY <1>4 DEF f

LEMMA BypassedPaths ==
    ASSUME NEW n, NEW g, IsPath(g), NEW names, n \notin names
    PROVE  Bypassed(<<n>> \o g, Paths(names))
<1>1. ArePaths(Paths(names))
  BY ArePathsOf
<1>2. \A p \in Paths(names) : p[1] # n
  BY OneStep DEF Paths
<1> QED
  BY <1>1, <1>2, BypassedFirst

LEMMA BypassedOther ==
    ASSUME NEW n, NEW g, IsPath(g), NEW m, m # n, NEW paths, ArePaths(paths)
    PROVE  Bypassed(<<n>> \o g, Below(m, paths))
<1>1. ArePaths(Below(m, paths))
  BY ArePathsOf
<1>2. ASSUME NEW q \in paths  PROVE (<<m>> \o q)[1] = m
  BY StepDown DEF ArePaths
<1>3. \A p \in Below(m, paths) : p[1] # n
  BY <1>2 DEF Below
<1> QED
  BY <1>1, <1>3, BypassedFirst

LEMMA BypassedBelow ==
    ASSUME NEW n, NEW g, IsPath(g), NEW paths, ArePaths(paths),
           Bypassed(g, paths)
    PROVE  Bypassed(<<n>> \o g, Below(n, paths))
<1>1. ASSUME NEW p \in paths, Len(<<n>> \o p) < Len(<<n>> \o g)
      PROVE  SubSeq(<<n>> \o g, 1, Len(<<n>> \o p)) # <<n>> \o p
  <2>1. IsPath(p)
    BY DEF ArePaths
  <2>2. Len(p) < Len(g) /\ Len(p) <= Len(g)
    BY <1>1, <2>1, StepDown
  <2>3. SubSeq(g, 1, Len(p)) # p
    BY <2>2 DEF Bypassed
  <2> QED
    BY <2>1, <2>2, <2>3, PrefixBelow
<1>2. \A f \in Below(n, paths) : \E p \in paths : f = <<n>> \o p
  BY DEF Below
<1> QED
  BY <1>1, <1>2 DEF Bypassed

LEMMA BypassedBoth ==
    ASSUME NEW f, NEW a, NEW b, Bypassed(f, a), Bypassed(f, b)
    PROVE  Bypassed(f, a \cup b)
BY DEF Bypassed

\* The first step of what lies in fields at the top of the spec.
LEMMA WithinTop ==
    ASSUME NEW f, IsPath(f), NEW names, Within(f, Paths(names))
    PROVE  f[1] \in names
<1>1. PICK n \in names :
          Len(<<n>>) <= Len(f) /\ SubSeq(f, 1, Len(<<n>>)) = <<n>>
  BY DEF Within, Paths
<1>2. Len(<<n>>) = 1 /\ <<n>>[1] = n /\ Len(f) \in Nat
  BY OneStep, LenProperties DEF IsPath
<1>3. SubSeq(f, 1, 1)[1] = f[1]
  BY <1>1, <1>2, SubSeqProperties DEF IsPath
<1> QED
  BY <1>1, <1>2, <1>3

LEMMA FirstOfBelow ==
    ASSUME NEW n, NEW paths, ArePaths(paths), NEW f \in Below(n, paths)
    PROVE  IsPath(f) /\ f[1] = n
<1>1. PICK g \in paths : f = <<n>> \o g
  BY DEF Below
<1>2. IsPath(g)
  BY DEF ArePaths
<1> QED
  BY <1>1, <1>2, StepDown

==============================================================================
