--------------------------- MODULE SettingsProofs ---------------------------
(***************************************************************************)
(* What admins may rely on however their requests overlap, proved for      *)
(* every value of the constants, every number of sessions included.        *)
(*                                                                         *)
(* A request writes against rows (d) it did not read: it read v, and other *)
(* requests have committed since.  All it may count on is Later(v, d):     *)
(* tables only grow, and of the rows it read neither the name, version and *)
(* shape of a template, nor the project of a unit, nor a config or rater   *)
(* have changed.  Every operation keeps the rows whole under that          *)
(* assumption alone, and what it leaves is again Later; and every request  *)
(* but an update leaves the units and the bindings of projects as they     *)
(* were (Untouched).  The properties of requests one after the other are   *)
(* the case v = d.                                                         *)
(***************************************************************************)
EXTENDS Settings, SequenceTheorems, FiniteSetTheorems, WellFoundedInduction, TLAPS

SameTemplate(row, now) ==
  /\ now.name = row.name /\ now.version = row.version /\ now.kind = row.kind /\ now.shape = row.shape
  /\ now.live => row.live

Later(v, d) ==
  /\ Len(v.templates) <= Len(d.templates) /\ \A t \in DOMAIN v.templates : SameTemplate(v.templates[t], d.templates[t])
  /\ Len(v.projects) <= Len(d.projects)
  /\ Len(v.units) <= Len(d.units) /\ \A u \in DOMAIN v.units : d.units[u].project = v.units[u].project
  /\ Len(v.configs) <= Len(d.configs) /\ \A c \in DOMAIN v.configs : d.configs[c] = v.configs[c]
  /\ Len(v.raters) <= Len(d.raters) /\ \A a \in DOMAIN v.raters : d.raters[a] = v.raters[a]

\* Sound and Enlisted, row by row.
Bound(d, row) == row.template \in LiveTemplates(d) /\ row.version = d.templates[row.template].version
Staffed(d, row) ==
  \A i \in DOMAIN row.judges :
    /\ row.judges[i].rater \in DOMAIN d.raters /\ d.raters[row.judges[i].rater] = row.judges[i].config
    /\ \A j \in DOMAIN row.judges : row.judges[j].config = row.judges[i].config => i = j
Numbered(d, row) ==
  /\ row.project \in DOMAIN d.projects /\ IsFiniteSet(row.slots)
  /\ \A s \in row.slots : s.id <= row.next /\ \A t \in row.slots : s.id = t.id => s = t
Whole(d) ==
  /\ d \in Databases
  /\ \A p \in DOMAIN d.projects : Bound(d, d.projects[p]) /\ Staffed(d, d.projects[p])
  /\ \A u \in DOMAIN d.units : Numbered(d, d.units[u])
  /\ \A a \in DOMAIN d.raters : d.raters[a] \in DOMAIN d.configs

\* No unit has changed, and no project is bound to another template.
Untouched(d, e) ==
  /\ \A u \in DOMAIN d.units : e.units[u] = d.units[u]
  /\ \A p \in DOMAIN d.projects : e.projects[p].template = d.projects[p].template
\* Of the units of p alone slots have come and open slots have gone.
Spared(d, e, p) ==
  \A u \in DOMAIN d.units :
    /\ \A s \in d.units[u].slots : s.filled => s \in e.units[u].slots
    /\ d.units[u].project # p => e.units[u] = d.units[u]
\* A unit has the slots K asks for, unless the raise of K passed it over.
Covered(row, k) == ~row.passed => Cardinality(row.slots) >= k

\* What a request was asked, given the rows it read.
Asked(op, v) ==
  LET ts == LiveTemplates(v)
      ps == DOMAIN v.projects
      cs == DOMAIN v.configs
      names == {v.configs[c].name : c \in cs}
  IN \/ \E shape \in Shapes : op = <<"create", shape>>
     \/ \E t \in ts : op = <<"clone", t>>
     \/ \E t \in ts, shape \in Shapes, panels \in Orders : op = <<"edit", t, shape, panels>>
     \/ \E t \in ts, all \in BOOLEAN : op = <<"delete", t, all>>
     \/ \E t \in ts, k \in Nat, max \in Nat : op = <<"project", t, k, max>>
     \/ \E b \in Bundles : op = <<"import", b>>
     \/ \E p \in ps, shape \in Shapes, panels \in Orders, k \in Nat, max \in Nat : op = <<"update", p, shape, panels, k, max>>
     \/ \E p \in ps : op = <<"config", p, 1>>
     \/ \E p \in ps : op = <<"ingest", p>>
     \/ \E name \in names, model \in Models : op = <<"judge", name, model>>
     \/ \E p \in ps, c \in cs : op = <<"attach", p, c>>
     \/ \E p \in ps, c \in cs : op = <<"detach", p, c>>
     \/ \E p \in ps, name \in names, model \in Models : op = <<"checkpoint", p, name, model>>

Under(s) ==
  req[s] # Idle =>
    /\ Asked(req[s].op, req[s].view) /\ Whole(req[s].view) /\ Later(req[s].view, db)
    /\ alone => req[s].view = db /\ \A r \in Sessions : req[r] # Idle => r = s

SettingsInv ==
  /\ Whole(db) /\ shared \subseteq Bundles /\ served \in 0..MaxRequests /\ alone \in BOOLEAN
  /\ req = [s \in Sessions |-> req[s]]
  /\ \A s \in Sessions : Under(s)
  /\ alone => ToldApart(db) /\ Collectable(db)

-----------------------------------------------------------------------------
(* Sequences, numbers and sets of numbers.                                 *)

LEMMA SeqFacts ==
  ASSUME NEW S, NEW s \in Seq(S)
  PROVE  Len(s) \in Nat /\ DOMAIN s = 1..Len(s) /\ \A i \in DOMAIN s : s[i] \in S
BY LenProperties, ElementOfSeq

LEMMA FunctionIsSeq ==
  ASSUME NEW S, NEW n \in Nat, NEW t \in [1..n -> S]
  PROVE  t \in Seq(S) /\ Len(t) = n
<1>1. t \in Seq(S)
  BY SeqDef
<1>2. Len(t) = n
  BY <1>1, LenProperties
<1> QED BY <1>1, <1>2

LEMMA AppendFacts ==
  ASSUME NEW S, NEW s \in Seq(S), NEW x \in S
  PROVE  /\ Append(s, x) \in Seq(S) /\ Len(Append(s, x)) = Len(s) + 1
         /\ DOMAIN Append(s, x) = 1..Len(s) + 1
         /\ \A i \in DOMAIN s : Append(s, x)[i] = s[i]
         /\ Append(s, x)[Len(s) + 1] = x
BY AppendProperties, SeqFacts

LEMMA ReplaceFacts ==
  ASSUME NEW S, NEW s \in Seq(S), NEW n \in DOMAIN s, NEW x \in S
  PROVE  /\ [s EXCEPT ![n] = x] \in Seq(S) /\ Len([s EXCEPT ![n] = x]) = Len(s)
         /\ DOMAIN [s EXCEPT ![n] = x] = DOMAIN s
         /\ \A i \in DOMAIN s : [s EXCEPT ![n] = x][i] = IF i = n THEN x ELSE s[i]
<1>1. Len(s) \in Nat /\ DOMAIN s = 1..Len(s) /\ s \in [1..Len(s) -> S]
  BY LenProperties
<1>2. [s EXCEPT ![n] = x] \in [1..Len(s) -> S]
  BY <1>1
<1> QED BY <1>1, <1>2, FunctionIsSeq

LEMMA ConcatFacts ==
  ASSUME NEW S, NEW s \in Seq(S), NEW t \in Seq(S)
  PROVE  /\ s \o t \in Seq(S) /\ Len(s \o t) = Len(s) + Len(t)
         /\ DOMAIN (s \o t) = 1..Len(s) + Len(t)
         /\ \A i \in DOMAIN s : (s \o t)[i] = s[i]
         /\ \A i \in DOMAIN t : (s \o t)[Len(s) + i] = t[i]
BY ConcatProperties, SeqFacts

LEMMA LeastNumber ==
  ASSUME NEW T \in SUBSET Nat, T # {}
  PROVE  \E n \in T : \A k \in T : n <= k
<1>1. \E n \in T : \A k \in T : ~(<<k, n>> \in OpToRel(<, Nat))
  BY WFMin, NatLessThanWellFounded, Zenon
<1>2. PICK n \in T : \A k \in T : ~(<<k, n>> \in OpToRel(<, Nat))
  BY <1>1, Zenon
<1>3. \A k \in T : ~(k < n)
  BY <1>2, Zenon DEF OpToRel
<1> QED BY <1>3

LEMMA NatInd ==
  ASSUME NEW S, 0 \in S, \A n \in Nat : n \in S => n + 1 \in S
  PROVE  Nat \subseteq S
<1> SUFFICES ASSUME Nat \ S # {} PROVE FALSE
  OBVIOUS
<1>1. PICK n \in Nat \ S : \A k \in Nat \ S : n <= k
  BY LeastNumber
<1>2. n # 0 /\ n - 1 \in Nat
  BY <1>1
<1>3. n - 1 \in S
  BY <1>1, <1>2
<1> QED BY <1>1, <1>2, <1>3

\* Of finitely many numbers one is the greatest.
LEMMA GreatestNumber ==
  ASSUME NEW S \in SUBSET Nat, IsFiniteSet(S), S # {}
  PROVE  \E n \in S : \A k \in S : k <= n
<1> DEFINE Good(T) == T # {} => \E n \in T : \A k \in T : k <= n
           N == {n \in Nat : \A T \in SUBSET S : Cardinality(T) = n => Good(T)}
<1>1. 0 \in N
  BY FS_Subset, FS_EmptySet
<1>2. ASSUME NEW n \in Nat, n \in N PROVE n + 1 \in N
  <2> SUFFICES ASSUME NEW T \in SUBSET S, Cardinality(T) = n + 1, T # {} PROVE Good(T)
    OBVIOUS
  <2>1. PICK x \in T : TRUE
    OBVIOUS
  <2>2. Cardinality(T \ {x}) = n
    <3>1. IsFiniteSet(T)
      BY FS_Subset
    <3>2. Cardinality(T \ {x}) = Cardinality(T) - 1
      BY <2>1, <3>1, FS_RemoveElement
    <3> QED BY <3>2
  <2>3. Good(T \ {x})
    BY <1>2, <2>2
  <2>4. CASE T \ {x} = {}
    BY <2>1, <2>4
  <2>5. CASE T \ {x} # {}
    <3>1. PICK y \in T \ {x} : \A k \in T \ {x} : k <= y
      BY <2>3, <2>5
    <3>2. CASE x <= y
      BY <3>1, <3>2
    <3>3. CASE ~(x <= y)
      <4>1. \A k \in T : k <= x
        BY <3>1, <3>3
      <4> QED BY <2>1, <4>1
    <3> QED BY <3>2, <3>3
  <2> QED BY <2>4, <2>5
<1> HIDE DEF N
<1>3. Cardinality(S) \in N
  BY <1>1, <1>2, NatInd, FS_CardinalityType
<1> QED BY <1>3 DEF N

LEMMA MaxFacts ==
  ASSUME NEW S \in SUBSET Nat, IsFiniteSet(S), S # {}
  PROVE  Max(S) \in S /\ \A y \in S : y <= Max(S)
BY GreatestNumber DEF Max

LEMMA MinFacts ==
  ASSUME NEW S \in SUBSET Nat, S # {}
  PROVE  Min(S) \in S
BY LeastNumber DEF Min

\* What a function takes finitely many elements to.
LEMMA ImageFacts ==
  ASSUME NEW I, IsFiniteSet(I), NEW T, NEW f \in [I -> T]
  PROVE  IsFiniteSet({f[i] : i \in I}) /\ Cardinality({f[i] : i \in I}) <= Cardinality(I)
<1>1. f \in Surjection(I, {f[i] : i \in I})
  BY DEF Surjection
<1> QED BY <1>1, FS_Surjection

LEMMA DatabaseFacts ==
  ASSUME NEW d \in Databases
  PROVE  /\ d.templates \in Seq(TemplateRow) /\ d.projects \in Seq(ProjectRow) /\ d.units \in Seq(UnitRow)
         /\ d.configs \in Seq(ConfigRow) /\ d.raters \in Seq(Nat)
BY DEF Databases

LEMMA TableFacts ==
  ASSUME NEW d \in Databases
  PROVE  /\ Len(d.templates) \in Nat /\ DOMAIN d.templates = 1..Len(d.templates)
         /\ \A t \in DOMAIN d.templates : d.templates[t] \in TemplateRow
         /\ Len(d.projects) \in Nat /\ DOMAIN d.projects = 1..Len(d.projects)
         /\ \A p \in DOMAIN d.projects : d.projects[p] \in ProjectRow
         /\ Len(d.units) \in Nat /\ DOMAIN d.units = 1..Len(d.units)
         /\ \A u \in DOMAIN d.units : d.units[u] \in UnitRow
         /\ Len(d.configs) \in Nat /\ DOMAIN d.configs = 1..Len(d.configs)
         /\ \A c \in DOMAIN d.configs : d.configs[c] \in ConfigRow
         /\ Len(d.raters) \in Nat /\ DOMAIN d.raters = 1..Len(d.raters)
         /\ \A a \in DOMAIN d.raters : d.raters[a] \in Nat
BY DatabaseFacts, SeqFacts

LEMMA WholeIs ==
  ASSUME NEW d
  PROVE  Whole(d) <=> Sound(d) /\ Enlisted(d)
BY Zenon DEF Whole, Sound, Enlisted, Bound, Staffed, Numbered, Indices

-----------------------------------------------------------------------------
(* Whoever reads later sees what was read before.                          *)

LEMMA LaterSelf ==
  ASSUME NEW d \in Databases
  PROVE  Later(d, d)
BY TableFacts DEF Later, SameTemplate

\* The rows of v are there in d.
LEMMA StillThere ==
  ASSUME NEW v \in Databases, NEW d \in Databases, Later(v, d)
  PROVE  /\ DOMAIN v.templates \subseteq DOMAIN d.templates
         /\ DOMAIN v.projects \subseteq DOMAIN d.projects
         /\ DOMAIN v.units \subseteq DOMAIN d.units
         /\ DOMAIN v.configs \subseteq DOMAIN d.configs
         /\ DOMAIN v.raters \subseteq DOMAIN d.raters
<1>1. /\ Len(v.templates) <= Len(d.templates) /\ Len(v.projects) <= Len(d.projects) /\ Len(v.units) <= Len(d.units)
      /\ Len(v.configs) <= Len(d.configs) /\ Len(v.raters) <= Len(d.raters)
  BY DEF Later
<1>2. DOMAIN v.templates \subseteq DOMAIN d.templates
  BY <1>1, TableFacts
<1>3. DOMAIN v.projects \subseteq DOMAIN d.projects
  BY <1>1, TableFacts
<1>4. DOMAIN v.units \subseteq DOMAIN d.units
  BY <1>1, TableFacts
<1>5. DOMAIN v.configs \subseteq DOMAIN d.configs
  BY <1>1, TableFacts
<1>6. DOMAIN v.raters \subseteq DOMAIN d.raters
  BY <1>1, TableFacts
<1> QED BY <1>2, <1>3, <1>4, <1>5, <1>6

LEMMA LengthFacts ==
  ASSUME NEW d \in Databases
  PROVE  /\ Len(d.templates) \in Nat /\ Len(d.projects) \in Nat /\ Len(d.units) \in Nat
         /\ Len(d.configs) \in Nat /\ Len(d.raters) \in Nat
BY TableFacts

LEMMA AtMost ==
  ASSUME NEW s, NEW t, NEW u, Len(s) \in Nat, Len(t) \in Nat, Len(u) \in Nat, Len(s) <= Len(t), Len(t) <= Len(u)
  PROVE  Len(s) <= Len(u)
OBVIOUS

LEMMA LaterTransitive ==
  ASSUME NEW c \in Databases, NEW d \in Databases, NEW e \in Databases, Later(c, d), Later(d, e)
  PROVE  Later(c, e)
<1>1. /\ Len(c.templates) <= Len(d.templates) /\ Len(c.projects) <= Len(d.projects) /\ Len(c.units) <= Len(d.units)
      /\ Len(c.configs) <= Len(d.configs) /\ Len(c.raters) <= Len(d.raters)
  BY DEF Later
<1>2. /\ Len(d.templates) <= Len(e.templates) /\ Len(d.projects) <= Len(e.projects) /\ Len(d.units) <= Len(e.units)
      /\ Len(d.configs) <= Len(e.configs) /\ Len(d.raters) <= Len(e.raters)
  BY DEF Later
<1>3. /\ Len(c.templates) <= Len(e.templates) /\ Len(c.projects) <= Len(e.projects) /\ Len(c.units) <= Len(e.units)
      /\ Len(c.configs) <= Len(e.configs) /\ Len(c.raters) <= Len(e.raters)
  <2> DEFINE Lengths(x) == /\ Len(x.templates) \in Nat /\ Len(x.projects) \in Nat /\ Len(x.units) \in Nat
                           /\ Len(x.configs) \in Nat /\ Len(x.raters) \in Nat
  <2>1. Lengths(c) /\ Lengths(d) /\ Lengths(e)
    BY LengthFacts, Zenon
  <2>2. Len(c.templates) <= Len(e.templates)
    BY <1>1, <1>2, <2>1, AtMost, Zenon
  <2>3. Len(c.projects) <= Len(e.projects)
    BY <1>1, <1>2, <2>1, AtMost, Zenon
  <2>4. Len(c.units) <= Len(e.units)
    BY <1>1, <1>2, <2>1, AtMost, Zenon
  <2>5. Len(c.configs) <= Len(e.configs)
    BY <1>1, <1>2, <2>1, AtMost, Zenon
  <2>6. Len(c.raters) <= Len(e.raters)
    BY <1>1, <1>2, <2>1, AtMost, Zenon
  <2> QED BY <2>2, <2>3, <2>4, <2>5, <2>6
<1>4. \A t \in DOMAIN c.templates : SameTemplate(c.templates[t], e.templates[t])
  <2> SUFFICES ASSUME NEW t \in DOMAIN c.templates PROVE SameTemplate(c.templates[t], e.templates[t])
    OBVIOUS
  <2>1. t \in DOMAIN d.templates
    BY StillThere
  <2>2. SameTemplate(c.templates[t], d.templates[t]) /\ SameTemplate(d.templates[t], e.templates[t])
    BY <2>1 DEF Later
  <2> QED BY <2>2 DEF SameTemplate
<1>5. \A u \in DOMAIN c.units : e.units[u].project = c.units[u].project
  <2> SUFFICES ASSUME NEW u \in DOMAIN c.units PROVE e.units[u].project = c.units[u].project
    OBVIOUS
  <2>1. u \in DOMAIN d.units
    BY StillThere
  <2> QED BY <2>1 DEF Later
<1>6. \A i \in DOMAIN c.configs : e.configs[i] = c.configs[i]
  <2> SUFFICES ASSUME NEW i \in DOMAIN c.configs PROVE e.configs[i] = c.configs[i]
    OBVIOUS
  <2>1. i \in DOMAIN d.configs
    BY StillThere
  <2> QED BY <2>1 DEF Later
<1>7. \A a \in DOMAIN c.raters : e.raters[a] = c.raters[a]
  <2> SUFFICES ASSUME NEW a \in DOMAIN c.raters PROVE e.raters[a] = c.raters[a]
    OBVIOUS
  <2>1. a \in DOMAIN d.raters
    BY StillThere
  <2> QED BY <2>1 DEF Later
<1> QED BY <1>3, <1>4, <1>5, <1>6, <1>7 DEF Later

LEMMA StillStaffed ==
  ASSUME NEW v \in Databases, NEW d \in Databases, Later(v, d), NEW row, Staffed(v, row)
  PROVE  Staffed(d, row)
BY StillThere DEF Staffed, Later

LEMMA StillNumbered ==
  ASSUME NEW v \in Databases, NEW d \in Databases, Later(v, d), NEW row, Numbered(v, row)
  PROVE  Numbered(d, row)
BY StillThere DEF Numbered

LEMMA StillBound ==
  ASSUME NEW v \in Databases, NEW d \in Databases, Later(v, d), NEW row, Bound(v, row), d.templates[row.template].live
  PROVE  Bound(d, row)
BY StillThere DEF Bound, LiveTemplates, Indices, Later, SameTemplate

-----------------------------------------------------------------------------
(* One table changes.                                                      *)

LEMMA Columns ==
  ASSUME NEW d \in Databases
  PROVE  /\ \A ts \in Seq(TemplateRow) : LET e == [d EXCEPT !.templates = ts] IN
              /\ e \in Databases /\ e.templates = ts /\ e.projects = d.projects /\ e.units = d.units
              /\ e.configs = d.configs /\ e.raters = d.raters
         /\ \A ps \in Seq(ProjectRow) : LET e == [d EXCEPT !.projects = ps] IN
              /\ e \in Databases /\ e.templates = d.templates /\ e.projects = ps /\ e.units = d.units
              /\ e.configs = d.configs /\ e.raters = d.raters
         /\ \A us \in Seq(UnitRow) : LET e == [d EXCEPT !.units = us] IN
              /\ e \in Databases /\ e.templates = d.templates /\ e.projects = d.projects /\ e.units = us
              /\ e.configs = d.configs /\ e.raters = d.raters
         /\ \A cs \in Seq(ConfigRow) : LET e == [d EXCEPT !.configs = cs] IN
              /\ e \in Databases /\ e.templates = d.templates /\ e.projects = d.projects /\ e.units = d.units
              /\ e.configs = cs /\ e.raters = d.raters
         /\ \A rs \in Seq(Nat) : LET e == [d EXCEPT !.raters = rs] IN
              /\ e \in Databases /\ e.templates = d.templates /\ e.projects = d.projects /\ e.units = d.units
              /\ e.configs = d.configs /\ e.raters = rs
BY DEF Databases

\* From d to e nothing was lost of what requests one after the other keep.
InOrder(d, e) == (ToldApart(d) => ToldApart(e)) /\ (Collectable(d) => Collectable(e))
Kept(d, e) == InOrder(d, e) /\ Untouched(d, e)
Evolves(d, e) == Whole(e) /\ Later(d, e)

LEMMA TemplatesEvolve ==
  ASSUME NEW d, Whole(d), NEW ts \in Seq(TemplateRow), Len(d.templates) <= Len(ts),
         \A t \in DOMAIN d.templates : SameTemplate(d.templates[t], ts[t]),
         \A p \in DOMAIN d.projects : ts[d.projects[p].template].live,
         NEW e, e = [d EXCEPT !.templates = ts]
  PROVE  Evolves(d, e) /\ Kept(d, e)
<1>1. d \in Databases /\ e \in Databases
  BY Columns DEF Whole
<1>2. e.templates = ts /\ e.projects = d.projects /\ e.units = d.units /\ e.configs = d.configs /\ e.raters = d.raters
  BY <1>1, Columns
<1>3. Later(d, e)
  BY <1>1, <1>2, TableFacts DEF Later
<1>4. Whole(e)
  <2>1. \A p \in DOMAIN e.projects : Bound(e, e.projects[p])
    BY <1>1, <1>2, <1>3, StillBound DEF Whole
  <2>2. \A p \in DOMAIN e.projects : Staffed(e, e.projects[p])
    BY <1>1, <1>2, <1>3, StillStaffed DEF Whole
  <2>3. \A u \in DOMAIN e.units : Numbered(e, e.units[u])
    BY <1>1, <1>2, <1>3, StillNumbered DEF Whole
  <2> QED BY <1>1, <1>2, <2>1, <2>2, <2>3 DEF Whole
<1>5. ToldApart(d) => ToldApart(e)
  BY <1>2 DEF ToldApart, Indices
<1>6. Collectable(d) => Collectable(e)
  <2>1. \A p \in DOMAIN d.projects : d.projects[p].template \in DOMAIN d.templates
    BY DEF Whole, Bound, LiveTemplates, Indices
  <2>2. \A p \in DOMAIN d.projects : ShapeOf(e, p) = ShapeOf(d, p)
    BY <1>2, <2>1 DEF ShapeOf, SameTemplate
  <2> QED BY <1>2, <2>2 DEF Collectable, Indices
<1>7. Untouched(d, e)
  BY <1>2 DEF Untouched
<1> QED BY <1>3, <1>4, <1>5, <1>6, <1>7 DEF Evolves, Kept, InOrder

LEMMA ProjectsEvolve ==
  ASSUME NEW d, Whole(d), NEW ps \in Seq(ProjectRow), Len(d.projects) <= Len(ps),
         \A p \in DOMAIN ps : Bound(d, ps[p]) /\ Staffed(d, ps[p]),
         NEW e, e = [d EXCEPT !.projects = ps]
  PROVE  /\ Evolves(d, e) /\ (ToldApart(d) => ToldApart(e))
         /\ (\A p \in DOMAIN ps : Fits(d.templates[ps[p].template].shape, ps[p].k, ps[p].max))
            /\ (\A u \in DOMAIN d.units : Covered(d.units[u], ps[d.units[u].project].k))
              => Collectable(e)
<1>1. d \in Databases /\ e \in Databases
  BY Columns DEF Whole
<1>2. e.templates = d.templates /\ e.projects = ps /\ e.units = d.units /\ e.configs = d.configs /\ e.raters = d.raters
  BY <1>1, Columns
<1>3. Later(d, e)
  BY <1>1, <1>2, TableFacts DEF Later, SameTemplate
<1>4. Whole(e)
  <2>1. \A p \in DOMAIN e.projects : Bound(e, e.projects[p])
    BY <1>2 DEF Bound, LiveTemplates, Indices
  <2>2. \A p \in DOMAIN e.projects : Staffed(e, e.projects[p])
    BY <1>2 DEF Staffed
  <2>3. \A u \in DOMAIN e.units : Numbered(e, e.units[u])
    BY <1>1, <1>2, <1>3, StillNumbered DEF Whole
  <2> QED BY <1>1, <1>2, <2>1, <2>2, <2>3 DEF Whole
<1>5. ToldApart(d) => ToldApart(e)
  BY <1>2 DEF ToldApart, Indices
<1>6. ASSUME \A p \in DOMAIN ps : Fits(d.templates[ps[p].template].shape, ps[p].k, ps[p].max),
             \A u \in DOMAIN d.units : Covered(d.units[u], ps[d.units[u].project].k)
      PROVE  Collectable(e)
  BY <1>2, <1>6 DEF Collectable, ShapeOf, Indices, Covered
<1> QED BY <1>3, <1>4, <1>5, <1>6 DEF Evolves

LEMMA UnitsEvolve ==
  ASSUME NEW d, Whole(d), NEW us \in Seq(UnitRow), Len(d.units) <= Len(us),
         \A u \in DOMAIN d.units : us[u].project = d.units[u].project,
         \A u \in DOMAIN us : Numbered(d, us[u]),
         NEW e, e = [d EXCEPT !.units = us]
  PROVE  /\ Evolves(d, e) /\ (ToldApart(d) => ToldApart(e))
         /\ Collectable(d) /\ (\A u \in DOMAIN us : Covered(us[u], d.projects[us[u].project].k))
              => Collectable(e)
<1>1. d \in Databases /\ e \in Databases
  BY Columns DEF Whole
<1>2. e.templates = d.templates /\ e.projects = d.projects /\ e.units = us /\ e.configs = d.configs /\ e.raters = d.raters
  BY <1>1, Columns
<1>3. Later(d, e)
  BY <1>1, <1>2, TableFacts DEF Later, SameTemplate
<1>4. Whole(e)
  <2>1. \A p \in DOMAIN e.projects : Bound(e, e.projects[p])
    BY <1>2 DEF Bound, LiveTemplates, Indices, Whole
  <2>2. \A p \in DOMAIN e.projects : Staffed(e, e.projects[p])
    BY <1>2 DEF Staffed, Whole
  <2>3. \A u \in DOMAIN e.units : Numbered(e, e.units[u])
    BY <1>2 DEF Numbered
  <2> QED BY <1>1, <1>2, <2>1, <2>2, <2>3 DEF Whole
<1>5. ToldApart(d) => ToldApart(e)
  BY <1>2 DEF ToldApart, Indices
<1>6. ASSUME Collectable(d), \A u \in DOMAIN us : Covered(us[u], d.projects[us[u].project].k)
      PROVE  Collectable(e)
  BY <1>2, <1>6 DEF Collectable, ShapeOf, Indices, Covered
<1> QED BY <1>3, <1>4, <1>5, <1>6 DEF Evolves

LEMMA ConfigsEvolve ==
  ASSUME NEW d, Whole(d), NEW cs \in Seq(ConfigRow), Len(d.configs) <= Len(cs),
         \A c \in DOMAIN d.configs : cs[c] = d.configs[c],
         NEW e, e = [d EXCEPT !.configs = cs]
  PROVE  Evolves(d, e) /\ (Collectable(d) => Collectable(e)) /\ Untouched(d, e)
<1>1. d \in Databases /\ e \in Databases
  BY Columns DEF Whole
<1>2. e.templates = d.templates /\ e.projects = d.projects /\ e.units = d.units /\ e.configs = cs /\ e.raters = d.raters
  BY <1>1, Columns
<1>3. Later(d, e)
  BY <1>1, <1>2, TableFacts DEF Later, SameTemplate
<1>4. Whole(e)
  <2>1. \A p \in DOMAIN e.projects : Bound(e, e.projects[p]) /\ Staffed(e, e.projects[p])
    BY <1>2 DEF Bound, LiveTemplates, Indices, Whole, Staffed
  <2>2. \A u \in DOMAIN e.units : Numbered(e, e.units[u])
    BY <1>2 DEF Numbered, Whole
  <2>3. \A a \in DOMAIN e.raters : e.raters[a] \in DOMAIN e.configs
    BY <1>1, <1>2, <1>3, StillThere DEF Whole
  <2> QED BY <1>1, <2>1, <2>2, <2>3 DEF Whole
<1>5. Collectable(d) => Collectable(e)
  BY <1>2 DEF Collectable, ShapeOf, Indices
<1>6. Untouched(d, e)
  BY <1>2 DEF Untouched
<1> QED BY <1>3, <1>4, <1>5, <1>6 DEF Evolves

LEMMA RatersEvolve ==
  ASSUME NEW d, Whole(d), NEW rs \in Seq(Nat), Len(d.raters) <= Len(rs),
         \A a \in DOMAIN d.raters : rs[a] = d.raters[a],
         \A a \in DOMAIN rs : rs[a] \in DOMAIN d.configs,
         NEW e, e = [d EXCEPT !.raters = rs]
  PROVE  Evolves(d, e) /\ (Collectable(d) => Collectable(e)) /\ Untouched(d, e)
<1>1. d \in Databases /\ e \in Databases
  BY Columns DEF Whole
<1>2. e.templates = d.templates /\ e.projects = d.projects /\ e.units = d.units /\ e.configs = d.configs /\ e.raters = rs
  BY <1>1, Columns
<1>3. Later(d, e)
  BY <1>1, <1>2, TableFacts DEF Later, SameTemplate
<1>4. Whole(e)
  <2>1. \A p \in DOMAIN e.projects : Bound(e, e.projects[p])
    BY <1>2 DEF Bound, LiveTemplates, Indices, Whole
  <2>2. \A p \in DOMAIN e.projects : Staffed(e, e.projects[p])
    BY <1>1, <1>2, <1>3, StillStaffed DEF Whole
  <2>3. \A u \in DOMAIN e.units : Numbered(e, e.units[u])
    BY <1>2 DEF Numbered, Whole
  <2> QED BY <1>1, <1>2, <2>1, <2>2, <2>3 DEF Whole
<1>5. Collectable(d) => Collectable(e)
  BY <1>2 DEF Collectable, ShapeOf, Indices
<1>6. Untouched(d, e)
  BY <1>2 DEF Untouched
<1> QED BY <1>3, <1>4, <1>5, <1>6 DEF Evolves

LEMMA EvolvesTransitive ==
  ASSUME NEW c, NEW d, NEW e, c \in Databases, Evolves(c, d), Evolves(d, e)
  PROVE  Evolves(c, e)
BY LaterTransitive DEF Evolves, Whole

LEMMA KeptTransitive ==
  ASSUME NEW c, NEW d, NEW e, c \in Databases, Evolves(c, d), Kept(c, d), Kept(d, e)
  PROVE  Kept(c, e)
<1>1. DOMAIN c.units \subseteq DOMAIN d.units /\ DOMAIN c.projects \subseteq DOMAIN d.projects
  BY StillThere DEF Evolves, Whole
<1>2. Untouched(c, e)
  BY <1>1 DEF Untouched, Kept
<1> QED BY <1>2 DEF Kept, InOrder

LEMMA UntouchedTransitive ==
  ASSUME NEW c, NEW d, NEW e, c \in Databases, Evolves(c, d), Untouched(c, d), Untouched(d, e)
  PROVE  Untouched(c, e)
<1>1. DOMAIN c.units \subseteq DOMAIN d.units /\ DOMAIN c.projects \subseteq DOMAIN d.projects
  BY StillThere DEF Evolves, Whole
<1> QED BY <1>1 DEF Untouched

-----------------------------------------------------------------------------
(* Templates.                                                              *)

LEMMA LiveRow ==
  ASSUME NEW v \in Databases, NEW t \in LiveTemplates(v)
  PROVE  t \in DOMAIN v.templates /\ v.templates[t] \in TemplateRow /\ v.templates[t].live
BY TableFacts DEF LiveTemplates, Indices

LEMMA InsertEvolves ==
  ASSUME NEW d, Whole(d), NEW row \in TemplateRow, NEW e \in Insert(d, row)
  PROVE  /\ Evolves(d, e) /\ Kept(d, e)
         /\ e = [d EXCEPT !.templates = Append(d.templates, row)]
         /\ Len(e.templates) = Len(d.templates) + 1
         /\ DOMAIN e.templates = 1..Len(d.templates) + 1
         /\ e.templates[Len(e.templates)] = row
         /\ \A t \in DOMAIN d.templates : e.templates[t] = d.templates[t]
         /\ e.projects = d.projects /\ e.units = d.units /\ e.configs = d.configs /\ e.raters = d.raters
<1> DEFINE ts == Append(d.templates, row)
<1>1. d \in Databases /\ d.templates \in Seq(TemplateRow)
  BY DatabaseFacts DEF Whole
<1>2. e = [d EXCEPT !.templates = ts]
  BY DEF Insert
<1>3. /\ ts \in Seq(TemplateRow) /\ Len(ts) = Len(d.templates) + 1 /\ DOMAIN ts = 1..Len(d.templates) + 1
      /\ \A t \in DOMAIN d.templates : ts[t] = d.templates[t]
      /\ ts[Len(d.templates) + 1] = row
  BY <1>1, AppendFacts
<1> HIDE DEF ts
<1>4. \A t \in DOMAIN d.templates : SameTemplate(d.templates[t], ts[t])
  BY <1>3 DEF SameTemplate
<1>5. \A p \in DOMAIN d.projects : ts[d.projects[p].template].live
  BY <1>3 DEF Whole, Bound, LiveTemplates, Indices
<1>6. Len(d.templates) <= Len(ts)
  BY <1>1, <1>3, TableFacts
<1>7. Evolves(d, e) /\ Kept(d, e)
  BY <1>2, <1>3, <1>4, <1>5, <1>6, TemplatesEvolve
<1> QED BY <1>1, <1>2, <1>3, <1>7, Columns DEF ts

LEMMA CreateEvolves ==
  ASSUME NEW v, NEW d, Whole(d), NEW shape \in Shapes, NEW e \in CreateTemplate(v, d, shape)
  PROVE  Evolves(d, e) /\ Kept(d, e)
<1>1. Template(Name("mine", 0), 1, shape, 0) \in TemplateRow
  BY DEF Template, Name, TemplateRow, Names, Orders
<1> QED BY <1>1, InsertEvolves DEF CreateTemplate

LEMMA CloneEvolves ==
  ASSUME NEW v, NEW d, Whole(v), Whole(d), NEW t \in LiveTemplates(v), NEW e \in CloneTemplate(v, d, t)
  PROVE  Evolves(d, e) /\ Kept(d, e)
<1> DEFINE row == [v.templates[t] EXCEPT !.name.copies = @ + 1, !.version = 1, !.kind = "custom"]
<1>1. v.templates[t] \in TemplateRow
  BY LiveRow DEF Whole
<1>2. row \in TemplateRow
  <2>1. v.templates[t].name.copies + 1 \in Nat
    BY <1>1 DEF TemplateRow, Names
  <2>2. [v.templates[t].name EXCEPT !.copies = @ + 1] \in Names
    BY <1>1, <2>1 DEF TemplateRow, Names
  <2> QED BY <1>1, <2>2 DEF TemplateRow
<1> QED BY <1>2, InsertEvolves DEF CloneTemplate

\* The versions of a name are numbers, and finitely many.
LEMMA VersionsFacts ==
  ASSUME NEW v \in Databases, NEW t \in LiveTemplates(v)
  PROVE  Max(Versions(v, v.templates[t].name)) \in Nat
<1> DEFINE I == {i \in LiveTemplates(v) : v.templates[i].name = v.templates[t].name}
           f == [i \in I |-> v.templates[i].version]
<1>1. I \in SUBSET (1..Len(v.templates)) /\ Len(v.templates) \in Nat
  BY TableFacts DEF LiveTemplates, Indices
<1>2. IsFiniteSet(I)
  <2>1. IsFiniteSet(1..Len(v.templates))
    BY <1>1, FS_Interval
  <2> QED BY <1>1, <2>1, FS_Subset
<1>3. f \in [I -> Nat]
  BY LiveRow DEF TemplateRow
<1> HIDE DEF f, I
<1>4. IsFiniteSet({f[i] : i \in I})
  BY <1>2, <1>3, ImageFacts
<1> USE DEF f, I
<1>5. Versions(v, v.templates[t].name) = {f[i] : i \in I}
  BY DEF Versions
<1>6. {f[i] : i \in I} \in SUBSET Nat /\ t \in I
  BY <1>3
<1> QED BY <1>4, <1>5, <1>6, MaxFacts

LEMMA EditEvolves ==
  ASSUME NEW v, NEW d, Whole(v), Whole(d), Later(v, d),
         NEW t \in LiveTemplates(v), NEW shape \in Shapes, NEW panels \in Orders, NEW e \in EditTemplate(v, d, t, shape, panels)
  PROVE  Evolves(d, e) /\ Kept(d, e)
<1> DEFINE current == v.templates[t]
           edited == [current EXCEPT !.shape = shape, !.panels = panels]
<1>1. v \in Databases /\ d \in Databases /\ t \in DOMAIN v.templates /\ current \in TemplateRow /\ current.live
  BY LiveRow DEF Whole
<1>2. edited \in TemplateRow
  BY <1>1 DEF TemplateRow
<1>3. CASE Affecting(current.shape, shape)
  <2> DEFINE row == [edited EXCEPT !.version = Max(Versions(v, current.name)) + 1]
  <2>1. Max(Versions(v, current.name)) \in Nat
    BY <1>1, VersionsFacts
  <2>2. row \in TemplateRow
    <3>1. Max(Versions(v, current.name)) + 1 \in Nat
      BY <2>1
    <3> HIDE DEF edited
    <3> QED BY <1>2, <3>1 DEF TemplateRow
  <2>3. e \in Insert(d, row)
    BY <1>3 DEF EditTemplate
  <2> QED BY <2>2, <2>3, InsertEvolves
<1>4. CASE ~Affecting(current.shape, shape)
  <2> DEFINE ts == [d.templates EXCEPT ![t] = edited]
  <2>1. d.templates[t].live /\ e = [d EXCEPT !.templates = ts]
    BY <1>4 DEF EditTemplate
  <2>2. t \in DOMAIN d.templates /\ d.templates \in Seq(TemplateRow)
    BY <1>1, StillThere, DatabaseFacts
  <2>3. /\ ts \in Seq(TemplateRow) /\ Len(ts) = Len(d.templates)
        /\ \A i \in DOMAIN d.templates : ts[i] = IF i = t THEN edited ELSE d.templates[i]
    BY <1>2, <2>2, ReplaceFacts
  <2>4. SameTemplate(d.templates[t], edited) /\ edited.live
    <3>1. shape = current.shape
      BY <1>4 DEF Affecting
    <3>2. SameTemplate(current, d.templates[t])
      BY <1>1 DEF Later
    <3>3. /\ edited.name = current.name /\ edited.version = current.version /\ edited.kind = current.kind
          /\ edited.shape = shape /\ edited.live = current.live
      BY <1>1 DEF TemplateRow
    <3> QED BY <1>1, <2>1, <3>1, <3>2, <3>3 DEF SameTemplate
  <2> HIDE DEF ts, edited
  <2>5. \A i \in DOMAIN d.templates : SameTemplate(d.templates[i], ts[i])
    BY <2>3, <2>4 DEF SameTemplate
  <2>6. \A p \in DOMAIN d.projects : ts[d.projects[p].template].live
    BY <2>3, <2>4 DEF Whole, Bound, LiveTemplates, Indices
  <2>7. Len(d.templates) <= Len(ts)
    BY <1>1, <2>3, TableFacts
  <2> QED BY <2>1, <2>3, <2>5, <2>6, <2>7, TemplatesEvolve
<1> QED BY <1>3, <1>4

LEMMA DeleteEvolves ==
  ASSUME NEW v, NEW d, Whole(v), Whole(d), Later(v, d),
         NEW t \in LiveTemplates(v), NEW all \in BOOLEAN, NEW e \in DeleteTemplate(v, d, t, all)
  PROVE  /\ Evolves(d, e) /\ Kept(d, e)
         /\ LiveTemplates(e) = LiveTemplates(d) \ Doomed(v, t, all)
<1> DEFINE doomed == Doomed(v, t, all)
           ts == [i \in DOMAIN d.templates |-> [d.templates[i] EXCEPT !.live = @ /\ i \notin doomed]]
<1>1. d \in Databases
  BY DEF Whole
<1>2. e = [d EXCEPT !.templates = ts] /\ \A p \in DOMAIN d.projects : d.projects[p].template \notin doomed
  <2>1. e = [d EXCEPT !.templates = ts]
    BY DEF DeleteTemplate
  <2>2. \A p \in Indices(d, "projects") : d.projects[p].template \notin Doomed(v, t, all)
    BY DEF DeleteTemplate
  <2>3. \A p \in DOMAIN d.projects : d.projects[p].template \notin doomed
    BY <2>2, Zenon DEF Indices
  <2> QED BY <2>1, <2>3
<1>3. \A i \in DOMAIN d.templates : ts[i] \in TemplateRow /\ SameTemplate(d.templates[i], ts[i])
          /\ ts[i].live = (d.templates[i].live /\ i \notin doomed)
  <2> SUFFICES ASSUME NEW i \in DOMAIN d.templates
               PROVE  ts[i] \in TemplateRow /\ SameTemplate(d.templates[i], ts[i])
                        /\ ts[i].live = (d.templates[i].live /\ i \notin doomed)
    OBVIOUS
  <2>1. d.templates[i] \in TemplateRow
    BY <1>1, TableFacts
  <2>2. ts[i] = [d.templates[i] EXCEPT !.live = d.templates[i].live /\ i \notin doomed]
    OBVIOUS
  <2> HIDE DEF ts, doomed
  <2> QED BY <2>1, <2>2 DEF TemplateRow, SameTemplate
<1>4. ts \in Seq(TemplateRow) /\ Len(ts) = Len(d.templates) /\ DOMAIN ts = DOMAIN d.templates
  <2>1. Len(d.templates) \in Nat /\ DOMAIN d.templates = 1..Len(d.templates)
    BY <1>1, TableFacts
  <2>2. ts \in [1..Len(d.templates) -> TemplateRow]
    BY <1>3, <2>1
  <2> HIDE DEF ts
  <2> QED BY <2>1, <2>2, FunctionIsSeq
<1> HIDE DEF ts, doomed
<1>5. \A p \in DOMAIN d.projects : ts[d.projects[p].template].live
  BY <1>2, <1>3 DEF Whole, Bound, LiveTemplates, Indices
<1>6. Len(d.templates) <= Len(ts)
  BY <1>1, <1>4, TableFacts
<1>7. Evolves(d, e) /\ Kept(d, e)
  BY <1>2, <1>3, <1>4, <1>5, <1>6, TemplatesEvolve
<1>8. e.templates = ts
  BY <1>1, <1>2, <1>4, Columns
<1>9. LiveTemplates(e) = LiveTemplates(d) \ doomed
  BY <1>3, <1>4, <1>8 DEF LiveTemplates, Indices
<1> QED BY <1>7, <1>9 DEF doomed

-----------------------------------------------------------------------------
(* Projects and units.                                                     *)

LEMMA AddProject ==
  ASSUME NEW d, Whole(d), NEW row \in ProjectRow, Bound(d, row), Staffed(d, row),
         Fits(d.templates[row.template].shape, row.k, row.max),
         NEW e, e = [d EXCEPT !.projects = Append(d.projects, row)]
  PROVE  /\ Evolves(d, e) /\ Kept(d, e)
         /\ e.templates = d.templates /\ e.units = d.units /\ e.configs = d.configs /\ e.raters = d.raters
         /\ Len(e.projects) = Len(d.projects) + 1 /\ e.projects[Len(e.projects)] = row
<1> DEFINE ps == Append(d.projects, row)
<1>1. d \in Databases /\ d.projects \in Seq(ProjectRow) /\ Len(d.projects) \in Nat /\ DOMAIN d.projects = 1..Len(d.projects)
  BY DatabaseFacts, TableFacts DEF Whole
<1>2. /\ ps \in Seq(ProjectRow) /\ Len(ps) = Len(d.projects) + 1 /\ DOMAIN ps = 1..Len(d.projects) + 1
      /\ \A p \in DOMAIN d.projects : ps[p] = d.projects[p]
      /\ ps[Len(d.projects) + 1] = row
  BY <1>1, AppendFacts
<1>3. \A p \in DOMAIN ps : p \in DOMAIN d.projects \/ p = Len(d.projects) + 1
  BY <1>1, <1>2
<1>4. e = [d EXCEPT !.projects = ps]
  OBVIOUS
<1> HIDE DEF ps
<1>5. \A p \in DOMAIN ps : Bound(d, ps[p]) /\ Staffed(d, ps[p])
  BY <1>2, <1>3 DEF Whole
<1>6. Len(d.projects) <= Len(ps)
  BY <1>1, <1>2
<1>7. Evolves(d, e) /\ (ToldApart(d) => ToldApart(e))
  BY <1>2, <1>4, <1>5, <1>6, ProjectsEvolve
<1>8. ASSUME Collectable(d) PROVE Collectable(e)
  <2>1. \A p \in DOMAIN ps : Fits(d.templates[ps[p].template].shape, ps[p].k, ps[p].max)
    BY <1>2, <1>3, <1>8 DEF Collectable, ShapeOf, Indices
  <2>2. \A u \in DOMAIN d.units : Covered(d.units[u], ps[d.units[u].project].k)
    BY <1>2, <1>8 DEF Collectable, Indices, Covered, Whole, Numbered
  <2> QED BY <1>2, <1>4, <1>5, <1>6, <2>1, <2>2, ProjectsEvolve
<1>9. e.projects = ps /\ e.templates = d.templates /\ e.units = d.units /\ e.configs = d.configs /\ e.raters = d.raters
  BY <1>1, <1>2, <1>4, Columns
<1>10. Untouched(d, e)
  BY <1>2, <1>9 DEF Untouched
<1> QED BY <1>2, <1>7, <1>8, <1>9, <1>10 DEF Kept, InOrder

LEMMA CreateProjectEvolves ==
  ASSUME NEW v, NEW d, Whole(v), Whole(d), Later(v, d),
         NEW t \in LiveTemplates(v), NEW k \in Nat, NEW max \in Nat, NEW e \in CreateProject(v, d, t, k, max)
  PROVE  Evolves(d, e) /\ Kept(d, e)
<1> DEFINE row == Project(v, t, k, max)
<1>1. v \in Databases /\ d \in Databases /\ t \in DOMAIN v.templates /\ v.templates[t] \in TemplateRow
  BY LiveRow DEF Whole
<1>2. t \in DOMAIN d.templates /\ SameTemplate(v.templates[t], d.templates[t])
  BY <1>1, StillThere DEF Later
<1>3. Fits(v.templates[t].shape, k, max) /\ d.templates[t].live /\ e = [d EXCEPT !.projects = Append(d.projects, row)]
  BY DEF CreateProject
<1>4. row.template = t /\ row.version = v.templates[t].version /\ row.k = k /\ row.max = max /\ row.judges = <<>>
  BY DEF Project
<1>5. row \in ProjectRow
  <2>1. t \in Nat
    BY <1>1, TableFacts
  <2>2. <<>> \in Seq(Enrollment)
    BY EmptySeq
  <2> QED BY <1>1, <2>1, <2>2 DEF Project, ProjectRow, TemplateRow
<1> HIDE DEF row
<1>6. Bound(d, row)
  BY <1>2, <1>3, <1>4 DEF Bound, LiveTemplates, Indices, SameTemplate
<1>7. Staffed(d, row)
  BY <1>4 DEF Staffed
<1>8. Fits(d.templates[row.template].shape, row.k, row.max)
  BY <1>2, <1>3, <1>4 DEF SameTemplate
<1> QED BY <1>3, <1>5, <1>6, <1>7, <1>8, AddProject

\* A plan of so many slots numbers them from there on.
LEMMA PlanFacts ==
  ASSUME NEW shape \in Shapes, NEW count \in Nat, NEW from \in Nat
  PROVE  /\ Plan(shape, count, from) \in SUBSET SlotRow
         /\ IsFiniteSet(Plan(shape, count, from)) /\ Cardinality(Plan(shape, count, from)) = count
         /\ \A s \in Plan(shape, count, from) :
              /\ from < s.id /\ s.id <= from + count
              /\ \A t \in Plan(shape, count, from) : s.id = t.id => s = t
<1> DEFINE slot(i) == [id |-> from + i, variant |-> IF VariantsOf[shape] = 1 THEN 0 ELSE 1 + (i % VariantsOf[shape]),
                      filled |-> FALSE]
           P == {slot(i) : i \in 1..count}
           f == [i \in 1..count |-> slot(i)]
<1>1. Plan(shape, count, from) = P
  BY DEF Plan
<1>2. \A i \in 1..count : slot(i) \in SlotRow
  <2> SUFFICES ASSUME NEW i \in 1..count PROVE slot(i) \in SlotRow
    OBVIOUS
  <2>1. VariantsOf[shape] \in Nat \ {0}
    BY SettingsAssumption
  <2>2. i % VariantsOf[shape] \in Nat
    BY <2>1
  <2>3. (IF VariantsOf[shape] = 1 THEN 0 ELSE 1 + (i % VariantsOf[shape])) \in Nat
    BY <2>2
  <2> QED BY <2>3 DEF SlotRow
<1>3. \A i \in 1..count : slot(i).id = from + i
  OBVIOUS
<1> HIDE DEF slot
<1>4. \A i, j \in 1..count : slot(i).id = slot(j).id => i = j
  BY <1>3
<1>5. f \in Bijection(1..count, P)
  BY <1>4 DEF Bijection, Injection, Surjection, IsInjective
<1>6. IsFiniteSet(1..count) /\ Cardinality(1..count) = count
  BY FS_Interval
<1>7. IsFiniteSet(P) /\ Cardinality(P) = count
  BY <1>5, <1>6, FS_Bijection DEF ExistsBijection
<1>8. \A s \in P : from < s.id /\ s.id <= from + count /\ \A t \in P : s.id = t.id => s = t
  BY <1>3, <1>4
<1>9. P \in SUBSET SlotRow
  BY <1>2
<1> QED BY <1>1, <1>7, <1>8, <1>9

LEMMA IngestEvolves ==
  ASSUME NEW v, NEW d, Whole(v), Whole(d), Later(v, d), NEW p \in DOMAIN v.projects, NEW e \in IngestUnit(v, d, p)
  PROVE  Evolves(d, e) /\ Untouched(d, e) /\ (v = d => InOrder(d, e))
<1> DEFINE k == v.projects[p].k
           plan == Plan(ShapeOf(v, p), k, 0)
           row == Unit(p, k, ShapeOf(v, p))
           us == Append(d.units, row)
<1>1. v \in Databases /\ d \in Databases /\ d.units \in Seq(UnitRow) /\ p \in DOMAIN d.projects /\ p \in Nat
  BY StillThere, DatabaseFacts, TableFacts DEF Whole
<1>2. k \in Nat /\ ShapeOf(v, p) \in Shapes
  BY <1>1, TableFacts DEF ShapeOf, Whole, Bound, LiveTemplates, Indices, ProjectRow, TemplateRow
<1>3. e = [d EXCEPT !.units = us]
  BY DEF IngestUnit
<1>4. /\ plan \in SUBSET SlotRow /\ IsFiniteSet(plan) /\ Cardinality(plan) = k
      /\ \A s \in plan : s.id <= k /\ \A t \in plan : s.id = t.id => s = t
  BY <1>2, PlanFacts
<1> HIDE DEF plan
<1>5. row \in UnitRow /\ row.project = p /\ row.next = k /\ row.slots = plan
  <2>1. row = [project |-> p, finalized |-> FALSE, human |-> FALSE, passed |-> FALSE, next |-> k, slots |-> plan]
    BY DEF Unit, plan
  <2> HIDE DEF row
  <2> QED BY <1>1, <1>2, <1>4, <2>1 DEF UnitRow
<1> HIDE DEF row
<1>6. Numbered(d, row)
  BY <1>1, <1>4, <1>5 DEF Numbered
<1>7. /\ us \in Seq(UnitRow) /\ Len(us) = Len(d.units) + 1 /\ DOMAIN us = 1..Len(d.units) + 1
      /\ \A u \in DOMAIN d.units : us[u] = d.units[u]
      /\ us[Len(d.units) + 1] = row
  BY <1>1, <1>5, AppendFacts
<1>8. Len(d.units) \in Nat /\ DOMAIN d.units = 1..Len(d.units)
  BY <1>1, TableFacts
<1>9. \A u \in DOMAIN us : u \in DOMAIN d.units \/ u = Len(d.units) + 1
  BY <1>7, <1>8
<1> HIDE DEF us
<1>10. \A u \in DOMAIN us : Numbered(d, us[u])
  BY <1>6, <1>7, <1>9 DEF Whole
<1>11. Len(d.units) <= Len(us)
  BY <1>7, <1>8
<1>12. Evolves(d, e) /\ (ToldApart(d) => ToldApart(e))
  BY <1>3, <1>7, <1>10, <1>11, UnitsEvolve
<1>13. Untouched(d, e)
  <2>1. e.units = us /\ e.projects = d.projects
    BY <1>1, <1>3, <1>7, Columns
  <2> QED BY <1>7, <2>1 DEF Untouched
<1>14. ASSUME v = d, Collectable(d) PROVE Collectable(e)
  <2>1. \A u \in DOMAIN us : Covered(us[u], d.projects[us[u].project].k)
    <3> SUFFICES ASSUME NEW u \in DOMAIN us PROVE Covered(us[u], d.projects[us[u].project].k)
      OBVIOUS
    <3>1. CASE u \in DOMAIN d.units
      BY <1>7, <1>14, <3>1 DEF Collectable, Indices, Covered
    <3>2. CASE u = Len(d.units) + 1
      BY <1>2, <1>4, <1>5, <1>7, <1>14, <3>2 DEF Covered
    <3> QED BY <1>9, <3>1, <3>2
  <2> QED BY <1>3, <1>7, <1>10, <1>11, <1>14, <2>1, UnitsEvolve
<1> QED BY <1>12, <1>13, <1>14 DEF InOrder

\* The slots of a unit, and how many are lacking or too many.
LEMMA UnitFacts ==
  ASSUME NEW v, Whole(v), NEW u \in DOMAIN v.units
  PROVE  /\ v.units[u] \in UnitRow /\ v.units[u].slots \subseteq SlotRow /\ IsFiniteSet(v.units[u].slots)
         /\ v.units[u].next \in Nat
         /\ Cardinality(v.units[u].slots) \in Nat
<1>1. v.units[u] \in UnitRow
  BY TableFacts DEF Whole
<1>2. IsFiniteSet(v.units[u].slots)
  BY DEF Whole, Numbered
<1> QED BY <1>1, <1>2, FS_CardinalityType DEF UnitRow

\* What Reshaped leaves.  Unless the units have changed since they were read, only open
\* slots of the units of p are gone, and none of these units lacks slots now that did not.
Refit(v, d, e, p, k) ==
  /\ Evolves(d, e) /\ (ToldApart(d) => ToldApart(e))
  /\ e.templates = d.templates /\ e.projects = d.projects /\ e.raters = d.raters /\ e.configs = d.configs
  /\ DOMAIN e.units = DOMAIN d.units
  /\ \A u \in DOMAIN d.units : e.units[u].project = d.units[u].project
  /\ v.units = d.units =>
       /\ Spared(d, e, p)
       /\ \A u \in DOMAIN d.units :
            d.units[u].project = p /\ Covered(d.units[u], v.projects[p].k) => Covered(e.units[u], k)

LEMMA GrownRefits ==
  ASSUME NEW v, NEW d, Whole(v), Whole(d), Later(v, d), NEW p \in DOMAIN v.projects,
         NEW k \in Nat, NEW shape \in Shapes, NEW e \in Grown(v, d, p, k, shape)
  PROVE  Refit(v, d, e, p, k)
<1> DEFINE G == Growing(v, p, k)
           L == Lacking(v, p, k)
           more(u) == Missing(v, u, k)
           plan(u) == Plan(shape, more(u), d.units[u].next)
           row(u) == [d.units[u] EXCEPT !.slots = @ \cup plan(u), !.next = @ + more(u), !.passed = FALSE]
           left(u) == [d.units[u] EXCEPT !.passed = TRUE]
           us == [u \in DOMAIN d.units |-> IF u \in G THEN row(u) ELSE IF u \in L THEN left(u) ELSE d.units[u]]
<1>1. v \in Databases /\ d \in Databases /\ d.units \in Seq(UnitRow) /\ Len(d.units) \in Nat /\ DOMAIN d.units = 1..Len(d.units)
  BY DatabaseFacts, TableFacts DEF Whole
<1>2. e = [d EXCEPT !.units = us]
  BY DEF Grown
<1>3. G \subseteq DOMAIN v.units /\ DOMAIN v.units \subseteq DOMAIN d.units
  BY <1>1, StillThere DEF Growing, Lacking, UnitsOf, Indices
<1>4. \A u \in G : more(u) \in Nat /\ more(u) = k - Cardinality(v.units[u].slots)
  <2> SUFFICES ASSUME NEW u \in G PROVE more(u) \in Nat /\ more(u) = k - Cardinality(v.units[u].slots)
    OBVIOUS
  <2>1. Cardinality(v.units[u].slots) \in Nat
    BY <1>3, UnitFacts
  <2>2. more(u) > 0
    BY DEF Growing, Lacking
  <2> QED BY <2>1, <2>2 DEF Missing
<1>5. ASSUME NEW u \in G
      PROVE  /\ row(u) \in UnitRow /\ Numbered(d, row(u))
             /\ row(u).project = d.units[u].project
             /\ d.units[u].slots \subseteq row(u).slots
             /\ v.units = d.units => Cardinality(row(u).slots) = k
  <2> DEFINE old == d.units[u].slots
             new == plan(u)
  <2>1. /\ d.units[u] \in UnitRow /\ old \subseteq SlotRow /\ IsFiniteSet(old) /\ d.units[u].next \in Nat
        /\ Cardinality(old) \in Nat
    BY <1>3, UnitFacts
  <2>2. more(u) \in Nat /\ more(u) = k - Cardinality(v.units[u].slots)
    BY <1>4
  <2> HIDE DEF more
  <2>3. /\ new \subseteq SlotRow /\ IsFiniteSet(new) /\ Cardinality(new) = more(u)
        /\ \A s \in new : d.units[u].next < s.id /\ s.id <= d.units[u].next + more(u)
             /\ \A t \in new : s.id = t.id => s = t
    BY <2>1, <2>2, PlanFacts
  <2> HIDE DEF plan
  <2>4. /\ row(u) \in UnitRow /\ row(u).project = d.units[u].project
        /\ row(u).slots = old \cup new /\ row(u).next = d.units[u].next + more(u)
    <3>1. d.units[u].next + more(u) \in Nat /\ old \cup new \in SUBSET SlotRow
      BY <2>1, <2>2, <2>3
    <3> QED BY <2>1, <3>1 DEF UnitRow
  <2> HIDE DEF row
  <2>5. \A s \in old : s.id \in Nat /\ s.id <= d.units[u].next /\ \A t \in old : s.id = t.id => s = t
    BY <1>3, <2>1 DEF Whole, Numbered, SlotRow
  <2>6. \A s \in new : s.id \in Nat
    BY <2>3 DEF SlotRow
  <2>7. \A s \in old, t \in new : s.id < t.id
    BY <2>1, <2>3, <2>5, <2>6
  <2>8. IsFiniteSet(old \cup new) /\ Cardinality(old \cup new) = Cardinality(old) + Cardinality(new)
    <3>1. old \cap new = {}
      BY <2>5, <2>6, <2>7
    <3>2. IsFiniteSet(old \cup new) /\ Cardinality(old \cup new) = Cardinality(old) + Cardinality(new) - Cardinality(old \cap new)
      BY <2>1, <2>3, FS_Union
    <3>3. Cardinality(old \cap new) = 0
      BY <3>1, FS_EmptySet
    <3> QED BY <2>1, <2>2, <2>3, <3>2, <3>3
  <2>9. \A s \in old \cup new : s.id <= d.units[u].next + more(u) /\ \A t \in old \cup new : s.id = t.id => s = t
    BY <2>1, <2>2, <2>3, <2>5, <2>6, <2>7
  <2>10. Numbered(d, row(u))
    BY <1>3, <2>4, <2>8, <2>9 DEF Numbered, Whole
  <2>11. v.units = d.units => Cardinality(row(u).slots) = k
    BY <2>1, <2>2, <2>3, <2>4, <2>8
  <2> QED BY <2>4, <2>10, <2>11
<1> HIDE DEF row, more
<1>15. ASSUME NEW u \in DOMAIN d.units
       PROVE  /\ left(u) \in UnitRow /\ Numbered(d, left(u))
              /\ left(u).project = d.units[u].project /\ left(u).slots = d.units[u].slots /\ left(u).passed
  <2>1. /\ left(u) \in UnitRow /\ left(u).project = d.units[u].project /\ left(u).slots = d.units[u].slots
        /\ left(u).next = d.units[u].next /\ left(u).passed
    BY UnitFacts DEF UnitRow
  <2> HIDE DEF left
  <2> QED BY <2>1 DEF Whole, Numbered
<1> HIDE DEF left, G, L
<1>6. us \in Seq(UnitRow) /\ Len(us) = Len(d.units) /\ DOMAIN us = DOMAIN d.units
  <2>1. us \in [1..Len(d.units) -> UnitRow]
    BY <1>1, <1>5, <1>15, UnitFacts
  <2> HIDE DEF us
  <2> QED BY <1>1, <2>1, FunctionIsSeq
<1>7. \A u \in DOMAIN us : Numbered(d, us[u])
  BY <1>5, <1>15 DEF Whole
<1>8. \A u \in DOMAIN d.units : us[u].project = d.units[u].project /\ d.units[u].slots \subseteq us[u].slots
  BY <1>5, <1>15
<1>9. e.units = us /\ e.templates = d.templates /\ e.projects = d.projects /\ e.raters = d.raters /\ e.configs = d.configs
  <2> HIDE DEF us
  <2> QED BY <1>1, <1>2, <1>6, Columns
<1>10. Evolves(d, e) /\ (ToldApart(d) => ToldApart(e))
  <2>1. Len(d.units) <= Len(us) /\ \A u \in DOMAIN d.units : us[u].project = d.units[u].project
    <3>1. \A u \in DOMAIN d.units : us[u].project = d.units[u].project
      BY <1>8
    <3> HIDE DEF us
    <3>2. Len(d.units) <= Len(us)
      BY <1>1, <1>6
    <3> QED BY <3>1, <3>2
  <2> HIDE DEF us
  <2> QED BY <1>2, <1>6, <1>7, <2>1, UnitsEvolve
<1>12. ASSUME v.units = d.units, NEW u \in DOMAIN d.units
       PROVE  /\ d.units[u].project # p => e.units[u] = d.units[u]
              /\ d.units[u].project = p => Covered(e.units[u], k)
  <2>1. v.units = d.units
    BY <1>12
  <2>2. CASE u \in G
    <3>1. d.units[u].project = p
      BY <2>1, <2>2 DEF G, Growing, Lacking, UnitsOf, Indices
    <3>2. e.units[u] = row(u) /\ Cardinality(row(u).slots) = k
      BY <1>5, <1>9, <2>1, <2>2
    <3> QED BY <3>1, <3>2 DEF Covered
  <2>4. CASE u \notin G /\ u \in L
    <3>1. d.units[u].project = p
      BY <2>1, <2>4 DEF L, Lacking, UnitsOf, Indices
    <3>2. e.units[u] = left(u) /\ left(u).passed
      BY <1>9, <1>15, <2>4
    <3> QED BY <3>1, <3>2 DEF Covered
  <2>3. CASE u \notin G /\ u \notin L
    <3>1. e.units[u] = d.units[u]
      BY <1>9, <2>3
    <3>2. ASSUME d.units[u].project = p PROVE Cardinality(d.units[u].slots) >= k
      <4>1. ~(Missing(v, u, k) > 0)
        BY <2>1, <2>3, <3>2 DEF L, Lacking, UnitsOf, Indices
      <4>2. Cardinality(d.units[u].slots) \in Nat
        BY UnitFacts
      <4> QED BY <2>1, <4>1, <4>2 DEF Missing
    <3> QED BY <3>1, <3>2 DEF Covered
  <2> QED BY <2>2, <2>3, <2>4
<1>13. DOMAIN e.units = DOMAIN d.units
  BY <1>6, <1>9
<1>14. \A u \in DOMAIN d.units : e.units[u].project = d.units[u].project
  BY <1>8, <1>9
<1>11. v.units = d.units => Spared(d, e, p)
  BY <1>8, <1>9, <1>12 DEF Spared
<1> HIDE DEF us
<1> QED BY <1>9, <1>10, <1>11, <1>12, <1>13, <1>14 DEF Refit

\* Of slots told apart by their ids, at most as many go as ids are named.
LEMMA StruckFacts ==
  ASSUME NEW S \in SUBSET SlotRow, IsFiniteSet(S), \A s, t \in S : s.id = t.id => s = t,
         NEW G, IsFiniteSet(G), NEW n \in Nat, Cardinality(G) = n
  PROVE  LET left == {s \in S : s.id \notin G} IN
         IsFiniteSet(left) /\ Cardinality(left) \in Nat /\ Cardinality(left) + n >= Cardinality(S)
<1> DEFINE left == {s \in S : s.id \notin G}
           struck == {s \in S : s.id \in G}
           f == [s \in struck |-> s.id]
<1>1. f \in Injection(struck, G)
  BY DEF Injection, IsInjective
<1>2. IsFiniteSet(struck) /\ Cardinality(struck) <= n
  <2> HIDE DEF f, struck
  <2> QED BY <1>1, FS_Injection
<1>3. left = S \ struck
  OBVIOUS
<1>4. IsFiniteSet(S \ struck) /\ Cardinality(S \ struck) = Cardinality(S) - Cardinality(S \cap struck)
  <2> HIDE DEF struck
  <2> QED BY FS_Difference
<1>5. S \cap struck = struck
  OBVIOUS
<1> HIDE DEF struck, left
<1>6. Cardinality(S) \in Nat /\ Cardinality(left) \in Nat /\ Cardinality(struck) \in Nat
  BY <1>2, <1>3, <1>4, FS_CardinalityType
<1>7. Cardinality(left) + n >= Cardinality(S)
  <2>1. Cardinality(left) = Cardinality(S) - Cardinality(struck)
    BY <1>3, <1>4, <1>5
  <2> QED BY <1>2, <1>6, <2>1
<1> QED BY <1>3, <1>4, <1>6, <1>7 DEF left

LEMMA ShrunkRefits ==
  ASSUME NEW v, NEW d, Whole(v), Whole(d), Later(v, d), NEW p \in DOMAIN v.projects,
         NEW k \in Nat, k < v.projects[p].k, NEW e \in Shrunk(v, d, p, k)
  PROVE  Refit(v, d, e, p, k)
<1> DEFINE U == UnitsOf(v, p)
           ids(u) == {s.id : s \in Removable(v, u)}
           row(gone, u) == [d.units[u] EXCEPT !.slots = {s \in @ : s.id \notin gone[u]}]
           rows(gone) == [u \in DOMAIN d.units |-> IF u \in U THEN row(gone, u) ELSE d.units[u]]
<1>1. PICK gone \in [U -> SUBSET UNION {ids(u) : u \in U}] :
        /\ \A u \in U : gone[u] \subseteq ids(u) /\ Cardinality(gone[u]) = Excess(v, u, k)
        /\ e = [d EXCEPT !.units = rows(gone)]
  BY DEF Shrunk
<1> DEFINE us == rows(gone)
<1>2. v \in Databases /\ d \in Databases /\ d.units \in Seq(UnitRow) /\ Len(d.units) \in Nat /\ DOMAIN d.units = 1..Len(d.units)
  BY DatabaseFacts, TableFacts DEF Whole
<1>3. U \subseteq DOMAIN v.units /\ DOMAIN v.units \subseteq DOMAIN d.units
  BY <1>2, StillThere DEF UnitsOf, Indices
<1>4. ASSUME NEW u \in U
      PROVE  /\ row(gone, u) \in UnitRow /\ Numbered(d, row(gone, u))
             /\ row(gone, u).project = d.units[u].project /\ row(gone, u).passed = d.units[u].passed
             /\ row(gone, u).slots = {s \in d.units[u].slots : s.id \notin gone[u]}
  <2>1. d.units[u] \in UnitRow /\ Numbered(d, d.units[u])
    BY <1>3, UnitFacts DEF Whole
  <2> DEFINE left == {s \in d.units[u].slots : s.id \notin gone[u]}
  <2>2. left \subseteq d.units[u].slots
    OBVIOUS
  <2>3. row(gone, u).slots = left
    BY <2>1 DEF UnitRow
  <2>4. /\ row(gone, u) \in UnitRow
        /\ row(gone, u).project = d.units[u].project /\ row(gone, u).passed = d.units[u].passed
        /\ row(gone, u).next = d.units[u].next
    BY <2>1 DEF UnitRow
  <2> HIDE DEF left, row
  <2>5. IsFiniteSet(left)
    BY <2>1, <2>2, FS_Subset DEF Numbered
  <2>6. Numbered(d, row(gone, u))
    BY <2>1, <2>2, <2>3, <2>4, <2>5 DEF Numbered
  <2> QED BY <2>3, <2>4, <2>6 DEF left
<1> HIDE DEF row
<1>5. us \in Seq(UnitRow) /\ Len(us) = Len(d.units) /\ DOMAIN us = DOMAIN d.units
  <2>1. us \in [1..Len(d.units) -> UnitRow]
    BY <1>2, <1>4, UnitFacts
  <2> HIDE DEF us
  <2> QED BY <1>2, <2>1, FunctionIsSeq
<1>6. \A u \in DOMAIN us : Numbered(d, us[u])
  BY <1>4 DEF Whole
<1>7. \A u \in DOMAIN d.units : us[u].project = d.units[u].project /\ us[u].passed = d.units[u].passed
  BY <1>4
<1>8. e.units = us /\ e.templates = d.templates /\ e.projects = d.projects /\ e.raters = d.raters /\ e.configs = d.configs
  <2>1. e = [d EXCEPT !.units = us]
    BY <1>1
  <2> HIDE DEF us
  <2> QED BY <1>2, <1>5, <2>1, Columns
<1>9. Evolves(d, e) /\ (ToldApart(d) => ToldApart(e))
  <2>1. e = [d EXCEPT !.units = us]
    BY <1>1
  <2> HIDE DEF us
  <2>2. Len(d.units) <= Len(us)
    BY <1>2, <1>5
  <2> QED BY <1>5, <1>6, <1>7, <2>1, <2>2, UnitsEvolve
<1>10. ASSUME v.units = d.units, NEW u \in DOMAIN d.units
       PROVE  /\ \A s \in d.units[u].slots : s.filled => s \in e.units[u].slots
              /\ d.units[u].project # p => e.units[u] = d.units[u]
              /\ d.units[u].project = p /\ Cardinality(d.units[u].slots) >= v.projects[p].k => Cardinality(e.units[u].slots) >= k
  <2>1. CASE u \notin U
    <3>1. e.units[u] = d.units[u] /\ d.units[u].project # p
      BY <1>8, <1>10, <2>1 DEF UnitsOf, Indices
    <3> QED BY <3>1
  <2>2. CASE u \in U
    <3> DEFINE S == d.units[u].slots
    <3>1. e.units[u].slots = {s \in S : s.id \notin gone[u]}
      BY <1>4, <1>8, <2>2
    <3>2. S \in SUBSET SlotRow /\ IsFiniteSet(S) /\ Cardinality(S) \in Nat
      BY UnitFacts
    <3>3. \A s, t \in S : s.id = t.id => s = t
      BY DEF Whole, Numbered
    <3>4. \A i \in gone[u] : \E s \in S : ~s.filled /\ s.id = i
      BY <1>1, <1>10, <2>2 DEF Removable, Open
    <3>5. \A s \in S : s.filled => s.id \notin gone[u]
      BY <3>3, <3>4
    <3>6. IsFiniteSet(gone[u]) /\ Cardinality(gone[u]) = Excess(v, u, k)
      <4> DEFINE f == [s \in S |-> s.id]
                 T == {f[s] : s \in S}
      <4>1. f \in [S -> Nat]
        BY <3>2 DEF SlotRow
      <4>2. gone[u] \subseteq T
        BY <3>4
      <4>3. IsFiniteSet(T)
        <5> HIDE DEF f, S
        <5> QED BY <3>2, <4>1, ImageFacts, SMTT(30)
      <4> HIDE DEF T
      <4>4. IsFiniteSet(gone[u])
        BY <4>2, <4>3, FS_Subset
      <4> QED BY <1>1, <2>2, <4>4
    <3>7. Excess(v, u, k) \in Nat /\ (Cardinality(S) >= k => Excess(v, u, k) = Cardinality(S) - k)
      BY <1>10, <3>2 DEF Excess
    <3>8. v.projects[p].k \in Nat
      BY <1>2, TableFacts DEF ProjectRow
    <3> HIDE DEF S
    <3>9. Cardinality(e.units[u].slots) \in Nat /\ Cardinality(e.units[u].slots) + Excess(v, u, k) >= Cardinality(S)
      BY <3>1, <3>2, <3>3, <3>6, <3>7, StruckFacts
    <3>10. Cardinality(S) >= v.projects[p].k => Cardinality(e.units[u].slots) >= k
      BY <3>2, <3>7, <3>8, <3>9
    <3>11. d.units[u].project = p
      BY <1>10, <2>2 DEF UnitsOf, Indices
    <3> QED BY <3>1, <3>5, <3>10, <3>11 DEF S
  <2> QED BY <2>1, <2>2
<1>11. v.units = d.units => Spared(d, e, p)
  BY <1>10 DEF Spared
<1>12. DOMAIN e.units = DOMAIN d.units
  BY <1>5, <1>8
<1>13. \A u \in DOMAIN d.units : e.units[u].project = d.units[u].project /\ e.units[u].passed = d.units[u].passed
  BY <1>7, <1>8
<1>14. ASSUME v.units = d.units, NEW u \in DOMAIN d.units, d.units[u].project = p, Covered(d.units[u], v.projects[p].k)
       PROVE  Covered(e.units[u], k)
  BY <1>10, <1>13, <1>14 DEF Covered
<1> HIDE DEF us
<1> QED BY <1>8, <1>9, <1>11, <1>12, <1>13, <1>14 DEF Refit

LEMMA ReshapedRefits ==
  ASSUME NEW v, NEW d, Whole(v), Whole(d), Later(v, d), NEW p \in DOMAIN v.projects,
         NEW k \in Nat, NEW shape \in Shapes, NEW e \in Reshaped(v, d, p, k, shape)
  PROVE  Refit(v, d, e, p, k)
<1>1. v.projects[p].k \in Nat
  BY TableFacts DEF Whole, ProjectRow
<1>2. CASE k > v.projects[p].k
  BY <1>1, <1>2, GrownRefits DEF Reshaped
<1>3. CASE k < v.projects[p].k
  BY <1>1, <1>3, ShrunkRefits DEF Reshaped
<1>4. CASE k = v.projects[p].k
  <2>1. e = d
    BY <1>1, <1>4 DEF Reshaped
  <2>2. Evolves(d, d)
    BY LaterSelf DEF Whole, Evolves
  <2>3. Spared(d, d, p)
    BY DEF Spared
  <2>4. \A u \in DOMAIN d.units : Covered(d.units[u], v.projects[p].k) => Covered(d.units[u], k)
    BY <1>4
  <2>5. Refit(v, d, d, p, k)
    BY <2>2, <2>3, <2>4, Zenon DEF Refit
  <2> QED BY <2>1, <2>5
<1> QED BY <1>1, <1>2, <1>3, <1>4

LEMMA ReplaceProject ==
  ASSUME NEW d, Whole(d), NEW p \in DOMAIN d.projects, NEW row \in ProjectRow, Bound(d, row), Staffed(d, row),
         NEW e, e = [d EXCEPT !.projects = [d.projects EXCEPT ![p] = row]]
  PROVE  /\ Evolves(d, e) /\ (ToldApart(d) => ToldApart(e))
         /\ e.templates = d.templates /\ e.units = d.units /\ e.configs = d.configs /\ e.raters = d.raters
         /\ DOMAIN e.projects = DOMAIN d.projects
         /\ \A q \in DOMAIN d.projects : e.projects[q] = IF q = p THEN row ELSE d.projects[q]
<1> DEFINE ps == [d.projects EXCEPT ![p] = row]
<1>1. d \in Databases /\ d.projects \in Seq(ProjectRow)
  BY DatabaseFacts DEF Whole
<1>2. /\ ps \in Seq(ProjectRow) /\ Len(ps) = Len(d.projects) /\ DOMAIN ps = DOMAIN d.projects
      /\ \A q \in DOMAIN d.projects : ps[q] = IF q = p THEN row ELSE d.projects[q]
  BY <1>1, ReplaceFacts
<1>3. e = [d EXCEPT !.projects = ps]
  OBVIOUS
<1> HIDE DEF ps
<1>4. \A q \in DOMAIN ps : Bound(d, ps[q]) /\ Staffed(d, ps[q])
  BY <1>2 DEF Whole
<1>5. Len(d.projects) <= Len(ps)
  BY <1>1, <1>2, TableFacts
<1>6. Evolves(d, e) /\ (ToldApart(d) => ToldApart(e))
  BY <1>2, <1>3, <1>4, <1>5, ProjectsEvolve
<1>7. e.projects = ps /\ e.templates = d.templates /\ e.units = d.units /\ e.configs = d.configs /\ e.raters = d.raters
  BY <1>1, <1>2, <1>3, Columns
<1> QED BY <1>2, <1>6, <1>7

\* The schema a changed project is bound to: its own, or a copy just made.
LEMMA Rebound ==
  ASSUME NEW d, Whole(d), NEW name \in Names, NEW shape \in Shapes, NEW panels \in Orders,
         NEW c \in Insert(d, Template(name, 1, shape, panels))
  PROVE  /\ Evolves(d, c) /\ Kept(d, c)
         /\ Len(c.templates) = Len(d.templates) + 1 /\ Len(c.templates) \in LiveTemplates(c)
         /\ c.templates[Len(c.templates)].version = 1 /\ c.templates[Len(c.templates)].shape = shape
         /\ c.templates[Len(c.templates)].panels = panels
         /\ \A t \in DOMAIN d.templates : c.templates[t] = d.templates[t]
         /\ c.projects = d.projects /\ c.units = d.units /\ c.configs = d.configs /\ c.raters = d.raters
<1> DEFINE row == Template(name, 1, shape, panels)
<1>1. row \in TemplateRow /\ row.version = 1 /\ row.shape = shape /\ row.panels = panels /\ row.live
  BY DEF Template, TemplateRow
<1> HIDE DEF row
<1>2. Len(d.templates) \in Nat
  BY TableFacts DEF Whole
<1>3. /\ Evolves(d, c) /\ Kept(d, c)
      /\ Len(c.templates) = Len(d.templates) + 1 /\ DOMAIN c.templates = 1..Len(d.templates) + 1
      /\ c.templates[Len(c.templates)] = row
      /\ \A t \in DOMAIN d.templates : c.templates[t] = d.templates[t]
      /\ c.projects = d.projects /\ c.units = d.units /\ c.configs = d.configs /\ c.raters = d.raters
  BY <1>1, InsertEvolves DEF row
<1>4. Len(c.templates) \in LiveTemplates(c)
  BY <1>1, <1>2, <1>3 DEF LiveTemplates, Indices
<1> QED BY <1>1, <1>3, <1>4 DEF row

LEMMA UpdateEvolves ==
  ASSUME NEW v, NEW d, Whole(v), Whole(d), Later(v, d), NEW p \in DOMAIN v.projects,
         NEW shape \in Shapes, NEW panels \in Orders, NEW k \in Nat, NEW max \in Nat,
         NEW e \in UpdateProject(v, d, p, shape, panels, k, max)
  PROVE  /\ Evolves(d, e) /\ (v = d => InOrder(d, e) /\ Spared(d, e, p))
         /\ \A q \in DOMAIN d.projects : q # p => e.projects[q].template = d.projects[q].template
<1> DEFINE row == v.projects[p]
           same == shape = ShapeOf(v, p) /\ panels = PanelsOf(v, p)
           cloned == IF same THEN {d} ELSE Insert(d, Template(Name("project", p), 1, shape, panels))
           new(b) == [b.projects[p] EXCEPT !.k = Changed(row.k, k, @), !.max = Changed(row.max, max, @),
                        !.template = IF same THEN @ ELSE Len(b.templates), !.version = IF same THEN @ ELSE 1]
<1>1. /\ v \in Databases /\ d \in Databases /\ p \in DOMAIN d.projects /\ p \in Nat
      /\ row \in ProjectRow /\ d.projects[p] \in ProjectRow
  BY StillThere, TableFacts DEF Whole
<1>2. Fits(shape, k, max)
  BY DEF UpdateProject
<1>3. PICK b \in UNION {Reshaped(v, c, p, k, shape) : c \in cloned} : e = [b EXCEPT !.projects[p] = new(b)]
  BY <1>2 DEF UpdateProject
<1> PICK c \in cloned : b \in Reshaped(v, c, p, k, shape)
  OBVIOUS
<1>4. /\ Evolves(d, c) /\ Kept(d, c)
      /\ c.projects = d.projects /\ c.units = d.units
      /\ \A t \in DOMAIN d.templates : c.templates[t] = d.templates[t]
      /\ ~same => /\ Len(c.templates) \in LiveTemplates(c)
                  /\ c.templates[Len(c.templates)].version = 1 /\ c.templates[Len(c.templates)].shape = shape
  <2>1. CASE same
    <3>1. Evolves(d, d) /\ Kept(d, d)
      BY <1>1, LaterSelf DEF Evolves, Kept, InOrder, Untouched
    <3> QED BY <2>1, <3>1
  <2>2. CASE ~same
    <3>1. Name("project", p) \in Names
      BY <1>1 DEF Name, Names
    <3>2. c \in Insert(d, Template(Name("project", p), 1, shape, panels))
      BY <2>2
    <3> QED BY <2>2, <3>1, <3>2, Rebound
  <2> QED BY <2>1, <2>2
<1> HIDE DEF same, cloned
<1>5. Refit(v, c, b, p, k)
  BY <1>1, <1>4, LaterTransitive, ReshapedRefits DEF Evolves, Whole
<1>6. Whole(b) /\ b \in Databases /\ b.projects = d.projects /\ b.templates = c.templates /\ Evolves(d, b)
  BY <1>1, <1>4, <1>5, EvolvesTransitive DEF Refit, Evolves, Whole
<1>7. /\ new(b) \in ProjectRow /\ new(b).judges = d.projects[p].judges
      /\ new(b).template = IF same THEN d.projects[p].template ELSE Len(c.templates)
      /\ new(b).version = IF same THEN d.projects[p].version ELSE 1
      /\ new(b).k = Changed(row.k, k, d.projects[p].k) /\ new(b).max = Changed(row.max, max, d.projects[p].max)
  <2>1. Len(b.templates) \in Nat
    BY <1>6, TableFacts
  <2> QED BY <1>1, <1>6, <2>1 DEF ProjectRow, Changed
<1> HIDE DEF new
<1>8. e = [b EXCEPT !.projects = [b.projects EXCEPT ![p] = new(b)]]
  BY <1>3, <1>6 DEF Databases
<1>9. Bound(b, new(b))
  <2>1. CASE same
    BY <1>1, <1>6, <1>7, <2>1 DEF Whole, Bound
  <2>2. CASE ~same
    BY <1>4, <1>6, <1>7, <2>2 DEF Bound, LiveTemplates, Indices
  <2> QED BY <2>1, <2>2
<1>10. Staffed(b, new(b))
  <2>1. Staffed(b, b.projects[p])
    BY <1>1, <1>6 DEF Whole
  <2>2. new(b).judges = b.projects[p].judges
    BY <1>6, <1>7
  <2> QED BY <2>1, <2>2 DEF Staffed
<1>11. /\ Evolves(b, e) /\ (ToldApart(b) => ToldApart(e))
       /\ e.templates = b.templates /\ e.units = b.units
       /\ DOMAIN e.projects = DOMAIN b.projects
       /\ \A q \in DOMAIN b.projects : e.projects[q] = IF q = p THEN new(b) ELSE b.projects[q]
  BY <1>1, <1>6, <1>7, <1>8, <1>9, <1>10, ReplaceProject
<1>12. Evolves(d, e)
  BY <1>1, <1>6, <1>11, EvolvesTransitive
<1>13. ToldApart(d) => ToldApart(e)
  BY <1>4, <1>5, <1>11 DEF Refit, Kept, InOrder
<1>14. ASSUME v = d PROVE Spared(d, e, p)
  <2>1. Spared(c, b, p)
    BY <1>4, <1>5, <1>14 DEF Refit
  <2> QED BY <1>4, <1>11, <2>1 DEF Spared
<1>15. ASSUME v = d, Collectable(d), NEW q \in DOMAIN d.projects
       PROVE  /\ Fits(ShapeOf(e, q), e.projects[q].k, e.projects[q].max)
              /\ \A u \in DOMAIN e.units : e.units[u].project = q => Covered(e.units[u], e.projects[q].k)
  <2>1. /\ DOMAIN e.units = DOMAIN d.units
        /\ \A u \in DOMAIN d.units :
             /\ e.units[u].project = d.units[u].project
             /\ d.units[u].project # p => e.units[u] = d.units[u]
             /\ d.units[u].project = p /\ Covered(d.units[u], d.projects[p].k) => Covered(e.units[u], k)
    BY <1>4, <1>5, <1>11, <1>15 DEF Refit, Spared
  <2>2. d.projects[q].template \in DOMAIN d.templates
    BY DEF Whole, Bound, LiveTemplates, Indices
  <2>3. /\ Fits(ShapeOf(d, q), d.projects[q].k, d.projects[q].max)
        /\ \A u \in DOMAIN d.units : d.units[u].project = q => Covered(d.units[u], d.projects[q].k)
    BY <1>15 DEF Collectable, Indices, Covered
  <2>4. CASE q # p
    <3>1. e.projects[q] = d.projects[q] /\ ShapeOf(e, q) = ShapeOf(d, q)
      BY <1>4, <1>6, <1>11, <2>2, <2>4 DEF ShapeOf
    <3> QED BY <2>1, <2>3, <2>4, <3>1
  <2>5. CASE q = p
    <3>1. e.projects[p] = new(b)
      BY <1>1, <1>6, <1>11
    <3>2. e.projects[p].k = k /\ e.projects[p].max = max
      BY <1>7, <1>15, <3>1 DEF Changed
    <3>3. ShapeOf(e, p) = shape
      <4>1. CASE same
        BY <1>4, <1>6, <1>7, <1>11, <1>15, <2>2, <2>5, <3>1, <4>1 DEF ShapeOf, same
      <4>2. CASE ~same
        BY <1>4, <1>6, <1>7, <1>11, <3>1, <4>2 DEF ShapeOf
      <4> QED BY <4>1, <4>2
    <3>4. \A u \in DOMAIN e.units : e.units[u].project = p => Covered(e.units[u], k)
      BY <2>1, <2>3, <2>5
    <3> QED BY <1>2, <2>5, <3>2, <3>3, <3>4
  <2> QED BY <2>4, <2>5
<1>16. ASSUME v = d, Collectable(d) PROVE Collectable(e)
  <2>1. \A u \in DOMAIN e.units : Covered(e.units[u], e.projects[e.units[u].project].k)
    <3>1. \A u \in DOMAIN e.units : e.units[u].project \in DOMAIN d.projects
      BY <1>6, <1>11, <1>12 DEF Evolves, Whole, Numbered
    <3> QED BY <1>15, <1>16, <3>1
  <2>2. \A q \in DOMAIN e.projects : Fits(ShapeOf(e, q), e.projects[q].k, e.projects[q].max)
    BY <1>6, <1>11, <1>15, <1>16
  <2> QED BY <2>1, <2>2 DEF Collectable, Indices, Covered
<1>17. \A q \in DOMAIN d.projects : q # p => e.projects[q].template = d.projects[q].template
  BY <1>6, <1>11
<1> QED BY <1>12, <1>13, <1>14, <1>16, <1>17 DEF InOrder

-----------------------------------------------------------------------------
(* Judge configs, their raters, enrollment.                                *)

\* The config column of a project is written, with judges whose raters are their own.
LEMMA EnrollEvolves ==
  ASSUME NEW d, Whole(d), NEW p \in DOMAIN d.projects, NEW other \in Nat, NEW js \in Seq(Enrollment),
         Staffed(d, [judges |-> js]),
         NEW e, e = Configured(d, p, other, js)
  PROVE  /\ Evolves(d, e) /\ Kept(d, e)
         /\ e.templates = d.templates /\ e.units = d.units /\ e.configs = d.configs /\ e.raters = d.raters
<1> DEFINE row == [d.projects[p] EXCEPT !.other = other, !.judges = js]
<1>1. d \in Databases /\ d.projects \in Seq(ProjectRow) /\ d.projects[p] \in ProjectRow
  BY DatabaseFacts, TableFacts DEF Whole
<1>2. /\ row \in ProjectRow /\ row.judges = js /\ row.template = d.projects[p].template /\ row.version = d.projects[p].version
      /\ row.k = d.projects[p].k /\ row.max = d.projects[p].max
  BY <1>1 DEF ProjectRow
<1>3. e = [d EXCEPT !.projects = [d.projects EXCEPT ![p] = row]]
  BY DEF Configured
<1> HIDE DEF row
<1>4. Bound(d, row) /\ Staffed(d, row)
  BY <1>2 DEF Bound, Staffed, Whole
<1>5. /\ Evolves(d, e) /\ (ToldApart(d) => ToldApart(e))
      /\ e.templates = d.templates /\ e.units = d.units /\ e.configs = d.configs /\ e.raters = d.raters
      /\ DOMAIN e.projects = DOMAIN d.projects
      /\ \A q \in DOMAIN d.projects : e.projects[q] = IF q = p THEN row ELSE d.projects[q]
  BY <1>2, <1>3, <1>4, ReplaceProject
<1>6. Collectable(d) => Collectable(e)
  <2>1. \A q \in DOMAIN d.projects : /\ e.projects[q].template = d.projects[q].template
                                     /\ e.projects[q].k = d.projects[q].k /\ e.projects[q].max = d.projects[q].max
    BY <1>2, <1>5
  <2>2. \A u \in DOMAIN d.units : d.units[u].project \in DOMAIN d.projects
    BY DEF Whole, Numbered
  <2> QED BY <1>5, <2>1, <2>2 DEF Collectable, ShapeOf, Indices
<1>7. Untouched(d, e)
  BY <1>2, <1>5 DEF Untouched
<1> QED BY <1>5, <1>6, <1>7 DEF Kept, InOrder

LEMMA ReplaceConfigEvolves ==
  ASSUME NEW v, NEW d, Whole(v), Whole(d), Later(v, d), NEW p \in DOMAIN v.projects, NEW other \in Nat,
         NEW e \in ReplaceConfig(v, d, p, other)
  PROVE  Evolves(d, e) /\ Kept(d, e)
<1>1. e = Configured(d, p, other, <<>>)
  BY DEF ReplaceConfig
<1>2. p \in DOMAIN d.projects
  BY StillThere DEF Whole
<1>3. <<>> \in Seq(Enrollment) /\ Staffed(d, [judges |-> <<>>])
  BY EmptySeq DEF Staffed
<1> QED BY <1>1, <1>2, <1>3, EnrollEvolves

\* The next version of a name is greater than all versions of it that were read.
LEMMA NextVersionFacts ==
  ASSUME NEW v \in Databases, NEW name
  PROVE  /\ NextVersion(v, name) \in Nat
         /\ \A c \in DOMAIN v.configs : v.configs[c].name = name => v.configs[c].version < NextVersion(v, name)
<1> DEFINE I == {i \in Indices(v, "configs") : v.configs[i].name = name}
           f == [i \in I |-> v.configs[i].version]
           T == {f[i] : i \in I}
<1>1. I \in SUBSET (1..Len(v.configs)) /\ Len(v.configs) \in Nat
  BY TableFacts DEF Indices
<1>2. IsFiniteSet(I)
  <2>1. IsFiniteSet(1..Len(v.configs))
    BY <1>1, FS_Interval
  <2> QED BY <1>1, <2>1, FS_Subset
<1>3. f \in [I -> Nat]
  BY TableFacts DEF ConfigRow, Indices
<1>4. T \in SUBSET Nat
  BY <1>3
<1>5. IsFiniteSet(T)
  <2> HIDE DEF f, I
  <2> QED BY <1>2, <1>3, ImageFacts
<1>6. NextVersion(v, name) = 1 + Max({0} \cup T)
  <2>1. T = {v.configs[c].version : c \in I}
    OBVIOUS
  <2> QED BY <2>1 DEF NextVersion
<1>7. \A c \in DOMAIN v.configs : v.configs[c].name = name => v.configs[c].version \in T
  BY DEF Indices
<1> HIDE DEF T
<1>8. IsFiniteSet({0} \cup T)
  BY <1>5, FS_Singleton, FS_Union
<1>9. Max({0} \cup T) \in Nat /\ \A y \in {0} \cup T : y <= Max({0} \cup T)
  <2>1. {0} \cup T \in SUBSET Nat /\ {0} \cup T # {}
    BY <1>4
  <2>2. Max({0} \cup T) \in {0} \cup T /\ \A y \in {0} \cup T : y <= Max({0} \cup T)
    BY <1>8, <2>1, MaxFacts, Zenon
  <2> QED BY <2>1, <2>2
<1>10. \A y \in T : y \in Nat /\ y < 1 + Max({0} \cup T)
  BY <1>4, <1>9
<1>11. 1 + Max({0} \cup T) \in Nat
  BY <1>9
<1> QED BY <1>6, <1>7, <1>10, <1>11, Zenon

LEMMA CreateConfigEvolves ==
  ASSUME NEW v, NEW d, Whole(v), Whole(d), Later(v, d), NEW name \in STRING, NEW model \in Models,
         NEW e \in CreateConfig(v, d, name, model)
  PROVE  /\ Evolves(d, e) /\ Untouched(d, e) /\ (v = d => InOrder(d, e))
         /\ Len(e.configs) = Len(d.configs) + 1 /\ Len(e.configs) \in DOMAIN e.configs
         /\ e.raters = d.raters /\ e.projects = d.projects
<1> DEFINE row == [name |-> name, version |-> NextVersion(v, name), model |-> model]
           cs == Append(d.configs, row)
<1>1. v \in Databases /\ d \in Databases /\ d.configs \in Seq(ConfigRow) /\ Len(d.configs) \in Nat /\ DOMAIN d.configs = 1..Len(d.configs)
  BY DatabaseFacts, TableFacts DEF Whole
<1>2. e = [d EXCEPT !.configs = cs]
  BY DEF CreateConfig
<1>3. row \in ConfigRow
  BY <1>1, NextVersionFacts DEF ConfigRow
<1>4. /\ cs \in Seq(ConfigRow) /\ Len(cs) = Len(d.configs) + 1 /\ DOMAIN cs = 1..Len(d.configs) + 1
      /\ \A c \in DOMAIN d.configs : cs[c] = d.configs[c]
      /\ cs[Len(d.configs) + 1] = row
  BY <1>1, <1>3, AppendFacts
<1>5. row.name = name /\ row.version = NextVersion(v, name)
  OBVIOUS
<1> HIDE DEF cs, row
<1>6. Len(d.configs) <= Len(cs) /\ \A c \in DOMAIN cs : c \in DOMAIN d.configs \/ c = Len(d.configs) + 1
  BY <1>1, <1>4
<1>7. Evolves(d, e) /\ (Collectable(d) => Collectable(e)) /\ Untouched(d, e)
  BY <1>2, <1>4, <1>6, ConfigsEvolve
<1>8. e.configs = cs /\ e.raters = d.raters /\ e.projects = d.projects
  BY <1>1, <1>2, <1>4, Columns
<1>9. ASSUME v = d, ToldApart(d) PROVE ToldApart(e)
  <2>1. \A c \in DOMAIN d.configs : cs[c].name = name => cs[c].version # row.version
    <3>1. \A c \in DOMAIN d.configs : d.configs[c].name = name => d.configs[c].version < NextVersion(v, name)
      BY <1>1, <1>9, NextVersionFacts
    <3>2. NextVersion(v, name) \in Nat /\ \A c \in DOMAIN d.configs : d.configs[c].version \in Nat
      BY <1>1, NextVersionFacts, TableFacts DEF ConfigRow
    <3> QED BY <1>4, <1>5, <3>1, <3>2
  <2>2. \A a, c \in DOMAIN cs : cs[a].name = cs[c].name /\ cs[a].version = cs[c].version => a = c
    BY <1>4, <1>5, <1>6, <1>9, <2>1 DEF ToldApart, Indices
  <2> QED BY <1>8, <1>9, <2>2 DEF ToldApart, Indices
<1>10. Len(e.configs) \in DOMAIN e.configs
  BY <1>1, <1>4, <1>8
<1> QED BY <1>4, <1>7, <1>8, <1>9, <1>10 DEF InOrder

LEMMA AttachEvolves ==
  ASSUME NEW v, NEW d, Whole(v), Whole(d), Later(v, d), NEW p \in DOMAIN v.projects, NEW c \in DOMAIN d.configs,
         NEW e \in AttachJudge(v, d, p, c)
  PROVE  Evolves(d, e) /\ Untouched(d, e) /\ (v.raters = d.raters => InOrder(d, e))
<1> DEFINE known == RatersOf(v, d, c)
           b == IF known = {} THEN [d EXCEPT !.raters = Append(@, c)] ELSE d
           who == IF known = {} THEN {Len(b.raters)} ELSE known
<1>1. /\ v \in Databases /\ d \in Databases /\ d.raters \in Seq(Nat) /\ Len(d.raters) \in Nat /\ DOMAIN d.raters = 1..Len(d.raters)
      /\ v.projects[p] \in ProjectRow
  BY DatabaseFacts, TableFacts DEF Whole
<1>2. c \in Nat
  BY <1>1, TableFacts
<1>3. /\ Evolves(d, b) /\ Untouched(d, b) /\ (v.raters = d.raters => InOrder(d, b)) /\ b.projects = d.projects
      /\ \A a \in who : a \in Nat /\ a \in DOMAIN b.raters /\ b.raters[a] = c
  <2>1. CASE known = {}
    <3> DEFINE rs == Append(d.raters, c)
    <3>1. /\ rs \in Seq(Nat) /\ Len(rs) = Len(d.raters) + 1 /\ DOMAIN rs = 1..Len(d.raters) + 1
          /\ \A a \in DOMAIN d.raters : rs[a] = d.raters[a]
          /\ rs[Len(d.raters) + 1] = c
      BY <1>1, <1>2, AppendFacts
    <3>2. b = [d EXCEPT !.raters = rs]
      BY <2>1
    <3> HIDE DEF rs, b
    <3>3. Len(d.raters) <= Len(rs) /\ \A a \in DOMAIN rs : a \in DOMAIN d.raters \/ a = Len(d.raters) + 1
      BY <1>1, <3>1
    <3>4. \A a \in DOMAIN rs : rs[a] \in DOMAIN d.configs
      BY <3>1, <3>3 DEF Whole
    <3>5. Evolves(d, b) /\ (Collectable(d) => Collectable(b)) /\ Untouched(d, b)
      BY <3>1, <3>2, <3>3, <3>4, RatersEvolve
    <3>6. b.raters = rs /\ b.configs = d.configs /\ b.projects = d.projects
      BY <1>1, <3>1, <3>2, Columns
    <3>7. ASSUME v.raters = d.raters, ToldApart(d) PROVE ToldApart(b)
      <4>1. \A a \in DOMAIN d.raters : rs[a] # c
        BY <2>1, <3>1, <3>7 DEF RatersOf, Indices
      <4>2. IsInjective(rs)
        BY <3>1, <3>3, <3>7, <4>1 DEF ToldApart, IsInjective
      <4> QED BY <3>6, <3>7, <4>2 DEF ToldApart, Indices
    <3>8. \A a \in who : a \in Nat /\ a \in DOMAIN b.raters /\ b.raters[a] = c
      BY <1>1, <2>1, <3>1, <3>6
    <3>9. v.raters = d.raters => InOrder(d, b)
      BY <3>5, <3>7 DEF InOrder
    <3> QED BY <3>5, <3>6, <3>8, <3>9
  <2>2. CASE known # {}
    <3>1. b = d /\ who = known
      BY <2>2
    <3>2. Evolves(d, d) /\ Untouched(d, d) /\ InOrder(d, d)
      BY <1>1, LaterSelf DEF Evolves, InOrder, Untouched
    <3>3. \A a \in known : a \in DOMAIN d.raters /\ d.raters[a] = c
      BY <1>1, StillThere DEF RatersOf, Indices, Later
    <3>4. \A a \in who : a \in Nat /\ a \in DOMAIN b.raters /\ b.raters[a] = c
      <4>1. \A a \in DOMAIN d.raters : a \in Nat
        BY <1>1
      <4> QED BY <3>1, <3>3, <4>1
    <3> QED BY <3>1, <3>2, <3>4
  <2> QED BY <2>1, <2>2
<1>4. CASE Enrolled(v, p, c)
  <2>1. e = b
    BY <1>4 DEF AttachJudge
  <2> QED BY <1>3, <2>1
<1>5. CASE ~Enrolled(v, p, c)
  <2>1. PICK a \in who : e = Configured(b, p, v.projects[p].other, Append(v.projects[p].judges, [config |-> c, rater |-> a]))
    BY <1>5 DEF AttachJudge
  <2> DEFINE old == v.projects[p].judges
             entry == [config |-> c, rater |-> a]
             js == Append(old, entry)
  <2> HIDE DEF known, b, who
  <2>2. Whole(b) /\ b \in Databases /\ Later(v, b) /\ p \in DOMAIN b.projects
    BY <1>1, <1>3, LaterTransitive, StillThere DEF Evolves, Whole
  <2>3. old \in Seq(Enrollment) /\ v.projects[p].other \in Nat /\ entry \in Enrollment
    BY <1>1, <1>2, <1>3 DEF ProjectRow, Enrollment
  <2>4. /\ js \in Seq(Enrollment) /\ DOMAIN js = 1..Len(old) + 1
        /\ \A i \in DOMAIN old : js[i] = old[i]
        /\ js[Len(old) + 1] = entry
    BY <2>3, AppendFacts
  <2>5. \A i \in DOMAIN js : i \in DOMAIN old \/ i = Len(old) + 1
    BY <2>3, <2>4, SeqFacts
  <2>6. \A i \in DOMAIN old : old[i].config # c
    BY <1>5 DEF Enrolled
  <2>7. Staffed(b, v.projects[p])
    BY <1>1, <2>2, StillStaffed DEF Whole
  <2> HIDE DEF js
  <2>8. Staffed(b, [judges |-> js])
    <3> SUFFICES ASSUME NEW i \in DOMAIN js
                 PROVE  /\ js[i].rater \in DOMAIN b.raters /\ b.raters[js[i].rater] = js[i].config
                        /\ \A j \in DOMAIN js : js[j].config = js[i].config => i = j
      BY DEF Staffed
    <3>1. CASE i \in DOMAIN old
      <4>1. js[i] = old[i] /\ js[i].config # c
        BY <2>4, <2>6, <3>1
      <4>2. js[i].rater \in DOMAIN b.raters /\ b.raters[js[i].rater] = js[i].config
        BY <2>7, <3>1, <4>1 DEF Staffed
      <4>3. ASSUME NEW j \in DOMAIN js, js[j].config = js[i].config PROVE i = j
        <5>1. j \in DOMAIN old /\ js[j] = old[j]
          BY <2>4, <2>5, <4>1, <4>3
        <5> QED BY <2>7, <3>1, <4>1, <4>3, <5>1 DEF Staffed
      <4> QED BY <4>2, <4>3
    <3>2. CASE i = Len(old) + 1
      <4>1. js[i] = entry
        BY <2>4, <3>2
      <4>2. js[i].rater \in DOMAIN b.raters /\ b.raters[js[i].rater] = js[i].config
        BY <1>3, <4>1
      <4>3. ASSUME NEW j \in DOMAIN js, js[j].config = js[i].config PROVE i = j
        <5>1. j \notin DOMAIN old
          BY <2>4, <2>6, <4>1, <4>3
        <5> QED BY <2>5, <3>2, <5>1
      <4> QED BY <4>2, <4>3
    <3> QED BY <2>5, <3>1, <3>2
  <2>9. e = Configured(b, p, v.projects[p].other, js)
    BY <2>1 DEF js
  <2>10. Evolves(b, e) /\ Kept(b, e)
    BY <2>2, <2>3, <2>4, <2>8, <2>9, EnrollEvolves
  <2>11. Evolves(d, e) /\ Untouched(d, e)
    BY <1>1, <1>3, <2>10, EvolvesTransitive, UntouchedTransitive DEF Kept
  <2> QED BY <1>3, <2>10, <2>11 DEF Kept, InOrder
<1> QED BY <1>4, <1>5

\* What is left of a list without a config: entries of it, each once.
Drawn(s, judges) ==
  \E m \in [DOMAIN s -> DOMAIN judges] : IsInjective(m) /\ \A i \in DOMAIN m : s[i] = judges[m[i]]

LEMMA WithoutFacts ==
  ASSUME NEW judges \in Seq(Enrollment), NEW c
  PROVE  Without(judges, c) \in Seq(Enrollment) /\ Drawn(Without(judges, c), judges)
<1> DEFINE L == Len(judges)
           G(f, n) == IF n = 0 THEN <<>> ELSE IF judges[n].config = c THEN f[n - 1] ELSE Append(f[n - 1], judges[n])
           kept == CHOOSE f : f = [n \in 0..L |-> G(f, n)]
           Exists == {l \in Nat : \E f : f = [n \in 0..l |-> G(f, n)]}
           From(s, n) == /\ s \in Seq(Enrollment)
                         /\ \E m \in [DOMAIN s -> 1..n] : IsInjective(m) /\ \A i \in DOMAIN m : s[i] = judges[m[i]]
           Good == {n \in Nat : n <= L => From(kept[n], n)}
<1>1. L \in Nat /\ DOMAIN judges = 1..L /\ \A i \in DOMAIN judges : judges[i] \in Enrollment
  BY SeqFacts
<1>2. \E f : f = [n \in 0..L |-> G(f, n)]
  <2>1. 0 \in Exists
    <3> DEFINE f == [n \in 0..0 |-> <<>>]
    <3>1. f = [n \in 0..0 |-> G(f, n)]
      OBVIOUS
    <3> QED BY <3>1
  <2>2. ASSUME NEW l \in Nat, l \in Exists PROVE l + 1 \in Exists
    <3>1. PICK f : f = [n \in 0..l |-> G(f, n)]
      BY <2>2
    <3> DEFINE g == [n \in 0..l + 1 |-> IF n = l + 1 THEN G(f, n) ELSE f[n]]
    <3>2. \A n \in 0..l : g[n] = f[n]
      OBVIOUS
    <3>3. ASSUME NEW n \in 0..l + 1 PROVE g[n] = G(g, n)
      <4>1. n # 0 => n - 1 \in 0..l
        OBVIOUS
      <4>2. G(g, n) = G(f, n)
        BY <3>2, <4>1
      <4>3. n # l + 1 => g[n] = f[n] /\ f[n] = G(f, n)
        <5>1. n # l + 1 => n \in 0..l
          OBVIOUS
        <5> HIDE DEF g, G
        <5> QED BY <3>1, <3>2, <5>1
      <4>4. n = l + 1 => g[n] = G(f, n)
        OBVIOUS
      <4> QED BY <4>2, <4>3, <4>4
    <3>4. g = [n \in 0..l + 1 |-> g[n]]
      OBVIOUS
    <3> HIDE DEF g, G
    <3>5. g = [n \in 0..l + 1 |-> G(g, n)]
      BY <3>3, <3>4
    <3> QED BY <3>5
  <2> HIDE DEF Exists
  <2>3. L \in Exists
    BY <1>1, <2>1, <2>2, NatInd
  <2> QED BY <2>3 DEF Exists
<1>3. kept = [n \in 0..L |-> G(kept, n)]
  <2> HIDE DEF G
  <2> QED BY <1>2
<1>4. Without(judges, c) = kept[L]
  BY DEF Without
<1> HIDE DEF kept
<1>5. \A n \in 0..L : kept[n] = G(kept, n)
  <2> HIDE DEF G
  <2> QED BY <1>3
<1>6. 0 \in Good
  <2>1. kept[0] = <<>>
    BY <1>1, <1>5
  <2>2. <<>> \in Seq(Enrollment) /\ DOMAIN <<>> = {}
    BY EmptySeq
  <2>3. \E m \in [{} -> 1..0] : IsInjective(m) /\ \A i \in DOMAIN m : <<>>[i] = judges[m[i]]
    <3> DEFINE m == [i \in {} |-> 0]
    <3>1. m \in [{} -> 1..0] /\ IsInjective(m) /\ \A i \in DOMAIN m : <<>>[i] = judges[m[i]]
      BY DEF IsInjective
    <3> QED BY <3>1
  <2> QED BY <2>1, <2>2, <2>3
<1>7. ASSUME NEW n \in Nat, n \in Good PROVE n + 1 \in Good
  <2> SUFFICES ASSUME n + 1 <= L PROVE From(kept[n + 1], n + 1)
    OBVIOUS
  <2>1. From(kept[n], n)
    BY <1>1, <1>7
  <2>2. PICK m \in [DOMAIN kept[n] -> 1..n] : IsInjective(m) /\ \A i \in DOMAIN m : kept[n][i] = judges[m[i]]
    BY <2>1
  <2>3. kept[n] \in Seq(Enrollment) /\ Len(kept[n]) \in Nat /\ DOMAIN kept[n] = 1..Len(kept[n])
    BY <2>1, SeqFacts
  <2>4. n + 1 \in 0..L /\ n + 1 # 0 /\ (n + 1) - 1 = n /\ 1..n \subseteq 1..n + 1 /\ n + 1 \notin 1..n /\ n + 1 \in 1..n + 1
    BY <1>1
  <2>5. CASE judges[n + 1].config = c
    <3>1. kept[n + 1] = kept[n]
      BY <1>5, <2>4, <2>5
    <3>2. m \in [DOMAIN kept[n] -> 1..n + 1]
      BY <2>4
    <3> QED BY <2>2, <2>3, <3>1, <3>2
  <2>6. CASE judges[n + 1].config # c
    <3> DEFINE s == kept[n]
               w == Append(s, judges[n + 1])
               M == [i \in 1..Len(s) + 1 |-> IF i = Len(s) + 1 THEN n + 1 ELSE m[i]]
    <3>1. kept[n + 1] = w
      BY <1>5, <2>4, <2>6
    <3>2. judges[n + 1] \in Enrollment
      BY <1>1, <2>4
    <3>3. /\ w \in Seq(Enrollment) /\ DOMAIN w = 1..Len(s) + 1
          /\ \A i \in DOMAIN s : w[i] = s[i]
          /\ w[Len(s) + 1] = judges[n + 1]
      BY <2>3, <3>2, AppendFacts
    <3>4. \A i \in 1..Len(s) + 1 : i \in DOMAIN s \/ i = Len(s) + 1
      BY <2>3
    <3> HIDE DEF w
    <3>5. M \in [DOMAIN w -> 1..n + 1]
      BY <2>2, <2>3, <2>4, <3>3, <3>4
    <3>6. \A i \in DOMAIN s : M[i] = m[i] /\ m[i] \in 1..n
      BY <2>3
    <3>7. M[Len(s) + 1] = n + 1
      BY <2>3
    <3>8. DOMAIN M = 1..Len(s) + 1
      OBVIOUS
    <3> HIDE DEF M
    <3>9. IsInjective(M)
      BY <2>2, <2>4, <3>4, <3>6, <3>7, <3>8 DEF IsInjective
    <3>10. \A i \in DOMAIN M : w[i] = judges[M[i]]
      BY <2>2, <3>3, <3>4, <3>6, <3>7, <3>8
    <3> QED BY <3>1, <3>3, <3>5, <3>9, <3>10
  <2> QED BY <2>5, <2>6
<1> HIDE DEF Good
<1>8. L \in Good
  BY <1>1, <1>6, <1>7, NatInd
<1>9. From(kept[L], L)
  BY <1>1, <1>8 DEF Good
<1> QED BY <1>1, <1>4, <1>9 DEF Drawn

LEMMA DetachEvolves ==
  ASSUME NEW v, NEW d, Whole(v), Whole(d), Later(v, d), NEW p \in DOMAIN v.projects, NEW c,
         NEW e \in DetachJudge(v, d, p, c)
  PROVE  Evolves(d, e) /\ Kept(d, e)
<1> DEFINE old == v.projects[p].judges
           js == Without(old, c)
<1>1. /\ v \in Databases /\ d \in Databases /\ p \in DOMAIN d.projects /\ v.projects[p] \in ProjectRow
  BY StillThere, TableFacts DEF Whole
<1>2. old \in Seq(Enrollment) /\ v.projects[p].other \in Nat
  BY <1>1 DEF ProjectRow
<1>3. js \in Seq(Enrollment)
  BY <1>2, WithoutFacts
<1>4. Drawn(js, old)
  BY <1>2, WithoutFacts
<1>5. e = Configured(d, p, v.projects[p].other, js)
  BY DEF DetachJudge
<1>6. Staffed(d, v.projects[p])
  BY <1>1, StillStaffed DEF Whole
<1> HIDE DEF js
<1>7. Staffed(d, [judges |-> js])
  <2>1. PICK m \in [DOMAIN js -> DOMAIN old] : IsInjective(m) /\ \A i \in DOMAIN m : js[i] = old[m[i]]
    BY <1>4 DEF Drawn
  <2> QED BY <1>6, <2>1 DEF Staffed, IsInjective
<1> QED BY <1>1, <1>2, <1>3, <1>5, <1>7, EnrollEvolves

LEMMA CheckpointEvolves ==
  ASSUME NEW v, NEW d, Whole(v), Whole(d), Later(v, d), NEW p \in DOMAIN v.projects, NEW name \in STRING, NEW model \in Models,
         NEW e \in RegisterCheckpoint(v, d, p, name, model)
  PROVE  Evolves(d, e) /\ Untouched(d, e) /\ (v = d => InOrder(d, e))
<1>1. PICK b \in CreateConfig(v, d, name, model) : e \in AttachJudge(v, b, p, Len(b.configs))
  BY DEF RegisterCheckpoint
<1>2. Evolves(d, b) /\ Untouched(d, b) /\ (v = d => InOrder(d, b)) /\ Len(b.configs) \in DOMAIN b.configs /\ b.raters = d.raters
  BY CreateConfigEvolves
<1>3. v \in Databases /\ d \in Databases /\ b \in Databases /\ Whole(b) /\ Later(v, b)
  BY <1>2, LaterTransitive DEF Evolves, Whole
<1>4. Evolves(b, e) /\ Untouched(b, e) /\ (v.raters = b.raters => InOrder(b, e))
  BY <1>1, <1>2, <1>3, AttachEvolves
<1>5. Evolves(d, e) /\ Untouched(d, e)
  BY <1>2, <1>3, <1>4, EvolvesTransitive, UntouchedTransitive
<1> QED BY <1>2, <1>4, <1>5 DEF InOrder

-----------------------------------------------------------------------------
(* Bundles.                                                                *)

\* Some number is free: there are more of them than templates.
LEMMA UnusedFacts ==
  ASSUME NEW v \in Databases, NEW name \in Names
  PROVE  Unused(v, name) \in Names
<1> DEFINE L == Len(v.templates)
           as(i) == [name EXCEPT !.imported = i]
           S == {i \in 0..L : \A t \in LiveTemplates(v) : v.templates[t].name # as(i)}
           f == [i \in 0..L |-> CHOOSE t \in LiveTemplates(v) : v.templates[t].name = as(i)]
<1>1. L \in Nat /\ LiveTemplates(v) \subseteq 1..L
  BY TableFacts DEF LiveTemplates, Indices
<1>2. \A i, j : as(i) = as(j) => i = j
  BY DEF Names
<1> HIDE DEF as
<1>3. S # {}
  <2> SUFFICES ASSUME S = {} PROVE FALSE
    OBVIOUS
  <2>1. \A i \in 0..L : \E t \in LiveTemplates(v) : v.templates[t].name = as(i)
    OBVIOUS
  <2>2. \A i \in 0..L : f[i] \in LiveTemplates(v) /\ v.templates[f[i]].name = as(i)
    BY <2>1
  <2>3. f \in [0..L -> 1..L]
    BY <1>1, <2>2
  <2>4. \A i, j \in 0..L : f[i] = f[j] => i = j
    BY <1>2, <2>2
  <2>5. /\ IsFiniteSet(0..L) /\ Cardinality(0..L) = L + 1
        /\ IsFiniteSet(1..L) /\ Cardinality(1..L) = L
    <3>0. 0 \in Int /\ 1 \in Int /\ L \in Int
      BY <1>1
    <3>1. IsFiniteSet(0..L) /\ Cardinality(0..L) = IF 0 > L THEN 0 ELSE L - 0 + 1
      BY <3>0, FS_Interval, Zenon
    <3>2. IsFiniteSet(1..L) /\ Cardinality(1..L) = IF 1 > L THEN 0 ELSE L - 1 + 1
      BY <3>0, FS_Interval, Zenon
    <3> QED BY <1>1, <3>1, <3>2
  <2> HIDE DEF f
  <2>6. Cardinality(1..L) < Cardinality(0..L)
    BY <1>1, <2>5
  <2> DEFINE From == 0..L
             To == 1..L
  <2>7. f \in [From -> To] /\ IsFiniteSet(From) /\ IsFiniteSet(To) /\ Cardinality(To) < Cardinality(From)
    BY <2>3, <2>5, <2>6
  <2> HIDE DEF From, To
  <2>8. \E i, j \in From : i # j /\ f[i] = f[j]
    BY <2>7, FS_PigeonHole
  <2> QED BY <2>4, <2>8 DEF From
<1>4. S \in SUBSET Nat
  <2>1. S \subseteq 0..L
    OBVIOUS
  <2> HIDE DEF S
  <2> QED BY <1>1, <2>1
<1> HIDE DEF S
<1>5. Min(S) \in Nat
  BY <1>3, <1>4, MinFacts
<1>6. Unused(v, name) = [name EXCEPT !.imported = Min(S)]
  BY DEF Unused, S, as
<1> QED BY <1>5, <1>6 DEF Names

LEMMA ImportedConfigsFacts ==
  ASSUME NEW v, Whole(v), NEW b \in Bundles
  PROVE  LET new == ImportedConfigs(v, b) IN
         /\ new \in Seq(ConfigRow) /\ Len(new) = Len(b.judges)
         /\ \A i \in DOMAIN b.judges :
              /\ new[i].name = b.judges[i].name /\ new[i].model = b.judges[i].model
              /\ \A c \in DOMAIN v.configs : v.configs[c].name = new[i].name => v.configs[c].version < new[i].version
              /\ \A j \in DOMAIN b.judges : new[i].name = new[j].name /\ new[i].version = new[j].version => i = j
<1> DEFINE n == Len(b.judges)
           before(i) == {j \in 1..(i - 1) : b.judges[j].name = b.judges[i].name}
           row(i) == [name |-> b.judges[i].name, model |-> b.judges[i].model,
                      version |-> NextVersion(v, b.judges[i].name) + Cardinality(before(i))]
           new == ImportedConfigs(v, b)
<1>1. b.judges \in Seq([name : STRING, model : Models])
  BY DEF Bundles
<1>2. n \in Nat /\ DOMAIN b.judges = 1..n /\ \A i \in 1..n : b.judges[i] \in [name : STRING, model : Models]
  BY <1>1, SeqFacts
<1>3. \A i \in 1..n : IsFiniteSet(before(i)) /\ Cardinality(before(i)) \in Nat
  <2> SUFFICES ASSUME NEW i \in 1..n PROVE IsFiniteSet(before(i)) /\ Cardinality(before(i)) \in Nat
    OBVIOUS
  <2>1. IsFiniteSet(1..(i - 1))
    BY <1>2, FS_Interval
  <2>2. before(i) \in SUBSET (1..(i - 1))
    OBVIOUS
  <2> HIDE DEF before
  <2> QED BY <2>1, <2>2, FS_Subset, FS_CardinalityType
<1>4. \A i, j \in 1..n : i < j /\ b.judges[i].name = b.judges[j].name => Cardinality(before(i)) < Cardinality(before(j))
  <2> SUFFICES ASSUME NEW i \in 1..n, NEW j \in 1..n, i < j, b.judges[i].name = b.judges[j].name
               PROVE  Cardinality(before(i)) < Cardinality(before(j))
    OBVIOUS
  <2>1. before(i) \subseteq before(j) /\ i \in before(j) /\ i \notin before(i)
    BY <1>2
  <2> HIDE DEF before
  <2>2. before(i) \in SUBSET before(j) /\ before(i) # before(j)
    BY <2>1
  <2> QED BY <1>3, <2>2, FS_Subset
<1>5. new = [i \in 1..n |-> row(i)]
  BY <1>2 DEF ImportedConfigs
<1> HIDE DEF before, new
<1>6. v \in Databases /\ \A name : NextVersion(v, name) \in Nat
  BY NextVersionFacts DEF Whole
<1>7. \A i \in 1..n : row(i) \in ConfigRow
  <2> SUFFICES ASSUME NEW i \in 1..n PROVE row(i) \in ConfigRow
    OBVIOUS
  <2>1. NextVersion(v, b.judges[i].name) + Cardinality(before(i)) \in Nat
    BY <1>3, <1>6
  <2> QED BY <1>2, <2>1 DEF ConfigRow
<1>8. \A i \in 1..n : /\ row(i).name = b.judges[i].name /\ row(i).model = b.judges[i].model
                      /\ row(i).version = NextVersion(v, b.judges[i].name) + Cardinality(before(i))
  OBVIOUS
<1> HIDE DEF row
<1>9. new \in [1..n -> ConfigRow] /\ \A i \in 1..n : new[i] = row(i)
  BY <1>5, <1>7
<1>10. new \in Seq(ConfigRow) /\ Len(new) = n
  BY <1>2, <1>9, FunctionIsSeq
<1>11. ASSUME NEW i \in 1..n, NEW c \in DOMAIN v.configs, v.configs[c].name = new[i].name
       PROVE  v.configs[c].version < new[i].version
  <2>1. v.configs[c].version \in Nat /\ v.configs[c].version < NextVersion(v, new[i].name)
    BY <1>6, <1>11, NextVersionFacts, TableFacts DEF ConfigRow
  <2>2. new[i].version = NextVersion(v, new[i].name) + Cardinality(before(i))
    BY <1>8, <1>9
  <2> QED BY <1>3, <1>6, <2>1, <2>2
<1>12. ASSUME NEW i \in 1..n, NEW j \in 1..n, new[i].name = new[j].name, new[i].version = new[j].version
       PROVE  i = j
  <2>1. b.judges[i].name = b.judges[j].name
    BY <1>8, <1>9, <1>12
  <2>2. /\ new[i].version = NextVersion(v, b.judges[i].name) + Cardinality(before(i))
        /\ new[j].version = NextVersion(v, b.judges[i].name) + Cardinality(before(j))
    BY <1>8, <1>9, <2>1
  <2>3. Cardinality(before(i)) = Cardinality(before(j))
    <3>1. Cardinality(before(i)) \in Nat /\ Cardinality(before(j)) \in Nat /\ NextVersion(v, b.judges[i].name) \in Nat
      BY <1>3, <1>6
    <3>2. \A x, y, z \in Nat : x + y = x + z => y = z
      OBVIOUS
    <3>3. NextVersion(v, b.judges[i].name) + Cardinality(before(i)) = NextVersion(v, b.judges[i].name) + Cardinality(before(j))
      BY <1>12, <2>2
    <3> QED BY <3>1, <3>2, <3>3, Zenon
  <2> QED BY <1>2, <1>3, <1>4, <2>1, <2>3
<1> QED BY <1>2, <1>8, <1>9, <1>10, <1>11, <1>12 DEF new

Joined(w, s, t) ==
  /\ Len(w) = Len(s) + Len(t) /\ Len(s) <= Len(w)
  /\ \A x \in DOMAIN s : w[x] = s[x]
  /\ \A i \in DOMAIN t : Len(s) + i \in DOMAIN w /\ w[Len(s) + i] = t[i]
  /\ \A x \in DOMAIN w : x \in DOMAIN s \/ \E i \in DOMAIN t : x = Len(s) + i

LEMMA JoinFacts ==
  ASSUME NEW S, NEW s \in Seq(S), NEW t \in Seq(S)
  PROVE  s \o t \in Seq(S) /\ Joined(s \o t, s, t)
<1> DEFINE w == s \o t
<1>1. Len(s) \in Nat /\ DOMAIN s = 1..Len(s) /\ Len(t) \in Nat /\ DOMAIN t = 1..Len(t)
  BY SeqFacts
<1>2. /\ w \in Seq(S) /\ Len(w) = Len(s) + Len(t) /\ DOMAIN w = 1..Len(s) + Len(t)
      /\ \A i \in DOMAIN s : w[i] = s[i]
      /\ \A i \in DOMAIN t : w[Len(s) + i] = t[i]
  BY ConcatFacts
<1> HIDE DEF w
<1>3. \A i \in DOMAIN t : Len(s) + i \in DOMAIN w
  BY <1>1, <1>2
<1>4. ASSUME NEW x \in DOMAIN w, x \notin DOMAIN s PROVE \E i \in DOMAIN t : x = Len(s) + i
  <2>1. x - Len(s) \in DOMAIN t /\ x = Len(s) + (x - Len(s))
    BY <1>1, <1>2, <1>4
  <2> QED BY <2>1
<1>5. Len(s) <= Len(w)
  BY <1>1, <1>2
<1>6. Joined(w, s, t)
  BY <1>2, <1>3, <1>4, <1>5 DEF Joined
<1> QED BY <1>2, <1>6 DEF w

LEMMA ToldApartIs ==
  ASSUME NEW cs, \A x, y \in DOMAIN cs : cs[x].name = cs[y].name /\ cs[x].version = cs[y].version => x = y,
         NEW rs, IsInjective(rs), NEW d, d.configs = cs, d.raters = rs
  PROVE  ToldApart(d)
BY DEF ToldApart, Indices

\* From d to e configs were added, and what that keeps.
ConfigsAdded(d, e, new) ==
  /\ Evolves(d, e) /\ (Collectable(d) => Collectable(e))
  /\ e.templates = d.templates /\ e.projects = d.projects /\ e.units = d.units /\ e.raters = d.raters
  /\ Len(e.configs) = Len(d.configs) + Len(new)
  /\ \A i \in DOMAIN new : e.configs[Len(d.configs) + i] = new[i]
  /\ ToldApart(d) /\ (\A i \in DOMAIN new :
          /\ \A c \in DOMAIN d.configs : d.configs[c].name = new[i].name => d.configs[c].version < new[i].version
          /\ \A j \in DOMAIN new : new[i].name = new[j].name /\ new[i].version = new[j].version => i = j)
       => ToldApart(e)

LEMMA AddConfigs ==
  ASSUME NEW d, Whole(d), NEW new \in Seq(ConfigRow),
         NEW cs, cs = d.configs \o new, NEW e, e = [d EXCEPT !.configs = cs]
  PROVE  ConfigsAdded(d, e, new)
<1>1. d \in Databases /\ d.configs \in Seq(ConfigRow)
  BY DatabaseFacts DEF Whole
<1>2. cs \in Seq(ConfigRow) /\ Joined(cs, d.configs, new)
  BY <1>1, JoinFacts
<1>3. e = [d EXCEPT !.configs = cs]
  OBVIOUS
<1> USE DEF Joined
<1>4. Evolves(d, e) /\ (Collectable(d) => Collectable(e))
  BY <1>2, <1>3, ConfigsEvolve
<1>5. e.configs = cs /\ e.templates = d.templates /\ e.projects = d.projects /\ e.units = d.units /\ e.raters = d.raters
  BY <1>1, <1>2, <1>3, Columns
<1>6. ASSUME ToldApart(d),
             \A i \in DOMAIN new :
                 /\ \A c \in DOMAIN d.configs : d.configs[c].name = new[i].name => d.configs[c].version < new[i].version
                 /\ \A j \in DOMAIN new : new[i].name = new[j].name /\ new[i].version = new[j].version => i = j
      PROVE  ToldApart(e)
  <2> DEFINE Same(x, y) == x.name = y.name /\ x.version = y.version
  <2>1. \A x, y \in DOMAIN d.configs : Same(d.configs[x], d.configs[y]) => x = y
    BY <1>6 DEF ToldApart, Indices
  <2>2. \A x \in DOMAIN d.configs, i \in DOMAIN new : ~Same(d.configs[x], new[i])
    <3>1. \A x \in DOMAIN d.configs : d.configs[x].version \in Nat
      BY <1>1, TableFacts DEF ConfigRow
    <3>2. \A i \in DOMAIN new : new[i].version \in Nat
      <4>1. \A i \in DOMAIN new : new[i] \in ConfigRow
        BY SeqFacts
      <4> QED BY <4>1 DEF ConfigRow
    <3> QED BY <1>6, <3>1, <3>2
  <2>3. \A i, j \in DOMAIN new : Same(new[i], new[j]) => i = j
    BY <1>6
  <2>4. \A x, y : Same(x, y) => Same(y, x)
    OBVIOUS
  <2> HIDE DEF Same
  <2>5. \A x, y \in DOMAIN cs : Same(cs[x], cs[y]) => x = y
    <3> SUFFICES ASSUME NEW x \in DOMAIN cs, NEW y \in DOMAIN cs, Same(cs[x], cs[y]) PROVE x = y
      OBVIOUS
    <3>1. CASE x \in DOMAIN d.configs /\ y \in DOMAIN d.configs
      BY <1>2, <2>1, <3>1
    <3>2. CASE x \in DOMAIN d.configs /\ y \notin DOMAIN d.configs
      BY <1>2, <2>2, <3>2
    <3>3. CASE x \notin DOMAIN d.configs /\ y \in DOMAIN d.configs
      BY <1>2, <2>2, <2>4, <3>3
    <3>4. CASE x \notin DOMAIN d.configs /\ y \notin DOMAIN d.configs
      <4>1. PICK i \in DOMAIN new, j \in DOMAIN new : x = Len(d.configs) + i /\ y = Len(d.configs) + j
        BY <1>2, <3>4
      <4> QED BY <1>2, <2>3, <4>1
    <3> QED BY <3>1, <3>2, <3>3, <3>4
  <2>6. \A x, y \in DOMAIN cs : cs[x].name = cs[y].name /\ cs[x].version = cs[y].version => x = y
    BY <2>5 DEF Same
  <2>7. IsInjective(d.raters)
    BY <1>6 DEF ToldApart
  <2> QED BY <1>5, <2>6, <2>7, ToldApartIs
<1>7. Len(e.configs) = Len(d.configs) + Len(new) /\ \A i \in DOMAIN new : e.configs[Len(d.configs) + i] = new[i]
  BY <1>2, <1>5
<1> QED BY <1>4, <1>5, <1>6, <1>7 DEF ConfigsAdded

LEMMA JoinedApart ==
  ASSUME NEW s \in Seq(Nat), NEW t \in Seq(Nat), NEW w, Joined(w, s, t),
         \A x, y \in DOMAIN s : s[x] = s[y] => x = y,
         \A i, j \in DOMAIN t : t[i] = t[j] => i = j,
         \A x \in DOMAIN s, i \in DOMAIN t : s[x] # t[i]
  PROVE  IsInjective(w)
<1>1. \A x \in DOMAIN s : w[x] = s[x]
  BY DEF Joined
<1>2. \A x \in DOMAIN w : x \in DOMAIN s \/ \E i \in DOMAIN t : x = Len(s) + i /\ w[x] = t[i]
  BY DEF Joined
<1> SUFFICES ASSUME NEW x \in DOMAIN w, NEW y \in DOMAIN w, w[x] = w[y] PROVE x = y
  BY DEF IsInjective
<1>3. CASE x \in DOMAIN s
  <2>1. CASE y \in DOMAIN s
    BY <1>1, <1>3, <2>1
  <2>2. CASE y \notin DOMAIN s
    <3>1. PICK i \in DOMAIN t : w[y] = t[i]
      BY <1>2, <2>2
    <3> QED BY <1>1, <1>3, <3>1
  <2> QED BY <2>1, <2>2
<1>4. CASE x \notin DOMAIN s
  <2>1. PICK i \in DOMAIN t : x = Len(s) + i /\ w[x] = t[i]
    BY <1>2, <1>4
  <2>2. CASE y \in DOMAIN s
    BY <1>1, <2>1, <2>2
  <2>3. CASE y \notin DOMAIN s
    <3>1. PICK j \in DOMAIN t : y = Len(s) + j /\ w[y] = t[j]
      BY <1>2, <2>3
    <3>2. i = j
      BY <2>1, <3>1
    <3> QED BY <2>1, <3>1, <3>2
  <2> QED BY <2>2, <2>3
<1> QED BY <1>3, <1>4

\* Of so many configs the last n have no rater yet, and get one each.
RatersAdded(d, e, n, base) ==
  /\ Evolves(d, e) /\ Kept(d, e)
  /\ e.templates = d.templates /\ e.projects = d.projects /\ e.units = d.units /\ e.configs = d.configs
  /\ \A i \in 1..n : Len(d.raters) + i \in DOMAIN e.raters /\ e.raters[Len(d.raters) + i] = base + i

LEMMA AddRaters ==
  ASSUME NEW d, Whole(d), NEW n \in Nat, NEW base \in Nat, Len(d.configs) = base + n,
         \A a \in DOMAIN d.raters : d.raters[a] <= base,
         NEW own \in Seq(Nat), Len(own) = n, \A i \in DOMAIN own : own[i] = base + i,
         NEW rs, rs = d.raters \o own, NEW e, e = [d EXCEPT !.raters = rs]
  PROVE  RatersAdded(d, e, n, base)
<1>1. d \in Databases /\ d.raters \in Seq(Nat) /\ Len(d.raters) \in Nat /\ DOMAIN own = 1..n /\ DOMAIN d.configs = 1..base + n
  BY DatabaseFacts, TableFacts, SeqFacts DEF Whole
<1>2. rs \in Seq(Nat) /\ Joined(rs, d.raters, own)
  BY <1>1, JoinFacts
<1>3. e = [d EXCEPT !.raters = rs]
  OBVIOUS
<1>4. \A a \in DOMAIN rs : rs[a] \in DOMAIN d.configs
  <2>1. \A a \in DOMAIN d.raters : rs[a] \in DOMAIN d.configs
    BY <1>2 DEF Whole, Joined
  <2>2. \A i \in DOMAIN own : own[i] \in DOMAIN d.configs
    BY <1>1
  <2>3. \A a \in DOMAIN rs : a \in DOMAIN d.raters \/ \E i \in DOMAIN own : rs[a] = own[i]
    <3>1. \A i \in DOMAIN own : rs[Len(d.raters) + i] = own[i]
      BY <1>2 DEF Joined
    <3>2. \A a \in DOMAIN rs : a \in DOMAIN d.raters \/ \E i \in DOMAIN own : a = Len(d.raters) + i
      BY <1>2 DEF Joined
    <3> QED BY <3>1, <3>2, Zenon
  <2> QED BY <2>1, <2>2, <2>3
<1>5. Evolves(d, e) /\ (Collectable(d) => Collectable(e)) /\ Untouched(d, e)
  BY <1>1, <1>2, <1>3, <1>4, RatersEvolve DEF Joined
<1>6. e.raters = rs /\ e.templates = d.templates /\ e.projects = d.projects /\ e.units = d.units /\ e.configs = d.configs
  BY <1>1, <1>2, <1>3, Columns
<1>7. ASSUME ToldApart(d) PROVE ToldApart(e)
  <2>1. \A a \in DOMAIN d.raters, i \in DOMAIN own : d.raters[a] # own[i]
    <3>1. \A a \in DOMAIN d.raters : d.raters[a] \in Nat
      BY <1>1, TableFacts
    <3> QED BY <1>1, <3>1
  <2>2. \A i, j \in DOMAIN own : own[i] = own[j] => i = j
    BY <1>1
  <2>3. \A a, b \in DOMAIN d.raters : d.raters[a] = d.raters[b] => a = b
    BY <1>7 DEF ToldApart, IsInjective
  <2>4. IsInjective(rs)
    BY <1>1, <1>2, <2>1, <2>2, <2>3, JoinedApart
  <2>5. IsInjective(e.raters)
    BY <1>6, <2>4
  <2> QED BY <1>6, <1>7, <2>5 DEF ToldApart, Indices
<1>8. \A i \in 1..n : Len(d.raters) + i \in DOMAIN rs /\ rs[Len(d.raters) + i] = base + i
  BY <1>1, <1>2 DEF Joined
<1> QED BY <1>5, <1>6, <1>7, <1>8 DEF Kept, InOrder, RatersAdded

\* The row of an imported project: bound to the last template, with the judges last added.
Imported(row, d, g, b) ==
  /\ row \in ProjectRow
  /\ row.template = Len(g.templates) /\ row.version = 1 /\ row.k = b.k /\ row.max = b.max
  /\ DOMAIN row.judges = 1..Len(b.judges)
  /\ \A i \in 1..Len(b.judges) : row.judges[i].config = Len(d.configs) + i /\ row.judges[i].rater = Len(d.raters) + i

LEMMA ImportedIs ==
  ASSUME NEW d, NEW g, NEW b \in Bundles, Len(d.configs) \in Nat, Len(d.raters) \in Nat,
         Len(g.templates) \in Nat, g.templates[Len(g.templates)].version = 1
  PROVE  Imported([Project(g, Len(g.templates), b.k, b.max) EXCEPT !.judges = Enrollments(d, b)], d, g, b)
<1> DEFINE js == Enrollments(d, b)
           n == Len(b.judges)
           row == [Project(g, Len(g.templates), b.k, b.max) EXCEPT !.judges = js]
<1>1. b.k \in Nat /\ b.max \in Nat /\ b.judges \in Seq([name : STRING, model : Models])
  BY DEF Bundles
<1>2. n \in Nat /\ DOMAIN b.judges = 1..n
  BY <1>1, SeqFacts
<1>3. DOMAIN js = 1..n /\ \A i \in 1..n : js[i].config = Len(d.configs) + i /\ js[i].rater = Len(d.raters) + i
  BY <1>2 DEF Enrollments
<1>4. js \in Seq(Enrollment)
  <2>1. \A i \in 1..n : Len(d.configs) + i \in Nat /\ Len(d.raters) + i \in Nat
    BY <1>2
  <2>2. \A i \in 1..n : [config |-> Len(d.configs) + i, rater |-> Len(d.raters) + i] \in Enrollment
    BY <2>1 DEF Enrollment
  <2>3. js = [i \in 1..n |-> [config |-> Len(d.configs) + i, rater |-> Len(d.raters) + i]]
    BY <1>2 DEF Enrollments
  <2>4. js \in [1..n -> Enrollment]
    BY <2>2, <2>3
  <2> HIDE DEF js
  <2> QED BY <1>2, <2>4, FunctionIsSeq
<1> HIDE DEF js
<1>5. row = [template |-> Len(g.templates), version |-> 1, k |-> b.k, max |-> b.max, other |-> 0, judges |-> js]
  BY DEF Project
<1> HIDE DEF row
<1>6. row \in ProjectRow
  BY <1>1, <1>4, <1>5 DEF ProjectRow
<1>7. row.template = Len(g.templates) /\ row.version = 1 /\ row.k = b.k /\ row.max = b.max /\ row.judges = js
  BY <1>5
<1>8. Imported(row, d, g, b)
  BY <1>3, <1>6, <1>7 DEF Imported
<1> QED BY <1>8 DEF row, js

\* The judges of a bundle, added to d by now.
JudgesAdded(d, g, b) ==
  \A i \in 1..Len(b.judges) :
    /\ Len(d.raters) + i \in DOMAIN g.raters /\ g.raters[Len(d.raters) + i] = Len(d.configs) + i
    /\ g.configs[Len(d.configs) + i].name = b.judges[i].name
    /\ g.configs[Len(d.configs) + i].model = b.judges[i].model

LEMMA BundleEvolves ==
  ASSUME NEW d, NEW g, NEW b \in Bundles, Whole(g), Len(d.configs) \in Nat, Len(d.raters) \in Nat,
         Len(g.templates) \in LiveTemplates(g), g.templates[Len(g.templates)].version = 1,
         g.templates[Len(g.templates)].shape = b.shape, Fits(b.shape, b.k, b.max),
         JudgesAdded(d, g, b), NEW row, Imported(row, d, g, b),
         NEW e, e = [g EXCEPT !.projects = Append(g.projects, row)]
  PROVE  /\ Evolves(g, e) /\ Kept(g, e)
         /\ e.templates = g.templates /\ e.units = g.units /\ e.configs = g.configs /\ e.raters = g.raters
         /\ e.projects[Len(e.projects)] = row
<1>1. row \in ProjectRow
  BY DEF Imported
<1>2. Bound(g, row)
  BY DEF Bound, Imported
<1>3. Staffed(g, row)
  <2>1. \A i, j \in 1..Len(b.judges) : Len(d.configs) + j = Len(d.configs) + i => i = j
    OBVIOUS
  <2> QED BY <2>1 DEF Staffed, Imported, JudgesAdded
<1>4. Fits(g.templates[row.template].shape, row.k, row.max)
  BY DEF Imported
<1> QED BY <1>1, <1>2, <1>3, <1>4, AddProject

LEMMA BundleRestored ==
  ASSUME NEW d, NEW g, NEW b \in Bundles, g.templates[Len(g.templates)].shape = b.shape,
         g.templates[Len(g.templates)].panels = b.panels, JudgesAdded(d, g, b), NEW row, Imported(row, d, g, b),
         NEW e, e.templates = g.templates, e.configs = g.configs, NEW p, e.projects[p] = row
  PROVE  [Bundle(e, p) EXCEPT !.name = b.name] = b
<1> DEFINE n == Len(b.judges)
           of == [i \in DOMAIN e.projects[p].judges |->
                    LET x == e.configs[e.projects[p].judges[i].config] IN [name |-> x.name, model |-> x.model]]
<1>1. b.judges \in Seq([name : STRING, model : Models])
  BY DEF Bundles
<1>2. n \in Nat /\ DOMAIN b.judges = 1..n /\ \A i \in 1..n : b.judges[i] \in [name : STRING, model : Models]
  BY <1>1, SeqFacts
<1>3. ShapeOf(e, p) = b.shape /\ PanelsOf(e, p) = b.panels /\ e.projects[p].k = b.k /\ e.projects[p].max = b.max
  BY DEF ShapeOf, PanelsOf, Imported
<1>4. DOMAIN e.projects[p].judges = 1..n
  BY DEF Imported
<1>5. \A i \in 1..n : e.configs[e.projects[p].judges[i].config].name = b.judges[i].name
                      /\ e.configs[e.projects[p].judges[i].config].model = b.judges[i].model
  <2>1. \A i \in 1..n : g.configs[Len(d.configs) + i].name = b.judges[i].name /\ g.configs[Len(d.configs) + i].model = b.judges[i].model
    BY DEF JudgesAdded
  <2>2. \A i \in 1..n : e.projects[p].judges[i].config = Len(d.configs) + i
    BY DEF Imported
  <2> QED BY <2>1, <2>2
<1>6. \A i \in 1..n : of[i] = b.judges[i]
  BY <1>2, <1>4, <1>5
<1>7. of = [i \in 1..n |-> of[i]]
  BY <1>4
<1>8. b.judges = [i \in 1..n |-> b.judges[i]]
  <2>1. b.judges \in [1..n -> [name : STRING, model : Models]]
    BY <1>1, LenProperties
  <2> QED BY <2>1
<1>9. Bundle(e, p) = [name |-> e.templates[e.projects[p].template].name, shape |-> ShapeOf(e, p), panels |-> PanelsOf(e, p),
                      k |-> e.projects[p].k, max |-> e.projects[p].max, judges |-> of]
  BY DEF Bundle
<1> HIDE DEF of, n
<1>10. of = b.judges
  BY <1>6, <1>7, <1>8
<1>11. [Bundle(e, p) EXCEPT !.name = b.name] = [name |-> b.name, shape |-> b.shape, panels |-> b.panels,
                                                      k |-> b.k, max |-> b.max, judges |-> b.judges]
  BY <1>3, <1>9, <1>10
<1>12. b = [name |-> b.name, shape |-> b.shape, panels |-> b.panels, k |-> b.k, max |-> b.max, judges |-> b.judges]
  BY DEF Bundles
<1> QED BY <1>11, <1>12

LEMMA ImportEvolves ==
  ASSUME NEW v, NEW d, Whole(v), Whole(d), Later(v, d), NEW b \in Bundles, NEW e \in ImportBundle(v, d, b)
  PROVE  /\ Evolves(d, e) /\ Untouched(d, e) /\ (v = d => InOrder(d, e))
         /\ [Bundle(e, Len(e.projects)) EXCEPT !.name = b.name] = b
<1> DEFINE n == Len(b.judges)
           new == ImportedConfigs(v, b)
           own == [i \in DOMAIN b.judges |-> Len(d.configs) + i]
           row(c) == [Project(c, Len(c.templates), b.k, b.max) EXCEPT !.judges = Enrollments(d, b)]
           final(c) == [c EXCEPT !.configs = @ \o new, !.raters = @ \o own, !.projects = Append(@, row(c))]
<1>1. Fits(b.shape, b.k, b.max)
  BY DEF ImportBundle
<1>2. e \in {final(c) : c \in Insert(d, Template(Unused(v, b.name), 1, b.shape, b.panels))}
  BY <1>1 DEF ImportBundle
<1>3. PICK c \in Insert(d, Template(Unused(v, b.name), 1, b.shape, b.panels)) : e = final(c)
  <2> HIDE DEF final
  <2> QED BY <1>2
<1> DEFINE cs == c.configs \o new
           f == [c EXCEPT !.configs = cs]
           rs == f.raters \o own
           g == [f EXCEPT !.raters = rs]
<1>4. e = [g EXCEPT !.projects = Append(g.projects, row(c))]
  BY <1>3
<1>5. row(c) = row(g)
  BY DEF Project
<1> HIDE DEF final, row, own, new, cs, f, rs, g
<1>6. /\ v \in Databases /\ d \in Databases
      /\ Len(d.configs) \in Nat /\ DOMAIN d.configs = 1..Len(d.configs) /\ Len(d.raters) \in Nat
  BY TableFacts DEF Whole
<1>7. b.name \in Names /\ b.shape \in Shapes /\ b.panels \in Orders /\ n \in Nat /\ DOMAIN b.judges = 1..n
  <2>1. b.name \in Names /\ b.shape \in Shapes /\ b.panels \in Orders /\ b.judges \in Seq([name : STRING, model : Models])
    BY DEF Bundles
  <2> QED BY <2>1, SeqFacts
<1>8. /\ Evolves(d, c) /\ Kept(d, c) /\ Len(c.templates) \in LiveTemplates(c)
      /\ c.templates[Len(c.templates)].version = 1 /\ c.templates[Len(c.templates)].shape = b.shape
      /\ c.templates[Len(c.templates)].panels = b.panels
      /\ c.projects = d.projects /\ c.units = d.units /\ c.configs = d.configs /\ c.raters = d.raters
  BY <1>6, <1>7, UnusedFacts, Rebound
<1>9. /\ new \in Seq(ConfigRow) /\ Len(new) = n /\ DOMAIN new = 1..n
      /\ \A i \in 1..n : new[i].name = b.judges[i].name /\ new[i].model = b.judges[i].model
      /\ \A i \in 1..n :
           /\ \A x \in DOMAIN v.configs : v.configs[x].name = new[i].name => v.configs[x].version < new[i].version
           /\ \A j \in 1..n : new[i].name = new[j].name /\ new[i].version = new[j].version => i = j
  <2>1. new \in Seq(ConfigRow) /\ Len(new) = n
    BY ImportedConfigsFacts DEF new
  <2>2. DOMAIN new = 1..n
    BY <2>1, SeqFacts
  <2>3. \A i \in DOMAIN b.judges : new[i].name = b.judges[i].name /\ new[i].model = b.judges[i].model
    BY ImportedConfigsFacts DEF new
  <2>4. \A i \in DOMAIN b.judges :
          /\ \A x \in DOMAIN v.configs : v.configs[x].name = new[i].name => v.configs[x].version < new[i].version
          /\ \A j \in DOMAIN b.judges : new[i].name = new[j].name /\ new[i].version = new[j].version => i = j
    BY ImportedConfigsFacts DEF new
  <2> QED BY <1>7, <2>1, <2>2, <2>3, <2>4
<1>10. own \in Seq(Nat) /\ Len(own) = n /\ \A i \in DOMAIN own : own[i] = Len(d.configs) + i
  <2>1. own \in [1..n -> Nat] /\ \A i \in DOMAIN own : own[i] = Len(d.configs) + i
    BY <1>6, <1>7 DEF own
  <2> QED BY <1>7, <2>1, FunctionIsSeq
<1> HIDE DEF n
<1>11. cs = c.configs \o new /\ f = [c EXCEPT !.configs = cs] /\ rs = f.raters \o own /\ g = [f EXCEPT !.raters = rs]
  BY DEF cs, f, rs, g
<1>12. /\ Evolves(c, f) /\ (Collectable(c) => Collectable(f))
       /\ f.templates = c.templates /\ f.projects = c.projects /\ f.units = c.units /\ f.raters = c.raters
       /\ Len(f.configs) = Len(d.configs) + n
       /\ \A i \in 1..n : f.configs[Len(d.configs) + i] = new[i]
       /\ v = d /\ ToldApart(c) => ToldApart(f)
  <2>1. Whole(c)
    BY <1>8 DEF Evolves
  <2>2. ConfigsAdded(c, f, new)
    BY <1>9, <1>11, <2>1, AddConfigs
  <2>3. /\ Evolves(c, f) /\ (Collectable(c) => Collectable(f))
        /\ f.templates = c.templates /\ f.projects = c.projects /\ f.units = c.units /\ f.raters = c.raters
        /\ Len(f.configs) = Len(c.configs) + Len(new) /\ \A i \in DOMAIN new : f.configs[Len(c.configs) + i] = new[i]
    BY <2>2 DEF ConfigsAdded
  <2>4. ASSUME v = d, ToldApart(c) PROVE ToldApart(f)
    <3>1. \A i \in DOMAIN new :
             /\ \A x \in DOMAIN c.configs : c.configs[x].name = new[i].name => c.configs[x].version < new[i].version
             /\ \A j \in DOMAIN new : new[i].name = new[j].name /\ new[i].version = new[j].version => i = j
      BY <1>8, <1>9, <2>4
    <3> QED BY <2>2, <2>4, <3>1 DEF ConfigsAdded
  <2>5. /\ Len(f.configs) = Len(d.configs) + n
        /\ \A i \in 1..n : f.configs[Len(d.configs) + i] = new[i]
    BY <1>8, <1>9, <2>3
  <2> QED BY <2>3, <2>4, <2>5
<1>13. /\ Evolves(f, g) /\ Kept(f, g)
       /\ g.templates = f.templates /\ g.projects = f.projects /\ g.units = f.units /\ g.configs = f.configs
       /\ \A i \in 1..n : Len(f.raters) + i \in DOMAIN g.raters /\ g.raters[Len(f.raters) + i] = Len(d.configs) + i
  <2>1. \A a \in DOMAIN f.raters : f.raters[a] <= Len(d.configs)
    BY <1>6, <1>8, <1>12 DEF Whole
  <2>2. Whole(f)
    BY <1>12 DEF Evolves
  <2>3. RatersAdded(f, g, n, Len(d.configs))
    BY <1>6, <1>7, <1>10, <1>11, <1>12, <2>1, <2>2, AddRaters
  <2> QED BY <2>3 DEF RatersAdded
<1>14. Evolves(g, e) /\ Kept(g, e) /\ [Bundle(e, Len(e.projects)) EXCEPT !.name = b.name] = b
  <2>1. Whole(g) /\ g.templates = c.templates
    BY <1>12, <1>13 DEF Evolves
  <2>2. /\ Len(g.templates) \in LiveTemplates(g) /\ Len(g.templates) \in Nat
        /\ g.templates[Len(g.templates)].version = 1 /\ g.templates[Len(g.templates)].shape = b.shape
        /\ g.templates[Len(g.templates)].panels = b.panels
    BY <1>8, <2>1, TableFacts DEF LiveTemplates, Indices, Whole
  <2>3. JudgesAdded(d, g, b)
    <3>1. \A i \in 1..n : Len(d.raters) + i \in DOMAIN g.raters /\ g.raters[Len(d.raters) + i] = Len(d.configs) + i
      BY <1>8, <1>12, <1>13
    <3>2. \A i \in 1..n : g.configs[Len(d.configs) + i] = new[i]
      BY <1>12, <1>13
    <3>3. \A i \in 1..n : g.configs[Len(d.configs) + i].name = b.judges[i].name /\ g.configs[Len(d.configs) + i].model = b.judges[i].model
      BY <1>9, <3>2
    <3> QED BY <3>1, <3>3 DEF JudgesAdded, n
  <2>4. Imported(row(g), d, g, b)
    BY <1>6, <2>2, ImportedIs DEF row
  <2>5. e = [g EXCEPT !.projects = Append(g.projects, row(g))]
    BY <1>4, <1>5
  <2>6. /\ Evolves(g, e) /\ Kept(g, e)
        /\ e.templates = g.templates /\ e.units = g.units /\ e.configs = g.configs
        /\ e.projects[Len(e.projects)] = row(g)
    BY <1>1, <1>6, <2>1, <2>2, <2>3, <2>4, <2>5, BundleEvolves
  <2>7. [Bundle(e, Len(e.projects)) EXCEPT !.name = b.name] = b
    BY <2>2, <2>3, <2>4, <2>6, BundleRestored
  <2> QED BY <2>6, <2>7
<1>15. Evolves(d, e)
  BY <1>6, <1>8, <1>12, <1>13, <1>14, EvolvesTransitive DEF Evolves, Whole
<1>16. Untouched(d, e)
  <2>1. Untouched(c, f)
    BY <1>12 DEF Untouched
  <2>2. Untouched(d, c) /\ Untouched(f, g) /\ Untouched(g, e)
    BY <1>8, <1>13, <1>14 DEF Kept
  <2>3. c \in Databases /\ f \in Databases /\ g \in Databases
    BY <1>8, <1>12, <1>13 DEF Evolves, Whole
  <2> QED BY <1>6, <1>8, <1>12, <1>13, <1>14, <2>1, <2>2, <2>3, UntouchedTransitive, EvolvesTransitive
<1>17. v = d => InOrder(d, e)
  BY <1>8, <1>12, <1>13, <1>14 DEF Kept, InOrder
<1> QED BY <1>14, <1>15, <1>16, <1>17

-----------------------------------------------------------------------------
(* Every request.                                                          *)

LEMMA OpsAreAsked ==
  ASSUME NEW d, Whole(d), shared \subseteq Bundles, NEW op \in Ops(d)
  PROVE  Asked(op, d)
<1> DEFINE ts == LiveTemplates(d)
           ps == DOMAIN d.projects
           cs == DOMAIN d.configs
           names == {d.configs[c].name : c \in cs}
<1>1. \A o \in Overlaps : o[1] \in Nat /\ o[2] \in Nat
  BY SettingsAssumption
<1>2. \/ op \in {"create"} \X Shapes \/ op \in {"clone"} \X ts
      \/ op \in {"edit"} \X ts \X Shapes \X Orders \/ op \in {"delete"} \X ts \X BOOLEAN
      \/ op \in {<<"project", t, o[1], o[2]>> : t \in ts, o \in Overlaps} \/ op \in {"import"} \X shared
      \/ op \in {<<"update", p, shape, panels, o[1], o[2]>> : p \in ps, shape \in Shapes, panels \in Orders, o \in Overlaps}
      \/ op \in {"config"} \X ps \X {1} \/ op \in {"ingest"} \X ps
      \/ op \in {"judge"} \X names \X Models \/ op \in {"attach", "detach"} \X ps \X cs
      \/ op \in {"checkpoint"} \X ps \X names \X Models
  BY DEF Ops, Indices
<1> HIDE DEF ts, ps, cs, names
<1>3. CASE op \in {"create"} \X Shapes
  BY <1>3 DEF Asked
<1>4. CASE op \in {"clone"} \X ts
  BY <1>4 DEF Asked, ts
<1>5. CASE op \in {"edit"} \X ts \X Shapes \X Orders
  BY <1>5 DEF Asked, ts
<1>6. CASE op \in {"delete"} \X ts \X BOOLEAN
  BY <1>6 DEF Asked, ts
<1>7. CASE op \in {<<"project", t, o[1], o[2]>> : t \in ts, o \in Overlaps}
  BY <1>1, <1>7 DEF Asked, ts
<1>8. CASE op \in {"import"} \X shared
  BY <1>8 DEF Asked
<1>9. CASE op \in {<<"update", p, shape, panels, o[1], o[2]>> : p \in ps, shape \in Shapes, panels \in Orders, o \in Overlaps}
  BY <1>1, <1>9 DEF Asked, ps
<1>10. CASE op \in {"config"} \X ps \X {1}
  BY <1>10 DEF Asked, ps
<1>11. CASE op \in {"ingest"} \X ps
  BY <1>11 DEF Asked, ps
<1>12. CASE op \in {"judge"} \X names \X Models
  BY <1>12 DEF Asked, names, cs
<1>13. CASE op \in {"attach", "detach"} \X ps \X cs
  BY <1>13 DEF Asked, ps, cs
<1>14. CASE op \in {"checkpoint"} \X ps \X names \X Models
  BY <1>14 DEF Asked, ps, names, cs
<1> QED BY <1>2, <1>3, <1>4, <1>5, <1>6, <1>7, <1>8, <1>9, <1>10, <1>11, <1>12, <1>13, <1>14

\* What an update, and what any other request, leaves of the units and bindings there are.
Reach(op, v, d, e) ==
  /\ op[1] # "update" => Untouched(d, e)
  /\ op[1] = "update" => /\ \A q \in DOMAIN d.projects : q # op[2] => e.projects[q].template = d.projects[q].template
                         /\ v = d => Spared(d, e, op[2])

\* What any request leaves, and what in particular a deletion and an import do.
LEMMA EffectsEvolve ==
  ASSUME NEW v, NEW d, Whole(v), Whole(d), Later(v, d), NEW op, Asked(op, v), NEW e \in Effects(op, v, d)
  PROVE  /\ Evolves(d, e) /\ (v = d => InOrder(d, e)) /\ Reach(op, v, d, e)
         /\ op[1] = "delete" => op[2] \in LiveTemplates(v) /\ op[3] \in BOOLEAN
                                  /\ LiveTemplates(e) = LiveTemplates(d) \ Doomed(v, op[2], op[3])
         /\ op[1] = "import" => [Bundle(e, Len(e.projects)) EXCEPT !.name = op[2].name] = op[2]
<1> DEFINE Goal == /\ Evolves(d, e) /\ (v = d => InOrder(d, e)) /\ Reach(op, v, d, e)
                   /\ op[1] = "delete" => op[2] \in LiveTemplates(v) /\ op[3] \in BOOLEAN
                                            /\ LiveTemplates(e) = LiveTemplates(d) \ Doomed(v, op[2], op[3])
                   /\ op[1] = "import" => [Bundle(e, Len(e.projects)) EXCEPT !.name = op[2].name] = op[2]
<1>1. v \in Databases /\ d \in Databases
  BY DEF Whole
<1>2. \A c \in DOMAIN v.configs : v.configs[c].name \in STRING
  BY <1>1, TableFacts DEF ConfigRow
<1>3. DOMAIN v.configs \subseteq DOMAIN d.configs
  BY <1>1, StillThere
<1>4. ASSUME NEW shape \in Shapes, op = <<"create", shape>> PROVE Goal
  BY <1>4, CreateEvolves DEF Effects, Reach, Kept
<1>5. ASSUME NEW t \in LiveTemplates(v), op = <<"clone", t>> PROVE Goal
  BY <1>5, CloneEvolves DEF Effects, Reach, Kept
<1>6. ASSUME NEW t \in LiveTemplates(v), NEW shape \in Shapes, NEW panels \in Orders, op = <<"edit", t, shape, panels>> PROVE Goal
  BY <1>6, EditEvolves DEF Effects, Reach, Kept
<1>7. ASSUME NEW t \in LiveTemplates(v), NEW all \in BOOLEAN, op = <<"delete", t, all>> PROVE Goal
  BY <1>7, DeleteEvolves DEF Effects, Reach, Kept
<1>8. ASSUME NEW t \in LiveTemplates(v), NEW k \in Nat, NEW max \in Nat, op = <<"project", t, k, max>> PROVE Goal
  BY <1>8, CreateProjectEvolves DEF Effects, Reach, Kept
<1>9. ASSUME NEW b \in Bundles, op = <<"import", b>> PROVE Goal
  BY <1>9, ImportEvolves DEF Effects, Reach, Kept
<1>10. ASSUME NEW p \in DOMAIN v.projects, NEW shape \in Shapes, NEW panels \in Orders,
              NEW k \in Nat, NEW max \in Nat, op = <<"update", p, shape, panels, k, max>>
       PROVE  Goal
  BY <1>10, UpdateEvolves DEF Effects, Reach
<1>11. ASSUME NEW p \in DOMAIN v.projects, op = <<"config", p, 1>> PROVE Goal
  BY <1>11, ReplaceConfigEvolves DEF Effects, Reach, Kept
<1>12. ASSUME NEW p \in DOMAIN v.projects, op = <<"ingest", p>> PROVE Goal
  BY <1>12, IngestEvolves DEF Effects, Reach, Kept
<1>13. ASSUME NEW c \in DOMAIN v.configs, NEW model \in Models, op = <<"judge", v.configs[c].name, model>> PROVE Goal
  BY <1>2, <1>13, CreateConfigEvolves DEF Effects, Reach, Kept
<1>14. ASSUME NEW p \in DOMAIN v.projects, NEW c \in DOMAIN v.configs, op = <<"attach", p, c>> PROVE Goal
  BY <1>3, <1>14, AttachEvolves DEF Effects, Reach, Kept
<1>15. ASSUME NEW p \in DOMAIN v.projects, NEW c \in DOMAIN v.configs, op = <<"detach", p, c>> PROVE Goal
  BY <1>15, DetachEvolves DEF Effects, Reach, Kept
<1>16. ASSUME NEW p \in DOMAIN v.projects, NEW c \in DOMAIN v.configs, NEW model \in Models,
              op = <<"checkpoint", p, v.configs[c].name, model>>
       PROVE  Goal
  BY <1>2, <1>16, CheckpointEvolves DEF Effects, Reach, Kept
<1> HIDE DEF Goal
<1>17. Goal
  BY <1>4, <1>5, <1>6, <1>7, <1>8, <1>9, <1>10, <1>11, <1>12, <1>13, <1>14, <1>15, <1>16 DEF Asked
<1> QED BY <1>17 DEF Goal

LEMMA DeletedAre ==
  ASSUME NEW v, NEW d, Whole(v), Whole(d), Later(v, d), NEW op, Asked(op, v), op[1] = "delete", NEW e \in Effects(op, v, d)
  PROVE  op[3] \in BOOLEAN /\ LiveTemplates(e) = LiveTemplates(d) \ Doomed(v, op[2], op[3])
BY EffectsEvolve, ZenonT(60)

\* A bundle carries what a bundle may.
LEMMA BundleFacts ==
  ASSUME NEW d, Whole(d), NEW p \in DOMAIN d.projects
  PROVE  Bundle(d, p) \in Bundles
<1> DEFINE row == d.projects[p]
           n == Len(row.judges)
           js == [i \in DOMAIN row.judges |-> LET c == d.configs[row.judges[i].config] IN [name |-> c.name, model |-> c.model]]
<1>1. d \in Databases /\ row \in ProjectRow /\ row.template \in DOMAIN d.templates
  BY TableFacts DEF Whole, Bound, LiveTemplates, Indices
<1>2. d.templates[row.template] \in TemplateRow
  BY <1>1, TableFacts
<1>3. row.judges \in Seq(Enrollment)
  BY <1>1 DEF ProjectRow
<1>4. n \in Nat /\ DOMAIN row.judges = 1..n
  BY <1>3, SeqFacts
<1>5. \A i \in 1..n : d.configs[row.judges[i].config] \in ConfigRow
  <2>1. \A i \in 1..n : row.judges[i].config \in DOMAIN d.configs
    BY <1>4 DEF Whole, Staffed
  <2>2. \A c \in DOMAIN d.configs : d.configs[c] \in ConfigRow
    BY <1>1, TableFacts
  <2> QED BY <2>1, <2>2
<1>6. js \in [1..n -> [name : STRING, model : Models]]
  BY <1>4, <1>5 DEF ConfigRow
<1>7. js \in Seq([name : STRING, model : Models])
  <2> HIDE DEF js, n
  <2> QED BY <1>4, <1>6, FunctionIsSeq
<1>8. Bundle(d, p) = [name |-> d.templates[row.template].name, shape |-> d.templates[row.template].shape,
                      panels |-> d.templates[row.template].panels, k |-> row.k, max |-> row.max, judges |-> js]
  BY DEF Bundle, ShapeOf, PanelsOf
<1> HIDE DEF js
<1> QED BY <1>1, <1>2, <1>7, <1>8 DEF Bundles, ProjectRow, TemplateRow

-----------------------------------------------------------------------------
(* The steps.                                                              *)

\* What GenesisAssumption asks is no more than an installation has: templates, and nothing else yet.
LEMMA FreshIsSound ==
  ASSUME NEW ts \in Seq(TemplateRow),
         NEW d, d = [templates |-> ts, projects |-> <<>>, units |-> <<>>, configs |-> <<>>, raters |-> <<>>]
  PROVE  Sound(d) /\ Enlisted(d) /\ ToldApart(d) /\ Collectable(d)
<1>1. d.templates = ts /\ d.projects = <<>> /\ d.units = <<>> /\ d.configs = <<>> /\ d.raters = <<>>
  OBVIOUS
<1>2. d \in Databases
  BY EmptySeq DEF Databases
<1>3. DOMAIN d.projects = {} /\ DOMAIN d.units = {} /\ DOMAIN d.configs = {} /\ DOMAIN d.raters = {}
  BY <1>1
<1> QED BY <1>1, <1>2, <1>3 DEF Sound, Enlisted, ToldApart, Collectable, IsInjective, Indices

\* A unit's row changes: what there is to show of it.
Resaved(u, row) ==
  /\ row \in UnitRow /\ row.project = db.units[u].project /\ row.passed = db.units[u].passed
  /\ IsFiniteSet(row.slots) /\ Cardinality(row.slots) \in Nat
  /\ Cardinality(row.slots) >= Cardinality(db.units[u].slots)
  /\ \A s \in row.slots : s.id <= row.next /\ \A t \in row.slots : s.id = t.id => s = t

\* Annotators, reviewers and the pipeline leave rows whole, and no unit with fewer slots.
LEMMA MeanwhileEvolves ==
  ASSUME Whole(db), NEW u \in DOMAIN db.units, NEW row, Resaved(u, row), Meanwhile(u, row)
  PROVE  Evolves(db, db') /\ InOrder(db, db')
<1> DEFINE us == [db.units EXCEPT ![u] = row]
<1>1. db \in Databases /\ db.units \in Seq(UnitRow) /\ Len(db.units) \in Nat
  BY DatabaseFacts, TableFacts DEF Whole
<1>2. db' = [db EXCEPT !.units = us]
  BY DEF Meanwhile
<1>3. /\ us \in Seq(UnitRow) /\ Len(us) = Len(db.units) /\ DOMAIN us = DOMAIN db.units
      /\ \A x \in DOMAIN db.units : us[x] = IF x = u THEN row ELSE db.units[x]
  BY <1>1, ReplaceFacts DEF Resaved
<1> HIDE DEF us
<1>4. Numbered(db, row)
  BY DEF Resaved, Numbered, Whole
<1>5. \A x \in DOMAIN us : Numbered(db, us[x])
  BY <1>3, <1>4 DEF Whole
<1>6. Len(db.units) <= Len(us) /\ \A x \in DOMAIN db.units : us[x].project = db.units[x].project
  BY <1>1, <1>3 DEF Resaved
<1>7. Evolves(db, db') /\ (ToldApart(db) => ToldApart(db'))
  BY <1>2, <1>3, <1>5, <1>6, UnitsEvolve
<1>8. ASSUME Collectable(db) PROVE Collectable(db')
  <2>1. \A x \in DOMAIN db.units : Covered(db.units[x], db.projects[db.units[x].project].k)
    BY <1>8 DEF Collectable, Indices, Covered
  <2>2. Covered(row, db.projects[row.project].k)
    <3>1. Cardinality(db.units[u].slots) \in Nat
      BY UnitFacts
    <3>2. db.units[u].project \in DOMAIN db.projects
      BY DEF Whole, Numbered
    <3>3. db.projects[db.units[u].project].k \in Nat
      BY <1>1, <3>2, TableFacts DEF ProjectRow
    <3>4. Covered(db.units[u], db.projects[row.project].k) /\ db.projects[row.project].k \in Nat
      BY <2>1, <3>3 DEF Resaved
    <3> QED BY <3>1, <3>4 DEF Covered, Resaved
  <2>3. \A x \in DOMAIN us : Covered(us[x], db.projects[us[x].project].k)
    BY <1>3, <2>1, <2>2
  <2> QED BY <1>2, <1>3, <1>5, <1>6, <1>8, <2>3, UnitsEvolve
<1> QED BY <1>7, <1>8 DEF InOrder

\* A slot filled is the same slot.
LEMMA LabelFacts ==
  ASSUME Whole(db), NEW u \in DOMAIN db.units, NEW s \in db.units[u].slots, ~s.filled
  PROVE  /\ Resaved(u, Label(u, s))
         /\ Label(u, s).next = db.units[u].next
         /\ Label(u, s).slots \subseteq SlotRow
         /\ Cardinality(Label(u, s).slots) = Cardinality(db.units[u].slots)
<1> DEFINE old == db.units[u].slots
           now == [s EXCEPT !.filled = TRUE]
           new == (old \ {s}) \cup {now}
           row == Label(u, s)
<1>1. db.units[u] \in UnitRow /\ old \subseteq SlotRow /\ IsFiniteSet(old) /\ Cardinality(old) \in Nat /\ Numbered(db, db.units[u])
  BY UnitFacts DEF Whole
<1>2. now \in SlotRow /\ now.id = s.id /\ now.filled
  BY <1>1 DEF SlotRow
<1> HIDE DEF now
<1>3. now \notin old \ {s}
  BY <1>1, <1>2 DEF Numbered
<1>4. IsFiniteSet(new) /\ Cardinality(new) = Cardinality(old)
  <2>1. IsFiniteSet(old \ {s}) /\ Cardinality(old \ {s}) = Cardinality(old) - 1
    BY <1>1, FS_RemoveElement
  <2>2. IsFiniteSet(new) /\ Cardinality(new) = Cardinality(old \ {s}) + 1
    BY <1>3, <2>1, FS_AddElement
  <2> QED BY <1>1, <2>1, <2>2
<1>5. new \in SUBSET SlotRow
  BY <1>1, <1>2
<1>6. \A x \in new : x.id <= db.units[u].next /\ \A y \in new : x.id = y.id => x = y
  BY <1>1, <1>2 DEF Numbered
<1>7. row = [db.units[u] EXCEPT !.slots = new]
  BY DEF Label, now
<1> HIDE DEF new, row
<1>8. /\ row \in UnitRow /\ row.project = db.units[u].project /\ row.passed = db.units[u].passed
      /\ row.slots = new /\ row.next = db.units[u].next
  BY <1>1, <1>5, <1>7 DEF UnitRow
<1>9. Resaved(u, row)
  BY <1>1, <1>4, <1>6, <1>8 DEF Resaved
<1> QED BY <1>4, <1>5, <1>8, <1>9 DEF row

LEMMA FillEvolves ==
  ASSUME Whole(db), NEW u \in DOMAIN db.units, NEW s \in db.units[u].slots, FillSlot(u, s)
  PROVE  Evolves(db, db') /\ InOrder(db, db')
BY LabelFacts, MeanwhileEvolves DEF FillSlot

LEMMA GrowUnitEvolves ==
  ASSUME Whole(db), NEW u \in DOMAIN db.units, NEW s \in db.units[u].slots, GrowUnit(u, s)
  PROVE  Evolves(db, db') /\ InOrder(db, db')
<1> DEFINE label == Label(u, s)
           shape == ShapeOf(db, db.units[u].project)
           n == Rounds(u)
           more == Plan(shape, n, db.units[u].next)
           row == [label EXCEPT !.finalized = FALSE, !.next = @ + n, !.slots = @ \cup more]
<1>1. Meanwhile(u, row) /\ ~s.filled
  BY DEF GrowUnit, Open
<1>2. /\ db.units[u] \in UnitRow /\ db.units[u].next \in Nat /\ db.units[u].project \in DOMAIN db.projects
      /\ Cardinality(db.units[u].slots) \in Nat
  BY UnitFacts DEF Whole, Numbered
<1>3. shape \in Shapes
  <2>1. db \in Databases /\ db.projects[db.units[u].project].template \in DOMAIN db.templates
    BY <1>2 DEF Whole, Bound, LiveTemplates, Indices
  <2> QED BY <2>1, TableFacts DEF ShapeOf, TemplateRow
<1>4. n \in Nat
  BY <1>3, SettingsAssumption DEF Rounds
<1>5. /\ Resaved(u, label) /\ label.next = db.units[u].next /\ label.slots \subseteq SlotRow
      /\ Cardinality(label.slots) = Cardinality(db.units[u].slots)
  BY <1>1, LabelFacts
<1> HIDE DEF n, shape, label
<1>6. /\ more \subseteq SlotRow /\ IsFiniteSet(more) /\ Cardinality(more) = n
      /\ \A x \in more : db.units[u].next < x.id /\ x.id <= db.units[u].next + n /\ \A y \in more : x.id = y.id => x = y
  BY <1>2, <1>3, <1>4, PlanFacts
<1> HIDE DEF more
<1>7. /\ row \in UnitRow /\ row.project = db.units[u].project /\ row.passed = db.units[u].passed
      /\ row.slots = label.slots \cup more /\ row.next = db.units[u].next + n
  <2>1. db.units[u].next + n \in Nat /\ label.slots \cup more \in SUBSET SlotRow
    BY <1>2, <1>4, <1>5, <1>6
  <2>2. label \in UnitRow /\ label.project = db.units[u].project /\ label.passed = db.units[u].passed
    BY <1>5 DEF Resaved
  <2> QED BY <1>5, <2>1, <2>2 DEF UnitRow
<1>8. \A x \in label.slots : x.id \in Nat /\ x.id <= db.units[u].next /\ \A y \in label.slots : x.id = y.id => x = y
  BY <1>5 DEF Resaved, SlotRow
<1>9. \A x \in more : x.id \in Nat
  BY <1>6 DEF SlotRow
<1>10. /\ IsFiniteSet(label.slots \cup more) /\ Cardinality(label.slots \cup more) \in Nat
       /\ Cardinality(label.slots \cup more) >= Cardinality(db.units[u].slots)
  <2>1. IsFiniteSet(label.slots \cup more)
    BY <1>5, <1>6, FS_Union DEF Resaved
  <2>2. Cardinality(label.slots) <= Cardinality(label.slots \cup more)
    BY <2>1, FS_Subset
  <2>3. Cardinality(label.slots \cup more) \in Nat
    BY <2>1, FS_CardinalityType
  <2> QED BY <1>2, <1>5, <2>1, <2>2, <2>3
<1>11. \A x \in label.slots \cup more : x.id <= db.units[u].next + n /\ \A y \in label.slots \cup more : x.id = y.id => x = y
  BY <1>2, <1>4, <1>6, <1>8, <1>9
<1> HIDE DEF row
<1>12. Resaved(u, row)
  BY <1>7, <1>10, <1>11 DEF Resaved
<1> QED BY <1>1, <1>12, MeanwhileEvolves DEF row

LEMMA FinalizeEvolves ==
  ASSUME Whole(db), NEW u \in DOMAIN db.units, NEW human \in BOOLEAN, Finalize(u, human)
  PROVE  Evolves(db, db') /\ InOrder(db, db')
<1> DEFINE row == [db.units[u] EXCEPT !.finalized = TRUE, !.human = @ \/ human]
<1>1. /\ db.units[u] \in UnitRow /\ IsFiniteSet(db.units[u].slots) /\ Cardinality(db.units[u].slots) \in Nat
      /\ Numbered(db, db.units[u])
  BY UnitFacts DEF Whole
<1>2. /\ row \in UnitRow /\ row.project = db.units[u].project /\ row.passed = db.units[u].passed
      /\ row.slots = db.units[u].slots /\ row.next = db.units[u].next
  BY <1>1 DEF UnitRow
<1>3. Meanwhile(u, row)
  BY DEF Finalize
<1> HIDE DEF row
<1>4. Resaved(u, row)
  BY <1>1, <1>2 DEF Resaved, Numbered
<1> QED BY <1>3, <1>4, MeanwhileEvolves

\* The slots of a voided unit are as many as before, and told apart as before.
LEMMA VoidEvolves ==
  ASSUME Whole(db), NEW u \in DOMAIN db.units, Void(u)
  PROVE  Evolves(db, db') /\ InOrder(db, db')
<1> DEFINE old == db.units[u].slots
           f == [s \in old |-> Emptied(s)]
           new == {f[s] : s \in old}
           row == [db.units[u] EXCEPT !.slots = new, !.finalized = @ /\ db.units[u].human]
<1>1. db.units[u] \in UnitRow /\ old \subseteq SlotRow /\ IsFiniteSet(old) /\ Cardinality(old) \in Nat /\ Numbered(db, db.units[u])
  BY UnitFacts DEF Whole
<1>2. \A s \in old : f[s] \in SlotRow /\ f[s].id = s.id
  <2> SUFFICES ASSUME NEW s \in old PROVE f[s] \in SlotRow /\ f[s].id = s.id
    OBVIOUS
  <2>1. s \in SlotRow
    BY <1>1
  <2> QED BY <2>1 DEF SlotRow, Emptied
<1>3. Meanwhile(u, row)
  <2>1. {Emptied(s) : s \in old} = new
    OBVIOUS
  <2> QED BY <2>1 DEF Void
<1> HIDE DEF f
<1>4. f \in [old -> SlotRow]
  BY <1>2 DEF f
<1>5. \A s, x \in old : f[s] = f[x] => s = x
  BY <1>1, <1>2 DEF Numbered
<1>6. f \in Bijection(old, new)
  BY <1>4, <1>5 DEF Bijection, Injection, Surjection, IsInjective
<1>7. IsFiniteSet(new) /\ Cardinality(new) = Cardinality(old)
  <2> HIDE DEF old, new
  <2> QED BY <1>1, <1>6, FS_Bijection DEF ExistsBijection
<1>8. \A x \in new : x.id <= db.units[u].next /\ \A y \in new : x.id = y.id => x = y
  BY <1>1, <1>2 DEF Numbered
<1>9. new \in SUBSET SlotRow
  BY <1>2
<1> HIDE DEF new
<1>10. /\ row \in UnitRow /\ row.project = db.units[u].project /\ row.passed = db.units[u].passed
       /\ row.slots = new /\ row.next = db.units[u].next
  BY <1>1, <1>9 DEF UnitRow
<1> HIDE DEF row
<1>11. Resaved(u, row)
  BY <1>1, <1>7, <1>8, <1>10 DEF Resaved
<1> QED BY <1>3, <1>11, MeanwhileEvolves

LEMMA InitInv == Init => SettingsInv
<1> SUFFICES ASSUME Init PROVE SettingsInv
  OBVIOUS
<1>1. Whole(db) /\ ToldApart(db) /\ Collectable(db)
  BY GenesisAssumption, WholeIs DEF Init
<1>2. \A s \in Sessions : Under(s)
  BY DEF Init, Under
<1>3. shared \subseteq Bundles /\ served \in 0..MaxRequests /\ alone \in BOOLEAN /\ req = [s \in Sessions |-> req[s]]
  BY SettingsAssumption DEF Init
<1> QED BY <1>1, <1>2, <1>3 DEF SettingsInv

\* Between requests nothing of what sessions have read goes out of date for good.
LEMMA Undisturbed ==
  ASSUME SettingsInv, Evolves(db, db'), NEW s \in Sessions, req'[s] = req[s], alone' => alone /\ (db' = db \/ req[s] = Idle)
  PROVE  req'[s] # Idle => Asked(req'[s].op, req'[s].view) /\ Whole(req'[s].view) /\ Later(req'[s].view, db')
                             /\ (alone' => req'[s].view = db')
<1> SUFFICES ASSUME req[s] # Idle
             PROVE  Asked(req[s].op, req[s].view) /\ Whole(req[s].view) /\ Later(req[s].view, db')
                      /\ (alone' => req[s].view = db')
  OBVIOUS
<1>1. Asked(req[s].op, req[s].view) /\ Whole(req[s].view) /\ Later(req[s].view, db) /\ (alone => req[s].view = db)
  BY DEF SettingsInv, Under
<1>2. Later(req[s].view, db')
  BY <1>1, LaterTransitive DEF SettingsInv, Evolves, Whole
<1> QED BY <1>1, <1>2

\* A step of the annotators, or between requests, disturbs none of them.
LEMMA AmongIdle ==
  ASSUME SettingsInv, Evolves(db, db'), alone => InOrder(db, db'),
         shared' \subseteq Bundles, req' = req, served' = served,
         alone' \in BOOLEAN, alone' => alone /\ (db' = db \/ Quiet)
  PROVE  SettingsInv'
<1>1. \A s \in Sessions : Under(s)'
  <2> SUFFICES ASSUME NEW s \in Sessions PROVE Under(s)'
    OBVIOUS
  <2>1. alone' => alone /\ (db' = db \/ req[s] = Idle)
    BY DEF Quiet
  <2>2. req'[s] # Idle => Asked(req'[s].op, req'[s].view) /\ Whole(req'[s].view) /\ Later(req'[s].view, db')
                             /\ (alone' => req'[s].view = db')
    BY <2>1, Undisturbed
  <2>3. req'[s] # Idle /\ alone' => \A r \in Sessions : req'[r] # Idle => r = s
    BY DEF SettingsInv, Under
  <2> QED BY <2>2, <2>3 DEF Under
<1>2. Whole(db') /\ (alone' => ToldApart(db') /\ Collectable(db'))
  BY DEF SettingsInv, Evolves, InOrder
<1>3. served' \in 0..MaxRequests /\ req' = [s \in Sessions |-> req'[s]]
  BY DEF SettingsInv
<1> QED BY <1>1, <1>2, <1>3 DEF SettingsInv

\* The invariant is inductive, and rows evolve.
LEMMA NextInv ==
  ASSUME SettingsInv, [Next]_vars
  PROVE  SettingsInv' /\ Evolves(db, db')
<1>1. /\ Whole(db) /\ db \in Databases /\ shared \subseteq Bundles /\ served \in 0..MaxRequests /\ alone \in BOOLEAN
      /\ \A s \in Sessions : Under(s)
      /\ alone => ToldApart(db) /\ Collectable(db)
  BY DEF SettingsInv, Whole
<1>2. Evolves(db, db) /\ InOrder(db, db)
  BY <1>1, LaterSelf DEF Evolves, InOrder
<1>3. ASSUME NEW s \in Sessions, Read(s)
      PROVE  SettingsInv' /\ Evolves(db, db')
  <2>1. PICK op \in Ops(db) : req' = [req EXCEPT ![s] = [op |-> op, view |-> db]]
    BY <1>3 DEF Read
  <2>2. /\ db' = db /\ shared' = shared /\ served < MaxRequests /\ served' = served + 1 /\ alone' = (alone /\ Quiet)
    BY <1>3 DEF Read
  <2>3. Asked(op, db)
    BY <1>1, OpsAreAsked
  <2>4. req'[s].op = op /\ req'[s].view = db /\ \A r \in Sessions \ {s} : req'[r] = req[r]
    BY <2>1 DEF SettingsInv
  <2>5. ASSUME NEW r \in Sessions PROVE Under(r)'
    <3>1. CASE r = s
      <4>1. alone' => \A q \in Sessions : req'[q] # Idle => q = s
        BY <2>2, <2>4 DEF Quiet
      <4> QED BY <1>1, <1>2, <2>2, <2>3, <2>4, <3>1, <4>1 DEF Under, Evolves
    <3>2. CASE r # s
      <4>1. req'[r] # Idle => ~alone'
        BY <2>2, <2>4, <3>2 DEF Quiet
      <4>2. req'[r] # Idle => Asked(req[r].op, req[r].view) /\ Whole(req[r].view) /\ Later(req[r].view, db)
        BY <1>1, <2>4, <3>2 DEF Under
      <4> QED BY <2>2, <2>4, <3>2, <4>1, <4>2 DEF Under
    <3> QED BY <3>1, <3>2
  <2>6. served' \in 0..MaxRequests
    BY <1>1, <2>2, SettingsAssumption
  <2>7. req' = [r \in Sessions |-> req'[r]]
    BY <2>1 DEF SettingsInv
  <2>8. alone' \in BOOLEAN /\ (alone' => alone)
    BY <2>2
  <2>9. SettingsInv'
    BY <1>1, <2>2, <2>5, <2>6, <2>7, <2>8 DEF SettingsInv
  <2> QED BY <1>2, <2>2, <2>9
<1>4. ASSUME NEW s \in Sessions, Write(s)
      PROVE  SettingsInv' /\ Evolves(db, db')
  <2> DEFINE v == req[s].view
  <2>1. /\ req[s] # Idle /\ db' \in Effects(req[s].op, v, db) /\ req' = [req EXCEPT ![s] = Idle]
        /\ shared' = shared /\ served' = served /\ alone' = alone
    BY <1>4 DEF Write
  <2>2. /\ Asked(req[s].op, v) /\ Whole(v) /\ Later(v, db)
        /\ alone => v = db /\ \A r \in Sessions : req[r] # Idle => r = s
    BY <1>1, <2>1 DEF Under
  <2>3. Evolves(db, db') /\ (v = db => InOrder(db, db'))
    BY <1>1, <2>1, <2>2, EffectsEvolve
  <2>4. req'[s] = Idle /\ \A r \in Sessions \ {s} : req'[r] = req[r]
    BY <2>1 DEF SettingsInv
  <2>5. ASSUME NEW r \in Sessions PROVE Under(r)'
    <3>1. CASE r = s
      BY <2>4, <3>1 DEF Under
    <3>2. CASE r # s
      <4>1. alone' => alone /\ (db' = db \/ req[r] = Idle)
        BY <2>1, <2>2, <3>2
      <4>2. req'[r] # Idle => Asked(req'[r].op, req'[r].view) /\ Whole(req'[r].view) /\ Later(req'[r].view, db')
                                 /\ (alone' => req'[r].view = db')
        BY <2>3, <2>4, <3>2, <4>1, Undisturbed
      <4>3. alone' => req'[r] = Idle
        BY <2>1, <2>2, <2>4, <3>2
      <4> QED BY <4>2, <4>3 DEF Under
    <3> QED BY <3>1, <3>2
  <2>6. req' = [r \in Sessions |-> req'[r]]
    BY <2>1 DEF SettingsInv
  <2>7. Whole(db') /\ (alone => ToldApart(db') /\ Collectable(db'))
    BY <1>1, <2>2, <2>3 DEF Evolves, InOrder
  <2>8. SettingsInv'
    BY <1>1, <2>1, <2>5, <2>6, <2>7 DEF SettingsInv
  <2> QED BY <2>3, <2>8
<1>5. ASSUME NEW s \in Sessions, Fail(s)
      PROVE  SettingsInv' /\ Evolves(db, db')
  <2>1. db' = db /\ shared' = shared /\ served' = served /\ alone' = alone /\ req' = [req EXCEPT ![s] = Idle]
    BY <1>5 DEF Fail
  <2>2. req'[s] = Idle /\ \A r \in Sessions \ {s} : req'[r] = req[r]
    BY <2>1 DEF SettingsInv
  <2>3. ASSUME NEW r \in Sessions PROVE Under(r)'
    <3>1. CASE r = s
      BY <2>2, <3>1 DEF Under
    <3>2. CASE r # s
      <4>1. req'[r] = req[r] /\ Under(r)
        BY <1>1, <2>2, <3>2
      <4>2. alone => \A q \in Sessions : req'[q] # Idle => req[q] # Idle
        BY <2>2
      <4> QED BY <2>1, <4>1, <4>2 DEF Under
    <3> QED BY <3>1, <3>2
  <2>4. req' = [r \in Sessions |-> req'[r]]
    BY <2>1 DEF SettingsInv
  <2>5. SettingsInv'
    BY <1>1, <2>1, <2>3, <2>4 DEF SettingsInv
  <2> QED BY <1>2, <2>1, <2>5
<1>6. ASSUME NEW p \in Indices(db, "projects"), Export(p)
      PROVE  SettingsInv' /\ Evolves(db, db')
  <2>1. db' = db /\ shared' = {Bundle(db, p)} /\ req' = req /\ served' = served /\ alone' = alone
    BY <1>6 DEF Export
  <2>2. shared' \subseteq Bundles
    BY <1>1, <1>6, <2>1, BundleFacts DEF Indices
  <2>3. SettingsInv'
    BY <1>1, <1>2, <2>1, <2>2, AmongIdle
  <2> QED BY <1>2, <2>1, <2>3
<1>7. ASSUME NEW u \in Indices(db, "units"), NEW human \in BOOLEAN, Finalize(u, human)
      PROVE  SettingsInv' /\ Evolves(db, db')
  <2>1. Evolves(db, db') /\ InOrder(db, db')
    BY <1>1, <1>7, FinalizeEvolves DEF Indices
  <2>2. shared' = shared /\ req' = req /\ served' = served /\ alone' = (alone /\ Quiet)
    BY <1>7 DEF Finalize, Meanwhile
  <2>3. SettingsInv'
    BY <1>1, <2>1, <2>2, AmongIdle
  <2> QED BY <2>1, <2>3
<1>8. ASSUME NEW u \in Indices(db, "units"), NEW s \in db.units[u].slots, FillSlot(u, s)
      PROVE  SettingsInv' /\ Evolves(db, db')
  <2>1. Evolves(db, db') /\ InOrder(db, db')
    BY <1>1, <1>8, FillEvolves DEF Indices
  <2>2. shared' = shared /\ req' = req /\ served' = served /\ alone' = (alone /\ Quiet)
    BY <1>8 DEF FillSlot, Meanwhile
  <2>3. SettingsInv'
    BY <1>1, <2>1, <2>2, AmongIdle
  <2> QED BY <2>1, <2>3
<1>9. ASSUME NEW u \in Indices(db, "units"), NEW s \in db.units[u].slots, GrowUnit(u, s)
      PROVE  SettingsInv' /\ Evolves(db, db')
  <2>1. Evolves(db, db') /\ InOrder(db, db')
    BY <1>1, <1>9, GrowUnitEvolves DEF Indices
  <2>2. shared' = shared /\ req' = req /\ served' = served /\ alone' = (alone /\ Quiet)
    BY <1>9 DEF GrowUnit, Meanwhile
  <2>3. SettingsInv'
    BY <1>1, <2>1, <2>2, AmongIdle
  <2> QED BY <2>1, <2>3
<1>10. ASSUME NEW u \in Indices(db, "units"), Void(u)
      PROVE  SettingsInv' /\ Evolves(db, db')
  <2>1. Evolves(db, db') /\ InOrder(db, db')
    BY <1>1, <1>10, VoidEvolves DEF Indices
  <2>2. shared' = shared /\ req' = req /\ served' = served /\ alone' = (alone /\ Quiet)
    BY <1>10 DEF Void, Meanwhile
  <2>3. SettingsInv'
    BY <1>1, <2>1, <2>2, AmongIdle
  <2> QED BY <2>1, <2>3
<1>11. CASE UNCHANGED vars
  <2>1. db' = db /\ shared' = shared /\ req' = req /\ served' = served /\ alone' = alone
    BY <1>11 DEF vars
  <2>2. SettingsInv'
    BY <1>1, <1>2, <2>1, AmongIdle
  <2> QED BY <1>2, <2>1, <2>2
<1> QED BY <1>3, <1>4, <1>5, <1>6, <1>7, <1>8, <1>9, <1>10, <1>11 DEF Next

LEMMA Always == Spec => []SettingsInv
<1>1. SettingsInv /\ [Next]_vars => SettingsInv'
  BY NextInv
<1> QED BY <1>1, InitInv, PTL DEF Spec

-----------------------------------------------------------------------------
(* The theorems.                                                           *)

\* However requests overlap, rows refer to rows that exist, and a vote counts for the judge
\* that gave it: every enrolled config version has a rater that is its own
\* (configs.annotator_for).  Requests one after the other, no config has two raters, and no
\* name two configs of one version (configs.py, checkpoints.py, bundle.py).
THEOREM OneOfEachTheorem == Spec => []OneOfEach
<1>1. SettingsInv => OneOfEach
  BY WholeIs DEF SettingsInv, OneOfEach, TypeOK
<1> QED BY <1>1, Always, PTL

\* Requests one after the other: K fits the variants of the bound schema, and every unit has
\* the slots K asks for, through labels, further rounds, decisions and voids, but those that
\* were finalized when K was raised (projects/service.py: create, update, ingest).
THEOREM CollectsKTheorem == Spec => []CollectsK
<1>1. SettingsInv => CollectsK
  BY DEF SettingsInv, CollectsK
<1> QED BY <1>1, Always, PTL

\* Writes alone change what admins have set up, and this is what they change of it.
LEMMA WriteReach ==
  ASSUME SettingsInv, NEW s \in Sessions, Write(s)
  PROVE  Reach(req[s].op, req[s].view, db, db') /\ (alone => req[s].view = db)
<1>1. /\ Asked(req[s].op, req[s].view) /\ Whole(req[s].view) /\ Later(req[s].view, db) /\ Whole(db)
      /\ db' \in Effects(req[s].op, req[s].view, db) /\ (alone => req[s].view = db)
  BY DEF SettingsInv, Under, Write
<1> QED BY <1>1, EffectsEvolve

\* However requests overlap, the inputs and variants that a project collects answers with
\* are changed by an update of that project and by nothing else, whoever edits, clones,
\* deletes or imports templates meanwhile (repository.edit_template, versioning.py).
THEOREM ShapeKeptTheorem == Spec => ShapeKept
<1> DEFINE Mine(p) == \E s \in Sessions : req[s].op[1] = "update" /\ req[s].op[2] = p /\ Write(s)
<1>1. ASSUME SettingsInv, [Next]_vars, NEW p \in Indices(db, "projects"), ShapeOf(db', p) # ShapeOf(db, p)
      PROVE  Mine(p)
  <2>1. /\ db \in Databases /\ Later(db, db')
        /\ p \in DOMAIN db.projects /\ db.projects[p].template \in DOMAIN db.templates
    BY <1>1, NextInv DEF SettingsInv, Evolves, Whole, Bound, LiveTemplates, Indices
  <2>2. db'.projects[p].template # db.projects[p].template
    BY <1>1, <2>1 DEF ShapeOf, Later, SameTemplate
  <2>3. db'.projects # db.projects
    BY <2>2
  <2>4. \A u, row : Meanwhile(u, row) => db'.projects = db.projects
    BY <2>1 DEF Meanwhile, Databases
  <2>5. PICK s \in Sessions : Write(s)
    BY <1>1, <2>3, <2>4 DEF Next, Read, Fail, Export, Void, Finalize, FillSlot, GrowUnit, vars
  <2>6. Reach(req[s].op, req[s].view, db, db')
    BY <1>1, <2>5, WriteReach
  <2>7. req[s].op[1] = "update"
    BY <2>1, <2>2, <2>6 DEF Reach, Untouched
  <2>8. req[s].op[2] = p
    BY <2>1, <2>2, <2>6, <2>7 DEF Reach
  <2> QED BY <2>5, <2>7, <2>8
<1>2. SettingsInv /\ [Next]_vars
        => [\A p \in Indices(db, "projects") : ShapeOf(db', p) # ShapeOf(db, p) => Mine(p)]_db
  BY <1>1
<1> QED BY <1>2, Always, PTL DEF Spec, ShapeKept

\* Whoever asks for all versions of a template leaves none of those it saw behind when it
\* deletes one, whatever others do meanwhile (repository.delete_template).
THEOREM LineageWholeTheorem == Spec => LineageWhole
<1> DEFINE Lineage(s) ==
             LET v == req[s].view
                 t == req[s].op[2]
                 kin == {i \in LiveTemplates(v) : v.templates[i].name = v.templates[t].name /\ v.templates[i].kind = "custom"}
             IN \A i \in LiveTemplates(db) \ LiveTemplates(db') : i = t \/ (req[s].op[3] /\ kin \cap LiveTemplates(db') = {})
<1>1. SettingsInv /\ [Next]_vars => [\A s \in Sessions : req[s].op[1] = "delete" /\ Write(s) => Lineage(s)]_vars
  <2> SUFFICES ASSUME SettingsInv, NEW s \in Sessions, req[s].op[1] = "delete", Write(s) PROVE Lineage(s)
    OBVIOUS
  <2> DEFINE v == req[s].view
             op == req[s].op
  <2>1. Asked(op, v) /\ Whole(v) /\ Later(v, db) /\ Whole(db) /\ db' \in Effects(op, v, db) /\ op[1] = "delete"
    BY DEF SettingsInv, Under, Write
  <2>2. op[3] \in BOOLEAN /\ LiveTemplates(db') = LiveTemplates(db) \ Doomed(v, op[2], op[3])
    <3> HIDE DEF op, v
    <3> QED BY <2>1, DeletedAre, Zenon
  <2> DEFINE kin == {i \in LiveTemplates(v) : v.templates[i].name = v.templates[op[2]].name /\ v.templates[i].kind = "custom"}
             gone == LiveTemplates(db) \ LiveTemplates(db')
  <2>3. gone \subseteq Doomed(v, op[2], op[3]) /\ LiveTemplates(db') \cap Doomed(v, op[2], op[3]) = {}
    BY <2>2
  <2>4. CASE ~op[3]
    <3>1. Doomed(v, op[2], op[3]) = {op[2]}
      BY <2>4 DEF Doomed
    <3> QED BY <2>3, <3>1
  <2>5. CASE op[3]
    <3>1. kin \subseteq Doomed(v, op[2], op[3])
      BY <2>5 DEF Doomed
    <3>2. kin \cap LiveTemplates(db') = {}
      BY <2>3, <3>1
    <3> QED BY <2>5, <3>2
  <2> QED BY <2>2, <2>4, <2>5
<1> QED BY <1>1, Always, PTL DEF Spec, LineageWhole

\* Requests one after the other: no request of an admin takes a slot that is filled, and
\* none but an update of its own project changes the slots or the state of a unit
\* (projects.service._reshape_overlap).
THEOREM WorkKeptTheorem == Spec => WorkKept
<1> DEFINE Left(s, u) ==
             /\ \A slot \in db.units[u].slots : slot.filled => slot \in db'.units[u].slots
             /\ db'.units[u] # db.units[u] => req[s].op[1] = "update" /\ req[s].op[2] = db.units[u].project
<1>1. ASSUME SettingsInv, alone, NEW s \in Sessions, Write(s), NEW u \in Indices(db, "units")
      PROVE  Left(s, u)
  <2>1. Reach(req[s].op, db, db, db') /\ u \in DOMAIN db.units
    BY <1>1, WriteReach DEF Indices
  <2>2. CASE req[s].op[1] # "update"
    BY <2>1, <2>2 DEF Reach, Untouched
  <2>3. CASE req[s].op[1] = "update"
    BY <2>1, <2>3 DEF Reach, Spared
  <2> QED BY <2>2, <2>3
<1>2. SettingsInv /\ [Next]_vars
        => [alone => \A s \in Sessions : Write(s) => \A u \in Indices(db, "units") : Left(s, u)]_vars
  BY <1>1
<1> QED BY <1>2, Always, PTL DEF Spec, WorkKept

\* An import makes the project its bundle was made from, with the same judges in the same
\* order, whatever has happened since the bundle was read (bundle.import_bundle).
THEOREM BundleRestoresTheorem == Spec => BundleRestores
<1>1. SettingsInv /\ [Next]_vars
        => [\A s \in Sessions : req[s].op[1] = "import" /\ Len(db'.projects) > Len(db.projects) /\ Write(s) =>
              [Bundle(db', Len(db'.projects)) EXCEPT !.name = req[s].op[2].name] = req[s].op[2]]_vars
  <2> SUFFICES ASSUME SettingsInv, NEW s \in Sessions, req[s].op[1] = "import", Write(s)
               PROVE  [Bundle(db', Len(db'.projects)) EXCEPT !.name = req[s].op[2].name] = req[s].op[2]
    OBVIOUS
  <2>1. /\ Asked(req[s].op, req[s].view) /\ Whole(req[s].view) /\ Later(req[s].view, db)
        /\ Whole(db) /\ db' \in Effects(req[s].op, req[s].view, db)
    BY DEF SettingsInv, Under, Write
  <2> QED BY <2>1, EffectsEvolve
<1> QED BY <1>1, Always, PTL DEF Spec, BundleRestores
=============================================================================
