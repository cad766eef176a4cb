------------------------------ MODULE Settings ------------------------------
(***************************************************************************)
(* What admins set up and change: templates and their versions, projects   *)
(* and their overlap K, ingested units, judge configs and who is enrolled, *)
(* and marketplace bundles of all of these.  A request reads first (view:  *)
(* the rows committed then) and writes and commits in a second step, so    *)
(* requests overlap on what they read; what the database itself checks     *)
(* (unique names, foreign keys) it checks against the rows of the moment.  *)
(* A schema is its shape, the inputs and variants that versions compare,   *)
(* and the order of its panels, which says what a stored A or B stands for *)
(* and is part of the display.  Leases are left out: a slot is filled or   *)
(* open, and a unit may be decided while labels are still to come.         *)
(***************************************************************************)
EXTENDS Naturals, Sequences, FiniteSets, FiniteSetsExt, SequencesExt

CONSTANTS
  Sessions,
  Shapes, VariantsOf, \* schemas, the number of variant values of each
  Overlaps,           \* pairs of labels_per_unit and max_labels_per_unit
  Models,             \* model ids of judge configs
  Genesis,            \* the rows there are at first
  MaxRequests, MaxEvents, \* bounds: requests of admins; labels, decisions and voids
  MaxProjects, MaxSlot, Bundled, \* bounds: projects, slots filled by id, whether a bundle is exported
  None

ASSUME SettingsAssumption ==
  /\ VariantsOf \in [Shapes -> Nat \ {0}] /\ Overlaps \subseteq Nat \X Nat
  /\ {MaxRequests, MaxEvents, MaxProjects, MaxSlot} \subseteq Nat /\ Bundled \in BOOLEAN

VARIABLES
  db,     \* committed rows: templates, projects, units, configs, raters
  shared, \* bundles that have been exported
  req,    \* per session, what it was asked to do and the rows it read
  served, \* bound of MaxRequests
  events, \* bound of MaxEvents
  alone   \* history: no two transactions have ever overlapped

vars == <<db, shared, req, served, events, alone>>

Idle == [op |-> <<"none">>, view |-> None]

\* The tables, and what a bundle carries.
Names == [base : {"gallery", "mine", "project"}, of : Nat, copies : Nat, imported : Nat]
Orders == {0, 1}
TemplateRow ==
  [name : Names, version : Nat, kind : {"builtin", "custom"}, shape : Shapes, panels : Orders, live : BOOLEAN]
Enrollment == [config : Nat, rater : Nat]
ProjectRow == [template : Nat, version : Nat, k : Nat, max : Nat, other : Nat, judges : Seq(Enrollment)]
\* A unit, whether a reviewer decided it, and, a history, whether the last raise of K passed
\* it over.
SlotRow == [id : Nat, variant : Nat, filled : BOOLEAN]
UnitRow == [project : Nat, finalized : BOOLEAN, human : BOOLEAN, passed : BOOLEAN, next : Nat, slots : SUBSET SlotRow]
ConfigRow == [name : STRING, version : Nat, model : Models]
Databases ==
  [templates : Seq(TemplateRow), projects : Seq(ProjectRow), units : Seq(UnitRow), configs : Seq(ConfigRow), raters : Seq(Nat)]
Bundles == [name : Names, shape : Shapes, panels : Orders, k : Nat, max : Nat, judges : Seq([name : STRING, model : Models])]

Indices(d, table) == DOMAIN d[table]
LiveTemplates(d) == {t \in Indices(d, "templates") : d.templates[t].live}
ShapeOf(d, p) == d.templates[d.projects[p].template].shape
PanelsOf(d, p) == d.templates[d.projects[p].template].panels

-----------------------------------------------------------------------------
(* Templates.  An operation yields the rows it may leave; none: it is      *)
(* refused, or fails, and is rolled back.                                  *)

Name(base, of) == [base |-> base, of |-> of, copies |-> 0, imported |-> 0]
Template(name, version, shape, panels) ==
  [name |-> name, version |-> version, kind |-> "custom", shape |-> shape, panels |-> panels, live |-> TRUE]
\* The unique constraint on (name, version).
Taken(d, row) == \E t \in LiveTemplates(d) : d.templates[t].name = row.name /\ d.templates[t].version = row.version
Insert(d, row) == IF Taken(d, row) THEN {} ELSE {[d EXCEPT !.templates = Append(@, row)]}

CreateTemplate(v, d, shape) == Insert(d, Template(Name("mine", 0), 1, shape, 0))
CloneTemplate(v, d, t) ==
  Insert(d, [v.templates[t] EXCEPT !.name.copies = @ + 1, !.version = 1, !.kind = "custom"])

\* Mutant of Affecting: variants are taken for presentation.
AffectingNever(old, new) == FALSE
Affecting(old, new) == old # new
Versions(v, name) == {v.templates[i].version : i \in {t \in LiveTemplates(v) : v.templates[t].name = name}}
EditTemplate(v, d, t, shape, panels) ==
  LET current == v.templates[t]
      edited == [current EXCEPT !.shape = shape, !.panels = panels]
  IN IF current.kind = "builtin" THEN {}
     ELSE IF Affecting(current.shape, shape)
          THEN Insert(d, [edited EXCEPT !.version = Max(Versions(v, current.name)) + 1])
     ELSE IF d.templates[t].live THEN {[d EXCEPT !.templates[t] = edited]} ELSE {}

\* Mutant of Doomed: of a lineage, the versions nobody uses.
DoomedUnused(v, t, all) ==
  {i \in LiveTemplates(v) : v.templates[i].name = v.templates[t].name /\ \A p \in Indices(v, "projects") : v.projects[p].template # i}
Doomed(v, t, all) ==
  IF all THEN {i \in LiveTemplates(v) : v.templates[i].name = v.templates[t].name /\ v.templates[i].kind # "builtin"} ELSE {t}
DeleteTemplate(v, d, t, all) ==
  LET doomed == Doomed(v, t, all)
      used(e) == \E p \in Indices(e, "projects") : e.projects[p].template \in doomed
  IN IF v.templates[t].kind = "builtin" \/ used(v) \/ used(d) THEN {}
     ELSE {[d EXCEPT !.templates = [i \in DOMAIN d.templates |-> [d.templates[i] EXCEPT !.live = @ /\ i \notin doomed]]]}

-----------------------------------------------------------------------------
(* Projects, their units and slots.                                        *)

Fits(shape, k, max) == k >= 1 /\ k % VariantsOf[shape] = 0 /\ max >= k /\ max % VariantsOf[shape] = 0
Project(d, t, k, max) ==
  [template |-> t, version |-> d.templates[t].version, k |-> k, max |-> max, other |-> 0, judges |-> <<>>]
CreateProject(v, d, t, k, max) ==
  IF Fits(v.templates[t].shape, k, max) /\ d.templates[t].live
  THEN {[d EXCEPT !.projects = Append(@, Project(v, t, k, max))]} ELSE {}

\* plan_slot_variants: each value equally often, numbered from there on.
Plan(shape, count, from) ==
  {[id |-> from + i, variant |-> IF VariantsOf[shape] = 1 THEN 0 ELSE 1 + (i % VariantsOf[shape]),
    filled |-> FALSE] : i \in 1..count}
Unit(p, k, shape) ==
  [project |-> p, finalized |-> FALSE, human |-> FALSE, passed |-> FALSE, next |-> k, slots |-> Plan(shape, k, 0)]
IngestUnit(v, d, p) ==
  IF v.projects[p].k % VariantsOf[ShapeOf(v, p)] # 0 THEN {}
  ELSE {[d EXCEPT !.units = Append(@, Unit(p, v.projects[p].k, ShapeOf(v, p)))]}

\* Mutant of UnitsOf: the query forgets its project.
UnitsOfAll(v, p) == Indices(v, "units")
UnitsOf(v, p) == {u \in Indices(v, "units") : v.units[u].project = p}
Open(v, u) == {s \in v.units[u].slots : ~s.filled}
\* What a unit lacks of k, or has too many.
Missing(v, u, k) == IF Cardinality(v.units[u].slots) >= k THEN 0 ELSE k - Cardinality(v.units[u].slots)
Excess(v, u, k) == IF Cardinality(v.units[u].slots) <= k THEN 0 ELSE Cardinality(v.units[u].slots) - k
Lacking(v, p, k) == {u \in UnitsOf(v, p) : Missing(v, u, k) > 0}
Growing(v, p, k) == {u \in Lacking(v, p, k) : ~v.units[u].finalized}
Grown(v, d, p, k, shape) ==
  IF \E u \in Growing(v, p, k) : Missing(v, u, k) % VariantsOf[shape] # 0 THEN {}
  ELSE {[d EXCEPT !.units = [u \in DOMAIN d.units |->
          IF u \in Growing(v, p, k)
          THEN [d.units[u] EXCEPT !.slots = @ \cup Plan(shape, Missing(v, u, k), d.units[u].next),
                                  !.next = @ + Missing(v, u, k), !.passed = FALSE]
          ELSE IF u \in Lacking(v, p, k) THEN [d.units[u] EXCEPT !.passed = TRUE] ELSE d.units[u]]]}
Removable(v, u) == Open(v, u)
\* The surplus goes, and with a slot any voided labels on it, whichever open slots the query lists first; too few of them is an error.
Shrunk(v, d, p, k) ==
  IF \E u \in UnitsOf(v, p) : Cardinality(Removable(v, u)) < Excess(v, u, k) THEN {}
  ELSE {[d EXCEPT !.units = [u \in DOMAIN d.units |->
          IF u \in UnitsOf(v, p) THEN [d.units[u] EXCEPT !.slots = {s \in @ : s.id \notin gone[u]}] ELSE d.units[u]]] :
         gone \in {g \in [UnitsOf(v, p) -> SUBSET UNION {{s.id : s \in Removable(v, u)} : u \in UnitsOf(v, p)}] :
                     \A u \in UnitsOf(v, p) : g[u] \subseteq {s.id : s \in Removable(v, u)} /\ Cardinality(g[u]) = Excess(v, u, k)}}
\* Mutant of Reshaped: units that are there already keep the slots they have.
ReshapedNever(v, d, p, k, shape) == {d}
Reshaped(v, d, p, k, shape) ==
  CASE k > v.projects[p].k -> Grown(v, d, p, k, shape)
    [] k < v.projects[p].k -> Shrunk(v, d, p, k)
    [] OTHER -> {d}

\* A changed schema is cloned under the project's name, and the project bound to the copy;
\* of the project row only the columns that change are written.
Changed(old, new, now) == IF new = old THEN now ELSE new
UpdateProject(v, d, p, shape, panels, k, max) ==
  LET row == v.projects[p]
      same == shape = ShapeOf(v, p) /\ panels = PanelsOf(v, p)
      cloned == IF same THEN {d} ELSE Insert(d, Template(Name("project", p), 1, shape, panels))
      written(e) == [e.projects[p] EXCEPT !.k = Changed(row.k, k, @), !.max = Changed(row.max, max, @),
                                          !.template = IF same THEN @ ELSE Len(e.templates), !.version = IF same THEN @ ELSE 1]
  IN IF ~Fits(shape, k, max) THEN {}
     ELSE {[e EXCEPT !.projects[p] = written(e)] : e \in UNION {Reshaped(v, c, p, k, shape) : c \in cloned}}
\* config is one column, judges and all else in it: what a request does not repeat is gone.
Configured(d, p, other, judges) == [d EXCEPT !.projects[p] = [d.projects[p] EXCEPT !.other = other, !.judges = judges]]
ReplaceConfig(v, d, p, other) == {Configured(d, p, other, <<>>)}

-----------------------------------------------------------------------------
(* Judge configs, their raters, enrollment, bundles.                       *)

\* Mutant of NextVersion: counts from the version the caller named.
NextVersionOfFirst(v, name) == IF \E c \in Indices(v, "configs") : v.configs[c].name = name THEN 2 ELSE 1
NextVersion(v, name) == 1 + Max({0} \cup {v.configs[c].version : c \in {i \in Indices(v, "configs") : v.configs[i].name = name}})
CreateConfig(v, d, name, model) ==
  {[d EXCEPT !.configs = Append(@, [name |-> name, version |-> NextVersion(v, name), model |-> model])]}

RatersOf(v, d, c) == {a \in Indices(v, "raters") : v.raters[a] = c}
Enrolled(v, p, c) == \E i \in DOMAIN v.projects[p].judges : v.projects[p].judges[i].config = c
AttachJudge(v, d, p, c) ==
  LET known == RatersOf(v, d, c)
      e == IF known = {} THEN [d EXCEPT !.raters = Append(@, c)] ELSE d
  IN IF Enrolled(v, p, c) THEN {e}
     ELSE {Configured(e, p, v.projects[p].other, Append(v.projects[p].judges, [config |-> c, rater |-> a])) :
             a \in IF known = {} THEN {Len(e.raters)} ELSE known}
Without(judges, c) ==
  LET kept[n \in 0..Len(judges)] ==
        IF n = 0 THEN <<>> ELSE IF judges[n].config = c THEN kept[n - 1] ELSE Append(kept[n - 1], judges[n])
  IN kept[Len(judges)]
DetachJudge(v, d, p, c) == {Configured(d, p, v.projects[p].other, Without(v.projects[p].judges, c))}
RegisterCheckpoint(v, d, p, name, model) ==
  UNION {AttachJudge(v, e, p, Len(e.configs)) : e \in CreateConfig(v, d, name, model)}

Bundle(v, p) ==
  [name |-> v.templates[v.projects[p].template].name, shape |-> ShapeOf(v, p), panels |-> PanelsOf(v, p), k |-> v.projects[p].k, max |-> v.projects[p].max,
   judges |-> [i \in DOMAIN v.projects[p].judges |-> LET c == v.configs[v.projects[p].judges[i].config] IN [name |-> c.name, model |-> c.model]]]
Unused(v, name) ==
  [name EXCEPT !.imported = Min({i \in 0..Len(v.templates) : \A t \in LiveTemplates(v) : v.templates[t].name # [name EXCEPT !.imported = i]})]
\* The judges of a bundle become new versions, in its order, each with a rater of its own.
ImportedConfigs(v, b) ==
  [i \in DOMAIN b.judges |->
     [name |-> b.judges[i].name, model |-> b.judges[i].model,
      version |-> NextVersion(v, b.judges[i].name) + Cardinality({j \in 1..(i - 1) : b.judges[j].name = b.judges[i].name})]]
\* Mutant of Enrollments: each judge attached to the project as first loaded.
EnrollmentsLast(d, b) ==
  IF b.judges = <<>> THEN <<>> ELSE <<[config |-> Len(d.configs) + Len(b.judges), rater |-> Len(d.raters) + Len(b.judges)]>>
Enrollments(d, b) == [i \in DOMAIN b.judges |-> [config |-> Len(d.configs) + i, rater |-> Len(d.raters) + i]]
ImportBundle(v, d, b) ==
  IF ~Fits(b.shape, b.k, b.max) THEN {}
  ELSE {[e EXCEPT !.configs = @ \o ImportedConfigs(v, b), !.raters = @ \o [i \in DOMAIN b.judges |-> Len(d.configs) + i],
                  !.projects = Append(@, [Project(e, Len(e.templates), b.k, b.max) EXCEPT !.judges = Enrollments(d, b)])] :
         e \in Insert(d, Template(Unused(v, b.name), 1, b.shape, b.panels))}

-----------------------------------------------------------------------------
\* What may be asked of the rows there are.
Ops(d) ==
  LET ts == LiveTemplates(d)
      ps == Indices(d, "projects")
      cs == Indices(d, "configs")
      names == {d.configs[c].name : c \in cs}
      room == Len(d.projects) < MaxProjects
  IN ({"create"} \X Shapes) \cup ({"clone"} \X ts) \cup ({"edit"} \X ts \X Shapes \X Orders) \cup ({"delete"} \X ts \X BOOLEAN)
     \cup (IF room THEN {<<"project", t, o[1], o[2]>> : t \in ts, o \in Overlaps} \cup ({"import"} \X shared) ELSE {})
     \cup {<<"update", p, shape, panels, o[1], o[2]>> : p \in ps, shape \in Shapes, panels \in Orders, o \in Overlaps}
     \cup ({"config"} \X ps \X {1}) \cup ({"ingest"} \X ps)
     \cup ({"judge"} \X names \X Models) \cup ({"attach", "detach"} \X ps \X cs) \cup ({"checkpoint"} \X ps \X names \X Models)
Effects(op, v, d) ==
  CASE op[1] = "create"     -> CreateTemplate(v, d, op[2])
    [] op[1] = "clone"      -> CloneTemplate(v, d, op[2])
    [] op[1] = "edit"       -> EditTemplate(v, d, op[2], op[3], op[4])
    [] op[1] = "delete"     -> DeleteTemplate(v, d, op[2], op[3])
    [] op[1] = "project"    -> CreateProject(v, d, op[2], op[3], op[4])
    [] op[1] = "import"     -> ImportBundle(v, d, op[2])
    [] op[1] = "update"     -> UpdateProject(v, d, op[2], op[3], op[4], op[5], op[6])
    [] op[1] = "config"     -> ReplaceConfig(v, d, op[2], op[3])
    [] op[1] = "ingest"     -> IngestUnit(v, d, op[2])
    [] op[1] = "judge"      -> CreateConfig(v, d, op[2], op[3])
    [] op[1] = "attach"     -> AttachJudge(v, d, op[2], op[3])
    [] op[1] = "detach"     -> DetachJudge(v, d, op[2], op[3])
    [] op[1] = "checkpoint" -> RegisterCheckpoint(v, d, op[2], op[3], op[4])

Quiet == \A s \in Sessions : req[s] = Idle
Read(s) ==
  /\ req[s] = Idle /\ served < MaxRequests /\ served' = served + 1
  /\ \E op \in Ops(db) : req' = [req EXCEPT ![s] = [op |-> op, view |-> db]]
  /\ alone' = (alone /\ Quiet) /\ UNCHANGED <<db, shared, events>>
Write(s) ==
  /\ req[s] # Idle /\ db' \in Effects(req[s].op, req[s].view, db)
  /\ req' = [req EXCEPT ![s] = Idle] /\ UNCHANGED <<shared, served, events, alone>>
\* Refused, an error of the database, or the server dies: nothing was written.
Fail(s) == req[s] # Idle /\ req' = [req EXCEPT ![s] = Idle] /\ UNCHANGED <<db, shared, served, events, alone>>
\* One bundle is in circulation at most: a bound.
Export(p) ==
  /\ Bundled /\ shared = {} /\ shared' = {Bundle(db, p)}
  /\ UNCHANGED <<db, req, served, events, alone>>
\* Annotators, the pipeline, reviewers and admins between them.
Meanwhile(u, row) ==
  /\ db' = [db EXCEPT !.units[u] = row]
  /\ events < MaxEvents /\ events' = events + 1
  /\ alone' = (alone /\ Quiet) /\ UNCHANGED <<shared, req, served>>
\* A label comes.  If it is the last and the raters disagree, another round of slots opens.
Rounds(u) == VariantsOf[ShapeOf(db, db.units[u].project)]
Label(u, s) == [db.units[u] EXCEPT !.slots = (@ \ {s}) \cup {[s EXCEPT !.filled = TRUE]}]
FillSlot(u, s) == ~s.filled /\ s.id <= MaxSlot /\ Meanwhile(u, Label(u, s))
GrowUnit(u, s) ==
  /\ Open(db, u) = {s} /\ s.id <= MaxSlot
  /\ Cardinality(db.units[u].slots) + Rounds(u) <= db.projects[db.units[u].project].max
  /\ Meanwhile(u, [Label(u, s) EXCEPT !.finalized = FALSE, !.next = @ + Rounds(u),
                                      !.slots = @ \cup Plan(ShapeOf(db, db.units[u].project), Rounds(u), db.units[u].next)])
\* Decided by a reviewer, at any time; or automatically, once every slot is filled.
Finalize(u, human) ==
  /\ human \/ (~db.units[u].finalized /\ ~db.units[u].human /\ Open(db, u) = {})
  /\ Meanwhile(u, [db.units[u] EXCEPT !.finalized = TRUE, !.human = @ \/ human])
\* Its labels are kept and count no more, its slots are open again; what a reviewer decided stays decided.
Emptied(s) == [s EXCEPT !.filled = FALSE]
Void(u) == Meanwhile(u, [db.units[u] EXCEPT !.slots = {Emptied(s) : s \in @}, !.finalized = @ /\ db.units[u].human])

\* Rows refer to rows that exist: a project to a live template of the version it names,
\* a unit to a project, a rater to a config; and an id names one slot of its unit.
Sound(d) ==
  /\ d \in Databases
  /\ \A p \in Indices(d, "projects") : d.projects[p].template \in LiveTemplates(d)
       /\ d.projects[p].version = d.templates[d.projects[p].template].version
  /\ \A u \in Indices(d, "units") : d.units[u].project \in Indices(d, "projects")
       /\ IsFiniteSet(d.units[u].slots)
       /\ \A s \in d.units[u].slots : s.id <= d.units[u].next /\ \A t \in d.units[u].slots : s.id = t.id => s = t
  /\ \A a \in Indices(d, "raters") : d.raters[a] \in Indices(d, "configs")
\* An enrolled version is enrolled once, with a rater that is its own.
Enlisted(d) ==
  \A p \in Indices(d, "projects") : \A i \in DOMAIN d.projects[p].judges :
    LET entry == d.projects[p].judges[i] IN
    /\ entry.rater \in Indices(d, "raters") /\ d.raters[entry.rater] = entry.config
    /\ \A j \in DOMAIN d.projects[p].judges : d.projects[p].judges[j].config = entry.config => i = j
\* No config has two raters, and no name two configs of one version.
ToldApart(d) ==
  /\ IsInjective(d.raters)
  /\ \A b, c \in Indices(d, "configs") : d.configs[b].name = d.configs[c].name /\ d.configs[b].version = d.configs[c].version => b = c
\* K fits the variants of the bound schema, and a unit has the slots K asks for, unless it
\* was finalized when K was raised.
Collectable(d) ==
  /\ \A p \in Indices(d, "projects") : Fits(ShapeOf(d, p), d.projects[p].k, d.projects[p].max)
  /\ \A u \in Indices(d, "units") :
       ~d.units[u].passed => Cardinality(d.units[u].slots) >= d.projects[d.units[u].project].k

\* What was there before the first request: a fresh installation, which has builtin
\* templates only, or rows that requests one after the other have left.
ASSUME GenesisAssumption == Sound(Genesis) /\ Enlisted(Genesis) /\ ToldApart(Genesis) /\ Collectable(Genesis)

Init == db = Genesis /\ shared = {} /\ req = [s \in Sessions |-> Idle] /\ served = 0 /\ events = 0 /\ alone = TRUE
Next ==
  \/ \E s \in Sessions : Read(s) \/ Write(s) \/ Fail(s)
  \/ \E p \in Indices(db, "projects") : Export(p)
  \/ \E u \in Indices(db, "units") : Void(u) \/ \E human \in BOOLEAN : Finalize(u, human)
  \/ \E u \in Indices(db, "units") : \E s \in db.units[u].slots : FillSlot(u, s) \/ GrowUnit(u, s)
Spec == Init /\ [][Next]_vars

-----------------------------------------------------------------------------
\* The rows are sound, and so is a bundle in circulation.
TypeOK == Sound(db) /\ shared \subseteq Bundles /\ served \in 0..MaxRequests /\ alone \in BOOLEAN

\* However requests overlap, edits of templates stay out of the way of those who use them:
\* the inputs and variants a project collects answers with are changed by an update of that
\* project and by nothing else, whoever edits, clones, deletes or imports templates meanwhile
\* (repository.edit_template, versioning.py, service.update_project).  The panels are not compared.
ShapeKept ==
  [][\A p \in Indices(db, "projects") : ShapeOf(db', p) # ShapeOf(db, p)
        => \E s \in Sessions : req[s].op[1] = "update" /\ req[s].op[2] = p /\ Write(s)]_db

\* A lineage goes as a whole or not at all: whoever asks for all its versions leaves
\* none of those it saw behind when it deletes one (repository.delete_template).
LineageWhole ==
  [][\A s \in Sessions : req[s].op[1] = "delete" /\ Write(s) =>
       LET v == req[s].view
           t == req[s].op[2]
           kin == {i \in LiveTemplates(v) : v.templates[i].name = v.templates[t].name /\ v.templates[i].kind = "custom"}
       IN \A i \in LiveTemplates(db) \ LiveTemplates(db') : i = t \/ (req[s].op[3] /\ kin \cap LiveTemplates(db') = {})]_vars

\* Judges are told apart.  However requests overlap, a vote counts for the judge that
\* gave it: an enrolled config version has a rater of its own, shared with no other
\* version (configs.annotator_for).  Requests one after the other, no config has two
\* raters, and no name two configs of one version, whether typed in, versioned,
\* registered as a checkpoint or imported (configs.py, checkpoints.py, bundle.py).
OneOfEach == TypeOK /\ Enlisted(db) /\ (alone => ToldApart(db))

\* Requests one after the other: K stays divisible by the variants of whatever schema
\* the project is bound to by now, and every unit has the slots K asks for, through labels,
\* further rounds, voids and decisions, but those that were finalized when K was raised
\* (projects/service.py, create, update and ingest together; consensus.grow_overlap).
CollectsK == alone => Collectable(db)

\* Requests one after the other: no request of an admin discards collected work, and the
\* slots and the state of a unit change by an update of its own project only
\* (projects.service._reshape_overlap).
WorkKept ==
  [][alone => \A s \in Sessions : Write(s) => \A u \in Indices(db, "units") :
       /\ \A slot \in db.units[u].slots : slot.filled => slot \in db'.units[u].slots
       /\ db'.units[u] # db.units[u] => req[s].op[1] = "update" /\ req[s].op[2] = db.units[u].project]_vars

\* A bundle makes the project it was made from: same schema, same overlap, the same judges
\* in the same order, whatever else has happened to either instance (bundle.import_bundle).
BundleRestores ==
  [][\A s \in Sessions : req[s].op[1] = "import" /\ Len(db'.projects) > Len(db.projects) /\ Write(s) =>
       [Bundle(db', Len(db'.projects)) EXCEPT !.name = req[s].op[2].name] = req[s].op[2]]_vars
=============================================================================
