---------------------------- MODULE SkillCatalog ----------------------------
(***************************************************************************)
(* The skill catalog: POST /skills of apps/gateway/src/app.ts, the         *)
(* CatalogService behind it (services/catalog/src/service.ts) and its two  *)
(* stores, in memory and in Postgres.                                      *)
(*                                                                         *)
(* A name is a slug and a spelling: capitals, blanks, signs.  A publish    *)
(* asks whether the id is free, and puts the unit later; publishes         *)
(* overlap, a call to the database may fail, and a restart empties the     *)
(* store in memory.                                                        *)
(***************************************************************************)
EXTENDS Integers

CONSTANTS
    Publishes,   \* the calls of POST /skills that are ever made
    SkillNames,  \* names of skills: <<slug, spelling>>
    Skills       \* what they may post: [name, version, valid]

ASSUME SkillsAssumption ==
    Skills \subseteq [name : SkillNames, version : Nat \X Nat \X Nat, valid : BOOLEAN]

VARIABLES
    storeKind,   \* "memory" or "postgres"
    units,       \* the units stored
    skill,       \* per publish: what it posts,
    stage,       \* how far it is, and how it was answered in the end
    overlapped   \* history: publishes another one of the same id overlapped

catVars == <<storeKind, units, skill, stage, overlapped>>

(* slugify forgets how the name was spelled.                               *)
Slugify(name) == name[1]
Id(p) == <<Slugify(skill[p].name), skill[p].version>>
Unit(p) == [slug |-> Slugify(skill[p].name), version |-> skill[p].version, by |-> p]
UnitId(u) == <<u.slug, u.version>>
Open(p) == stage[p] \in {"checking", "free"}

(* compareSemver, on three numbers.                                        *)
NewerVersion(v, w) ==
    \/ v[1] > w[1]
    \/ v[1] = w[1] /\ v[2] > w[2]
    \/ v[1] = w[1] /\ v[2] = w[2] /\ v[3] > w[3]

(* getBySlug without a version, as the invocations use it.                 *)
Latest(slug) ==
    {u \in units : u.slug = slug /\
       \A v \in units : v.slug = slug => ~NewerVersion(v.version, u.version)}

CatalogInit ==
    /\ storeKind \in {"memory", "postgres"}
    /\ units = {}
    /\ skill \in [Publishes -> Skills]
    /\ stage = [p \in Publishes |-> "unsent"]
    /\ overlapped = {}

Answer(p, how) == stage' = [stage EXCEPT ![p] = how]

(* The manifest is parsed and validated before anything is awaited.        *)
Post(p) ==
    /\ stage[p] = "unsent"
    /\ Answer(p, IF skill[p].valid THEN "checking" ELSE "refused")
    /\ LET beside == {q \in Publishes \ {p} : Open(q) /\ Id(q) = Id(p)}
       IN overlapped' = IF skill[p].valid /\ beside # {}
                        THEN overlapped \cup beside \cup {p} ELSE overlapped
    /\ UNCHANGED <<storeKind, units, skill>>

TakenNever(p) == FALSE
Taken(p) == \E u \in units : UnitId(u) = Id(p)

CheckId(p) ==
    /\ stage[p] = "checking"
    /\ Answer(p, IF Taken(p) THEN "refused" ELSE "free")
    /\ UNCHANGED <<storeKind, units, skill, overlapped>>

(* The map replaces a unit of this id, the table keeps it; either way the  *)
(* publisher is told that it was created.                                  *)
WithUnit(p) ==
    IF storeKind = "memory" THEN {u \in units : UnitId(u) # Id(p)} \cup {Unit(p)}
    ELSE IF Taken(p) THEN units ELSE units \cup {Unit(p)}

PutUnit(p) ==
    /\ stage[p] = "free"
    /\ units' = WithUnit(p)
    /\ Answer(p, "created")
    /\ UNCHANGED <<storeKind, skill, overlapped>>

(* The database fails, before or after it stored the unit.                 *)
DatabaseFails(p) ==
    /\ storeKind = "postgres" /\ Open(p)
    /\ Answer(p, "failed")
    /\ \/ UNCHANGED units
       \/ stage[p] = "free" /\ units' = WithUnit(p)
    /\ UNCHANGED <<storeKind, skill, overlapped>>

(* The gateway restarts; what was in memory is gone.                       *)
RestartCatalog ==
    /\ \E p \in Publishes : stage[p] # "unsent"
    /\ units' = IF storeKind = "memory" THEN {} ELSE units
    /\ stage' = [p \in Publishes |->
                   IF Open(p) THEN "failed"
                   ELSE IF storeKind = "memory" /\ stage[p] = "created" THEN "lost" ELSE stage[p]]
    /\ UNCHANGED <<storeKind, skill, overlapped>>

CatalogNext ==
    \/ RestartCatalog
    \/ \E p \in Publishes : Post(p) \/ CheckId(p) \/ PutUnit(p) \/ DatabaseFails(p)

CatalogSpec == CatalogInit /\ [][CatalogNext]_catVars

-----------------------------------------------------------------------------
(* A skill that was answered 201 stays published as it was posted, whatever*)
(* is published afterwards under the same slug and version, and calls of   *)
(* its slug never get an older version.  Publishes of one id that overlap  *)
(* are all answered 201, and one of them stands.  Only a restart of the    *)
(* store in memory takes any of this back.                                 *)
PublishStands ==
    /\ \A u, v \in units : UnitId(u) = UnitId(v) => u = v
    /\ \A p \in Publishes : stage[p] = "created" =>
         /\ \E u \in units : UnitId(u) = Id(p)
         /\ p \notin overlapped => Unit(p) \in units
         /\ \A u \in Latest(Slugify(skill[p].name)) : ~NewerVersion(skill[p].version, u.version)
=============================================================================
