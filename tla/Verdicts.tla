------------------------------ MODULE Verdicts ------------------------------
(***************************************************************************)
(* What an export is judged by and what is said about it: an asset's       *)
(* specification merged over the project's defaults, the registry of rules *)
(* run on the facts its format yields, the lint of the specification, and  *)
(* the difference reported between two revisions of it.  An optional value *)
(* is a set of at most one element.                                        *)
(***************************************************************************)
EXTENDS Integers, FiniteSets

CONSTANTS
    Values,     \* [field -> values]: what a constraint, the states or the sockets may be
    Defaults,   \* `defaults:` of the project: as a specification's constraints
    Meshes,     \* exports, as they are
    Softened,   \* `severity:`: the rules the project has lowered to a warning
    MaxDeclared \* bound: fields an asset declares at once

Constrained == {"budget", "lods", "scale", "naming", "rig", "skinned", "bones", "pattern", "rate"}
Designed == {"states", "sockets"}
Blank == [f \in Constrained \cup Designed |-> {}]

ASSUME VerdictsAssumption ==
    /\ DOMAIN Values = DOMAIN Blank /\ \A f \in DOMAIN Values : {} \in Values[f]
    /\ \A d \in Defaults : DOMAIN d = Constrained

VARIABLES
    own,        \* the asset's fields
    sections,   \* the sections its file has
    defaults,
    mesh, format

verdictVars == <<own, sections, defaults, mesh, format>>

-----------------------------------------------------------------------------
(* The effective specification. *)

Pick(asset, project, field) == IF asset[field] # {} THEN asset[field] ELSE project[field]

\* Mutant of Bones: a rig of the asset's own hides the project's.
BonesOfOneRig(asset, project) ==
    IF asset["rig"] # {} THEN asset["bones"] ELSE project["bones"]

\* _merge_rig, field by field.
Bones(asset, project) == Pick(asset, project, "bones")

\* Mutant of Pattern: only the asset's own convention names a clip.
PatternOfOwn(asset, project) == asset["pattern"] \cap (asset["pattern"] \cup project["pattern"])

Pattern(asset, project) == Pick(asset, project, "pattern")

\* clip_name_for: a convention keeps the states apart, so that it names them.
ClipName(state, pattern) ==
    IF ~state.animated THEN {}
    ELSE IF state.clip # {} THEN state.clip ELSE IF pattern # {} THEN {state.name} ELSE {}

\* resolve_required_clips, with min_duration_frames over the rate.
RequiredClips(asset, pattern, rate) ==
    {[state |-> s.name, name |-> CHOOSE n \in ClipName(s, pattern) : TRUE,
      rate |-> IF s.rate # {} THEN s.rate ELSE rate, root |-> s.root, loop |-> s.loop,
      seconds |-> {n \div r : n \in s.frames, r \in IF s.rate # {} THEN s.rate ELSE rate}] :
        s \in {x \in asset["states"] : ClipName(x, pattern) # {}}}

\* merge: the asset's own, field by field, else the project's.
Merge(asset, project) ==
    [budget |-> Pick(asset, project, "budget"), lods |-> Pick(asset, project, "lods"),
     scale |-> Pick(asset, project, "scale"), naming |-> Pick(asset, project, "naming"),
     bones |-> Bones(asset, project), rigged |-> asset["rig"] # {},
     skinned |-> asset["rig"] # {} /\ FALSE \notin Pick(asset, project, "skinned"),
     sockets |-> asset["sockets"],
     clips |-> RequiredClips(asset, Pattern(asset, project), Pick(asset, project, "rate"))]

-----------------------------------------------------------------------------
(* The facts a format yields. *)

FactKinds == {"triangles", "objects", "transforms", "scale", "empties", "clips", "clip rate",
              "clip duration", "clip root", "clip loop", "skinning", "bones"}

Untrusted == {"scale", "transforms", "clip rate", "clip root", "clip loop"}

Available(in) ==
    CASE in = "GLB" -> FactKinds
      [] in = "FBX" -> FactKinds \ Untrusted
      [] in = "OBJ" -> {"triangles", "objects"}

\* facts_for: a fact that is not available carries no value.
FactsOf(m, in) ==
    LET Known(kind, value) == IF kind \in Available(in) THEN value ELSE {}
    IN  [format |-> in, triangles |-> m.triangles, levels |-> m.levels, misnamed |-> m.misnamed,
         applied |-> Known("transforms", {m.applied}), scale |-> Known("scale", {m.scale}),
         empties |-> Known("empties", m.empties),
         bones |-> Known("bones", {m.bones}), skinned |-> Known("skinning", {m.skinned}),
         clips |-> {[name |-> c.name, rate |-> Known("clip rate", c.rate),
                     seconds |-> Known("clip duration", c.seconds),
                     root |-> Known("clip root", c.root), closed |-> Known("clip loop", c.closed)] :
                        c \in Known("clips", m.clips)}]

-----------------------------------------------------------------------------
(* The registry. *)

Consumes ==
    [tri_budget |-> {"triangles"}, lod |-> {"triangles", "objects"}, unit_scale |-> {"scale"},
     transforms |-> {"transforms", "objects"}, naming |-> {"objects"}, socket |-> {"empties"},
     clip_missing |-> {"clips"}, frame_rate |-> {"clips", "clip rate"},
     duration |-> {"clips", "clip duration"}, root_motion |-> {"clips", "clip root"},
     loop |-> {"clips", "clip loop"}, bone_budget |-> {"bones"}, not_skinned |-> {"skinning"},
     unsuitable |-> {}]

Rules == DOMAIN Consumes
Warnings == {"naming", "frame_rate", "duration", "root_motion", "loop"}

\* The level an export is taken for: the one its objects' names claim.
ClaimedLevel(spec, facts) ==
    IF spec.naming # {} /\ Cardinality(facts.levels) = 1 THEN facts.levels ELSE {}

OverBudget(spec, facts) ==
    {r \in {"tri_budget", "lod"} :
        \/ r = "tri_budget" /\ \E most \in spec.budget : facts.triangles > most
        \/ r = "lod" /\ \E level \in ClaimedLevel(spec, facts) : \E l \in spec.lods :
                            l[1] = level /\ facts.triangles > l[2]}

Unconventional(spec, facts) ==
    {r \in {"unit_scale", "transforms", "naming"} :
        \/ r = "unit_scale" /\ \E x \in spec.scale : \E y \in facts.scale : x # y
        \/ r = "transforms" /\ FALSE \in facts.applied
        \/ r = "naming" /\ spec.naming # {} /\ facts.misnamed}

SocketMissing(spec, facts) == IF spec.sockets \subseteq facts.empties THEN {} ELSE {"socket"}

Unanimated(spec, facts) ==
    LET \* A required clip is there, and is not as it should be.
        SomeClip(Wrong(_, _)) ==
            \E q \in spec.clips : \E c \in facts.clips : c.name = q.name /\ Wrong(q, c)
    IN  {r \in {"clip_missing", "frame_rate", "duration", "root_motion", "loop"} :
            \/ r = "clip_missing"
               /\ ~({q.name : q \in spec.clips} \subseteq {c.name : c \in facts.clips})
            \/ r = "frame_rate" /\ SomeClip(LAMBDA q, c : \E x \in q.rate : \E y \in c.rate : x # y)
            \/ r = "duration"
               /\ SomeClip(LAMBDA q, c : \E x \in q.seconds : \E y \in c.seconds : y < x)
            \/ r = "root_motion" /\ SomeClip(LAMBDA q, c : TRUE \in q.root /\ FALSE \in c.root)
            \/ r = "loop" /\ SomeClip(LAMBDA q, c : TRUE \in q.loop /\ FALSE \in c.closed)}

Misrigged(spec, facts) ==
    {r \in {"bone_budget", "not_skinned"} :
        \/ r = "bone_budget" /\ \E most \in spec.bones : \E n \in facts.bones : n > most
        \/ r = "not_skinned" /\ spec.skinned /\ FALSE \in facts.skinned}

Unsuited(spec, facts) ==
    IF facts.format = "OBJ" /\ (spec.clips # {} \/ spec.rigged \/ spec.sockets # {})
    THEN {"unsuitable"} ELSE {}

Broken(spec, facts) ==
    OverBudget(spec, facts) \cup Unconventional(spec, facts) \cup SocketMissing(spec, facts)
        \cup Unanimated(spec, facts) \cup Misrigged(spec, facts) \cup Unsuited(spec, facts)

\* Mutant of NotEvaluated: a rule is run as soon as one of its facts is available.
NotEvaluatedBlind(facts) ==
    {r \in Rules : Consumes[r] # {} /\ Consumes[r] \cap Available(facts.format) = {}}

\* evaluate: a rule whose facts are not all available is not run.
NotEvaluated(facts) == {r \in Rules : ~(Consumes[r] \subseteq Available(facts.format))}

\* run, build_report
Report(spec, facts) ==
    LET violated == Broken(spec, facts) \ NotEvaluated(facts)
    IN  [violated |-> violated, notEvaluated |-> NotEvaluated(facts),
         passedRules |-> Rules \ (violated \cup NotEvaluated(facts)),
         passed |-> violated \subseteq Warnings \cup Softened]

\* validate_export
Judged(asset, project, m, in) == Report(Merge(asset, project), FactsOf(m, in))

-----------------------------------------------------------------------------
(* The lint, and the difference. *)

Lint ==
    {f \in {"lods_not_descending", "lod0_exceeds_tri_budget", "state_constrains_nothing"} :
        CASE f = "lods_not_descending" ->
                 \E a, b \in own["lods"] : a[1] < b[1] /\ a[2] <= b[2]
          [] f = "lod0_exceeds_tri_budget" ->
                 \E most \in own["budget"] : \E l \in own["lods"] : l[1] = 0 /\ l[2] > most
          [] f = "state_constrains_nothing" ->
                 \E s \in own["states"] : s.animated /\ s.clip = {} /\ Pick(own, defaults, "pattern") = {}}

\* Mutant of Compared: the bone budget of a rig is not compared.
ComparedLess == {"budget", "lods", "scale", "naming", "pattern", "rate"}

Compared == {"budget", "lods", "scale", "naming", "bones", "pattern", "rate"}

\* fields_of: what a revision shows of each section it has; of states, their names.
FieldsOf(asset, has) ==
    [f \in (IF "constraints" \in has THEN Compared ELSE {})
               \cup (IF "design" \in has THEN Designed ELSE {}) |->
        IF f = "states" THEN {s.name : s \in asset[f]} ELSE asset[f]]

\* compare: the labels of the later revision whose values differ.
Changed(before, after) ==
    {f \in DOMAIN after : after[f] # (IF f \in DOMAIN before THEN before[f] ELSE {})}

-----------------------------------------------------------------------------
(* People edit the file, the project's, and export again. *)

SectionOf(field) == IF field \in Designed THEN "design" ELSE "constraints"

Declare(field) ==
    /\ \E value \in Values[field] \ {own[field]} :
           /\ value # {} => Cardinality({f \in DOMAIN own : own[f] # {}}) < MaxDeclared
           \* `skinned` and `bones` are fields of the rig
           /\ field = "rig" => value # {} \/ (own["skinned"] = {} /\ own["bones"] = {})
           /\ field \in {"skinned", "bones"} /\ value # {} => own["rig"] # {}
           /\ own' = [own EXCEPT ![field] = value]
    /\ sections' = sections \cup {SectionOf(field)}
    /\ UNCHANGED <<defaults, mesh, format>>

Drop(section) ==
    /\ section \in sections
    /\ own' = [f \in DOMAIN own |-> IF SectionOf(f) = section THEN {} ELSE own[f]]
    /\ sections' = sections \ {section}
    /\ UNCHANGED <<defaults, mesh, format>>

Configure ==
    /\ defaults' \in Defaults
    /\ UNCHANGED <<own, sections, mesh, format>>

Export ==
    /\ mesh' \in Meshes /\ format' \in {"GLB", "FBX", "OBJ"}
    /\ UNCHANGED <<own, sections, defaults>>

VerdictsInit ==
    /\ own = Blank /\ sections = {}
    /\ defaults \in Defaults
    /\ mesh \in Meshes /\ format = "GLB"

VerdictsNext ==
    \/ \E field \in DOMAIN Values : Declare(field)
    \/ \E section \in {"constraints", "design"} : Drop(section)
    \/ Configure \/ Export

VerdictsSpec == VerdictsInit /\ [][VerdictsNext]_verdictVars

-----------------------------------------------------------------------------
\* A specification whose states the lint accepts has every animated state checked:
\* the convention the lint finds is the one the export is judged by.
LintedStatesAreChecked ==
    "state_constrains_nothing" \notin Lint =>
        \A s \in own["states"] : s.animated => \E r \in Merge(own, defaults).clips : r.state = s.name

\* The same mesh in another format is not judged otherwise: what is violated in one
\* is never said to have passed in the other, only not to have been evaluated.
OtherFormatsAgree ==
    format # format' /\ UNCHANGED <<own, defaults, mesh>> =>
        (Judged(own, defaults, mesh, format).violated \ {"unsuitable"})
            \cap Judged(own, defaults, mesh, format').passedRules = {}

\* Declaring what was in force nowhere only ever adds violations: nothing a project
\* sets by default is lost to a block of the asset's own.  (`skinned: false` is the
\* one declaration that waives a rule.)
DeclaringOnlyAdds ==
    /\ own # own' /\ UNCHANGED <<defaults, mesh, format>>
    /\ \A f \in DOMAIN own :
           \/ own[f] = own'[f]
           \/ f \in Designed /\ own[f] \subseteq own'[f]
           \/ f \in Constrained \ {"skinned"} /\ own[f] = {} /\ defaults[f] = {}
    => Judged(own, defaults, mesh, format).violated
           \subseteq Judged(own', defaults, mesh, format).violated

\* A revision that judges the export otherwise is said to have changed something,
\* unless it drops a section, a rig's skinning or the particulars of a state.
VerdictsAreExplained ==
    /\ UNCHANGED <<defaults, mesh, format>>
    /\ Judged(own, defaults, mesh, format) # Judged(own', defaults, mesh, format)
    /\ sections \subseteq sections' /\ own["rig"] = own'["rig"] /\ own["skinned"] = own'["skinned"]
    /\ \A s \in own["states"], t \in own'["states"] : s.name = t.name => s = t
    => Changed(FieldsOf(own, sections), FieldsOf(own', sections')) # {}

\* An export's verdict follows from what is declared, in any format and at
\* any revision.
VerdictsFollowDeclarations ==
    [][/\ LintedStatesAreChecked'
       /\ OtherFormatsAgree
       /\ DeclaringOnlyAdds
       /\ VerdictsAreExplained]_verdictVars

=============================================================================
