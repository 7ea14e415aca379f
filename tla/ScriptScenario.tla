--------------------------- MODULE ScriptScenario ----------------------------
(***************************************************************************)
(* ParseScenario: the fields of a scenario, read one by one.                *)
(***************************************************************************)
EXTENDS ScriptRules

ScenarioFormats == {"atomyx-scenario/v1"}
Has(doc, key) == key \in Keys(doc)
IsWord(v) == IsA(v, "str") /\ v[2] # ""
Words(v) == IsA(v, "list") /\ \A w \in ToSet(v[2]) : IsWord(w)
KnownKeys == {"format", "name", "description", "scripts", "onFailure", "preconditions", "env", "tags"}

FieldOk(key, v) ==
    CASE key = "format" -> IsA(v, "str") /\ v[2] \in ScenarioFormats
      [] key = "name" -> IsWord(v)
      [] key = "description" -> IsA(v, "str")
      [] key = "scripts" -> Words(v) /\ v[2] # <<>>
      [] key = "onFailure" -> IsA(v, "str") /\ v[2] \in {"stop", "continue"}
      [] key = "preconditions" -> IsA(v, "str") /\ v[2] \in {"skip", "force"}
      [] key = "env" -> Strings(v) # Error
      [] key = "tags" -> Words(v)

\* ParseScenario
ParseScenario(doc) ==
    IF /\ IsA(doc, "map") /\ {"name", "scripts"} \subseteq Keys(doc) /\ Keys(doc) \subseteq KnownKeys
       /\ \A key \in Keys(doc) : FieldOk(key, Get(doc, key))
    THEN doc ELSE Error

\* IsScenarioYaml
IsScenarioYaml(doc) == IsA(doc, "map") /\ IsA(Get(doc, "scripts"), "list")

\* The shape a scenario has, as a schema.
ScenarioSchema ==
    Closed([format |-> Among(ScenarioFormats), name |-> Nonempty, description |-> AnyString,
            scripts |-> ArrayOf(Nonempty, 1), onFailure |-> Among({"stop", "continue"}),
            preconditions |-> Among({"skip", "force"}), env |-> StringMap, tags |-> ArrayOf(Nonempty, 0)],
           {"name", "scripts"})
=============================================================================
