------------------------------- MODULE MCStore -------------------------------
(* Instances for TLC of what is kept between the turns: the bookkeeping of the  *)
(* reflections, the tables and their migration, and the context that is read     *)
(* from them. They are checked side by side: a behaviour is one of a single      *)
(* component, `part`, and the variables of the others stay as they are.          *)
EXTENDS Reflection, Context, Migrations, TLC

VARIABLE part

StoreInit ==
  /\ part \in {"reflection", "context", "schema"}
  /\ ReflectionInit
  /\ IF part = "context" THEN ContextInit ELSE ask = Nothing /\ built = NotBuilt
  /\ IF part = "schema" THEN SchemaInit
     ELSE db = NoRow /\ opened = NoRow /\ opens = 0 /\ want = NoRow

ReflectionMoves ==
  part = "reflection" /\ ReflectionNext /\ UNCHANGED <<contextVars, schemaVars, part>>
ContextMoves ==
  part = "context" /\ ContextNext /\ UNCHANGED <<reflectionVars, schemaVars, part>>
SchemaMoves ==
  part = "schema" /\ SchemaNext /\ UNCHANGED <<reflectionVars, contextVars, part>>

\* The fairness is that of Reflection's FairSpec.
StoreSpec ==
  /\ StoreInit
  /\ [][ReflectionMoves \/ ContextMoves \/ SchemaMoves]_<<reflectionVars, contextVars, schemaVars, part>>
  /\ \A t \in Tasks : WF_reflectionVars(Step(t))

\* Each store reads the values last written, in the part that has any.
StoredValuesSurvive == part = "schema" => ValuesSurvive
=============================================================================
