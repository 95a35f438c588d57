---------------------------- MODULE MCStrictSchema ----------------------------
(***************************************************************************)
(* StrictSchema on its own, for the schema of a recursive type.            *)
(***************************************************************************)
EXTENDS StrictSchema, MCModels

SchemaSpec == SchemaInit /\ [][SchemaNext]_schemaVars
=============================================================================
