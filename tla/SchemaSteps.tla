---------------------------- MODULE SchemaSteps ----------------------------
(***************************************************************************)
(* What a release promises about the database schema: it goes through the  *)
(* versions one by one, up to that of a revision, and the workers of the   *)
(* newest revision serve on a schema that has all they require.  While     *)
(* they serve it stays as it is.                                           *)
(***************************************************************************)
EXTENDS Integers

CONSTANTS Targets, Required     \* versions of the revisions, and of the newest

VARIABLES
    schema,    \* versions that are applied
    serving    \* the newest revision's workers run

svars == <<schema, serving>>

SInit == schema = {} /\ serving = FALSE

Upgrade(v) ==
    /\ ~serving
    /\ schema = 1 .. v - 1
    /\ schema' = 1 .. v
    /\ UNCHANGED serving

Serve ==
    /\ ~serving
    /\ 1 .. Required \subseteq schema
    /\ serving' = TRUE
    /\ UNCHANGED schema

SNext == (\E t \in Targets : \E v \in 1 .. t : Upgrade(v)) \/ Serve

SSpec == SInit /\ [][SNext]_svars
=============================================================================
