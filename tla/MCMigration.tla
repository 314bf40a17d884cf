----------------------------- MODULE MCMigration -----------------------------
(* Two migrators, two imports; a document a, its chunk b, a code file c. *)
EXTENDS Migration

Record(id, code, text, parent, ordinal, relations) ==
  [id |-> id, code |-> code, text |-> text, parent |-> parent,
   ordinal |-> ordinal, relations |-> relations, vector |-> ~code]

MCBundles ==
  {<<Record("a", FALSE, "t1", None, None, {})>>,
   <<Record("b", FALSE, "t2", "a", 1, {}),
     Record("d", FALSE, "t2", "a", 1, {<<"b", "c">>})>>,
   <<Record("c", TRUE, "t1", None, None, {}),
     Record("a", FALSE, "t2", None, None, {<<"a", "c">>})>>}
=============================================================================
