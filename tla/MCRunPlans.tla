------------------------------ MODULE MCRunPlans ------------------------------
(* A Flow with two sources and a definition, in two projects, with working *)
(* copies: more heads and compiled plans than the caches hold.             *)
EXTENDS RunPlans

CONSTANTS p, q, f, one, two, def

Asked(project, source, definition, copies) ==
  [project |-> project, name |-> f, source |-> source, definition |-> definition, copies |-> copies]

MCProject == {p, q}

MCRequest ==
  {Asked(p, one, Blank, "none"), Asked(p, two, Blank, "none"), Asked(p, one, Blank, "blocks"),
   Asked(q, one, Blank, "none"), Asked(p, two, Blank, "flows"), Asked(p, Blank, Blank, "none"),
   Asked(p, Blank, def, "none"), Asked(p, one, def, "none")}
===============================================================================
