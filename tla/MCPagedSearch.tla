---------------------------- MODULE MCPagedSearch -----------------------------
(* Three units; matches of one and of three KB, a budget of two.           *)
EXTENDS PagedSearch

CONSTANTS a, b   \* what a key covers of a unit

MCNoSize == 0 - 1
MCSizes == {2, MCNoSize}

Of(kind, covered, sizes) ==
  { [kind |-> kind, covered |-> c, matches |-> m] : c \in covered, m \in sizes }

Flows == Of("flow", {a}, {<<>>, <<1, 1>>}) \cup Of("flow", {b}, {<<1, 3>>})
MCListings ==
  [k \in {"catalog", "resources", "flows"} |->
    CASE k = "catalog" ->
           [1 .. 3 -> Of("descriptor", {a}, {<<1>>, <<3>>}) \cup Of("descriptor", {b}, {<<1>>})]
      [] k = "resources" ->
           [1 .. 3 -> Of("file", {a}, {<<>>, <<1>>}) \cup Of("file", {b}, {<<3>>})]
      [] k = "flows" ->
           { <<f, g, s>> : f \in Flows,
                           g \in Of("block", {a, b}, {<<1>>}) \cup Of("block", {a}, {<<1, 3>>}),
                           s \in Of("schema", {Nothing}, {<<>>, <<1, 1>>, <<1, 3>>}) }]
===============================================================================
