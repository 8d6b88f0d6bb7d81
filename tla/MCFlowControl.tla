--------------------------- MODULE MCFlowControl ----------------------------
(***************************************************************************)
(* Every Flow made of a block around a block around at most two simple     *)
(* nodes, towers of up to four calls, relays and tries, and what such a    *)
(* Flow means: a recursive evaluator without frames or flags, that gives   *)
(* the leaves a run reaches and how it ends.                               *)
(***************************************************************************)
EXTENDS FlowControl

MCMaxDepth == 2

N(op, id, count, cond, body, other) ==
  [op |-> op, id |-> id, count |-> count, cond |-> cond, body |-> body, other |-> other]

L(id) == N("leaf", id, 0, FALSE, <<>>, <<>>)
Simple(op) == N(op, 0, 0, FALSE, <<>>, <<>>)
Loop(op, count, body) == N(op, 0, count, FALSE, body, <<>>)

Around(body) ==
  {N("if", 0, 0, cond, body, <<L(5)>>) : cond \in BOOLEAN}
    \cup {N("try", 0, 0, FALSE, body, other) : other \in {<<>>, <<L(4)>>}}
    \cup {Loop("forEach", 2, body), Loop("while", 2, body), Loop("endless", 1, body),
          Loop("chunks", 2, body), Loop("call", 0, body), Loop("relay", 0, body)}

MCBodies ==
  LET nodes == {L(1), Simple("throw"), Simple("return"), Simple("next")}
  IN  {<<>>} \cup {<<n>> : n \in nodes} \cup {<<L(1), n>> : n \in nodes}
        \cup {<<Simple("next"), L(1)>>, <<Simple("return"), L(1)>>}

(* Calls whose properties throw.                                           *)
FailingCall == N("call", 0, 0, TRUE, <<>>, <<>>)
FailingRelay == N("relay", 0, 0, TRUE, <<>>, <<>>)
Failing == {FailingCall, FailingRelay}

(* Calls in calls, beyond MaxDepth, with tries that catch the refusal.     *)
Calling(body) ==
  {Loop("call", 0, body), Loop("relay", 0, body), N("try", 0, 0, FALSE, body, <<L(4)>>)}
Above(nodes) == UNION {Calling(<<n, L(2)>>) : n \in nodes}
Towers == LET three == Above(Above(Calling(<<L(1)>>))) IN three \cup Above(three)

Inners == UNION {Around(body) : body \in MCBodies}
Outers ==
  UNION {Around(<<inner, L(2)>>) : inner \in Inners}
    \cup UNION {Around(<<call, L(1)>>) : call \in Failing} \cup Towers
SimpleNodes ==
  {L(id) : id \in 1 .. 5} \cup {Simple(op) : op \in {"throw", "return", "next"}} \cup Failing

(* The nodes that are well written in a zone, and so are those inside.     *)
RECURSIVE Fits(_, _)
Fits(n, z) ==
  /\ n.op = "next" => ~z.chunk
  /\ n.op = "call" /\ n.cond => ~z.caught
  /\ \A i \in 1 .. Len(n.body) : Fits(n.body[i], Inside(BodyKind(n.op), z))
  /\ \A i \in 1 .. Len(n.other) : Fits(n.other[i], z)

MCNodes == [z \in Zones |-> {n \in SimpleNodes \cup Inners \cup Outers : Fits(n, z)}]
MCPrograms == {<<outer, L(3)>> : outer \in MCNodes[Outside] \cap Outers}

ASSUME WellWritten

-----------------------------------------------------------------------------
(* The meaning of a Flow.                                                  *)

Errors == {"user", "outside", "depth", "limit"}

RECURSIVE Meant(_, _), MeantNode(_, _), MeantItems(_, _, _)

Then(r, s) == [log |-> r.log \o s.log, out |-> s.out]
Just(out) == [log |-> <<>>, out |-> out]

Meant(nodes, env) ==
  IF nodes = <<>> THEN Just("ok")
  ELSE LET r == MeantNode(Head(nodes), env)
       IN  IF r.out = "ok" THEN Then(r, Meant(Tail(nodes), env)) ELSE r

(* k items are left.                                                       *)
MeantItems(node, env, k) ==
  IF k = 0 THEN Just(IF node.op = "endless" THEN "limit" ELSE "ok")
  ELSE LET inside == [env EXCEPT !.loop = node.op # "chunks",
                                 !.current = IF node.op = "forEach" THEN k ELSE @,
                                 !.local = IF node.op = "chunks" THEN @ + 1 ELSE @]
           ends == IF node.op = "chunks" THEN {"ok", "return"} ELSE {"ok", "next"}
           r == Meant(node.body, inside)
       IN  IF r.out \in ends THEN Then(r, MeantItems(node, env, k - 1)) ELSE r

MeantCall(node, env) ==
  LET r == Meant(node.body, [env EXCEPT !.loop = FALSE, !.local = @ + 1, !.depth = @ - 1])
  IN  IF env.depth = 0 THEN Just("depth")
      ELSE [r EXCEPT !.out = IF @ = "return" THEN "ok" ELSE @]

MeantNode(node, env) ==
  CASE node.op = "leaf" -> [log |-> <<<<node.id, env.current, env.local>>>>, out |-> "ok"]
    [] node.op = "throw" -> Just("user")
    [] node.op = "return" -> Just("return")
    [] node.op = "next" -> Just(IF env.loop THEN "next" ELSE "outside")
    [] node.op = "if" -> Meant(IF node.cond THEN node.body ELSE node.other, env)
    [] node.op = "try" -> LET r == Meant(node.body, env)
                          IN  IF r.out \in Errors THEN Then(r, Meant(node.other, env)) ELSE r
    [] node.op = "relay" -> IF node.cond THEN Just("user") ELSE MeantCall(node, env)
    [] node.op = "call" -> IF node.cond /\ env.depth > 0 THEN Just("user")
                           ELSE MeantCall(node, env)
    [] OTHER -> MeantItems(node, env, node.count)

MeantFlow == Meant(program, [loop |-> FALSE, current |-> 0, local |-> 0, depth |-> MaxDepth])

(* A run does what its Flow means, however its flags and frames get there: *)
(* cancelled, it stops somewhere on that way; else it goes to the end.     *)
RunsAsMeant ==
  ~late =>
    /\ Len(log) <= Len(MeantFlow.log)
    /\ log = SubSeq(MeantFlow.log, 1, Len(log))
    /\ verdict \notin {"running", "cancelled"} =>
         /\ log = MeantFlow.log
         /\ verdict = CASE MeantFlow.out = "ok" -> "completed"
                        [] MeantFlow.out = "return" -> "returned"
                        [] OTHER -> MeantFlow.out
=============================================================================
