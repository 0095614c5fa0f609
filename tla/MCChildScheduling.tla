-------------------------- MODULE MCChildScheduling --------------------------
(***************************************************************************)
(* Small workloads for ChildScheduling.                                    *)
(***************************************************************************)
EXTENDS ChildScheduling

CONSTANTS x, y, z

Task(kind, priority, deps) == [kind |-> kind, priority |-> priority, deps |-> deps]
Load(tx, ty, tz) == [c \in Child |-> CASE c = x -> tx [] c = y -> ty [] c = z -> tz]

\* A writer, a command that writes, and a reader that goes before both.
Mixed == Load(Task("writer", 1, {}), Task("writeTool", 1, {}), Task("reader", 2, {}))
\* Two writers, one of higher priority, and a reader that needs the other.
Waiting == Load(Task("writer", 1, {}), Task("writer", 2, {}), Task("reader", 2, {x}))
\* A chain of agents.
Chain == Load(Task("reader", 1, {}), Task("reader", 1, {x}), Task("writer", 1, {y}))
\* Two equal writers and a command that reads.
Writers == Load(Task("writer", 1, {}), Task("writer", 1, {}), Task("readTool", 1, {}))

Setup(max, serialize, routable, work) ==
  [max |-> max, serialize |-> serialize, routable |-> routable, work |-> work]

\* Both workspace modes, one and two slots, once without routes.
MixedSetups ==
  {Setup(1, TRUE, TRUE, Mixed), Setup(2, TRUE, TRUE, Waiting), Setup(2, FALSE, TRUE, Mixed),
   Setup(1, FALSE, TRUE, Chain), Setup(2, FALSE, FALSE, Chain)}

\* Writers of a shared workspace and one slot.
SharedSetups == {Setup(1, TRUE, TRUE, Writers)}
=============================================================================
