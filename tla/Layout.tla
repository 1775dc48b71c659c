--------------------------------- MODULE Layout --------------------------------
(***************************************************************************)
(* The layout of a workbench: a tree whose leaves are editor groups, the   *)
(* JSON (ProjectLayoutNode) that frontend/src/lib/workbench.ts and         *)
(* internal/workspace/session.go exchange.  Sizes are hundredths of a      *)
(* percent, the precision both sides round to, so siblings share Full.     *)
(***************************************************************************)
EXTENDS Integers, SequencesExt

CONSTANTS MaxGroups,   \* MAX_GROUPS, maxSessionGroups: 8
          MaxDepth     \* the depth both sides cut a layout at: 6

ASSUME LayoutAssumption == MaxGroups \in Nat \ {0} /\ MaxDepth \in Nat

Full == 10000

Node(kind, group, direction, size, children) ==
  [kind |-> kind, groupId |-> group, direction |-> direction, size |-> size,
   children |-> children]

NoNode == Node("none", 0, "none", 0, <<>>)
Leaf(g, size) == Node("group", g, "none", size, <<>>)
Split(direction, size, children) == Node("split", 0, direction, size, children)

Sized(node, size) == [node EXCEPT !.size = size]

SizeOf(children, S) == SumFunctionOnSet([i \in DOMAIN children |-> children[i].size], S)

\* round2(part / total * 100)
Percent(part, total) == (2 * part * Full + total) \div (2 * total)

\* The children with these sizes, the last one with what rounding left over.
Shares(children, share) ==
  LET last == Len(children)
      rest == Full - SumFunctionOnSet(share, 1 .. last - 1)
  IN  [i \in 1 .. last |-> Sized(children[i], IF i < last THEN share[i] ELSE rest)]

RECURSIVE ListGroupIds(_)
ListGroupIds(node) ==
  IF node.kind = "group" THEN <<node.groupId>>
  ELSE FlattenSeq([i \in DOMAIN node.children |-> ListGroupIds(node.children[i])])
================================================================================
