----------------------------- MODULE NameIndex -----------------------------
(***************************************************************************)
(* What an index of hive/index promises, and what StringIndex does: a map  *)
(* from a parent's offset and a name, in whatever case, to a cell offset.  *)
(* Keys (NK) and values (VK) are two such maps.                            *)
(***************************************************************************)
CONSTANTS
  Kind, Parent, Name, Offset,
  ToLower,   \* strings.ToLower
  None       \* no cell

VARIABLE bound   \* StringIndex.nodes and .values

makeKey(k, p, n) == <<k, p, ToLower[n]>>
Keys == {makeKey(k, p, n) : k \in Kind, p \in Parent, n \in Name}

IndexInit == bound = [x \in Keys |-> None]
Add(k, p, n, o) == bound' = [bound EXCEPT ![makeKey(k, p, n)] = o]
Remove(k, p, n) == bound' = [bound EXCEPT ![makeKey(k, p, n)] = None]
Get(k, p, n) == bound[makeKey(k, p, n)]
Reset == bound' = [x \in Keys |-> None]
=============================================================================
