----------------------------- MODULE HiveBuilder -----------------------------
(***************************************************************************)
(* Building a hive: Builder of hive/builder/builder.go on a merge session  *)
(* (module MergeSession).                                                  *)
(*                                                                         *)
(* Operations are collected in a plan.  When AutoFlushThreshold of them    *)
(* are collected, or at Commit, the plan is applied in a transaction of    *)
(* its own; a plan whose flush failed is kept, and applied from its start  *)
(* when the next operation comes.  The transaction's commit may fail (its  *)
(* steps are in module HiveTx); the context is never cancelled.            *)
(***************************************************************************)
EXTENDS MergeSession

CONSTANTS
  AutoFlushThreshold,  \* Options.AutoFlushThreshold, 0 for none
  RootPrefixes,        \* names in hiveRootPrefixes (HKLM, ...)
  Given,               \* the paths callers give
  MaxAsked,            \* bound on the number of operations asked for
  MaxFlushes           \* bound on the number of flushes begun

VARIABLES
  b,     \* the builder: its state, its plan, who called the flush under
         \* way; and as history the operations asked for, and whether every
         \* plan was one that the session applies in order (see BuiltRight)
  want,  \* history: the tree that all operations asked for add up to
  kept   \* history: the same at the last flush that succeeded

bvars == <<b, want, kept>>

NewBuilder(state) == [state |-> state, ops |-> <<>>, caller |-> "none", asked |-> 0, plain |-> TRUE]

\* createMinimalHive: a root and nothing else.
MinimalHive == NewHive([p \in {<<>>} |-> FALSE])

\* New with Options.IndexMode m, on a file that is there or not.  A session
\* that is to choose its mode has no plan to choose by, and builds the full
\* index.
New(m, frees, there) ==
  LET mode == IF m = "single" THEN "single" ELSE "full"
      H == IF there THEN h ELSE MinimalHive
  IN /\ b.state = "new"
     /\ mode = "single" => frees
     /\ h' = [(IF mode = "single" THEN SinglePass(H) ELSE FullIndex(H)) EXCEPT !.frees = frees]
     /\ session' = mode /\ pc' = "done"
     /\ b' = [b EXCEPT !.state = "open"]
     /\ base' = Shown(H) /\ want' = Shown(H) /\ kept' = Shown(H)
     /\ UNCHANGED <<plan, todo, deleted, i, plans, spoilt>>

\* flush and ApplyWithTx with the plan of B.  FlushDeferredSubkeys first
\* writes what a failed Apply left pending; single-pass mode keeps nothing.
Flush(B) ==
  LET live == {p \in DOMAIN h.pend : h.node[p].live}
      H == IF session = "single" THEN h ELSE Flushed(h, live)
      plain == Plain(B.ops) /\ (session = "single" => OrderFree(Shown(H), B.ops))
  IN /\ plans < MaxFlushes
     /\ IF session = "single" \/ live = DOMAIN h.pend
          THEN /\ Begin(B.ops, session, H, TRUE)
               /\ base' = Shown(H)
               /\ b' = [B EXCEPT !.plain = @ /\ plain]
          ELSE /\ \E S \in SUBSET live : h' = Flushed(h, S)
               /\ b' = B /\ plans' = plans + 1 /\ pc' = "failed"
               /\ UNCHANGED <<session, plan, todo, deleted, i, base, spoilt>>

\* Between calls; "nocommit" is after a commit that failed.
Idle == b.state = "open" /\ pc \in {"done", "failed", "nocommit"}

Stripped(path) == IF path # <<>> /\ Head(path) \in RootPrefixes THEN Tail(path) ELSE path
\* normalizePathArray.
NormalizePathArray(path) == Stripped(path)

\* (mutant) a plan whose commit failed is not tried again.
FlushForgets(B) ==
  IF AutoFlushThreshold > 0 /\ Len(B.ops) >= AutoFlushThreshold
    THEN Flush([B EXCEPT !.ops = IF pc = "nocommit" THEN <<Last(@)>> ELSE @]) ELSE b' = B /\ UNCHANGED vars
FlushIfFull(B) ==
  IF AutoFlushThreshold > 0 /\ Len(B.ops) >= AutoFlushThreshold
    THEN Flush(B) ELSE b' = B /\ UNCHANGED vars

\* SetValue, EnsureKey, DeleteKey and DeleteValue by addOp.
AddOp(do, path) ==
  LET ops == Append(b.ops, Op(do, NormalizePathArray(path)))
  IN /\ Idle /\ b.asked < MaxAsked
     /\ FlushIfFull([b EXCEPT !.ops = ops, !.asked = @ + 1, !.caller = "addOp"])
     /\ want' = Asked(want, Op(do, Stripped(path)), Len(ops))
     /\ UNCHANGED kept

\* Commit: with nothing collected the session is closed at once.
Commit ==
  /\ Idle
  /\ IF b.ops = <<>>
       THEN b' = [b EXCEPT !.state = "committed"] /\ UNCHANGED vars
       ELSE Flush([b EXCEPT !.caller = "commit"])
  /\ UNCHANGED <<want, kept>>

\* Rollback and Close: what is collected is dropped.
CloseBuilder ==
  /\ Idle
  /\ b' = [b EXCEPT !.state = "closed"]
  /\ UNCHANGED <<vars, want, kept>>

\* The end of a flush.
FlushEnds ==
  /\ FlushAndCommit
  /\ IF pc' = "done"
       THEN /\ b' = [b EXCEPT !.ops = <<>>, !.state = IF b.caller = "commit" THEN "committed" ELSE @]
            /\ kept' = want
       ELSE UNCHANGED <<b, kept>>
  /\ UNCHANGED want

\* The session's commit fails: everything is applied, the plan is kept.
CommitFails ==
  LET live == {p \in DOMAIN h.pend : h.node[p].live}
  IN /\ b.state = "open" /\ Applied /\ live = DOMAIN h.pend
     /\ h' = Flushed(h, live) /\ pc' = "nocommit"
     /\ UNCHANGED <<session, plan, todo, deleted, i, plans, base, spoilt, bvars>>

BuilderInit == Init /\ b = NewBuilder("new") /\ want = base /\ kept = base

BuilderNext ==
  \/ \E m \in {"auto", "single", "full"}, frees, there \in BOOLEAN : New(m, frees, there)
  \/ \E do \in {"ensure", "set", "delvalue", "delkey"}, path \in Given : AddOp(do, path)
  \/ Commit \/ CloseBuilder
  \/ b.state = "open" /\ (FlushEnds \/ CommitFails)
  \/ /\ b.state = "open"
     /\ ApplyStep \/ WalkAndApply \/ WalkDone \/ CreateMissingKeysAndApply
     /\ UNCHANGED bvars
-----------------------------------------------------------------------------
\* A built hive is the one asked for, however the operations fell into
\* plans, and whichever commits failed and were tried again: after Commit
\* the tree is what all operations add up to in their order; after Close it
\* is what those add up to that a flush has taken over.  Left out are plans
\* that delete keys and also do other things, and in single-pass mode plans
\* in which the order of two operations on a key matters (module
\* MergeSession).
BuiltRight ==
  b.plain => /\ b.state = "committed" => Shown(h) = want
             /\ b.state = "closed" /\ pc = "done" => Shown(h) = kept
=============================================================================
