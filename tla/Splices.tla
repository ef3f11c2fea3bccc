-------------------------------- MODULE Splices ------------------------------
(***************************************************************************)
(* Array operations of the window's code on lists: one element taken out   *)
(* or put in (filter by identity, insertBlocks, removeBlocks), reduce,     *)
(* flatMap and reverse.  They are the operators of SequencesExt under the  *)
(* same names.  That module brings the theory of bags with it, which makes *)
(* every step of a proof about a module that extends it slow.              *)
(***************************************************************************)
EXTENDS Integers, Sequences, FiniteSetsExt, Folds

RemoveAt(s, i) == SubSeq(s, 1, i - 1) \o SubSeq(s, i + 1, Len(s))

InsertAt(s, i, e) == SubSeq(s, 1, i - 1) \o <<e>> \o SubSeq(s, i, Len(s))

FoldLeft(op(_, _), base, s) ==
    MapThenFoldSet(LAMBDA e, so_far : op(so_far, e), base, LAMBDA i : s[i], Max, DOMAIN s)

FlattenSeq(lists) == FoldLeft(LAMBDA s, t : s \o t, <<>>, lists)

Reverse(s) == [i \in DOMAIN s |-> s[Len(s) + 1 - i]]

=============================================================================
