------------------------------ MODULE FileStore -----------------------------
(***************************************************************************)
(* What an application may expect of a file system that can be cut off at  *)
(* any instant: files come, grow, are replaced and go, each in one step.   *)
(* Only a replacement is not atomic: until it is done or given up, the     *)
(* file keeps its old length and may have any contents.                    *)
(*                                                                         *)
(* A byte knows where it comes from: it is the pos-th of the len bytes of  *)
(* write call number call.                                                 *)
(***************************************************************************)
EXTENDS Naturals, Sequences, SequencesExt, Functions

CONSTANT Name       \* the names of files

VARIABLES
    files,          \* files[f]: the contents of the file f, for those there are
    replacing       \* the files that are being replaced, one at most

(* The calls whose data d holds, it holds completely and in order.         *)
Whole(d) ==
    \A k \in 1..Len(d) :
        /\ d[k].pos = 1 \/ (k > 1 /\ d[k - 1] = [d[k] EXCEPT !.pos = @ - 1])
        /\ d[k].pos = d[k].len \/ (k < Len(d) /\ d[k + 1] = [d[k] EXCEPT !.pos = @ + 1])

(* f is there before and after the step, and no other file changes.        *)
Only(f) ==
    /\ f \in DOMAIN files
    /\ DOMAIN files' = DOMAIN files
    /\ \A g \in DOMAIN files \ {f} : files'[g] = files[g]

Init == DOMAIN files \subseteq Name /\ replacing = {}

Create(f) ==
    /\ f \notin DOMAIN files
    /\ files' = [g \in DOMAIN files \cup {f} |-> IF g = f THEN <<>> ELSE files[g]]
    /\ UNCHANGED replacing

Grow(f) ==
    /\ replacing = {}
    /\ Only(f)
    /\ IsPrefix(files[f], files'[f])
    /\ Whole(SubSeq(files'[f], Len(files[f]) + 1, Len(files'[f])))
    /\ UNCHANGED replacing

BeginReplace(f) ==
    /\ f \in DOMAIN files /\ replacing = {}
    /\ replacing' = {f}
    /\ UNCHANGED files

Scramble(f) ==
    /\ f \in replacing /\ replacing' \subseteq replacing
    /\ Only(f)
    /\ Len(files'[f]) = Len(files[f])

Replace(f) ==
    /\ f \in replacing /\ replacing' = {}
    /\ Only(f)
    /\ Whole(files'[f])

Delete(f) ==
    /\ f \in DOMAIN files
    /\ files' = Restrict(files, DOMAIN files \ {f})
    /\ UNCHANGED replacing

Next == \E f \in Name :
    \/ Create(f) \/ Delete(f)
    \/ Grow(f)
    \/ BeginReplace(f) \/ Scramble(f) \/ Replace(f)
=============================================================================
