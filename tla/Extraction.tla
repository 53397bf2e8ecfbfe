------------------------------ MODULE Extraction ------------------------------
(***************************************************************************)
(* What reliability.py and its copy reliability_probe.py take for the code *)
(* of a completion.  A completion is the sequence of its lines, of which   *)
(* all but the last end in a newline: fences with what follows the three   *)
(* backquotes ("python", nothing, "py", which stands for any other         *)
(* spelling OPEN_FENCE_RE knows, "js" for those it does not), and others,  *)
(* the empty line included.  legacy is the probe's --legacy-extract.       *)
(***************************************************************************)
EXTENDS Integers, Sequences, FiniteSetsExt

Fences == {"fence-python", "fence", "fence-py", "fence-js"}
TextLine == Fences \cup {"code", "prose"}

FencesAfter(t, i) == {j \in (i + 1)..Len(t) : t[j] \in Fences}
Between(t, i, j) == SubSeq(t, i + 1, j - 1)

(* Mutant: a greedy regular expression. *)
UpToTheLast(t, i) == Between(t, i, Max(FencesAfter(t, i)))

(* .*? up to the next three backquotes. *)
UpToTheNext(t, i) == Between(t, i, Min(FencesAfter(t, i)))

(* CODE_FENCE_RE knows fewer openers than OPEN_FENCE_RE, and both need the *)
(* newline after it.                                                       *)
CodeFence(t) == {i \in DOMAIN t : t[i] \in {"fence-python", "fence"} /\ FencesAfter(t, i) # {}}
OpenFence(t) == {i \in 1..(Len(t) - 1) : t[i] \in {"fence-python", "fence", "fence-py"}}

(* The text without its lines of backquotes. *)
WithoutFences(t) == SelectSeq(t, LAMBDA l : l \notin Fences)

extract_code(t, legacy) ==
    IF CodeFence(t) # {} THEN UpToTheNext(t, Min(CodeFence(t)))
    ELSE IF legacy THEN t
    ELSE IF OpenFence(t) # {}
         THEN LET i == Min(OpenFence(t)) IN
              IF FencesAfter(t, i) # {} THEN UpToTheNext(t, i) ELSE Between(t, i, Len(t) + 1)
         ELSE WithoutFences(t)

fence_unclosed(t) == CodeFence(t) = {} /\ OpenFence(t) # {}

------------------------------------------------------------------------------
(* What the two functions promise together, by the lines of backquotes     *)
(* alone, of which the first opens a block and the next closes it: the     *)
(* code is that block, up to its end or, unclosed, to that of the text,    *)
(* and is said to be unclosed in that case only.  Without a block, or if   *)
(* it opens where the text ends, it is all of the text but the fence.      *)
(* --legacy-extract differs where the block is not closed only: there it   *)
(* is all of the text.                                                     *)
IsFirstBlock(code, unclosed, t, legacy) ==
    LET fences == {i \in DOMAIN t : t[i] \in Fences}
        first == Min(fences)
        closed == \E j \in fences : j > first
        open == fences # {} /\ ~closed /\ first # Len(t)
    IN /\ unclosed <=> open
       /\ CASE ~closed /\ legacy -> code = t
            [] ~closed /\ ~legacy /\ ~open -> code = WithoutFences(t)
            [] OTHER ->
                 \E last \in first..Len(t) :
                    /\ code = SubSeq(t, first + 1, last)
                    /\ last + 1 \in fences \cup {Len(t) + 1}
                    /\ \A j \in (first + 1)..last : t[j] \notin Fences

(* The first block's fence is one that both regular expressions know.  (A  *)
(* block of another language is not seen to open, so that its end is taken *)
(* for the beginning of one.)                                              *)
OpensPlainly(t) ==
    \A i \in DOMAIN t : t[i] \in {"fence-py", "fence-js"} =>
        \E j \in 1..(i - 1) : t[j] \in {"fence-python", "fence"}
==============================================================================
