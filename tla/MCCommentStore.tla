--------------------------- MODULE MCCommentStore ---------------------------
\* An instance of CommentStore for TLC.
EXTENDS CommentStore, TLC

CONSTANTS h1, h2, p1

\* The first comment's texts have the words of any other author's of the same
\* number of edits; the second's are all different.
FirstAlike ==
    [of \in Comments \X Texts |-> IF of[1] = 1 THEN Text(None, of[2].edit) ELSE of[2]]

Symmetry == Permutations(Hydrators) \union Permutations(Publishers)
=============================================================================
