--------------------------- MODULE MCFolderLibrary ---------------------------
(* Two layouts: "a" with a subdirectory "b", and the same with "ab", which *)
(* LIKE 'a%' matches although it is a sibling of "a".                      *)
EXTENDS FolderLibrary, TLC

Nested == {"a", "b"}
Siblings == {"a", "b", "ab"}

ParentIn(S) == [p \in S |-> IF p = "b" THEN "a" ELSE NoPath]
SubtreeIn(S) == [p \in S |-> IF p = "a" THEN {"a", "b"} ELSE {p}]
PrefixedIn(S) == [p \in S |-> IF p = "a" THEN S ELSE {p}]

ParentOfNested == ParentIn(Nested)
SubtreeOfNested == SubtreeIn(Nested)
PrefixedOfNested == PrefixedIn(Nested)
ParentOfSiblings == ParentIn(Siblings)
SubtreeOfSiblings == SubtreeIn(Siblings)
PrefixedOfSiblings == PrefixedIn(Siblings)

CallerSymmetry == Permutations(Callers)
=============================================================================
