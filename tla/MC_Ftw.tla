------------------------------ MODULE MC_Ftw -------------------------------
(* Instances of Ftw: trees of a root and four files.                       *)
EXTENDS Ftw
Files == {"a", "b", "x", "y"}
Shape == {
  \* root/a/b/x, root/y
  [a |-> "root", b |-> "a", x |-> "b", y |-> "root"],
  \* root/a, root/b/x, root/y: an empty directory
  [a |-> "root", b |-> "root", x |-> "b", y |-> "root"],
  \* root/a/x, root/b/y
  [a |-> "root", b |-> "root", x |-> "a", y |-> "b"]}
Directories == {"root", "a", "b"}
Lengths == [a |-> 4, b |-> 1, x |-> 3, y |-> 4]
Trees == {[parent |-> [f \in Files \cup {"root"} |-> IF f = "root" THEN u ELSE s[f]],
           dir |-> Directories, read |-> r, search |-> e, len |-> Lengths, rootLen |-> l] :
           s \in Shape, l \in {0, 1, 2, 3, 7}, u \in {"above", "none"},
           r \in {Directories, {"root", "a"}},
           e \in {Directories \cup {"above"}, {"root", "b", "above"}, Directories}}
=============================================================================
