----------------------------- MODULE MCInventory -----------------------------
(* Inventory on every part of a small tree: a root with a directory, a     *)
(* .git directory, a file called .git, a link and files of every           *)
(* extension, and what of it cannot be read.                               *)
EXTENDS Inventory

MCRoots == {"root", ".git", "link", "z.go"}

MCOrder == <<"root", ".git", "HEAD", "dir", "dir/.git", "dir/a.go", "dir/b.gooo", "link", "z.go">>

MCParent ==
  [n \in Entries \ {"root"} |->
     IF n = "HEAD" THEN ".git"
     ELSE IF n \in {"dir/.git", "dir/a.go", "dir/b.gooo"} THEN "dir" ELSE "root"]

MCKind ==
  [n \in Entries |->
     IF n \in {"root", ".git", "dir"} THEN "directory"
     ELSE IF n = "link" THEN "link" ELSE "file"]

MCGit == {".git", "dir/.git"}

MCExtension ==
  [n \in Entries |->
     IF n \in {"dir/a.go", "z.go"} THEN ".go" ELSE IF n = "dir/b.gooo" THEN ".gooo" ELSE ""]

MCContent ==
  [n \in Entries |->
     IF n = "dir/a.go" THEN <<"other", Newline, "other">>
     ELSE IF n = "dir/b.gooo" THEN <<Newline, Newline>>
     ELSE IF n = "z.go" THEN <<>>
     ELSE <<"other", Newline>>]

MCBarriers == {{}, {".git", "z.go"}}
=============================================================================
