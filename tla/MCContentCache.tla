---------------------------- MODULE MCContentCache ----------------------------
(***************************************************************************)
(* ContentCache with every archive of up to three of a choice of entries,  *)
(* the archives written from small directories, and single files of three  *)
(* sizes as the typical contents.  Component 9 is "1\2".                   *)
(***************************************************************************)
EXTENDS ContentCache, TLC

Entry(k, n, b) == [kind |-> k, name |-> n, size |-> b]

MCBackslashed == [c \in {9} |-> <<1, 2>>]

MCEntries == {Entry("file", <<1>>, 1), Entry("file", <<1, 2>>, 1),
              Entry("file", <<1, 2, 3>>, 2), Entry("file", <<9>>, 1),
              Entry("file", <<1, Up>>, 1), Entry("file", <<2, Up, 3>>, 3),
              Entry("dir", <<1>>, 0), Entry("dir", <<1, 2>>, 0), Entry("dir", <<>>, 0),
              Entry("link", <<1, 2>>, 0), Entry("link", <<1, Up, Up>>, 0),
              Entry("file", <<Slash, 1>>, 1), Entry("broken", <<>>, 0)}

MCTypical  == {<<Entry("file", <<1>>, b)>> : b \in {1, 2, 4}}
MCArchives == UNION {[1 .. k -> MCEntries] : k \in 0 .. 3} \cup MCTypical

Nodes == {<<1>>, <<1, 2>>, <<1, 2, 3>>, <<9>>}
Shapes == {d \in SUBSET Nodes : \A p \in d : Prefixes(p) \subseteq d}
Kinds == {[kind |-> "dir", size |-> 0], [kind |-> "file", size |-> 1],
          [kind |-> "link", size |-> 0]}
MCTrees == {tree \in UNION {[d -> Kinds] : d \in Shapes} :
               \A p \in DOMAIN tree : \A q \in Prefixes(Dir(p)) : tree[q].kind = "dir"}

MCBudgets == {-1, 3}

Symmetry == Permutations(Names) \cup Permutations(Readers)
=============================================================================
