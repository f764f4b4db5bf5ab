----------------------------- MODULE MCExplorer -----------------------------
(* Values for the constants of the explorer's runs. *)
EXTENDS ExplorerProperties

OneContent == {<<"x", "y">>}
OneText == {<<"t", "t">>}
RelativePaths == {Relative(<<n>>) : n \in Names}
ManyPaths == RelativePaths \cup {Absolute(<<n>>) : n \in Names}
             \cup {Absolute(<<>>), Relative(<<".">>), Relative(<<"..">>)}
=============================================================================
