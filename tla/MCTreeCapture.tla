---------------------------- MODULE MCTreeCapture ----------------------------
(***************************************************************************)
(* A Workspace of up to three entries under two directories, and its .git, *)
(* captured beside another seal.                                           *)
(***************************************************************************)
EXTENDS TreeCapture

CONSTANTS w, p1, b1, b2, b3

MCPublishers == {w, p1}
MCObjects == {b1, b2, b3}
MCSize == (b1 :> 1 @@ b2 :> 1 @@ b3 :> 2)
MCOrder == <<".git", "a", "d">>

MCType ==
    [root |-> "directory", git |-> "symlink", dir |-> "directory",
     file |-> "file", tool |-> "executable", other |-> "file",
     link |-> "symlink", fifo |-> "special", mount |-> "mount"]
MCNodes == DOMAIN MCType

Leads(f) == [n \in Range(MCOrder) |-> IF n \in DOMAIN f THEN f[n] ELSE "nowhere"]
Layout(top, inner) ==
    [root |-> Leads(".git" :> "git" @@ "d" :> "dir" @@ top), dir |-> Leads(inner)]
MCLayouts ==
    {Layout("a" :> "file", "a" :> "tool"),
     Layout(<<>>, "a" :> "tool" @@ "d" :> "link"),
     Layout("a" :> "other", "a" :> "other"),
     Layout("a" :> "other", "a" :> "other" @@ "d" :> "tool")}   \* one too many
MCWritten == [file |-> b1, tool |-> b1, other |-> b2, link |-> b3]

Known(path, kind, payload) == [path |-> path, kind |-> kind, payload |-> payload]
MCBase == <<Known(<<"a">>, "file", b2), Known(<<"d", "a">>, "executable", b1)>>

MCScopes ==
    {{<<"a">>, <<"d", "*">>}, {<<"**", "a">>}, {<<"d", "**">>}}
MCShared == {b2}
MCSpare == {"tool", "other", "link", "fifo", "mount"}

\* A behaviour has a change to the tree, or a failed call and a power loss.
Disturbed == changes = 0 \/ losses + faults = 0

=============================================================================
