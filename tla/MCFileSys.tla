----------------------------- MODULE MCFileSys -----------------------------
(* Small instances of FileSys for TLC.                                     *)
EXTENDS FileSys

CONSTANTS p1, p2

Abs(el) == [abs |-> TRUE, el |-> el]
Rel(el) == [abs |-> FALSE, el |-> el]
One(op, path) == [op |-> op, path |-> path, new |-> Abs(<<>>)]

\* p1 makes and removes the directories /a and /a/b; p2 works in /a/b, which it
\* may have as its current directory when p1 removes both.
MCCalls ==
    p1 :> {One("mkdir", Abs(<<"a">>)), One("unlink", Abs(<<"a">>)),
           One("mkdir", Abs(<<"a", "b">>)), One("unlink", Abs(<<"a", "b">>)),
           One("mkdir", Abs(<<>>))}
    @@
    p2 :> {One("chdir", Abs(<<"a", "b">>)), One("chdir", Abs(<<>>)),
           One("open", Rel(<<"..", "b">>)), One("create", Rel(<<"b">>)),
           One("mknod", Abs(<<"b">>)), One("unlink", Rel(<<"b">>)),
           One("unlink", Rel(<<".">>)),
           [op |-> "link", path |-> Abs(<<"b">>), new |-> Abs(<<"a", "b">>)],
           [op |-> "link", path |-> Abs(<<"b">>), new |-> Abs(<<"b">>)]}
=============================================================================
