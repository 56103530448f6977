----------------------------- MODULE MCWorkClaims -----------------------------
(* Small instances of WorkClaims for TLC. *)
EXTENDS WorkClaims, TLC

CONSTANTS h1, h2

(* Two worktrees of a repository; a directory and a file in it. *)
TwoWorktrees == {<<"r", "a">>, <<"r", "b">>}
NestedScopes == {{<<"src">>}, {<<"src", "lib">>}}

Declares(m, w, s, h) == [mode |-> m, worktree |-> w, scope |-> s, head |-> h]

(* Two writers that collide on one issue only, and a reader that expects    *)
(* another head.                                                            *)
TwoWritersAndReader ==
  {Declares("writable", <<"r", "a">>, {<<"src">>}, h1),
   Declares("writable", <<"r", "b">>, {<<"src", "lib">>}, h1),
   Declares("read_only", <<"r", "a">>, {<<"src">>}, h2)}

OwnershipSymmetry == Permutations(Agents) \cup Permutations(Claims) \cup Permutations(Projects)
===============================================================================
